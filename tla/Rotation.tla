------------------------------ MODULE Rotation ------------------------------
(***************************************************************************)
(* Archive rotation (tesera/archive.py) beside writers that keep appending *)
(* (tesera/journal.py): directory entries, inodes and open handles.        *)
(*                                                                         *)
(* A writer opens the path, which picks an inode, and appends later, when  *)
(* it gets that inode's lock; a rename in between moves the inode under    *)
(* its feet.  An append under the inode's lock is one step (JournalFile).  *)
(* Writers and archivers die at any step; threads are not told apart from  *)
(* processes, as the in-process lock is taken per path and not per archive.*)
(***************************************************************************)
EXTENDS Integers, Sequences, FiniteSets, Functions

CONSTANTS
  Writers,     \* processes that append events
  Archivers,   \* processes that run `tesera archive`
  Keeps,       \* values given to --keep; 0: not given
  MaxEvents,   \* bound: events written, links included
  MaxClaims    \* bound: archive names claimed

ASSUME RotationAssumption ==
  /\ Writers \cap Archivers = {}
  /\ Keeps \subseteq Nat
  /\ MaxEvents \in Nat /\ MaxClaims \in Nat

VARIABLES
  inodes,    \* per inode, the events in it
  mtimes,    \* per inode, the time of its last modification
  written,   \* events written so far: the source of their ids
  live,      \* the inode at the journal's path, 0: none
  names,     \* per archive name ever claimed, its inode, 0: none
  pc,        \* per process, its next step
  my,        \* per process, its locals
  acked,     \* history: events whose append returned
  pruned,    \* history: inodes deleted by --keep
  disturbed  \* history: a writer was active during an archive, or a recount failed

vars == <<inodes, mtimes, written, live, names, pc, my, acked, pruned, disturbed>>

History == <<acked, pruned, disturbed>>

\* An archive event commits to count and head of the file at name, which is
\* never empty; name 0 is any other event.
Event ==
  [id : Nat \ {0}, count : {0}, head : {0}, name : {0}]
  \cup
  [id : Nat \ {0}, count : Nat \ {0}, head : Nat \ {0}, name : Nat \ {0}]

NoLocals == [inode |-> 0, count |-> 0, head |-> 0, name |-> 0, keep |-> 0]

PCs == {"idle", "append", "claim", "rename", "settle", "rollback?", "rollback",
        "open", "link", "prune"}

(***************************************************************************)
(* Type correctness: an archive event commits to a non-empty file under a  *)
(* claimed name, and every handle and name refers to an inode that exists  *)
(* (archive_journal).                                                      *)
(***************************************************************************)
TypeOK ==
  /\ inodes \in Seq(Seq(Event))
  /\ mtimes \in Seq(Nat) /\ Len(mtimes) = Len(inodes)
  /\ written \in 0..MaxEvents
  /\ live \in 0..Len(inodes)
  /\ names \in Seq(0..Len(inodes))
  /\ pc \in [Writers \cup Archivers -> PCs]
  /\ my \in [Writers \cup Archivers ->
              [inode : 0..Len(inodes), count : Nat, head : Nat,
               name : 0..Len(names), keep : Keeps \cup {0}]]
  /\ acked \subseteq 1..MaxEvents
  /\ pruned \subseteq 1..Len(inodes)
  /\ disturbed \in BOOLEAN

Init ==
  /\ inodes = <<>> /\ mtimes = <<>> /\ written = 0
  /\ live = 0 /\ names = <<>>
  /\ pc = [p \in Writers \cup Archivers |-> "idle"]
  /\ my = [p \in Writers \cup Archivers |-> NoLocals]
  /\ acked = {} /\ pruned = {} /\ disturbed = FALSE

-----------------------------------------------------------------------------
\* The time: every creation and every write is a tick.
Now == Len(inodes) + written

HeadOf(i) == IF inodes[i] = <<>> THEN 0 ELSE inodes[i][Len(inodes[i])].id

Goto(p, label) == pc' = [pc EXCEPT ![p] = label]

\* The operation ends, by returning or by raising.
Return(p) ==
  /\ Goto(p, "idle")
  /\ my' = [my EXCEPT ![p] = NoLocals]

\* Create an empty file, as the newest inode.
Create ==
  /\ inodes' = Append(inodes, <<>>)
  /\ mtimes' = Append(mtimes, Now + 1)

\* open(path, "a+b"): creates the file when there is none.  i is its inode.
OpenLive(i) ==
  \/ live # 0 /\ i = live /\ UNCHANGED <<inodes, mtimes, live>>
  \/ live = 0 /\ i = Len(inodes) + 1 /\ live' = i /\ Create

\* Append e to inode i, wherever the inode is by now.
AppendTo(i, e) ==
  /\ written < MaxEvents
  /\ written' = written + 1
  /\ inodes' = [inodes EXCEPT ![i] = Append(@, e)]
  /\ mtimes' = [mtimes EXCEPT ![i] = Now + 1]

Archiving == \E a \in Archivers : pc[a] # "idle"
Writing   == \E w \in Writers : pc[w] # "idle"

Open(w) ==
  /\ pc[w] = "idle"
  /\ written < MaxEvents
  /\ \E i \in 1..Len(inodes) + 1 :
       OpenLive(i) /\ my' = [my EXCEPT ![w].inode = i]
  /\ Goto(w, "append")
  /\ disturbed' = (disturbed \/ Archiving)
  /\ UNCHANGED <<written, names, acked, pruned>>

Write(w) ==
  LET e == [id |-> written + 1, count |-> 0, head |-> 0, name |-> 0]
  IN  /\ pc[w] = "append"
      /\ AppendTo(my[w].inode, e)
      /\ acked' = acked \cup {e.id}
      /\ Return(w)
      /\ UNCHANGED <<live, names, pruned, disturbed>>

-----------------------------------------------------------------------------
\* Mutant: an empty journal is archived too.
Stat_Empty(a, keep) ==
  /\ pc[a] = "idle"
  /\ Len(names) < MaxClaims
  /\ live # 0
  /\ my' = [my EXCEPT ![a] = [NoLocals EXCEPT
              !.count = Len(inodes[live]), !.head = HeadOf(live), !.keep = keep]]
  /\ Goto(a, "claim")
  /\ disturbed' = (disturbed \/ Writing)
  /\ UNCHANGED <<inodes, mtimes, written, live, names, acked, pruned>>

\* archive_stats opens the journal, creating it; an empty one is refused.
Stat(a, keep) ==
  /\ pc[a] = "idle"
  /\ Len(names) < MaxClaims
  /\ \E i \in 1..Len(inodes) + 1 :
       /\ OpenLive(i)
       /\ IF live # 0 /\ inodes[live] # <<>>
          THEN /\ my' = [my EXCEPT ![a] = [NoLocals EXCEPT
                           !.count = Len(inodes[live]), !.head = HeadOf(live), !.keep = keep]]
               /\ Goto(a, "claim")
          ELSE Return(a)
  /\ disturbed' = (disturbed \/ Writing)
  /\ UNCHANGED <<written, names, acked, pruned>>

\* _claim_archive_path: O_CREAT|O_EXCL leaves an empty placeholder at a new name.
Claim(a) ==
  /\ pc[a] = "claim"
  /\ Len(names) < MaxClaims
  /\ Create
  /\ names' = Append(names, Len(inodes) + 1)
  /\ my' = [my EXCEPT ![a].name = Len(names) + 1]
  /\ Goto(a, "rename")
  /\ UNCHANGED <<written, live, History>>

\* os.replace of the journal over the placeholder; the placeholder stays when
\* it fails.
Rename(a) ==
  /\ pc[a] = "rename"
  /\ \/ /\ live # 0
        /\ names' = [names EXCEPT ![my[a].name] = live]
        /\ live' = 0
        /\ Goto(a, "settle")
        /\ UNCHANGED my
     \/ /\ Return(a)
        /\ UNCHANGED <<names, live>>
  /\ UNCHANGED <<inodes, mtimes, written, History>>

\* Mutant: the archived file is not counted again after the rename.
Settle_Trusts(a) ==
  /\ pc[a] = "settle"
  /\ Goto(a, "open")
  /\ UNCHANGED <<inodes, mtimes, written, live, names, my, History>>

\* The archived file must still be what was counted before the rename; it is
\* taken back when it is not, and when it cannot be read.
Settle(a) ==
  LET n == my[a].name
      i == names[n]
  IN  /\ pc[a] = "settle"
      /\ \/ /\ i # 0
            /\ Goto(a, IF <<Len(inodes[i]), HeadOf(i)>> = <<my[a].count, my[a].head>>
                       THEN "open" ELSE "rollback?")
            /\ UNCHANGED <<inodes, mtimes, names, disturbed>>
         \/ /\ i = 0
            /\ Create
            /\ names' = [names EXCEPT ![n] = Len(inodes) + 1]
            /\ Goto(a, "rollback?")
            /\ UNCHANGED disturbed
         \/ /\ Goto(a, "rollback?")
            /\ disturbed' = TRUE
            /\ UNCHANGED <<inodes, mtimes, names>>
      /\ UNCHANGED <<written, live, my, acked, pruned>>

\* _rollback_archive looks for a successor, and moves the journal back over
\* whatever is there by then; either way the archive raises.
CheckRollback(a) ==
  /\ pc[a] = "rollback?"
  /\ IF live # 0 THEN Return(a) ELSE Goto(a, "rollback") /\ UNCHANGED my
  /\ UNCHANGED <<inodes, mtimes, written, live, names, History>>

Rollback(a) ==
  /\ pc[a] = "rollback"
  /\ IF names[my[a].name] # 0
     THEN /\ live' = names[my[a].name]
          /\ names' = [names EXCEPT ![my[a].name] = 0]
     ELSE UNCHANGED <<live, names>>
  /\ Return(a)
  /\ UNCHANGED <<inodes, mtimes, written, History>>

\* Open the successor; then, under its lock, refuse to link after foreign events.
OpenSuccessor(a) ==
  /\ pc[a] = "open"
  /\ \E i \in 1..Len(inodes) + 1 :
       OpenLive(i) /\ my' = [my EXCEPT ![a].inode = i]
  /\ Goto(a, "link")
  /\ UNCHANGED <<written, names, History>>

\* Mutant: the archive event is appended whatever the file holds.
Link_Anywhere(a) ==
  LET m == my[a]
  IN  /\ pc[a] = "link"
      /\ AppendTo(m.inode, [id |-> written + 1, count |-> m.count,
                            head |-> m.head, name |-> m.name])
      /\ Goto(a, "prune")
      /\ UNCHANGED <<live, names, my, History>>

Link(a) ==
  LET m == my[a]
  IN  /\ pc[a] = "link"
      /\ \/ /\ inodes[m.inode] = <<>>
            /\ AppendTo(m.inode, [id |-> written + 1, count |-> m.count,
                                  head |-> m.head, name |-> m.name])
            /\ Goto(a, "prune")
            /\ UNCHANGED my
         \/ /\ inodes[m.inode] # <<>>
            /\ Return(a)
            /\ UNCHANGED <<inodes, mtimes, written>>
      /\ UNCHANGED <<live, names, History>>

\* _prune_archives: all but the keep newest by mtime, placeholders included.
Prune(a) ==
  LET archives == {n \in DOMAIN names : names[n] # 0}
      Newer(n) == {m \in archives : mtimes[names[n]] < mtimes[names[m]]}
      doomed   == IF my[a].keep = 0 THEN {}
                  ELSE {n \in archives : Cardinality(Newer(n)) >= my[a].keep}
  IN  /\ pc[a] = "prune"
      /\ names' = [n \in DOMAIN names |-> IF n \in doomed THEN 0 ELSE names[n]]
      /\ pruned' = pruned \cup {names[n] : n \in doomed}
      /\ Return(a)
      /\ UNCHANGED <<inodes, mtimes, written, live, acked, disturbed>>

-----------------------------------------------------------------------------
\* A process dies, or an append or the identity raises: the files stay.
Stop(p) ==
  /\ pc[p] # "idle"
  /\ Return(p)
  /\ UNCHANGED <<inodes, mtimes, written, live, names, History>>

Next ==
  \/ \E w \in Writers : Open(w) \/ Write(w)
  \/ \E a \in Archivers :
       \/ \E keep \in Keeps : Stat(a, keep)
       \/ Claim(a) \/ Rename(a) \/ Settle(a) \/ CheckRollback(a) \/ Rollback(a)
       \/ OpenSuccessor(a) \/ Link(a) \/ Prune(a)
  \/ \E p \in Writers \cup Archivers : Stop(p)

Spec == Init /\ [][Next]_vars

-----------------------------------------------------------------------------
(***************************************************************************)
(* verify_archive_chain: from the live file backwards over its links.      *)
(***************************************************************************)
HasLink(i) == inodes[i] # <<>> /\ inodes[i][1].name # 0

\* The inode n links behind the live file, 0 when the walk has ended.
ChainFile[n \in 0..MaxClaims] ==
  IF n = 0 THEN live
  ELSE LET i == ChainFile[n - 1]
       IN  IF i = 0 \/ ~HasLink(i) THEN 0 ELSE names[inodes[i][1].name]

OnChain == {i \in DOMAIN inodes : \E n \in 0..MaxClaims : ChainFile[n] = i}

\* Every file on the chain matches the link its successor holds.
LinkHolds(i) ==
  HasLink(i) =>
    LET link == inodes[i][1]
        file == names[link.name]
    IN  file # 0 => <<Len(inodes[file]), HeadOf(file)>> = <<link.count, link.head>>

(***************************************************************************)
(* Custody: every link the chain walks matches the file it names ("aborts  *)
(* the operation with ArchiveError instead of producing a broken chain",   *)
(* archive.py).                                                            *)
(***************************************************************************)
CustodyHolds == \A i \in OnChain : LinkHolds(i)

\* An acknowledged event is in some file, unless --keep deleted the file.
NothingLost ==
  \A id \in acked :
    \E i \in (Range(names) \cup {live} \cup pruned) \ {0} :
      \E n \in DOMAIN inodes[i] : inodes[i][n].id = id

(***************************************************************************)
(* As long as no writer is active during an archive, archives that race    *)
(* each other, die at any step and are run again neither lose an event nor *)
(* break custody ("Run archives while writers are quiesced").  A recount   *)
(* that fails is excepted: of three archivers, one can take an empty file  *)
(* back over the journal that another has just taken back.                 *)
(***************************************************************************)
QuiescedRotationIsSafe == ~disturbed => CustodyHolds /\ NothingLost

(***************************************************************************)
(* Whatever the timing, an archive event is only ever the first line of    *)
(* its file (archive_journal.build; EVIDENCE_FORMAT: "must be the first    *)
(* line of their file").                                                   *)
(***************************************************************************)
LinksComeFirst ==
  \A i \in DOMAIN inodes : \A n \in DOMAIN inodes[i] :
    inodes[i][n].name # 0 => n = 1
=============================================================================
