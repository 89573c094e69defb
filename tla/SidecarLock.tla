---------------------------- MODULE SidecarLock -----------------------------
(***************************************************************************)
(* The TypeScript journal's lock (ts/src/Lock.ts) and the two critical     *)
(* sections under it: appendEvent (ts/src/Journal.ts) and the checkpoint   *)
(* (ts/src/Checkpoint.ts).  The lock is a file created with O_EXCL beside  *)
(* the journal; who finds it there polls, and takes it away when it looks  *)
(* abandoned.                                                              *)
(*                                                                         *)
(* A process is the set of its fibers.  Fibers of one process interleave   *)
(* where a generator yields, and may not between two calls of one tick;    *)
(* processes interleave anywhere.  Time is a flag: the lock file is older  *)
(* than staleAfterMs or not, and a deadline may pass whenever it is read.  *)
(***************************************************************************)
EXTENDS Journal

CONSTANTS
  Processes,  \* disjoint sets of fibers
  OneHost     \* all of them run on one host, and see each other's pids

ASSUME ProcessAssumption ==
  /\ \A p, q \in Processes : p # q => p \cap q = {}
  /\ OneHost \in BOOLEAN

Fibers    == UNION Processes
ProcessOf(f) == CHOOSE p \in Processes : f \in p

ASSUME FiberAssumption == IsFiniteSet(Fibers)

VARIABLES
  lockfile,  \* the file `${journalPath}.lock`
  depth,     \* reentryDepth, per process
  at,        \* per fiber, where it is in withJournalLock
  nested,    \* per fiber, it entered by reentry
  seen,      \* per fiber, what statSync told of the lock file
  draft,     \* per fiber, the event it appends
  answer,    \* per fiber, the id of the event its append returned, 0: it failed
  journal,   \* the events on file
  written,   \* their previous_event_hash, checkpoint_count, and who wrote them
  alive,     \* processes not killed
  gaps       \* history: how two parties may have come into the section

lockVars == <<lockfile, depth, at, nested, seen, draft, answer, journal, written, alive, gaps>>

(***************************************************************************)
(* The claimer and what it appends stand for the token of a lock file:     *)
(* every claim has a new one.  whole: the record is written.               *)
(***************************************************************************)
NoFile  == [owner |-> {}, for |-> "nothing", whole |-> FALSE, aged |-> FALSE]
NoDraft == [event |-> [type |-> "nothing"], count |-> 0, prev |-> 0]

Checkpoint == [type |-> "checkpoint", key |-> NoKey, value |-> "denied", dry |-> FALSE, ref |-> 0]

Steps == {"out", "enter", "claim", "record", "stat", "read", "reclaim", "poll",
          "count", "tail", "append", "release", "drop"}

LockInit ==
  /\ lockfile = NoFile
  /\ depth = [p \in Processes |-> 0]
  /\ at = [f \in Fibers |-> "out"]
  /\ nested = [f \in Fibers |-> FALSE]
  /\ seen = [f \in Fibers |-> NoFile]
  /\ draft = [f \in Fibers |-> NoDraft]
  /\ answer = [f \in Fibers |-> 0]
  /\ journal = << >> /\ written = << >>
  /\ alive = Processes
  /\ gaps = {}

Exists  == lockfile # NoFile
Mine(f) == Exists /\ lockfile.owner = {f} /\ lockfile.for = draft[f].event.type
InSection(f) == at[f] \in {"count", "tail", "append", "release", "drop"}

\* The claim at the path is one whose owner is, alive, on its way to the section or in it.
Held == \E f \in UNION alive : Mine(f) /\ ~nested[f] /\ (at[f] = "record" \/ InSection(f))

\* f may go on: its process lives, and no sibling is in the middle of a tick.
Turn(f) ==
  /\ ProcessOf(f) \in alive
  /\ \A g \in ProcessOf(f) \ {f} : at[g] \notin {"record", "read", "reclaim", "drop"}

GoesTo(f, step) == at' = [at EXCEPT ![f] = step]
Entry(f) == IF draft[f].event.type = "checkpoint" THEN "count" ELSE "tail"

Fails(f) == GoesTo(f, "out") /\ answer' = [answer EXCEPT ![f] = 0]

\* withJournalLock(journalPath, () => append event)
Log(f, event) ==
  /\ at[f] = "out"
  /\ GoesTo(f, "enter")
  /\ draft' = [draft EXCEPT ![f] = [event |-> event, count |-> 0, prev |-> 0]]
  /\ UNCHANGED <<lockfile, depth, nested, seen, answer, journal, written, alive, gaps>>

\* Whoever asked for the append is done with its result.
Forget(f) ==
  /\ draft' = [draft EXCEPT ![f] = NoDraft]
  /\ answer' = [answer EXCEPT ![f] = 0]
  /\ UNCHANGED <<lockfile, depth, at, nested, seen, journal, written, alive, gaps>>

-----------------------------------------------------------------------------
(***************************************************************************)
(* The depth is 1 before the lock is claimed, so a sibling that enters now *)
(* does so without it.  No caller in src/ nests, so each reentry is one.   *)
(***************************************************************************)
Enter(f) ==
  LET p == ProcessOf(f) IN
  /\ at[f] = "enter" /\ Turn(f)
  /\ depth' = [depth EXCEPT ![p] = @ + 1]
  /\ nested' = [nested EXCEPT ![f] = depth[p] > 0]
  /\ GoesTo(f, IF depth[p] > 0 THEN Entry(f) ELSE "claim")
  /\ gaps' = IF depth[p] > 0 THEN gaps \cup {"reentered"} ELSE gaps
  /\ UNCHANGED <<lockfile, seen, draft, answer, journal, written, alive>>

\* openSync(lockfile, "wx"), at once or after the sleep of a poll.  Another error
\* than EEXIST ends the call, and the depth stays at 1.
Claim(f) ==
  /\ at[f] \in {"claim", "poll"} /\ Turn(f)
  /\ \/ Exists /\ GoesTo(f, "stat") /\ UNCHANGED <<lockfile, answer>>
     \/ /\ ~Exists /\ GoesTo(f, "record") /\ UNCHANGED answer
        /\ lockfile' = [owner |-> {f}, for |-> draft[f].event.type, whole |-> FALSE, aged |-> FALSE]
     \/ Fails(f) /\ UNCHANGED lockfile
  /\ UNCHANGED <<depth, nested, seen, draft, journal, written, alive, gaps>>

\* writeSync of the record, to the file that was opened, wherever that is now.
Record(f) ==
  /\ at[f] = "record" /\ Turn(f)
  /\ \/ /\ lockfile' = [lockfile EXCEPT !.whole = Mine(f) \/ @]
        /\ GoesTo(f, Entry(f)) /\ UNCHANGED answer
     \/ Fails(f) /\ UNCHANGED lockfile
  /\ UNCHANGED <<depth, nested, seen, draft, journal, written, alive, gaps>>

Stat(f) ==
  /\ at[f] = "stat" /\ Turn(f)
  /\ seen' = [seen EXCEPT ![f] = lockfile]
  /\ GoesTo(f, IF Exists THEN "read" ELSE "poll")
  /\ UNCHANGED <<lockfile, depth, nested, draft, answer, journal, written, alive, gaps>>

Dead(owner) == \A p \in alive : owner \cap p = {}

(***************************************************************************)
(* pidAlive asks this host, whatever host the record names.  There, the    *)
(* pid of a process of another may be nobody's; and that of a dead one     *)
(* somebody's.                                                             *)
(***************************************************************************)
MayBeGone(f) ==
  \/ Dead(lockfile.owner)
  \/ ~OneHost /\ lockfile.owner \cap ProcessOf(f) = {}

\* Mutant: a record that does not parse is taken for an abandoned one.
Stale_Partial(f, running) ==
  IF lockfile.whole THEN ~running \/ lockfile.aged ELSE TRUE

\* isStale: the age of a record is its own, that of an unreadable one the file's.
Stale(f, running) ==
  IF lockfile.whole THEN ~running \/ lockfile.aged ELSE seen[f].aged

Read(f) ==
  /\ at[f] = "read" /\ Turn(f)
  /\ \E running \in BOOLEAN :
       /\ running \/ MayBeGone(f)
       /\ IF Stale(f, running)
          THEN GoesTo(f, "reclaim") /\ seen' = [seen EXCEPT ![f].whole = lockfile.whole]
          ELSE GoesTo(f, "poll") /\ seen' = [seen EXCEPT ![f] = NoFile]
  /\ UNCHANGED <<lockfile, depth, nested, draft, answer, journal, written, alive, gaps>>

(***************************************************************************)
(* tryUnlink, of whatever is at the path by now.  An aged claim may be one *)
(* whose owner is only slow, one found dead may live on another host, and  *)
(* a claim other than the one looked at may be anybody's.                  *)
(***************************************************************************)
Another(f) == [lockfile EXCEPT !.whole = TRUE, !.aged = TRUE] # [seen[f] EXCEPT !.whole = TRUE, !.aged = TRUE]

Reclaim(f) ==
  /\ at[f] = "reclaim" /\ Turn(f)
  /\ lockfile' = NoFile
  /\ GoesTo(f, "poll")
  /\ seen' = [seen EXCEPT ![f] = NoFile]
  /\ gaps' = gaps \cup {g \in {"replaced", "overdue", "mistaken"} :
                 /\ Held
                 /\ g = "replaced" <=> Another(f)
                 /\ g = "overdue" => lockfile.aged
                 /\ g = "mistaken" => seen[f].whole /\ ~lockfile.aged}
  /\ UNCHANGED <<depth, nested, draft, answer, journal, written, alive>>

\* The deadline has passed.  No release runs, and the depth stays at 1.
GiveUp(f) ==
  /\ at[f] = "poll" /\ Turn(f)
  /\ Fails(f)
  /\ UNCHANGED <<lockfile, depth, nested, seen, draft, journal, written, alive, gaps>>

-----------------------------------------------------------------------------
\* countLines of a checkpoint.
Count(f) ==
  /\ at[f] = "count" /\ Turn(f)
  /\ draft' = [draft EXCEPT ![f].count = Len(journal)]
  /\ GoesTo(f, "tail")
  /\ UNCHANGED <<lockfile, depth, nested, seen, answer, journal, written, alive, gaps>>

\* readLastEventHash; an event's id stands for its hash.
ReadTail(f) ==
  /\ at[f] = "tail" /\ Turn(f)
  /\ draft' = [draft EXCEPT ![f].prev = Len(journal)]
  /\ GoesTo(f, "append")
  /\ UNCHANGED <<lockfile, depth, nested, seen, answer, journal, written, alive, gaps>>

\* The event is written and synced; or written, and the sync raises; or nothing is.
WriteEvent(f) ==
  /\ at[f] = "append" /\ Turn(f)
  /\ \/ /\ journal' = Append(journal, draft[f].event)
        /\ written' = Append(written, [prev |-> draft[f].prev, count |-> draft[f].count, by |-> f])
        /\ \E id \in {0, Len(journal) + 1} : answer' = [answer EXCEPT ![f] = id]
     \/ answer' = [answer EXCEPT ![f] = 0] /\ UNCHANGED <<journal, written>>
  /\ draft' = [draft EXCEPT ![f].prev = 0, ![f].count = 0]
  /\ GoesTo(f, "release")
  /\ UNCHANGED <<lockfile, depth, nested, seen, alive, gaps>>

Release(f) ==
  LET p == ProcessOf(f) IN
  /\ at[f] = "release" /\ Turn(f)
  /\ depth' = [depth EXCEPT ![p] = IF nested[f] /\ @ > 1 THEN @ - 1 ELSE 0]
  /\ GoesTo(f, IF ~nested[f] /\ Mine(f) THEN "drop" ELSE "out")
  /\ nested' = [nested EXCEPT ![f] = FALSE]
  /\ UNCHANGED <<lockfile, seen, draft, answer, journal, written, alive, gaps>>

Drop(f) ==
  /\ at[f] = "drop" /\ Turn(f)
  /\ lockfile' = NoFile
  /\ GoesTo(f, "out")
  /\ UNCHANGED <<depth, nested, seen, draft, answer, journal, written, alive, gaps>>

-----------------------------------------------------------------------------
\* The process dies with all it has in memory; its lock file stays.
Kill(p) ==
  /\ p \in alive
  /\ alive' = alive \ {p}
  /\ depth' = [depth EXCEPT ![p] = 0]
  /\ at' = [f \in Fibers |-> IF f \in p THEN "out" ELSE at[f]]
  /\ nested' = [f \in Fibers |-> f \notin p /\ nested[f]]
  /\ seen' = [f \in Fibers |-> IF f \in p THEN NoFile ELSE seen[f]]
  /\ draft' = [f \in Fibers |-> IF f \in p THEN NoDraft ELSE draft[f]]
  /\ answer' = [f \in Fibers |-> IF f \in p THEN 0 ELSE answer[f]]
  /\ UNCHANGED <<lockfile, journal, written, gaps>>

\* staleAfterMs have passed since the file was created.
Age ==
  /\ Exists /\ ~lockfile.aged
  /\ lockfile' = [lockfile EXCEPT !.aged = TRUE]
  /\ UNCHANGED <<depth, at, nested, seen, draft, answer, journal, written, alive, gaps>>

Locking(f) ==
  \/ Enter(f) \/ Claim(f) \/ Record(f)
  \/ Stat(f) \/ Read(f) \/ Reclaim(f) \/ GiveUp(f)
  \/ Count(f) \/ ReadTail(f) \/ WriteEvent(f) \/ Release(f) \/ Drop(f)

-----------------------------------------------------------------------------
(***************************************************************************)
(* The journal is one chain, and a checkpoint counts the events before it, *)
(* unless a sibling reentered (Lock.ts:129-197), a live holder overstayed  *)
(* staleAfterMs (:89), a claim was unlinked that is not the one found      *)
(* stale (:181), or a live holder on another host was taken for dead       *)
(* (:68-88): no interleaving of claims, reads, reclaims, deadlines, failed *)
(* writes and kills breaks exclusion in another way.                       *)
(***************************************************************************)
ChainHoldsWithoutGap ==
  gaps = {} =>
    \A i \in 1..Len(journal) :
      /\ written[i].prev = i - 1
      /\ journal[i].type = "checkpoint" => written[i].count = i - 1

(* The last of these takes another host: where all processes see each      *)
(* other's pids, nobody alive is taken for dead.                           *)
NoneIsMistaken == OneHost => "mistaken" \notin gaps
=============================================================================
