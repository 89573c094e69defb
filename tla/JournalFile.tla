---------------------------- MODULE JournalFile ----------------------------
(***************************************************************************)
(* One append to the journal file (tesera/journal.py, append_event and     *)
(* append_event_atomic), step by step: several processes on one file, each *)
(* with its in-process idempotency index, under kills, failed writes and   *)
(* failed syncs.  Threads of one process hold FileJournal._lock for the    *)
(* whole of an append, so a process is one writer.                         *)
(*                                                                         *)
(* The file is a sequence of pieces; an event is written as two pieces and *)
(* a newline, so that a write can stop in the middle.  An event's id       *)
(* stands for its event_hash, prev for previous_event_hash (0: genesis).   *)
(* In the index, the ids of the events folded in stand for its tables.     *)
(***************************************************************************)
EXTENDS Integers, Sequences, FiniteSetsExt, Places

CONSTANTS
  Procs,       \* processes that append
  NoProc,      \* nobody holds the file lock
  Faults,      \* subset of {"kill", "sync", "full"}
  MaxAppends   \* bound: appends attempted

ASSUME FileAssumption ==
  /\ NoProc \notin Procs
  /\ Faults \subseteq {"kill", "sync", "full"}
  /\ MaxAppends \in Nat

VARIABLES
  file,     \* the pieces on disk
  lock,     \* holder of the exclusive flock
  pc,       \* per process, the next step of its append
  mine,     \* per process, the append's locals
  index,    \* per process, its _IDEM_TABLES_CACHE entry for the file
  attempts, \* appends attempted so far: the source of event ids
  acked,    \* history: events whose append returned
  cutShort  \* history: a flush wrote less than the whole event

vars == <<file, lock, pc, mine, index, attempts, acked, cutShort>>

Parts == <<"head", "tail", "eol">>
Piece == [id : Nat, prev : Nat, part : {"head", "tail", "eol"}]

Encoded(id, prev) == [i \in 1..3 |-> [id |-> id, prev |-> prev, part |-> Parts[i]]]

NoIndex == [size |-> -1, head |-> 0, events |-> <<>>]

\* size, head: what was read of the file; prev: the previous hash; before:
\* size_before; buffer: pieces the handle has not written; ok: nothing raised.
NoAppend == [size |-> 0, head |-> 0, prev |-> 0, before |-> 0,
             id |-> 0, buffer |-> <<>>, ok |-> FALSE]

PCs == {"idle", "state", "tables", "tail", "write", "flush", "sync", "note",
        "unlock", "close"}

(***************************************************************************)
(* Type correctness: the file is a sequence of pieces, at most one process *)
(* holds its lock, and only events that were appended were acknowledged    *)
(* (JournalFile.append_event).                                             *)
(***************************************************************************)
TypeOK ==
  /\ file \in Seq(Piece)
  /\ lock \in Procs \cup {NoProc}
  /\ pc \in [Procs -> PCs]
  /\ mine \in [Procs -> [size : Nat, head : Int, prev : Nat, before : Nat,
                         id : Nat, buffer : Seq(Piece), ok : BOOLEAN]]
  /\ index \in [Procs -> [size : Int, head : Nat, events : Seq(Nat)]]
  /\ attempts \in 0..MaxAppends
  /\ acked \subseteq 1..MaxAppends
  /\ cutShort \in BOOLEAN

Init ==
  /\ file = <<>>
  /\ lock = NoProc
  /\ pc = [p \in Procs |-> "idle"]
  /\ mine = [p \in Procs |-> NoAppend]
  /\ index = [p \in Procs |-> NoIndex]
  /\ attempts = 0
  /\ acked = {}
  /\ cutShort = FALSE

-----------------------------------------------------------------------------
\* Where a line of f starts.
LineStarts(f) ==
  {i \in 1..Len(f) : f[i].part # "eol" /\ (i = 1 \/ f[i - 1].part = "eol")}

\* The line starting at i parses: one whole event and nothing else.
Parses(f, i) ==
  /\ f[i].part = "head"
  /\ i < Len(f)
  /\ f[i + 1] = [f[i] EXCEPT !.part = "tail"]
  /\ i + 2 <= Len(f) => f[i + 2].part = "eol"

\* The lines that parse; the others are skipped.
Readable(f) == {i \in LineStarts(f) : Parses(f, i)}

\* The ids of the lines that parse, in file order.
EventsOf(f) == [n \in 1..Cardinality(Readable(f)) |-> f[Nth(Readable(f), n)].id]

\* The hash of the last line, 0 for an empty file, -1 for a corrupt tail.
TailHash(f) ==
  IF LineStarts(f) = {} THEN 0
  ELSE LET last == Max(LineStarts(f)) IN IF Parses(f, last) THEN f[last].id ELSE -1

Goto(p, label) == pc' = [pc EXCEPT ![p] = label]

\* open, lock.  A reservation scans through the index, any other append not.
Acquire(p) ==
  /\ pc[p] = "idle"
  /\ lock = NoProc
  /\ attempts < MaxAppends
  /\ attempts' = attempts + 1
  /\ lock' = p
  /\ mine' = [mine EXCEPT ![p] = [NoAppend EXCEPT !.id = attempts + 1]]
  /\ \/ Goto(p, "state")
     \/ Goto(p, "tail")
  /\ UNCHANGED <<file, index, acked, cutShort>>

\* _locked_handle_state; on a corrupt tail the scan is done without the index.
ReadState(p) ==
  /\ pc[p] = "state"
  /\ mine' = [mine EXCEPT ![p].size = Len(file), ![p].head = TailHash(file)]
  /\ Goto(p, IF TailHash(file) = -1 THEN "tail" ELSE "tables")
  /\ UNCHANGED <<file, lock, index, attempts, acked, cutShort>>

\* Use the cached tables if they describe exactly this file, else rebuild them.
GetTables(p) ==
  LET m == mine[p]
  IN  /\ pc[p] = "tables"
      /\ index' = [index EXCEPT ![p] =
           IF <<@.size, @.head>> = <<m.size, m.head>> THEN @
           ELSE [size |-> m.size, head |-> m.head, events |-> EventsOf(file)]]
      /\ Goto(p, "tail")
      /\ UNCHANGED <<file, lock, mine, attempts, acked, cutShort>>

\* Mutant: a corrupt tail is not refused.
ReadTail_Corrupt(p) ==
  /\ pc[p] = "tail"
  /\ mine' = [mine EXCEPT ![p].prev = TailHash(file)]
  /\ Goto(p, "write")
  /\ UNCHANGED <<file, lock, index, attempts, acked, cutShort>>

\* Mutant: the lock is only taken for the write, not for reading the tail.
ReadTail_Unlocked(p) ==
  /\ pc[p] = "tail"
  /\ TailHash(file) # -1
  /\ mine' = [mine EXCEPT ![p].prev = TailHash(file)]
  /\ Goto(p, "write")
  /\ lock' = NoProc
  /\ UNCHANGED <<file, index, attempts, acked, cutShort>>

\* _read_last_event_hash and the signed event; a corrupt tail is refused.
ReadTail(p) ==
  /\ pc[p] = "tail"
  /\ \/ /\ TailHash(file) # -1
        /\ mine' = [mine EXCEPT ![p].prev = TailHash(file)]
        /\ Goto(p, "write")
     \/ /\ TailHash(file) = -1
        /\ Goto(p, "unlock")
        /\ UNCHANGED mine
  /\ UNCHANGED <<file, lock, index, attempts, acked, cutShort>>

\* seek, tell and the buffered write.
Write(p) ==
  /\ pc[p] = "write"
  /\ mine' = [mine EXCEPT ![p].before = Len(file),
                          ![p].buffer = Encoded(mine[p].id, mine[p].prev)]
  /\ Goto(p, "flush")
  /\ UNCHANGED <<file, lock, index, attempts, acked, cutShort>>

\* The first n pieces of the buffer reach the end of the file (O_APPEND).
WriteOut(p, n) ==
  LET buffer == mine[p].buffer
  IN  /\ file' = file \o SubSeq(buffer, 1, n)
      /\ mine' = [mine EXCEPT ![p].buffer = SubSeq(buffer, n + 1, Len(buffer))]

\* flush: everything, or on a full disk a part of it and an error.
Flush(p) ==
  /\ pc[p] = "flush"
  /\ \/ WriteOut(p, 3) /\ Goto(p, "sync") /\ UNCHANGED cutShort
     \/ /\ "full" \in Faults
        /\ \E n \in 0..2 : WriteOut(p, n)
        /\ Goto(p, "unlock")
        /\ cutShort' = TRUE
  /\ UNCHANGED <<lock, index, attempts, acked>>

Sync(p) ==
  /\ pc[p] = "sync"
  /\ \/ Goto(p, "note")
     \/ "sync" \in Faults /\ Goto(p, "unlock")
  /\ UNCHANGED <<file, lock, mine, index, attempts, acked, cutShort>>

\* Mutant: the entry is evolved without asking which prefix it describes.
Note_Always(p) ==
  LET m     == mine[p]
      entry == index[p]
  IN  /\ pc[p] = "note"
      /\ index' = [index EXCEPT ![p] =
           IF entry = NoIndex THEN entry
           ELSE [size   |-> m.before + 3,
                 head   |-> m.id,
                 events |-> Append(entry.events, m.id)]]
      /\ mine' = [mine EXCEPT ![p].ok = TRUE]
      /\ Goto(p, "unlock")
      /\ UNCHANGED <<file, lock, attempts, acked, cutShort>>

\* _note_idem_append: evolve the entry if it described the file before the
\* append, drop it otherwise; never build one.
Note(p) ==
  LET m     == mine[p]
      entry == index[p]
  IN  /\ pc[p] = "note"
      /\ index' = [index EXCEPT ![p] =
           IF <<entry.size, entry.head>> # <<m.before, m.prev>> THEN NoIndex
           ELSE [size   |-> m.before + 3,
                 head   |-> m.id,
                 events |-> Append(entry.events, m.id)]]
      /\ mine' = [mine EXCEPT ![p].ok = TRUE]
      /\ Goto(p, "unlock")
      /\ UNCHANGED <<file, lock, attempts, acked, cutShort>>

Unlock(p) ==
  /\ pc[p] = "unlock"
  /\ lock' = NoProc
  /\ Goto(p, "close")
  /\ UNCHANGED <<file, mine, index, attempts, acked, cutShort>>

\* Leaving the with block closes the handle, and closing flushes once more
\* what an earlier flush has left in the buffer: the lock is gone by then.
Close(p) ==
  /\ pc[p] = "close"
  /\ \E n \in 0..Len(mine[p].buffer) :
       file' = file \o SubSeq(mine[p].buffer, 1, n)
  /\ acked' = IF mine[p].ok THEN acked \cup {mine[p].id} ELSE acked
  /\ mine' = [mine EXCEPT ![p] = NoAppend]
  /\ Goto(p, "idle")
  /\ UNCHANGED <<lock, index, attempts, cutShort>>

\* A process is killed: its memory and its lock go, the file stays.
Kill(p) ==
  /\ "kill" \in Faults
  /\ pc[p] # "idle" \/ index[p] # NoIndex
  /\ lock' = IF lock = p THEN NoProc ELSE lock
  /\ mine' = [mine EXCEPT ![p] = NoAppend]
  /\ index' = [index EXCEPT ![p] = NoIndex]
  /\ Goto(p, "idle")
  /\ UNCHANGED <<file, attempts, acked, cutShort>>

Next ==
  \E p \in Procs :
    \/ Acquire(p) \/ ReadState(p) \/ GetTables(p) \/ ReadTail(p)
    \/ Write(p) \/ Flush(p) \/ Sync(p) \/ Note(p) \/ Unlock(p) \/ Close(p)
    \/ Kill(p)

Spec == Init /\ [][Next]_vars

-----------------------------------------------------------------------------
\* The line before the one that starts at i, 0 for the first.
LineBefore(i) ==
  LET earlier == {s \in LineStarts(file) : s < i}
  IN  IF earlier = {} THEN 0 ELSE Max(earlier)

(***************************************************************************)
(* "the previous event hash must be read and the new event appended under  *)
(* one lock" (JournalStore): every event names the event of the line       *)
(* before it as its predecessor, and none follows a line that does not     *)
(* parse (_event_hash_from_line refuses to extend a broken chain).         *)
(***************************************************************************)
ChainIntact ==
  \A i \in LineStarts(file) : Parses(file, i) =>
    LET before == LineBefore(i)
    IN  IF before = 0 THEN file[i].prev = 0
        ELSE Parses(file, before) /\ file[i].prev = file[before].id

(***************************************************************************)
(* An append that returned is durable (append_event: "durably append it"): *)
(* its event can be read back ever after, and it is chained, as long as no *)
(* write was cut short.  Kills and failed syncs cannot break either.       *)
(***************************************************************************)
AckedIsReadable ==
  ~cutShort =>
    /\ ChainIntact
    /\ \A id \in acked : \E n \in DOMAIN EventsOf(file) : EventsOf(file)[n] = id

(***************************************************************************)
(* The index is exact, never heuristic: an entry that matches the file's   *)
(* size and head holds the events a full scan would find, in file order,   *)
(* whatever other processes append and however appends fail                *)
(* (_cached_idem_tables, _note_idem_append).                               *)
(***************************************************************************)
IndexIsExact ==
  \A p \in Procs :
    <<index[p].size, index[p].head>> = <<Len(file), TailHash(file)>>
      => index[p].events = EventsOf(file)
=============================================================================
