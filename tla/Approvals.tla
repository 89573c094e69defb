----------------------------- MODULE Approvals ------------------------------
(***************************************************************************)
(* What a guarded call does before it runs: it makes sure that an observer *)
(* knows its contract, then asks a person, through TimeoutApprovalProvider *)
(* around CachedApprovalProvider around the approval server.               *)
(*                                                                         *)
(* A caller waits for a worker thread, for as long as it has patience. The *)
(* worker consults the cache, then registers a request with the server and *)
(* waits there for an operator, for as long as the server's own timeout.   *)
(* The worker of a caller that gave up goes on; what it does then is the   *)
(* subject of this module. Timers run out at any time; the clock is that   *)
(* of the cache's and of the requests' time to live.                       *)
(***************************************************************************)
EXTENDS Integers, FiniteSets, FiniteSetsExt, Functions

CONSTANTS
  Callers, Keys,     \* the calling threads; what the cache's key covers
  Capacities,        \* the max_in_flight of TimeoutApprovalProvider
  Ttl, MaxEntries,   \* of CachedApprovalProvider
  RequestTtl,        \* of ApprovalServer
  NoDecision,
  MaxCalls, MaxClock

ASSUME ApprovalsAssumption ==
  /\ Capacities \subseteq Nat \ {0} /\ Ttl \in Nat \ {0} /\ MaxEntries \in Nat \ {0}
  /\ RequestTtl \in Nat /\ MaxCalls \in Nat /\ MaxClock \in Nat
  /\ Keys # {} /\ NoDecision \notin BOOLEAN

Ids == 1..MaxCalls

VARIABLES
  clock,
  calls,      \* the calls begun so far; a call's number names its worker
  done,       \* the contracts the observer is recorded to know, by key
  caller,     \* of each caller: where it is, and in which call
  call,       \* of each call: its key, when it asked, and what it was told
  worker,     \* of each call: where its worker is, its clock reading, its decision
  capacity, permits,  \* of the semaphore of decisions in flight
  cache,      \* by key, when the entry expires and its place in the order of insertion
  pending,    \* the server's table
  history     \* who was allowed and what was recorded, stored and declared

vars == <<clock, calls, done, caller, call, worker, capacity, permits, cache, pending, history>>

Decisions == BOOLEAN \cup {NoDecision}
SomeKey   == CHOOSE k \in Keys : TRUE
NoCall    == [key |-> SomeKey, at |-> 0, told |-> NoDecision]
Outside   == [pc |-> "idle", n |-> 0]
NoWorker  == [pc |-> "none", now |-> 0, answer |-> NoDecision]
Stages    == {"none", "lost", "lookup", "register", "find", "await", "pop", "store", "end", "gone"}

Init ==
  /\ clock = 0 /\ calls = 0
  /\ done = {}
  /\ caller = [c \in Callers |-> Outside]
  /\ call = [n \in Ids |-> NoCall]
  /\ worker = [n \in Ids |-> NoWorker]
  /\ capacity \in Capacities /\ permits = capacity
  /\ cache = [k \in {} |-> 0]
  /\ pending = [n \in {} |-> NoCall]
  /\ history = [allowed |-> {}, stored |-> {}, recorded |-> {}, declared |-> {}]

Goto(n, stage) == worker' = [worker EXCEPT ![n].pc = stage]

-----------------------------------------------------------------------------
(* The observer. It is told of a contract before the first call that it    *)
(* can be recorded for, and a failure to tell it ends the call.            *)

At(c, pc) == caller' = [caller EXCEPT ![c].pc = pc]

Arrive(c) ==
  LET n == calls + 1 IN
  /\ caller[c].pc = "idle" /\ calls < MaxCalls
  /\ calls' = n
  /\ \E k \in Keys :
       /\ call' = [call EXCEPT ![n].key = k]
       /\ caller' = [caller EXCEPT ![c] = [pc |-> IF k \in done THEN "ask" ELSE "declare", n |-> n]]
  /\ UNCHANGED <<clock, done, worker, capacity, permits, cache, pending, history>>

KeyOf(c) == call[caller[c].n].key

Declare(c) ==
  /\ caller[c].pc = "declare"
  /\ At(c, "mark")
  /\ history' = [history EXCEPT !.declared = @ \cup {KeyOf(c)}]
  /\ UNCHANGED <<clock, calls, done, call, worker, capacity, permits, cache, pending>>

Tell(c, decision) ==
  /\ call' = [call EXCEPT ![caller[c].n].told = decision]
  /\ caller' = [caller EXCEPT ![c] = Outside]

\* Mutant: a contract is marked even though telling the observer failed.
DeclareFails_Marks(c) ==
  /\ caller[c].pc = "declare"
  /\ Tell(c, FALSE)
  /\ done' = done \cup {KeyOf(c)}
  /\ UNCHANGED <<clock, calls, worker, capacity, permits, cache, pending, history>>

DeclareFails(c) ==
  /\ caller[c].pc = "declare"
  /\ Tell(c, FALSE)
  /\ UNCHANGED <<clock, calls, done, worker, capacity, permits, cache, pending, history>>

MarkDone(c) ==
  /\ caller[c].pc = "mark"
  /\ done' = done \cup {KeyOf(c)}
  /\ At(c, "ask")
  /\ UNCHANGED <<clock, calls, call, worker, capacity, permits, cache, pending, history>>

-----------------------------------------------------------------------------
(* decide(): the caller takes a permit and starts a worker, which reads    *)
(* the cache's clock before it takes the cache's lock; or it is denied at  *)
(* once.                                                                   *)
Decide(c) ==
  LET n == caller[c].n IN
  /\ caller[c].pc = "ask" /\ permits > 0
  /\ permits' = permits - 1
  /\ At(c, "wait")
  /\ call' = [call EXCEPT ![n].at = clock]
  /\ worker' = [worker EXCEPT ![n] = [pc |-> "lookup", now |-> clock, answer |-> NoDecision]]
  /\ UNCHANGED <<clock, calls, done, capacity, cache, pending, history>>

(* No thread can be started: the call fails, and nobody will give its      *)
(* permit back.                                                            *)
StartFails(c) ==
  LET n == caller[c].n IN
  /\ caller[c].pc = "ask" /\ permits > 0
  /\ permits' = permits - 1
  /\ worker' = [worker EXCEPT ![n].pc = "lost"]
  /\ Tell(c, FALSE)
  /\ UNCHANGED <<clock, calls, done, capacity, cache, pending, history>>

Overloaded(c) ==
  /\ caller[c].pc = "ask" /\ permits = 0
  /\ Tell(c, FALSE)
  /\ UNCHANGED <<clock, calls, done, worker, capacity, permits, cache, pending, history>>

IsSet(n) == worker[n].pc \in {"end", "gone"}

Answer(c) ==
  /\ caller[c].pc = "wait" /\ IsSet(caller[c].n)
  /\ Tell(c, worker[caller[c].n].answer)
  /\ UNCHANGED <<clock, calls, done, worker, capacity, permits, cache, pending, history>>

\* Mutant: a caller that gives up returns the permit of its worker.
GiveUp_Releases(c) ==
  /\ caller[c].pc = "wait" /\ ~IsSet(caller[c].n)
  /\ Tell(c, FALSE)
  /\ permits' = permits + 1
  /\ UNCHANGED <<clock, calls, done, worker, capacity, cache, pending, history>>

GiveUp(c) ==
  /\ caller[c].pc = "wait" /\ ~IsSet(caller[c].n)
  /\ Tell(c, FALSE)
  /\ UNCHANGED <<clock, calls, done, worker, capacity, permits, cache, pending, history>>

(* The worker sets the event, and then gives its permit back.              *)
Finish(n, answer) == worker' = [worker EXCEPT ![n] = [@ EXCEPT !.pc = "end", !.now = 0, !.answer = answer]]

Release(n) ==
  /\ worker[n].pc = "end"
  /\ permits' = permits + 1
  /\ worker' = [worker EXCEPT ![n] = [@ EXCEPT !.pc = "gone"]]
  /\ UNCHANGED <<clock, calls, done, caller, call, capacity, cache, pending, history>>

-----------------------------------------------------------------------------
(* The cache.                                                              *)

LiveAt(entries, now) == Restrict(entries, {k \in DOMAIN entries : entries[k].expires > now})
Newest(entries, n) ==
  Restrict(entries, {k \in DOMAIN entries :
                       Cardinality({m \in DOMAIN entries : entries[m].place > entries[k].place}) < n})

(* The lookup drops the key's own entry when it has expired, and makes     *)
(* room for one entry: first by what has expired, then by age.             *)
MakeRoom(entries, now) ==
  IF Cardinality(DOMAIN entries) >= MaxEntries
  THEN Newest(LiveAt(entries, now), MaxEntries - 1) ELSE entries

\* Mutant: an entry is used without asking when it expires.
CacheLookup_Stale(n) ==
  /\ worker[n].pc = "lookup"
  /\ IF call[n].key \in DOMAIN cache
     THEN Finish(n, TRUE) /\ UNCHANGED cache
     ELSE /\ cache' = MakeRoom(cache, worker[n].now)
          /\ worker' = [worker EXCEPT ![n] = [@ EXCEPT !.pc = "register", !.now = 0]]
  /\ UNCHANGED <<clock, calls, done, caller, call, capacity, permits, pending, history>>

CacheLookup(n) ==
  /\ worker[n].pc = "lookup"
  /\ IF call[n].key \in DOMAIN cache /\ cache[call[n].key].expires > worker[n].now
     THEN Finish(n, TRUE) /\ UNCHANGED cache
     ELSE /\ cache' = MakeRoom(Restrict(cache, DOMAIN cache \ {call[n].key}), worker[n].now)
          /\ worker' = [worker EXCEPT ![n] = [@ EXCEPT !.pc = "register", !.now = 0]]
  /\ UNCHANGED <<clock, calls, done, caller, call, capacity, permits, pending, history>>

(* A dictionary keeps the place of a key that is set again.                *)
PlaceOf(entries, k) ==
  IF k \in DOMAIN entries THEN entries[k].place
  ELSE 1 + Max({0} \cup {entries[m].place : m \in DOMAIN entries})

SetEntry(entries, k, expires) ==
  [m \in DOMAIN entries \cup {k} |->
     IF m = k THEN [expires |-> expires, place |-> PlaceOf(entries, k)] ELSE entries[m]]

\* Mutant: a store does not look at the size again.
CacheStore_Unbounded(n) ==
  /\ worker[n].pc = "store"
  /\ IF worker[n].answer = TRUE
     THEN /\ cache' = SetEntry(cache, call[n].key, clock + Ttl)
          /\ history' = [history EXCEPT !.stored = @ \cup {[key |-> call[n].key, at |-> clock, by |-> n]}]
     ELSE UNCHANGED <<cache, history>>
  /\ Finish(n, worker[n].answer)
  /\ UNCHANGED <<clock, calls, done, caller, call, capacity, permits, pending>>

CacheStore(n) ==
  LET filled == SetEntry(cache, call[n].key, clock + Ttl) IN
  /\ worker[n].pc = "store"
  /\ IF worker[n].answer = TRUE
     THEN /\ cache' = IF Cardinality(DOMAIN filled) > MaxEntries
                      THEN Newest(LiveAt(filled, clock), MaxEntries) ELSE filled
          /\ history' = [history EXCEPT !.stored = @ \cup {[key |-> call[n].key, at |-> clock, by |-> n]}]
     ELSE UNCHANGED <<cache, history>>
  /\ Finish(n, worker[n].answer)
  /\ UNCHANGED <<clock, calls, done, caller, call, capacity, permits, pending>>

-----------------------------------------------------------------------------
(* The server.                                                             *)

(* Sweeping removes the requests that have expired undecided, and wakes    *)
(* their waiters with a denial.                                            *)
Swept(table) ==
  [n \in {m \in DOMAIN table :
            ~(clock - table[m].created > RequestTtl /\ table[m].decision = NoDecision)} |-> table[n]]

SweptOut(table) == DOMAIN table \ DOMAIN Swept(table)

(* Those who wait on a request that is swept are woken with its denial.    *)
Woken(w) == [n \in Ids |-> IF n \in SweptOut(pending) /\ w[n].pc = "await"
                           THEN [w[n] EXCEPT !.pc = "pop", !.answer = FALSE] ELSE w[n]]

Register(n) ==
  /\ worker[n].pc = "register"
  /\ pending' = [m \in DOMAIN Swept(pending) \cup {n} |->
                   IF m = n THEN [created |-> clock, decision |-> NoDecision] ELSE pending[m]]
  /\ worker' = [Woken(worker) EXCEPT ![n].pc = "find"]
  /\ UNCHANGED <<clock, calls, done, caller, call, capacity, permits, cache, history>>

\* Mutant: a request that was swept meanwhile is waited for all the same.
Find_Waits(n) ==
  /\ worker[n].pc = "find" /\ n \in DOMAIN pending
  /\ Goto(n, "await")
  /\ UNCHANGED <<clock, calls, done, caller, call, capacity, permits, cache, pending, history>>

(* The request is looked up again by its id: a sweep may have taken it.    *)
Find(n) ==
  /\ worker[n].pc = "find"
  /\ IF n \in DOMAIN pending THEN Goto(n, "await")
     ELSE worker' = [worker EXCEPT ![n] = [@ EXCEPT !.pc = "store", !.answer = FALSE]]
  /\ UNCHANGED <<clock, calls, done, caller, call, capacity, permits, cache, pending, history>>

(* The wait ends with a decision, or with the timeout and none.            *)
Decided(n) ==
  /\ worker[n].pc = "await" /\ n \in DOMAIN pending /\ pending[n].decision # NoDecision
  /\ worker' = [worker EXCEPT ![n] = [@ EXCEPT !.pc = "pop", !.answer = pending[n].decision]]
  /\ UNCHANGED <<clock, calls, done, caller, call, capacity, permits, cache, pending, history>>

TimeOut(n) ==
  /\ worker[n].pc = "await" /\ (n \in DOMAIN pending => pending[n].decision = NoDecision)
  /\ worker' = [worker EXCEPT ![n] = [@ EXCEPT !.pc = "pop", !.answer = FALSE]]
  /\ UNCHANGED <<clock, calls, done, caller, call, capacity, permits, cache, pending, history>>

\* Mutant: only a decided request is removed.
Pop_Decided(n) ==
  /\ worker[n].pc = "pop"
  /\ pending' = [m \in {x \in DOMAIN pending : x # n \/ pending[x].decision = NoDecision} |-> pending[m]]
  /\ Goto(n, "store")
  /\ UNCHANGED <<clock, calls, done, caller, call, capacity, permits, cache, history>>

(* The request is removed; what an operator said since the timeout is not  *)
(* looked at.                                                              *)
Pop(n) ==
  /\ worker[n].pc = "pop"
  /\ pending' = [m \in DOMAIN pending \ {n} |-> pending[m]]
  /\ Goto(n, "store")
  /\ UNCHANGED <<clock, calls, done, caller, call, capacity, permits, cache, history>>

(* An operator's form: recorded while the request is there and undecided,  *)
(* gone otherwise.                                                         *)
Operator(n, allow) ==
  /\ n \in DOMAIN pending /\ pending[n].decision = NoDecision
  /\ pending' = [pending EXCEPT ![n].decision = allow]
  /\ history' = [history EXCEPT !.recorded = @ \cup {n},
                                !.allowed = IF allow THEN @ \cup {n} ELSE @]
  /\ UNCHANGED <<clock, calls, done, caller, call, worker, capacity, permits, cache>>

(* The operator's page lists the requests, and sweeps first.               *)
Snapshot ==
  /\ SweptOut(pending) # {}
  /\ pending' = Swept(pending)
  /\ worker' = Woken(worker)
  /\ UNCHANGED <<clock, calls, done, caller, call, capacity, permits, cache, history>>

Tick ==
  /\ clock < MaxClock
  /\ clock' = clock + 1
  /\ UNCHANGED <<calls, done, caller, call, worker, capacity, permits, cache, pending, history>>

CallerStep(c) ==
  \/ Declare(c) \/ DeclareFails(c) \/ MarkDone(c)
  \/ Decide(c) \/ StartFails(c) \/ Overloaded(c) \/ Answer(c) \/ GiveUp(c)

WorkerStep(n) ==
  \/ CacheLookup(n) \/ Register(n) \/ Find(n) \/ Decided(n) \/ TimeOut(n) \/ Pop(n)
  \/ CacheStore(n) \/ Release(n)

Next ==
  \/ \E c \in Callers : Arrive(c) \/ CallerStep(c)
  \/ \E n \in Ids : WorkerStep(n) \/ (\E allow \in BOOLEAN : Operator(n, allow))
  \/ Snapshot \/ Tick

Spec == Init /\ [][Next]_vars

(* Threads run, waits with a timeout end, and the observer returns. No     *)
(* operator need ever come.                                                *)
Fairness ==
  /\ \A c \in Callers : WF_vars(CallerStep(c))
  /\ \A n \in Ids : WF_vars(WorkerStep(n))

FairSpec == Spec /\ Fairness

-----------------------------------------------------------------------------
(***************************************************************************)
(* Type correctness: permits never exceed the semaphore's capacity, the    *)
(* cache never holds more than max_entries, and every pending request has a *)
(* call (TimeoutApprovalProvider, CachedApprovalProvider, ApprovalServer). *)
(***************************************************************************)
TypeOK ==
  /\ clock \in 0..MaxClock /\ calls \in 0..MaxCalls
  /\ done \subseteq Keys
  /\ caller \in [Callers -> [pc : {"idle", "declare", "mark", "ask", "wait"}, n : {0} \cup Ids]]
  /\ call \in [Ids -> [key : Keys, at : 0..MaxClock, told : Decisions]]
  /\ worker \in [Ids -> [pc : Stages, now : 0..MaxClock, answer : Decisions]]
  /\ capacity \in Capacities /\ permits \in 0..capacity
  /\ DOMAIN cache \subseteq Keys /\ Cardinality(DOMAIN cache) <= MaxEntries
  /\ \A k \in DOMAIN cache : cache[k] \in [expires : Nat, place : Nat]
  /\ DOMAIN pending \subseteq Ids
  /\ \A n \in DOMAIN pending : pending[n] \in [created : 0..MaxClock, decision : Decisions]

(***************************************************************************)
(* A call is allowed because an operator allowed that very call, and none  *)
(* denied it; or from the cache, because an operator allowed another call  *)
(* of the same key whose worker stored that less than a time to live       *)
(* before (CachedApprovalProvider; ApprovalServer).  The other call may    *)
(* itself have been denied, timed out: its worker finishes and stores all  *)
(* the same, so that it is not "with no effect" that "the inner call may   *)
(* still complete later" (policy.py:237-238, 284) around a cache.          *)
(***************************************************************************)
AllowanceIsEarned ==
  \A n \in Ids : call[n].told = TRUE =>
    \/ n \in history.allowed
    \/ /\ n \notin history.recorded
       /\ \E s \in history.stored :
            /\ s.by \in history.allowed \ {n}
            /\ s.key = call[n].key /\ s.key = call[s.by].key
            /\ call[n].at < s.at + Ttl

(***************************************************************************)
(* No more than max_in_flight workers are ever alive, callers that gave up *)
(* included, and every permit is free, or of a worker that lives or could  *)
(* not be started (TimeoutApprovalProvider).                               *)
(***************************************************************************)
InFlightIsBounded ==
  permits + Cardinality({n \in Ids : worker[n].pc \notin {"none", "gone"}}) = capacity

(***************************************************************************)
(* A request on the operator's page has a worker that has not given it up  *)
(* for good: what is answered or timed out leaves the table.               *)
(***************************************************************************)
PendingIsAwaited ==
  \A n \in DOMAIN pending : worker[n].pc \in {"find", "await", "pop"}

(***************************************************************************)
(* No call asks for approval before the observer has been told of its      *)
(* contract, whatever failures and races came before (notify_once: "a      *)
(* missed one is not" harmless).                                           *)
(***************************************************************************)
DeclaredFirst ==
  \A c \in Callers : caller[c].pc \in {"ask", "wait"} => KeyOf(c) \in history.declared

(***************************************************************************)
(* Every call that asks is told something, and its worker ends, returning  *)
(* its permit, though no operator ever comes: unless it could not be       *)
(* started, or the observer does not return (the call has no timeout).     *)
(***************************************************************************)
EveryCallEnds ==
  \A n \in Ids : (n <= calls) ~> (call[n].told # NoDecision /\ worker[n].pc \in {"none", "lost", "gone"})
=============================================================================
