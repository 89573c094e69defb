------------------------------- MODULE Limits -------------------------------
(***************************************************************************)
(* The counting approval providers of policy.py: budgets, spending budgets *)
(* and rate limits, kept in the memory of a process or in a state file     *)
(* that processes share. Threads of several processes decide at once,      *)
(* processes are killed at any step, the host restarts with its monotonic  *)
(* clock, the lock of the state file may not be had, and the file may be   *)
(* found corrupt or unwritable.                                            *)
(*                                                                         *)
(* One behaviour is about one provider, chosen in the initial state.       *)
(***************************************************************************)
EXTENDS Integers, Sequences, FiniteSets, Places

CONSTANTS
  Threads, Procs, ProcOf,  \* threads, and the process each belongs to
  Actions,                 \* action names
  Spends, NoSpend,         \* declared spends, and their absence
  NoRequest,               \* of a thread outside decide()
  NoThread,                \* nobody holds the lock of the state file
  Limit,                   \* max_calls or max_cents
  Window,                  \* window_seconds, in ticks of the clock
  File, Corrupt,           \* the state file; contents that do not parse
  MaxClock, MaxBoots, MaxCalls

ASSUME LimitsAssumption ==
  /\ ProcOf \in [Threads -> Procs]
  /\ File \notin Procs /\ NoThread \notin Threads
  /\ Spends \subseteq Nat /\ NoSpend \notin Nat
  /\ Limit \in Nat /\ Window \in Nat \ {0}
  /\ MaxClock \in Nat /\ MaxBoots \in Nat /\ MaxCalls \in Nat

Counts == [total : Nat, perAction : [Actions -> Nat]]
NoCounts == [total |-> 0, perAction |-> [a \in Actions |-> 0]]

(* What a provider remembers: its counts, or the times of its allowances.  *)
States == [counts : Counts, attempts : Seq(Int)]
Empty  == [counts |-> NoCounts, attempts |-> << >>]
ASSUME CorruptAssumption == Corrupt \notin States

Requests == [action : Actions, spend : Spends \cup {NoSpend}, now : Nat]
ASSUME RequestAssumption == NoRequest \notin Requests

MemoryKinds == {"Budget", "SpendingBudget", "RateLimit"}
FileKinds   == {"FileBudget", "FileSpendingBudget", "FileRateLimit"}
RateKinds   == {"RateLimit", "FileRateLimit"}
SpendKinds  == {"SpendingBudget", "FileSpendingBudget"}

VARIABLES
  provider,   \* [kind, perAction]: the provider that is deciding
  store,      \* the memory of each process, and the file
  pc, req,    \* of each thread: where it is in decide(), and what it was asked
  seen,       \* the state a thread has read from the file, then has written
  allowing,   \* whether it is about to allow
  lock,       \* the thread that holds the operating system's lock of the file
  clock, boots, calls,
  since,      \* history: when the host started the clock it reads now
  paid,       \* history: what was answered "allowed", by account
  given,      \* history: from when to when, for the rate limits
  overlapped  \* history: two threads were inside decide() at once, one unlocked

vars == <<provider, store, pc, req, seen, allowing, lock, clock, boots, calls,
          since, paid, given, overlapped>>

Durable == provider.kind \in FileKinds
Account(p) == IF Durable THEN File ELSE p
Accounts   == Procs \cup {File}

Init ==
  /\ provider \in [kind : MemoryKinds \cup FileKinds, perAction : BOOLEAN]
  /\ (provider.kind \in RateKinds => ~provider.perAction)
  /\ store = [x \in Accounts |-> Empty]
  /\ pc = [t \in Threads |-> "idle"]
  /\ req = [t \in Threads |-> NoRequest]
  /\ seen = [t \in Threads |-> Empty]
  /\ allowing = [t \in Threads |-> FALSE]
  /\ lock = NoThread
  /\ clock = 0 /\ boots = 0 /\ calls = 0 /\ since = 0
  /\ paid = [x \in Accounts |-> NoCounts]
  /\ given = << >>
  /\ overlapped = FALSE

-----------------------------------------------------------------------------
(* The decisions. Each takes what the provider remembers and the request,  *)
(* and gives what it remembers next and whether it allows.                 *)

Used(s, r) == IF provider.perAction THEN s.counts.perAction[r.action] ELSE s.counts.total

Charged(c, r, cost) ==
  IF provider.perAction THEN [c EXCEPT !.perAction[r.action] = @ + cost]
                        ELSE [c EXCEPT !.total = @ + cost]

Charge(s, r, cost) == [s EXCEPT !.counts = Charged(s.counts, r, cost)]

Denied(s)  == [state |-> s, allowed |-> FALSE]
Allowed(s) == [state |-> s, allowed |-> TRUE]

BudgetDecision(s, r) ==
  IF Used(s, r) >= Limit THEN Denied(s) ELSE Allowed(Charge(s, r, 1))

SpendingDecision(s, r) ==
  IF Used(s, r) + r.spend > Limit THEN Denied(s) ELSE Allowed(Charge(s, r, r.spend))

(* The deque is pruned from its head, and only while the head has expired. *)
PopExpired(attempts, cutoff) ==
  Picked(attempts, {i \in DOMAIN attempts : \E j \in 1..i : attempts[j] > cutoff})

RateDecision(s, r) ==
  LET live == PopExpired(s.attempts, r.now - Window)
  IN IF Len(live) >= Limit THEN Denied([s EXCEPT !.attempts = live])
                           ELSE Allowed([s EXCEPT !.attempts = Append(live, r.now)])

(* The file's list is filtered as a whole.                                 *)
DropExpired(attempts, cutoff) ==
  Picked(attempts, {i \in DOMAIN attempts : attempts[i] > cutoff})

\* Mutant: a window that is one tick short.
FileRateDecision_Short(s, r) ==
  LET live == DropExpired(s.attempts, r.now - Window + 1)
  IN IF Len(live) >= Limit THEN Denied([s EXCEPT !.attempts = live])
                           ELSE Allowed([s EXCEPT !.attempts = Append(live, r.now)])

FileRateDecision(s, r) ==
  LET live == DropExpired(s.attempts, r.now - Window)
  IN IF Len(live) >= Limit THEN Denied([s EXCEPT !.attempts = live])
                           ELSE Allowed([s EXCEPT !.attempts = Append(live, r.now)])

Cost(r) == IF provider.kind \in SpendKinds THEN r.spend ELSE 1

-----------------------------------------------------------------------------
(* The answer of thread t, which leaves decide() and its locks.            *)
Answer(t, allowed) ==
  LET x == Account(ProcOf[t]) IN
  /\ pc' = [pc EXCEPT ![t] = "idle"]
  /\ req' = [req EXCEPT ![t] = NoRequest]
  /\ seen' = [seen EXCEPT ![t] = Empty]
  /\ allowing' = [allowing EXCEPT ![t] = FALSE]
  /\ lock' = IF lock = t THEN NoThread ELSE lock
  /\ paid' = IF allowed /\ provider.kind \notin RateKinds
             THEN [paid EXCEPT ![x] = Charged(@, req[t], Cost(req[t]))] ELSE paid
  /\ given' = IF allowed /\ provider.kind \in RateKinds
              THEN Append(given, [account |-> x, from |-> since + req[t].now,
                                  to |-> since + clock])
              ELSE given
  /\ UNCHANGED <<since, overlapped>>

(* A call enters decide(); the rate limits read their clock here, before   *)
(* any lock.                                                               *)
Ask(t) ==
  /\ pc[t] = "idle" /\ calls < MaxCalls
  /\ \E a \in Actions, spend \in Spends \cup {NoSpend} :
       /\ (provider.kind \notin SpendKinds => spend = NoSpend)
       /\ req' = [req EXCEPT ![t] = [action |-> a, spend |-> spend, now |-> clock]]
  /\ calls' = calls + 1
  /\ pc' = [pc EXCEPT ![t] = "asked"]
  /\ UNCHANGED <<provider, store, seen, allowing, lock, clock, boots, since, paid, given, overlapped>>

(* A spending budget cannot account a call that declares no spend.         *)
DenyUnpriced(t) ==
  /\ pc[t] = "asked" /\ provider.kind \in SpendKinds /\ req[t].spend = NoSpend
  /\ Answer(t, FALSE)
  /\ UNCHANGED <<provider, store, clock, boots, calls>>

Priced(t) == provider.kind \in SpendKinds => req[t].spend # NoSpend

(* A provider in memory decides in one step, under its lock.               *)
InMemory(t, kind, decision) ==
  /\ pc[t] = "asked" /\ provider.kind = kind /\ Priced(t)
  /\ store' = [store EXCEPT ![ProcOf[t]] = decision.state]
  /\ Answer(t, decision.allowed)
  /\ UNCHANGED <<provider, clock, boots, calls>>

Budget(t)         == InMemory(t, "Budget", BudgetDecision(store[ProcOf[t]], req[t]))
SpendingBudget(t) == InMemory(t, "SpendingBudget", SpendingDecision(store[ProcOf[t]], req[t]))
RateLimit(t)      == InMemory(t, "RateLimit", RateDecision(store[ProcOf[t]], req[t]))

-----------------------------------------------------------------------------
(* A provider in a file takes the process's lock for the path, then the    *)
(* operating system's lock of a sidecar file, which no replacement of the  *)
(* state file drops. Where that lock cannot be had it goes on without.     *)
Inside == {t \in Threads : pc[t] \in {"locked", "read", "written"}}

Enter(t) ==
  /\ pc' = [pc EXCEPT ![t] = "locked"]
  /\ overlapped' = (overlapped \/ Inside # {})
  /\ UNCHANGED <<provider, store, req, seen, allowing, clock, boots, calls, since, paid, given>>

PathIsFree(t) == \A u \in Inside : ProcOf[u] # ProcOf[t]

\* Mutant: the state is read and written with no lock, and nobody notices.
LockState_None(t) ==
  /\ pc[t] = "asked" /\ Durable /\ Priced(t)
  /\ pc' = [pc EXCEPT ![t] = "locked"]
  /\ UNCHANGED <<provider, store, req, seen, allowing, lock, clock, boots, calls,
                 since, paid, given, overlapped>>

LockState(t) ==
  /\ pc[t] = "asked" /\ Durable /\ Priced(t)
  /\ PathIsFree(t)
  /\ lock' \in {lock} \cup (IF lock = NoThread THEN {t} ELSE {})
  /\ Enter(t)

(* The sidecar file cannot be made or opened.                              *)
DenyUnavailable(t) ==
  /\ pc[t] = "asked" /\ Durable /\ Priced(t)
  /\ PathIsFree(t)
  /\ Answer(t, FALSE)
  /\ UNCHANGED <<provider, store, clock, boots, calls>>

\* Mutant: a corrupt file is taken as it is.
ReadState_Corrupt(t) ==
  /\ pc[t] = "locked"
  /\ seen' = [seen EXCEPT ![t] = store[File]]
  /\ pc' = [pc EXCEPT ![t] = "read"]
  /\ UNCHANGED <<provider, store, req, allowing, lock, clock, boots, calls, since, paid, given, overlapped>>

ReadState(t) ==
  /\ pc[t] = "locked" /\ store[File] # Corrupt
  /\ seen' = [seen EXCEPT ![t] = store[File]]
  /\ pc' = [pc EXCEPT ![t] = "read"]
  /\ UNCHANGED <<provider, store, req, allowing, lock, clock, boots, calls, since, paid, given, overlapped>>

DenyCorrupt(t) ==
  /\ pc[t] = "locked" /\ store[File] = Corrupt
  /\ Answer(t, FALSE)
  /\ UNCHANGED <<provider, store, clock, boots, calls>>

(* The new state replaces the old one as a whole.                          *)
WriteState(t, decision) ==
  /\ store' = [store EXCEPT ![File] = decision.state]
  /\ seen' = [seen EXCEPT ![t] = decision.state]
  /\ allowing' = [allowing EXCEPT ![t] = decision.allowed]
  /\ pc' = [pc EXCEPT ![t] = "written"]
  /\ UNCHANGED <<provider, req, lock, clock, boots, calls, since, paid, given, overlapped>>

(* A temporary file that cannot be written or moved denies; it is removed. *)
WriteFails(t) ==
  /\ Answer(t, FALSE)
  /\ UNCHANGED <<provider, store, clock, boots, calls>>

Deny(t) ==
  /\ Answer(t, FALSE)
  /\ UNCHANGED <<provider, store, clock, boots, calls>>

(* The budgets write only what they allow.                                 *)
InFile(t, kind, decision) ==
  /\ pc[t] = "read" /\ provider.kind = kind
  /\ IF decision.allowed THEN WriteState(t, decision) \/ WriteFails(t) ELSE Deny(t)

FileBudget(t)         == InFile(t, "FileBudget", BudgetDecision(seen[t], req[t]))
FileSpendingBudget(t) == InFile(t, "FileSpendingBudget", SpendingDecision(seen[t], req[t]))

(* The rate limit writes its pruned list when it denies as well.           *)
FileRateLimit(t) ==
  /\ pc[t] = "read" /\ provider.kind = "FileRateLimit"
  /\ WriteState(t, FileRateDecision(seen[t], req[t])) \/ WriteFails(t)

Unlock(t) ==
  /\ pc[t] = "written"
  /\ Answer(t, allowing[t])
  /\ UNCHANGED <<provider, store, clock, boots, calls>>

-----------------------------------------------------------------------------
Tick ==
  /\ clock < MaxClock /\ provider.kind \in RateKinds
  /\ clock' = clock + 1
  /\ UNCHANGED <<provider, store, pc, req, seen, allowing, lock, boots, calls, since, paid, given, overlapped>>

(* The processes ps die and start again: their locks are released, what    *)
(* they remember is gone, and the file is what was last moved in place.    *)
Restart(ps) ==
  /\ pc' = [t \in Threads |-> IF ProcOf[t] \in ps THEN "idle" ELSE pc[t]]
  /\ req' = [t \in Threads |-> IF ProcOf[t] \in ps THEN NoRequest ELSE req[t]]
  /\ seen' = [t \in Threads |-> IF ProcOf[t] \in ps THEN Empty ELSE seen[t]]
  /\ allowing' = [t \in Threads |-> IF ProcOf[t] \in ps THEN FALSE ELSE allowing[t]]
  /\ store' = [x \in Accounts |-> IF x \in ps THEN Empty ELSE store[x]]
  /\ paid' = [x \in Accounts |-> IF x \in ps THEN NoCounts ELSE paid[x]]
  /\ given' = Picked(given, {i \in DOMAIN given : given[i].account \notin ps})
  /\ lock' = IF \E t \in Threads : lock = t /\ ProcOf[t] \in ps THEN NoThread ELSE lock
  /\ UNCHANGED <<provider, calls, overlapped>>

Kill(p) ==
  /\ Restart({p})
  /\ UNCHANGED <<clock, boots, since>>

(* A monotonic clock starts anew with the host, which is back at once: the *)
(* worst case, as time that passes empties the windows.                    *)
Reboot ==
  /\ boots < MaxBoots /\ provider.kind = "FileRateLimit"
  /\ Restart(Procs)
  /\ clock' = 0 /\ boots' = boots + 1 /\ since' = since + clock

Damage ==
  /\ Durable /\ store[File] # Corrupt
  /\ store' = [store EXCEPT ![File] = Corrupt]
  /\ UNCHANGED <<provider, pc, req, seen, allowing, lock, clock, boots, calls, since, paid, given, overlapped>>

Step(t) ==
  \/ Ask(t) \/ DenyUnpriced(t)
  \/ Budget(t) \/ SpendingBudget(t) \/ RateLimit(t)
  \/ LockState(t) \/ DenyUnavailable(t) \/ ReadState(t) \/ DenyCorrupt(t)
  \/ FileBudget(t) \/ FileSpendingBudget(t) \/ FileRateLimit(t) \/ Unlock(t)

Next ==
  \/ \E t \in Threads : Step(t)
  \/ \E p \in Procs : Kill(p)
  \/ Tick \/ Reboot \/ Damage

Spec == Init /\ [][Next]_vars

-----------------------------------------------------------------------------
(***************************************************************************)
(* Type correctness: what a provider remembers is counts or times, or what *)
(* does not parse; a thread inside decide() has a request, and never holds *)
(* a state that it could not read (_read_json_state).                      *)
(***************************************************************************)
TypeOK ==
  /\ provider \in [kind : MemoryKinds \cup FileKinds, perAction : BOOLEAN]
  /\ store \in [Accounts -> States \cup {Corrupt}]
  /\ \A p \in Procs : store[p] \in States
  /\ pc \in [Threads -> {"idle", "asked", "locked", "read", "written"}]
  /\ req \in [Threads -> Requests \cup {NoRequest}]
  /\ \A t \in Threads : pc[t] # "idle" => req[t] # NoRequest
  /\ seen \in [Threads -> States]
  /\ allowing \in [Threads -> BOOLEAN]
  /\ lock \in Threads \cup {NoThread} /\ overlapped \in BOOLEAN
  /\ clock \in Nat /\ boots \in Nat /\ calls \in Nat /\ since \in Nat
  /\ paid \in [Accounts -> Counts]

(***************************************************************************)
(* "at most max_calls invocations, surviving restarts": what was answered  *)
(* "allowed" never exceeds the limit, whichever threads and processes      *)
(* asked, wherever they died, and whether the state could be read and      *)
(* written or not (BudgetProvider, FileBudgetProvider and the spending     *)
(* ones), as long as no thread that went on without the file's lock was    *)
(* inside beside another: then "concurrent writers can over-allow"         *)
(* (_lock_exclusive). A thread that lacks the lock and is alone breaks     *)
(* nothing. A budget in memory is one of a process, for as long as it      *)
(* lives.                                                                  *)
(***************************************************************************)
Within(c) ==
  IF provider.perAction THEN \A a \in Actions : c.perAction[a] <= Limit
                        ELSE c.total <= Limit

BudgetHolds == ~overlapped => \A x \in Accounts : Within(paid[x])

(***************************************************************************)
(* "at most max_calls per window_seconds": of the calls that begin and are *)
(* answered within one window of real time, no more than the limit are     *)
(* allowed, though the clock is read before the lock is taken, the list is *)
(* not sorted, and the host may restart within the window: its clock then  *)
(* starts anew, behind the times the file holds. Again unless two threads  *)
(* were inside at once for want of the lock.                               *)
(***************************************************************************)
RateHolds ==
  ~overlapped =>
    \A x \in Accounts, at \in -1..(since + clock) :
      Cardinality({i \in DOMAIN given :
        /\ given[i].account = x
        /\ given[i].from > at /\ given[i].to <= at + Window}) <= Limit

=============================================================================
