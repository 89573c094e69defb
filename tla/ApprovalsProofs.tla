-------------------------- MODULE ApprovalsProofs --------------------------
(***************************************************************************)
(* Machine-checked facts about Approvals, for any number of callers, calls *)
(* and keys, any capacity of the semaphore and any size of the cache.      *)
(***************************************************************************)
EXTENDS Approvals, FiniteSetTheorems, WellFoundedInduction, TLAPS

Less == {ss \in Nat \X Nat : ss[1] < ss[2]}

\* Every non-empty set of naturals has a least member.
LEMMA LeastNatural ==
  ASSUME NEW S, S \subseteq Nat, S # {}
  PROVE  \E d \in S : \A e \in S : d <= e
  <1>1. IsWellFoundedOn(Less, Nat)
    BY NatLessThanWellFounded DEF OpToRel, Less
  <1>2. PICK d \in S : \A e \in S : ~ (<<e, d>> \in Less)
    BY <1>1, WFMin
  <1>3. ASSUME NEW e \in S PROVE d <= e
    <2>1. <<e, d>> \in Nat \X Nat /\ <<e, d>>[1] = e /\ <<e, d>>[2] = d
      OBVIOUS
    <2>2. ~(e < d)
      BY <1>2, <2>1, Zenon DEF Less
    <2> QED
      BY <2>2
  <1> QED
    BY <1>3

\* A bounded set of naturals that is not empty has a greatest member.
LEMMA GreatestNatural ==
  ASSUME NEW n \in Nat, NEW S, S \subseteq 0..n, S # {}
  PROVE  \E m \in S : \A i \in S : i <= m
  <1> DEFINE T == {n - i : i \in S}
  <1>1. T \subseteq Nat /\ T # {}
    <2>1. \A i \in S : n - i \in Nat
      OBVIOUS
    <2>2. T \subseteq Nat
      BY <2>1
    <2> QED
      BY <2>2
  <1>2. PICK t \in T : \A u \in T : t <= u
    BY <1>1, LeastNatural
  <1>3. PICK m \in S : t = n - m
    BY <1>2
  <1>4. \A i \in S : n - m <= n - i
    BY <1>2, <1>3
  <1> QED
    BY <1>4

-----------------------------------------------------------------------------
CallerRecord == [pc : {"idle", "declare", "mark", "ask", "wait"}, n : {0} \cup Ids]
CallRecord   == [key : Keys, at : 0..MaxClock, told : Decisions]
WorkerRecord == [pc : Stages, now : 0..MaxClock, answer : Decisions]
Request      == [created : 0..MaxClock, decision : Decisions]
Stored       == [key : Keys, at : 0..MaxClock, by : Ids]
HistoryRecord == [allowed : SUBSET Ids, stored : SUBSET Stored,
                  recorded : SUBSET Ids, declared : SUBSET Keys]

\* The types of everything but the cache and the bound of the permits.
AType ==
  /\ clock \in 0..MaxClock /\ calls \in 0..MaxCalls
  /\ done \subseteq Keys
  /\ caller \in [Callers -> CallerRecord]
  /\ call \in [Ids -> CallRecord]
  /\ worker \in [Ids -> WorkerRecord]
  /\ capacity \in Capacities /\ permits \in Nat
  /\ DOMAIN pending \subseteq Ids
  /\ \A n \in DOMAIN pending : pending[n] \in Request
  /\ history \in HistoryRecord

-----------------------------------------------------------------------------
(* Who is in which call, and what its worker may be at.                    *)

Inside(c) == caller[c].pc # "idle"

\* A caller inside is in a call that was begun, that no other caller is in,
\* and that nothing was told yet.
CallsAreOwn ==
  \A c \in Callers : Inside(c) =>
    /\ caller[c].n \in 1..calls
    /\ call[caller[c].n].told = NoDecision
    /\ \A d \in Callers : Inside(d) /\ caller[d].n = caller[c].n => d = c

\* A call has no worker before it asks, and is told nothing before it begins.
WorkersFollow ==
  /\ \A n \in Ids : n > calls => worker[n].pc = "none" /\ call[n].told = NoDecision
  /\ \A c \in Callers : caller[c].pc \in {"declare", "mark", "ask"} => worker[caller[c].n].pc = "none"

Track == AType /\ CallsAreOwn /\ WorkersFollow /\ PendingIsAwaited

-----------------------------------------------------------------------------
LEMMA CallerIsTyped ==
  ASSUME AType, NEW c \in Callers
  PROVE  /\ caller[c] \in CallerRecord
         /\ caller[c].n \in Ids => call[caller[c].n] \in CallRecord /\ worker[caller[c].n] \in WorkerRecord
  BY DEF AType

\* A caller is told something and leaves.
LEMMA TellType ==
  ASSUME AType, NEW c \in Callers, NEW decision \in Decisions, Tell(c, decision)
  PROVE  /\ caller' \in [Callers -> CallerRecord] /\ call' \in [Ids -> CallRecord]
         /\ caller'[c].pc = "idle" /\ \A d \in Callers : d # c => caller'[d] = caller[d]
         /\ \A n \in Ids : /\ call'[n].key = call[n].key /\ call'[n].at = call[n].at
                           /\ call'[n].told = IF n = caller[c].n THEN decision ELSE call[n].told
  <1>1. Outside \in CallerRecord /\ Outside.pc = "idle"
    BY DEF Outside, CallerRecord
  <1>2. \A r \in CallRecord : [r EXCEPT !.told = decision] \in CallRecord
    BY DEF CallRecord
  <1>3. call' = [call EXCEPT ![caller[c].n].told = decision] /\ call \in [Ids -> CallRecord]
    BY DEF Tell, AType
  <1>4. call' \in [Ids -> CallRecord]
    BY <1>2, <1>3
  <1>5. \A n \in Ids : call[n] \in CallRecord
    BY <1>3
  <1>6. \A n \in Ids : /\ call'[n].key = call[n].key /\ call'[n].at = call[n].at
                       /\ call'[n].told = IF n = caller[c].n THEN decision ELSE call[n].told
    BY <1>3, <1>5 DEF CallRecord
  <1>7. caller' = [caller EXCEPT ![c] = Outside] /\ caller \in [Callers -> CallerRecord]
    BY DEF Tell, AType
  <1> QED
    BY <1>1, <1>4, <1>6, <1>7

\* A caller goes on to another place of its call.
LEMMA AtType ==
  ASSUME AType, NEW c \in Callers, NEW place \in {"mark", "ask", "wait"}, At(c, place)
  PROVE  /\ caller' \in [Callers -> CallerRecord]
         /\ caller'[c].pc = place /\ caller'[c].n = caller[c].n
         /\ \A d \in Callers : d # c => caller'[d] = caller[d]
  BY DEF AType, At, CallerRecord

\* The worker of call n is at a new place; the others are where they were.
LEMMA WorkerBecomes ==
  ASSUME AType, NEW n \in Ids, NEW r \in WorkerRecord, worker' = [worker EXCEPT ![n] = r]
  PROVE  /\ worker' \in [Ids -> WorkerRecord] /\ worker'[n] = r
         /\ \A m \in Ids : m # n => worker'[m] = worker[m]
  BY DEF AType

LEMMA GotoType ==
  ASSUME AType, NEW n \in Ids, NEW stage \in Stages, Goto(n, stage)
  PROVE  /\ worker' \in [Ids -> WorkerRecord]
         /\ worker'[n].pc = stage /\ worker'[n].answer = worker[n].answer
         /\ \A m \in Ids : m # n => worker'[m] = worker[m]
  BY DEF AType, Goto, WorkerRecord

LEMMA DecisionsAreThree == TRUE \in Decisions /\ FALSE \in Decisions /\ NoDecision \in Decisions
  BY DEF Decisions

LEMMA FinishType ==
  ASSUME AType, NEW n \in Ids, NEW answer \in Decisions, Finish(n, answer)
  PROVE  /\ worker' \in [Ids -> WorkerRecord]
         /\ worker'[n].pc = "end" /\ worker'[n].answer = answer
         /\ \A m \in Ids : m # n => worker'[m] = worker[m]
  <1>1. worker[n] \in WorkerRecord /\ 0 \in 0..MaxClock /\ "end" \in Stages
    BY ApprovalsAssumption DEF AType, Stages
  <1>2. \A t \in 0..MaxClock, s \in Stages :
          LET r == [worker[n] EXCEPT !.pc = s, !.now = t, !.answer = answer]
          IN  r \in WorkerRecord /\ r.pc = s /\ r.answer = answer
    BY <1>1 DEF WorkerRecord
  <1> DEFINE r == [worker[n] EXCEPT !.pc = "end", !.now = 0, !.answer = answer]
  <1>3. r \in WorkerRecord /\ r.pc = "end" /\ r.answer = answer
    BY <1>1, <1>2
  <1>4. worker' = [worker EXCEPT ![n] = r]
    BY DEF Finish, AType
  <1> HIDE DEF r
  <1> QED
    BY <1>3, <1>4, WorkerBecomes

LEMMA MoveType ==
  ASSUME AType, NEW n \in Ids, NEW stage \in Stages, NEW answer \in Decisions,
         worker' = [worker EXCEPT ![n] = [@ EXCEPT !.pc = stage, !.answer = answer]]
  PROVE  /\ worker' \in [Ids -> WorkerRecord]
         /\ worker'[n].pc = stage /\ worker'[n].answer = answer
         /\ \A m \in Ids : m # n => worker'[m] = worker[m]
  <1>1. \A r \in WorkerRecord :
          LET q == [r EXCEPT !.pc = stage, !.answer = answer]
          IN  q \in WorkerRecord /\ q.pc = stage /\ q.answer = answer
    BY DEF WorkerRecord
  <1> DEFINE q == [worker[n] EXCEPT !.pc = stage, !.answer = answer]
  <1>2. worker[n] \in WorkerRecord
    BY DEF AType
  <1>3. q \in WorkerRecord /\ q.pc = stage /\ q.answer = answer
    BY <1>1, <1>2
  <1>4. worker' = [worker EXCEPT ![n] = q]
    BY DEF AType
  <1> HIDE DEF q
  <1> QED
    BY <1>3, <1>4, WorkerBecomes

\* What a lookup that finds nothing makes of its worker.
LEMMA MissType ==
  ASSUME AType, NEW n \in Ids,
         worker' = [worker EXCEPT ![n] = [@ EXCEPT !.pc = "register", !.now = 0]]
  PROVE  /\ worker' \in [Ids -> WorkerRecord]
         /\ worker'[n].pc = "register" /\ worker'[n].answer = worker[n].answer
         /\ \A m \in Ids : m # n => worker'[m] = worker[m]
  <1>1. "register" \in Stages /\ 0 \in 0..MaxClock
    BY ApprovalsAssumption DEF Stages
  <1>2. \A r \in WorkerRecord :
          LET q == [r EXCEPT !.pc = "register", !.now = 0]
          IN  q \in WorkerRecord /\ q.pc = "register" /\ q.answer = r.answer
    BY <1>1 DEF WorkerRecord
  <1> DEFINE q == [worker[n] EXCEPT !.pc = "register", !.now = 0]
  <1>3. worker[n] \in WorkerRecord
    BY DEF AType
  <1>4. q \in WorkerRecord /\ q.pc = "register" /\ q.answer = worker[n].answer
    BY <1>2, <1>3
  <1>5. worker' = [worker EXCEPT ![n] = q]
    BY DEF AType
  <1> HIDE DEF q
  <1> QED
    BY <1>4, <1>5, WorkerBecomes

LEMMA ReleaseType ==
  ASSUME AType, NEW n \in Ids, Release(n)
  PROVE  /\ worker' \in [Ids -> WorkerRecord]
         /\ worker'[n].pc = "gone" /\ worker'[n].answer = worker[n].answer
         /\ \A m \in Ids : m # n => worker'[m] = worker[m]
  BY DEF AType, Release, WorkerRecord, Stages

\* The sweep: what is left of the table, and whom it wakes.
LEMMA SweptKeeps ==
  ASSUME NEW table
  PROVE  /\ DOMAIN Swept(table) \subseteq DOMAIN table
         /\ \A n \in DOMAIN Swept(table) : Swept(table)[n] = table[n]
  BY DEF Swept

LEMMA WokenType ==
  ASSUME AType
  PROVE  /\ Woken(worker) \in [Ids -> WorkerRecord]
         /\ \A n \in Ids :
              \/ /\ Woken(worker)[n] = worker[n]
                 /\ n \in SweptOut(pending) => worker[n].pc # "await"
              \/ /\ worker[n].pc = "await"
                 /\ Woken(worker)[n].pc = "pop" /\ Woken(worker)[n].answer = FALSE
  <1>1. \A r \in WorkerRecord :
          LET q == [r EXCEPT !.pc = "pop", !.answer = FALSE]
          IN  q \in WorkerRecord /\ q.pc = "pop" /\ q.answer = FALSE
    BY DecisionsAreThree DEF WorkerRecord, Stages
  <1>2. \A n \in Ids : worker[n] \in WorkerRecord
    BY DEF AType
  <1> QED
    BY <1>1, <1>2 DEF Woken

-----------------------------------------------------------------------------
(* Track is inductive: who is in which call, and who waits at the server.  *)

LEMMA CallsBegunAreIds ==
  ASSUME AType
  PROVE  1..calls \subseteq Ids /\ calls \in Nat
  <1>1. calls \in 0..MaxCalls /\ MaxCalls \in Nat
    BY ApprovalsAssumption DEF AType
  <1> QED
    BY <1>1 DEF Ids

\* What is left of a caller's and a call's place by a step of the workers.
LEMMA WorkersTrack ==
  ASSUME CallsAreOwn, WorkersFollow, UNCHANGED <<calls, caller, call>>,
         \A m \in Ids : worker[m].pc = "none" => worker'[m].pc = "none",
         AType
  PROVE  CallsAreOwn' /\ WorkersFollow'
  <1>1. \A c \in Callers : Inside(c) => caller[c].n \in Ids
    BY CallsBegunAreIds DEF CallsAreOwn
  <1>2. \A c \in Callers : caller[c].pc \in {"declare", "mark", "ask"} => Inside(c)
    BY DEF Inside
  <1> QED
    BY <1>1, <1>2 DEF CallsAreOwn, WorkersFollow, Inside

LEMMA TellTrack ==
  ASSUME Track, NEW c \in Callers, NEW decision \in Decisions, Tell(c, decision), Inside(c),
         UNCHANGED <<clock, calls, worker, capacity, permits, pending, history>>,
         done' \subseteq Keys
  PROVE  Track'
  <1> USE DEF Track
  <1>1. /\ caller' \in [Callers -> CallerRecord] /\ call' \in [Ids -> CallRecord]
        /\ caller'[c].pc = "idle" /\ \A d \in Callers : d # c => caller'[d] = caller[d]
        /\ \A n \in Ids : call'[n].told = IF n = caller[c].n THEN decision ELSE call[n].told
    BY TellType
  <1>2. AType'
    BY <1>1 DEF AType, Request, CallRecord
  <1>3. ASSUME NEW d \in Callers, (Inside(d))'
        PROVE  /\ caller'[d].n \in 1..calls'
               /\ call'[caller'[d].n].told = NoDecision
               /\ \A e \in Callers : (Inside(e))' /\ caller'[e].n = caller'[d].n => e = d
    <2>1. d # c /\ caller'[d] = caller[d] /\ Inside(d)
      BY <1>1, <1>3 DEF Inside
    <2>2. caller[d].n \in Ids /\ caller[d].n # caller[c].n /\ caller[d].n \in 1..calls
      BY <2>1, CallsBegunAreIds DEF CallsAreOwn
    <2>3. call'[caller[d].n].told = NoDecision
      BY <1>1, <2>1, <2>2 DEF CallsAreOwn
    <2>4. ASSUME NEW e \in Callers, (Inside(e))', caller'[e].n = caller'[d].n PROVE e = d
      <3>1. caller'[e] = caller[e] /\ Inside(e)
        BY <1>1, <2>4 DEF Inside
      <3> QED
        BY <2>1, <2>4, <3>1 DEF CallsAreOwn
    <2> QED
      BY <2>1, <2>2, <2>3, <2>4
  <1>4. WorkersFollow'
    <2>1. caller[c].n \in 1..calls
      BY DEF CallsAreOwn
    <2>2. \A n \in Ids : n > calls => n # caller[c].n
      BY <2>1, CallsBegunAreIds
    <2> QED
      BY <1>1, <2>2 DEF WorkersFollow
  <1>5. PendingIsAwaited'
    BY DEF PendingIsAwaited
  <1>6. CallsAreOwn'
    BY <1>3 DEF CallsAreOwn
  <1> QED
    BY <1>2, <1>4, <1>5, <1>6

\* A caller goes on in its own call, which begins no worker.
LEMMA AtTrack ==
  ASSUME Track, NEW c \in Callers, NEW place \in {"mark", "ask"}, At(c, place),
         caller[c].pc \in {"declare", "mark"},
         UNCHANGED <<clock, calls, call, worker, capacity, permits, pending>>,
         done' \subseteq Keys,
         history' \in HistoryRecord
  PROVE  Track'
  <1> USE DEF Track
  <1>1. /\ caller' \in [Callers -> CallerRecord]
        /\ caller'[c].pc = place /\ caller'[c].n = caller[c].n
        /\ \A d \in Callers : d # c => caller'[d] = caller[d]
    BY AtType
  <1>2. AType'
    BY <1>1 DEF AType, Request
  <1>3. CallsAreOwn'
    BY <1>1 DEF CallsAreOwn, Inside, AType, Ids
  <1>4. WorkersFollow'
    BY <1>1 DEF WorkersFollow
  <1>5. PendingIsAwaited'
    BY DEF PendingIsAwaited
  <1> QED
    BY <1>2, <1>3, <1>4, <1>5

\* One worker, which has begun, goes on; the table loses requests at most.
LEMMA OneWorkerTrack ==
  ASSUME Track, NEW n \in Ids, worker[n].pc # "none",
         worker' \in [Ids -> WorkerRecord], \A m \in Ids : m # n => worker'[m] = worker[m],
         UNCHANGED <<clock, calls, done, caller, call, capacity>>,
         permits' \in Nat, history' \in HistoryRecord,
         DOMAIN pending' \subseteq DOMAIN pending,
         \A m \in DOMAIN pending' : pending'[m] = pending[m],
         n \in DOMAIN pending' => worker'[n].pc \in {"find", "await", "pop"}
  PROVE  Track'
  <1> USE DEF Track
  <1>1. AType'
    BY DEF AType, Request
  <1>2. CallsAreOwn' /\ WorkersFollow'
    BY WorkersTrack
  <1>3. PendingIsAwaited'
    BY DEF PendingIsAwaited, AType
  <1> QED
    BY <1>1, <1>2, <1>3

LEMMA TrackInit ==
  ASSUME Init
  PROVE  Track
  <1>1. SomeKey \in Keys
    BY ApprovalsAssumption DEF SomeKey
  <1>2. NoCall \in CallRecord /\ NoWorker \in WorkerRecord /\ Outside \in CallerRecord
    BY <1>1, ApprovalsAssumption
       DEF NoCall, NoWorker, Outside, CallRecord, WorkerRecord, CallerRecord, Stages, Decisions
  <1>3. AType
    BY <1>2, ApprovalsAssumption DEF AType, Init, HistoryRecord
  <1>4. CallsAreOwn /\ WorkersFollow
    BY DEF CallsAreOwn, WorkersFollow, Inside, Init, Outside, NoWorker, NoCall
  <1>5. PendingIsAwaited
    BY DEF PendingIsAwaited, Init
  <1> QED
    BY <1>3, <1>4, <1>5 DEF Track

LEMMA ArriveTrack ==
  ASSUME Track, NEW c \in Callers, Arrive(c)
  PROVE  Track'
  <1> USE DEF Track
  <1> DEFINE n == calls + 1
  <1>1. n \in Ids /\ n \in 0..MaxCalls /\ n \notin 1..calls /\ 1..calls \subseteq 1..n /\ n \in 1..n
    BY ApprovalsAssumption DEF Arrive, AType, Ids
  <1>2. PICK k \in Keys :
          /\ call' = [call EXCEPT ![n].key = k]
          /\ caller' = [caller EXCEPT ![c] = [pc |-> IF k \in done THEN "ask" ELSE "declare", n |-> n]]
    BY DEF Arrive
  <1>3. [pc |-> IF k \in done THEN "ask" ELSE "declare", n |-> n] \in CallerRecord
    BY <1>1 DEF CallerRecord
  <1>4. /\ calls' = n /\ UNCHANGED <<clock, done, worker, capacity, permits, cache, pending, history>>
        /\ n > calls
    BY <1>1 DEF Arrive, AType
  <1> HIDE DEF n
  <1>5. /\ call' \in [Ids -> CallRecord]
        /\ \A m \in Ids : call'[m].told = call[m].told
    BY <1>1, <1>2 DEF AType, CallRecord
  <1>6. /\ caller' \in [Callers -> CallerRecord] /\ caller'[c].n = n /\ caller'[c].pc \in {"ask", "declare"}
        /\ \A d \in Callers : d # c => caller'[d] = caller[d]
    BY <1>2, <1>3 DEF AType
  <1>7. AType'
    BY <1>1, <1>4, <1>5, <1>6 DEF AType, Request
  <1>8. worker[n].pc = "none" /\ call[n].told = NoDecision
    BY <1>1, <1>4 DEF WorkersFollow
  <1>9. \A d \in Callers : d # c /\ (Inside(d))' =>
          Inside(d) /\ caller[d].n \in 1..calls /\ caller[d].n \in Ids /\ caller[d].n # n
    BY <1>1, <1>6, CallsBegunAreIds DEF Inside, CallsAreOwn
  <1>10. CallsAreOwn'
    BY <1>1, <1>4, <1>5, <1>6, <1>8, <1>9 DEF CallsAreOwn
  <1>11. WorkersFollow'
    <2>1. \A m \in Ids : m > n => m > calls
      BY <1>1, <1>4, CallsBegunAreIds DEF Ids
    <2> QED
      BY <1>4, <1>5, <1>6, <1>8, <2>1 DEF WorkersFollow
  <1>12. PendingIsAwaited'
    BY <1>4 DEF PendingIsAwaited
  <1> QED
    BY <1>7, <1>10, <1>11, <1>12

LEMMA DecideTrack ==
  ASSUME Track, NEW c \in Callers, Decide(c)
  PROVE  Track'
  <1> USE DEF Track
  <1> DEFINE n == caller[c].n
             r == [pc |-> "lookup", now |-> clock, answer |-> NoDecision]
  <1>1. Inside(c) /\ n \in 1..calls /\ n \in Ids
    BY CallsBegunAreIds DEF CallsAreOwn, Decide, Inside
  <1>2. r \in WorkerRecord
    BY DecisionsAreThree DEF AType, WorkerRecord, Stages
  <1>3. worker' = [worker EXCEPT ![n] = r] /\ call' = [call EXCEPT ![n].at = clock] /\ At(c, "wait")
        /\ permits' = permits - 1 /\ permits > 0
        /\ UNCHANGED <<clock, calls, done, capacity, cache, pending, history>>
    BY DEF Decide
  <1>4. /\ caller' \in [Callers -> CallerRecord]
        /\ caller'[c].pc = "wait" /\ caller'[c].n = n
        /\ \A d \in Callers : d # c => caller'[d] = caller[d]
    BY <1>3, AtType
  <1> HIDE DEF n, r
  <1>5. /\ worker' \in [Ids -> WorkerRecord] /\ worker'[n] = r
        /\ \A m \in Ids : m # n => worker'[m] = worker[m]
    BY <1>1, <1>2, <1>3, WorkerBecomes
  <1>6. /\ call' \in [Ids -> CallRecord]
        /\ \A m \in Ids : call'[m].told = call[m].told
    BY <1>1, <1>3 DEF AType, CallRecord
  <1>7. AType'
    BY <1>3, <1>4, <1>5, <1>6 DEF AType, Request
  <1>8. caller[c].n = n
    BY DEF n
  <1>9. CallsAreOwn'
    BY <1>1, <1>3, <1>4, <1>6, <1>8, CallsBegunAreIds DEF CallsAreOwn, Inside
  <1>10. WorkersFollow'
    <2>1. \A m \in Ids : m > calls => m # n
      BY <1>1, CallsBegunAreIds
    <2>2. ASSUME NEW d \in Callers, caller'[d].pc \in {"declare", "mark", "ask"}
          PROVE  worker'[caller'[d].n].pc = "none"
      <3>1. d # c /\ caller'[d] = caller[d] /\ Inside(d)
        BY <1>4, <2>2 DEF Inside
      <3>2. caller[d].n # n /\ caller[d].n \in Ids
        BY <1>1, <1>8, <3>1, CallsBegunAreIds DEF CallsAreOwn
      <3> QED
        BY <1>5, <2>2, <3>1, <3>2 DEF WorkersFollow
    <2> QED
      BY <1>3, <1>5, <1>6, <2>1, <2>2 DEF WorkersFollow
  <1>11. PendingIsAwaited'
    <2>1. ASSUME NEW m \in DOMAIN pending PROVE m \in Ids /\ m # n
      <3>1. worker[n].pc = "none"
        BY <1>8 DEF WorkersFollow, Decide
      <3> QED
        BY <3>1 DEF PendingIsAwaited, AType
    <2> QED
      BY <1>3, <1>5, <2>1 DEF PendingIsAwaited
  <1> QED
    BY <1>7, <1>9, <1>10, <1>11

LEMMA StartFailsTrack ==
  ASSUME Track, NEW c \in Callers, StartFails(c)
  PROVE  Track'
  <1> USE DEF Track
  <1>0. PICK n : n = caller[c].n
    OBVIOUS
  <1>1. /\ Inside(c) /\ n \in 1..calls /\ n \in Ids /\ worker[n].pc = "none"
        /\ Tell(c, FALSE) /\ permits' = permits - 1 /\ permits > 0
        /\ worker' = [worker EXCEPT ![n].pc = "lost"]
        /\ UNCHANGED <<clock, calls, done, capacity, cache, pending, history>>
    BY <1>0, CallsBegunAreIds DEF CallsAreOwn, WorkersFollow, StartFails, Inside
  <1>2. /\ caller' \in [Callers -> CallerRecord] /\ call' \in [Ids -> CallRecord]
        /\ caller'[c].pc = "idle" /\ \A d \in Callers : d # c => caller'[d] = caller[d]
        /\ \A m \in Ids : call'[m].told = IF m = n THEN FALSE ELSE call[m].told
    <2>1. FALSE \in Decisions /\ Tell(c, FALSE)
      BY <1>1, DecisionsAreThree
    <2>2. \A m \in Ids : call'[m].told = IF m = caller[c].n THEN FALSE ELSE call[m].told
      BY <2>1, TellType
    <2> QED
      BY <1>0, <2>1, <2>2, TellType
  <1>3. /\ worker' \in [Ids -> WorkerRecord] /\ worker'[n].pc = "lost"
        /\ \A m \in Ids : m # n => worker'[m] = worker[m]
    BY <1>1 DEF AType, WorkerRecord, Stages
  <1>4. AType'
    BY <1>1, <1>2, <1>3 DEF AType, Request, CallRecord
  <1>5. \A d \in Callers : (Inside(d))' => /\ d # c /\ caller'[d] = caller[d] /\ Inside(d)
                                          /\ caller[d].n \in Ids /\ caller[d].n # n
    <2>1. ASSUME NEW d \in Callers, (Inside(d))'
          PROVE  d # c /\ caller'[d] = caller[d] /\ Inside(d)
      BY <1>2, <2>1 DEF Inside
    <2> QED
      BY <1>0, <1>1, <2>1, CallsBegunAreIds DEF CallsAreOwn
  <1>6. CallsAreOwn'
    <2>1. ASSUME NEW d \in Callers, (Inside(d))'
          PROVE  /\ caller'[d].n \in 1..calls /\ call'[caller'[d].n].told = NoDecision
                 /\ \A e \in Callers : (Inside(e))' /\ caller'[e].n = caller'[d].n => e = d
      <3>1. /\ caller'[d] = caller[d] /\ Inside(d)
            /\ caller[d].n \in Ids /\ caller[d].n # n
        BY <1>5, <2>1
      <3>2. \A e \in Callers : (Inside(e))' => caller'[e] = caller[e] /\ Inside(e)
        BY <1>5
      <3>3. /\ caller[d].n \in 1..calls /\ call[caller[d].n].told = NoDecision
            /\ \A e \in Callers : Inside(e) /\ caller[e].n = caller[d].n => e = d
        BY <3>1 DEF CallsAreOwn
      <3>4. call'[caller[d].n].told = call[caller[d].n].told
        BY <1>2, <3>1
      <3> QED
        BY <3>1, <3>2, <3>3, <3>4
    <2> QED
      BY <1>1, <2>1 DEF CallsAreOwn
  <1>7. WorkersFollow'
    <2>1. \A m \in Ids : m > calls => m # n
      BY <1>1, CallsBegunAreIds
    <2>2. ASSUME NEW d \in Callers, caller'[d].pc \in {"declare", "mark", "ask"}
          PROVE  worker'[caller'[d].n].pc = "none"
      <3>1. (Inside(d))'
        BY <2>2 DEF Inside
      <3> QED
        BY <1>3, <1>5, <2>2, <3>1 DEF WorkersFollow
    <2> QED
      BY <1>1, <1>2, <1>3, <2>1, <2>2 DEF WorkersFollow
  <1>8. PendingIsAwaited'
    <2>1. \A m \in DOMAIN pending : m \in Ids /\ m # n
      BY <1>1 DEF PendingIsAwaited, AType
    <2> QED
      BY <1>1, <1>3, <2>1 DEF PendingIsAwaited
  <1> QED
    BY <1>4, <1>6, <1>7, <1>8

LEMMA CallerTrack ==
  ASSUME Track, NEW c \in Callers, CallerStep(c)
  PROVE  Track'
  <1> USE DEF Track
  <1> USE DecisionsAreThree
  <1>1. KeyOf(c) \in Keys \/ caller[c].pc \notin {"declare", "mark"}
    <2>1. Inside(c) => caller[c].n \in Ids
      BY CallsBegunAreIds DEF CallsAreOwn
    <2>2. caller[c].n \in Ids => call[caller[c].n].key \in Keys
      BY DEF AType, CallRecord
    <2> QED
      BY <2>1, <2>2 DEF KeyOf, Inside
  <1>2. ASSUME KeyOf(c) \in Keys
        PROVE  [history EXCEPT !.declared = @ \cup {KeyOf(c)}] \in HistoryRecord
    <2>1. history \in HistoryRecord
      BY DEF AType
    <2> QED
      BY <1>2, <2>1 DEF HistoryRecord
  <1>3. done \subseteq Keys
    BY DEF AType
  <1>4. CASE Declare(c)
    <2>1. history' \in HistoryRecord
      BY <1>1, <1>2, <1>4 DEF Declare
    <2> QED
      BY <1>3, <1>4, <2>1, AtTrack DEF Declare
  <1>5. CASE DeclareFails(c)
    BY <1>3, <1>5, TellTrack DEF DeclareFails, Inside
  <1>6. CASE MarkDone(c)
    <2>1. done' \subseteq Keys
      BY <1>1, <1>3, <1>6 DEF MarkDone
    <2>2. history' \in HistoryRecord
      BY <1>6 DEF MarkDone, AType
    <2> QED
      BY <1>6, <2>1, <2>2, AtTrack DEF MarkDone
  <1>7. CASE Decide(c)
    BY <1>7, DecideTrack
  <1>8. CASE Overloaded(c)
    BY <1>3, <1>8, TellTrack DEF Overloaded, Inside
  <1>9. CASE Answer(c)
    <2>1. caller[c].n \in Ids /\ Inside(c)
      BY <1>9, CallsBegunAreIds DEF CallsAreOwn, Answer, Inside
    <2>2. PICK answer : answer = worker[caller[c].n].answer
      OBVIOUS
    <2>3. answer \in Decisions
      BY <2>1, <2>2 DEF AType, WorkerRecord
    <2> QED
      BY <1>3, <1>9, <2>1, <2>2, <2>3, TellTrack DEF Answer
  <1>10. CASE GiveUp(c)
    BY <1>3, <1>10, TellTrack DEF GiveUp, Inside
  <1> QED
    BY <1>4, <1>5, <1>6, <1>7, <1>8, <1>9, <1>10, StartFailsTrack DEF CallerStep

LEMMA LookupTrack ==
  ASSUME Track, NEW n \in Ids, CacheLookup(n)
  PROVE  Track'
  <1> USE DEF Track
  <1>1. /\ worker' \in [Ids -> WorkerRecord] /\ \A m \in Ids : m # n => worker'[m] = worker[m]
    <2>1. CASE Finish(n, TRUE)
      BY <2>1, FinishType, DecisionsAreThree
    <2>2. CASE worker' = [worker EXCEPT ![n] = [@ EXCEPT !.pc = "register", !.now = 0]]
      BY <2>2, MissType
    <2> QED
      BY <2>1, <2>2 DEF CacheLookup
  <1>2. n \notin DOMAIN pending /\ worker[n].pc # "none"
    BY DEF PendingIsAwaited, CacheLookup
  <1> QED
    BY <1>1, <1>2, OneWorkerTrack DEF CacheLookup, AType

LEMMA RegisterTrack ==
  ASSUME Track, NEW n \in Ids, Register(n)
  PROVE  Track'
  <1> USE DEF Track
  <1>1. n \notin DOMAIN pending /\ worker[n].pc = "register"
    BY DEF PendingIsAwaited, Register
  <1>2. PICK w : w = Woken(worker)
    OBVIOUS
  <1>3. /\ w \in [Ids -> WorkerRecord]
        /\ \A m \in Ids : \/ w[m] = worker[m] /\ (m \in SweptOut(pending) => worker[m].pc # "await")
                          \/ worker[m].pc = "await" /\ w[m].pc = "pop"
    BY <1>2, WokenType
  <1>4. worker' = [w EXCEPT ![n].pc = "find"]
    BY <1>2 DEF Register
  <1>5. /\ worker' \in [Ids -> WorkerRecord] /\ worker'[n].pc = "find"
        /\ \A m \in Ids : m # n => worker'[m] = w[m]
    BY <1>3, <1>4 DEF WorkerRecord, Stages
  <1>6. /\ DOMAIN pending' = DOMAIN Swept(pending) \cup {n}
        /\ pending'[n] = [created |-> clock, decision |-> NoDecision]
        /\ \A m \in DOMAIN pending' : m # n => pending'[m] = pending[m]
    BY DEF Register
  <1>7. DOMAIN Swept(pending) \subseteq DOMAIN pending
    BY SweptKeeps
  <1>8. AType'
    <2>1. [created |-> clock, decision |-> NoDecision] \in Request
      BY DecisionsAreThree DEF AType, Request
    <2>2. \A m \in DOMAIN pending' : pending'[m] \in Request
      BY <1>6, <1>7, <2>1 DEF AType
    <2>3. DOMAIN pending' \subseteq Ids
      BY <1>6, <1>7 DEF AType
    <2> QED
      BY <1>5, <2>2, <2>3 DEF AType, Register, Request
  <1>9. CallsAreOwn' /\ WorkersFollow'
    <2>1. \A m \in Ids : worker[m].pc = "none" => worker'[m].pc = "none"
      BY <1>1, <1>3, <1>5
    <2> QED
      BY <2>1, WorkersTrack DEF Register
  <1>10. PendingIsAwaited'
    <2>1. ASSUME NEW m \in DOMAIN pending, m # n PROVE worker'[m].pc \in {"find", "await", "pop"}
      BY <1>3, <1>5, <2>1 DEF PendingIsAwaited, AType
    <2> QED
      BY <1>5, <1>6, <1>7, <2>1 DEF PendingIsAwaited
  <1> QED
    BY <1>8, <1>9, <1>10

LEMMA SnapshotTrack ==
  ASSUME Track, Snapshot
  PROVE  Track'
  <1> USE DEF Track
  <1>1. /\ worker' \in [Ids -> WorkerRecord]
        /\ \A m \in Ids : worker'[m] = worker[m] \/ (worker[m].pc = "await" /\ worker'[m].pc = "pop")
    BY WokenType DEF Snapshot
  <1>2. DOMAIN pending' \subseteq DOMAIN pending /\ \A m \in DOMAIN pending' : pending'[m] = pending[m]
    BY SweptKeeps DEF Snapshot
  <1>3. AType'
    BY <1>1, <1>2 DEF AType, Snapshot, Request
  <1>4. CallsAreOwn' /\ WorkersFollow'
    BY <1>1, WorkersTrack DEF Snapshot
  <1>5. PendingIsAwaited'
    BY <1>1, <1>2 DEF PendingIsAwaited, AType
  <1> QED
    BY <1>3, <1>4, <1>5

LEMMA WorkerTrack ==
  ASSUME Track, NEW n \in Ids, WorkerStep(n)
  PROVE  Track'
  <1> USE DEF Track
  <1> USE DecisionsAreThree
  <1>1. permits \in Nat /\ history \in HistoryRecord /\ DOMAIN pending \subseteq Ids
    BY DEF AType
  <1>2. /\ worker[n] \in WorkerRecord
        /\ "await" \in Stages /\ "store" \in Stages /\ "pop" \in Stages
    BY DEF AType, Stages
  <1>3. CASE CacheLookup(n)
    BY <1>3, LookupTrack
  <1>4. CASE Register(n)
    BY <1>4, RegisterTrack
  <1>5. CASE Find(n)
    <2>1. CASE n \in DOMAIN pending
      <3>1. Goto(n, "await")
        BY <1>5, <2>1 DEF Find
      <3> QED
        BY <1>1, <1>2, <1>5, <3>1, GotoType, OneWorkerTrack DEF Find
    <2>2. CASE n \notin DOMAIN pending
      <3>1. worker' = [worker EXCEPT ![n] = [@ EXCEPT !.pc = "store", !.answer = FALSE]]
        BY <1>5, <2>2 DEF Find
      <3>2. worker' \in [Ids -> WorkerRecord] /\ \A m \in Ids : m # n => worker'[m] = worker[m]
        BY <1>2, <3>1, MoveType
      <3> QED
        BY <1>1, <1>5, <2>2, <3>2, OneWorkerTrack DEF Find
    <2> QED
      BY <2>1, <2>2
  <1>6. CASE Decided(n)
    <2>1. PICK d : d = pending[n].decision
      OBVIOUS
    <2>2. d \in Decisions
      BY <1>6, <2>1 DEF Decided, AType, Request
    <2>3. worker' = [worker EXCEPT ![n] = [@ EXCEPT !.pc = "pop", !.answer = d]]
      BY <1>6, <2>1 DEF Decided
    <2>4. /\ worker' \in [Ids -> WorkerRecord] /\ worker'[n].pc = "pop"
          /\ \A m \in Ids : m # n => worker'[m] = worker[m]
      BY <1>2, <2>2, <2>3, MoveType
    <2> QED
      BY <1>1, <1>6, <2>4, OneWorkerTrack DEF Decided
  <1>7. CASE TimeOut(n)
    <2>1. worker' = [worker EXCEPT ![n] = [@ EXCEPT !.pc = "pop", !.answer = FALSE]]
      BY <1>7 DEF TimeOut
    <2>2. /\ worker' \in [Ids -> WorkerRecord] /\ worker'[n].pc = "pop"
          /\ \A m \in Ids : m # n => worker'[m] = worker[m]
      BY <1>2, <2>1, MoveType
    <2> QED
      BY <1>1, <1>7, <2>2, OneWorkerTrack DEF TimeOut
  <1>8. CASE Pop(n)
    <2>1. worker' \in [Ids -> WorkerRecord] /\ \A m \in Ids : m # n => worker'[m] = worker[m]
      BY <1>2, <1>8, GotoType DEF Pop
    <2>2. DOMAIN pending' = DOMAIN pending \ {n} /\ \A m \in DOMAIN pending' : pending'[m] = pending[m]
      BY <1>8 DEF Pop
    <2> QED
      BY <1>1, <1>8, <2>1, <2>2, OneWorkerTrack DEF Pop
  <1>9. CASE CacheStore(n)
    <2>1. PICK answer : answer = worker[n].answer
      OBVIOUS
    <2>2. answer \in Decisions /\ Finish(n, answer)
      BY <1>2, <1>9, <2>1 DEF CacheStore, WorkerRecord
    <2>3. worker' \in [Ids -> WorkerRecord] /\ \A m \in Ids : m # n => worker'[m] = worker[m]
      BY <2>2, FinishType
    <2>4. [key |-> call[n].key, at |-> clock, by |-> n] \in Stored
      BY DEF AType, CallRecord, Stored
    <2>5. history' \in HistoryRecord
      <3>1. [history EXCEPT !.stored = @ \cup {[key |-> call[n].key, at |-> clock, by |-> n]}] \in HistoryRecord
        BY <1>1, <2>4 DEF HistoryRecord
      <3> QED
        BY <1>1, <1>9, <3>1 DEF CacheStore
    <2>6. n \notin DOMAIN pending
      BY <1>9 DEF PendingIsAwaited, CacheStore
    <2> QED
      BY <1>1, <1>9, <2>3, <2>5, <2>6, OneWorkerTrack DEF CacheStore
  <1>10. CASE Release(n)
    <2>1. worker' \in [Ids -> WorkerRecord] /\ \A m \in Ids : m # n => worker'[m] = worker[m]
      BY <1>10, ReleaseType
    <2>2. n \notin DOMAIN pending /\ permits' \in Nat
      BY <1>1, <1>10 DEF PendingIsAwaited, Release
    <2> QED
      BY <1>1, <1>10, <2>1, <2>2, OneWorkerTrack DEF Release
  <1> QED
    BY <1>3, <1>4, <1>5, <1>6, <1>7, <1>8, <1>9, <1>10 DEF WorkerStep

LEMMA OperatorTrack ==
  ASSUME Track, NEW n \in Ids, NEW allow \in BOOLEAN, Operator(n, allow)
  PROVE  Track'
  <1> USE DEF Track
  <1>1. /\ n \in DOMAIN pending /\ pending' = [pending EXCEPT ![n].decision = allow]
        /\ history' = [history EXCEPT !.recorded = @ \cup {n},
                                      !.allowed = IF allow THEN @ \cup {n} ELSE @]
        /\ UNCHANGED <<clock, calls, done, caller, call, worker, capacity, permits, cache>>
    BY DEF Operator
  <1>2. DOMAIN pending' = DOMAIN pending
    BY <1>1
  <1>3. \A r \in Request : [r EXCEPT !.decision = allow] \in Request
    BY DEF Request, Decisions
  <1>4. \A m \in DOMAIN pending' : pending'[m] \in Request
    BY <1>1, <1>3 DEF AType
  <1>5. history' \in HistoryRecord
    BY <1>1 DEF AType, HistoryRecord
  <1>6. AType'
    BY <1>1, <1>2, <1>4, <1>5 DEF AType, Request
  <1>7. CallsAreOwn' /\ WorkersFollow'
    BY <1>1, WorkersTrack
  <1>8. PendingIsAwaited'
    BY <1>1, <1>2 DEF PendingIsAwaited
  <1> QED
    BY <1>6, <1>7, <1>8

LEMMA TickTrack ==
  ASSUME Track, Tick \/ UNCHANGED vars
  PROVE  Track'
  <1> USE DEF Track, vars
  <1>1. clock' \in 0..MaxClock
    BY ApprovalsAssumption DEF Tick, AType
  <1>2. UNCHANGED <<calls, done, caller, call, worker, capacity, permits, pending, history>>
    BY DEF Tick
  <1>3. AType'
    BY <1>1, <1>2 DEF AType, Request
  <1>4. CallsAreOwn' /\ WorkersFollow'
    BY <1>2, WorkersTrack
  <1>5. PendingIsAwaited'
    BY <1>2 DEF PendingIsAwaited
  <1> QED
    BY <1>3, <1>4, <1>5

LEMMA TrackStep ==
  ASSUME Track, [Next]_vars
  PROVE  Track'
  BY ArriveTrack, CallerTrack, WorkerTrack, OperatorTrack, SnapshotTrack, TickTrack DEF Next

(***************************************************************************)
(* A request on the operator's page has a worker at the server, for any    *)
(* number of callers: what is swept, answered or timed out leaves.         *)
(***************************************************************************)
THEOREM PendingAlwaysAwaited == Spec => []PendingIsAwaited
  <1>1. Track => PendingIsAwaited
    BY DEF Track
  <1> QED
    BY <1>1, TrackInit, TrackStep, PTL DEF Spec

-----------------------------------------------------------------------------
(* The permits: each is free or held by one worker that is alive.          *)

Alive == {n \in Ids : worker[n].pc \notin {"none", "gone"}}

LEMMA AliveIsFinite == IsFiniteSet(Alive) /\ Cardinality(Alive) \in Nat
  <1>1. IsFiniteSet(Ids)
    BY ApprovalsAssumption, FS_Interval DEF Ids
  <1>2. Alive \subseteq Ids
    BY DEF Alive
  <1> QED
    BY <1>1, <1>2, FS_Subset, FS_CardinalityType

\* A worker's step before its last leaves it and the others as alive as they were.
LEMMA StaysAlive ==
  ASSUME Track, NEW n \in Ids, WorkerStep(n), ~Release(n)
  PROVE  Alive' = Alive /\ UNCHANGED <<capacity, permits>>
  <1> USE DEF Track
  <1> USE DecisionsAreThree
  <1>1. /\ worker[n] \in WorkerRecord
        /\ "await" \in Stages /\ "store" \in Stages /\ "pop" \in Stages
    BY DEF AType, Stages
  <1>2. worker[n].pc \notin {"none", "gone"} /\ UNCHANGED <<capacity, permits>>
    BY DEF WorkerStep, CacheLookup, Register, Find, Decided, TimeOut, Pop, CacheStore
  <1>3. /\ worker'[n].pc \notin {"none", "gone"}
        /\ \A m \in Ids : m # n =>
             worker'[m].pc = worker[m].pc \/ (worker[m].pc = "await" /\ worker'[m].pc = "pop")
    <2>1. CASE CacheLookup(n)
      <3>1. CASE Finish(n, TRUE)
        BY <3>1, FinishType
      <3>2. CASE worker' = [worker EXCEPT ![n] = [@ EXCEPT !.pc = "register", !.now = 0]]
        BY <3>2, MissType
      <3> QED
        BY <2>1, <3>1, <3>2 DEF CacheLookup
    <2>2. CASE Register(n)
      <3>1. PICK w : w = Woken(worker)
        OBVIOUS
      <3>2. /\ w \in [Ids -> WorkerRecord]
            /\ \A m \in Ids : w[m] = worker[m] \/ (worker[m].pc = "await" /\ w[m].pc = "pop")
        BY <3>1, WokenType
      <3>3. worker' = [w EXCEPT ![n].pc = "find"]
        BY <2>2, <3>1 DEF Register
      <3>4. worker'[n].pc = "find" /\ \A m \in Ids : m # n => worker'[m] = w[m]
        BY <3>2, <3>3 DEF WorkerRecord
      <3> QED
        BY <3>2, <3>4
    <2>3. CASE Find(n)
      <3>1. CASE n \in DOMAIN pending
        <4>1. Goto(n, "await")
          BY <2>3, <3>1 DEF Find
        <4>2. worker'[n].pc = "await" /\ \A m \in Ids : m # n => worker'[m] = worker[m]
          BY <1>1, <4>1, GotoType
        <4> QED
          BY <4>2
      <3>2. CASE n \notin DOMAIN pending
        <4>1. worker' = [worker EXCEPT ![n] = [@ EXCEPT !.pc = "store", !.answer = FALSE]]
          BY <2>3, <3>2 DEF Find
        <4>2. worker'[n].pc = "store" /\ \A m \in Ids : m # n => worker'[m] = worker[m]
          BY <1>1, <4>1, MoveType
        <4> QED
          BY <4>2
      <3> QED
        BY <3>1, <3>2
    <2>4. CASE Decided(n)
      <3>1. PICK d : d = pending[n].decision
        OBVIOUS
      <3>2. d \in Decisions
        BY <2>4, <3>1 DEF Decided, AType, Request
      <3>3. worker' = [worker EXCEPT ![n] = [@ EXCEPT !.pc = "pop", !.answer = d]]
        BY <2>4, <3>1 DEF Decided
      <3>4. worker'[n].pc = "pop" /\ \A m \in Ids : m # n => worker'[m] = worker[m]
        BY <1>1, <3>2, <3>3, MoveType
      <3> QED
        BY <3>4
    <2>5. CASE TimeOut(n)
      <3>1. worker' = [worker EXCEPT ![n] = [@ EXCEPT !.pc = "pop", !.answer = FALSE]]
        BY <2>5 DEF TimeOut
      <3>2. worker'[n].pc = "pop" /\ \A m \in Ids : m # n => worker'[m] = worker[m]
        BY <1>1, <3>1, MoveType
      <3> QED
        BY <3>2
    <2>6. CASE Pop(n)
      <3>1. Goto(n, "store")
        BY <2>6 DEF Pop
      <3>2. worker'[n].pc = "store" /\ \A m \in Ids : m # n => worker'[m] = worker[m]
        BY <1>1, <3>1, GotoType
      <3> QED
        BY <3>2
    <2>7. CASE CacheStore(n)
      <3>1. PICK answer : answer = worker[n].answer
        OBVIOUS
      <3>2. answer \in Decisions /\ Finish(n, answer)
        BY <1>1, <2>7, <3>1 DEF CacheStore, WorkerRecord
      <3> QED
        BY <3>2, FinishType
    <2> QED
      BY <2>1, <2>2, <2>3, <2>4, <2>5, <2>6, <2>7 DEF WorkerStep
  <1> QED
    BY <1>2, <1>3 DEF Alive

LEMMA InFlightStep ==
  ASSUME Track, InFlightIsBounded, [Next]_vars
  PROVE  InFlightIsBounded'
  <1> USE DEF Track
  <1>1. permits + Cardinality(Alive) = capacity /\ permits \in Nat
    BY DEF InFlightIsBounded, Alive, AType
  <1>2. (permits + Cardinality(Alive) = capacity)' => InFlightIsBounded'
    BY DEF InFlightIsBounded, Alive
  <1>3. Cardinality(Alive) \in Nat /\ IsFiniteSet(Alive)
    BY AliveIsFinite
  <1>4. CASE Alive' = Alive /\ UNCHANGED <<capacity, permits>>
    BY <1>1, <1>2, <1>4
  <1>5. ASSUME NEW c \in Callers, Decide(c)
        PROVE  InFlightIsBounded'
    <2> DEFINE n == caller[c].n
               r == [pc |-> "lookup", now |-> clock, answer |-> NoDecision]
    <2>1. n \in Ids /\ worker[n].pc = "none"
      BY <1>5, CallsBegunAreIds DEF CallsAreOwn, Decide, Inside, WorkersFollow
    <2>2. worker' = [worker EXCEPT ![n] = r] /\ permits' = permits - 1 /\ capacity' = capacity
      BY <1>5 DEF Decide
    <2>3. r.pc = "lookup"
      OBVIOUS
    <2> HIDE DEF n, r
    <2>4. n \notin Alive /\ Alive' = Alive \cup {n}
      BY <2>1, <2>2, <2>3 DEF Alive, AType
    <2>5. Cardinality(Alive)' = Cardinality(Alive) + 1
      BY <1>3, <2>4, FS_AddElement
    <2> QED
      BY <1>1, <1>2, <1>3, <2>2, <2>5
  <1>14. ASSUME NEW c \in Callers, StartFails(c)
         PROVE  InFlightIsBounded'
    <2>0. PICK n : n = caller[c].n
      OBVIOUS
    <2>1. n \in Ids /\ worker[n].pc = "none"
      BY <1>14, <2>0, CallsBegunAreIds DEF CallsAreOwn, StartFails, Inside, WorkersFollow
    <2>2. /\ worker' = [worker EXCEPT ![n].pc = "lost"]
          /\ permits' = permits - 1 /\ capacity' = capacity
      BY <1>14, <2>0 DEF StartFails
    <2>3. worker'[n].pc = "lost" /\ \A m \in Ids : m # n => worker'[m] = worker[m]
      BY <2>1, <2>2 DEF AType, WorkerRecord
    <2>4. n \notin Alive /\ Alive' = Alive \cup {n}
      BY <2>1, <2>3 DEF Alive
    <2>5. Cardinality(Alive)' = Cardinality(Alive) + 1
      BY <1>3, <2>4, FS_AddElement
    <2> QED
      BY <1>1, <1>2, <1>3, <2>2, <2>5
  <1>6. ASSUME NEW n \in Ids, Release(n)
        PROVE  InFlightIsBounded'
    <2>1. /\ worker'[n].pc = "gone"
          /\ \A m \in Ids : m # n => worker'[m] = worker[m]
      BY <1>6, ReleaseType
    <2>2. n \in Alive /\ Alive' = Alive \ {n}
      BY <1>6, <2>1 DEF Alive, Release
    <2>3. Cardinality(Alive)' = Cardinality(Alive) - 1
      BY <1>3, <2>2, FS_RemoveElement
    <2> QED
      BY <1>1, <1>2, <1>3, <1>6, <2>3 DEF Release
  <1>7. CASE Snapshot
    <2>1. \A m \in Ids : worker'[m] = worker[m] \/ (worker[m].pc = "await" /\ worker'[m].pc = "pop")
      BY <1>7, WokenType DEF Snapshot
    <2> QED
      BY <1>4, <1>7, <2>1 DEF Snapshot, Alive
  <1>8. CASE UNCHANGED <<worker, capacity, permits>>
    BY <1>4, <1>8 DEF Alive
  <1>9. ASSUME NEW n \in Ids, WorkerStep(n), ~Release(n)
        PROVE  InFlightIsBounded'
    BY <1>4, <1>9, StaysAlive
  <1>10. ASSUME NEW c \in Callers, CallerStep(c), ~Decide(c), ~StartFails(c)
         PROVE  UNCHANGED <<worker, capacity, permits>>
    BY <1>10 DEF CallerStep, Declare, DeclareFails, MarkDone, Overloaded, Answer, GiveUp
  <1>11. ASSUME NEW c \in Callers, Arrive(c)
         PROVE  UNCHANGED <<worker, capacity, permits>>
    BY <1>11 DEF Arrive
  <1>12. ASSUME NEW n \in Ids, NEW allow \in BOOLEAN, Operator(n, allow)
         PROVE  UNCHANGED <<worker, capacity, permits>>
    BY <1>12 DEF Operator
  <1>13. Tick \/ UNCHANGED vars => UNCHANGED <<worker, capacity, permits>>
    BY DEF Tick, vars
  <1> QED
    BY <1>5, <1>6, <1>7, <1>8, <1>9, <1>10, <1>11, <1>12, <1>13, <1>14 DEF Next, WorkerStep

LEMMA InFlightInit ==
  ASSUME Init
  PROVE  InFlightIsBounded
  <1>1. Alive = {}
    BY DEF Alive, Init, NoWorker
  <1>2. permits = capacity /\ capacity \in Nat
    BY ApprovalsAssumption DEF Init
  <1> QED
    BY <1>1, <1>2, FS_EmptySet DEF InFlightIsBounded, Alive

(***************************************************************************)
(* No more than max_in_flight workers are ever alive, whatever callers     *)
(* give up and whatever the capacity: a permit is taken for each worker    *)
(* and given back once, by its worker.                                     *)
(***************************************************************************)
THEOREM InFlightAlwaysBounded == Spec => []InFlightIsBounded
  BY TrackInit, TrackStep, InFlightInit, InFlightStep, PTL DEF Spec

-----------------------------------------------------------------------------
(* The observer: what a caller passed has been declared.                   *)

Declared ==
  /\ done \subseteq history.declared
  /\ \A c \in Callers : caller[c].pc \in {"mark", "ask", "wait"} => KeyOf(c) \in history.declared

\* What is recorded of the past is not taken back.
LEMMA HistoryGrows ==
  ASSUME Track, [Next]_vars
  PROVE  /\ history.allowed \subseteq history'.allowed /\ history.stored \subseteq history'.stored
         /\ history.recorded \subseteq history'.recorded /\ history.declared \subseteq history'.declared
  <1>1. history \in HistoryRecord
    BY DEF Track, AType
  <1>2. CASE UNCHANGED history
    BY <1>2
  <1>3. ASSUME NEW c \in Callers, Declare(c) PROVE history'.declared = history.declared \cup {KeyOf(c)}
                                              /\ history'.allowed = history.allowed
                                              /\ history'.stored = history.stored
                                              /\ history'.recorded = history.recorded
    BY <1>1, <1>3 DEF Declare, HistoryRecord
  <1>4. ASSUME NEW n \in Ids, CacheStore(n)
        PROVE  /\ history.stored \subseteq history'.stored
               /\ history'.allowed = history.allowed
               /\ history'.declared = history.declared
               /\ history'.recorded = history.recorded
    BY <1>1, <1>4 DEF CacheStore, HistoryRecord
  <1>5. ASSUME NEW n \in Ids, NEW allow \in BOOLEAN, Operator(n, allow)
        PROVE  /\ history.recorded \subseteq history'.recorded
               /\ history.allowed \subseteq history'.allowed
               /\ history'.declared = history.declared
               /\ history'.stored = history.stored
    BY <1>1, <1>5 DEF Operator, HistoryRecord
  <1>6. ASSUME NEW c \in Callers, Arrive(c) \/ CallerStep(c), ~Declare(c) PROVE UNCHANGED history
    BY <1>6 DEF Arrive, CallerStep, DeclareFails, MarkDone, Decide, StartFails, Overloaded, Answer, GiveUp
  <1>7. ASSUME NEW n \in Ids, WorkerStep(n), ~CacheStore(n) PROVE UNCHANGED history
    BY <1>7 DEF WorkerStep, CacheLookup, Register, Find, Decided, TimeOut, Pop, Release
  <1>8. Snapshot \/ Tick \/ UNCHANGED vars => UNCHANGED history
    BY DEF Snapshot, Tick, vars
  <1> QED
    BY <1>2, <1>3, <1>4, <1>5, <1>6, <1>7, <1>8 DEF Next

\* A call that was begun keeps its key, and one that asked when it did.
LEMMA CallsKeep ==
  ASSUME Track, [Next]_vars
  PROVE  \A n \in 1..calls : /\ call'[n].key = call[n].key
                             /\ worker[n].pc # "none" => call'[n].at = call[n].at
  <1> USE DEF Track
  <1>1. \A n \in Ids : call[n] \in CallRecord
    BY DEF AType
  <1>2. call \in [Ids -> CallRecord]
    BY DEF AType
  <1>3. ASSUME NEW c \in Callers, Arrive(c)
        PROVE  \A n \in 1..calls : call'[n].key = call[n].key /\ call'[n].at = call[n].at
    <2>1. PICK k \in Keys : call' = [call EXCEPT ![calls + 1].key = k]
      BY <1>3 DEF Arrive
    <2>2. \A n \in 1..calls : n # calls + 1 /\ n \in Ids
      BY CallsBegunAreIds
    <2> QED
      BY <1>2, <2>1, <2>2
  <1>4. ASSUME NEW c \in Callers, NEW decision \in Decisions, Tell(c, decision)
        PROVE  \A n \in 1..calls : call'[n].key = call[n].key /\ call'[n].at = call[n].at
    BY <1>4, TellType, CallsBegunAreIds
  <1>5. ASSUME NEW c \in Callers, Decide(c)
        PROVE  \A n \in 1..calls : /\ call'[n].key = call[n].key
                                   /\ worker[n].pc # "none" => call'[n].at = call[n].at
    <2>1. worker[caller[c].n].pc = "none"
      BY <1>5 DEF WorkersFollow, Decide
    <2>2. call' = [call EXCEPT ![caller[c].n].at = clock]
      BY <1>5 DEF Decide
    <2> QED
      BY <1>1, <1>2, <2>1, <2>2, CallsBegunAreIds DEF CallRecord
  <1>6. ASSUME NEW c \in Callers, Answer(c)
        PROVE  \E decision \in Decisions : Tell(c, decision)
    <2>1. caller[c].n \in Ids
      BY <1>6, CallsBegunAreIds DEF CallsAreOwn, Answer, Inside
    <2>2. worker[caller[c].n].answer \in Decisions
      BY <2>1 DEF AType, WorkerRecord
    <2> QED
      BY <1>6, <2>2 DEF Answer
  <1>7. ASSUME NEW c \in Callers, CallerStep(c), ~Decide(c)
        PROVE  \/ UNCHANGED call
               \/ \E decision \in Decisions : Tell(c, decision)
    BY <1>6, <1>7, DecisionsAreThree DEF CallerStep, Declare, DeclareFails, MarkDone, StartFails, Overloaded, GiveUp
  <1>8. ASSUME NEW n \in Ids, WorkerStep(n) \/ (\E allow \in BOOLEAN : Operator(n, allow))
        PROVE  UNCHANGED call
    BY <1>8 DEF WorkerStep, CacheLookup, Register, Find, Decided, TimeOut, Pop, CacheStore, Release, Operator
  <1>9. Snapshot \/ Tick \/ UNCHANGED vars => UNCHANGED call
    BY DEF Snapshot, Tick, vars
  <1>10. CASE UNCHANGED call
    BY <1>10
  <1> QED
    BY <1>3, <1>4, <1>5, <1>7, <1>8, <1>9, <1>10 DEF Next

LEMMA DeclaredStep ==
  ASSUME Track, Declared, [Next]_vars
  PROVE  Declared'
  <1> USE DEF Track
  <1>1. history.declared \subseteq history'.declared
    BY HistoryGrows
  <1>2. ASSUME NEW d \in Callers, Inside(d) PROVE caller[d].n \in 1..calls
    BY <1>2 DEF CallsAreOwn
  \* Callers whose place did not change still have what they had.
  <1>3. ASSUME NEW d \in Callers, caller'[d] = caller[d], caller'[d].pc \in {"mark", "ask", "wait"}
        PROVE  KeyOf(d)' \in history'.declared
    <2>1. KeyOf(d) \in history.declared /\ Inside(d)
      BY <1>3 DEF Declared, Inside
    <2>2. KeyOf(d)' = KeyOf(d)
      BY <1>2, <1>3, <2>1, CallsKeep DEF KeyOf
    <2> QED
      BY <1>1, <2>1, <2>2
  <1>4. CASE UNCHANGED <<done, caller>>
    BY <1>1, <1>3, <1>4 DEF Declared
  <1>5. ASSUME NEW c \in Callers, NEW decision \in Decisions, Tell(c, decision), UNCHANGED done
        PROVE  Declared'
    <2>1. caller'[c].pc = "idle" /\ \A d \in Callers : d # c => caller'[d] = caller[d]
      BY <1>5, TellType
    <2> QED
      BY <1>1, <1>3, <1>5, <2>1 DEF Declared
  <1>6. ASSUME NEW c \in Callers, NEW place \in {"mark", "ask", "wait"}, At(c, place), Inside(c),
               KeyOf(c) \in history'.declared, done' \subseteq history'.declared
        PROVE  Declared'
    <2>1. /\ caller'[c].pc = place /\ caller'[c].n = caller[c].n
          /\ \A d \in Callers : d # c => caller'[d] = caller[d]
      BY <1>6, AtType
    <2>2. KeyOf(c)' = KeyOf(c)
      BY <1>2, <1>6, <2>1, CallsKeep DEF KeyOf
    <2> QED
      BY <1>3, <1>6, <2>1, <2>2 DEF Declared
  <1>7. ASSUME NEW c \in Callers, Arrive(c) PROVE Declared'
    <2> DEFINE n == calls + 1
    <2>1. n \in Ids
      BY <1>7, ApprovalsAssumption DEF Arrive, AType, Ids
    <2>2. PICK k \in Keys :
            /\ call' = [call EXCEPT ![n].key = k]
            /\ caller' = [caller EXCEPT ![c] = [pc |-> IF k \in done THEN "ask" ELSE "declare", n |-> n]]
      BY <1>7 DEF Arrive
    <2>3. UNCHANGED <<done, history>>
      BY <1>7 DEF Arrive
    <2> HIDE DEF n
    <2>4. call'[n].key = k
      BY <2>1, <2>2 DEF AType, CallRecord
    <2>5. /\ caller'[c].n = n /\ caller'[c].pc = IF k \in done THEN "ask" ELSE "declare"
          /\ \A d \in Callers : d # c => caller'[d] = caller[d]
      BY <2>2 DEF AType
    <2>6. caller'[c].pc = "ask" => KeyOf(c)' \in history'.declared
      BY <2>3, <2>4, <2>5 DEF KeyOf, Declared
    <2>7. caller'[c].pc \in {"ask", "declare"}
      BY <2>5
    <2> QED
      BY <1>3, <2>3, <2>5, <2>6, <2>7 DEF Declared
  <1>8. ASSUME NEW c \in Callers, CallerStep(c) PROVE Declared'
    <2>1. CASE Declare(c)
      <3>1. history'.declared = history.declared \cup {KeyOf(c)}
        BY <2>1 DEF Declare, AType, HistoryRecord
      <3> QED
        BY <1>6, <2>1, <3>1 DEF Declare, Declared, Inside
    <2>2. CASE MarkDone(c)
      <3>1. done' = done \cup {KeyOf(c)} /\ history' = history /\ KeyOf(c) \in history.declared
        BY <2>2 DEF MarkDone, Declared
      <3> QED
        BY <1>6, <2>2, <3>1 DEF MarkDone, Declared, Inside
    <2>3. CASE Decide(c)
      <3>1. done' = done /\ history' = history /\ KeyOf(c) \in history.declared
        BY <2>3 DEF Decide, Declared
      <3> QED
        BY <1>6, <2>3, <3>1 DEF Decide, Declared, Inside
    <2>4. CASE Answer(c)
      <3>1. caller[c].n \in Ids
        BY <2>4, CallsBegunAreIds DEF CallsAreOwn, Answer, Inside
      <3>2. PICK answer : answer = worker[caller[c].n].answer
        OBVIOUS
      <3>3. answer \in Decisions /\ Tell(c, answer) /\ UNCHANGED done
        BY <2>4, <3>1, <3>2 DEF AType, WorkerRecord, Answer
      <3> QED
        BY <1>5, <3>3
    <2>5. CASE DeclareFails(c) \/ StartFails(c) \/ Overloaded(c) \/ GiveUp(c)
      BY <1>5, <2>5, DecisionsAreThree DEF DeclareFails, StartFails, Overloaded, GiveUp
    <2> QED
      BY <1>8, <2>1, <2>2, <2>3, <2>4, <2>5 DEF CallerStep
  <1>9. ASSUME NEW n \in Ids, WorkerStep(n) \/ (\E allow \in BOOLEAN : Operator(n, allow))
        PROVE  UNCHANGED <<done, caller>>
    BY <1>9 DEF WorkerStep, CacheLookup, Register, Find, Decided, TimeOut, Pop, CacheStore, Release, Operator
  <1>10. Snapshot \/ Tick \/ UNCHANGED vars => UNCHANGED <<done, caller>>
    BY DEF Snapshot, Tick, vars
  <1> QED
    BY <1>4, <1>7, <1>8, <1>9, <1>10 DEF Next

(***************************************************************************)
(* No call asks for approval before the observer has been told of its      *)
(* contract, for any number of callers and keys: what is marked as done    *)
(* has been declared, and a failure to declare marks nothing.              *)
(***************************************************************************)
THEOREM DeclaredAlwaysFirst == Spec => []DeclaredFirst
  <1>1. Init => Declared
    BY DEF Init, Declared, Outside
  <1>2. Declared => DeclaredFirst
    BY DEF Declared, DeclaredFirst
  <1> QED
    BY <1>1, <1>2, TrackInit, TrackStep, DeclaredStep, PTL DEF Spec

-----------------------------------------------------------------------------
(* The cache. Entries differ in their places, and the places are bounded.  *)

Entry == [expires : Nat, place : Nat]

Good(entries) ==
  /\ IsFiniteSet(DOMAIN entries) /\ DOMAIN entries \subseteq Keys
  /\ \A k \in DOMAIN entries : entries[k] \in Entry
  /\ \A k, m \in DOMAIN entries : entries[k].place = entries[m].place => k = m
  /\ \E b \in Nat : \A k \in DOMAIN entries : entries[k].place <= b

\* A part of a table has what the table has.
PartOf(part, entries) ==
  /\ DOMAIN part \subseteq DOMAIN entries
  /\ \A k \in DOMAIN part : part[k] = entries[k]

LEMMA PartIsGood ==
  ASSUME NEW entries, Good(entries), NEW part, PartOf(part, entries)
  PROVE  Good(part) /\ Cardinality(DOMAIN part) <= Cardinality(DOMAIN entries)
         /\ Cardinality(DOMAIN part) \in Nat
  <1>1. IsFiniteSet(DOMAIN part) /\ Cardinality(DOMAIN part) <= Cardinality(DOMAIN entries)
    BY FS_Subset, Zenon DEF Good, PartOf
  <1>2. Cardinality(DOMAIN part) \in Nat
    BY <1>1, FS_CardinalityType
  <1> QED
    BY <1>1, <1>2 DEF Good, PartOf

LEMMA RestrictIsPart ==
  ASSUME NEW entries, NEW S, S \subseteq DOMAIN entries
  PROVE  PartOf(Restrict(entries, S), entries) /\ DOMAIN Restrict(entries, S) = S
  BY DEF Restrict, PartOf

LEMMA PartsCompose ==
  ASSUME NEW a, NEW b, NEW c, PartOf(a, b), PartOf(b, c)
  PROVE  PartOf(a, c)
  BY DEF PartOf

LEMMA LiveAtIsPart ==
  ASSUME NEW entries, NEW now
  PROVE  PartOf(LiveAt(entries, now), entries)
  BY RestrictIsPart DEF LiveAt

\* The newest n entries are n at most: the oldest of them has fewer than n newer.
LEMMA NewestBound ==
  ASSUME NEW entries, Good(entries), NEW n \in Nat
  PROVE  /\ PartOf(Newest(entries, n), entries)
         /\ Cardinality(DOMAIN Newest(entries, n)) <= n
  <1> DEFINE Newer(k) == {m \in DOMAIN entries : entries[m].place > entries[k].place}
             T == {k \in DOMAIN entries : Cardinality(Newer(k)) < n}
  <1>1. PartOf(Newest(entries, n), entries) /\ DOMAIN Newest(entries, n) = T
    BY RestrictIsPart DEF Newest
  <1>2. IsFiniteSet(T) /\ Cardinality(T) \in Nat
    <2>1. T \subseteq DOMAIN entries
      OBVIOUS
    <2> QED
      BY <2>1, FS_Subset, FS_CardinalityType DEF Good
  <1>3. CASE T = {}
    <2> HIDE DEF T
    <2>1. Cardinality(T) = 0
      BY <1>3, FS_EmptySet
    <2> QED
      BY <1>1, <2>1
  <1>4. CASE T # {}
    <2> DEFINE P == {entries[k].place : k \in T}
    <2>1. P \subseteq Nat /\ P # {}
      <3>1. \A k \in DOMAIN entries : entries[k].place \in Nat
        BY DEF Good, Entry
      <3>2. T \subseteq DOMAIN entries
        OBVIOUS
      <3> HIDE DEF T
      <3> QED
        BY <1>4, <3>1, <3>2
    <2>2. PICK p \in P : \A q \in P : p <= q
      BY <2>1, LeastNatural
    <2>3. PICK k \in T : p = entries[k].place
      BY <2>2
    <2>4. \A m \in T : m # k => entries[m].place > entries[k].place
      <3>1. ASSUME NEW m \in T, m # k PROVE entries[m].place > entries[k].place
        <4>1. entries[m].place \in P
          OBVIOUS
        <4>2. p <= entries[m].place /\ p \in Nat /\ entries[m].place \in Nat
          BY <2>1, <2>2, <4>1
        <4>3. entries[m].place # entries[k].place
          BY <3>1 DEF Good
        <4> QED
          BY <2>3, <4>2, <4>3
      <3> QED
        BY <3>1
    <2>5. T \ {k} \subseteq Newer(k)
      BY <2>4
    <2>6. IsFiniteSet(Newer(k)) /\ Cardinality(Newer(k)) \in Nat
      <3>1. Newer(k) \subseteq DOMAIN entries
        OBVIOUS
      <3> QED
        BY <3>1, FS_Subset, FS_CardinalityType DEF Good
    <2>7. Cardinality(Newer(k)) < n
      BY <2>3
    <2> HIDE DEF T, Newer, P
    <2>8. Cardinality(T \ {k}) <= Cardinality(Newer(k))
      BY <2>5, <2>6, FS_Subset
    <2>9. Cardinality(T \ {k}) = Cardinality(T) - 1
      BY <1>2, <2>3, FS_RemoveElement
    <2> QED
      BY <1>1, <1>2, <2>6, <2>7, <2>8, <2>9
  <1> QED
    BY <1>3, <1>4

LEMMA MakeRoomBound ==
  ASSUME NEW entries, Good(entries), Cardinality(DOMAIN entries) <= MaxEntries, NEW now
  PROVE  /\ PartOf(MakeRoom(entries, now), entries)
         /\ Cardinality(DOMAIN MakeRoom(entries, now)) <= MaxEntries
  <1>1. CASE Cardinality(DOMAIN entries) >= MaxEntries
    <2>1. PICK e : e = LiveAt(entries, now)
      OBVIOUS
    <2>2. PartOf(e, entries) /\ Good(e)
      BY <2>1, LiveAtIsPart, PartIsGood
    <2>3. MaxEntries - 1 \in Nat /\ MaxEntries - 1 <= MaxEntries
      BY ApprovalsAssumption
    <2>4. PartOf(Newest(e, MaxEntries - 1), e) /\ Cardinality(DOMAIN Newest(e, MaxEntries - 1)) <= MaxEntries - 1
      BY <2>2, <2>3, NewestBound
    <2>5. MakeRoom(entries, now) = Newest(e, MaxEntries - 1)
      BY <1>1, <2>1 DEF MakeRoom
    <2>6. PartOf(Newest(e, MaxEntries - 1), entries)
      BY <2>2, <2>4, PartsCompose
    <2>7. Cardinality(DOMAIN Newest(e, MaxEntries - 1)) \in Nat
      BY <2>2, <2>4, PartIsGood
    <2>8. MaxEntries - 1 < MaxEntries /\ MaxEntries \in Nat
      BY ApprovalsAssumption
    <2> QED
      BY <2>4, <2>5, <2>6, <2>7, <2>8
  <1>2. CASE ~(Cardinality(DOMAIN entries) >= MaxEntries)
    <2>1. MakeRoom(entries, now) = entries
      BY <1>2 DEF MakeRoom
    <2> QED
      BY <2>1 DEF PartOf
  <1> QED
    BY <1>1, <1>2

\* A key that is set has a place of its own.
LEMMA SetEntryIsGood ==
  ASSUME NEW entries, Good(entries), NEW k \in Keys, NEW expires \in Nat
  PROVE  /\ Good(SetEntry(entries, k, expires))
         /\ DOMAIN SetEntry(entries, k, expires) = DOMAIN entries \cup {k}
         /\ SetEntry(entries, k, expires)[k].expires = expires
         /\ \A m \in DOMAIN entries : m # k => SetEntry(entries, k, expires)[m] = entries[m]
  <1> DEFINE filled == SetEntry(entries, k, expires)
  <1>1. PICK place : place = PlaceOf(entries, k)
    OBVIOUS
  <1>2. /\ DOMAIN filled = DOMAIN entries \cup {k}
        /\ filled[k] = [expires |-> expires, place |-> place]
        /\ \A m \in DOMAIN entries : m # k => filled[m] = entries[m]
    BY <1>1 DEF SetEntry
  <1>3. /\ place \in Nat
        /\ \A m \in DOMAIN entries : m # k => entries[m].place # place
        /\ \E b \in Nat : place <= b /\ \A m \in DOMAIN entries : entries[m].place <= b
    <2>1. CASE k \in DOMAIN entries
      <3>1. place = entries[k].place
        BY <1>1, <2>1 DEF PlaceOf
      <3> QED
        BY <2>1, <3>1 DEF Good, Entry
    <2>2. CASE k \notin DOMAIN entries
      <3> DEFINE S == {0} \cup {entries[m].place : m \in DOMAIN entries}
      <3>1. PICK b \in Nat : \A m \in DOMAIN entries : entries[m].place <= b
        BY DEF Good
      <3>2. S \subseteq 0..b /\ S # {}
        BY <3>1 DEF Good, Entry
      <3>3. PICK x \in S : \A y \in S : y <= x
        BY <3>1, <3>2, GreatestNatural
      <3>4. S \subseteq Nat
        BY <3>2
      <3>5. \E z \in S : \A y \in S : z >= y
        BY <3>3, <3>4
      <3>6. Max(S) \in S /\ \A y \in S : Max(S) >= y
        BY <3>5 DEF Max
      <3>7. PICK z : z = Max(S)
        OBVIOUS
      <3>8. place = 1 + z
        BY <1>1, <2>2, <3>7 DEF PlaceOf
      <3>9. z \in Nat /\ \A m \in DOMAIN entries : entries[m].place \in Nat /\ entries[m].place <= z
        BY <3>4, <3>6, <3>7
      <3> QED
        BY <3>8, <3>9
    <2> QED
      BY <2>1, <2>2
  <1> HIDE DEF filled
  <1>4. filled[k] \in Entry /\ filled[k].place = place /\ filled[k].expires = expires
    BY <1>2, <1>3 DEF Entry
  <1>5. IsFiniteSet(DOMAIN filled) /\ DOMAIN filled \subseteq Keys
    BY <1>2, FS_AddElement DEF Good
  <1>6. \A m \in DOMAIN filled : filled[m] \in Entry
    BY <1>2, <1>4 DEF Good
  <1>7. \A m, o \in DOMAIN filled : filled[m].place = filled[o].place => m = o
    BY <1>2, <1>3, <1>4 DEF Good
  <1>8. \E b \in Nat : \A m \in DOMAIN filled : filled[m].place <= b
    BY <1>2, <1>3, <1>4
  <1>9. Good(filled)
    BY <1>5, <1>6, <1>7, <1>8 DEF Good
  <1>10. filled = SetEntry(entries, k, expires)
    BY DEF filled
  <1> QED
    BY <1>2, <1>4, <1>9, <1>10

CacheOK == Good(cache) /\ Cardinality(DOMAIN cache) <= MaxEntries

\* What a step does to the cache: it drops entries, or sets one to what is stored.
CacheShrinks == PartOf(cache', cache) /\ history'.stored = history.stored

CacheFills ==
  \E n \in Ids :
    /\ worker[n].pc = "store" /\ worker[n].answer = TRUE
    /\ history'.stored = history.stored \cup {[key |-> call[n].key, at |-> clock, by |-> n]}
    /\ PartOf(cache', SetEntry(cache, call[n].key, clock + Ttl))

LEMMA CacheStep ==
  ASSUME Track, CacheOK, [Next]_vars
  PROVE  CacheOK' /\ (CacheShrinks \/ CacheFills)
  <1> USE DEF Track
  <1>1. CASE cache' = cache /\ history'.stored = history.stored
    BY <1>1 DEF CacheOK, CacheShrinks, PartOf
  <1>2. ASSUME NEW part, PartOf(part, cache), Cardinality(DOMAIN part) <= MaxEntries, cache' = part,
               history'.stored = history.stored
        PROVE  CacheOK' /\ CacheShrinks
    <2>1. Good(part)
      BY <1>2, PartIsGood DEF CacheOK
    <2> QED
      BY <1>2, <2>1 DEF CacheOK, CacheShrinks
  <1>3. ASSUME NEW n \in Ids, CacheLookup(n), cache' # cache
        PROVE  CacheOK' /\ CacheShrinks
    <2>1. PICK e : e = Restrict(cache, DOMAIN cache \ {call[n].key})
      OBVIOUS
    <2>2. PICK now : now = worker[n].now
      OBVIOUS
    <2>3. PartOf(e, cache)
      BY <2>1, RestrictIsPart
    <2>4. Good(e) /\ Cardinality(DOMAIN e) <= Cardinality(DOMAIN cache) /\ Cardinality(DOMAIN e) \in Nat
      BY <2>3, PartIsGood DEF CacheOK
    <2>5. Cardinality(DOMAIN cache) <= MaxEntries /\ Cardinality(DOMAIN cache) \in Nat /\ MaxEntries \in Nat
      BY FS_CardinalityType, ApprovalsAssumption DEF CacheOK, Good
    <2>6. Cardinality(DOMAIN e) <= MaxEntries
      BY <2>4, <2>5
    <2>7. PartOf(MakeRoom(e, now), e) /\ Cardinality(DOMAIN MakeRoom(e, now)) <= MaxEntries
      BY <2>4, <2>6, MakeRoomBound
    <2>8. PartOf(MakeRoom(e, now), cache)
      BY <2>3, <2>7, PartsCompose
    <2>9. cache' = MakeRoom(e, now) /\ history' = history
      BY <1>3, <2>1, <2>2 DEF CacheLookup
    <2> QED
      BY <1>2, <2>7, <2>8, <2>9
  <1>4. ASSUME NEW n \in Ids, CacheStore(n), worker[n].answer = TRUE
        PROVE  CacheOK' /\ CacheFills
    <2>1. PICK k : k = call[n].key
      OBVIOUS
    <2>2. PICK t : t = clock + Ttl
      OBVIOUS
    <2>3. PICK filled : filled = SetEntry(cache, k, t)
      OBVIOUS
    <2>4. k \in Keys /\ t \in Nat
      BY <2>1, <2>2, ApprovalsAssumption DEF AType, CallRecord
    <2>5. Good(filled)
      BY <2>3, <2>4, SetEntryIsGood DEF CacheOK
    <2>6. /\ worker[n].pc = "store" /\ worker[n].answer = TRUE
          /\ cache' = IF Cardinality(DOMAIN filled) > MaxEntries
                      THEN Newest(LiveAt(filled, clock), MaxEntries) ELSE filled
          /\ history' = [history EXCEPT !.stored = @ \cup {[key |-> k, at |-> clock, by |-> n]}]
      BY <1>4, <2>1, <2>2, <2>3 DEF CacheStore
    <2>7. history'.stored = history.stored \cup {[key |-> k, at |-> clock, by |-> n]}
      BY <2>6 DEF AType, HistoryRecord
    <2>8. PICK part : part = cache'
      OBVIOUS
    <2>9. PartOf(part, filled) /\ Cardinality(DOMAIN part) <= MaxEntries
      <3>1. CASE Cardinality(DOMAIN filled) > MaxEntries
        <4>1. PICK e : e = LiveAt(filled, clock)
          OBVIOUS
        <4>2. PartOf(e, filled) /\ Good(e)
          BY <2>5, <4>1, LiveAtIsPart, PartIsGood
        <4>3. PartOf(Newest(e, MaxEntries), e) /\ Cardinality(DOMAIN Newest(e, MaxEntries)) <= MaxEntries
          BY <4>2, ApprovalsAssumption, NewestBound
        <4>4. PartOf(Newest(e, MaxEntries), filled)
          BY <4>2, <4>3, PartsCompose
        <4> QED
          BY <2>6, <2>8, <3>1, <4>1, <4>3, <4>4
      <3>2. CASE ~(Cardinality(DOMAIN filled) > MaxEntries)
        <4>1. Cardinality(DOMAIN filled) \in Nat /\ MaxEntries \in Nat
          BY <2>5, FS_CardinalityType, ApprovalsAssumption DEF Good
        <4>2. part = filled
          BY <2>6, <2>8, <3>2
        <4> QED
          BY <3>2, <4>1, <4>2 DEF PartOf
      <3> QED
        BY <3>1, <3>2
    <2>10. Good(part)
      BY <2>5, <2>9, PartIsGood
    <2>11. CacheOK'
      BY <2>8, <2>9, <2>10 DEF CacheOK
    <2>12. CacheFills
      BY <2>1, <2>2, <2>3, <2>6, <2>7, <2>8, <2>9 DEF CacheFills
    <2> QED
      BY <2>11, <2>12
  <1>5. ASSUME NEW n \in Ids, CacheStore(n), worker[n].answer # TRUE
        PROVE  UNCHANGED <<cache, history>>
    BY <1>5 DEF CacheStore
  <1>6. ASSUME NEW c \in Callers, Arrive(c) \/ CallerStep(c), ~Declare(c) PROVE UNCHANGED <<cache, history>>
    BY <1>6 DEF Arrive, CallerStep, DeclareFails, MarkDone, Decide, StartFails, Overloaded, Answer, GiveUp
  <1>7. ASSUME NEW c \in Callers, Declare(c) PROVE cache' = cache /\ history'.stored = history.stored
    BY <1>7 DEF Declare, AType, HistoryRecord
  <1>8. ASSUME NEW n \in Ids, WorkerStep(n), ~CacheLookup(n), ~CacheStore(n)
        PROVE  UNCHANGED <<cache, history>>
    BY <1>8 DEF WorkerStep, Register, Find, Decided, TimeOut, Pop, Release
  <1>9. ASSUME NEW n \in Ids, NEW allow \in BOOLEAN, Operator(n, allow)
        PROVE  cache' = cache /\ history'.stored = history.stored
    BY <1>9 DEF Operator, AType, HistoryRecord
  <1>10. ASSUME NEW n \in Ids, CacheLookup(n) PROVE UNCHANGED history
    BY <1>10 DEF CacheLookup
  <1>11. Snapshot \/ Tick \/ UNCHANGED vars => UNCHANGED <<cache, history>>
    BY DEF Snapshot, Tick, vars
  <1> QED
    BY <1>1, <1>3, <1>4, <1>5, <1>6, <1>7, <1>8, <1>9, <1>10, <1>11 DEF Next

LEMMA CacheInit ==
  ASSUME Init
  PROVE  CacheOK
  <1>1. DOMAIN cache = {}
    BY DEF Init
  <1> QED
    BY <1>1, FS_EmptySet, ApprovalsAssumption DEF CacheOK, Good

(***************************************************************************)
(* Type correctness: the cache never holds more than max_entries, and the  *)
(* free permits never exceed the capacity, for every value of both.        *)
(***************************************************************************)
THEOREM ApprovalsTyped == Spec => []TypeOK
  <1>1. Track /\ CacheOK /\ InFlightIsBounded => TypeOK
    <2> SUFFICES ASSUME Track, CacheOK, InFlightIsBounded PROVE TypeOK
      OBVIOUS
    <2>1. permits + Cardinality(Alive) = capacity /\ Cardinality(Alive) \in Nat
      BY AliveIsFinite DEF InFlightIsBounded, Alive
    <2>2. permits \in 0..capacity
      BY <2>1, ApprovalsAssumption DEF Track, AType
    <2> QED
      BY <2>2 DEF TypeOK, Track, AType, CacheOK, Good, Entry, CallerRecord, CallRecord, WorkerRecord, Request
  <1> QED
    BY <1>1, TrackInit, TrackStep, CacheInit, CacheStep, InFlightInit, InFlightStep, PTL DEF Spec

-----------------------------------------------------------------------------
(* Where an allowance comes from.                                          *)

\* The call's key was stored less than its time to live before the call asked.
FromCache(n) == \E s \in history.stored : s.key = call[n].key /\ call[n].at < s.at + Ttl

WorkerEarned(n) ==
  /\ worker[n].pc \in {"none", "lookup", "register"} => n \notin history.recorded
  /\ worker[n].pc = "lookup" => worker[n].now = call[n].at
  /\ worker[n].answer = TRUE =>
       \/ worker[n].pc \in {"pop", "store", "end", "gone"} /\ n \in history.allowed
       \/ worker[n].pc \in {"end", "gone"} /\ n \notin history.recorded /\ FromCache(n)
  /\ call[n].told = TRUE => worker[n].answer = TRUE /\ IsSet(n)

Earned ==
  /\ history.allowed \subseteq history.recorded
  /\ \A n \in DOMAIN pending : pending[n].decision = TRUE => n \in history.allowed
  /\ \A n \in Ids : WorkerEarned(n)
  /\ \A k \in DOMAIN cache : \E s \in history.stored : s.key = k /\ cache[k].expires = s.at + Ttl
  /\ \A s \in history.stored : s.by \in history.allowed /\ call[s.by].key = s.key

\* An operator's word is on a request that is there, and is kept with it.
LEMMA OperatorsWord ==
  ASSUME Track, Earned, [Next]_vars
  PROVE  /\ \A n \in history'.recorded : n \in history.recorded \/ worker[n].pc \in {"find", "await", "pop"}
         /\ history'.allowed \subseteq history'.recorded
         /\ \A n \in DOMAIN pending' : pending'[n].decision = TRUE => n \in history'.allowed
  <1> USE DEF Track
  <1>1. history \in HistoryRecord
    BY DEF AType
  <1>2. history.allowed \subseteq history'.allowed
    BY HistoryGrows
  <1>3. ASSUME history'.recorded = history.recorded, history'.allowed = history.allowed,
               \A n \in DOMAIN pending' : pending'[n].decision = TRUE =>
                 n \in DOMAIN pending /\ pending[n].decision = TRUE
        PROVE  /\ \A n \in history'.recorded : n \in history.recorded
               /\ history'.allowed \subseteq history'.recorded
               /\ \A n \in DOMAIN pending' : pending'[n].decision = TRUE => n \in history'.allowed
    BY <1>3 DEF Earned
  <1>4. ASSUME NEW n \in Ids, NEW allow \in BOOLEAN, Operator(n, allow)
        PROVE  /\ \A m \in history'.recorded : m \in history.recorded \/ worker[m].pc \in {"find", "await", "pop"}
               /\ history'.allowed \subseteq history'.recorded
               /\ \A m \in DOMAIN pending' : pending'[m].decision = TRUE => m \in history'.allowed
    <2>1. /\ history'.recorded = history.recorded \cup {n}
          /\ history'.allowed = IF allow THEN history.allowed \cup {n} ELSE history.allowed
      BY <1>1, <1>4 DEF Operator, HistoryRecord
    <2>2. worker[n].pc \in {"find", "await", "pop"} /\ n \in DOMAIN pending
      BY <1>4 DEF Operator, PendingIsAwaited
    <2>3. /\ DOMAIN pending' = DOMAIN pending /\ pending'[n].decision = allow
          /\ \A m \in DOMAIN pending : m # n => pending'[m] = pending[m]
      BY <1>4, <2>2 DEF Operator, AType, Request
    <2>4. \A m \in DOMAIN pending' : pending'[m].decision = TRUE => m \in history'.allowed
      BY <1>2, <2>1, <2>3 DEF Earned
    <2> QED
      BY <2>1, <2>2, <2>4 DEF Earned
  <1>5. ASSUME NEW c \in Callers, Arrive(c) \/ CallerStep(c)
        PROVE  UNCHANGED pending /\ history'.recorded = history.recorded /\ history'.allowed = history.allowed
    BY <1>1, <1>5 DEF Arrive, CallerStep, Declare, DeclareFails, MarkDone, Decide, StartFails, Overloaded, Answer, GiveUp,
                      HistoryRecord
  <1>6. ASSUME NEW n \in Ids, WorkerStep(n)
        PROVE  history'.recorded = history.recorded /\ history'.allowed = history.allowed
    BY <1>1, <1>6 DEF WorkerStep, CacheLookup, Register, Find, Decided, TimeOut, Pop, CacheStore, Release,
                      HistoryRecord
  <1>7. ASSUME NEW n \in Ids, WorkerStep(n), ~Register(n), ~Pop(n)
        PROVE  UNCHANGED pending
    BY <1>7 DEF WorkerStep, CacheLookup, Find, Decided, TimeOut, CacheStore, Release
  <1>8. ASSUME NEW n \in Ids, Pop(n)
        PROVE  \A m \in DOMAIN pending' : m \in DOMAIN pending /\ pending'[m] = pending[m]
    BY <1>8 DEF Pop
  <1>9. ASSUME NEW n \in Ids, Register(n), NEW m \in DOMAIN pending', pending'[m].decision = TRUE
        PROVE  m \in DOMAIN pending /\ pending[m].decision = TRUE
    <2>1. NoDecision # TRUE
      BY ApprovalsAssumption
    <2>2. m # n
      BY <1>9, <2>1 DEF Register
    <2> QED
      BY <1>9, <2>2, SweptKeeps DEF Register
  <1>10. ASSUME Snapshot
         PROVE  /\ \A m \in DOMAIN pending' : m \in DOMAIN pending /\ pending'[m] = pending[m]
                /\ UNCHANGED history
    BY <1>10, SweptKeeps DEF Snapshot
  <1>11. Tick \/ UNCHANGED vars => UNCHANGED <<pending, history>>
    BY DEF Tick, vars
  <1>12. CASE UNCHANGED <<pending, history>>
    BY <1>3, <1>12
  <1>13. ASSUME NEW c \in Callers, Arrive(c) \/ CallerStep(c)
         PROVE  /\ \A n \in history'.recorded : n \in history.recorded
                /\ history'.allowed \subseteq history'.recorded
                /\ \A n \in DOMAIN pending' : pending'[n].decision = TRUE => n \in history'.allowed
    BY <1>3, <1>5, <1>13
  <1>14. ASSUME NEW n \in Ids, WorkerStep(n)
         PROVE  /\ \A m \in history'.recorded : m \in history.recorded
                /\ history'.allowed \subseteq history'.recorded
                /\ \A m \in DOMAIN pending' : pending'[m].decision = TRUE => m \in history'.allowed
    <2>1. CASE Register(n)
      BY <1>3, <1>6, <1>9, <1>14, <2>1
    <2>2. CASE Pop(n)
      BY <1>3, <1>6, <1>8, <1>14, <2>2
    <2>3. CASE ~Register(n) /\ ~Pop(n)
      BY <1>3, <1>6, <1>7, <1>14, <2>3
    <2> QED
      BY <2>1, <2>2, <2>3
  <1>15. CASE Snapshot
    BY <1>3, <1>10, <1>15
  <1> QED
    BY <1>4, <1>11, <1>12, <1>13, <1>14, <1>15 DEF Next

\* Where an allowance came from does not change.
LEMMA SourcesKeep ==
  ASSUME Track, Earned, [Next]_vars
  PROVE  /\ \A n \in Ids : worker[n].pc # "none" =>
              call'[n].key = call[n].key /\ call'[n].at = call[n].at
         /\ \A m \in history.allowed : m \in history'.allowed /\ call'[m].key = call[m].key
         /\ \A n \in Ids : worker[n].pc # "none" /\ FromCache(n) => FromCache(n)'
  <1> USE DEF Track
  <1>1. ASSUME NEW n \in Ids, worker[n].pc # "none"
        PROVE  call'[n].key = call[n].key /\ call'[n].at = call[n].at
    <2>1. ~(n > calls)
      BY <1>1 DEF WorkersFollow
    <2>2. n \in 1..calls
      BY <2>1, CallsBegunAreIds DEF Ids
    <2> QED
      BY <1>1, <2>2, CallsKeep
  <1>2. ASSUME NEW m \in history.allowed
        PROVE  m \in history'.allowed /\ call'[m].key = call[m].key
    <2>1. m \in Ids
      BY <1>2 DEF AType, HistoryRecord
    <2>2. worker[m].pc # "none"
      BY <1>2, <2>1 DEF Earned, WorkerEarned
    <2> QED
      BY <1>1, <1>2, <2>1, <2>2, HistoryGrows
  <1>3. ASSUME NEW n \in Ids, worker[n].pc # "none", FromCache(n)
        PROVE  FromCache(n)'
    <2>1. PICK s \in history.stored : s.key = call[n].key /\ call[n].at < s.at + Ttl
      BY <1>3 DEF FromCache
    <2>3. s \in history'.stored
      BY <2>1, HistoryGrows
    <2> QED
      BY <1>1, <1>3, <2>1, <2>3 DEF FromCache
  <1> QED
    BY <1>1, <1>2, <1>3

\* A worker that does not move keeps what it earned.
LEMMA WorkerKeeps ==
  ASSUME Track, Earned, [Next]_vars, NEW n \in Ids, worker'[n] = worker[n],
         call'[n].told = TRUE => worker[n].answer = TRUE /\ IsSet(n)
  PROVE  WorkerEarned(n)'
  <1>1. WorkerEarned(n)
    BY DEF Earned
  <1>2. n \in history'.recorded => n \in history.recorded \/ worker[n].pc \in {"find", "await", "pop"}
    BY OperatorsWord
  <1>3. /\ worker[n].pc # "none" => call'[n].at = call[n].at
        /\ worker[n].pc # "none" /\ FromCache(n) => FromCache(n)'
        /\ n \in history.allowed => n \in history'.allowed
    BY SourcesKeep
  <1> HIDE DEF FromCache
  <1> QED
    BY <1>1, <1>2, <1>3 DEF WorkerEarned, IsSet

\* A worker that moves gets its answer from an operator or from the cache.
LEMMA WorkerEarns ==
  ASSUME Track, Earned, NEW n \in Ids, WorkerStep(n)
  PROVE  WorkerEarned(n)'
  <1> USE DEF Track
  <1>1. WorkerEarned(n) /\ call' = call
    BY DEF Earned, WorkerStep, CacheLookup, Register, Find, Decided, TimeOut, Pop, CacheStore, Release
  <1>2. /\ worker[n] \in WorkerRecord
        /\ "await" \in Stages /\ "store" \in Stages /\ "pop" \in Stages
    BY DEF AType, Stages
  <1>3. history'.recorded = history.recorded /\ history'.allowed = history.allowed
    BY DEF WorkerStep, CacheLookup, Register, Find, Decided, TimeOut, Pop, CacheStore, Release,
           AType, HistoryRecord
  <1>4. ~Release(n) => call[n].told # TRUE
    BY <1>1 DEF WorkerEarned, IsSet, WorkerStep, CacheLookup, Register, Find, Decided, TimeOut, Pop, CacheStore
  \* What a worker with an operator's word, or with no allowance, has to show.
  <1>5. ASSUME worker'[n].pc \notin {"none", "lookup", "register"}, ~Release(n),
               worker'[n].answer = TRUE => /\ worker'[n].pc \in {"pop", "store", "end", "gone"}
                                           /\ n \in history.allowed
        PROVE  WorkerEarned(n)'
    BY <1>1, <1>3, <1>4, <1>5 DEF WorkerEarned
  <1>6. FALSE # TRUE /\ NoDecision # TRUE
    BY ApprovalsAssumption
  <1>7. CASE CacheLookup(n)
    <2>1. CASE call[n].key \in DOMAIN cache /\ cache[call[n].key].expires > worker[n].now
      <3>1. Finish(n, TRUE) /\ history' = history /\ worker[n].pc = "lookup"
        BY <1>7, <2>1 DEF CacheLookup
      <3>2. worker'[n].pc = "end" /\ worker'[n].answer = TRUE
        BY <3>1, FinishType, DecisionsAreThree
      <3>3. PICK s \in history.stored : s.key = call[n].key /\ cache[call[n].key].expires = s.at + Ttl
        BY <2>1 DEF Earned
      <3>5. worker[n].now = call[n].at /\ n \notin history.recorded
        BY <1>1, <3>1 DEF WorkerEarned
      <3>6. call[n].at \in Int /\ s.at + Ttl \in Int
        BY <3>3, ApprovalsAssumption DEF AType, CallRecord, HistoryRecord, Stored
      <3>7. call[n].at < s.at + Ttl
        BY <2>1, <3>3, <3>5, <3>6
      <3>8. FromCache(n)'
        BY <1>1, <3>1, <3>3, <3>7 DEF FromCache
      <3> QED
        BY <1>1, <1>3, <3>1, <3>2, <3>5, <3>8 DEF WorkerEarned, IsSet
    <2>2. CASE ~(call[n].key \in DOMAIN cache /\ cache[call[n].key].expires > worker[n].now)
      <3>1. worker' = [worker EXCEPT ![n] = [@ EXCEPT !.pc = "register", !.now = 0]]
            /\ worker[n].pc = "lookup"
        BY <1>7, <2>2 DEF CacheLookup
      <3>2. worker'[n].pc = "register" /\ worker'[n].answer = worker[n].answer
        BY <3>1, MissType
      <3>3. call[n].told # TRUE
        BY <1>1, <3>1 DEF WorkerEarned, IsSet
      <3> QED
        BY <1>1, <1>3, <3>1, <3>2, <3>3 DEF WorkerEarned
    <2> QED
      BY <2>1, <2>2
  <1>8. CASE Register(n)
    <2>1. PICK w : w = Woken(worker)
      OBVIOUS
    <2>2. w \in [Ids -> WorkerRecord] /\ w[n] = worker[n] /\ worker[n].pc = "register"
      BY <1>8, <2>1, WokenType DEF Register
    <2>3. worker' = [w EXCEPT ![n].pc = "find"]
      BY <1>8, <2>1 DEF Register
    <2>4. worker'[n].pc = "find" /\ worker'[n].answer = worker[n].answer
      BY <2>2, <2>3 DEF WorkerRecord
    <2>5. worker[n].answer # TRUE
      BY <1>1, <2>2 DEF WorkerEarned
    <2>6. ~Release(n)
      BY <2>2 DEF Release
    <2> QED
      BY <1>5, <2>4, <2>5, <2>6
  <1>9. CASE Find(n)
    <2>1. worker[n].pc = "find" /\ ~Release(n)
      BY <1>9 DEF Find, Release
    <2>2. worker[n].answer # TRUE
      BY <1>1, <2>1 DEF WorkerEarned
    <2>3. CASE n \in DOMAIN pending
      <3>1. worker'[n].pc = "await" /\ worker'[n].answer = worker[n].answer
        BY <1>2, <1>9, <2>3, GotoType DEF Find
      <3> QED
        BY <1>5, <2>1, <2>2, <3>1
    <2>4. CASE n \notin DOMAIN pending
      <3>1. worker' = [worker EXCEPT ![n] = [@ EXCEPT !.pc = "store", !.answer = FALSE]]
        BY <1>9, <2>4 DEF Find
      <3>2. worker'[n].pc = "store" /\ worker'[n].answer = FALSE
        BY <1>2, <3>1, MoveType, DecisionsAreThree
      <3> QED
        BY <1>5, <1>6, <2>1, <3>2
    <2> QED
      BY <2>3, <2>4
  <1>10. CASE Decided(n)
    <2>1. PICK d : d = pending[n].decision
      OBVIOUS
    <2>2. d \in Decisions
      BY <1>10, <2>1 DEF Decided, AType, Request
    <2>3. worker' = [worker EXCEPT ![n] = [@ EXCEPT !.pc = "pop", !.answer = d]]
      BY <1>10, <2>1 DEF Decided
    <2>4. worker'[n].pc = "pop" /\ worker'[n].answer = d
      BY <1>2, <2>2, <2>3, MoveType
    <2>5. d = TRUE => n \in history.allowed
      BY <1>10, <2>1 DEF Earned, Decided
    <2>6. ~Release(n)
      BY <1>10 DEF Decided, Release
    <2> QED
      BY <1>5, <2>4, <2>5, <2>6
  <1>11. CASE TimeOut(n)
    <2>1. worker' = [worker EXCEPT ![n] = [@ EXCEPT !.pc = "pop", !.answer = FALSE]] /\ ~Release(n)
      BY <1>11 DEF TimeOut, Release
    <2>2. worker'[n].pc = "pop" /\ worker'[n].answer = FALSE
      BY <1>2, <2>1, MoveType, DecisionsAreThree
    <2> QED
      BY <1>5, <1>6, <2>1, <2>2
  <1>12. CASE Pop(n)
    <2>1. worker'[n].pc = "store" /\ worker'[n].answer = worker[n].answer
      BY <1>2, <1>12, GotoType DEF Pop
    <2>2. worker[n].pc = "pop" /\ ~Release(n)
      BY <1>12 DEF Pop, Release
    <2>3. worker[n].answer = TRUE => n \in history.allowed
      BY <1>1, <2>2 DEF WorkerEarned
    <2> QED
      BY <1>5, <2>1, <2>2, <2>3
  <1>13. CASE CacheStore(n)
    <2>1. PICK answer : answer = worker[n].answer
      OBVIOUS
    <2>2. answer \in Decisions /\ Finish(n, answer) /\ worker[n].pc = "store" /\ ~Release(n)
      BY <1>2, <1>13, <2>1 DEF CacheStore, WorkerRecord, Release
    <2>3. worker'[n].pc = "end" /\ worker'[n].answer = answer
      BY <2>2, FinishType
    <2>4. answer = TRUE => n \in history.allowed
      BY <1>1, <2>1, <2>2 DEF WorkerEarned
    <2> QED
      BY <1>5, <2>2, <2>3, <2>4
  <1>14. CASE Release(n)
    <2>1. worker'[n].pc = "gone" /\ worker'[n].answer = worker[n].answer
      BY <1>14, ReleaseType
    <2>2. worker[n].pc = "end" /\ history' = history
      BY <1>14 DEF Release
    <2>3. FromCache(n)' <=> FromCache(n)
      BY <1>1, <2>2 DEF FromCache
    <2> QED
      BY <1>1, <1>3, <2>1, <2>2, <2>3 DEF WorkerEarned, IsSet
  <1> QED
    BY <1>7, <1>8, <1>9, <1>10, <1>11, <1>12, <1>13, <1>14 DEF WorkerStep

\* A worker that a sweep woke has been denied.
LEMMA WokenEarns ==
  ASSUME Track, Earned, [Next]_vars, NEW n \in Ids, call' = call,
         worker[n].pc = "await", worker'[n].pc = "pop", worker'[n].answer = FALSE
  PROVE  WorkerEarned(n)'
  BY DEF Earned, WorkerEarned, IsSet

\* One worker moves; the others stay, or are woken by its sweep.
LEMMA OthersEarn ==
  ASSUME Track, Earned, [Next]_vars, NEW n \in Ids, WorkerStep(n)
  PROVE  \A m \in Ids : WorkerEarned(m)'
  <1> USE DEF Track
  <1>1. call' = call
    BY DEF WorkerStep, CacheLookup, Register, Find, Decided, TimeOut, Pop, CacheStore, Release
  <1>2. ASSUME NEW m \in Ids, worker'[m] = worker[m] PROVE WorkerEarned(m)'
    <2>1. call'[m].told = TRUE => worker[m].answer = TRUE /\ IsSet(m)
      BY <1>1 DEF Earned, WorkerEarned
    <2> QED
      BY <1>2, <2>1, WorkerKeeps
  <1>3. ASSUME NEW m \in Ids, m # n
        PROVE  \/ worker'[m] = worker[m]
               \/ worker[m].pc = "await" /\ worker'[m].pc = "pop" /\ worker'[m].answer = FALSE
    <2>1. CASE Register(n)
      <3>1. PICK w : w = Woken(worker)
        OBVIOUS
      <3>2. /\ w \in [Ids -> WorkerRecord]
            /\ \/ w[m] = worker[m]
               \/ worker[m].pc = "await" /\ w[m].pc = "pop" /\ w[m].answer = FALSE
        BY <3>1, WokenType
      <3>3. worker' = [w EXCEPT ![n].pc = "find"]
        BY <2>1, <3>1 DEF Register
      <3>4. worker'[m] = w[m]
        BY <1>3, <3>2, <3>3
      <3> QED
        BY <3>2, <3>4
    <2>2. CASE ~Register(n)
      <3>1. worker \in [Ids -> WorkerRecord]
        BY DEF AType
      <3> QED
        BY <1>3, <2>2, <3>1 DEF WorkerStep, CacheLookup, Find, Decided, TimeOut, Pop, CacheStore, Release,
                                Finish, Goto
    <2> QED
      BY <2>1, <2>2
  <1>4. ASSUME NEW m \in Ids PROVE WorkerEarned(m)'
    <2>1. CASE m = n
      BY <2>1, WorkerEarns
    <2>2. CASE m # n
      BY <1>1, <1>2, <1>3, <2>2, WokenEarns
    <2> QED
      BY <2>1, <2>2
  <1> QED
    BY <1>4

LEMMA WorkersEarnedStep ==
  ASSUME Track, Earned, [Next]_vars
  PROVE  \A n \in Ids : WorkerEarned(n)'
  <1> USE DEF Track
  <1>1. ASSUME NEW n \in Ids, call'[n].told = call[n].told
        PROVE  call'[n].told = TRUE => worker[n].answer = TRUE /\ IsSet(n)
    BY <1>1 DEF Earned, WorkerEarned
  <1>2. CASE UNCHANGED <<call, worker>>
    BY <1>1, <1>2, WorkerKeeps
  <1>3. ASSUME NEW c \in Callers, NEW decision \in Decisions, Tell(c, decision), UNCHANGED worker,
               decision = TRUE => worker[caller[c].n].answer = TRUE /\ IsSet(caller[c].n)
        PROVE  \A n \in Ids : WorkerEarned(n)'
    <2>1. ASSUME NEW n \in Ids PROVE call'[n].told = TRUE => worker[n].answer = TRUE /\ IsSet(n)
      <3>1. call'[n].told = IF n = caller[c].n THEN decision ELSE call[n].told
        BY <1>3, TellType
      <3>2. WorkerEarned(n)
        BY DEF Earned
      <3> QED
        BY <1>3, <3>1, <3>2 DEF WorkerEarned
    <2> QED
      BY <1>3, <2>1, WorkerKeeps
  <1>4. ASSUME NEW c \in Callers, Arrive(c) PROVE \A n \in Ids : WorkerEarned(n)'
    <2>1. PICK k \in Keys : call' = [call EXCEPT ![calls + 1].key = k]
      BY <1>4 DEF Arrive
    <2>2. worker' = worker
      BY <1>4 DEF Arrive
    <2>3. \A n \in Ids : call'[n].told = call[n].told
      BY <2>1 DEF AType, CallRecord
    <2> QED
      BY <1>1, <2>2, <2>3, WorkerKeeps
  <1>5. ASSUME NEW c \in Callers, Decide(c) PROVE \A n \in Ids : WorkerEarned(n)'
    <2>0. PICK n : n = caller[c].n
      OBVIOUS
    <2> DEFINE r == [pc |-> "lookup", now |-> clock, answer |-> NoDecision]
    <2>1. n \in Ids /\ worker[n].pc = "none" /\ call[n].told = NoDecision
      BY <1>5, <2>0, CallsBegunAreIds DEF CallsAreOwn, Decide, Inside, WorkersFollow
    <2>2. worker' = [worker EXCEPT ![n] = r] /\ call' = [call EXCEPT ![n].at = clock] /\ history' = history
      BY <1>5, <2>0 DEF Decide
    <2>3. r.pc = "lookup" /\ r.now = clock /\ r.answer = NoDecision
      OBVIOUS
    <2> HIDE DEF r
    <2>4. /\ worker'[n] = r /\ \A m \in Ids : m # n => worker'[m] = worker[m]
          /\ call'[n].at = clock /\ \A m \in Ids : call'[m].told = call[m].told
      BY <2>1, <2>2 DEF AType, CallRecord
    <2>5. NoDecision # TRUE
      BY ApprovalsAssumption
    <2>6. n \notin history.recorded
      BY <2>1 DEF Earned, WorkerEarned
    <2>7. WorkerEarned(n)'
      BY <2>1, <2>2, <2>3, <2>4, <2>5, <2>6 DEF WorkerEarned
    <2>8. ASSUME NEW m \in Ids, m # n PROVE WorkerEarned(m)'
      <3>1. worker'[m] = worker[m] /\ call'[m].told = call[m].told
        BY <2>4, <2>8
      <3> QED
        BY <1>1, <3>1, WorkerKeeps
    <2> QED
      BY <2>7, <2>8
  <1>10. ASSUME NEW c \in Callers, StartFails(c) PROVE \A n \in Ids : WorkerEarned(n)'
    <2>0. PICK n : n = caller[c].n
      OBVIOUS
    <2>1. n \in Ids /\ worker[n].pc = "none"
      BY <1>10, <2>0, CallsBegunAreIds DEF CallsAreOwn, StartFails, Inside, WorkersFollow
    <2>2. worker' = [worker EXCEPT ![n].pc = "lost"] /\ Tell(c, FALSE) /\ FALSE # TRUE /\ history' = history
      BY <1>10, <2>0 DEF StartFails
    <2>3. /\ worker'[n].pc = "lost" /\ worker'[n].answer = worker[n].answer
          /\ \A m \in Ids : m # n => worker'[m] = worker[m]
      BY <2>1, <2>2 DEF AType, WorkerRecord
    <2>4. \A m \in Ids : call'[m].told = IF m = n THEN FALSE ELSE call[m].told
      <3>1. FALSE \in Decisions /\ Tell(c, FALSE)
        BY <2>2, DecisionsAreThree
      <3>2. \A m \in Ids : call'[m].told = IF m = caller[c].n THEN FALSE ELSE call[m].told
        BY <3>1, TellType
      <3> QED
        BY <2>0, <3>2
    <2>5. WorkerEarned(n) /\ n \notin history.recorded /\ worker[n].answer # TRUE
      BY <2>1 DEF Earned, WorkerEarned
    <2>6. WorkerEarned(n)'
      BY <2>1, <2>2, <2>3, <2>4, <2>5 DEF WorkerEarned
    <2>7. ASSUME NEW m \in Ids, m # n PROVE WorkerEarned(m)'
      <3>1. worker'[m] = worker[m] /\ call'[m].told = call[m].told
        BY <2>3, <2>4, <2>7
      <3> QED
        BY <1>1, <3>1, WorkerKeeps
    <2> QED
      BY <2>6, <2>7
  <1>6. ASSUME NEW c \in Callers, CallerStep(c) PROVE \A n \in Ids : WorkerEarned(n)'
    <2>1. CASE Decide(c)
      BY <1>5, <2>1
    <2>2. CASE Declare(c) \/ MarkDone(c)
      BY <1>2, <2>2 DEF Declare, MarkDone
    <2>3. CASE DeclareFails(c) \/ Overloaded(c) \/ GiveUp(c)
      <3>1. Tell(c, FALSE) /\ UNCHANGED worker /\ FALSE # TRUE
        BY <2>3 DEF DeclareFails, Overloaded, GiveUp
      <3> QED
        BY <1>3, <3>1, DecisionsAreThree
    <2>4. CASE Answer(c)
      <3>1. caller[c].n \in Ids
        BY <2>4, CallsBegunAreIds DEF CallsAreOwn, Answer, Inside
      <3>2. PICK answer : answer = worker[caller[c].n].answer
        OBVIOUS
      <3>3. answer \in Decisions /\ Tell(c, answer) /\ UNCHANGED worker /\ IsSet(caller[c].n)
        BY <2>4, <3>1, <3>2 DEF AType, WorkerRecord, Answer
      <3> QED
        BY <1>3, <3>2, <3>3
    <2> QED
      BY <1>6, <1>10, <2>1, <2>2, <2>3, <2>4 DEF CallerStep
  <1>7. ASSUME Snapshot PROVE \A n \in Ids : WorkerEarned(n)'
    <2>1. call' = call
      BY <1>7 DEF Snapshot
    <2>2. ASSUME NEW n \in Ids PROVE WorkerEarned(n)'
      <3>1. \/ worker'[n] = worker[n]
            \/ worker[n].pc = "await" /\ worker'[n].pc = "pop" /\ worker'[n].answer = FALSE
        BY <1>7, WokenType DEF Snapshot
      <3> QED
        BY <1>1, <2>1, <3>1, WorkerKeeps, WokenEarns
    <2> QED
      BY <2>2
  <1>8. ASSUME NEW n \in Ids, NEW allow \in BOOLEAN, Operator(n, allow) PROVE UNCHANGED <<call, worker>>
    BY <1>8 DEF Operator
  <1>9. Tick \/ UNCHANGED vars => UNCHANGED <<call, worker>>
    BY DEF Tick, vars
  <1> QED
    BY <1>2, <1>4, <1>6, <1>7, <1>8, <1>9, OthersEarn DEF Next

LEMMA EarnedStep ==
  ASSUME Track, CacheOK, Earned, [Next]_vars
  PROVE  Earned'
  <1> USE DEF Track
  <1>1. \A n \in Ids : WorkerEarned(n)'
    BY WorkersEarnedStep
  <1>2. \A m \in history.allowed : m \in history'.allowed /\ call'[m].key = call[m].key
    BY SourcesKeep
  <1>3. CASE CacheShrinks
    <2>1. \A k \in DOMAIN cache' : \E s \in history'.stored : s.key = k /\ cache'[k].expires = s.at + Ttl
      BY <1>3 DEF CacheShrinks, PartOf, Earned
    <2>2. \A s \in history'.stored : s.by \in history'.allowed /\ call'[s.by].key = s.key
      BY <1>2, <1>3 DEF CacheShrinks, Earned
    <2> QED
      BY <1>1, <2>1, <2>2, OperatorsWord DEF Earned
  <1>4. CASE CacheFills
    <2>1. PICK n \in Ids :
            /\ worker[n].pc = "store" /\ worker[n].answer = TRUE
            /\ history'.stored = history.stored \cup {[key |-> call[n].key, at |-> clock, by |-> n]}
            /\ PartOf(cache', SetEntry(cache, call[n].key, clock + Ttl))
      BY <1>4 DEF CacheFills
    <2>2. PICK k : k = call[n].key
      OBVIOUS
    <2>3. PICK filled : filled = SetEntry(cache, k, clock + Ttl)
      OBVIOUS
    <2>4. k \in Keys /\ clock + Ttl \in Nat
      BY <2>2, ApprovalsAssumption DEF AType, CallRecord
    <2>5. /\ DOMAIN filled = DOMAIN cache \cup {k} /\ filled[k].expires = clock + Ttl
          /\ \A m \in DOMAIN cache : m # k => filled[m] = cache[m]
      BY <2>3, <2>4, SetEntryIsGood DEF CacheOK
    <2>6. [key |-> k, at |-> clock, by |-> n] \in history'.stored
      BY <2>1, <2>2
    <2>7. ASSUME NEW x \in DOMAIN cache'
          PROVE  \E s \in history'.stored : s.key = x /\ cache'[x].expires = s.at + Ttl
      <3>1. x \in DOMAIN filled /\ cache'[x] = filled[x]
        BY <2>1, <2>2, <2>3, <2>7 DEF PartOf
      <3>2. CASE x = k
        BY <2>5, <2>6, <3>1, <3>2
      <3>3. CASE x # k
        <4>1. x \in DOMAIN cache /\ cache'[x] = cache[x]
          BY <2>5, <3>1, <3>3
        <4> QED
          BY <2>1, <4>1 DEF Earned
      <3> QED
        BY <3>2, <3>3
    <2>8. n \in history.allowed
      BY <2>1 DEF Earned, WorkerEarned
    <2>9. ASSUME NEW s \in history'.stored PROVE s.by \in history'.allowed /\ call'[s.by].key = s.key
      <3>1. CASE s \in history.stored
        BY <1>2, <3>1 DEF Earned
      <3>2. CASE s = [key |-> k, at |-> clock, by |-> n]
        BY <1>2, <2>2, <2>8, <3>2
      <3> QED
        BY <2>1, <2>2, <3>1, <3>2
    <2> QED
      BY <1>1, <2>7, <2>9, OperatorsWord DEF Earned
  <1> QED
    BY <1>3, <1>4, CacheStep

LEMMA EarnedInit ==
  ASSUME Init
  PROVE  Earned
  <1>1. NoDecision # TRUE
    BY ApprovalsAssumption
  <1>2. /\ history = [allowed |-> {}, stored |-> {}, recorded |-> {}, declared |-> {}]
        /\ DOMAIN pending = {} /\ DOMAIN cache = {}
    BY DEF Init
  <1>3. \A n \in Ids : worker[n].pc = "none" /\ worker[n].answer = NoDecision /\ call[n].told = NoDecision
    BY DEF Init, NoCall, NoWorker
  <1>4. \A n \in Ids : WorkerEarned(n)
    BY <1>1, <1>2, <1>3 DEF WorkerEarned
  <1> QED
    BY <1>2, <1>4 DEF Earned

(***************************************************************************)
(* A call is allowed only by an operator's allowance of it, or by the      *)
(* cache, by an operator's allowance of another call of the same key that  *)
(* was stored, timed out or not, less than a time to live before; what an  *)
(* operator denied is never allowed. For any number of callers, calls and  *)
(* keys, and whatever times out, is swept or is given up meanwhile.        *)
(***************************************************************************)
THEOREM AllowanceAlwaysEarned == Spec => []AllowanceIsEarned
  <1>1. Earned => AllowanceIsEarned
    <2> SUFFICES ASSUME Earned, NEW n \in Ids, call[n].told = TRUE, n \notin history.allowed
                 PROVE  /\ n \notin history.recorded
                        /\ \E s \in history.stored :
                             /\ s.by \in history.allowed \ {n}
                             /\ s.key = call[n].key /\ s.key = call[s.by].key
                             /\ call[n].at < s.at + Ttl
      BY DEF AllowanceIsEarned
    <2>1. n \notin history.recorded /\ FromCache(n)
      BY DEF Earned, WorkerEarned
    <2>2. PICK s \in history.stored : s.key = call[n].key /\ call[n].at < s.at + Ttl
      BY <2>1 DEF FromCache
    <2>3. s.by \in history.allowed /\ call[s.by].key = s.key
      BY <2>2 DEF Earned
    <2> QED
      BY <2>1, <2>2, <2>3
  <1> QED
    BY <1>1, TrackInit, TrackStep, CacheInit, CacheStep, EarnedInit, EarnedStep, PTL DEF Spec
=============================================================================
