---------------------------- MODULE LimitsProofs ----------------------------
(***************************************************************************)
(* The budgets and the rate limits of policy.py hold, for any processes,   *)
(* threads, actions, limits and windows. What was answered "allowed" is    *)
(* bounded by what the state holds, and a thread between its read of the   *)
(* file and its answer is alone with it: the counts it read are still      *)
(* those of every answer given so far, and the times it read still cover   *)
(* those of the current window.                                            *)
(***************************************************************************)
EXTENDS Limits, FiniteSetTheorems, TLAPS

-----------------------------------------------------------------------------
(* Places up to n: their ranks, the place of a rank, and what a later one  *)
(* changes.                                                                *)

PlacesUpTo(S, n) == n \in Nat /\ S \subseteq 1..n

Rank(S, i) == Cardinality({j \in S : j <= i})

LEMMA PlacesAreFinite ==
  ASSUME NEW S, NEW n, PlacesUpTo(S, n)
  PROVE  IsFiniteSet(S) /\ Cardinality(S) \in Nat
  <1>1. IsFiniteSet(1..n)
    BY FS_Interval DEF PlacesUpTo
  <1>2. IsFiniteSet(S)
    BY <1>1, FS_Subset DEF PlacesUpTo
  <1> QED
    BY <1>2, FS_CardinalityType

LEMMA RankInRange ==
  ASSUME NEW S, NEW n, PlacesUpTo(S, n), NEW i \in S
  PROVE  Rank(S, i) \in 1..Cardinality(S)
  <1> DEFINE T == {j \in S : j <= i}
  <1>1. IsFiniteSet(S) /\ Cardinality(S) \in Nat
    BY PlacesAreFinite
  <1>2. IsFiniteSet(T) /\ Cardinality(T) <= Cardinality(S)
    BY <1>1, FS_Subset
  <1>3. i \in T
    BY DEF PlacesUpTo
  <1>4. Cardinality(T) \in Nat /\ Cardinality(T) # 0
    BY <1>2, <1>3, FS_EmptySet, FS_CardinalityType
  <1> QED
    BY <1>1, <1>2, <1>4 DEF Rank

LEMMA RankGrows ==
  ASSUME NEW S, NEW n, PlacesUpTo(S, n), NEW i \in S, NEW k \in S, i < k
  PROVE  Rank(S, i) < Rank(S, k)
  <1> DEFINE T == {j \in S : j <= i}
             U == {j \in S : j <= k}
  <1>1. IsFiniteSet(S)
    BY PlacesAreFinite
  <1>2. IsFiniteSet(T) /\ IsFiniteSet(U)
    BY <1>1, FS_Subset
  <1>3. k \notin T /\ T \cup {k} \subseteq U
    <2>1. \A j \in S : j \in Nat
      BY DEF PlacesUpTo
    <2>2. k \notin T /\ k \in U /\ \A j \in T : j \in U
      BY <2>1
    <2> QED
      BY <2>2
  <1>4. Cardinality(T \cup {k}) = Cardinality(T) + 1
    BY <1>2, <1>3, FS_AddElement
  <1>5. Cardinality(T \cup {k}) <= Cardinality(U)
    BY <1>2, <1>3, FS_Subset
  <1>6. Cardinality(T) \in Nat /\ Cardinality(U) \in Nat
    BY <1>2, FS_CardinalityType
  <1> QED
    BY <1>4, <1>5, <1>6 DEF Rank

LEMMA NthOfRank ==
  ASSUME NEW S, NEW n, PlacesUpTo(S, n), NEW i \in S
  PROVE  Nth(S, Rank(S, i)) = i
  <1>1. i \in Nat /\ \A k \in S : k \in Nat
    BY DEF PlacesUpTo
  <1>2. ASSUME NEW k \in S, Rank(S, k) = Rank(S, i) PROVE k = i
    <2>1. Rank(S, i) \in Nat /\ Rank(S, k) \in Nat
      BY PlacesAreFinite, RankInRange
    <2>2. ~(i < k) /\ ~(k < i)
      BY <1>2, <2>1, RankGrows
    <2> QED
      BY <1>1, <2>2
  <1>3. PICK r : r = Rank(S, i)
    OBVIOUS
  <1>4. \A k \in S : Cardinality({j \in S : j <= k}) = r <=> k = i
    BY <1>2, <1>3 DEF Rank
  <1>5. (CHOOSE k \in S : Cardinality({j \in S : j <= k}) = r) = i
    BY <1>4
  <1> QED
    BY <1>3, <1>5 DEF Nth

\* Every rank is somebody's: an injection between finite sets of one size is onto.
LEMMA RankIsTaken ==
  ASSUME NEW S, NEW n, PlacesUpTo(S, n), NEW r \in 1..Cardinality(S)
  PROVE  \E i \in S : Rank(S, i) = r
  <1> DEFINE T == 1..Cardinality(S)
             f == [i \in S |-> Rank(S, i)]
  <1>1. IsFiniteSet(S) /\ Cardinality(S) \in Nat
    BY PlacesAreFinite
  <1>2. IsFiniteSet(T) /\ Cardinality(T) = Cardinality(S)
    BY <1>1, FS_Interval
  <1>3. f \in [S -> T]
    BY RankInRange
  <1>4. ASSUME NEW i \in S, NEW k \in S, i # k PROVE f[i] # f[k]
    <2>1. i < k \/ k < i
      BY <1>4 DEF PlacesUpTo
    <2>2. Rank(S, i) \in Nat /\ Rank(S, k) \in Nat
      BY <1>1, RankInRange
    <2>3. Rank(S, i) # Rank(S, k)
      BY <2>1, <2>2, RankGrows
    <2> QED
      BY <2>3
  <1>5. f \in Injection(S, T)
    BY <1>3, <1>4 DEF Injection, IsInjective
  <1>6. f \in Surjection(S, T)
    BY <1>2, <1>5, FS_Injection
  <1>7. \E i \in S : f[i] = r
    BY <1>6 DEF Surjection
  <1> QED
    BY <1>7

LEMMA NthIsMember ==
  ASSUME NEW S, NEW n, PlacesUpTo(S, n), NEW r \in 1..Cardinality(S)
  PROVE  Nth(S, r) \in S /\ Rank(S, Nth(S, r)) = r
  BY RankIsTaken, NthOfRank

-----------------------------------------------------------------------------
(* What is picked from a sequence.                                         *)

LEMMA PickedType ==
  ASSUME NEW X, NEW s \in Seq(X), NEW S, S \subseteq DOMAIN s
  PROVE  /\ PlacesUpTo(S, Len(s))
         /\ Picked(s, S) \in Seq(X)
         /\ Len(Picked(s, S)) = Cardinality(S) /\ DOMAIN Picked(s, S) = 1..Cardinality(S)
         /\ Cardinality(S) \in Nat /\ Cardinality(S) <= Len(s)
         /\ \A r \in 1..Cardinality(S) : Nth(S, r) \in S /\ Picked(s, S)[r] = s[Nth(S, r)]
  <1>1. PlacesUpTo(S, Len(s))
    BY DEF PlacesUpTo
  <1>2. Cardinality(S) \in Nat
    BY <1>1, PlacesAreFinite
  <1>3. Cardinality(S) <= Len(s)
    <2>1. PICK n \in Nat : n = Len(s)
      OBVIOUS
    <2>2. IsFiniteSet(1..n) /\ Cardinality(1..n) = n
      <3>1. n \in Int /\ 1 \in Int /\ (1 > n => n = 0)
        OBVIOUS
      <3>2. IsFiniteSet(1..n) /\ Cardinality(1..n) = IF 1 > n THEN 0 ELSE n - 1 + 1
        BY <3>1, FS_Interval
      <3> QED
        BY <3>1, <3>2
    <2>3. S \subseteq 1..n
      BY <2>1
    <2>4. Cardinality(S) <= Cardinality(1..n)
      BY <2>2, <2>3, FS_Subset
    <2> QED
      BY <2>1, <2>2, <2>4
  <1>4. \A r \in 1..Cardinality(S) : Nth(S, r) \in S
    BY <1>1, NthIsMember
  <1>5. \A r \in 1..Cardinality(S) : s[Nth(S, r)] \in X
    BY <1>4
  <1> QED
    BY <1>1, <1>2, <1>3, <1>4, <1>5 DEF Picked

\* No more of T are picked than there are of U, if T's come from U.
LEMMA PickedFromFew ==
  ASSUME NEW S, NEW n, PlacesUpTo(S, n), NEW T, T \subseteq 1..Cardinality(S),
         NEW U, U \subseteq 1..n, \A r \in T : Nth(S, r) \in U
  PROVE  Cardinality(T) <= Cardinality(U)
  <1> DEFINE f == [r \in T |-> Nth(S, r)]
  <1>1. IsFiniteSet(U)
    <2>1. PlacesUpTo(U, n)
      BY DEF PlacesUpTo
    <2> QED
      BY <2>1, PlacesAreFinite
  <1>2. \A r \in T : Rank(S, Nth(S, r)) = r
    BY NthIsMember
  <1>3. f \in Injection(T, U)
    BY <1>2 DEF Injection, IsInjective
  <1> QED
    BY <1>1, <1>3, FS_Injection

\* All of U that is picked is there: its ranks are in T.
LEMMA PickedKeeps ==
  ASSUME NEW S, NEW n, PlacesUpTo(S, n), NEW U, U \subseteq S,
         NEW T, T \subseteq 1..Cardinality(S), \A i \in U : Rank(S, i) \in T
  PROVE  Cardinality(U) <= Cardinality(T)
  <1> DEFINE f == [i \in U |-> Rank(S, i)]
  <1>1. IsFiniteSet(T)
    <2>1. Cardinality(S) \in Nat
      BY PlacesAreFinite
    <2>2. PlacesUpTo(T, Cardinality(S))
      BY <2>1 DEF PlacesUpTo
    <2> QED
      BY <2>2, PlacesAreFinite
  <1>2. \A i \in U : Nth(S, Rank(S, i)) = i
    BY NthOfRank
  <1>3. f \in Injection(U, T)
    BY <1>2 DEF Injection, IsInjective
  <1> QED
    BY <1>1, <1>3, FS_Injection

-----------------------------------------------------------------------------
Counting == provider.kind \notin RateKinds

\* Whether the counts c stay within the limit, are bounded by d, and what
\* they are after a charge; b: per action.
Fits(b, c) ==
  IF b THEN \A a \in Actions : c.perAction[a] <= Limit ELSE c.total <= Limit
Below(b, c, d) ==
  IF b THEN \A a \in Actions : c.perAction[a] <= d.perAction[a] ELSE c.total <= d.total
Plus(b, c, a, n) ==
  IF b THEN [c EXCEPT !.perAction[a] = @ + n] ELSE [c EXCEPT !.total = @ + n]

Price(kind, r) == IF kind \in SpendKinds THEN r.spend ELSE 1

Locking == {"locked", "read", "written"}

Typed ==
  /\ provider \in [kind : MemoryKinds \cup FileKinds, perAction : BOOLEAN]
  /\ pc \in [Threads -> {"idle", "asked"} \cup Locking]
  /\ req \in [Threads -> Requests \cup {NoRequest}]
  /\ \A t \in Threads : pc[t] # "idle" => req[t] \in Requests
  /\ allowing \in [Threads -> BOOLEAN]
  /\ clock \in Nat
  /\ paid \in [Accounts -> Counts]

TypedState ==
  Counting => /\ store \in [Accounts -> States \cup {Corrupt}]
              /\ \A p \in Procs : store[p] \in States
              /\ seen \in [Threads -> States]

\* A thread that holds the locks of the file is alone, and priced.
Alone ==
  \A t \in Threads : pc[t] \in Locking =>
    /\ provider.kind \in FileKinds
    /\ Price(provider.kind, req[t]) \in Nat
    /\ \A u \in Threads : pc[u] \in Locking => u = t

StoreBounds ==
  Counting => \A x \in Accounts : store[x] # Corrupt =>
    /\ Fits(provider.perAction, store[x].counts)
    /\ Below(provider.perAction, paid[x], store[x].counts)

SeenBounds ==
  Counting => \A t \in Threads : pc[t] = "read" =>
    /\ Fits(provider.perAction, seen[t].counts)
    /\ Below(provider.perAction, paid[File], seen[t].counts)

\* What a thread will have been paid when it gives the answer it wrote for.
Due(t) == Plus(provider.perAction, paid[File], req[t].action, Price(provider.kind, req[t]))

WrittenCovers ==
  Counting => \A t \in Threads : pc[t] = "written" /\ allowing[t] =>
    /\ Fits(provider.perAction, Due(t))
    /\ store[File] # Corrupt => Below(provider.perAction, Due(t), store[File].counts)

PaidFits == \A x \in Accounts : Fits(provider.perAction, paid[x])

IInv ==
  Typed /\ TypedState /\ Alone /\ StoreBounds /\ SeenBounds /\ WrittenCovers /\ PaidFits

-----------------------------------------------------------------------------
(* What a charge does to counts.                                           *)

LEMMA PlusType ==
  ASSUME NEW b \in BOOLEAN, NEW c \in Counts, NEW a \in Actions, NEW n \in Nat
  PROVE  Plus(b, c, a, n) \in Counts
  BY DEF Plus, Counts

LEMMA PlusBelow ==
  ASSUME NEW b \in BOOLEAN, NEW c \in Counts, NEW d \in Counts,
         NEW a \in Actions, NEW n \in Nat, Below(b, c, d)
  PROVE  Below(b, Plus(b, c, a, n), Plus(b, d, a, n))
  BY DEF Plus, Counts, Below

LEMMA BelowPlus ==
  ASSUME NEW b \in BOOLEAN, NEW c \in Counts, NEW d \in Counts,
         NEW a \in Actions, NEW n \in Nat, Below(b, c, d)
  PROVE  Below(b, c, Plus(b, d, a, n))
  BY DEF Plus, Counts, Below

LEMMA BelowFits ==
  ASSUME NEW b \in BOOLEAN, NEW c \in Counts, NEW d \in Counts, Below(b, c, d), Fits(b, d)
  PROVE  Fits(b, c)
  BY LimitsAssumption DEF Counts, Below, Fits

LEMMA NothingPaid ==
  ASSUME NEW b \in BOOLEAN
  PROVE  /\ NoCounts \in Counts /\ Empty \in States /\ Empty.counts = NoCounts
         /\ Fits(b, NoCounts) /\ Below(b, NoCounts, NoCounts)
  <1>1. NoCounts \in Counts
    BY DEF NoCounts, Counts
  <1>2. Empty \in States /\ Empty.counts = NoCounts
    BY <1>1 DEF Empty, States
  <1>3. Fits(b, NoCounts) /\ Below(b, NoCounts, NoCounts)
    BY LimitsAssumption DEF NoCounts, Fits, Below
  <1> QED
    BY <1>1, <1>2, <1>3

\* A decision d on the state s charges n and keeps to the limit, or denies.
Sound(d, s, r, n) ==
  /\ d.allowed \in BOOLEAN
  /\ ~d.allowed => d.state = s
  /\ d.allowed => /\ d.state \in States
                  /\ d.state.counts = Plus(provider.perAction, s.counts, r.action, n)
                  /\ Fits(provider.perAction, d.state.counts)

LEMMA ChargeIsPlus ==
  ASSUME NEW s \in States, NEW r \in Requests, NEW n \in Nat, provider.perAction \in BOOLEAN
  PROVE  /\ Charge(s, r, n) \in States
         /\ Charge(s, r, n).counts = Plus(provider.perAction, s.counts, r.action, n)
  <1>1. Charged(s.counts, r, n) = Plus(provider.perAction, s.counts, r.action, n)
    BY DEF Charged, Plus
  <1>2. s.counts \in Counts /\ r.action \in Actions
    BY DEF States, Requests
  <1>3. Charged(s.counts, r, n) \in Counts
    BY <1>1, <1>2, PlusType
  <1> QED
    BY <1>1, <1>3 DEF Charge, States

\* A charge that the check of the limit lets through keeps to the limit.
LEMMA ChargeFits ==
  ASSUME NEW s \in States, NEW r \in Requests, NEW n \in Nat, provider.perAction \in BOOLEAN,
         Fits(provider.perAction, s.counts), Used(s, r) + n <= Limit
  PROVE  Fits(provider.perAction, Plus(provider.perAction, s.counts, r.action, n))
  <1>1. s.counts \in Counts /\ r.action \in Actions
    BY DEF States, Requests
  <1>2. CASE provider.perAction
    BY <1>1, <1>2 DEF Used, Fits, Plus, Counts
  <1>3. CASE ~provider.perAction
    BY <1>1, <1>3 DEF Used, Fits, Plus, Counts
  <1> QED
    BY <1>2, <1>3

LEMMA UsedType ==
  ASSUME NEW s \in States, NEW r \in Requests
  PROVE  Used(s, r) \in Nat
  BY DEF Used, States, Counts, Requests

\* BudgetProvider and FileBudgetProvider.
LEMMA BudgetSound ==
  ASSUME NEW s \in States, NEW r \in Requests, provider.perAction \in BOOLEAN,
         Fits(provider.perAction, s.counts)
  PROVE  Sound(BudgetDecision(s, r), s, r, 1)
  <1>1. CASE Used(s, r) >= Limit
    BY <1>1 DEF BudgetDecision, Denied, Sound
  <1>2. CASE ~(Used(s, r) >= Limit)
    <2>1. Used(s, r) + 1 <= Limit
      BY <1>2, UsedType, LimitsAssumption
    <2>2. Fits(provider.perAction, Plus(provider.perAction, s.counts, r.action, 1))
      BY <2>1, ChargeFits
    <2> QED
      BY <1>2, <2>2, ChargeIsPlus DEF BudgetDecision, Allowed, Sound
  <1> QED
    BY <1>1, <1>2

\* SpendingBudgetProvider and FileSpendingBudgetProvider.
LEMMA SpendingSound ==
  ASSUME NEW s \in States, NEW r \in Requests, r.spend \in Nat, provider.perAction \in BOOLEAN,
         Fits(provider.perAction, s.counts)
  PROVE  Sound(SpendingDecision(s, r), s, r, r.spend)
  <1>1. CASE Used(s, r) + r.spend > Limit
    BY <1>1 DEF SpendingDecision, Denied, Sound
  <1>2. CASE ~(Used(s, r) + r.spend > Limit)
    <2>1. Used(s, r) + r.spend <= Limit
      BY <1>2, UsedType, LimitsAssumption
    <2>2. Fits(provider.perAction, Plus(provider.perAction, s.counts, r.action, r.spend))
      BY <2>1, ChargeFits
    <2> QED
      BY <1>2, <2>2, ChargeIsPlus DEF SpendingDecision, Allowed, Sound
  <1> QED
    BY <1>1, <1>2

-----------------------------------------------------------------------------
(* Leaving decide().                                                       *)

\* An answer sends its thread away and touches no other.
LEMMA AnswerLeaves ==
  ASSUME Typed, NEW t \in Threads, NEW allowed \in BOOLEAN, Answer(t, allowed)
  PROVE  /\ pc' \in [Threads -> {"idle", "asked"} \cup Locking]
         /\ req' \in [Threads -> Requests \cup {NoRequest}]
         /\ allowing' \in [Threads -> BOOLEAN]
         /\ pc'[t] = "idle"
         /\ \A u \in Threads : u # t =>
              pc'[u] = pc[u] /\ req'[u] = req[u] /\ allowing'[u] = allowing[u] /\ seen'[u] = seen[u]
  <1>1. /\ pc' = [pc EXCEPT ![t] = "idle"]
        /\ req' = [req EXCEPT ![t] = NoRequest]
        /\ seen' = [seen EXCEPT ![t] = Empty]
        /\ allowing' = [allowing EXCEPT ![t] = FALSE]
    BY DEF Answer
  <1>2. pc' \in [Threads -> {"idle", "asked"} \cup Locking] /\ pc'[t] = "idle"
    BY <1>1 DEF Typed
  <1>3. req' \in [Threads -> Requests \cup {NoRequest}]
    BY <1>1 DEF Typed
  <1>4. allowing' \in [Threads -> BOOLEAN]
    BY <1>1 DEF Typed
  <1>5. \A u \in Threads : u # t => seen'[u] = seen[u]
    BY <1>1
  <1>6. \A u \in Threads : u # t => pc'[u] = pc[u] /\ req'[u] = req[u] /\ allowing'[u] = allowing[u]
    BY <1>1 DEF Typed
  <1> QED
    BY <1>2, <1>3, <1>4, <1>5, <1>6

LEMMA SeenStays ==
  ASSUME TypedState, Counting, NEW t \in Threads, NEW allowed \in BOOLEAN, Answer(t, allowed)
  PROVE  seen' \in [Threads -> States]
  <1>1. seen' = [seen EXCEPT ![t] = Empty] /\ Empty \in States
    BY NothingPaid DEF Answer
  <1> QED
    BY <1>1 DEF TypedState

\* A denial changes nothing that counts.
LEMMA DenialKeeps ==
  ASSUME IInv, NEW t \in Threads, Answer(t, FALSE), UNCHANGED <<provider, store, clock>>
  PROVE  IInv'
  <1>1. paid' = paid
    BY DEF Answer
  <1>2. /\ pc' \in [Threads -> {"idle", "asked"} \cup Locking]
        /\ req' \in [Threads -> Requests \cup {NoRequest}]
        /\ allowing' \in [Threads -> BOOLEAN]
        /\ pc'[t] = "idle"
        /\ \A u \in Threads : u # t =>
             pc'[u] = pc[u] /\ req'[u] = req[u] /\ allowing'[u] = allowing[u] /\ seen'[u] = seen[u]
    BY AnswerLeaves DEF IInv
  <1>3. Typed'
    BY <1>1, <1>2 DEF IInv, Typed
  <1>4. TypedState'
    BY SeenStays DEF IInv, TypedState, Counting
  <1>5. Alone'
    BY <1>2 DEF IInv, Alone, Locking
  <1>6. StoreBounds'
    BY <1>1 DEF IInv, StoreBounds, Counting, Accounts
  <1>7. SeenBounds'
    BY <1>1, <1>2 DEF IInv, SeenBounds, Counting
  <1>8. WrittenCovers'
    BY <1>1, <1>2 DEF IInv, WrittenCovers, Counting, Due
  <1>9. PaidFits'
    BY <1>1 DEF IInv, PaidFits, Accounts
  <1> QED
    BY <1>3, <1>4, <1>5, <1>6, <1>7, <1>8, <1>9 DEF IInv

\* What an allowance adds to the account of its process.
LEMMA Payment ==
  ASSUME IInv, NEW t \in Threads, NEW x \in Accounts, x = Account(ProcOf[t]),
         Answer(t, TRUE), Counting, req[t] \in Requests,
         Price(provider.kind, req[t]) \in Nat
  PROVE  LET due == Plus(provider.perAction, paid[x], req[t].action, Price(provider.kind, req[t]))
         IN  /\ due \in Counts
             /\ paid' = [paid EXCEPT ![x] = due]
             /\ paid' \in [Accounts -> Counts]
             /\ paid'[x] = due
             /\ \A y \in Accounts : y # x => paid'[y] = paid[y]
  <1> DEFINE due == Plus(provider.perAction, paid[x], req[t].action, Price(provider.kind, req[t]))
  <1>1. paid \in [Accounts -> Counts] /\ req[t].action \in Actions /\ provider.perAction \in BOOLEAN
    BY DEF IInv, Typed, Requests
  <1>2. due \in Counts
    BY <1>1, PlusType
  <1>3. Charged(paid[x], req[t], Cost(req[t])) = due
    BY DEF Charged, Plus, Cost, Price
  <1>4. paid' = [paid EXCEPT ![x] = due]
    BY <1>3 DEF Answer, Counting
  <1> HIDE DEF due
  <1>5. /\ paid' \in [Accounts -> Counts] /\ paid'[x] = due
        /\ \A y \in Accounts : y # x => paid'[y] = paid[y]
    BY <1>1, <1>2, <1>4
  <1> QED
    BY <1>2, <1>4, <1>5 DEF due

\* An allowance whose state is on the disk gives what it had written.
LEMMA UnlockKeeps ==
  ASSUME IInv, NEW t \in Threads, Unlock(t)
  PROVE  IInv'
  <1>1. pc[t] = "written" /\ pc[t] \in Locking /\ Answer(t, allowing[t])
        /\ UNCHANGED <<provider, store, clock>>
    BY DEF Unlock, Locking
  <1>2. allowing[t] \in BOOLEAN
    BY DEF IInv, Typed
  <1>3. CASE ~allowing[t]
    <2>1. Answer(t, FALSE)
      BY <1>1, <1>2, <1>3
    <2> QED
      BY <1>1, <2>1, DenialKeeps
  <1>4. CASE allowing[t]
    <2>1. Answer(t, TRUE)
      BY <1>1, <1>2, <1>4
    <2>2. /\ provider.kind \in FileKinds /\ Price(provider.kind, req[t]) \in Nat
          /\ \A u \in Threads : pc[u] \in Locking => u = t
      BY <1>1 DEF IInv, Alone
    <2>3. /\ Account(ProcOf[t]) = File /\ File \in Accounts /\ req[t] \in Requests
      BY <1>1, <2>2 DEF IInv, Typed, Account, Durable, Accounts, Locking
    <2>4. /\ pc' \in [Threads -> {"idle", "asked"} \cup Locking]
          /\ req' \in [Threads -> Requests \cup {NoRequest}]
          /\ allowing' \in [Threads -> BOOLEAN]
          /\ pc'[t] = "idle"
          /\ \A u \in Threads : u # t =>
               pc'[u] = pc[u] /\ req'[u] = req[u] /\ allowing'[u] = allowing[u] /\ seen'[u] = seen[u]
      BY <2>1, AnswerLeaves DEF IInv
    <2>5. \A u \in Threads : pc'[u] \notin Locking
      BY <2>2, <2>4 DEF Locking
    <2>6. Counting => /\ paid' \in [Accounts -> Counts] /\ paid'[File] = Due(t)
                      /\ \A y \in Accounts : y # File => paid'[y] = paid[y]
      BY <2>1, <2>2, <2>3, Payment DEF Due
    <2>7. ~Counting => paid' = paid
      BY <2>1 DEF Answer, Counting
    <2>8. Typed'
      BY <1>1, <2>4, <2>6, <2>7 DEF IInv, Typed
    <2>9. TypedState'
      BY <1>1, <2>1, SeenStays DEF IInv, TypedState, Counting
    <2>10. Alone' /\ SeenBounds' /\ WrittenCovers'
      BY <2>5 DEF Alone, SeenBounds, WrittenCovers, Locking
    <2>11. StoreBounds'
      BY <1>1, <1>4, <2>6 DEF IInv, StoreBounds, WrittenCovers, Counting, Accounts
    <2>12. PaidFits'
      BY <1>1, <1>4, <2>6, <2>7 DEF IInv, PaidFits, WrittenCovers, Accounts
    <2> QED
      BY <2>8, <2>9, <2>10, <2>11, <2>12 DEF IInv
  <1> QED
    BY <1>2, <1>3, <1>4

-----------------------------------------------------------------------------
(* Deciding.                                                               *)

\* A provider in memory charges the counts of its process, in one step.
LEMMA InMemoryKeeps ==
  ASSUME IInv, NEW t \in Threads, NEW kind \in MemoryKinds, NEW d, InMemory(t, kind, d),
         d.allowed \in BOOLEAN,
         Counting => /\ Price(kind, req[t]) \in Nat
                     /\ Sound(d, store[ProcOf[t]], req[t], Price(kind, req[t]))
  PROVE  IInv'
  <1> DEFINE p == ProcOf[t]
  <1>1. /\ pc[t] = "asked" /\ provider.kind = kind
        /\ store' = [store EXCEPT ![p] = d.state]
        /\ Answer(t, d.allowed) /\ UNCHANGED <<provider, clock>>
    BY DEF InMemory
  <1>2. p \in Procs /\ p \in Accounts /\ p # File /\ req[t] \in Requests
    BY <1>1, LimitsAssumption DEF Accounts, IInv, Typed
  <1>3. provider.kind \notin FileKinds /\ Account(p) = p
    BY <1>1 DEF Account, Durable, MemoryKinds, FileKinds
  <1>4. \A u \in Threads : pc[u] \notin Locking
    BY <1>3 DEF IInv, Alone
  <1>5. /\ pc' \in [Threads -> {"idle", "asked"} \cup Locking]
        /\ req' \in [Threads -> Requests \cup {NoRequest}]
        /\ allowing' \in [Threads -> BOOLEAN]
        /\ pc'[t] = "idle"
        /\ \A u \in Threads : u # t =>
             pc'[u] = pc[u] /\ req'[u] = req[u] /\ allowing'[u] = allowing[u] /\ seen'[u] = seen[u]
    BY <1>1, AnswerLeaves DEF IInv
  <1>6. \A u \in Threads : pc'[u] \notin Locking
    BY <1>4, <1>5 DEF Locking
  <1>7. Alone' /\ SeenBounds' /\ WrittenCovers'
    BY <1>6 DEF Alone, SeenBounds, WrittenCovers, Locking
  <1>8. CASE ~Counting \/ ~d.allowed
    <2>1. paid' = paid
      BY <1>1, <1>8 DEF Answer, Counting
    <2>2. Typed'
      BY <1>1, <1>5, <2>1 DEF IInv, Typed
    <2>3. Counting => store' = store
      <3>1. Counting => d.state = store[p]
        BY <1>8 DEF Sound
      <3>2. Counting => store \in [Accounts -> States \cup {Corrupt}]
        BY DEF IInv, TypedState
      <3> QED
        BY <1>1, <3>1, <3>2
    <2>4. TypedState'
      BY <1>1, <2>3, SeenStays DEF IInv, TypedState, Counting
    <2>5. StoreBounds'
      BY <1>1, <2>1, <2>3 DEF IInv, StoreBounds, Counting, Accounts
    <2>6. PaidFits'
      BY <1>1, <2>1 DEF IInv, PaidFits, Accounts
    <2> QED
      BY <1>7, <2>2, <2>4, <2>5, <2>6 DEF IInv
  <1>9. CASE Counting /\ d.allowed
    <2> DEFINE b == provider.perAction
               n == Price(kind, req[t])
               due == Plus(b, paid[p], req[t].action, n)
    <2>1. b \in BOOLEAN /\ n \in Nat /\ req[t].action \in Actions /\ store[p] \in States
      BY <1>2, <1>9 DEF IInv, Typed, TypedState, Requests
    <2>2. Answer(t, TRUE)
      BY <1>1, <1>9
    <2>3. /\ due \in Counts /\ paid' \in [Accounts -> Counts] /\ paid'[p] = due
          /\ \A y \in Accounts : y # p => paid'[y] = paid[y]
      BY <1>1, <1>2, <1>3, <1>9, <2>1, <2>2, Payment
    <2>4. /\ d.state \in States /\ Fits(b, d.state.counts)
          /\ d.state.counts = Plus(b, store[p].counts, req[t].action, n)
      BY <1>1, <1>9 DEF Sound
    <2>5. Below(b, due, d.state.counts)
      <3>1. store[p] # Corrupt
        BY <2>1, CorruptAssumption
      <3>2. Below(b, paid[p], store[p].counts)
        BY <1>2, <1>9, <3>1 DEF IInv, StoreBounds
      <3>3. paid[p] \in Counts /\ store[p].counts \in Counts
        BY <1>2, <2>1 DEF IInv, Typed, States
      <3> QED
        BY <2>1, <2>4, <3>2, <3>3, PlusBelow
    <2>6. Fits(b, due)
      BY <2>1, <2>3, <2>4, <2>5, BelowFits DEF States
    <2> HIDE DEF due, b, n, p
    <2>7. /\ store' \in [Accounts -> States \cup {Corrupt}] /\ store'[p] = d.state
          /\ \A y \in Accounts : y # p => store'[y] = store[y]
      BY <1>1, <1>2, <1>9, <2>4 DEF IInv, TypedState
    <2>8. Typed'
      BY <1>1, <1>5, <2>3 DEF IInv, Typed
    <2>9. TypedState'
      <3>1. seen' \in [Threads -> States]
        BY <1>9, <2>2, SeenStays DEF IInv
      <3>2. \A q \in Procs : store'[q] \in States
        BY <1>9, <2>4, <2>7 DEF IInv, TypedState, Accounts
      <3> QED
        BY <2>7, <3>1, <3>2 DEF TypedState, Accounts
    <2>10. StoreBounds'
      BY <1>1, <1>9, <2>3, <2>4, <2>5, <2>7 DEF IInv, StoreBounds, Counting, Accounts, b
    <2>11. PaidFits'
      BY <1>1, <2>3, <2>6 DEF IInv, PaidFits, Accounts, b
    <2> QED
      BY <1>7, <2>8, <2>9, <2>10, <2>11 DEF IInv
  <1> QED
    BY <1>8, <1>9

\* A budget in a file replaces the state by one charged for the request.
LEMMA InFileKeeps ==
  ASSUME IInv, NEW t \in Threads, NEW kind \in FileKinds \ RateKinds, NEW d,
         InFile(t, kind, d), Sound(d, seen[t], req[t], Price(kind, req[t]))
  PROVE  IInv'
  <1>1. pc[t] = "read" /\ pc[t] \in Locking /\ provider.kind = kind /\ Counting
    BY DEF InFile, Locking, Counting
  <1>2. CASE ~d.allowed
    BY <1>2, DenialKeeps DEF InFile, Deny
  <1>3. CASE d.allowed /\ WriteFails(t)
    BY <1>3, DenialKeeps DEF WriteFails
  <1>4. CASE d.allowed /\ WriteState(t, d)
    <2> DEFINE b == provider.perAction
               n == Price(kind, req[t])
    <2>1. /\ store' = [store EXCEPT ![File] = d.state]
          /\ seen' = [seen EXCEPT ![t] = d.state]
          /\ allowing' = [allowing EXCEPT ![t] = d.allowed]
          /\ pc' = [pc EXCEPT ![t] = "written"]
          /\ UNCHANGED <<provider, req, clock, paid>>
      BY <1>4 DEF WriteState
    <2>2. /\ b \in BOOLEAN /\ n \in Nat /\ File \in Accounts /\ req[t] \in Requests
          /\ req[t].action \in Actions /\ seen[t] \in States /\ seen[t].counts \in Counts
          /\ paid[File] \in Counts
      BY <1>1 DEF IInv, Typed, TypedState, Alone, Accounts, Requests, States
    <2>3. /\ d.state \in States /\ Fits(b, d.state.counts)
          /\ d.state.counts = Plus(b, seen[t].counts, req[t].action, n)
      BY <1>1, <1>4 DEF Sound
    <2>4. Below(b, paid[File], seen[t].counts)
      BY <1>1 DEF IInv, SeenBounds
    <2>5. Below(b, paid[File], d.state.counts)
      BY <2>2, <2>3, <2>4, BelowPlus
    <2>6. Below(b, Due(t), d.state.counts)
      BY <1>1, <2>2, <2>3, <2>4, PlusBelow DEF Due
    <2>7. Fits(b, Due(t))
      <3>1. Due(t) \in Counts
        BY <1>1, <2>2, PlusType DEF Due
      <3> QED
        BY <2>2, <2>3, <2>6, <3>1, BelowFits DEF States
    <2> HIDE DEF b, n
    <2>8. /\ store' \in [Accounts -> States \cup {Corrupt}] /\ store'[File] = d.state
          /\ \A y \in Accounts : y # File => store'[y] = store[y]
      BY <1>1, <2>1, <2>2, <2>3 DEF IInv, TypedState
    <2>9. /\ pc' \in [Threads -> {"idle", "asked"} \cup Locking] /\ pc'[t] = "written"
          /\ \A u \in Threads : u # t => pc'[u] = pc[u]
      BY <2>1 DEF IInv, Typed, Locking
    <2>10. allowing' \in [Threads -> BOOLEAN]
      BY <1>4, <2>1 DEF IInv, Typed
    <2>11. \A u \in Threads : u # t => pc'[u] \notin Locking
      BY <1>1, <2>9 DEF IInv, Alone
    <2>12. Typed'
      BY <1>1, <2>1, <2>9, <2>10 DEF IInv, Typed
    <2>13. TypedState'
      <3>1. seen' \in [Threads -> States]
        BY <1>1, <2>1, <2>3 DEF IInv, TypedState
      <3>2. \A q \in Procs : store'[q] \in States
        BY <1>1, <2>8, LimitsAssumption DEF IInv, TypedState, Accounts
      <3> QED
        BY <2>8, <3>1, <3>2 DEF TypedState, Accounts
    <2>14. Alone'
      <3>1. /\ provider'.kind \in FileKinds /\ Price(provider'.kind, req'[t]) \in Nat
        BY <1>1, <2>1 DEF IInv, Alone
      <3> QED
        BY <2>11, <3>1 DEF Alone
    <2>15. StoreBounds'
      BY <1>1, <2>1, <2>3, <2>5, <2>8 DEF IInv, StoreBounds, Counting, Accounts, b
    <2>16. SeenBounds'
      BY <2>9, <2>11 DEF SeenBounds, Locking
    <2>17. WrittenCovers'
      <3>1. \A u \in Threads : pc'[u] = "written" => u = t
        BY <2>11 DEF Locking
      <3>2. Due(t)' = Due(t)
        BY <2>1 DEF Due
      <3> QED
        BY <2>1, <2>6, <2>7, <2>8, <3>1, <3>2 DEF WrittenCovers, b
    <2>18. PaidFits'
      BY <2>1 DEF IInv, PaidFits, Accounts
    <2> QED
      BY <2>12, <2>13, <2>14, <2>15, <2>16, <2>17, <2>18 DEF IInv
  <1> QED
    BY <1>2, <1>3, <1>4 DEF InFile

\* The rate limit in a file writes its list, whether it allows or not.
LEMMA FileRateLimitKeeps ==
  ASSUME IInv, NEW t \in Threads, FileRateLimit(t)
  PROVE  IInv'
  <1> DEFINE d == FileRateDecision(seen[t], req[t])
  <1>1. pc[t] = "read" /\ pc[t] \in Locking /\ ~Counting
    BY DEF FileRateLimit, Counting, RateKinds, Locking
  <1>2. CASE WriteFails(t)
    BY <1>2, DenialKeeps DEF WriteFails
  <1>3. CASE WriteState(t, d)
    <2>1. d.allowed \in BOOLEAN
      BY DEF FileRateDecision, Allowed, Denied
    <2>2. /\ allowing' = [allowing EXCEPT ![t] = d.allowed]
          /\ pc' = [pc EXCEPT ![t] = "written"]
          /\ UNCHANGED <<provider, req, clock, paid>>
      BY <1>3 DEF WriteState
    <2> HIDE DEF d
    <2>3. /\ pc' \in [Threads -> {"idle", "asked"} \cup Locking] /\ pc'[t] = "written"
          /\ \A u \in Threads : u # t => pc'[u] = pc[u]
      BY <2>2 DEF IInv, Typed, Locking
    <2>4. Typed'
      BY <1>1, <2>1, <2>2, <2>3 DEF IInv, Typed
    <2>5. Alone'
      BY <1>1, <2>2, <2>3 DEF IInv, Alone
    <2>6. ~Counting'
      BY <1>1, <2>2 DEF Counting
    <2>7. TypedState' /\ StoreBounds' /\ SeenBounds' /\ WrittenCovers'
      BY <2>6 DEF TypedState, StoreBounds, SeenBounds, WrittenCovers
    <2>8. PaidFits'
      BY <2>2 DEF IInv, PaidFits, Accounts
    <2> QED
      BY <2>4, <2>5, <2>7, <2>8 DEF IInv
  <1> QED
    BY <1>2, <1>3 DEF FileRateLimit

\* A thread that comes in beside nobody, with the lock of the file or without.
LEMMA LockStateKeeps ==
  ASSUME IInv, NEW t \in Threads, LockState(t), ~overlapped'
  PROVE  IInv'
  <1>1. /\ pc[t] = "asked" /\ Durable /\ Priced(t) /\ Inside = {}
        /\ pc' = [pc EXCEPT ![t] = "locked"]
        /\ UNCHANGED <<provider, store, req, seen, allowing, clock, paid>>
    BY DEF LockState, Enter
  <1>2. /\ pc' \in [Threads -> {"idle", "asked"} \cup Locking] /\ pc'[t] = "locked"
        /\ \A u \in Threads : u # t => pc'[u] = pc[u]
    BY <1>1 DEF IInv, Typed, Locking
  <1>3. \A u \in Threads : pc[u] \notin Locking
    BY <1>1 DEF Inside, Locking
  <1>4. provider.kind \in FileKinds /\ Price(provider.kind, req[t]) \in Nat
    <2>1. req[t] \in Requests
      BY <1>1 DEF IInv, Typed
    <2>2. provider.kind \in SpendKinds => req[t].spend \in Nat
      BY <1>1, <2>1, LimitsAssumption DEF Priced, Requests
    <2> QED
      BY <1>1, <2>2 DEF Durable, Price
  <1>5. Typed'
    BY <1>1, <1>2 DEF IInv, Typed
  <1>6. TypedState'
    BY <1>1 DEF IInv, TypedState, Counting, Accounts
  <1>7. Alone'
    BY <1>1, <1>2, <1>3, <1>4 DEF Alone
  <1>8. StoreBounds' /\ PaidFits'
    BY <1>1 DEF IInv, StoreBounds, PaidFits, Counting, Accounts
  <1>9. SeenBounds' /\ WrittenCovers'
    BY <1>2, <1>3 DEF SeenBounds, WrittenCovers, Locking
  <1> QED
    BY <1>5, <1>6, <1>7, <1>8, <1>9 DEF IInv

\* What is read is what is stored.
LEMMA ReadStateKeeps ==
  ASSUME IInv, NEW t \in Threads, ReadState(t)
  PROVE  IInv'
  <1>1. /\ pc[t] = "locked" /\ pc[t] \in Locking /\ store[File] # Corrupt
        /\ seen' = [seen EXCEPT ![t] = store[File]]
        /\ pc' = [pc EXCEPT ![t] = "read"]
        /\ UNCHANGED <<provider, store, req, allowing, clock, paid>>
    BY DEF ReadState, Locking
  <1>2. /\ pc' \in [Threads -> {"idle", "asked"} \cup Locking] /\ pc'[t] = "read"
        /\ \A u \in Threads : u # t => pc'[u] = pc[u]
    BY <1>1 DEF IInv, Typed, Locking
  <1>3. \A u \in Threads : pc'[u] \in Locking => u = t
    BY <1>1, <1>2 DEF IInv, Alone
  <1>4. Typed'
    BY <1>1, <1>2 DEF IInv, Typed
  <1>5. Counting => /\ store[File] \in States /\ seen' \in [Threads -> States]
                    /\ seen'[t] = store[File]
    BY <1>1 DEF IInv, TypedState, Accounts
  <1>6. TypedState'
    BY <1>1, <1>5 DEF IInv, TypedState, Counting, Accounts
  <1>7. Alone'
    BY <1>1, <1>3 DEF IInv, Alone
  <1>8. StoreBounds' /\ PaidFits'
    BY <1>1 DEF IInv, StoreBounds, PaidFits, Counting, Accounts
  <1>9. SeenBounds'
    BY <1>1, <1>3, <1>5 DEF IInv, SeenBounds, StoreBounds, Counting, Accounts, Locking
  <1>10. WrittenCovers'
    BY <1>2, <1>3 DEF WrittenCovers, Locking
  <1> QED
    BY <1>4, <1>6, <1>7, <1>8, <1>9, <1>10 DEF IInv

LEMMA AskKeeps ==
  ASSUME IInv, NEW t \in Threads, Ask(t)
  PROVE  IInv'
  <1>1. /\ pc[t] = "idle" /\ pc' = [pc EXCEPT ![t] = "asked"]
        /\ UNCHANGED <<provider, store, seen, allowing, clock, paid>>
    BY DEF Ask
  <1>2. PICK r \in Requests : req' = [req EXCEPT ![t] = r]
    <2>1. PICK a \in Actions, spend \in Spends \cup {NoSpend} :
            req' = [req EXCEPT ![t] = [action |-> a, spend |-> spend, now |-> clock]]
      BY DEF Ask
    <2>2. [action |-> a, spend |-> spend, now |-> clock] \in Requests
      BY DEF IInv, Typed, Requests
    <2> QED
      BY <2>1, <2>2
  <1>3. /\ pc' \in [Threads -> {"idle", "asked"} \cup Locking] /\ pc'[t] = "asked"
        /\ \A u \in Threads : u # t => pc'[u] = pc[u]
    BY <1>1 DEF IInv, Typed
  <1>4. /\ req' \in [Threads -> Requests \cup {NoRequest}] /\ req'[t] \in Requests
        /\ \A u \in Threads : u # t => req'[u] = req[u]
    BY <1>2 DEF IInv, Typed
  <1>5. Typed'
    BY <1>1, <1>3, <1>4 DEF IInv, Typed
  <1>6. TypedState'
    BY <1>1 DEF IInv, TypedState, Counting, Accounts
  <1>7. Alone'
    BY <1>1, <1>3, <1>4 DEF IInv, Alone, Locking
  <1>8. StoreBounds' /\ PaidFits'
    BY <1>1 DEF IInv, StoreBounds, PaidFits, Counting, Accounts
  <1>9. SeenBounds'
    BY <1>1, <1>3 DEF IInv, SeenBounds, Counting
  <1>10. WrittenCovers'
    BY <1>1, <1>3, <1>4 DEF IInv, WrittenCovers, Counting, Due
  <1> QED
    BY <1>5, <1>6, <1>7, <1>8, <1>9, <1>10 DEF IInv

\* Processes that die lose what they remember, and their locks.
LEMMA RestartKeeps ==
  ASSUME IInv, NEW ps \in SUBSET Procs, Restart(ps), clock' \in Nat
  PROVE  IInv'
  <1>1. /\ pc' = [t \in Threads |-> IF ProcOf[t] \in ps THEN "idle" ELSE pc[t]]
        /\ req' = [t \in Threads |-> IF ProcOf[t] \in ps THEN NoRequest ELSE req[t]]
        /\ seen' = [t \in Threads |-> IF ProcOf[t] \in ps THEN Empty ELSE seen[t]]
        /\ allowing' = [t \in Threads |-> IF ProcOf[t] \in ps THEN FALSE ELSE allowing[t]]
        /\ store' = [x \in Accounts |-> IF x \in ps THEN Empty ELSE store[x]]
        /\ paid' = [x \in Accounts |-> IF x \in ps THEN NoCounts ELSE paid[x]]
        /\ provider' = provider
    BY DEF Restart
  <1>2. File \notin ps /\ File \in Accounts /\ provider.perAction \in BOOLEAN
    BY LimitsAssumption DEF Accounts, IInv, Typed
  <1>3. store'[File] = store[File] /\ paid'[File] = paid[File]
    BY <1>1, <1>2
  <1>4. Typed'
    <2>1. pc' \in [Threads -> {"idle", "asked"} \cup Locking]
      BY <1>1 DEF IInv, Typed
    <2>2. req' \in [Threads -> Requests \cup {NoRequest}]
      BY <1>1 DEF IInv, Typed
    <2>3. \A t \in Threads : pc'[t] # "idle" => req'[t] \in Requests
      BY <1>1 DEF IInv, Typed
    <2>4. allowing' \in [Threads -> BOOLEAN]
      BY <1>1 DEF IInv, Typed
    <2>5. paid' \in [Accounts -> Counts]
      BY <1>1, <1>2, NothingPaid DEF IInv, Typed
    <2> QED
      BY <1>1, <2>1, <2>2, <2>3, <2>4, <2>5 DEF IInv, Typed, Accounts
  <1>5. TypedState'
    <2>1. Counting => seen' \in [Threads -> States]
      BY <1>1, <1>2, NothingPaid DEF IInv, TypedState
    <2>2. Counting => store' \in [Accounts -> States \cup {Corrupt}]
      BY <1>1, <1>2, NothingPaid DEF IInv, TypedState
    <2>3. Counting => \A p \in Procs : store'[p] \in States
      BY <1>1, <1>2, NothingPaid DEF IInv, TypedState, Accounts
    <2> QED
      BY <1>1, <2>1, <2>2, <2>3 DEF TypedState, Counting, Accounts
  <1>6. Alone'
    BY <1>1 DEF IInv, Alone, Locking
  <1>7. StoreBounds'
    BY <1>1, <1>2, NothingPaid DEF IInv, StoreBounds, Counting, Accounts
  <1>8. SeenBounds'
    BY <1>1, <1>3 DEF IInv, SeenBounds, Counting
  <1>9. WrittenCovers'
    BY <1>1, <1>3 DEF IInv, WrittenCovers, Counting, Due
  <1>10. PaidFits'
    BY <1>1, <1>2, NothingPaid DEF IInv, PaidFits, Accounts
  <1> QED
    BY <1>4, <1>5, <1>6, <1>7, <1>8, <1>9, <1>10 DEF IInv

LEMMA DamageKeeps ==
  ASSUME IInv, Damage
  PROVE  IInv'
  <1>1. /\ Durable /\ store' = [store EXCEPT ![File] = Corrupt]
        /\ UNCHANGED <<provider, pc, req, seen, allowing, clock, paid>>
    BY DEF Damage
  <1>2. File \in Accounts /\ File \notin Procs
    BY LimitsAssumption DEF Accounts
  <1>3. Typed' /\ Alone' /\ PaidFits' /\ SeenBounds'
    BY <1>1 DEF IInv, Typed, Alone, PaidFits, SeenBounds, Counting, Accounts
  <1>4. Counting => /\ store' \in [Accounts -> States \cup {Corrupt}] /\ store'[File] = Corrupt
                    /\ \A y \in Accounts : y # File => store'[y] = store[y]
    BY <1>1, <1>2 DEF IInv, TypedState
  <1>5. TypedState'
    BY <1>1, <1>2, <1>4 DEF IInv, TypedState, Counting, Accounts
  <1>6. StoreBounds'
    BY <1>1, <1>4 DEF IInv, StoreBounds, Counting, Accounts
  <1>7. WrittenCovers'
    BY <1>1, <1>4 DEF IInv, WrittenCovers, Counting, Due
  <1> QED
    BY <1>3, <1>5, <1>6, <1>7 DEF IInv

\* What none of these variables sees: a tick, or a stutter.
LEMMA OthersKeep ==
  ASSUME IInv, UNCHANGED <<provider, store, pc, req, seen, allowing, paid>>, clock' \in Nat
  PROVE  IInv'
  <1>1. Typed' /\ TypedState' /\ Alone' /\ PaidFits' /\ SeenBounds'
    BY DEF IInv, Typed, TypedState, Alone, PaidFits, SeenBounds, Counting, Accounts
  <1>2. StoreBounds' /\ WrittenCovers'
    BY DEF IInv, StoreBounds, WrittenCovers, Counting, Accounts, Due
  <1> QED
    BY <1>1, <1>2 DEF IInv

-----------------------------------------------------------------------------
LEMMA InitIInv == Init => IInv
  <1> SUFFICES ASSUME Init PROVE IInv
    OBVIOUS
  <1>1. provider \in [kind : MemoryKinds \cup FileKinds, perAction : BOOLEAN]
    BY DEF Init
  <1>2. provider.perAction \in BOOLEAN
    BY <1>1
  <1>3. Typed /\ TypedState
    BY <1>1, <1>2, NothingPaid DEF Init, Typed, TypedState, Accounts
  <1>4. Alone /\ SeenBounds /\ WrittenCovers
    BY DEF Init, Alone, SeenBounds, WrittenCovers, Locking
  <1>5. StoreBounds /\ PaidFits
    BY <1>2, NothingPaid DEF Init, StoreBounds, PaidFits
  <1> QED
    BY <1>3, <1>4, <1>5 DEF IInv

LEMMA NextIInv == IInv /\ [Next]_vars /\ ~overlapped' => IInv'
  <1> SUFFICES ASSUME IInv, [Next]_vars, ~overlapped' PROVE IInv'
    OBVIOUS
  <1>t. clock \in Nat /\ provider.perAction \in BOOLEAN
    BY DEF IInv, Typed
  <1>1. ASSUME NEW t \in Threads, Ask(t) PROVE IInv'
    BY <1>1, AskKeeps
  <1>2. ASSUME NEW t \in Threads, DenyUnpriced(t) \/ DenyUnavailable(t) \/ DenyCorrupt(t) PROVE IInv'
    BY <1>2, DenialKeeps DEF DenyUnpriced, DenyUnavailable, DenyCorrupt
  <1>3. ASSUME NEW t \in Threads, Budget(t) PROVE IInv'
    <2>1. provider.kind = "Budget" /\ Counting /\ ProcOf[t] \in Procs /\ req[t] \in Requests
          /\ store[ProcOf[t]] \in States /\ ProcOf[t] \in Accounts
      BY <1>3, LimitsAssumption
         DEF Budget, InMemory, Counting, RateKinds, IInv, Typed, TypedState, Accounts
    <2>2. Fits(provider.perAction, store[ProcOf[t]].counts)
      BY <2>1, CorruptAssumption DEF IInv, StoreBounds
    <2>3. Price("Budget", req[t]) = 1
      BY DEF Price, SpendKinds
    <2>4. Sound(BudgetDecision(store[ProcOf[t]], req[t]), store[ProcOf[t]], req[t], 1)
      BY <1>t, <2>1, <2>2, BudgetSound
    <2>5. BudgetDecision(store[ProcOf[t]], req[t]).allowed \in BOOLEAN
      BY <2>4 DEF Sound
    <2> QED
      BY <1>3, <2>3, <2>4, <2>5, InMemoryKeeps DEF Budget, MemoryKinds
  <1>4. ASSUME NEW t \in Threads, SpendingBudget(t) PROVE IInv'
    <2>1. provider.kind = "SpendingBudget" /\ Counting /\ ProcOf[t] \in Procs /\ req[t] \in Requests
          /\ store[ProcOf[t]] \in States /\ ProcOf[t] \in Accounts
      BY <1>4, LimitsAssumption
         DEF SpendingBudget, InMemory, Counting, RateKinds, IInv, Typed, TypedState, Accounts
    <2>2. Fits(provider.perAction, store[ProcOf[t]].counts)
      BY <2>1, CorruptAssumption DEF IInv, StoreBounds
    <2>3. Price("SpendingBudget", req[t]) = req[t].spend
      BY DEF Price, SpendKinds
    <2>4. req[t].spend \in Nat
      BY <1>4, <2>1, LimitsAssumption DEF SpendingBudget, InMemory, Priced, SpendKinds, Requests
    <2>5. Sound(SpendingDecision(store[ProcOf[t]], req[t]), store[ProcOf[t]], req[t], req[t].spend)
      BY <1>t, <2>1, <2>2, <2>4, SpendingSound
    <2>6. SpendingDecision(store[ProcOf[t]], req[t]).allowed \in BOOLEAN
      BY <2>5 DEF Sound
    <2> QED
      BY <1>4, <2>3, <2>4, <2>5, <2>6, InMemoryKeeps DEF SpendingBudget, MemoryKinds
  <1>5. ASSUME NEW t \in Threads, RateLimit(t) PROVE IInv'
    <2>1. ~Counting
      BY <1>5 DEF RateLimit, InMemory, Counting, RateKinds
    <2>2. RateDecision(store[ProcOf[t]], req[t]).allowed \in BOOLEAN
      BY DEF RateDecision, Allowed, Denied
    <2> QED
      BY <1>5, <2>1, <2>2, InMemoryKeeps DEF RateLimit, MemoryKinds
  <1>6. ASSUME NEW t \in Threads, LockState(t) PROVE IInv'
    BY <1>6, LockStateKeeps
  <1>7. ASSUME NEW t \in Threads, ReadState(t) PROVE IInv'
    BY <1>7, ReadStateKeeps
  <1>8. ASSUME NEW t \in Threads, FileBudget(t) PROVE IInv'
    <2>1. provider.kind = "FileBudget" /\ Counting /\ pc[t] = "read" /\ req[t] \in Requests
          /\ seen[t] \in States
      BY <1>8 DEF FileBudget, InFile, Counting, RateKinds, IInv, Typed, TypedState
    <2>2. Fits(provider.perAction, seen[t].counts)
      BY <2>1 DEF IInv, SeenBounds
    <2>3. Price("FileBudget", req[t]) = 1
      BY DEF Price, SpendKinds
    <2>4. Sound(BudgetDecision(seen[t], req[t]), seen[t], req[t], 1)
      BY <1>t, <2>1, <2>2, BudgetSound
    <2>5. "FileBudget" \in FileKinds \ RateKinds
      BY DEF FileKinds, RateKinds
    <2> QED
      BY <1>8, <2>3, <2>4, <2>5, InFileKeeps DEF FileBudget
  <1>9. ASSUME NEW t \in Threads, FileSpendingBudget(t) PROVE IInv'
    <2>1. provider.kind = "FileSpendingBudget" /\ Counting /\ pc[t] = "read" /\ req[t] \in Requests
          /\ seen[t] \in States
      BY <1>9 DEF FileSpendingBudget, InFile, Counting, RateKinds, IInv, Typed, TypedState
    <2>2. Fits(provider.perAction, seen[t].counts)
      BY <2>1 DEF IInv, SeenBounds
    <2>3. Price("FileSpendingBudget", req[t]) = req[t].spend
      BY DEF Price, SpendKinds
    <2>4. req[t].spend \in Nat
      BY <2>1, <2>3 DEF IInv, Alone, Locking
    <2>5. Sound(SpendingDecision(seen[t], req[t]), seen[t], req[t], req[t].spend)
      BY <1>t, <2>1, <2>2, <2>4, SpendingSound
    <2>6. "FileSpendingBudget" \in FileKinds \ RateKinds
      BY DEF FileKinds, RateKinds
    <2> QED
      BY <1>9, <2>3, <2>5, <2>6, InFileKeeps DEF FileSpendingBudget
  <1>10. ASSUME NEW t \in Threads, FileRateLimit(t) PROVE IInv'
    BY <1>10, FileRateLimitKeeps
  <1>11. ASSUME NEW t \in Threads, Unlock(t) PROVE IInv'
    BY <1>11, UnlockKeeps
  <1>12. ASSUME NEW p \in Procs, Kill(p) PROVE IInv'
    BY <1>t, <1>12, RestartKeeps DEF Kill
  <1>13. CASE Reboot
    BY <1>13, RestartKeeps DEF Reboot
  <1>14. CASE Damage
    BY <1>14, DamageKeeps
  <1>15. CASE Tick
    BY <1>t, <1>15, OthersKeep DEF Tick
  <1>16. CASE UNCHANGED vars
    BY <1>t, <1>16, OthersKeep DEF vars
  <1> QED
    BY <1>1, <1>2, <1>3, <1>4, <1>5, <1>6, <1>7, <1>8, <1>9, <1>10, <1>11, <1>12, <1>13,
       <1>14, <1>15, <1>16 DEF Next, Step

-----------------------------------------------------------------------------
(* The rate limits. What a state must hold against the allowances g of an  *)
(* account x, when the clock shows c and was started at the moment o: of   *)
(* those since any moment in the current window, no more than it has       *)
(* attempts since then, and never more than the limit.                     *)

Given == [account : Accounts, from : Nat, to : Nat]
Gift(x, from, to) == [account |-> x, from |-> from, to |-> to]

Since(g, x, at) == {i \in DOMAIN g : g[i].account = x /\ g[i].from > at}
After(s, at)    == {k \in DOMAIN s : s[k] > at}

Covers(s, g, x, o, c) ==
  /\ Len(s.attempts) <= Limit
  /\ \A at \in Int : at >= o + c - Window =>
       Cardinality(Since(g, x, at)) <= Cardinality(After(s.attempts, at - o))

InWindow(g, x, at) ==
  {i \in DOMAIN g : g[i].account = x /\ g[i].from > at /\ g[i].to <= at + Window}

LEMMA CountsOfPlaces ==
  ASSUME NEW X, NEW s \in Seq(X), NEW S, S \subseteq DOMAIN s
  PROVE  IsFiniteSet(S) /\ Cardinality(S) \in Nat /\ Cardinality(S) <= Len(s) /\ Len(s) \in Nat
  <1>1. PlacesUpTo(S, Len(s)) /\ Cardinality(S) \in Nat /\ Cardinality(S) <= Len(s)
    BY PickedType
  <1>2. IsFiniteSet(S)
    BY <1>1, PlacesAreFinite
  <1>3. Len(s) \in Nat
    OBVIOUS
  <1> QED
    BY <1>1, <1>2, <1>3

\* One more place in a longer sequence.
LEMMA CountOfLonger ==
  ASSUME NEW X, NEW s \in Seq(X), NEW S, S \subseteq DOMAIN s
  PROVE  Cardinality(S \cup {Len(s) + 1}) = Cardinality(S) + 1
  <1>1. IsFiniteSet(S)
    BY CountsOfPlaces
  <1>2. Len(s) + 1 \notin S
    OBVIOUS
  <1> QED
    BY <1>1, <1>2, FS_AddElement

LEMMA AfterAppend ==
  ASSUME NEW s \in Seq(Int), NEW e \in Int, NEW at \in Int
  PROVE  After(Append(s, e), at) =
           IF e > at THEN After(s, at) \cup {Len(s) + 1} ELSE After(s, at)
  <1>1. PICK u : u = Append(s, e)
    OBVIOUS
  <1>2. /\ u \in Seq(Int) /\ Len(u) = Len(s) + 1 /\ Len(s) \in Nat
        /\ u[Len(s) + 1] = e /\ \A i \in 1..Len(s) : u[i] = s[i]
    BY <1>1
  <1>3. \A i : i \in 1..Len(u) <=> i \in 1..Len(s) \/ i = Len(s) + 1
    BY <1>2
  <1>4. DOMAIN u = 1..Len(u) /\ DOMAIN s = 1..Len(s)
    BY <1>2
  <1> QED
    BY <1>1, <1>2, <1>3, <1>4 DEF After

LEMMA SinceAppend ==
  ASSUME NEW g \in Seq(Given), NEW e \in Given, NEW x, NEW at \in Int
  PROVE  Since(Append(g, e), x, at) =
           IF e.account = x /\ e.from > at
           THEN Since(g, x, at) \cup {Len(g) + 1} ELSE Since(g, x, at)
  <1>1. PICK u : u = Append(g, e)
    OBVIOUS
  <1>2. /\ u \in Seq(Given) /\ Len(u) = Len(g) + 1 /\ Len(g) \in Nat
        /\ u[Len(g) + 1] = e /\ \A i \in 1..Len(g) : u[i] = g[i]
    BY <1>1
  <1>3. \A i : i \in 1..Len(u) <=> i \in 1..Len(g) \/ i = Len(g) + 1
    BY <1>2
  <1>4. DOMAIN u = 1..Len(u) /\ DOMAIN g = 1..Len(g)
    BY <1>2
  <1> QED
    BY <1>1, <1>2, <1>3, <1>4 DEF Since

LEMMA InWindowAppend ==
  ASSUME NEW g \in Seq(Given), NEW e \in Given, NEW x, NEW at \in Int
  PROVE  /\ InWindow(g, x, at) \subseteq DOMAIN g
         /\ ~(e.account = x /\ e.to <= at + Window) =>
              InWindow(Append(g, e), x, at) = InWindow(g, x, at)
         /\ InWindow(Append(g, e), x, at) \subseteq Since(Append(g, e), x, at)
  <1>1. PICK u : u = Append(g, e)
    OBVIOUS
  <1>2. /\ u \in Seq(Given) /\ Len(u) = Len(g) + 1 /\ Len(g) \in Nat
        /\ u[Len(g) + 1] = e /\ \A i \in 1..Len(g) : u[i] = g[i]
    BY <1>1
  <1>3. \A i : i \in 1..Len(u) <=> i \in 1..Len(g) \/ i = Len(g) + 1
    BY <1>2
  <1>4. DOMAIN u = 1..Len(u) /\ DOMAIN g = 1..Len(g)
    BY <1>2
  <1>5. ~(e.account = x /\ e.to <= at + Window) =>
          InWindow(u, x, at) = InWindow(g, x, at)
    BY <1>2, <1>3, <1>4 DEF InWindow
  <1>6. InWindow(u, x, at) \subseteq Since(u, x, at) /\ InWindow(g, x, at) \subseteq DOMAIN g
    BY DEF InWindow, Since
  <1> QED
    BY <1>1, <1>5, <1>6

\* A later moment asks for less, of the same clock or of one started later.
LEMMA CoversLater ==
  ASSUME NEW s \in States, NEW g \in Seq(Given), NEW x, NEW o \in Nat, NEW c \in Nat,
         NEW p \in Nat, NEW d \in Nat, o <= p, o + c <= p + d, Covers(s, g, x, o, c)
  PROVE  Covers(s, g, x, p, d)
  <1> SUFFICES ASSUME NEW at \in Int, at >= p + d - Window
               PROVE  Cardinality(Since(g, x, at)) <= Cardinality(After(s.attempts, at - p))
    BY DEF Covers
  <1>1. at >= o + c - Window
    BY LimitsAssumption
  <1>2. Cardinality(Since(g, x, at)) <= Cardinality(After(s.attempts, at - o))
    BY <1>1 DEF Covers
  <1>3. /\ s.attempts \in Seq(Int) /\ \A k \in DOMAIN s.attempts : s.attempts[k] \in Int
        /\ After(s.attempts, at - o) \subseteq DOMAIN s.attempts
        /\ After(s.attempts, at - p) \subseteq DOMAIN s.attempts
        /\ Since(g, x, at) \subseteq DOMAIN g
    BY DEF States, After, Since
  <1>4. After(s.attempts, at - o) \subseteq After(s.attempts, at - p)
    BY <1>3 DEF After
  <1>5. /\ Cardinality(Since(g, x, at)) \in Nat
        /\ IsFiniteSet(After(s.attempts, at - p))
        /\ Cardinality(After(s.attempts, at - o)) \in Nat
        /\ Cardinality(After(s.attempts, at - p)) \in Nat
    BY <1>3, CountsOfPlaces
  <1>6. Cardinality(After(s.attempts, at - o)) <= Cardinality(After(s.attempts, at - p))
    BY <1>4, <1>5, FS_Subset
  <1> QED
    BY <1>2, <1>5, <1>6

\* Nothing was allowed.
LEMMA CoversNothing ==
  ASSUME NEW s \in States, Len(s.attempts) <= Limit, NEW g, NEW x, NEW o \in Int, NEW c,
         \A i \in DOMAIN g : g[i].account # x
  PROVE  Covers(s, g, x, o, c)
  <1> SUFFICES ASSUME NEW at \in Int
               PROVE  Cardinality(Since(g, x, at)) <= Cardinality(After(s.attempts, at - o))
    BY DEF Covers
  <1>1. Since(g, x, at) = {}
    BY DEF Since
  <1>2. Cardinality(Since(g, x, at)) = 0
    BY <1>1, FS_EmptySet
  <1>3. Cardinality(After(s.attempts, at - o)) \in Nat
    <2>1. s.attempts \in Seq(Int) /\ After(s.attempts, at - o) \subseteq DOMAIN s.attempts
      BY DEF States, After
    <2> QED
      BY <2>1, CountsOfPlaces
  <1> QED
    BY <1>2, <1>3

\* What an attempt is kept for.
Kept(old, new, cutoff) ==
  /\ new \in Seq(Int)
  /\ Len(new) <= Len(old)
  /\ \A at \in Int : at >= cutoff => Cardinality(After(old, at)) <= Cardinality(After(new, at))

\* Whichever expired attempts a provider drops, it keeps the others.
LEMMA PickedAreKept ==
  ASSUME NEW s \in Seq(Int), NEW S, S \subseteq DOMAIN s, NEW cutoff \in Int, After(s, cutoff) \subseteq S
  PROVE  Kept(s, Picked(s, S), cutoff)
  <1>1. PICK p : p = Picked(s, S)
    OBVIOUS
  <1>2. /\ PlacesUpTo(S, Len(s)) /\ p \in Seq(Int)
        /\ Len(p) = Cardinality(S) /\ DOMAIN p = 1..Cardinality(S)
        /\ Cardinality(S) <= Len(s)
        /\ \A r \in 1..Cardinality(S) : Nth(S, r) \in S /\ p[r] = s[Nth(S, r)]
    BY <1>1, PickedType
  <1>3. ASSUME NEW at \in Int, at >= cutoff
        PROVE  Cardinality(After(s, at)) <= Cardinality(After(p, at))
    <2>1. After(s, at) \subseteq S
      <3>1. \A i \in DOMAIN s : s[i] \in Int
        OBVIOUS
      <3> QED
        BY <1>3, <3>1 DEF After
    <2>2. After(p, at) \subseteq 1..Cardinality(S)
      BY <1>2 DEF After
    <2>3. ASSUME NEW i \in After(s, at) PROVE Rank(S, i) \in After(p, at)
      <3>1. i \in S /\ s[i] > at
        BY <2>1 DEF After
      <3>2. PICK r : r = Rank(S, i)
        OBVIOUS
      <3>3. r \in 1..Cardinality(S) /\ Nth(S, r) = i
        BY <1>2, <3>1, <3>2, RankInRange, NthOfRank
      <3>4. p[r] = s[i]
        BY <1>2, <3>3
      <3> QED
        BY <1>2, <3>1, <3>2, <3>3, <3>4 DEF After
    <2> QED
      BY <1>2, <2>1, <2>2, <2>3, PickedKeeps
  <1> QED
    BY <1>1, <1>2, <1>3 DEF Kept

LEMMA PopIsKept ==
  ASSUME NEW s \in Seq(Int), NEW cutoff \in Int
  PROVE  Kept(s, PopExpired(s, cutoff), cutoff)
  <1> DEFINE S == {i \in DOMAIN s : \E j \in 1..i : s[j] > cutoff}
  <1>1. S \subseteq DOMAIN s
    OBVIOUS
  <1>2. After(s, cutoff) \subseteq S
    <2>1. \A i \in DOMAIN s : i \in 1..i
      OBVIOUS
    <2> QED
      BY <2>1 DEF After
  <1>3. PopExpired(s, cutoff) = Picked(s, S)
    BY DEF PopExpired
  <1> HIDE DEF S
  <1> QED
    BY <1>1, <1>2, <1>3, PickedAreKept

LEMMA DropIsKept ==
  ASSUME NEW s \in Seq(Int), NEW cutoff \in Int
  PROVE  Kept(s, DropExpired(s, cutoff), cutoff)
  <1> DEFINE S == {i \in DOMAIN s : s[i] > cutoff}
  <1>1. S \subseteq DOMAIN s /\ After(s, cutoff) \subseteq S
    BY DEF After
  <1>2. DropExpired(s, cutoff) = Picked(s, S)
    BY DEF DropExpired
  <1> HIDE DEF S
  <1> QED
    BY <1>1, <1>2, PickedAreKept

\* A decision d on s at clock c of a request that read now: what it writes
\* covers what was given, and its own allowance.
Keeps(d, s, now, c) ==
  /\ d.allowed \in BOOLEAN /\ d.state \in States
  /\ \A g \in Seq(Given), x \in Accounts, o \in Nat : Covers(s, g, x, o, c) =>
       /\ Covers(d.state, g, x, o, c)
       /\ d.allowed => \A to \in Nat : Covers(d.state, Append(g, Gift(x, o + now, to)), x, o, c)

\* RateLimitProvider and FileRateLimitProvider, after they dropped what expired.
LEMMA LiveKeeps ==
  ASSUME NEW s \in States, NEW now \in Nat, NEW c \in Nat, now <= c, NEW live,
         Kept(s.attempts, live, now - Window)
  PROVE  Keeps(IF Len(live) >= Limit THEN Denied([s EXCEPT !.attempts = live])
               ELSE Allowed([s EXCEPT !.attempts = Append(live, now)]), s, now, c)
  <1>1. /\ s.attempts \in Seq(Int) /\ live \in Seq(Int) /\ Window \in Nat /\ Limit \in Nat
        /\ Len(live) \in Nat /\ Len(s.attempts) \in Nat /\ Len(live) <= Len(s.attempts)
    BY LimitsAssumption DEF States, Kept
  <1>2. PICK more : more = Append(live, now)
    OBVIOUS
  <1>3. more \in Seq(Int) /\ Len(more) = Len(live) + 1
    BY <1>1, <1>2
  <1>4. PICK denied, allowed : denied = [s EXCEPT !.attempts = live] /\ allowed = [s EXCEPT !.attempts = more]
    OBVIOUS
  <1>5. denied \in States /\ denied.attempts = live
    BY <1>1, <1>4 DEF States
  <1>6. allowed \in States /\ allowed.attempts = more
    BY <1>3, <1>4 DEF States
  <1>7. ASSUME NEW g \in Seq(Given), NEW x \in Accounts, NEW o \in Nat, Covers(s, g, x, o, c)
        PROVE  /\ Covers(denied, g, x, o, c)
               /\ Len(live) < Limit => Covers(allowed, g, x, o, c)
               /\ Len(live) < Limit => \A to \in Nat : Covers(allowed, Append(g, Gift(x, o + now, to)), x, o, c)
    <2>1. Len(live) <= Limit
      BY <1>1, <1>7 DEF Covers
    <2>2. ASSUME NEW at \in Int, at >= o + c - Window
          PROVE  /\ Cardinality(Since(g, x, at)) \in Nat
                 /\ Cardinality(After(live, at - o)) \in Nat
                 /\ Cardinality(Since(g, x, at)) <= Cardinality(After(live, at - o))
                 /\ Cardinality(After(more, at - o)) = IF o + now > at THEN Cardinality(After(live, at - o)) + 1
                                                   ELSE Cardinality(After(live, at - o))
      <3>1. Cardinality(Since(g, x, at)) <= Cardinality(After(s.attempts, at - o))
        BY <1>7, <2>2 DEF Covers
      <3>2. Cardinality(After(s.attempts, at - o)) <= Cardinality(After(live, at - o))
        <4>1. at - o \in Int /\ at - o >= now - Window
          BY <1>1, <2>2
        <4> QED
          BY <4>1 DEF Kept
      <3>3. Since(g, x, at) \subseteq DOMAIN g /\ After(live, at - o) \subseteq DOMAIN live
            /\ After(s.attempts, at - o) \subseteq DOMAIN s.attempts
        BY DEF Since, After
      <3>4. /\ Cardinality(Since(g, x, at)) \in Nat /\ Cardinality(After(live, at - o)) \in Nat
            /\ Cardinality(After(s.attempts, at - o)) \in Nat
        BY <1>1, <3>3, CountsOfPlaces
      <3>5. After(more, at - o) = IF o + now > at THEN After(live, at - o) \cup {Len(live) + 1}
                                  ELSE After(live, at - o)
        <4>1. PICK w : w = at - o
          OBVIOUS
        <4>2. w \in Int /\ now \in Int /\ (now > w <=> o + now > at)
          BY <4>1
        <4>3. After(Append(live, now), w) = IF now > w THEN After(live, w) \cup {Len(live) + 1}
                                            ELSE After(live, w)
          BY <1>1, <4>2, AfterAppend
        <4> QED
          BY <1>2, <4>1, <4>2, <4>3
      <3>6. Cardinality(After(live, at - o) \cup {Len(live) + 1}) = Cardinality(After(live, at - o)) + 1
        BY <1>1, <3>3, CountOfLonger
      <3> QED
        BY <3>1, <3>2, <3>4, <3>5, <3>6
    <2>3. Covers(denied, g, x, o, c)
      BY <1>5, <2>1, <2>2 DEF Covers
    <2>4. ASSUME Len(live) < Limit PROVE Covers(allowed, g, x, o, c)
      <3>1. Len(more) <= Limit
        BY <1>1, <1>3, <2>4
      <3>2. \A at \in Int : at >= o + c - Window =>
              Cardinality(Since(g, x, at)) <= Cardinality(After(more, at - o))
        BY <2>2
      <3> QED
        BY <1>6, <3>1, <3>2 DEF Covers
    <2>5. ASSUME Len(live) < Limit, NEW to \in Nat
          PROVE  Covers(allowed, Append(g, Gift(x, o + now, to)), x, o, c)
      <3>1. PICK e : e = Gift(x, o + now, to)
        OBVIOUS
      <3>2. e \in Given /\ e.account = x /\ e.from = o + now
        BY <3>1 DEF Gift, Given
      <3>3. Len(more) <= Limit
        BY <1>1, <1>3, <2>5
      <3>4. ASSUME NEW at \in Int, at >= o + c - Window
            PROVE  Cardinality(Since(Append(g, e), x, at)) <= Cardinality(After(more, at - o))
        <4>1. Since(Append(g, e), x, at) = IF o + now > at THEN Since(g, x, at) \cup {Len(g) + 1}
                                              ELSE Since(g, x, at)
          BY <3>2, SinceAppend
        <4>2. Cardinality(Since(g, x, at) \cup {Len(g) + 1}) = Cardinality(Since(g, x, at)) + 1
          <5>1. Since(g, x, at) \subseteq DOMAIN g
            BY DEF Since
          <5> QED
            BY <5>1, CountOfLonger
        <4>3. /\ Cardinality(Since(g, x, at)) \in Nat /\ Cardinality(After(live, at - o)) \in Nat
              /\ Cardinality(Since(g, x, at)) <= Cardinality(After(live, at - o))
              /\ Cardinality(After(more, at - o)) = IF o + now > at THEN Cardinality(After(live, at - o)) + 1
                                                ELSE Cardinality(After(live, at - o))
          BY <2>2, <3>4
        <4> QED
          BY <4>1, <4>2, <4>3
      <3> QED
        BY <1>6, <3>1, <3>3, <3>4 DEF Covers
    <2> QED
      BY <2>3, <2>4, <2>5
  <1>8. CASE Len(live) >= Limit
    BY <1>4, <1>5, <1>7, <1>8 DEF Keeps, Denied
  <1>9. CASE ~(Len(live) >= Limit)
    <2>1. Len(live) < Limit
      BY <1>1, <1>9
    <2> QED
      BY <1>2, <1>4, <1>6, <1>7, <1>9, <2>1 DEF Keeps, Allowed
  <1> QED
    BY <1>8, <1>9

LEMMA RateDecisionsKeep ==
  ASSUME NEW s \in States, NEW r \in Requests, NEW c \in Nat, r.now <= c
  PROVE  Keeps(RateDecision(s, r), s, r.now, c) /\ Keeps(FileRateDecision(s, r), s, r.now, c)
  <1>1. s.attempts \in Seq(Int) /\ r.now \in Nat /\ r.now - Window \in Int
    BY LimitsAssumption DEF States, Requests
  <1>2. Keeps(RateDecision(s, r), s, r.now, c)
    <2>1. PICK live : live = PopExpired(s.attempts, r.now - Window)
      OBVIOUS
    <2>2. Kept(s.attempts, live, r.now - Window)
      BY <1>1, <2>1, PopIsKept
    <2>3. RateDecision(s, r) = IF Len(live) >= Limit THEN Denied([s EXCEPT !.attempts = live])
                               ELSE Allowed([s EXCEPT !.attempts = Append(live, r.now)])
      BY <2>1 DEF RateDecision
    <2> QED
      BY <1>1, <2>2, <2>3, LiveKeeps
  <1>3. Keeps(FileRateDecision(s, r), s, r.now, c)
    <2>1. PICK live : live = DropExpired(s.attempts, r.now - Window)
      OBVIOUS
    <2>2. Kept(s.attempts, live, r.now - Window)
      BY <1>1, <2>1, DropIsKept
    <2>3. FileRateDecision(s, r) = IF Len(live) >= Limit THEN Denied([s EXCEPT !.attempts = live])
                                   ELSE Allowed([s EXCEPT !.attempts = Append(live, r.now)])
      BY <2>1 DEF FileRateDecision
    <2> QED
      BY <1>1, <2>2, <2>3, LiveKeeps
  <1> QED
    BY <1>2, <1>3


-----------------------------------------------------------------------------
(* Leaving decide() with an allowance, and losing those of a process.      *)

AllWindows(g) ==
  \A x \in Accounts, at \in Int : Cardinality(InWindow(g, x, at)) <= Limit

\* An allowance that a state covers exceeds no window.
LEMMA GiftInWindows ==
  ASSUME NEW g \in Seq(Given), NEW s \in States, NEW x \in Accounts, NEW from \in Nat,
         NEW c \in Nat, NEW o \in Nat, NEW e, e = Gift(x, from, o + c),
         AllWindows(g), Covers(s, Append(g, e), x, o, c)
  PROVE  AllWindows(Append(g, e))
  <1> SUFFICES ASSUME NEW y \in Accounts, NEW at \in Int
               PROVE  Cardinality(InWindow(Append(g, e), y, at)) <= Limit
    BY DEF AllWindows
  <1>1. e \in Given /\ e.account = x /\ e.to = o + c
    BY DEF Gift, Given
  <1>2. CASE ~(x = y /\ o + c <= at + Window)
    <2>1. InWindow(Append(g, e), y, at) = InWindow(g, y, at)
      BY <1>1, <1>2, InWindowAppend
    <2> QED
      BY <2>1 DEF AllWindows
  <1>3. CASE x = y /\ o + c <= at + Window
    <2>1. PICK u : u = Append(g, e)
      OBVIOUS
    <2>2. u \in Seq(Given) /\ s.attempts \in Seq(Int) /\ Window \in Nat /\ Limit \in Nat
      BY <1>1, <2>1, LimitsAssumption DEF States
    <2>3. InWindow(u, y, at) \subseteq Since(u, y, at) /\ Since(u, y, at) \subseteq DOMAIN u
      BY DEF InWindow, Since
    <2>4. Cardinality(Since(u, y, at)) <= Cardinality(After(s.attempts, at - o)) /\ Len(s.attempts) <= Limit
      <3>1. at >= o + c - Window
        BY <1>3, <2>2
      <3> QED
        BY <1>3, <2>1, <3>1 DEF Covers
    <2>5. /\ Cardinality(After(s.attempts, at - o)) \in Nat
          /\ Cardinality(After(s.attempts, at - o)) <= Len(s.attempts) /\ Len(s.attempts) \in Nat
      <3>1. After(s.attempts, at - o) \subseteq DOMAIN s.attempts
        BY DEF After
      <3> QED
        BY <2>2, <3>1, CountsOfPlaces
    <2>6. IsFiniteSet(Since(u, y, at)) /\ Cardinality(Since(u, y, at)) \in Nat
      BY <2>2, <2>3, CountsOfPlaces
    <2>7. /\ Cardinality(InWindow(u, y, at)) <= Cardinality(Since(u, y, at))
          /\ Cardinality(InWindow(u, y, at)) \in Nat
      <3>1. InWindow(u, y, at) \subseteq DOMAIN u
        BY <2>3
      <3>2. Cardinality(InWindow(u, y, at)) \in Nat
        BY <2>2, <3>1, CountsOfPlaces
      <3> QED
        BY <2>3, <2>6, <3>2, FS_Subset
    <2> QED
      BY <2>1, <2>2, <2>4, <2>5, <2>6, <2>7
  <1> QED
    BY <1>2, <1>3

\* An allowance is nothing to another account.
LEMMA GiftElsewhere ==
  ASSUME NEW g \in Seq(Given), NEW e \in Given, NEW y, e.account # y,
         NEW r, NEW o \in Int, NEW c \in Int, Covers(r, g, y, o, c)
  PROVE  Covers(r, Append(g, e), y, o, c)
  <1>1. \A at \in Int : Since(Append(g, e), y, at) = Since(g, y, at)
    BY SinceAppend
  <1> QED
    BY <1>1 DEF Covers

\* What is left of the allowances when some are forgotten.
LEMMA FewerGiven ==
  ASSUME NEW g \in Seq(Given), NEW S, S \subseteq DOMAIN g, NEW h, h = Picked(g, S)
  PROVE  /\ h \in Seq(Given)
         /\ \A i \in DOMAIN h : \E j \in S : h[i] = g[j]
         /\ AllWindows(g) => AllWindows(h)
         /\ \A x : \A at \in Int :
              /\ Cardinality(Since(h, x, at)) <= Cardinality(Since(g, x, at))
              /\ Cardinality(Since(h, x, at)) \in Nat /\ Cardinality(Since(g, x, at)) \in Nat
  <1>1. /\ PlacesUpTo(S, Len(g)) /\ h \in Seq(Given) /\ DOMAIN h = 1..Cardinality(S)
        /\ \A r \in 1..Cardinality(S) : Nth(S, r) \in S /\ h[r] = g[Nth(S, r)]
    BY PickedType
  <1>2. DOMAIN g = 1..Len(g) /\ Len(g) \in Nat /\ Limit \in Nat /\ Window \in Nat
    BY LimitsAssumption
  <1>3. \A i \in DOMAIN h : \E j \in S : h[i] = g[j]
    BY <1>1
  <1>5. ASSUME NEW x, NEW at \in Int
        PROVE  /\ Cardinality(InWindow(h, x, at)) <= Cardinality(InWindow(g, x, at))
               /\ Cardinality(InWindow(h, x, at)) \in Nat /\ Cardinality(InWindow(g, x, at)) \in Nat
    <2>1. InWindow(h, x, at) \subseteq 1..Cardinality(S) /\ InWindow(g, x, at) \subseteq 1..Len(g)
      BY <1>1, <1>2 DEF InWindow
    <2>2. \A r \in InWindow(h, x, at) : Nth(S, r) \in InWindow(g, x, at)
      BY <1>1 DEF InWindow
    <2>3. Cardinality(InWindow(h, x, at)) <= Cardinality(InWindow(g, x, at))
      BY <1>1, <2>1, <2>2, PickedFromFew
    <2>4. InWindow(h, x, at) \subseteq DOMAIN h /\ InWindow(g, x, at) \subseteq DOMAIN g
      BY DEF InWindow
    <2>5. Cardinality(InWindow(h, x, at)) \in Nat /\ Cardinality(InWindow(g, x, at)) \in Nat
      BY <1>1, <2>4, CountsOfPlaces
    <2> QED
      BY <2>3, <2>5
  <1>6. AllWindows(g) => AllWindows(h)
    BY <1>2, <1>5 DEF AllWindows
  <1>7. ASSUME NEW x, NEW at \in Int
        PROVE  /\ Cardinality(Since(h, x, at)) <= Cardinality(Since(g, x, at))
               /\ Cardinality(Since(h, x, at)) \in Nat /\ Cardinality(Since(g, x, at)) \in Nat
    <2>1. Since(h, x, at) \subseteq 1..Cardinality(S) /\ Since(g, x, at) \subseteq 1..Len(g)
      BY <1>1, <1>2 DEF Since
    <2>2. \A n \in Since(h, x, at) : Nth(S, n) \in Since(g, x, at)
      BY <1>1 DEF Since
    <2>3. Cardinality(Since(h, x, at)) <= Cardinality(Since(g, x, at))
      BY <1>1, <2>1, <2>2, PickedFromFew
    <2>4. Since(h, x, at) \subseteq DOMAIN h /\ Since(g, x, at) \subseteq DOMAIN g
      BY DEF Since
    <2>5. Cardinality(Since(h, x, at)) \in Nat /\ Cardinality(Since(g, x, at)) \in Nat
      BY <1>1, <2>4, CountsOfPlaces
    <2> QED
      BY <2>3, <2>5
  <1> QED
    BY <1>1, <1>3, <1>6, <1>7

LEMMA FewerAndOne ==
  ASSUME NEW g \in Seq(Given), NEW h \in Seq(Given), NEW e \in Given, NEW x, NEW at \in Int,
         Cardinality(Since(h, x, at)) <= Cardinality(Since(g, x, at)),
         Cardinality(Since(h, x, at)) \in Nat, Cardinality(Since(g, x, at)) \in Nat
  PROVE  /\ Cardinality(Since(Append(h, e), x, at)) \in Nat
         /\ Cardinality(Since(Append(g, e), x, at)) \in Nat
         /\ Cardinality(Since(Append(h, e), x, at)) <= Cardinality(Since(Append(g, e), x, at))
  <1>1. Since(g, x, at) \subseteq DOMAIN g /\ Since(h, x, at) \subseteq DOMAIN h
    BY DEF Since
  <1>2. /\ Cardinality(Since(g, x, at) \cup {Len(g) + 1}) = Cardinality(Since(g, x, at)) + 1
        /\ Cardinality(Since(h, x, at) \cup {Len(h) + 1}) = Cardinality(Since(h, x, at)) + 1
    BY <1>1, CountOfLonger
  <1>3. CASE e.account = x /\ e.from > at
    <2>1. /\ Since(Append(g, e), x, at) = Since(g, x, at) \cup {Len(g) + 1}
          /\ Since(Append(h, e), x, at) = Since(h, x, at) \cup {Len(h) + 1}
      BY <1>3, SinceAppend
    <2> QED
      BY <1>2, <2>1
  <1>4. CASE ~(e.account = x /\ e.from > at)
    <2>1. Since(Append(g, e), x, at) = Since(g, x, at)
      BY <1>4, SinceAppend
    <2>2. Since(Append(h, e), x, at) = Since(h, x, at)
      BY <1>4, SinceAppend
    <2> QED
      BY <2>1, <2>2
  <1> QED
    BY <1>3, <1>4

\* Where fewer are given, and one more may be owed, what is covered stays so.
LEMMA FewerCovered ==
  ASSUME NEW g \in Seq(Given), NEW h \in Seq(Given), NEW r \in States, NEW x, NEW o \in Int, NEW c \in Int,
         \A at \in Int : /\ Cardinality(Since(h, x, at)) <= Cardinality(Since(g, x, at))
                         /\ Cardinality(Since(h, x, at)) \in Nat
                         /\ Cardinality(Since(g, x, at)) \in Nat
  PROVE  /\ Covers(r, g, x, o, c) => Covers(r, h, x, o, c)
         /\ \A e \in Given : Covers(r, Append(g, e), x, o, c) => Covers(r, Append(h, e), x, o, c)
  <1>1. ASSUME NEW at \in Int PROVE Cardinality(After(r.attempts, at - o)) \in Nat
    <2>1. After(r.attempts, at - o) \subseteq DOMAIN r.attempts /\ r.attempts \in Seq(Int)
      BY DEF After, States
    <2> QED
      BY <2>1, CountsOfPlaces
  <1>2. ASSUME Covers(r, g, x, o, c) PROVE Covers(r, h, x, o, c)
    <2> SUFFICES ASSUME NEW at \in Int, at >= o + c - Window
                 PROVE  Cardinality(Since(h, x, at)) <= Cardinality(After(r.attempts, at - o))
      BY <1>2 DEF Covers
    <2>1. Cardinality(Since(g, x, at)) <= Cardinality(After(r.attempts, at - o))
      BY <1>2 DEF Covers
    <2>2. /\ Cardinality(Since(h, x, at)) <= Cardinality(Since(g, x, at))
          /\ Cardinality(Since(h, x, at)) \in Nat /\ Cardinality(Since(g, x, at)) \in Nat
          /\ Cardinality(After(r.attempts, at - o)) \in Nat
      BY <1>1
    <2> QED
      BY <2>1, <2>2
  <1>3. ASSUME NEW e \in Given, Covers(r, Append(g, e), x, o, c) PROVE Covers(r, Append(h, e), x, o, c)
    <2> SUFFICES ASSUME NEW at \in Int, at >= o + c - Window
                 PROVE  Cardinality(Since(Append(h, e), x, at)) <= Cardinality(After(r.attempts, at - o))
      BY <1>3 DEF Covers
    <2>1. Cardinality(Since(Append(g, e), x, at)) <= Cardinality(After(r.attempts, at - o))
      BY <1>3 DEF Covers
    <2>2. /\ Cardinality(Since(h, x, at)) <= Cardinality(Since(g, x, at))
          /\ Cardinality(Since(h, x, at)) \in Nat /\ Cardinality(Since(g, x, at)) \in Nat
          /\ Cardinality(After(r.attempts, at - o)) \in Nat
      BY <1>1
    <2>3. /\ Cardinality(Since(Append(h, e), x, at)) \in Nat
          /\ Cardinality(Since(Append(g, e), x, at)) \in Nat
          /\ Cardinality(Since(Append(h, e), x, at)) <= Cardinality(Since(Append(g, e), x, at))
      BY <2>2, FewerAndOne
    <2> QED
      BY <2>1, <2>2, <2>3
  <1> QED
    BY <1>2, <1>3


-----------------------------------------------------------------------------
(* The invariant of the rate limits.                                       *)

RateTyped ==
  /\ since \in Nat
  /\ given \in Seq(Given)
  /\ Counting => given = << >>
  /\ ~Counting => /\ store \in [Accounts -> States \cup {Corrupt}]
                  /\ \A p \in Procs : store[p] \in States
                  /\ seen \in [Threads -> States]

AskedBefore == ~Counting => \A t \in Threads : pc[t] # "idle" => req[t].now <= clock

StoreCovers ==
  ~Counting => \A x \in Accounts : store[x] # Corrupt => Covers(store[x], given, x, since, clock)

SeenCovers ==
  ~Counting => \A t \in Threads : pc[t] = "read" => Covers(seen[t], given, File, since, clock)

\* What a thread has written for covers the allowance it is about to give.
OwedCovers ==
  ~Counting => \A t \in Threads : pc[t] = "written" =>
    /\ store[File] # Corrupt => store[File] = seen[t]
    /\ allowing[t] => \A to \in Nat :
         Covers(seen[t], Append(given, Gift(File, since + req[t].now, to)), File, since, clock)

GivenFits == AllWindows(given)

RInv == RateTyped /\ AskedBefore /\ StoreCovers /\ SeenCovers /\ OwedCovers /\ GivenFits

-----------------------------------------------------------------------------
(* The steps.                                                              *)

\* The budgets give nothing that a window counts.
LEMMA BudgetsGiveNothing ==
  ASSUME Counting, provider' = provider, given' = << >>, since' \in Nat
  PROVE  RInv'
  <1>1. Counting'
    BY DEF Counting
  <1>2. RateTyped'
    BY <1>1 DEF RateTyped
  <1>3. AskedBefore' /\ StoreCovers' /\ SeenCovers' /\ OwedCovers'
    BY <1>1 DEF AskedBefore, StoreCovers, SeenCovers, OwedCovers
  <1>5. AllWindows(<< >>)
    <2> SUFFICES ASSUME NEW x, NEW at PROVE Cardinality(InWindow(<< >>, x, at)) <= Limit
      BY DEF AllWindows
    <2>1. InWindow(<< >>, x, at) = {}
      BY DEF InWindow
    <2>2. Cardinality(InWindow(<< >>, x, at)) = 0
      BY <2>1, FS_EmptySet
    <2> QED
      BY <2>2, LimitsAssumption
  <1>6. GivenFits'
    BY <1>5 DEF GivenFits
  <1> QED
    BY <1>2, <1>3, <1>6 DEF RInv

\* A denial takes nothing from the windows.
LEMMA RateDenialKeeps ==
  ASSUME IInv, RInv, ~Counting, NEW t \in Threads, Answer(t, FALSE),
         UNCHANGED <<provider, store, clock>>
  PROVE  RInv'
  <1>1. given' = given /\ since' = since /\ seen' = [seen EXCEPT ![t] = Empty]
    BY DEF Answer
  <1>2. /\ pc'[t] = "idle"
        /\ \A u \in Threads : u # t =>
             pc'[u] = pc[u] /\ req'[u] = req[u] /\ allowing'[u] = allowing[u] /\ seen'[u] = seen[u]
    BY AnswerLeaves DEF IInv
  <1>3. seen' \in [Threads -> States]
    <2>1. seen \in [Threads -> States] /\ Empty \in States
      BY NothingPaid DEF RInv, RateTyped
    <2> QED
      BY <1>1, <2>1
  <1>4. RateTyped'
    BY <1>1, <1>3 DEF RInv, RateTyped, Counting, Accounts
  <1>5. AskedBefore'
    BY <1>2 DEF RInv, AskedBefore, Counting
  <1>6. StoreCovers'
    BY <1>1 DEF RInv, StoreCovers, Counting, Accounts
  <1>7. SeenCovers'
    BY <1>1, <1>2 DEF RInv, SeenCovers, Counting
  <1>8. OwedCovers'
    BY <1>1, <1>2 DEF RInv, OwedCovers, Counting
  <1>9. GivenFits'
    BY <1>1 DEF RInv, GivenFits
  <1> QED
    BY <1>4, <1>5, <1>6, <1>7, <1>8, <1>9 DEF RInv

\* An allowance that the state of its account covers.
LEMMA GivingKeeps ==
  ASSUME IInv, RInv, ~Counting, NEW t \in Threads, NEW x \in Accounts, x = Account(ProcOf[t]),
         Answer(t, TRUE), clock' = clock, req[t] \in Requests, NEW s \in States,
         \A to \in Nat : Covers(s, Append(given, Gift(x, since + req[t].now, to)), x, since, clock)
  PROVE  /\ given' \in Seq(Given) /\ GivenFits' /\ since' = since
         /\ Covers(s, given', x, since, clock)
         /\ \A r : \A y \in Accounts : y # x /\ Covers(r, given, y, since, clock) =>
              Covers(r, given', y, since, clock)
  <1>1. PICK e : e = Gift(x, since + req[t].now, since + clock)
    OBVIOUS
  <1>2. given' = Append(given, e) /\ since' = since
    BY <1>1 DEF Answer, Counting, Gift
  <1>3. /\ given \in Seq(Given) /\ since \in Nat /\ clock \in Nat /\ req[t].now \in Nat
        /\ since + req[t].now \in Nat /\ since + clock \in Nat /\ AllWindows(given)
    BY DEF IInv, Typed, RInv, RateTyped, GivenFits, Requests
  <1>4. e \in Given /\ e.account = x
    BY <1>1, <1>3 DEF Gift, Given
  <1>5. PICK g : g = given
    OBVIOUS
  <1>6. Append(g, e) \in Seq(Given)
    BY <1>3, <1>4, <1>5
  <1>8. Covers(s, Append(g, e), x, since, clock)
    BY <1>1, <1>3, <1>5
  <1>9. AllWindows(Append(g, e))
    BY <1>1, <1>3, <1>5, <1>8, GiftInWindows
  <1>10. \A r : \A y \in Accounts : y # x /\ Covers(r, g, y, since, clock) =>
           Covers(r, Append(g, e), y, since, clock)
    BY <1>3, <1>4, <1>5, GiftElsewhere
  <1>11. GivenFits'
    BY <1>2, <1>5, <1>9 DEF GivenFits
  <1> QED
    BY <1>2, <1>5, <1>6, <1>8, <1>10, <1>11

\* The rate limit in memory decides, keeps its list and answers at once.
LEMMA RateLimitStep ==
  ASSUME IInv, RInv, NEW t \in Threads, RateLimit(t)
  PROVE  RInv'
  <1> DEFINE p == ProcOf[t]
             d == RateDecision(store[p], req[t])
  <1>1. /\ ~Counting /\ provider.kind = "RateLimit" /\ pc[t] = "asked"
        /\ store' = [store EXCEPT ![p] = d.state]
        /\ Answer(t, d.allowed) /\ UNCHANGED <<provider, clock>>
    BY DEF RateLimit, InMemory, Counting, RateKinds
  <1>2. p \in Procs /\ p \in Accounts /\ p # File /\ req[t] \in Requests /\ clock \in Nat /\ since \in Nat
    BY <1>1, LimitsAssumption DEF Accounts, IInv, Typed, RInv, RateTyped
  <1>3. provider.kind \notin FileKinds /\ Account(p) = p
    BY <1>1 DEF Account, Durable, FileKinds
  <1>4. /\ store[p] \in States /\ store[p] # Corrupt
        /\ store \in [Accounts -> States \cup {Corrupt}] /\ \A q \in Procs : store[q] \in States
        /\ seen \in [Threads -> States] /\ given \in Seq(Given)
    BY <1>1, <1>2, CorruptAssumption DEF RInv, RateTyped
  <1>5. Keeps(d, store[p], req[t].now, clock)
    <2>1. req[t].now <= clock
      BY <1>1 DEF RInv, AskedBefore
    <2> QED
      BY <1>2, <1>4, <2>1, RateDecisionsKeep
  <1>6. Covers(store[p], given, p, since, clock)
    BY <1>1, <1>2, <1>4 DEF RInv, StoreCovers
  <1> HIDE DEF d, p
  <1>7. /\ d.allowed \in BOOLEAN /\ d.state \in States
        /\ Covers(d.state, given, p, since, clock)
        /\ d.allowed => \A to \in Nat :
             Covers(d.state, Append(given, Gift(p, since + req[t].now, to)), p, since, clock)
    BY <1>2, <1>4, <1>5, <1>6 DEF Keeps
  <1>8. PICK new : new = d.state
    OBVIOUS
  <1>9. \A u \in Threads : pc[u] \notin Locking
    BY <1>3 DEF IInv, Alone
  <1>10. /\ pc'[t] = "idle"
         /\ \A u \in Threads : u # t =>
              pc'[u] = pc[u] /\ req'[u] = req[u] /\ allowing'[u] = allowing[u] /\ seen'[u] = seen[u]
    BY <1>1, <1>7, AnswerLeaves DEF IInv
  <1>11. \A u \in Threads : pc'[u] \notin Locking
    BY <1>9, <1>10 DEF Locking
  <1>12. /\ store' \in [Accounts -> States \cup {Corrupt}] /\ store'[p] = new
         /\ \A y \in Accounts : y # p => store'[y] = store[y]
    BY <1>1, <1>2, <1>4, <1>7, <1>8
  <1>13. seen' \in [Threads -> States]
    <2>1. seen' = [seen EXCEPT ![t] = Empty] /\ Empty \in States
      BY <1>1, NothingPaid DEF Answer
    <2> QED
      BY <1>4, <2>1
  <1>14. /\ given' \in Seq(Given) /\ GivenFits' /\ since' = since
         /\ Covers(new, given', p, since, clock)
         /\ \A r : \A y \in Accounts : y # p /\ Covers(r, given, y, since, clock) =>
              Covers(r, given', y, since, clock)
    <2>1. CASE d.allowed
      <3>1. Answer(t, TRUE) /\ p = Account(ProcOf[t])
        BY <1>1, <1>3, <1>7, <2>1 DEF p
      <3> QED
        BY <1>1, <1>2, <1>7, <1>8, <2>1, <3>1, GivingKeeps
    <2>2. CASE ~d.allowed
      <3>1. given' = given /\ since' = since
        BY <1>1, <1>7, <2>2 DEF Answer
      <3> QED
        BY <1>1, <1>4, <1>7, <1>8, <3>1 DEF RInv, GivenFits
    <2> QED
      BY <1>7, <2>1, <2>2
  <1>15. ~Counting' /\ clock' = clock /\ since' = since
    BY <1>1, <1>14 DEF Counting
  <1>16. RateTyped'
    BY <1>2, <1>4, <1>7, <1>8, <1>12, <1>13, <1>14, <1>15 DEF RInv, RateTyped, Accounts
  <1>17. AskedBefore'
    BY <1>1, <1>10, <1>15 DEF RInv, AskedBefore
  <1>18. StoreCovers'
    <2> SUFFICES ASSUME NEW y \in Accounts, store'[y] # Corrupt
                 PROVE  Covers(store'[y], given', y, since, clock)
      BY <1>15 DEF StoreCovers, Accounts
    <2>1. CASE y = p
      BY <1>12, <1>14, <2>1
    <2>2. CASE y # p
      <3>1. Covers(store[y], given, y, since, clock)
        BY <1>1, <1>12, <2>2 DEF RInv, StoreCovers
      <3> QED
        BY <1>12, <1>14, <2>2, <3>1
    <2> QED
      BY <2>1, <2>2
  <1>19. SeenCovers' /\ OwedCovers'
    BY <1>11 DEF SeenCovers, OwedCovers, Locking
  <1> QED
    BY <1>14, <1>16, <1>17, <1>18, <1>19 DEF RInv


\* The rate limit in a file writes its list, whether it allows or not.
LEMMA FileRateLimitStep ==
  ASSUME IInv, RInv, NEW t \in Threads, FileRateLimit(t)
  PROVE  RInv'
  <1> DEFINE d == FileRateDecision(seen[t], req[t])
  <1>1. pc[t] = "read" /\ pc[t] \in Locking /\ ~Counting
    BY DEF FileRateLimit, Counting, RateKinds, Locking
  <1>2. CASE WriteFails(t)
    BY <1>1, <1>2, RateDenialKeeps DEF WriteFails
  <1>3. CASE WriteState(t, d)
    <2>1. /\ store' = [store EXCEPT ![File] = d.state]
          /\ seen' = [seen EXCEPT ![t] = d.state]
          /\ allowing' = [allowing EXCEPT ![t] = d.allowed]
          /\ pc' = [pc EXCEPT ![t] = "written"]
          /\ UNCHANGED <<provider, req, clock, since, given>>
      BY <1>3 DEF WriteState
    <2>2. /\ req[t] \in Requests /\ clock \in Nat /\ since \in Nat /\ File \in Accounts /\ File \notin Procs
          /\ seen[t] \in States /\ seen \in [Threads -> States]
          /\ store \in [Accounts -> States \cup {Corrupt}] /\ \A q \in Procs : store[q] \in States
          /\ given \in Seq(Given) /\ allowing \in [Threads -> BOOLEAN]
      BY <1>1, LimitsAssumption DEF IInv, Typed, RInv, RateTyped, Accounts
    <2>3. Keeps(d, seen[t], req[t].now, clock)
      <3>1. req[t].now <= clock
        BY <1>1 DEF RInv, AskedBefore
      <3> QED
        BY <2>2, <3>1, RateDecisionsKeep
    <2>4. Covers(seen[t], given, File, since, clock)
      BY <1>1 DEF RInv, SeenCovers
    <2> HIDE DEF d
    <2>5. /\ d.allowed \in BOOLEAN /\ d.state \in States
          /\ Covers(d.state, given, File, since, clock)
          /\ d.allowed => \A to \in Nat :
               Covers(d.state, Append(given, Gift(File, since + req[t].now, to)), File, since, clock)
      BY <2>2, <2>3, <2>4 DEF Keeps
    <2>6. PICK new, allowed : new = d.state /\ allowed = d.allowed
      OBVIOUS
    <2>7. /\ store' \in [Accounts -> States \cup {Corrupt}] /\ store'[File] = new
          /\ \A y \in Accounts : y # File => store'[y] = store[y]
      BY <2>1, <2>2, <2>5, <2>6
    <2>8. seen' \in [Threads -> States] /\ seen'[t] = new
      BY <2>1, <2>2, <2>5, <2>6
    <2>9. allowing'[t] = allowed
      BY <2>1, <2>2, <2>6
    <2>10. /\ pc' \in [Threads -> {"idle", "asked"} \cup Locking] /\ pc'[t] = "written"
           /\ \A u \in Threads : u # t => pc'[u] = pc[u]
      BY <2>1 DEF IInv, Typed, Locking
    <2>11. \A u \in Threads : pc'[u] \in Locking => u = t
      BY <1>1, <2>10 DEF IInv, Alone
    <2>12. ~Counting'
      BY <1>1, <2>1 DEF Counting
    <2>13. RateTyped'
      BY <2>1, <2>2, <2>7, <2>8, <2>12 DEF RInv, RateTyped, Accounts
    <2>14. AskedBefore'
      BY <1>1, <2>1, <2>10 DEF RInv, AskedBefore
    <2>15. StoreCovers'
      <3> SUFFICES ASSUME NEW y \in Accounts, store'[y] # Corrupt
                   PROVE  Covers(store'[y], given, y, since, clock)
        BY <2>1 DEF StoreCovers, Accounts
      <3>1. CASE y = File
        BY <2>5, <2>6, <2>7, <3>1
      <3>2. CASE y # File
        BY <1>1, <2>7, <3>2 DEF RInv, StoreCovers
      <3> QED
        BY <3>1, <3>2
    <2>16. SeenCovers'
      BY <2>10, <2>11 DEF SeenCovers, Locking
    <2>17. OwedCovers'
      <3>1. \A to \in Nat : allowed =>
              Covers(new, Append(given, Gift(File, since + req[t].now, to)), File, since, clock)
        BY <2>5, <2>6
      <3>2. \A u \in Threads : pc'[u] = "written" => u = t
        BY <2>11 DEF Locking
      <3> QED
        BY <2>1, <2>7, <2>8, <2>9, <3>1, <3>2 DEF OwedCovers
    <2>18. GivenFits'
      BY <2>1 DEF RInv, GivenFits
    <2> QED
      BY <2>13, <2>14, <2>15, <2>16, <2>17, <2>18 DEF RInv
  <1> QED
    BY <1>2, <1>3 DEF FileRateLimit

\* The answer that the list on the disk was written for.
LEMMA UnlockStep ==
  ASSUME IInv, RInv, ~Counting, NEW t \in Threads, Unlock(t)
  PROVE  RInv'
  <1>1. pc[t] = "written" /\ pc[t] \in Locking /\ Answer(t, allowing[t])
        /\ UNCHANGED <<provider, store, clock>>
    BY DEF Unlock, Locking
  <1>2. allowing[t] \in BOOLEAN
    BY DEF IInv, Typed
  <1>3. CASE ~allowing[t]
    <2>1. Answer(t, FALSE)
      BY <1>1, <1>2, <1>3
    <2> QED
      BY <1>1, <2>1, RateDenialKeeps
  <1>4. CASE allowing[t]
    <2>1. Answer(t, TRUE)
      BY <1>1, <1>2, <1>4
    <2>2. Account(ProcOf[t]) = File /\ File \in Accounts /\ req[t] \in Requests
          /\ \A u \in Threads : pc[u] \in Locking => u = t
      BY <1>1 DEF IInv, Typed, Alone, Account, Durable, Accounts, Locking
    <2>3. /\ seen \in [Threads -> States] /\ seen[t] \in States /\ given \in Seq(Given)
          /\ store \in [Accounts -> States \cup {Corrupt}] /\ \A q \in Procs : store[q] \in States
          /\ since \in Nat
      BY DEF RInv, RateTyped
    <2>4. /\ store[File] # Corrupt => store[File] = seen[t]
          /\ \A to \in Nat :
               Covers(seen[t], Append(given, Gift(File, since + req[t].now, to)), File, since, clock)
      BY <1>1, <1>4 DEF RInv, OwedCovers
    <2>5. PICK s : s = seen[t]
      OBVIOUS
    <2>6. /\ given' \in Seq(Given) /\ GivenFits' /\ since' = since
          /\ Covers(s, given', File, since, clock)
          /\ \A r : \A y \in Accounts : y # File /\ Covers(r, given, y, since, clock) =>
               Covers(r, given', y, since, clock)
      BY <1>1, <2>1, <2>2, <2>3, <2>4, <2>5, GivingKeeps
    <2>7. /\ pc'[t] = "idle"
          /\ \A u \in Threads : u # t =>
               pc'[u] = pc[u] /\ req'[u] = req[u] /\ allowing'[u] = allowing[u] /\ seen'[u] = seen[u]
      BY <2>1, AnswerLeaves DEF IInv
    <2>8. \A u \in Threads : pc'[u] \notin Locking
      BY <2>2, <2>7 DEF Locking
    <2>9. seen' \in [Threads -> States]
      <3>1. seen' = [seen EXCEPT ![t] = Empty] /\ Empty \in States
        BY <2>1, NothingPaid DEF Answer
      <3> QED
        BY <2>3, <3>1
    <2>10. ~Counting'
      BY <1>1 DEF Counting
    <2>11. RateTyped'
      BY <1>1, <2>3, <2>6, <2>9, <2>10 DEF RateTyped, Accounts
    <2>12. AskedBefore'
      BY <1>1, <2>7 DEF RInv, AskedBefore
    <2>13. StoreCovers'
      <3> SUFFICES ASSUME NEW y \in Accounts, store[y] # Corrupt
                   PROVE  Covers(store[y], given', y, since, clock)
        BY <1>1, <2>6 DEF StoreCovers, Accounts
      <3>1. CASE y = File
        BY <2>4, <2>5, <2>6, <3>1
      <3>2. CASE y # File
        <4>1. Covers(store[y], given, y, since, clock)
          BY DEF RInv, StoreCovers
        <4> QED
          BY <2>6, <3>2, <4>1
      <3> QED
        BY <3>1, <3>2
    <2>14. SeenCovers' /\ OwedCovers'
      BY <2>8 DEF SeenCovers, OwedCovers, Locking
    <2> QED
      BY <2>6, <2>11, <2>12, <2>13, <2>14 DEF RInv
  <1> QED
    BY <1>2, <1>3, <1>4

\* The clock is read when the call enters.
LEMMA AskStep ==
  ASSUME IInv, RInv, ~Counting, NEW t \in Threads, Ask(t)
  PROVE  RInv'
  <1>1. /\ pc[t] = "idle" /\ pc' = [pc EXCEPT ![t] = "asked"]
        /\ UNCHANGED <<provider, store, seen, allowing, clock, since, given>>
    BY DEF Ask
  <1>2. PICK r : req' = [req EXCEPT ![t] = r] /\ r.now = clock
    <2>1. PICK a \in Actions, spend \in Spends \cup {NoSpend} :
            req' = [req EXCEPT ![t] = [action |-> a, spend |-> spend, now |-> clock]]
      BY DEF Ask
    <2>2. PICK r : r = [action |-> a, spend |-> spend, now |-> clock]
      OBVIOUS
    <2>3. r.now = clock /\ req' = [req EXCEPT ![t] = r]
      BY <2>1, <2>2
    <2> QED
      BY <2>3
  <1>3. pc'[t] = "asked" /\ \A u \in Threads : u # t => pc'[u] = pc[u]
    BY <1>1 DEF IInv, Typed
  <1>4. req'[t] = r /\ \A u \in Threads : u # t => req'[u] = req[u]
    BY <1>2 DEF IInv, Typed
  <1>5. RateTyped'
    BY <1>1 DEF RInv, RateTyped, Counting, Accounts
  <1>6. AskedBefore'
    <2>1. clock \in Nat /\ clock' = clock
      BY <1>1 DEF IInv, Typed
    <2> QED
      BY <1>2, <1>3, <1>4, <2>1 DEF RInv, AskedBefore
  <1>7. StoreCovers'
    BY <1>1 DEF RInv, StoreCovers, Accounts
  <1>8. SeenCovers'
    BY <1>1, <1>3 DEF RInv, SeenCovers
  <1>9. OwedCovers'
    BY <1>1, <1>3, <1>4 DEF RInv, OwedCovers
  <1>10. GivenFits'
    BY <1>1 DEF RInv, GivenFits
  <1> QED
    BY <1>5, <1>6, <1>7, <1>8, <1>9, <1>10 DEF RInv

LEMMA LockStateStep ==
  ASSUME IInv, RInv, ~Counting, NEW t \in Threads, LockState(t)
  PROVE  RInv'
  <1>1. /\ pc[t] = "asked" /\ pc' = [pc EXCEPT ![t] = "locked"]
        /\ UNCHANGED <<provider, store, req, seen, allowing, clock, since, given>>
    BY DEF LockState, Enter
  <1>2. pc'[t] = "locked" /\ \A u \in Threads : u # t => pc'[u] = pc[u]
    BY <1>1 DEF IInv, Typed
  <1>3. RateTyped' /\ GivenFits'
    BY <1>1 DEF RInv, RateTyped, GivenFits, Counting, Accounts
  <1>4. AskedBefore' /\ SeenCovers'
    BY <1>1, <1>2 DEF RInv, AskedBefore, SeenCovers
  <1>5. StoreCovers'
    BY <1>1 DEF RInv, StoreCovers, Accounts
  <1>6. OwedCovers'
    BY <1>1, <1>2 DEF RInv, OwedCovers
  <1> QED
    BY <1>3, <1>4, <1>5, <1>6 DEF RInv

\* What is read covers what the file covers.
LEMMA ReadStateStep ==
  ASSUME IInv, RInv, ~Counting, NEW t \in Threads, ReadState(t)
  PROVE  RInv'
  <1>1. /\ pc[t] = "locked" /\ pc[t] \in Locking /\ store[File] # Corrupt /\ File \in Accounts
        /\ seen' = [seen EXCEPT ![t] = store[File]]
        /\ pc' = [pc EXCEPT ![t] = "read"]
        /\ UNCHANGED <<provider, store, req, allowing, clock, since, given>>
    BY DEF ReadState, Locking, Accounts
  <1>2. /\ pc' \in [Threads -> {"idle", "asked"} \cup Locking] /\ pc'[t] = "read"
        /\ \A u \in Threads : u # t => pc'[u] = pc[u]
    BY <1>1 DEF IInv, Typed, Locking
  <1>3. \A u \in Threads : pc'[u] \in Locking => u = t
    BY <1>1, <1>2 DEF IInv, Alone
  <1>4. seen' \in [Threads -> States] /\ seen'[t] = store[File]
    BY <1>1 DEF RInv, RateTyped
  <1>5. RateTyped' /\ GivenFits'
    BY <1>1, <1>4 DEF RInv, RateTyped, GivenFits, Counting, Accounts
  <1>6. AskedBefore'
    BY <1>1, <1>2 DEF RInv, AskedBefore
  <1>7. StoreCovers'
    BY <1>1 DEF RInv, StoreCovers, Accounts
  <1>8. SeenCovers'
    <2>1. Covers(store[File], given, File, since, clock)
      BY <1>1 DEF RInv, StoreCovers
    <2>2. \A u \in Threads : pc'[u] = "read" => u = t
      BY <1>3 DEF Locking
    <2> QED
      BY <1>1, <1>4, <2>1, <2>2 DEF SeenCovers
  <1>9. OwedCovers'
    BY <1>2, <1>3 DEF OwedCovers, Locking
  <1> QED
    BY <1>5, <1>6, <1>7, <1>8, <1>9 DEF RInv

LEMMA DamageStep ==
  ASSUME IInv, RInv, ~Counting, Damage
  PROVE  RInv'
  <1>1. /\ store' = [store EXCEPT ![File] = Corrupt] /\ File \in Accounts /\ File \notin Procs
        /\ UNCHANGED <<provider, pc, req, seen, allowing, clock, since, given>>
    BY LimitsAssumption DEF Damage, Accounts
  <1>2. /\ store' \in [Accounts -> States \cup {Corrupt}] /\ store'[File] = Corrupt
        /\ \A y \in Accounts : y # File => store'[y] = store[y]
    BY <1>1 DEF RInv, RateTyped
  <1>3. RateTyped' /\ GivenFits'
    BY <1>1, <1>2 DEF RInv, RateTyped, GivenFits, Counting, Accounts
  <1>4. AskedBefore' /\ SeenCovers'
    BY <1>1 DEF RInv, AskedBefore, SeenCovers
  <1>5. StoreCovers'
    BY <1>1, <1>2 DEF RInv, StoreCovers, Accounts
  <1>6. OwedCovers'
    BY <1>1, <1>2 DEF RInv, OwedCovers
  <1> QED
    BY <1>3, <1>4, <1>5, <1>6 DEF RInv

\* As time passes, less is in the window; a stutter changes nothing.
LEMMA LaterStep ==
  ASSUME IInv, RInv, ~Counting, clock' \in Nat, clock <= clock',
         UNCHANGED <<provider, store, pc, req, seen, allowing, since, given>>
  PROVE  RInv'
  <1>1. PICK c, d, o, g : c = clock /\ d = clock' /\ o = since /\ g = given
    OBVIOUS
  <1>2. /\ c \in Nat /\ d \in Nat /\ o \in Nat /\ c <= d /\ g \in Seq(Given)
        /\ store \in [Accounts -> States \cup {Corrupt}] /\ seen \in [Threads -> States]
    BY <1>1 DEF IInv, Typed, RInv, RateTyped
  <1>3. \A x : \A s \in States : \A h \in Seq(Given) : Covers(s, h, x, o, c) => Covers(s, h, x, o, d)
    <2>1. o <= o /\ o + c <= o + d
      BY <1>2
    <2> QED
      BY <1>2, <2>1, CoversLater
  <1>4. RateTyped' /\ GivenFits'
    BY DEF RInv, RateTyped, GivenFits, Counting, Accounts
  <1>5. AskedBefore'
    <2>1. \A t \in Threads : pc[t] # "idle" => req[t].now \in Nat /\ req[t].now <= c
      BY <1>1 DEF IInv, Typed, RInv, AskedBefore, Requests
    <2> QED
      BY <1>1, <1>2, <2>1 DEF AskedBefore
  <1>6. StoreCovers'
    <2> SUFFICES ASSUME NEW x \in Accounts, store[x] # Corrupt PROVE Covers(store[x], g, x, o, d)
      BY <1>1 DEF StoreCovers, Accounts
    <2>1. store[x] \in States /\ Covers(store[x], g, x, o, c)
      BY <1>1, <1>2 DEF RInv, StoreCovers
    <2> QED
      BY <1>2, <1>3, <2>1
  <1>7. SeenCovers'
    <2> SUFFICES ASSUME NEW t \in Threads, pc[t] = "read" PROVE Covers(seen[t], g, File, o, d)
      BY <1>1 DEF SeenCovers
    <2>1. seen[t] \in States /\ Covers(seen[t], g, File, o, c)
      BY <1>1, <1>2 DEF RInv, SeenCovers
    <2> QED
      BY <1>2, <1>3, <2>1
  <1>8. OwedCovers'
    <2> SUFFICES ASSUME NEW t \in Threads, pc[t] = "written"
                 PROVE  /\ store[File] # Corrupt => store[File] = seen[t]
                        /\ allowing[t] => \A to \in Nat :
                             Covers(seen[t], Append(g, Gift(File, o + req[t].now, to)), File, o, d)
      BY <1>1 DEF OwedCovers
    <2>1. /\ store[File] # Corrupt => store[File] = seen[t]
          /\ allowing[t] => \A to \in Nat :
               Covers(seen[t], Append(g, Gift(File, o + req[t].now, to)), File, o, c)
      BY <1>1 DEF RInv, OwedCovers
    <2>2. seen[t] \in States /\ req[t].now \in Nat
      BY <1>2 DEF IInv, Typed, Requests
    <2>3. \A to \in Nat : Append(g, Gift(File, o + req[t].now, to)) \in Seq(Given)
      <3> SUFFICES ASSUME NEW to \in Nat PROVE Append(g, Gift(File, o + req[t].now, to)) \in Seq(Given)
        OBVIOUS
      <3>1. PICK e : e = Gift(File, o + req[t].now, to)
        OBVIOUS
      <3>2. e \in Given
        BY <1>2, <2>2, <3>1 DEF Gift, Given, Accounts
      <3> QED
        BY <1>2, <3>1, <3>2
    <2> QED
      BY <1>3, <2>1, <2>2, <2>3
  <1> QED
    BY <1>4, <1>5, <1>6, <1>7, <1>8 DEF RInv

\* Processes that die forget what they allowed. A clock that starts anew
\* takes what the file holds for later than it was, and drops none sooner.
LEMMA RestartStep ==
  ASSUME IInv, RInv, ~Counting, NEW ps \in SUBSET Procs, Restart(ps), clock' \in Nat, since' \in Nat,
         \/ since' = since /\ clock' = clock
         \/ since' = since + clock /\ clock' = 0 /\ ps = Procs
  PROVE  RInv'
  <1>1. /\ pc' = [t \in Threads |-> IF ProcOf[t] \in ps THEN "idle" ELSE pc[t]]
        /\ req' = [t \in Threads |-> IF ProcOf[t] \in ps THEN NoRequest ELSE req[t]]
        /\ seen' = [t \in Threads |-> IF ProcOf[t] \in ps THEN Empty ELSE seen[t]]
        /\ allowing' = [t \in Threads |-> IF ProcOf[t] \in ps THEN FALSE ELSE allowing[t]]
        /\ store' = [x \in Accounts |-> IF x \in ps THEN Empty ELSE store[x]]
        /\ given' = Picked(given, {i \in DOMAIN given : given[i].account \notin ps})
        /\ provider' = provider
    BY DEF Restart
  <1>2. PICK g, h, c, d, o, p : /\ g = given /\ h = given' /\ c = clock /\ d = clock'
                                /\ o = since /\ p = since'
    OBVIOUS
  <1>3. /\ c \in Nat /\ d \in Nat /\ o \in Nat /\ p \in Nat /\ o <= p /\ o + c <= p + d
        /\ g \in Seq(Given) /\ AllWindows(g)
        /\ store \in [Accounts -> States \cup {Corrupt}] /\ \A q \in Procs : store[q] \in States
        /\ seen \in [Threads -> States] /\ File \notin ps /\ File \in Accounts
        /\ Empty \in States /\ Len(Empty.attempts) <= Limit
    <2>1. Empty \in States /\ Len(Empty.attempts) = 0 /\ Limit \in Nat
      BY NothingPaid, LimitsAssumption DEF Empty
    <2>2. c \in Nat /\ d \in Nat /\ o \in Nat /\ p \in Nat
      BY <1>2 DEF IInv, Typed, RInv, RateTyped
    <2>3. o <= p /\ o + c <= p + d
      <3>1. (p = o /\ d = c) \/ (p = o + c /\ d = 0)
        BY <1>2
      <3> QED
        BY <2>2, <3>1
    <2>4. File \notin ps /\ File \in Accounts
      BY LimitsAssumption DEF Accounts
    <2>5. /\ store \in [Accounts -> States \cup {Corrupt}] /\ \A q \in Procs : store[q] \in States
          /\ seen \in [Threads -> States] /\ given \in Seq(Given) /\ AllWindows(given)
      BY DEF RInv, RateTyped, GivenFits
    <2>6. Len(Empty.attempts) <= Limit
      BY <2>1
    <2> QED
      BY <1>2, <2>1, <2>2, <2>3, <2>4, <2>5, <2>6
  <1> DEFINE S == {i \in DOMAIN g : g[i].account \notin ps}
  <1>4. S \subseteq DOMAIN g /\ h = Picked(g, S)
    BY <1>1, <1>2
  <1>5. \A i \in S : g[i].account \notin ps
    OBVIOUS
  <1> HIDE DEF S
  <1>6. /\ h \in Seq(Given)
        /\ \A i \in DOMAIN h : \E j \in S : h[i] = g[j]
        /\ AllWindows(h)
        /\ \A x : \A at \in Int :
             /\ Cardinality(Since(h, x, at)) <= Cardinality(Since(g, x, at))
             /\ Cardinality(Since(h, x, at)) \in Nat /\ Cardinality(Since(g, x, at)) \in Nat
    BY <1>3, <1>4, FewerGiven
  <1>7. \A i \in DOMAIN h : h[i].account \notin ps
    BY <1>5, <1>6
  <1>8. ~Counting'
    BY <1>1 DEF Counting
  <1>9. RateTyped'
    <2>1. store' \in [Accounts -> States \cup {Corrupt}]
      BY <1>1, <1>3
    <2>2. \A q \in Procs : store'[q] \in States
      BY <1>1, <1>3 DEF Accounts
    <2>3. seen' \in [Threads -> States]
      BY <1>1, <1>3
    <2>4. given' \in Seq(Given)
      BY <1>2, <1>6
    <2> QED
      BY <1>8, <2>1, <2>2, <2>3, <2>4 DEF RateTyped, Accounts
  <1>10. GivenFits'
    BY <1>2, <1>6 DEF GivenFits
  <1>11. \A x : \A r \in States :
           /\ Covers(r, g, x, o, c) => Covers(r, h, x, p, d)
           /\ \A e \in Given : Covers(r, Append(g, e), x, o, c) => Covers(r, Append(h, e), x, p, d)
    <2> SUFFICES ASSUME NEW r \in States, NEW x
                 PROVE  /\ Covers(r, g, x, o, c) => Covers(r, h, x, p, d)
                        /\ \A e \in Given : Covers(r, Append(g, e), x, o, c) =>
                             Covers(r, Append(h, e), x, p, d)
      OBVIOUS
    <2>1. /\ Covers(r, g, x, o, c) => Covers(r, h, x, o, c)
          /\ \A e \in Given : Covers(r, Append(g, e), x, o, c) => Covers(r, Append(h, e), x, o, c)
      <3>1. c \in Int /\ o \in Int
        BY <1>3
      <3> QED
        BY <1>3, <1>6, <3>1, FewerCovered
    <2>2. Covers(r, h, x, o, c) => Covers(r, h, x, p, d)
      BY <1>3, <1>6, CoversLater
    <2>3. \A e \in Given : Covers(r, Append(h, e), x, o, c) => Covers(r, Append(h, e), x, p, d)
      <3> SUFFICES ASSUME NEW e \in Given, Covers(r, Append(h, e), x, o, c)
                   PROVE  Covers(r, Append(h, e), x, p, d)
        OBVIOUS
      <3>1. Append(h, e) \in Seq(Given)
        BY <1>6
      <3> QED
        BY <1>3, <3>1, CoversLater
    <2> QED
      BY <2>1, <2>2, <2>3
  <1>12. StoreCovers'
    <2> SUFFICES ASSUME NEW x \in Accounts, store'[x] # Corrupt
                 PROVE  Covers(store'[x], h, x, p, d)
      BY <1>2 DEF StoreCovers, Accounts
    <2>1. CASE x \in ps
      <3>1. Covers(Empty, h, x, p, d)
        <4>1. \A i \in DOMAIN h : h[i].account # x
          BY <1>7, <2>1
        <4>2. p \in Int
          BY <1>3
        <4> QED
          BY <1>3, <4>1, <4>2, CoversNothing
      <3> QED
        BY <1>1, <2>1, <3>1
    <2>2. CASE x \notin ps
      <3>1. store'[x] = store[x] /\ store[x] \in States
        BY <1>1, <1>3, <2>2
      <3>2. Covers(store[x], g, x, o, c)
        BY <1>2, <3>1 DEF RInv, StoreCovers
      <3> QED
        BY <1>11, <3>1, <3>2
    <2> QED
      BY <2>1, <2>2
  <1>13. CASE since' = since /\ clock' = clock
    <2>1. AskedBefore'
      BY <1>1, <1>13 DEF RInv, AskedBefore
    <2>2. SeenCovers'
      <3> SUFFICES ASSUME NEW t \in Threads, pc'[t] = "read"
                   PROVE  Covers(seen'[t], h, File, p, d)
        BY <1>2 DEF SeenCovers
      <3>1. seen'[t] = seen[t] /\ pc[t] = "read"
        BY <1>1
      <3>2. Covers(seen[t], g, File, o, c) /\ seen[t] \in States
        BY <1>2, <1>3, <3>1 DEF RInv, SeenCovers
      <3> QED
        BY <1>11, <3>1, <3>2
    <2>3. OwedCovers'
      <3> SUFFICES ASSUME NEW t \in Threads, pc'[t] = "written"
                   PROVE  /\ store'[File] # Corrupt => store'[File] = seen'[t]
                          /\ allowing'[t] => \A to \in Nat :
                               Covers(seen'[t], Append(h, Gift(File, p + req'[t].now, to)), File, p, d)
        BY <1>2 DEF OwedCovers
      <3>1. /\ seen'[t] = seen[t] /\ pc[t] = "written" /\ req'[t] = req[t] /\ allowing'[t] = allowing[t]
            /\ store'[File] = store[File] /\ p = o
        BY <1>1, <1>2, <1>3, <1>13
      <3>2. req[t].now \in Nat /\ seen[t] \in States
        BY <1>3, <3>1 DEF IInv, Typed, Requests
      <3>3. /\ store[File] # Corrupt => store[File] = seen[t]
            /\ allowing[t] => \A to \in Nat :
                 Covers(seen[t], Append(g, Gift(File, o + req[t].now, to)), File, o, c)
        BY <1>2, <3>1 DEF RInv, OwedCovers
      <3>4. \A to \in Nat : Gift(File, o + req[t].now, to) \in Given
        BY <1>3, <3>2 DEF Gift, Given
      <3>5. allowing[t] => \A to \in Nat :
              Covers(seen[t], Append(h, Gift(File, o + req[t].now, to)), File, p, d)
        BY <1>11, <3>2, <3>3, <3>4
      <3> QED
        BY <3>1, <3>3, <3>5
    <2> QED
      BY <1>9, <1>10, <1>12, <2>1, <2>2, <2>3 DEF RInv
  <1>14. CASE ps = Procs
    <2>1. \A t \in Threads : pc'[t] = "idle"
      BY <1>1, <1>14, LimitsAssumption
    <2>2. AskedBefore' /\ SeenCovers' /\ OwedCovers'
      BY <2>1 DEF AskedBefore, SeenCovers, OwedCovers
    <2> QED
      BY <1>9, <1>10, <1>12, <2>2 DEF RInv
  <1> QED
    BY <1>13, <1>14

LEMMA InitRInv == Init => RInv
  <1> SUFFICES ASSUME Init PROVE RInv
    OBVIOUS
  <1>1. /\ given = << >> /\ since = 0 /\ clock = 0
        /\ store = [x \in Accounts |-> Empty] /\ seen = [t \in Threads |-> Empty]
        /\ pc = [t \in Threads |-> "idle"]
    BY DEF Init
  <1>2. Empty \in States /\ Len(Empty.attempts) <= Limit
    <2>1. Empty \in States /\ Len(Empty.attempts) = 0 /\ Limit \in Nat
      BY NothingPaid, LimitsAssumption DEF Empty
    <2> QED
      BY <2>1
  <1>3. RateTyped
    BY <1>1, <1>2 DEF RateTyped, Accounts
  <1>4. AskedBefore /\ SeenCovers /\ OwedCovers
    BY <1>1 DEF AskedBefore, SeenCovers, OwedCovers
  <1>5. StoreCovers
    <2>1. \A x : Covers(Empty, << >>, x, 0, 0)
      BY <1>2, CoversNothing
    <2> QED
      BY <1>1, <2>1 DEF StoreCovers
  <1>7. AllWindows(<< >>)
    <2> SUFFICES ASSUME NEW x, NEW at PROVE Cardinality(InWindow(<< >>, x, at)) <= Limit
      BY DEF AllWindows
    <2>1. InWindow(<< >>, x, at) = {}
      BY DEF InWindow
    <2>2. Cardinality(InWindow(<< >>, x, at)) = 0
      BY <2>1, FS_EmptySet
    <2> QED
      BY <2>2, LimitsAssumption
  <1> QED
    BY <1>1, <1>3, <1>4, <1>5, <1>7 DEF RInv, GivenFits

\* What a step of a budget does to what the rate limits see.
LEMMA BudgetStep ==
  ASSUME RInv, IInv, Counting, [Next]_vars
  PROVE  RInv'
  <1>1. given = << >> /\ since \in Nat /\ clock \in Nat
    BY DEF RInv, RateTyped, IInv, Typed
  <1>2. ASSUME NEW t \in Threads, NEW allowed, Answer(t, allowed), provider' = provider
        PROVE  RInv'
    <2>1. given' = given /\ since' = since
      BY <1>2 DEF Answer, Counting
    <2> QED
      BY <1>1, <1>2, <2>1, BudgetsGiveNothing
  <1>3. ASSUME NEW ps, Restart(ps), since' \in Nat PROVE RInv'
    <2>1. PICK S : S \subseteq DOMAIN << >> /\ given' = Picked(<< >>, S)
      BY <1>1, <1>3 DEF Restart
    <2>2. << >> \in Seq(Given) /\ Len(<< >>) = 0 /\ S = {}
      BY <2>1
    <2>3. given' \in Seq(Given) /\ Len(given') = Cardinality(S)
      <3>1. PICK s : s = << >>
        OBVIOUS
      <3>2. s \in Seq(Given) /\ S \subseteq DOMAIN s
        BY <2>1, <3>1
      <3>3. Picked(s, S) \in Seq(Given) /\ Len(Picked(s, S)) = Cardinality(S)
        BY <3>2, PickedType
      <3> QED
        BY <2>1, <3>1, <3>3
    <2>4. Len(given') = 0
      BY <2>2, <2>3, FS_EmptySet
    <2>5. given' = << >> /\ provider' = provider
      BY <1>1, <1>3, <2>3, <2>4 DEF Restart
    <2> QED
      BY <1>3, <2>5, BudgetsGiveNothing
  <1>4. ASSUME UNCHANGED <<provider, since, given>> PROVE RInv'
    BY <1>1, <1>4, BudgetsGiveNothing
  <1>5. ASSUME NEW t \in Threads, Step(t) PROVE RInv'
    <2>1. CASE Ask(t)
      BY <1>1, <1>4, <2>1 DEF Ask
    <2>2. CASE LockState(t) \/ ReadState(t)
      BY <1>1, <1>4, <2>2 DEF LockState, Enter, ReadState
    <2>3. CASE DenyUnpriced(t) \/ DenyUnavailable(t) \/ DenyCorrupt(t) \/ Unlock(t)
      BY <1>2, <2>3 DEF DenyUnpriced, DenyUnavailable, DenyCorrupt, Unlock
    <2>4. CASE Budget(t)
      BY <1>2, <2>4 DEF Budget, InMemory
    <2>5. CASE SpendingBudget(t)
      BY <1>2, <2>5 DEF SpendingBudget, InMemory
    <2>6. CASE RateLimit(t)
      BY <1>2, <2>6 DEF RateLimit, InMemory
    <2>7. ASSUME NEW kind, NEW d, InFile(t, kind, d) PROVE RInv'
      <3>1. CASE WriteState(t, d)
        BY <1>1, <1>4, <3>1 DEF WriteState
      <3>2. CASE WriteFails(t) \/ Deny(t)
        BY <1>2, <3>2 DEF WriteFails, Deny
      <3> QED
        BY <2>7, <3>1, <3>2 DEF InFile
    <2>8. CASE FileBudget(t) \/ FileSpendingBudget(t)
      BY <2>7, <2>8 DEF FileBudget, FileSpendingBudget
    <2>9. ~FileRateLimit(t)
      BY DEF FileRateLimit, Counting, RateKinds
    <2> QED
      BY <1>5, <2>1, <2>2, <2>3, <2>4, <2>5, <2>6, <2>8, <2>9 DEF Step
  <1>6. ASSUME NEW p \in Procs, Kill(p) PROVE RInv'
    BY <1>1, <1>3, <1>6 DEF Kill
  <1>7. CASE Reboot
    BY <1>1, <1>3, <1>7 DEF Reboot
  <1>8. CASE Damage \/ Tick \/ UNCHANGED vars
    BY <1>1, <1>4, <1>8 DEF Damage, Tick, vars
  <1> QED
    BY <1>5, <1>6, <1>7, <1>8 DEF Next

LEMMA NextRInv == IInv /\ RInv /\ [Next]_vars => RInv'
  <1> SUFFICES ASSUME IInv, RInv, [Next]_vars PROVE RInv'
    OBVIOUS
  <1>1. CASE Counting
    BY <1>1, BudgetStep
  <1>2. CASE ~Counting
    <2>1. clock \in Nat /\ since \in Nat /\ \A p \in Procs : {p} \in SUBSET Procs
      BY DEF IInv, Typed, RInv, RateTyped
    <2>2. ASSUME NEW t \in Threads, Step(t) PROVE RInv'
      <3>1. CASE Ask(t)
        BY <1>2, <3>1, AskStep
      <3>2. CASE DenyUnpriced(t) \/ DenyUnavailable(t) \/ DenyCorrupt(t)
        BY <1>2, <3>2, RateDenialKeeps DEF DenyUnpriced, DenyUnavailable, DenyCorrupt
      <3>3. CASE LockState(t)
        BY <1>2, <3>3, LockStateStep
      <3>4. CASE ReadState(t)
        BY <1>2, <3>4, ReadStateStep
      <3>5. CASE RateLimit(t)
        BY <3>5, RateLimitStep
      <3>6. CASE FileRateLimit(t)
        BY <3>6, FileRateLimitStep
      <3>7. CASE Unlock(t)
        BY <1>2, <3>7, UnlockStep
      <3>8. ~Budget(t) /\ ~SpendingBudget(t) /\ ~FileBudget(t) /\ ~FileSpendingBudget(t)
        BY <1>2 DEF Budget, SpendingBudget, InMemory, FileBudget, FileSpendingBudget, InFile,
                    Counting, RateKinds
      <3> QED
        BY <2>2, <3>1, <3>2, <3>3, <3>4, <3>5, <3>6, <3>7, <3>8 DEF Step
    <2>3. ASSUME NEW p \in Procs, Kill(p) PROVE RInv'
      <3>1. Restart({p}) /\ since' = since /\ clock' = clock
        BY <2>3 DEF Kill
      <3> QED
        BY <1>2, <2>1, <3>1, RestartStep
    <2>4. CASE Reboot
      <3>1. Restart(Procs) /\ since' = since + clock /\ clock' = 0 /\ Procs \in SUBSET Procs
        BY <2>4 DEF Reboot
      <3> QED
        BY <1>2, <2>1, <3>1, RestartStep
    <2>5. CASE Damage
      BY <1>2, <2>5, DamageStep
    <2>6. CASE Tick
      <3>1. /\ clock' \in Nat /\ clock <= clock'
            /\ UNCHANGED <<provider, store, pc, req, seen, allowing, since, given>>
        BY <2>1, <2>6 DEF Tick
      <3> QED
        BY <1>2, <3>1, LaterStep
    <2>7. CASE UNCHANGED vars
      <3>1. /\ clock' \in Nat /\ clock <= clock'
            /\ UNCHANGED <<provider, store, pc, req, seen, allowing, since, given>>
        BY <2>1, <2>7 DEF vars
      <3> QED
        BY <1>2, <3>1, LaterStep
    <2> QED
      BY <2>2, <2>3, <2>4, <2>5, <2>6, <2>7 DEF Next
  <1> QED
    BY <1>1, <1>2

-----------------------------------------------------------------------------
(* The types, which hold whoever goes on without the lock of the file.     *)

TInv ==
  /\ Typed
  /\ store \in [Accounts -> States \cup {Corrupt}] /\ \A p \in Procs : store[p] \in States
  /\ seen \in [Threads -> States]
  /\ given \in Seq(Given)
  /\ boots \in Nat /\ calls \in Nat /\ since \in Nat
  /\ lock \in Threads \cup {NoThread} /\ overlapped \in BOOLEAN
  /\ \A t \in Threads : pc[t] \in Locking => Price(provider.kind, req[t]) \in Nat

LEMMA InitTInv == Init => TInv
  <1> SUFFICES ASSUME Init PROVE TInv
    OBVIOUS
  <1>1. IInv /\ RInv
    BY InitIInv, InitRInv
  <1>2. Empty \in States
    BY NothingPaid
  <1>3. /\ store \in [Accounts -> States \cup {Corrupt}] /\ \A p \in Procs : store[p] \in States
        /\ seen \in [Threads -> States]
    BY <1>2 DEF Init, Accounts
  <1>4. \A t \in Threads : pc[t] \in Locking => Price(provider.kind, req[t]) \in Nat
    BY DEF Init, Locking
  <1> QED
    BY <1>1, <1>3, <1>4 DEF Init, TInv, IInv, RInv, RateTyped

\* What a decision gives to remember, and its answer.
Typical(d) == d.allowed \in BOOLEAN /\ d.state \in States

LEMMA DecisionsAreTypical ==
  ASSUME NEW s \in States, NEW r \in Requests, provider.perAction \in BOOLEAN
  PROVE  /\ Typical(BudgetDecision(s, r))
         /\ r.spend \in Nat => Typical(SpendingDecision(s, r))
         /\ Typical(RateDecision(s, r)) /\ Typical(FileRateDecision(s, r))
  <1>1. Typical(BudgetDecision(s, r))
    <2>1. Charge(s, r, 1) \in States
      BY ChargeIsPlus
    <2> QED
      BY <2>1 DEF Typical, BudgetDecision, Denied, Allowed
  <1>2. ASSUME r.spend \in Nat PROVE Typical(SpendingDecision(s, r))
    <2>1. Charge(s, r, r.spend) \in States
      BY <1>2, ChargeIsPlus
    <2> QED
      BY <2>1 DEF Typical, SpendingDecision, Denied, Allowed
  <1>3. Typical(RateDecision(s, r)) /\ Typical(FileRateDecision(s, r))
    <2>1. r.now \in Nat /\ r.now <= r.now
      BY DEF Requests
    <2>2. Keeps(RateDecision(s, r), s, r.now, r.now) /\ Keeps(FileRateDecision(s, r), s, r.now, r.now)
      BY <2>1, RateDecisionsKeep
    <2> QED
      BY <2>2 DEF Typical, Keeps
  <1> QED
    BY <1>1, <1>2, <1>3

\* An answer, whatever was written before it.
LEMMA AnswerTyped ==
  ASSUME TInv, NEW t \in Threads, pc[t] # "idle", NEW allowed \in BOOLEAN, Answer(t, allowed),
         allowed => Price(provider.kind, req[t]) \in Nat,
         store' \in [Accounts -> States \cup {Corrupt}], \A p \in Procs : store'[p] \in States,
         UNCHANGED <<provider, clock, boots, calls>>
  PROVE  TInv'
  <1>1. /\ pc' \in [Threads -> {"idle", "asked"} \cup Locking]
        /\ req' \in [Threads -> Requests \cup {NoRequest}]
        /\ allowing' \in [Threads -> BOOLEAN]
        /\ pc'[t] = "idle"
        /\ \A u \in Threads : u # t =>
             pc'[u] = pc[u] /\ req'[u] = req[u] /\ allowing'[u] = allowing[u] /\ seen'[u] = seen[u]
    BY AnswerLeaves DEF TInv
  <1>2. PICK x : x = Account(ProcOf[t])
    OBVIOUS
  <1>3. x \in Accounts /\ req[t] \in Requests /\ provider.perAction \in BOOLEAN /\ clock \in Nat
        /\ paid \in [Accounts -> Counts] /\ given \in Seq(Given) /\ since \in Nat
    BY <1>2, LimitsAssumption DEF TInv, Typed, Account, Accounts
  <1>4. seen' \in [Threads -> States]
    <2>1. seen' = [seen EXCEPT ![t] = Empty] /\ Empty \in States
      BY NothingPaid DEF Answer
    <2> QED
      BY <2>1 DEF TInv
  <1>5. paid' \in [Accounts -> Counts]
    <2>1. CASE allowed /\ provider.kind \notin RateKinds
      <3>1. paid' = [paid EXCEPT ![x] = Charged(paid[x], req[t], Cost(req[t]))]
        BY <1>2, <2>1 DEF Answer
      <3>2. Charged(paid[x], req[t], Cost(req[t])) =
              Plus(provider.perAction, paid[x], req[t].action, Price(provider.kind, req[t]))
        BY DEF Charged, Plus, Cost, Price
      <3>3. paid[x] \in Counts /\ req[t].action \in Actions
        BY <1>3 DEF Requests
      <3>4. Charged(paid[x], req[t], Cost(req[t])) \in Counts
        BY <1>3, <2>1, <3>2, <3>3, PlusType
      <3> QED
        BY <1>3, <3>1, <3>4
    <2>2. CASE ~(allowed /\ provider.kind \notin RateKinds)
      BY <1>3, <2>2 DEF Answer
    <2> QED
      BY <2>1, <2>2
  <1>6. given' \in Seq(Given)
    <2>1. PICK e : e = [account |-> x, from |-> since + req[t].now, to |-> since + clock]
      OBVIOUS
    <2>2. e \in Given
      BY <1>3, <2>1 DEF Given, Requests
    <2>3. given' = Append(given, e) \/ given' = given
      BY <1>2, <2>1 DEF Answer
    <2> QED
      BY <1>3, <2>2, <2>3
  <1>7. lock' \in Threads \cup {NoThread} /\ since' = since /\ overlapped' = overlapped
    BY DEF Answer, TInv
  <1>8. \A u \in Threads : pc'[u] \in Locking => Price(provider.kind, req'[u]) \in Nat
    BY <1>1 DEF TInv, Locking
  <1>9. Typed'
    BY <1>1, <1>5 DEF TInv, Typed
  <1> QED
    BY <1>3, <1>4, <1>6, <1>7, <1>8, <1>9 DEF TInv, Accounts

\* A denial that writes nothing.
LEMMA DenialTyped ==
  ASSUME TInv, NEW t \in Threads, pc[t] # "idle", Answer(t, FALSE),
         UNCHANGED <<provider, store, clock, boots, calls>>
  PROVE  TInv'
  <1>1. store' \in [Accounts -> States \cup {Corrupt}] /\ \A p \in Procs : store'[p] \in States
    BY DEF TInv
  <1> QED
    BY <1>1, AnswerTyped

LEMMA WriteTyped ==
  ASSUME TInv, NEW t \in Threads, pc[t] = "read", NEW d, Typical(d), WriteState(t, d)
  PROVE  TInv'
  <1>1. /\ store' = [store EXCEPT ![File] = d.state] /\ seen' = [seen EXCEPT ![t] = d.state]
        /\ allowing' = [allowing EXCEPT ![t] = d.allowed] /\ pc' = [pc EXCEPT ![t] = "written"]
        /\ UNCHANGED <<provider, req, lock, clock, boots, calls, since, paid, given, overlapped>>
    BY DEF WriteState
  <1>2. d.state \in States /\ d.allowed \in BOOLEAN /\ File \notin Procs
    BY LimitsAssumption DEF Typical
  <1>3. store' \in [Accounts -> States \cup {Corrupt}] /\ \A p \in Procs : store'[p] \in States
    BY <1>1, <1>2 DEF TInv, Accounts
  <1>4. seen' \in [Threads -> States] /\ allowing' \in [Threads -> BOOLEAN]
    BY <1>1, <1>2 DEF TInv, Typed
  <1>5. /\ pc' \in [Threads -> {"idle", "asked"} \cup Locking]
        /\ \A u \in Threads : (pc'[u] # "idle" => pc[u] # "idle")
                              /\ (pc'[u] \in Locking => pc[u] \in Locking)
    BY <1>1 DEF TInv, Typed, Locking
  <1>6. Typed'
    BY <1>1, <1>4, <1>5 DEF TInv, Typed
  <1> QED
    BY <1>1, <1>3, <1>4, <1>5, <1>6 DEF TInv, Accounts

LEMMA InMemoryTyped ==
  ASSUME TInv, NEW t \in Threads, NEW kind, NEW d, Typical(d), InMemory(t, kind, d),
         Price(kind, req[t]) \in Nat
  PROVE  TInv'
  <1>1. /\ pc[t] # "idle" /\ provider.kind = kind /\ store' = [store EXCEPT ![ProcOf[t]] = d.state]
        /\ Answer(t, d.allowed) /\ UNCHANGED <<provider, clock, boots, calls>>
    BY DEF InMemory
  <1>2. d.state \in States /\ d.allowed \in BOOLEAN /\ ProcOf[t] \in Procs
    BY LimitsAssumption DEF Typical
  <1>3. store' \in [Accounts -> States \cup {Corrupt}] /\ \A p \in Procs : store'[p] \in States
    BY <1>1, <1>2 DEF TInv, Accounts
  <1> QED
    BY <1>1, <1>2, <1>3, AnswerTyped

LEMMA InFileTyped ==
  ASSUME TInv, NEW t \in Threads, NEW kind, NEW d, Typical(d), InFile(t, kind, d)
  PROVE  TInv'
  <1>1. pc[t] = "read" /\ pc[t] # "idle"
    BY DEF InFile
  <1>2. CASE WriteState(t, d)
    BY <1>1, <1>2, WriteTyped
  <1>3. CASE WriteFails(t) \/ Deny(t)
    BY <1>1, <1>3, DenialTyped DEF WriteFails, Deny
  <1> QED
    BY <1>2, <1>3 DEF InFile

LEMMA RestartTyped ==
  ASSUME TInv, NEW ps \in SUBSET Procs, Restart(ps), clock' \in Nat, boots' \in Nat, since' \in Nat
  PROVE  TInv'
  <1>1. /\ pc' = [t \in Threads |-> IF ProcOf[t] \in ps THEN "idle" ELSE pc[t]]
        /\ req' = [t \in Threads |-> IF ProcOf[t] \in ps THEN NoRequest ELSE req[t]]
        /\ seen' = [t \in Threads |-> IF ProcOf[t] \in ps THEN Empty ELSE seen[t]]
        /\ allowing' = [t \in Threads |-> IF ProcOf[t] \in ps THEN FALSE ELSE allowing[t]]
        /\ store' = [x \in Accounts |-> IF x \in ps THEN Empty ELSE store[x]]
        /\ paid' = [x \in Accounts |-> IF x \in ps THEN NoCounts ELSE paid[x]]
        /\ given' = Picked(given, {i \in DOMAIN given : given[i].account \notin ps})
        /\ UNCHANGED <<provider, calls, overlapped>>
    BY DEF Restart
  <1>2. lock' \in Threads \cup {NoThread}
    BY DEF Restart, TInv
  <1>3. Empty \in States /\ NoCounts \in Counts
    BY NothingPaid
  <1>4. given' \in Seq(Given)
    BY <1>1, PickedType DEF TInv
  <1>5. /\ store' \in [Accounts -> States \cup {Corrupt}] /\ \A p \in Procs : store'[p] \in States
        /\ seen' \in [Threads -> States] /\ paid' \in [Accounts -> Counts]
    BY <1>1, <1>3 DEF TInv, Typed, Accounts
  <1>6. /\ pc' \in [Threads -> {"idle", "asked"} \cup Locking]
        /\ req' \in [Threads -> Requests \cup {NoRequest}]
        /\ allowing' \in [Threads -> BOOLEAN]
        /\ \A t \in Threads : pc'[t] # "idle" => pc'[t] = pc[t] /\ req'[t] = req[t]
    BY <1>1 DEF TInv, Typed
  <1>7. Typed'
    BY <1>1, <1>5, <1>6 DEF TInv, Typed
  <1>8. \A t \in Threads : pc'[t] \in Locking => Price(provider.kind, req'[t]) \in Nat
    BY <1>6 DEF TInv, Locking
  <1> QED
    BY <1>1, <1>2, <1>4, <1>5, <1>7, <1>8 DEF TInv, Accounts

LEMMA NextTInv == TInv /\ [Next]_vars => TInv'
  <1> SUFFICES ASSUME TInv, [Next]_vars PROVE TInv'
    OBVIOUS
  <1>1. /\ clock \in Nat /\ boots \in Nat /\ since \in Nat /\ calls \in Nat
        /\ provider.perAction \in BOOLEAN
    BY DEF TInv, Typed
  <1>2. ASSUME NEW t \in Threads, Step(t) PROVE TInv'
    <2>1. ASSUME pc[t] # "idle"
          PROVE  /\ req[t] \in Requests /\ store[ProcOf[t]] \in States /\ seen[t] \in States
                 /\ req[t].spend \in Spends \cup {NoSpend}
      BY <2>1, LimitsAssumption DEF TInv, Typed, Requests
    <2>2. ASSUME pc[t] # "idle", Priced(t) PROVE Price(provider.kind, req[t]) \in Nat
      BY <2>1, <2>2, LimitsAssumption DEF Priced, Price
    <2>3. CASE Ask(t)
      <3>1. PICK a \in Actions, spend \in Spends \cup {NoSpend} :
              req' = [req EXCEPT ![t] = [action |-> a, spend |-> spend, now |-> clock]]
        BY <2>3 DEF Ask
      <3>2. PICK r : r = [action |-> a, spend |-> spend, now |-> clock]
        OBVIOUS
      <3>3. r \in Requests
        BY <1>1, <3>2 DEF Requests
      <3>4. /\ pc' = [pc EXCEPT ![t] = "asked"] /\ calls' = calls + 1
            /\ UNCHANGED <<provider, store, seen, allowing, lock, clock, boots, since, paid, given, overlapped>>
        BY <2>3 DEF Ask
      <3>5. req' \in [Threads -> Requests \cup {NoRequest}] /\ req'[t] \in Requests
            /\ \A u \in Threads : u # t => req'[u] = req[u]
        BY <3>1, <3>2, <3>3 DEF TInv, Typed
      <3>6. /\ pc' \in [Threads -> {"idle", "asked"} \cup Locking] /\ pc'[t] = "asked"
            /\ \A u \in Threads : u # t => pc'[u] = pc[u]
        BY <3>4 DEF TInv, Typed
      <3>7. Typed'
        BY <3>4, <3>5, <3>6 DEF TInv, Typed
      <3>8. \A u \in Threads : pc'[u] \in Locking => Price(provider.kind, req'[u]) \in Nat
        BY <3>5, <3>6 DEF TInv, Locking
      <3> QED
        BY <1>1, <3>4, <3>7, <3>8 DEF TInv, Accounts
    <2>4. CASE DenyUnpriced(t) \/ DenyUnavailable(t) \/ DenyCorrupt(t)
      BY <2>4, DenialTyped DEF DenyUnpriced, DenyUnavailable, DenyCorrupt
    <2>5. CASE Budget(t)
      <3>1. pc[t] # "idle" /\ Price("Budget", req[t]) = 1
        BY <2>5 DEF Budget, InMemory, Price, SpendKinds
      <3> QED
        BY <1>1, <2>1, <2>5, <3>1, DecisionsAreTypical, InMemoryTyped DEF Budget
    <2>6. CASE SpendingBudget(t)
      <3>1. pc[t] # "idle" /\ Priced(t) /\ provider.kind = "SpendingBudget"
        BY <2>6 DEF SpendingBudget, InMemory
      <3>2. Price("SpendingBudget", req[t]) \in Nat /\ req[t].spend \in Nat
        BY <2>2, <3>1 DEF Price, SpendKinds
      <3> QED
        BY <1>1, <2>1, <2>6, <3>1, <3>2, DecisionsAreTypical, InMemoryTyped DEF SpendingBudget
    <2>7. CASE RateLimit(t)
      <3>1. pc[t] # "idle" /\ Price("RateLimit", req[t]) = 1
        BY <2>7 DEF RateLimit, InMemory, Price, SpendKinds
      <3> QED
        BY <1>1, <2>1, <2>7, <3>1, DecisionsAreTypical, InMemoryTyped DEF RateLimit
    <2>8. CASE LockState(t)
      <3>1. /\ pc[t] # "idle" /\ Priced(t) /\ lock' \in {lock, t}
            /\ pc' = [pc EXCEPT ![t] = "locked"] /\ overlapped' \in BOOLEAN
            /\ UNCHANGED <<provider, store, req, seen, allowing, clock, boots, calls, since, paid, given>>
        BY <2>8 DEF LockState, Enter
      <3>2. /\ pc' \in [Threads -> {"idle", "asked"} \cup Locking]
            /\ \A u \in Threads : u # t => pc'[u] = pc[u]
        BY <3>1 DEF TInv, Typed, Locking
      <3>3. Typed'
        BY <2>1, <3>1, <3>2 DEF TInv, Typed
      <3>4. \A u \in Threads : pc'[u] \in Locking => Price(provider.kind, req[u]) \in Nat
        BY <2>2, <3>1, <3>2 DEF TInv
      <3>5. lock' \in Threads \cup {NoThread}
        BY <3>1 DEF TInv
      <3> QED
        BY <3>1, <3>3, <3>4, <3>5 DEF TInv, Accounts
    <2>9. CASE ReadState(t)
      <3>1. /\ pc[t] = "locked" /\ store[File] # Corrupt /\ File \in Accounts
            /\ seen' = [seen EXCEPT ![t] = store[File]] /\ pc' = [pc EXCEPT ![t] = "read"]
            /\ UNCHANGED <<provider, store, req, allowing, lock, clock, boots, calls, since, paid, given, overlapped>>
        BY <2>9 DEF ReadState, Accounts
      <3>2. seen' \in [Threads -> States]
        BY <3>1 DEF TInv
      <3>3. /\ pc' \in [Threads -> {"idle", "asked"} \cup Locking]
            /\ \A u \in Threads : (pc'[u] # "idle" => pc[u] # "idle")
                                  /\ (pc'[u] \in Locking => pc[u] \in Locking)
        BY <3>1 DEF TInv, Typed, Locking
      <3>4. Typed'
        BY <3>1, <3>3 DEF TInv, Typed
      <3> QED
        BY <3>1, <3>2, <3>3, <3>4 DEF TInv, Accounts
    <2>10. CASE FileBudget(t)
      <3>1. pc[t] # "idle"
        BY <2>10 DEF FileBudget, InFile
      <3> QED
        BY <1>1, <2>1, <2>10, <3>1, DecisionsAreTypical, InFileTyped DEF FileBudget
    <2>11. CASE FileSpendingBudget(t)
      <3>1. pc[t] # "idle" /\ pc[t] \in Locking /\ provider.kind = "FileSpendingBudget"
        BY <2>11 DEF FileSpendingBudget, InFile, Locking
      <3>2. req[t].spend \in Nat
        BY <3>1 DEF TInv, Price, SpendKinds
      <3> QED
        BY <1>1, <2>1, <2>11, <3>1, <3>2, DecisionsAreTypical, InFileTyped DEF FileSpendingBudget
    <2>12. CASE FileRateLimit(t)
      <3>1. pc[t] = "read" /\ pc[t] # "idle"
        BY <2>12 DEF FileRateLimit
      <3>2. CASE WriteState(t, FileRateDecision(seen[t], req[t]))
        BY <1>1, <2>1, <3>1, <3>2, DecisionsAreTypical, WriteTyped
      <3>3. CASE WriteFails(t)
        BY <3>1, <3>3, DenialTyped DEF WriteFails
      <3> QED
        BY <2>12, <3>2, <3>3 DEF FileRateLimit
    <2>13. CASE Unlock(t)
      <3>1. /\ pc[t] # "idle" /\ pc[t] \in Locking /\ Answer(t, allowing[t])
            /\ UNCHANGED <<provider, store, clock, boots, calls>>
        BY <2>13 DEF Unlock, Locking
      <3>2. /\ allowing[t] \in BOOLEAN /\ Price(provider.kind, req[t]) \in Nat
            /\ store' \in [Accounts -> States \cup {Corrupt}] /\ \A p \in Procs : store'[p] \in States
        BY <3>1 DEF TInv, Typed
      <3> QED
        BY <3>1, <3>2, AnswerTyped
    <2> QED
      BY <1>2, <2>3, <2>4, <2>5, <2>6, <2>7, <2>8, <2>9, <2>10, <2>11, <2>12, <2>13 DEF Step
  <1>3. ASSUME NEW p \in Procs, Kill(p) PROVE TInv'
    BY <1>1, <1>3, RestartTyped DEF Kill
  <1>4. CASE Reboot
    BY <1>1, <1>4, RestartTyped DEF Reboot
  <1>5. CASE Damage
    <2>1. /\ store' = [store EXCEPT ![File] = Corrupt] /\ File \notin Procs
          /\ UNCHANGED <<provider, pc, req, seen, allowing, lock, clock, boots, calls, since, paid, given, overlapped>>
      BY <1>5, LimitsAssumption DEF Damage
    <2>2. store' \in [Accounts -> States \cup {Corrupt}] /\ \A p \in Procs : store'[p] \in States
      BY <2>1 DEF TInv, Accounts
    <2>3. Typed'
      BY <2>1 DEF TInv, Typed, Accounts
    <2> QED
      BY <2>1, <2>2, <2>3 DEF TInv, Accounts
  <1>6. CASE Tick \/ UNCHANGED vars
    <2>1. /\ clock' \in Nat
          /\ UNCHANGED <<provider, store, pc, req, seen, allowing, lock, boots, calls, since, paid, given, overlapped>>
      BY <1>1, <1>6 DEF Tick, vars
    <2>2. Typed'
      BY <2>1 DEF TInv, Typed, Accounts
    <2> QED
      BY <2>1, <2>2 DEF TInv, Accounts
  <1> QED
    BY <1>2, <1>3, <1>4, <1>5, <1>6 DEF Next

-----------------------------------------------------------------------------
(* The invariant: the types always, and what is counted for as long as two *)
(* threads were never inside beside each other.                            *)
Inv == TInv /\ (~overlapped => IInv /\ RInv)

LEMMA OverlapIsKept == TInv /\ [Next]_vars /\ ~overlapped' => ~overlapped
  <1> SUFFICES ASSUME TInv, [Next]_vars, ~overlapped' PROVE ~overlapped
    OBVIOUS
  <1>1. ASSUME NEW t \in Threads, NEW a, Answer(t, a) PROVE ~overlapped
    BY <1>1 DEF Answer
  <1>2. ASSUME NEW t \in Threads, Step(t) PROVE ~overlapped
    <2>1. CASE Ask(t) \/ ReadState(t)
      BY <2>1 DEF Ask, ReadState
    <2>2. CASE LockState(t)
      BY <2>2 DEF LockState, Enter
    <2>3. CASE DenyUnpriced(t) \/ DenyUnavailable(t) \/ DenyCorrupt(t) \/ Unlock(t)
      BY <1>1, <2>3 DEF DenyUnpriced, DenyUnavailable, DenyCorrupt, Unlock
    <2>4. CASE Budget(t) \/ SpendingBudget(t) \/ RateLimit(t)
      BY <1>1, <2>4 DEF Budget, SpendingBudget, RateLimit, InMemory
    <2>5. ASSUME NEW d, WriteState(t, d) \/ WriteFails(t) \/ Deny(t) PROVE ~overlapped
      BY <1>1, <2>5 DEF WriteState, WriteFails, Deny
    <2>6. CASE FileBudget(t) \/ FileSpendingBudget(t) \/ FileRateLimit(t)
      BY <2>5, <2>6 DEF FileBudget, FileSpendingBudget, FileRateLimit, InFile
    <2> QED
      BY <1>2, <2>1, <2>2, <2>3, <2>4, <2>6 DEF Step
  <1>3. CASE \E p \in Procs : Kill(p)
    BY <1>3 DEF Kill, Restart
  <1>4. CASE Tick \/ Reboot \/ Damage \/ UNCHANGED vars
    BY <1>4 DEF Tick, Reboot, Restart, Damage, vars
  <1> QED
    BY <1>2, <1>3, <1>4 DEF Next

(***************************************************************************)
(* The counts on record cover what was allowed; what a rate limit holds    *)
(* covers, of every moment of the current window of real time, all that it *)
(* allowed since and what it is about to allow, through every restart of   *)
(* the clock; and whoever is between its read and its answer is alone, for *)
(* as long as nobody without the lock came in beside another               *)
(* (_lock_exclusive). The inductive invariant.                             *)
(***************************************************************************)
THEOREM Invariance == Spec => []Inv
  <1>1. Init => Inv
    BY InitIInv, InitRInv, InitTInv DEF Inv
  <1>2. Inv /\ [Next]_vars => Inv'
    <2> SUFFICES ASSUME Inv, [Next]_vars PROVE Inv'
      OBVIOUS
    <2>1. TInv'
      BY NextTInv DEF Inv
    <2>2. ASSUME ~overlapped' PROVE IInv' /\ RInv'
      <3>1. IInv /\ RInv
        BY <2>2, OverlapIsKept DEF Inv
      <3> QED
        BY <2>2, <3>1, NextIInv, NextRInv
    <2> QED
      BY <2>1, <2>2 DEF Inv
  <1> QED
    BY <1>1, <1>2, PTL DEF Spec

(***************************************************************************)
(* No budget, of calls or of spending, per action or in total, in memory   *)
(* or in a file, ever allows more than its limit, for any threads and      *)
(* processes, wherever they are killed, as long as no thread that went on  *)
(* without the lock of the file was inside beside another (BudgetProvider, *)
(* FileBudgetProvider, SpendingBudgetProvider, FileSpendingBudgetProvider, *)
(* _lock_exclusive).                                                       *)
(***************************************************************************)
THEOREM BudgetsAlwaysHold == Spec => []BudgetHolds
  <1>1. Inv => BudgetHolds
    BY DEF Inv, IInv, PaidFits, BudgetHolds, Fits, Within
  <1> QED
    BY <1>1, Invariance, PTL

(***************************************************************************)
(* No window of real time holds more allowances than the limit, of the     *)
(* calls that begin and are answered in it, for any processes and threads, *)
(* any restarts of the host within the window, any damage to the file,     *)
(* under the same condition (RateLimitProvider, FileRateLimitProvider).    *)
(***************************************************************************)
THEOREM RatesAlwaysHold == Spec => []RateHolds
  <1>1. Inv => RateHolds
    <2> SUFFICES ASSUME Inv, ~overlapped, NEW x \in Accounts, NEW at \in -1..(since + clock)
                 PROVE  Cardinality(InWindow(given, x, at)) <= Limit
      BY DEF RateHolds, InWindow
    <2>1. at \in Int
      BY DEF Inv, TInv, Typed
    <2> QED
      BY <2>1 DEF Inv, RInv, GivenFits, AllWindows
  <1> QED
    BY <1>1, Invariance, PTL

(***************************************************************************)
(* Every state is well-formed, and whoever is inside decide() has its      *)
(* request and a state it could read (_read_json_state).                   *)
(***************************************************************************)
THEOREM TypesAlwaysHold == Spec => []TypeOK
  <1>1. Inv => TypeOK
    <2> SUFFICES ASSUME TInv PROVE TypeOK
      BY DEF Inv
    <2>1. pc \in [Threads -> {"idle", "asked", "locked", "read", "written"}]
      BY DEF TInv, Typed, Locking
    <2>2. \A t \in Threads : pc[t] # "idle" => req[t] # NoRequest
      BY RequestAssumption DEF TInv, Typed
    <2> QED
      BY <2>1, <2>2 DEF TInv, Typed, TypeOK
  <1> QED
    BY <1>1, Invariance, PTL
=============================================================================
