------------------------- MODULE JournalFileProofs -------------------------
(***************************************************************************)
(* The journal file, for any number of processes and appends and any       *)
(* faults: what an append does to what a reader finds, and why the index   *)
(* and the chain survive it.                                               *)
(***************************************************************************)
EXTENDS JournalFile, FiniteSetTheorems, WellFoundedInduction, TLAPS

Less == {ss \in Nat \X Nat : ss[1] < ss[2]}

\* Every non-empty set of naturals has a least member.
LEMMA LeastNatural ==
  ASSUME NEW S, S \subseteq Nat, S # {}
  PROVE  \E d \in S : \A e \in S : d <= e
  <1>1. IsWellFoundedOn(Less, Nat)
    BY NatLessThanWellFounded DEF OpToRel, Less
  <1>2. PICK d \in S : \A e \in S : ~ (<<e, d>> \in Less)
    BY <1>1, WFMin
  <1>3. ASSUME NEW e \in S PROVE d <= e
    <2>1. <<e, d>> \in Nat \X Nat /\ <<e, d>>[1] = e /\ <<e, d>>[2] = d
      OBVIOUS
    <2>2. ~(e < d)
      BY <1>2, <2>1, Zenon DEF Less
    <2> QED
      BY <2>2
  <1> QED
    BY <1>3

\* A bounded set of naturals that is not empty has a greatest member.
LEMMA GreatestNatural ==
  ASSUME NEW n \in Nat, NEW S, S \subseteq 0..n, S # {}
  PROVE  \E m \in S : \A i \in S : i <= m
  <1> DEFINE T == {n - i : i \in S}
  <1>1. T \subseteq Nat /\ T # {}
    <2>1. \A i \in S : n - i \in Nat
      OBVIOUS
    <2>2. T \subseteq Nat
      BY <2>1
    <2> QED
      BY <2>2
  <1>2. PICK t \in T : \A u \in T : t <= u
    BY <1>1, LeastNatural
  <1>3. PICK m \in S : t = n - m
    BY <1>2
  <1>4. \A i \in S : n - m <= n - i
    BY <1>2, <1>3
  <1> QED
    BY <1>4

-----------------------------------------------------------------------------
(* Places up to n: their ranks, the place of a rank, and what a later one  *)
(* changes.                                                                *)

PlacesUpTo(S, n) == n \in Nat /\ S \subseteq 1..n

Rank(S, i) == Cardinality({j \in S : j <= i})

LEMMA PlacesAreFinite ==
  ASSUME NEW S, NEW n, PlacesUpTo(S, n)
  PROVE  IsFiniteSet(S) /\ Cardinality(S) \in Nat
  <1>1. IsFiniteSet(1..n)
    BY FS_Interval DEF PlacesUpTo
  <1>2. IsFiniteSet(S)
    BY <1>1, FS_Subset DEF PlacesUpTo
  <1> QED
    BY <1>2, FS_CardinalityType

LEMMA RankInRange ==
  ASSUME NEW S, NEW n, PlacesUpTo(S, n), NEW i \in S
  PROVE  Rank(S, i) \in 1..Cardinality(S)
  <1> DEFINE T == {j \in S : j <= i}
  <1>1. IsFiniteSet(S) /\ Cardinality(S) \in Nat
    BY PlacesAreFinite
  <1>2. IsFiniteSet(T) /\ Cardinality(T) <= Cardinality(S)
    BY <1>1, FS_Subset
  <1>3. i \in T
    BY DEF PlacesUpTo
  <1>4. Cardinality(T) \in Nat /\ Cardinality(T) # 0
    BY <1>2, <1>3, FS_EmptySet, FS_CardinalityType
  <1> QED
    BY <1>1, <1>2, <1>4 DEF Rank

LEMMA RankGrows ==
  ASSUME NEW S, NEW n, PlacesUpTo(S, n), NEW i \in S, NEW k \in S, i < k
  PROVE  Rank(S, i) < Rank(S, k)
  <1> DEFINE T == {j \in S : j <= i}
             U == {j \in S : j <= k}
  <1>1. IsFiniteSet(S)
    BY PlacesAreFinite
  <1>2. IsFiniteSet(T) /\ IsFiniteSet(U)
    BY <1>1, FS_Subset
  <1>3. k \notin T /\ T \cup {k} \subseteq U
    <2>1. \A j \in S : j \in Nat
      BY DEF PlacesUpTo
    <2>2. k \notin T /\ k \in U /\ \A j \in T : j \in U
      BY <2>1
    <2> QED
      BY <2>2
  <1>4. Cardinality(T \cup {k}) = Cardinality(T) + 1
    BY <1>2, <1>3, FS_AddElement
  <1>5. Cardinality(T \cup {k}) <= Cardinality(U)
    BY <1>2, <1>3, FS_Subset
  <1>6. Cardinality(T) \in Nat /\ Cardinality(U) \in Nat
    BY <1>2, FS_CardinalityType
  <1> QED
    BY <1>4, <1>5, <1>6 DEF Rank

LEMMA NthOfRank ==
  ASSUME NEW S, NEW n, PlacesUpTo(S, n), NEW i \in S
  PROVE  Nth(S, Rank(S, i)) = i
  <1>1. i \in Nat /\ \A k \in S : k \in Nat
    BY DEF PlacesUpTo
  <1>2. ASSUME NEW k \in S, Rank(S, k) = Rank(S, i) PROVE k = i
    <2>1. Rank(S, i) \in Nat /\ Rank(S, k) \in Nat
      BY PlacesAreFinite, RankInRange
    <2>2. ~(i < k) /\ ~(k < i)
      BY <1>2, <2>1, RankGrows
    <2> QED
      BY <1>1, <2>2
  <1>3. PICK r : r = Rank(S, i)
    OBVIOUS
  <1>4. \A k \in S : Cardinality({j \in S : j <= k}) = r <=> k = i
    BY <1>2, <1>3 DEF Rank
  <1>5. (CHOOSE k \in S : Cardinality({j \in S : j <= k}) = r) = i
    BY <1>4
  <1> QED
    BY <1>3, <1>5 DEF Nth

\* Every rank is somebody's: an injection between finite sets of one size is onto.
LEMMA RankIsTaken ==
  ASSUME NEW S, NEW n, PlacesUpTo(S, n), NEW r \in 1..Cardinality(S)
  PROVE  \E i \in S : Rank(S, i) = r
  <1> DEFINE T == 1..Cardinality(S)
             f == [i \in S |-> Rank(S, i)]
  <1>1. IsFiniteSet(S) /\ Cardinality(S) \in Nat
    BY PlacesAreFinite
  <1>2. IsFiniteSet(T) /\ Cardinality(T) = Cardinality(S)
    BY <1>1, FS_Interval
  <1>3. f \in [S -> T]
    BY RankInRange
  <1>4. ASSUME NEW i \in S, NEW k \in S, i # k PROVE f[i] # f[k]
    <2>1. i < k \/ k < i
      BY <1>4 DEF PlacesUpTo
    <2>2. Rank(S, i) \in Nat /\ Rank(S, k) \in Nat
      BY <1>1, RankInRange
    <2>3. Rank(S, i) # Rank(S, k)
      BY <2>1, <2>2, RankGrows
    <2> QED
      BY <2>3
  <1>5. f \in Injection(S, T)
    BY <1>3, <1>4 DEF Injection, IsInjective
  <1>6. f \in Surjection(S, T)
    BY <1>2, <1>5, FS_Injection
  <1>7. \E i \in S : f[i] = r
    BY <1>6 DEF Surjection
  <1> QED
    BY <1>7

LEMMA NthIsMember ==
  ASSUME NEW S, NEW n, PlacesUpTo(S, n), NEW r \in 1..Cardinality(S)
  PROVE  Nth(S, r) \in S /\ Rank(S, Nth(S, r)) = r
  BY RankIsTaken, NthOfRank

LEMMA NthOfLonger ==
  ASSUME NEW S, NEW n, PlacesUpTo(S, n), NEW x \in Nat, x > n, NEW T, T = S \cup {x}
  PROVE  /\ Cardinality(S) \in Nat /\ Cardinality(T) = Cardinality(S) + 1
         /\ \A r \in 1..Cardinality(S) : Nth(T, r) = Nth(S, r)
         /\ Nth(T, Cardinality(S) + 1) = x
  <1>1. /\ IsFiniteSet(S) /\ Cardinality(S) \in Nat
        /\ \A j \in S : j \in Nat /\ j < x
    <2>1. \A j \in S : j \in Nat /\ j < x
      BY DEF PlacesUpTo
    <2> QED
      BY <2>1, PlacesAreFinite
  <1>2. Cardinality(T) = Cardinality(S) + 1
    BY <1>1, FS_AddElement
  <1>3. PlacesUpTo(T, x)
    BY DEF PlacesUpTo
  <1>4. ASSUME NEW r \in 1..Cardinality(S) PROVE Nth(T, r) = Nth(S, r)
    <2>1. PICK i \in S : Rank(S, i) = r
      BY RankIsTaken
    <2>2. {j \in T : j <= i} = {j \in S : j <= i}
      BY <1>1 DEF PlacesUpTo
    <2>3. Rank(T, i) = r
      BY <2>1, <2>2 DEF Rank
    <2>4. Nth(S, r) = i
      BY <2>1, NthOfRank
    <2>5. Nth(T, r) = i
      BY <1>3, <2>3, NthOfRank
    <2> QED
      BY <2>4, <2>5
  <1>5. Nth(T, Cardinality(S) + 1) = x
    <2>1. {j \in T : j <= x} = T
      BY <1>1
    <2>2. Rank(T, x) = Cardinality(S) + 1
      BY <1>2, <2>1 DEF Rank
    <2> QED
      BY <1>3, <2>2, NthOfRank
  <1> QED
    BY <1>1, <1>2, <1>4, <1>5

-----------------------------------------------------------------------------
(* Files: what a reader finds, and what an append does to that.            *)

LEMMA MaxIsMember ==
  ASSUME NEW n \in Nat, NEW S, S \subseteq 0..n, S # {}
  PROVE  Max(S) \in S /\ \A i \in S : i <= Max(S)
  <1>1. \E m \in S : \A i \in S : m >= i
    <2>1. PICK m \in S : \A i \in S : i <= m
      BY GreatestNatural
    <2> QED
      BY <2>1
  <1>2. Max(S) \in S /\ \A i \in S : Max(S) >= i
    BY <1>1 DEF Max
  <1> QED
    BY <1>2

LEMMA EncodedPieces ==
  ASSUME NEW id \in Nat, NEW prev \in Nat
  PROVE  LET e == Encoded(id, prev) IN
         /\ e \in Seq(Piece) /\ Len(e) = 3
         /\ e[1] = [id |-> id, prev |-> prev, part |-> "head"]
         /\ e[2] = [id |-> id, prev |-> prev, part |-> "tail"]
         /\ e[3] = [id |-> id, prev |-> prev, part |-> "eol"]
  <1>1. Parts[1] = "head" /\ Parts[2] = "tail" /\ Parts[3] = "eol"
    BY DEF Parts
  <1> QED
    BY <1>1 DEF Encoded, Piece

\* The first n pieces of b after f.
LEMMA FlushShape ==
  ASSUME NEW f \in Seq(Piece), NEW b \in Seq(Piece), NEW n \in 0..Len(b)
  PROVE  LET g == f \o SubSeq(b, 1, n) IN
         /\ g \in Seq(Piece) /\ Len(g) = Len(f) + n /\ Len(f) \in Nat /\ n \in Nat
         /\ \A i \in 1..Len(f) : g[i] = f[i]
         /\ \A k \in 1..n : g[Len(f) + k] = b[k]
  <1>1. PICK s : s = SubSeq(b, 1, n)
    OBVIOUS
  <1>2. s \in Seq(Piece) /\ Len(s) = n /\ n \in Nat /\ Len(f) \in Nat /\ \A k \in 1..n : s[k] = b[k]
    BY <1>1
  <1>3. LET g == f \o s IN
        /\ g \in Seq(Piece) /\ Len(g) = Len(f) + n
        /\ \A i \in 1..Len(f) : g[i] = f[i]
        /\ \A k \in 1..n : g[Len(f) + k] = s[k]
    BY <1>2
  <1> QED
    BY <1>1, <1>2, <1>3

LEMMA LinesArePlaces ==
  ASSUME NEW f \in Seq(Piece)
  PROVE  PlacesUpTo(LineStarts(f), Len(f)) /\ PlacesUpTo(Readable(f), Len(f))
  BY DEF PlacesUpTo, LineStarts, Readable

LEMMA TailHashType ==
  ASSUME NEW f \in Seq(Piece)
  PROVE  TailHash(f) \in Nat \cup {-1}
  <1>1. CASE LineStarts(f) = {}
    BY <1>1 DEF TailHash
  <1>2. CASE LineStarts(f) # {}
    <2>1. LineStarts(f) \subseteq 0..Len(f) /\ Len(f) \in Nat
      BY DEF LineStarts
    <2>2. PICK last \in LineStarts(f) : last = Max(LineStarts(f))
      BY <1>2, <2>1, MaxIsMember
    <2>3. f[last].id \in Nat
      <3>1. last \in 1..Len(f)
        BY DEF LineStarts
      <3>2. f[last] \in Piece
        BY <3>1
      <3> QED
        BY <3>2 DEF Piece
    <2> QED
      BY <1>2, <2>2, <2>3 DEF TailHash
  <1> QED
    BY <1>1, <1>2

LEMMA EventsShape ==
  ASSUME NEW f \in Seq(Piece)
  PROVE  /\ EventsOf(f) \in Seq(Nat) /\ Len(EventsOf(f)) = Cardinality(Readable(f))
         /\ \A i \in Readable(f) : \E n \in DOMAIN EventsOf(f) : EventsOf(f)[n] = f[i].id
  <1> DEFINE S == Readable(f)
  <1>1. PlacesUpTo(S, Len(f)) /\ Cardinality(S) \in Nat
    BY LinesArePlaces, PlacesAreFinite
  <1>2. ASSUME NEW n \in 1..Cardinality(S) PROVE f[Nth(S, n)].id \in Nat
    <2>1. Nth(S, n) \in S
      BY <1>1, NthIsMember
    <2>2. Nth(S, n) \in 1..Len(f)
      BY <1>1, <2>1 DEF PlacesUpTo
    <2>3. f[Nth(S, n)] \in Piece
      BY <2>2
    <2> QED
      BY <2>3 DEF Piece
  <1>3. EventsOf(f) = [n \in 1..Cardinality(S) |-> f[Nth(S, n)].id]
    BY DEF EventsOf
  <1>4. ASSUME NEW i \in S PROVE \E n \in DOMAIN EventsOf(f) : EventsOf(f)[n] = f[i].id
    <2>1. PICK n : n = Rank(S, i)
      OBVIOUS
    <2>2. n \in 1..Cardinality(S) /\ Nth(S, n) = i
      BY <1>1, <2>1, RankInRange, NthOfRank
    <2> QED
      BY <1>3, <2>2
  <1> QED
    BY <1>1, <1>2, <1>3, <1>4

\* g is f with a whole event behind it.
Extends(g, f, id, prev) ==
  /\ g \in Seq(Piece) /\ Len(g) = Len(f) + 3
  /\ \A i \in 1..Len(f) : g[i] = f[i]
  /\ \A k \in 1..3 : g[Len(f) + k] = Encoded(id, prev)[k]

LEMMA ExtendsPieces ==
  ASSUME NEW f \in Seq(Piece), NEW g, NEW id \in Nat, NEW prev \in Nat, Extends(g, f, id, prev)
  PROVE  /\ Len(f) \in Nat
         /\ g[Len(f) + 1] = [id |-> id, prev |-> prev, part |-> "head"]
         /\ g[Len(f) + 2] = [id |-> id, prev |-> prev, part |-> "tail"]
         /\ g[Len(f) + 3] = [id |-> id, prev |-> prev, part |-> "eol"]
         /\ \A i \in 1..Len(g) : i \in 1..Len(f) \/ i = Len(f) + 1 \/ i = Len(f) + 2 \/ i = Len(f) + 3
  <1>1. Len(f) \in Nat /\ Len(g) = Len(f) + 3 /\ \A k \in 1..3 : g[Len(f) + k] = Encoded(id, prev)[k]
    BY DEF Extends
  <1>2. PICK e : e = Encoded(id, prev)
    OBVIOUS
  <1>3. /\ e[1] = [id |-> id, prev |-> prev, part |-> "head"]
        /\ e[2] = [id |-> id, prev |-> prev, part |-> "tail"]
        /\ e[3] = [id |-> id, prev |-> prev, part |-> "eol"]
    BY <1>2, EncodedPieces
  <1>4. 1 \in 1..3 /\ 2 \in 1..3 /\ 3 \in 1..3
    OBVIOUS
  <1>5. g[Len(f) + 1] = e[1] /\ g[Len(f) + 2] = e[2] /\ g[Len(f) + 3] = e[3]
    BY <1>1, <1>2, <1>4
  <1>6. \A i \in 1..(Len(f) + 3) : i \in 1..Len(f) \/ i = Len(f) + 1 \/ i = Len(f) + 2 \/ i = Len(f) + 3
    BY <1>1
  <1> QED
    BY <1>1, <1>3, <1>5, <1>6

\* Behind a line without its newline, the event is lost in that line.
LEMMA TornIsCorrupt ==
  ASSUME NEW f \in Seq(Piece), NEW g, NEW id \in Nat, NEW prev \in Nat, Extends(g, f, id, prev),
         f # << >>, f[Len(f)].part # "eol"
  PROVE  TailHash(g) = -1
  <1> DEFINE L == Len(f)
             S == LineStarts(g)
  <1>1. /\ L \in Nat /\ L >= 1 /\ g \in Seq(Piece) /\ Len(g) = L + 3
        /\ g[L + 1].part = "head" /\ g[L + 2].part = "tail" /\ g[L + 3].part = "eol"
        /\ g[L].part # "eol"
    <2>1. L \in Nat /\ L >= 1 /\ g \in Seq(Piece) /\ Len(g) = L + 3 /\ g[L] = f[L]
      BY DEF Extends
    <2>2. /\ g[L + 1] = [id |-> id, prev |-> prev, part |-> "head"]
          /\ g[L + 2] = [id |-> id, prev |-> prev, part |-> "tail"]
          /\ g[L + 3] = [id |-> id, prev |-> prev, part |-> "eol"]
      BY ExtendsPieces
    <2> QED
      BY <2>1, <2>2
  <1> HIDE DEF L
  <1>2. S \subseteq 1..L
    <2>1. L + 1 \notin S /\ L + 2 \notin S /\ L + 3 \notin S
      BY <1>1 DEF LineStarts
    <2>2. S \subseteq 1..(L + 3)
      BY <1>1 DEF LineStarts
    <2>3. \A i \in 1..(L + 3) : i \in 1..L \/ i = L + 1 \/ i = L + 2 \/ i = L + 3
      BY <1>1
    <2> QED
      BY <2>1, <2>2, <2>3
  <1>3. ASSUME NEW n \in 0..(L - 1), n = 0 \/ g[n].part = "eol"
        PROVE  \E i \in S : i > n
    <2> DEFINE T == {j \in (n + 1)..L : g[j].part # "eol"}
    <2>1. T \subseteq Nat /\ L \in T
      BY <1>1
    <2>2. PICK k \in T : \A j \in T : k <= j
      BY <2>1, LeastNatural
    <2>3. k \in (n + 1)..L /\ g[k].part # "eol"
      OBVIOUS
    <2>4. k = 1 \/ g[k - 1].part = "eol"
      <3>1. CASE k = n + 1
        BY <1>1, <1>3, <3>1
      <3>2. CASE k # n + 1
        <4>1. k - 1 \in (n + 1)..L /\ ~(k <= k - 1)
          BY <1>1, <2>3, <3>2
        <4>2. k - 1 \notin T
          BY <2>2, <4>1
        <4> QED
          BY <4>1, <4>2
      <3> QED
        BY <3>1, <3>2
    <2>5. k \in S
      BY <1>1, <2>3, <2>4 DEF LineStarts
    <2> QED
      BY <2>3, <2>5
  <1>4. S # {}
    <2>1. 0 \in 0..(L - 1)
      BY <1>1
    <2>2. \E i \in S : i > 0
      BY <1>3, <2>1
    <2> QED
      BY <2>2
  <1>5. PICK m \in S : m = Max(S) /\ \A i \in S : i <= m
    <2>1. S \subseteq 0..L
      BY <1>1, <1>2
    <2> QED
      BY <1>1, <1>4, <2>1, MaxIsMember
  <1>6. ~Parses(g, m)
    <2> SUFFICES ASSUME Parses(g, m) PROVE FALSE
      OBVIOUS
    <2>1. m \in 1..L
      BY <1>2, <1>5
    <2>2. g[m + 1].part = "tail" /\ g[m + 2].part = "eol"
      <3>1. g[m] \in Piece
        BY <1>1, <2>1
      <3>2. g[m + 1] = [g[m] EXCEPT !.part = "tail"] /\ (m + 2 <= Len(g) => g[m + 2].part = "eol")
        BY DEF Parses
      <3>3. [g[m] EXCEPT !.part = "tail"].part = "tail"
        BY <3>1 DEF Piece
      <3> QED
        BY <1>1, <2>1, <3>2, <3>3
    <2>3. CASE m + 2 >= L
      <3>1. m = L \/ m + 1 = L \/ m + 2 = L
        BY <1>1, <2>1, <2>3
      <3>2. CASE m = L
        BY <1>1, <2>2, <3>2
      <3>3. CASE m + 1 = L
        <4>1. m + 2 = L + 1
          BY <1>1, <2>1, <3>3
        <4> QED
          BY <1>1, <2>2, <4>1
      <3>4. CASE m + 2 = L
        BY <1>1, <2>2, <3>4
      <3> QED
        BY <3>1, <3>2, <3>3, <3>4
    <2>4. CASE m + 2 < L
      <3>1. m + 2 \in 0..(L - 1)
        BY <1>1, <2>1, <2>4
      <3>2. PICK i \in S : i > m + 2
        BY <1>3, <2>2, <3>1
      <3>3. i \in 1..L
        BY <1>2
      <3> QED
        BY <1>5, <2>1, <3>2, <3>3
    <2> QED
      BY <1>1, <2>1, <2>3, <2>4
  <1> QED
    BY <1>4, <1>5, <1>6 DEF TailHash

\* Behind a line that has its newline, or in an empty file, it is read back.
LEMMA NewLineIsRead ==
  ASSUME NEW f \in Seq(Piece), NEW g, NEW id \in Nat, NEW prev \in Nat, Extends(g, f, id, prev),
         f = << >> \/ f[Len(f)].part = "eol"
  PROVE  Readable(g) = Readable(f) \cup {Len(f) + 1}
  <1> DEFINE L == Len(f)
  <1>1. /\ L \in Nat /\ g \in Seq(Piece) /\ Len(g) = L + 3
        /\ g[L + 1] = [id |-> id, prev |-> prev, part |-> "head"]
        /\ g[L + 2] = [id |-> id, prev |-> prev, part |-> "tail"]
        /\ g[L + 3] = [id |-> id, prev |-> prev, part |-> "eol"]
        /\ \A i \in 1..L : g[i] = f[i]
        /\ \A i \in 1..Len(g) : i \in 1..L \/ i = L + 1 \/ i = L + 2 \/ i = L + 3
    <2>1. L \in Nat /\ g \in Seq(Piece) /\ Len(g) = L + 3 /\ \A i \in 1..L : g[i] = f[i]
      BY DEF Extends
    <2>2. /\ g[L + 1] = [id |-> id, prev |-> prev, part |-> "head"]
          /\ g[L + 2] = [id |-> id, prev |-> prev, part |-> "tail"]
          /\ g[L + 3] = [id |-> id, prev |-> prev, part |-> "eol"]
          /\ \A i \in 1..Len(g) : i \in 1..L \/ i = L + 1 \/ i = L + 2 \/ i = L + 3
      BY ExtendsPieces
    <2> QED
      BY <2>1, <2>2
  <1>2. L = 0 \/ f[L].part = "eol"
    OBVIOUS
  <1> HIDE DEF L
  <1>3. ASSUME NEW i \in 1..L
        PROVE  i \in LineStarts(g) <=> i \in LineStarts(f)
    <2>1. g[i] = f[i] /\ i \in 1..Len(g) /\ i \in 1..Len(f)
      BY <1>1 DEF L
    <2>2. i = 1 \/ g[i - 1] = f[i - 1]
      BY <1>1
    <2>3. i = 1 \/ g[i - 1].part = "eol" <=> i = 1 \/ f[i - 1].part = "eol"
      BY <2>2
    <2> QED
      BY <2>1, <2>3 DEF LineStarts
  <1>4. ASSUME NEW i \in 1..L, i \in LineStarts(f)
        PROVE  Parses(g, i) <=> Parses(f, i)
    <2>1. g[i] = f[i] /\ f[i].part # "eol" /\ L # 0 /\ f[L].part = "eol"
      BY <1>1, <1>2, <1>4 DEF LineStarts
    <2>2. i # L /\ i < L /\ i + 1 \in 1..L /\ g[i + 1] = f[i + 1]
      BY <1>1, <2>1
    <2>3. CASE i + 1 = L
      <3>1. f[i] \in Piece
        BY <1>1 DEF L
      <3>2. [f[i] EXCEPT !.part = "tail"].part = "tail"
        BY <3>1 DEF Piece
      <3>3. f[i + 1].part # "tail"
        BY <2>1, <2>3
      <3> QED
        BY <2>1, <2>2, <3>2, <3>3 DEF Parses
    <2>4. CASE i + 1 # L
      <3>1. i + 2 \in 1..L /\ g[i + 2] = f[i + 2]
        BY <1>1, <2>2, <2>4
      <3> QED
        BY <1>1, <2>1, <2>2, <3>1 DEF Parses, L
    <2> QED
      BY <2>3, <2>4
  <1>5. L + 1 \in LineStarts(g) /\ Parses(g, L + 1)
    <2>1. L + 1 \in LineStarts(g)
      <3>1. L = 0 \/ g[(L + 1) - 1].part = "eol"
        BY <1>1, <1>2
      <3> QED
        BY <1>1, <3>1 DEF LineStarts
    <2>2. g[L + 2] = [g[L + 1] EXCEPT !.part = "tail"]
      BY <1>1
    <2> QED
      BY <1>1, <2>1, <2>2 DEF Parses
  <1>6. L + 2 \notin LineStarts(g) /\ L + 3 \notin LineStarts(g)
    BY <1>1 DEF LineStarts
  <1>7. LineStarts(f) \subseteq 1..L /\ LineStarts(g) \subseteq 1..Len(g)
    BY DEF LineStarts, L
  <1>8. ASSUME NEW i PROVE i \in Readable(g) <=> i \in Readable(f) \/ i = L + 1
    <2>1. CASE i \in 1..L
      BY <1>1, <1>3, <1>4, <2>1 DEF Readable
    <2>2. CASE i = L + 1
      BY <1>5, <2>2 DEF Readable
    <2>3. CASE i = L + 2 \/ i = L + 3
      BY <1>1, <1>6, <1>7, <2>3 DEF Readable
    <2>4. CASE i \notin 1..Len(g)
      BY <1>1, <1>7, <2>4 DEF Readable
    <2> QED
      BY <1>1, <2>1, <2>2, <2>3, <2>4
  <1> QED
    BY <1>8 DEF L

LEMMA AppendedIsRead ==
  ASSUME NEW f \in Seq(Piece), NEW g, NEW id \in Nat, NEW prev \in Nat, Extends(g, f, id, prev),
         TailHash(g) # -1
  PROVE  EventsOf(g) = Append(EventsOf(f), id)
  <1>1. f = << >> \/ f[Len(f)].part = "eol"
    BY TornIsCorrupt
  <1> DEFINE S == Readable(f)
             T == Readable(g)
  <1>2. T = S \cup {Len(f) + 1}
    BY <1>1, NewLineIsRead
  <1>3. PlacesUpTo(S, Len(f)) /\ Len(f) \in Nat
    BY LinesArePlaces
  <1>4. /\ Cardinality(S) \in Nat /\ Cardinality(T) = Cardinality(S) + 1
        /\ \A r \in 1..Cardinality(S) : Nth(T, r) = Nth(S, r)
        /\ Nth(T, Cardinality(S) + 1) = Len(f) + 1
    <2>1. PICK x : x = Len(f) + 1
      OBVIOUS
    <2>2. x \in Nat /\ x > Len(f) /\ T = S \cup {x}
      BY <1>2, <1>3, <2>1
    <2>3. /\ Cardinality(S) \in Nat /\ Cardinality(T) = Cardinality(S) + 1
          /\ \A r \in 1..Cardinality(S) : Nth(T, r) = Nth(S, r)
          /\ Nth(T, Cardinality(S) + 1) = x
      BY <1>3, <2>2, NthOfLonger
    <2> QED
      BY <2>1, <2>3
  <1>5. \A r \in 1..Cardinality(S) : g[Nth(T, r)].id = f[Nth(S, r)].id
    <2>1. ASSUME NEW r \in 1..Cardinality(S) PROVE Nth(S, r) \in 1..Len(f)
      BY <1>3, NthIsMember DEF PlacesUpTo
    <2> QED
      BY <1>4, <2>1 DEF Extends
  <1>6. g[Len(f) + 1].id = id
    <2>1. /\ Len(f) \in Nat
          /\ g[Len(f) + 1] = [id |-> id, prev |-> prev, part |-> "head"]
          /\ g[Len(f) + 2] = [id |-> id, prev |-> prev, part |-> "tail"]
          /\ g[Len(f) + 3] = [id |-> id, prev |-> prev, part |-> "eol"]
      BY ExtendsPieces
    <2> QED
      BY <2>1
  <1>7. EventsOf(f) \in Seq(Nat) /\ Len(EventsOf(f)) = Cardinality(S)
    BY EventsShape
  <1>8. \A r \in 1..Cardinality(S) : EventsOf(f)[r] = f[Nth(S, r)].id
    BY DEF EventsOf
  <1>9. EventsOf(g) = [r \in 1..Cardinality(T) |-> g[Nth(T, r)].id]
    BY DEF EventsOf
  <1> HIDE DEF S, T
  <1>10. PICK c : c = Cardinality(S)
    OBVIOUS
  <1>11. PICK e : e = EventsOf(f)
    OBVIOUS
  <1>12. PICK d : d = EventsOf(g)
    OBVIOUS
  <1>13. /\ c \in Nat /\ e \in Seq(Nat) /\ Len(e) = c
         /\ d = [r \in 1..(c + 1) |-> g[Nth(T, r)].id]
    BY <1>4, <1>7, <1>9, <1>10, <1>11, <1>12
  <1>14. \A r \in 1..c : d[r] = e[r]
    <2>1. ASSUME NEW r \in 1..c PROVE d[r] = e[r]
      <3>1. r \in 1..(c + 1) /\ r \in 1..Cardinality(S)
        BY <1>10, <1>13
      <3>2. d[r] = g[Nth(T, r)].id
        BY <1>13, <3>1
      <3>3. g[Nth(T, r)].id = e[r]
        BY <1>5, <1>8, <1>11, <3>1
      <3> QED
        BY <3>2, <3>3
    <2> QED
      BY <2>1
  <1>15. d[c + 1] = id
    <2>1. c + 1 \in 1..(c + 1)
      BY <1>13
    <2>2. d[c + 1] = g[Nth(T, c + 1)].id
      BY <1>13, <2>1
    <2> QED
      BY <1>4, <1>6, <1>10, <2>2
  <1>16. DOMAIN d = 1..(c + 1) /\ d = [r \in 1..(c + 1) |-> d[r]]
    BY <1>13
  <1>17. d = Append(e, id)
    <2>1. PICK h : h = Append(e, id)
      OBVIOUS
    <2>2. h \in Seq(Nat) /\ Len(h) = c + 1 /\ h[c + 1] = id /\ \A r \in 1..c : h[r] = e[r]
      BY <1>13, <2>1
    <2>3. DOMAIN h = 1..(c + 1) /\ h = [r \in 1..(c + 1) |-> h[r]]
      BY <1>13, <2>2
    <2>4. \A r \in 1..(c + 1) : r \in 1..c \/ r = c + 1
      BY <1>13
    <2>5. \A r \in 1..(c + 1) : d[r] = h[r]
      BY <1>14, <1>15, <2>2, <2>4
    <2> QED
      BY <1>16, <2>1, <2>3, <2>5
  <1> QED
    BY <1>11, <1>12, <1>17

-----------------------------------------------------------------------------
(* The inductive invariant. What it says of a process is said of the       *)
(* values that process has: its locals m, its index entry ix, its place l. *)

Mine == [size : Nat, head : Int, prev : Nat, before : Nat, id : Nat, buffer : Seq(Piece), ok : BOOLEAN]

Entry == [size : Int, head : Nat, events : Seq(Nat)]

\* The places of an append at which its process has the lock.
Locked == {"state", "tables", "tail", "write", "flush", "sync", "note", "unlock"}

\* The append of p, whatever the file looks like: n appends were attempted,
\* k has the lock.
Shaped(p, m, l, k, n) ==
  /\ m \in Mine /\ l \in PCs
  /\ l # "idle" => m.id \in 1..n
  /\ l = "idle" => m = NoAppend
  /\ l = "flush" => m.buffer = Encoded(m.id, m.prev)
  /\ l \in Locked => k = p
  /\ l = "tables" => m.head \in Nat

Prefix(f, n) == [i \in 1..n |-> f[i]]

\* The entry never describes more than the file, and if it describes the
\* whole file it is exact; while an append of its process is under way, it
\* is exact for the prefix that append found.
Exact(f, ix, m, l) ==
  /\ ix \in Entry
  /\ ix.size <= Len(f)
  /\ ix.size = Len(f) /\ ix.head = TailHash(f) => ix.events = EventsOf(f)
  /\ l = "tables" => m.size <= Len(f)
  /\ l = "write" /\ ix.size = Len(f) => m.prev = TailHash(f)
  /\ l \in {"flush", "sync", "note"} =>
       /\ m.before <= Len(f)
       /\ ix.size = m.before /\ ix.head = m.prev => ix.events = EventsOf(Prefix(f, m.before))
  /\ l \in {"sync", "note"} =>
       /\ m.before + 3 <= Len(f)
       /\ Len(f) = m.before + 3 => \A k \in 1..3 : f[m.before + k] = Encoded(m.id, m.prev)[k]

Frame ==
  /\ file \in Seq(Piece) /\ lock \in Procs \cup {NoProc}
  /\ attempts \in 0..MaxAppends /\ acked \subseteq 1..MaxAppends /\ cutShort \in BOOLEAN
  /\ pc \in [Procs -> PCs] /\ mine \in [Procs -> Mine] /\ index \in [Procs -> Entry]

XInv ==
  /\ Frame
  /\ \A p \in Procs : Shaped(p, mine[p], pc[p], lock, attempts)
  /\ \A p \in Procs : Exact(file, index[p], mine[p], pc[p])

-----------------------------------------------------------------------------
(* One step: one process moves, the file grows or stays.                   *)

\* g is f, or f with more pieces behind it.
Grown(f, g) ==
  /\ f \in Seq(Piece) /\ g \in Seq(Piece)
  /\ Len(g) >= Len(f)
  /\ \A i \in 1..Len(f) : g[i] = f[i]

LEMMA GrownSame ==
  ASSUME NEW f, NEW g, Grown(f, g), Len(g) = Len(f)
  PROVE  g = f
  BY DEF Grown

LEMMA GrownPrefix ==
  ASSUME NEW f, NEW g, Grown(f, g), NEW n \in Nat, n <= Len(f)
  PROVE  Prefix(g, n) = Prefix(f, n)
  BY DEF Grown, Prefix

\* What holds of a process that does not move keeps holding.
LEMMA ExactIsKept ==
  ASSUME NEW f, NEW g, Grown(f, g), NEW ix, NEW m \in Mine, NEW l, Exact(f, ix, m, l)
  PROVE  Exact(g, ix, m, l)
  <1>1. /\ Len(f) \in Nat /\ Len(g) \in Nat /\ Len(g) >= Len(f)
        /\ ix.size \in Int /\ m.before \in Nat /\ m.size \in Nat
    BY DEF Exact, Entry, Mine, Grown
  <1>2. CASE Len(g) = Len(f)
    BY <1>2, GrownSame
  <1>3. CASE Len(g) > Len(f)
    <2>1. /\ ix \in Entry /\ ix.size < Len(g)
          /\ l = "tables" => m.size <= Len(g)
      BY <1>1, <1>3 DEF Exact
    <2>2. ASSUME l \in {"flush", "sync", "note"}
          PROVE  /\ m.before <= Len(g)
                 /\ ix.size = m.before /\ ix.head = m.prev => ix.events = EventsOf(Prefix(g, m.before))
      <3>1. /\ m.before <= Len(f)
            /\ ix.size = m.before /\ ix.head = m.prev => ix.events = EventsOf(Prefix(f, m.before))
        BY <2>2 DEF Exact
      <3>2. Prefix(g, m.before) = Prefix(f, m.before)
        BY <1>1, <3>1, GrownPrefix
      <3> QED
        BY <1>1, <3>1, <3>2
    <2>3. l \in {"sync", "note"} => m.before + 3 < Len(g)
      BY <1>1, <1>3 DEF Exact
    <2> QED
      BY <1>1, <2>1, <2>2, <2>3 DEF Exact
  <1> QED
    BY <1>1, <1>2, <1>3

\* p now has locals m, entry ix and place l; nobody else loses the lock.
Moves(p, m, ix, l) ==
  /\ mine' = [mine EXCEPT ![p] = m]
  /\ index' = [index EXCEPT ![p] = ix]
  /\ pc' = [pc EXCEPT ![p] = l]
  /\ lock' \in Procs \cup {NoProc} /\ (lock' = lock \/ lock \in {p, NoProc})
  /\ attempts' \in 0..MaxAppends /\ attempts <= attempts'
  /\ acked' \subseteq 1..MaxAppends /\ cutShort' \in BOOLEAN
  /\ Grown(file, file')
  /\ Shaped(p, m, l, lock', attempts')
  /\ Exact(file', ix, m, l)

LEMMA MoveKeepsXInv ==
  ASSUME XInv, NEW p \in Procs, NEW m, NEW ix, NEW l, Moves(p, m, ix, l)
  PROVE  XInv'
  <1>1. m \in Mine /\ l \in PCs /\ ix \in Entry
    BY DEF Moves, Shaped, Exact
  <1>2. /\ mine' \in [Procs -> Mine] /\ index' \in [Procs -> Entry] /\ pc' \in [Procs -> PCs]
        /\ mine'[p] = m /\ index'[p] = ix /\ pc'[p] = l
        /\ \A q \in Procs : q # p => mine'[q] = mine[q] /\ index'[q] = index[q] /\ pc'[q] = pc[q]
    BY <1>1 DEF Moves, XInv, Frame
  <1>3. Frame'
    BY <1>2 DEF Moves, Grown, Frame
  <1>4. ASSUME NEW q \in Procs
        PROVE  Shaped(q, mine'[q], pc'[q], lock', attempts') /\ Exact(file', index'[q], mine'[q], pc'[q])
    <2>1. CASE q = p
      BY <1>2, <2>1 DEF Moves
    <2>2. CASE q # p
      <3>1. PICK m0 \in Mine : m0 = mine[q]
        BY DEF XInv, Frame
      <3>2. PICK l0, ix0 : l0 = pc[q] /\ ix0 = index[q]
        OBVIOUS
      <3>3. mine'[q] = m0 /\ pc'[q] = l0 /\ index'[q] = ix0
        BY <1>2, <2>2, <3>1, <3>2
      <3>4. Shaped(q, m0, l0, lock, attempts) /\ Exact(file, ix0, m0, l0)
        BY <3>1, <3>2 DEF XInv
      <3>5. Exact(file', ix0, m0, l0)
        BY <3>4, ExactIsKept DEF Moves
      <3>6. Shaped(q, m0, l0, lock', attempts')
        <4>1. attempts \in Nat /\ attempts' \in Nat /\ attempts <= attempts'
          BY DEF Moves, XInv, Frame
        <4>2. l0 # "idle" => m0.id \in 1..attempts'
          BY <3>4, <4>1 DEF Shaped
        <4>3. l0 \in Locked => lock' = q
          <5>1. l0 \in Locked => lock = q
            BY <3>4 DEF Shaped
          <5>2. q # NoProc
            BY FileAssumption
          <5> QED
            BY <2>2, <5>1, <5>2 DEF Moves
        <4> QED
          BY <3>4, <4>2, <4>3 DEF Shaped
      <3> QED
        BY <3>3, <3>5, <3>6
    <2> QED
      BY <2>1, <2>2
  <1> QED
    BY <1>3, <1>4 DEF XInv

-----------------------------------------------------------------------------
(* Each action is such a move.                                             *)

LEMMA Standing ==
  ASSUME XInv, NEW p \in Procs, NEW m, m = mine[p], NEW ix, ix = index[p], NEW l, l = pc[p]
  PROVE  /\ m \in Mine /\ ix \in Entry /\ l \in PCs
         /\ mine = [mine EXCEPT ![p] = m] /\ index = [index EXCEPT ![p] = ix]
         /\ Shaped(p, m, l, lock, attempts) /\ Exact(file, ix, m, l)
         /\ file \in Seq(Piece) /\ Len(file) \in Nat /\ lock \in Procs \cup {NoProc}
         /\ attempts \in 0..MaxAppends /\ MaxAppends \in Nat
         /\ acked \subseteq 1..MaxAppends /\ cutShort \in BOOLEAN
         /\ Grown(file, file)
  BY FileAssumption DEF XInv, Frame, Grown

LEMMA NoAppendType == NoAppend \in Mine /\ NoAppend.id = 0 /\ NoAppend.ok = FALSE /\ NoAppend.buffer = << >>
  <1>1. << >> \in Seq(Piece)
    OBVIOUS
  <1> QED
    BY <1>1 DEF NoAppend, Mine

LEMMA MoveAcquire ==
  ASSUME XInv, NEW p \in Procs, Acquire(p)
  PROVE  XInv'
  <1>1. PICK m0, ix, l0 : m0 = mine[p] /\ ix = index[p] /\ l0 = pc[p]
    OBVIOUS
  <1>2. PICK m : m = [NoAppend EXCEPT !.id = attempts + 1]
    OBVIOUS
  <1>3. PICK l \in {"state", "tail"} : pc' = [pc EXCEPT ![p] = l]
    BY DEF Acquire, Goto
  <1>4. /\ ix \in Entry /\ index = [index EXCEPT ![p] = ix] /\ l0 = "idle"
        /\ Exact(file, ix, m0, l0) /\ file \in Seq(Piece) /\ Len(file) \in Nat
        /\ attempts \in 0..MaxAppends /\ MaxAppends \in Nat /\ acked \subseteq 1..MaxAppends
        /\ cutShort \in BOOLEAN /\ Grown(file, file)
    BY <1>1, Standing DEF Acquire
  <1>5. m \in Mine /\ m.id = attempts + 1
    <2>1. NoAppend \in Mine
      BY NoAppendType
    <2> QED
      BY <1>2, <1>4, <2>1 DEF Mine
  <1>6. attempts' = attempts + 1 /\ attempts' \in 0..MaxAppends
    BY <1>4 DEF Acquire
  <1>7. Shaped(p, m, l, p, attempts')
    BY <1>3, <1>4, <1>5, <1>6 DEF Shaped, PCs
  <1>8. Exact(file, ix, m, l)
    BY <1>3, <1>4 DEF Exact
  <1>9. Moves(p, m, ix, l)
    BY <1>2, <1>3, <1>4, <1>6, <1>7, <1>8 DEF Moves, Acquire
  <1> QED
    BY <1>9, MoveKeepsXInv

LEMMA MoveReadState ==
  ASSUME XInv, NEW p \in Procs, ReadState(p)
  PROVE  XInv'
  <1>1. PICK m0, ix, l0 : m0 = mine[p] /\ ix = index[p] /\ l0 = pc[p]
    OBVIOUS
  <1>2. PICK size, head : size = Len(file) /\ head = TailHash(file)
    OBVIOUS
  <1>3. PICK l : l = IF head = -1 THEN "tail" ELSE "tables"
    OBVIOUS
  <1>4. /\ m0 \in Mine /\ ix \in Entry /\ index = [index EXCEPT ![p] = ix] /\ l0 = "state"
        /\ Shaped(p, m0, l0, lock, attempts)
        /\ Exact(file, ix, m0, l0) /\ file \in Seq(Piece) /\ size \in Nat
        /\ lock \in Procs \cup {NoProc}
        /\ attempts \in 0..MaxAppends /\ MaxAppends \in Nat /\ acked \subseteq 1..MaxAppends
        /\ cutShort \in BOOLEAN /\ Grown(file, file)
    BY <1>1, <1>2, Standing DEF ReadState
  <1>5. head \in Nat \cup {-1}
    BY <1>2, <1>4, TailHashType
  <1>6. PICK m : m = [m0 EXCEPT !.size = size, !.head = head]
    OBVIOUS
  <1>7. m \in Mine /\ m.size = size /\ m.head = head /\ m.id = m0.id
    <2>1. PICK m1 : m1 = [m0 EXCEPT !.size = size]
      OBVIOUS
    <2>2. m1 \in Mine /\ m1.size = size /\ m1.id = m0.id
      BY <1>4, <2>1 DEF Mine
    <2>3. m = [m1 EXCEPT !.head = head] /\ head \in Int
      BY <1>5, <1>6, <2>1
    <2> QED
      BY <2>2, <2>3 DEF Mine
  <1>8. Shaped(p, m, l, lock, attempts)
    BY <1>3, <1>4, <1>5, <1>7 DEF Shaped, PCs, Locked
  <1>9. Exact(file, ix, m, l)
    BY <1>2, <1>3, <1>4, <1>7 DEF Exact
  <1>10. mine' = [mine EXCEPT ![p] = m] /\ pc' = [pc EXCEPT ![p] = l]
    BY <1>1, <1>2, <1>3, <1>6 DEF ReadState, Goto, XInv, Frame
  <1>11. Moves(p, m, ix, l)
    <2>1. index' = index /\ UNCHANGED <<file, lock, attempts, acked, cutShort>>
      BY DEF ReadState
    <2> QED
      BY <1>4, <1>8, <1>9, <1>10, <2>1 DEF Moves
  <1> QED
    BY <1>11, MoveKeepsXInv

LEMMA MoveGetTables ==
  ASSUME XInv, NEW p \in Procs, GetTables(p)
  PROVE  XInv'
  <1>1. PICK m, ix0, l0 : m = mine[p] /\ ix0 = index[p] /\ l0 = pc[p]
    OBVIOUS
  <1>2. PICK es : es = EventsOf(file)
    OBVIOUS
  <1>3. PICK ix : ix = IF ix0.size = m.size /\ ix0.head = m.head THEN ix0
                       ELSE [size |-> m.size, head |-> m.head, events |-> es]
    OBVIOUS
  <1>4. /\ m \in Mine /\ ix0 \in Entry /\ mine = [mine EXCEPT ![p] = m] /\ l0 = "tables"
        /\ Shaped(p, m, l0, lock, attempts)
        /\ Exact(file, ix0, m, l0) /\ file \in Seq(Piece) /\ Len(file) \in Nat
        /\ lock \in Procs \cup {NoProc}
        /\ attempts \in 0..MaxAppends /\ MaxAppends \in Nat /\ acked \subseteq 1..MaxAppends
        /\ cutShort \in BOOLEAN /\ Grown(file, file)
    BY <1>1, Standing DEF GetTables
  <1>5. es \in Seq(Nat)
    BY <1>2, <1>4, EventsShape
  <1>6. m.size \in Nat /\ m.size <= Len(file)
    BY <1>4 DEF Shaped, Exact, Mine
  <1>7. m.head \in Nat
    BY <1>4 DEF Shaped
  <1>8. ix \in Entry
    BY <1>3, <1>4, <1>5, <1>6, <1>7 DEF Entry
  <1>9. Exact(file, ix, m, "tail")
    <2>1. CASE ix = ix0
      BY <1>4, <2>1 DEF Exact
    <2>2. CASE ix = [size |-> m.size, head |-> m.head, events |-> es]
      BY <1>2, <1>6, <1>8, <2>2 DEF Exact
    <2> QED
      BY <1>3, <2>1, <2>2
  <1>10. Shaped(p, m, "tail", lock, attempts)
    BY <1>4 DEF Shaped, PCs, Locked
  <1>11. index' = [index EXCEPT ![p] = ix] /\ pc' = [pc EXCEPT ![p] = "tail"]
    BY <1>1, <1>2, <1>3 DEF GetTables, Goto
  <1>12. Moves(p, m, ix, "tail")
    <2>1. mine' = mine /\ UNCHANGED <<file, lock, attempts, acked, cutShort>>
      BY DEF GetTables
    <2> QED
      BY <1>4, <1>9, <1>10, <1>11, <2>1 DEF Moves
  <1> QED
    BY <1>12, MoveKeepsXInv

LEMMA MoveReadTail ==
  ASSUME XInv, NEW p \in Procs, ReadTail(p)
  PROVE  XInv'
  <1>1. PICK m0, ix, l0 : m0 = mine[p] /\ ix = index[p] /\ l0 = pc[p]
    OBVIOUS
  <1>2. PICK head : head = TailHash(file)
    OBVIOUS
  <1>3. /\ m0 \in Mine /\ ix \in Entry /\ index = [index EXCEPT ![p] = ix]
        /\ mine = [mine EXCEPT ![p] = m0] /\ l0 = "tail"
        /\ Shaped(p, m0, l0, lock, attempts)
        /\ Exact(file, ix, m0, l0) /\ file \in Seq(Piece) /\ Len(file) \in Nat
        /\ lock \in Procs \cup {NoProc}
        /\ attempts \in 0..MaxAppends /\ MaxAppends \in Nat /\ acked \subseteq 1..MaxAppends
        /\ cutShort \in BOOLEAN /\ Grown(file, file)
    BY <1>1, Standing DEF ReadTail
  <1>4. CASE head # -1
    <2>1. PICK m : m = [m0 EXCEPT !.prev = head]
      OBVIOUS
    <2>2. head \in Nat
      BY <1>2, <1>3, <1>4, TailHashType
    <2>3. m \in Mine /\ m.prev = head /\ m.id = m0.id
      BY <1>3, <2>1, <2>2 DEF Mine
    <2>4. Shaped(p, m, "write", lock, attempts)
      BY <1>3, <2>3 DEF Shaped, PCs, Locked
    <2>5. Exact(file, ix, m, "write")
      BY <1>2, <1>3, <2>3 DEF Exact
    <2>6. mine' = [mine EXCEPT ![p] = m] /\ pc' = [pc EXCEPT ![p] = "write"]
      BY <1>1, <1>2, <1>4, <2>1 DEF ReadTail, Goto
    <2>7. Moves(p, m, ix, "write")
      BY <1>3, <2>4, <2>5, <2>6 DEF Moves, ReadTail
    <2> QED
      BY <2>7, MoveKeepsXInv
  <1>5. CASE head = -1
    <2>1. Shaped(p, m0, "unlock", lock, attempts)
      BY <1>3 DEF Shaped, PCs, Locked
    <2>2. Exact(file, ix, m0, "unlock")
      BY <1>3 DEF Exact
    <2>3. mine' = mine /\ pc' = [pc EXCEPT ![p] = "unlock"]
      BY <1>2, <1>5 DEF ReadTail, Goto
    <2>4. Moves(p, m0, ix, "unlock")
      BY <1>3, <2>1, <2>2, <2>3 DEF Moves, ReadTail
    <2> QED
      BY <2>4, MoveKeepsXInv
  <1> QED
    BY <1>4, <1>5

LEMMA MoveWrite ==
  ASSUME XInv, NEW p \in Procs, Write(p)
  PROVE  XInv'
  <1>1. PICK m0, ix, l0 : m0 = mine[p] /\ ix = index[p] /\ l0 = pc[p]
    OBVIOUS
  <1>2. PICK size : size = Len(file)
    OBVIOUS
  <1>3. /\ m0 \in Mine /\ ix \in Entry /\ index = [index EXCEPT ![p] = ix] /\ l0 = "write"
        /\ Shaped(p, m0, l0, lock, attempts)
        /\ Exact(file, ix, m0, l0) /\ file \in Seq(Piece) /\ size \in Nat
        /\ lock \in Procs \cup {NoProc}
        /\ attempts \in 0..MaxAppends /\ MaxAppends \in Nat /\ acked \subseteq 1..MaxAppends
        /\ cutShort \in BOOLEAN /\ Grown(file, file)
    BY <1>1, <1>2, Standing DEF Write
  <1>4. PICK e : e = Encoded(m0.id, m0.prev)
    OBVIOUS
  <1>5. e \in Seq(Piece)
    BY <1>3, <1>4, EncodedPieces DEF Mine
  <1>6. PICK m : m = [m0 EXCEPT !.before = size, !.buffer = e]
    OBVIOUS
  <1>7. m \in Mine /\ m.before = size /\ m.buffer = e /\ m.id = m0.id /\ m.prev = m0.prev
    BY <1>3, <1>5, <1>6 DEF Mine
  <1>8. Shaped(p, m, "flush", lock, attempts)
    BY <1>3, <1>4, <1>7 DEF Shaped, PCs, Locked
  <1>9. Prefix(file, size) = file
    BY <1>2, <1>3 DEF Prefix
  <1>10. Exact(file, ix, m, "flush")
    BY <1>2, <1>3, <1>7, <1>9 DEF Exact
  <1>11. mine' = [mine EXCEPT ![p] = m] /\ pc' = [pc EXCEPT ![p] = "flush"]
    BY <1>1, <1>2, <1>4, <1>6 DEF Write, Goto, XInv, Frame
  <1>12. Moves(p, m, ix, "flush")
    <2>1. index' = index /\ UNCHANGED <<file, lock, attempts, acked, cutShort>>
      BY DEF Write
    <2> QED
      BY <1>3, <1>8, <1>10, <1>11, <2>1 DEF Moves
  <1> QED
    BY <1>12, MoveKeepsXInv

LEMMA MoveFlush ==
  ASSUME XInv, NEW p \in Procs, Flush(p)
  PROVE  XInv'
  <1>1. PICK m0, ix, l0 : m0 = mine[p] /\ ix = index[p] /\ l0 = pc[p]
    OBVIOUS
  <1>2. /\ m0 \in Mine /\ ix \in Entry /\ index = [index EXCEPT ![p] = ix] /\ l0 = "flush"
        /\ Shaped(p, m0, l0, lock, attempts)
        /\ Exact(file, ix, m0, l0) /\ file \in Seq(Piece) /\ Len(file) \in Nat
        /\ lock \in Procs \cup {NoProc}
        /\ attempts \in 0..MaxAppends /\ MaxAppends \in Nat /\ acked \subseteq 1..MaxAppends
        /\ cutShort \in BOOLEAN
    BY <1>1, Standing DEF Flush
  <1>3. PICK b : b = m0.buffer
    OBVIOUS
  <1>4. b \in Seq(Piece) /\ Len(b) = 3 /\ b = Encoded(m0.id, m0.prev) /\ m0.id \in Nat /\ m0.prev \in Nat
    <2>1. m0.id \in Nat /\ m0.prev \in Nat
      BY <1>2 DEF Mine
    <2>2. b = Encoded(m0.id, m0.prev)
      BY <1>2, <1>3 DEF Shaped
    <2>3. Encoded(m0.id, m0.prev) \in Seq(Piece) /\ Len(Encoded(m0.id, m0.prev)) = 3
      BY <2>1, EncodedPieces
    <2> QED
      BY <2>1, <2>2, <2>3
  <1>5. PICK n \in 0..3, l \in {"sync", "unlock"} :
          /\ l = "sync" => n = 3
          /\ file' = file \o SubSeq(b, 1, n)
          /\ mine' = [mine EXCEPT ![p].buffer = SubSeq(b, n + 1, Len(b))]
          /\ pc' = [pc EXCEPT ![p] = l]
    <2>1. CASE WriteOut(p, 3) /\ Goto(p, "sync")
      BY <1>1, <1>3, <2>1 DEF WriteOut, Goto
    <2>2. CASE (\E n \in 0..2 : WriteOut(p, n)) /\ Goto(p, "unlock")
      <3>1. PICK n \in 0..2 : WriteOut(p, n)
        BY <2>2
      <3>2. n \in 0..3 /\ "unlock" \in {"sync", "unlock"} /\ pc' = [pc EXCEPT ![p] = "unlock"]
        BY <2>2 DEF Goto
      <3>3. file' = file \o SubSeq(b, 1, n) /\ mine' = [mine EXCEPT ![p].buffer = SubSeq(b, n + 1, Len(b))]
        BY <1>1, <1>3, <3>1 DEF WriteOut
      <3> QED
        BY <3>2, <3>3
    <2> QED
      BY <2>1, <2>2 DEF Flush
  <1>6. PICK g : g = file \o SubSeq(b, 1, n)
    OBVIOUS
  <1>7. /\ g \in Seq(Piece) /\ Len(g) = Len(file) + n /\ n \in Nat
        /\ \A i \in 1..Len(file) : g[i] = file[i]
        /\ \A k \in 1..n : g[Len(file) + k] = b[k]
    BY <1>2, <1>4, <1>6, FlushShape
  <1>8. Grown(file, g)
    BY <1>2, <1>7 DEF Grown
  <1>9. PICK r : r = SubSeq(b, n + 1, Len(b))
    OBVIOUS
  <1>10. r \in Seq(Piece)
    BY <1>4, <1>9
  <1>11. PICK m : m = [m0 EXCEPT !.buffer = r]
    OBVIOUS
  <1>12. m \in Mine /\ m.id = m0.id /\ m.prev = m0.prev /\ m.before = m0.before /\ m.size = m0.size
    BY <1>2, <1>10, <1>11 DEF Mine
  <1>13. Shaped(p, m, l, lock, attempts)
    BY <1>2, <1>5, <1>12 DEF Shaped, PCs, Locked
  <1>14. Exact(g, ix, m, l)
    <2>1. Exact(g, ix, m0, "flush")
      BY <1>2, <1>8, ExactIsKept
    <2>2. m0.before <= Len(file) /\ m0.before \in Nat
      BY <1>2 DEF Exact, Mine
    <2>3. CASE l = "unlock"
      BY <2>1, <2>3 DEF Exact
    <2>4. CASE l = "sync"
      <3>1. m0.before + 3 <= Len(g)
        BY <1>2, <1>5, <1>7, <2>2, <2>4
      <3>2. Len(g) = m0.before + 3 => \A k \in 1..3 : g[m0.before + k] = Encoded(m0.id, m0.prev)[k]
        <4> SUFFICES ASSUME Len(g) = m0.before + 3
                     PROVE  \A k \in 1..3 : g[m0.before + k] = Encoded(m0.id, m0.prev)[k]
          OBVIOUS
        <4>1. m0.before = Len(file) /\ n = 3
          BY <1>2, <1>5, <1>7, <2>2, <2>4
        <4> QED
          BY <1>4, <1>7, <4>1
      <3>3. /\ ix \in Entry
            /\ ix.size <= Len(g)
            /\ ix.size = Len(g) /\ ix.head = TailHash(g) => ix.events = EventsOf(g)
            /\ m0.before <= Len(g)
            /\ ix.size = m0.before /\ ix.head = m0.prev => ix.events = EventsOf(Prefix(g, m0.before))
        BY <2>1 DEF Exact
      <3> QED
        BY <1>12, <2>4, <3>1, <3>2, <3>3 DEF Exact
    <2> QED
      BY <2>3, <2>4
  <1>15. mine' = [mine EXCEPT ![p] = m] /\ pc' = [pc EXCEPT ![p] = l] /\ file' = g
    BY <1>1, <1>5, <1>6, <1>9, <1>11
  <1>16. Moves(p, m, ix, l)
    <2>1. index' = index /\ lock' = lock /\ attempts' = attempts /\ acked' = acked
      BY DEF Flush
    <2>2. cutShort' \in BOOLEAN
      BY <1>2 DEF Flush
    <2> QED
      BY <1>2, <1>8, <1>13, <1>14, <1>15, <2>1, <2>2 DEF Moves
  <1> QED
    BY <1>16, MoveKeepsXInv

LEMMA MoveSync ==
  ASSUME XInv, NEW p \in Procs, Sync(p)
  PROVE  XInv'
  <1>1. PICK m, ix, l0 : m = mine[p] /\ ix = index[p] /\ l0 = pc[p]
    OBVIOUS
  <1>2. /\ m \in Mine /\ ix \in Entry /\ index = [index EXCEPT ![p] = ix] /\ l0 = "sync"
        /\ mine = [mine EXCEPT ![p] = m]
        /\ Shaped(p, m, l0, lock, attempts)
        /\ Exact(file, ix, m, l0) /\ Grown(file, file)
        /\ lock \in Procs \cup {NoProc}
        /\ attempts \in 0..MaxAppends /\ MaxAppends \in Nat /\ acked \subseteq 1..MaxAppends
        /\ cutShort \in BOOLEAN
    BY <1>1, Standing DEF Sync
  <1>3. PICK l \in {"note", "unlock"} : pc' = [pc EXCEPT ![p] = l]
    BY DEF Sync, Goto
  <1>4. Shaped(p, m, l, lock, attempts)
    BY <1>2, <1>3 DEF Shaped, PCs, Locked
  <1>5. Exact(file, ix, m, l)
    BY <1>2, <1>3 DEF Exact
  <1>6. Moves(p, m, ix, l)
    BY <1>2, <1>3, <1>4, <1>5 DEF Moves, Sync
  <1> QED
    BY <1>6, MoveKeepsXInv

LEMMA PrefixType ==
  ASSUME NEW f \in Seq(Piece), NEW n \in Nat, n <= Len(f)
  PROVE  Prefix(f, n) \in Seq(Piece) /\ Len(Prefix(f, n)) = n
  <1>1. \A i \in 1..n : f[i] \in Piece
    OBVIOUS
  <1> QED
    BY <1>1 DEF Prefix

\* What Note makes of an entry that describes the file before the append.
LEMMA EvolvedIsExact ==
  ASSUME NEW f \in Seq(Piece), NEW ix, NEW m \in Mine, Exact(f, ix, m, "note"),
         ix.size = m.before, ix.head = m.prev, Len(f) = m.before + 3, TailHash(f) = m.id
  PROVE  Append(ix.events, m.id) = EventsOf(f)
  <1>1. m.before \in Nat /\ m.id \in Nat /\ m.prev \in Nat /\ m.before <= Len(f)
    BY DEF Mine
  <1>2. PICK h : h = Prefix(f, m.before)
    OBVIOUS
  <1>3. h \in Seq(Piece) /\ Len(h) = m.before /\ \A i \in 1..Len(h) : f[i] = h[i]
    BY <1>1, <1>2, PrefixType DEF Prefix
  <1>4. ix.events = EventsOf(h) /\ \A k \in 1..3 : f[m.before + k] = Encoded(m.id, m.prev)[k]
    BY <1>2 DEF Exact
  <1>5. Extends(f, h, m.id, m.prev)
    BY <1>3, <1>4 DEF Extends
  <1>6. TailHash(f) # -1
    BY <1>1
  <1> QED
    BY <1>1, <1>3, <1>4, <1>5, <1>6, AppendedIsRead

LEMMA NoIndexType == NoIndex \in Entry /\ NoIndex.size = -1
  <1>1. << >> \in Seq(Nat)
    OBVIOUS
  <1> QED
    BY <1>1 DEF NoIndex, Entry

LEMMA MoveNote ==
  ASSUME XInv, NEW p \in Procs, Note(p)
  PROVE  XInv'
  <1>1. PICK m0, ix0, l0 : m0 = mine[p] /\ ix0 = index[p] /\ l0 = pc[p]
    OBVIOUS
  <1>2. /\ m0 \in Mine /\ ix0 \in Entry /\ l0 = "note"
        /\ Shaped(p, m0, l0, lock, attempts)
        /\ Exact(file, ix0, m0, l0) /\ Grown(file, file) /\ file \in Seq(Piece) /\ Len(file) \in Nat
        /\ lock \in Procs \cup {NoProc}
        /\ attempts \in 0..MaxAppends /\ MaxAppends \in Nat /\ acked \subseteq 1..MaxAppends
        /\ cutShort \in BOOLEAN
    BY <1>1, Standing DEF Note
  <1>3. PICK es : es = Append(ix0.events, m0.id)
    OBVIOUS
  <1>4. PICK ix : ix = IF ix0.size # m0.before \/ ix0.head # m0.prev THEN NoIndex
                       ELSE [size |-> m0.before + 3, head |-> m0.id, events |-> es]
    OBVIOUS
  <1>5. PICK m : m = [m0 EXCEPT !.ok = TRUE]
    OBVIOUS
  <1>6. /\ m \in Mine /\ m.id = m0.id
        /\ m0.before \in Nat /\ m0.id \in Nat /\ m0.prev \in Nat /\ ix0.events \in Seq(Nat)
    BY <1>2, <1>5 DEF Mine, Entry
  <1>7. es \in Seq(Nat)
    BY <1>3, <1>6
  <1>8. Exact(file, ix, m, "unlock")
    <2>1. CASE ix = NoIndex
      BY <1>2, <2>1, NoIndexType DEF Exact
    <2>2. CASE ix0.size = m0.before /\ ix0.head = m0.prev
      <3>1. ix = [size |-> m0.before + 3, head |-> m0.id, events |-> es]
        BY <1>4, <2>2
      <3>2. ix \in Entry /\ ix.size = m0.before + 3 /\ ix.head = m0.id /\ ix.events = es
        BY <1>6, <1>7, <3>1 DEF Entry
      <3>3. m0.before + 3 <= Len(file)
        BY <1>2 DEF Exact
      <3>4. ix.size = Len(file) /\ ix.head = TailHash(file) => ix.events = EventsOf(file)
        BY <1>2, <1>3, <2>2, <3>2, EvolvedIsExact
      <3> QED
        BY <3>2, <3>3, <3>4 DEF Exact
    <2> QED
      BY <1>4, <2>1, <2>2
  <1>9. Shaped(p, m, "unlock", lock, attempts)
    BY <1>2, <1>6 DEF Shaped, PCs, Locked
  <1>10. /\ index' = [index EXCEPT ![p] = ix] /\ mine' = [mine EXCEPT ![p] = m]
         /\ pc' = [pc EXCEPT ![p] = "unlock"]
    BY <1>1, <1>3, <1>4, <1>5 DEF Note, Goto
  <1>11. Moves(p, m, ix, "unlock")
    <2>1. UNCHANGED <<file, lock, attempts, acked, cutShort>>
      BY DEF Note
    <2> QED
      BY <1>2, <1>8, <1>9, <1>10, <2>1 DEF Moves
  <1> QED
    BY <1>11, MoveKeepsXInv

LEMMA MoveUnlock ==
  ASSUME XInv, NEW p \in Procs, Unlock(p)
  PROVE  XInv'
  <1>1. PICK m, ix, l0 : m = mine[p] /\ ix = index[p] /\ l0 = pc[p]
    OBVIOUS
  <1>2. /\ m \in Mine /\ ix \in Entry /\ index = [index EXCEPT ![p] = ix] /\ l0 = "unlock"
        /\ mine = [mine EXCEPT ![p] = m]
        /\ Shaped(p, m, l0, lock, attempts)
        /\ Exact(file, ix, m, l0) /\ Grown(file, file)
        /\ attempts \in 0..MaxAppends /\ MaxAppends \in Nat /\ acked \subseteq 1..MaxAppends
        /\ cutShort \in BOOLEAN
    BY <1>1, Standing DEF Unlock
  <1>3. lock = p
    BY <1>2 DEF Shaped, Locked
  <1>4. Shaped(p, m, "close", NoProc, attempts)
    BY <1>2 DEF Shaped, PCs, Locked
  <1>5. Exact(file, ix, m, "close")
    BY <1>2 DEF Exact
  <1>6. Moves(p, m, ix, "close")
    BY <1>2, <1>3, <1>4, <1>5 DEF Moves, Unlock, Goto
  <1> QED
    BY <1>6, MoveKeepsXInv

LEMMA MoveClose ==
  ASSUME XInv, NEW p \in Procs, Close(p)
  PROVE  XInv'
  <1>1. PICK m0, ix, l0 : m0 = mine[p] /\ ix = index[p] /\ l0 = pc[p]
    OBVIOUS
  <1>2. /\ m0 \in Mine /\ ix \in Entry /\ index = [index EXCEPT ![p] = ix] /\ l0 = "close"
        /\ Shaped(p, m0, l0, lock, attempts)
        /\ Exact(file, ix, m0, l0) /\ file \in Seq(Piece) /\ Len(file) \in Nat
        /\ lock \in Procs \cup {NoProc}
        /\ attempts \in 0..MaxAppends /\ MaxAppends \in Nat /\ acked \subseteq 1..MaxAppends
        /\ cutShort \in BOOLEAN
    BY <1>1, Standing DEF Close
  <1>3. PICK b : b = m0.buffer
    OBVIOUS
  <1>4. b \in Seq(Piece)
    BY <1>2, <1>3 DEF Mine
  <1>5. PICK n \in 0..Len(b) : file' = file \o SubSeq(b, 1, n)
    BY <1>1, <1>3 DEF Close
  <1>6. Grown(file, file')
    <2>1. PICK g : g = file \o SubSeq(b, 1, n)
      OBVIOUS
    <2>2. /\ g \in Seq(Piece) /\ Len(g) = Len(file) + n /\ n \in Nat
          /\ \A i \in 1..Len(file) : g[i] = file[i]
      BY <1>2, <1>4, <2>1, FlushShape
    <2>3. Grown(file, g)
      BY <1>2, <2>2 DEF Grown
    <2> QED
      BY <1>5, <2>1, <2>3
  <1>7. NoAppend \in Mine
    BY NoAppendType
  <1>8. Shaped(p, NoAppend, "idle", lock, attempts)
    BY <1>7 DEF Shaped, PCs, Locked
  <1>9. Exact(file', ix, NoAppend, "idle")
    <2>1. Exact(file, ix, NoAppend, "idle")
      BY <1>2 DEF Exact
    <2> QED
      BY <1>6, <1>7, <2>1, ExactIsKept
  <1>10. acked' \subseteq 1..MaxAppends
    <2>1. m0.id \in 1..MaxAppends
      BY <1>2 DEF Shaped
    <2>2. acked' = IF m0.ok THEN acked \cup {m0.id} ELSE acked
      BY <1>1 DEF Close
    <2> QED
      BY <1>2, <2>1, <2>2
  <1>11. Moves(p, NoAppend, ix, "idle")
    <2>1. /\ UNCHANGED <<lock, index, attempts, cutShort>>
          /\ mine' = [mine EXCEPT ![p] = NoAppend] /\ pc' = [pc EXCEPT ![p] = "idle"]
      BY DEF Close, Goto
    <2> QED
      BY <1>2, <1>6, <1>8, <1>9, <1>10, <2>1 DEF Moves
  <1> QED
    BY <1>11, MoveKeepsXInv

LEMMA MoveKill ==
  ASSUME XInv, NEW p \in Procs, Kill(p)
  PROVE  XInv'
  <1>1. /\ Grown(file, file) /\ file \in Seq(Piece) /\ Len(file) \in Nat
        /\ lock \in Procs \cup {NoProc}
        /\ attempts \in 0..MaxAppends /\ MaxAppends \in Nat /\ acked \subseteq 1..MaxAppends
        /\ cutShort \in BOOLEAN
    BY Standing
  <1>2. NoAppend \in Mine /\ NoIndex \in Entry /\ NoIndex.size = -1
    BY NoAppendType, NoIndexType
  <1>3. Shaped(p, NoAppend, "idle", lock', attempts)
    BY <1>2 DEF Shaped, PCs, Locked
  <1>4. Exact(file, NoIndex, NoAppend, "idle")
    BY <1>1, <1>2 DEF Exact
  <1>5. Moves(p, NoAppend, NoIndex, "idle")
    <2>1. /\ UNCHANGED <<file, attempts, acked, cutShort>>
          /\ mine' = [mine EXCEPT ![p] = NoAppend] /\ pc' = [pc EXCEPT ![p] = "idle"]
          /\ index' = [index EXCEPT ![p] = NoIndex]
          /\ lock' = IF lock = p THEN NoProc ELSE lock
      BY DEF Kill, Goto
    <2> QED
      BY <1>1, <1>3, <1>4, <2>1 DEF Moves
  <1> QED
    BY <1>5, MoveKeepsXInv

LEMMA XInvStarts == Init => XInv
  <1> SUFFICES ASSUME Init PROVE XInv
    OBVIOUS
  <1>1. NoAppend \in Mine /\ NoIndex \in Entry /\ NoIndex.size = -1
    BY NoAppendType, NoIndexType
  <1>2. file \in Seq(Piece) /\ Len(file) = 0
    BY DEF Init
  <1>3. Frame
    <2>1. pc \in [Procs -> PCs] /\ mine \in [Procs -> Mine] /\ index \in [Procs -> Entry]
      BY <1>1 DEF Init, PCs
    <2>2. attempts \in 0..MaxAppends /\ acked \subseteq 1..MaxAppends
      BY FileAssumption DEF Init
    <2> QED
      BY <1>2, <2>1, <2>2 DEF Init, Frame
  <1>4. ASSUME NEW p \in Procs
        PROVE  Shaped(p, mine[p], pc[p], lock, attempts) /\ Exact(file, index[p], mine[p], pc[p])
    <2>1. mine[p] = NoAppend /\ pc[p] = "idle" /\ index[p] = NoIndex
      BY DEF Init
    <2>2. Shaped(p, NoAppend, "idle", lock, attempts)
      BY <1>1 DEF Shaped, PCs, Locked
    <2>3. Exact(file, NoIndex, NoAppend, "idle")
      BY <1>1, <1>2 DEF Exact
    <2> QED
      BY <2>1, <2>2, <2>3
  <1> QED
    BY <1>3, <1>4 DEF XInv

LEMMA XInvIsKept == XInv /\ [Next]_vars => XInv'
  <1> SUFFICES ASSUME XInv, [Next]_vars PROVE XInv'
    OBVIOUS
  <1>1. CASE UNCHANGED vars
    BY <1>1 DEF vars, XInv, Frame
  <1>2. CASE Next
    <2>1. PICK p \in Procs :
            \/ Acquire(p) \/ ReadState(p) \/ GetTables(p) \/ ReadTail(p)
            \/ Write(p) \/ Flush(p) \/ Sync(p) \/ Note(p) \/ Unlock(p) \/ Close(p)
            \/ Kill(p)
      BY <1>2 DEF Next
    <2> QED
      BY <2>1, MoveAcquire, MoveReadState, MoveGetTables, MoveReadTail, MoveWrite, MoveFlush,
         MoveSync, MoveNote, MoveUnlock, MoveClose, MoveKill
  <1> QED
    BY <1>1, <1>2

LEMMA XInvHolds == Spec => []XInv
  BY XInvStarts, XInvIsKept, PTL DEF Spec

(***************************************************************************)
(* The file, its lock, every append's locals and every index entry keep    *)
(* their types, for any processes and faults (JournalFile.append_event).   *)
(***************************************************************************)
THEOREM FileTypes == Spec => []TypeOK
  <1>1. XInv => TypeOK
    BY DEF XInv, Frame, TypeOK, Mine, Entry
  <1> QED
    BY <1>1, XInvHolds, PTL

(***************************************************************************)
(* An index entry that matches the file's size and head holds what a full  *)
(* scan would find, for any number of processes and any faults             *)
(* (_cached_idem_tables, _note_idem_append).                               *)
(***************************************************************************)
THEOREM IndexIsAlwaysExact == Spec => []IndexIsExact
  <1>1. XInv => IndexIsExact
    BY DEF XInv, Exact, IndexIsExact
  <1> QED
    BY <1>1, XInvHolds, PTL

-----------------------------------------------------------------------------
(* The chain, while no write was cut short: the file is whole events.      *)

IsEvent(f, i) ==
  /\ i + 2 <= Len(f)
  /\ f[i].part = "head"
  /\ f[i + 1] = [f[i] EXCEPT !.part = "tail"]
  /\ f[i + 2].part = "eol"

Whole(f) ==
  /\ f # << >> => IsEvent(f, 1) /\ f[1].prev = 0 /\ f[Len(f)].part = "eol"
  /\ \A i \in 1..Len(f) :
       /\ f[i].part = "head" => IsEvent(f, i)
       /\ f[i].part = "tail" => i > 1 /\ f[i - 1].part = "head"
       /\ f[i].part = "eol" => i > 2 /\ f[i - 1].part = "tail"
       /\ f[i].part = "eol" /\ i < Len(f) =>
            f[i + 1].part = "head" /\ f[i + 1].prev = f[i - 2].id

HasEvent(f, id) == \E i \in 1..Len(f) : f[i].part = "head" /\ f[i].id = id

\* What an append under way has of the chain.
Chaining(f, m, l) ==
  /\ l # "flush" => m.buffer = << >>
  /\ l \in {"write", "flush"} => m.prev = TailHash(f)
  /\ l \in {"sync", "note"} \/ m.ok => HasEvent(f, m.id)

WholeInv ==
  /\ Whole(file)
  /\ \A p \in Procs : Chaining(file, mine[p], pc[p])
  /\ \A id \in acked : HasEvent(file, id)

CInv == XInv /\ (~cutShort => WholeInv)

-----------------------------------------------------------------------------
(* Whole files.                                                            *)

LEMMA PartsOfPieces ==
  ASSUME NEW f \in Seq(Piece)
  PROVE  \A i \in 1..Len(f) : f[i] \in Piece /\ f[i].part \in {"head", "tail", "eol"} /\ f[i].id \in Nat
  <1>1. \A i \in 1..Len(f) : f[i] \in Piece
    OBVIOUS
  <1> QED
    BY <1>1 DEF Piece

LEMMA WholeEvent ==
  ASSUME NEW f \in Seq(Piece), Whole(f), NEW i \in 1..Len(f), f[i].part = "head"
  PROVE  /\ i + 2 <= Len(f) /\ i + 1 \in 1..Len(f) /\ i + 2 \in 1..Len(f)
         /\ f[i + 1] = [f[i] EXCEPT !.part = "tail"]
         /\ f[i + 1].part = "tail" /\ f[i + 2].part = "eol"
         /\ Parses(f, i)
  <1>1. f[i] \in Piece /\ Len(f) \in Nat
    BY PartsOfPieces
  <1>2. IsEvent(f, i)
    BY DEF Whole
  <1>3. /\ i + 2 <= Len(f) /\ f[i + 1] = [f[i] EXCEPT !.part = "tail"] /\ f[i + 2].part = "eol"
    BY <1>2 DEF IsEvent
  <1>4. f[i + 1].part = "tail"
    BY <1>1, <1>3 DEF Piece
  <1>5. i < Len(f) /\ i + 1 \in 1..Len(f) /\ i + 2 \in 1..Len(f)
    BY <1>1, <1>3
  <1> QED
    BY <1>3, <1>4, <1>5 DEF Parses

\* The piece before the head of an event is a newline.
LEMMA WholeBefore ==
  ASSUME NEW f \in Seq(Piece), Whole(f), NEW i \in 1..Len(f), f[i].part = "head", i # 1
  PROVE  i - 1 \in 1..Len(f) /\ f[i - 1].part = "eol"
  <1>1. i - 1 \in 1..Len(f) /\ Len(f) \in Nat /\ (i - 1) + 1 = i /\ (i - 1) - 1 = i - 2 /\ (i - 2) + 2 = i
    OBVIOUS
  <1>2. f[i - 1].part # "head"
    <2> SUFFICES ASSUME f[i - 1].part = "head" PROVE FALSE
      OBVIOUS
    <2>1. f[(i - 1) + 1].part = "tail"
      BY <1>1, WholeEvent
    <2> QED
      BY <1>1, <2>1
  <1>3. f[i - 1].part # "tail"
    <2> SUFFICES ASSUME f[i - 1].part = "tail" PROVE FALSE
      OBVIOUS
    <2>1. i - 1 > 1 /\ f[(i - 1) - 1].part = "head"
      BY <1>1 DEF Whole
    <2>2. i - 2 \in 1..Len(f) /\ f[i - 2].part = "head"
      BY <1>1, <2>1
    <2>3. f[(i - 2) + 2].part = "eol"
      BY <2>2, WholeEvent
    <2> QED
      BY <1>1, <2>3
  <1> QED
    BY <1>1, <1>2, <1>3, PartsOfPieces

LEMMA WholeStarts ==
  ASSUME NEW f \in Seq(Piece), Whole(f)
  PROVE  /\ LineStarts(f) = {i \in 1..Len(f) : f[i].part = "head"}
         /\ Readable(f) = LineStarts(f)
  <1>1. ASSUME NEW i \in 1..Len(f), f[i].part = "head" PROVE i \in LineStarts(f)
    BY <1>1, WholeBefore DEF LineStarts
  <1>2. ASSUME NEW i \in LineStarts(f) PROVE f[i].part = "head"
    <2>1. i \in 1..Len(f) /\ f[i].part # "eol" /\ (i = 1 \/ f[i - 1].part = "eol")
      BY DEF LineStarts
    <2>2. f[i].part # "tail"
      BY <2>1 DEF Whole
    <2> QED
      BY <2>1, <2>2, PartsOfPieces
  <1>3. LineStarts(f) = {i \in 1..Len(f) : f[i].part = "head"}
    <2>1. LineStarts(f) \subseteq 1..Len(f)
      BY DEF LineStarts
    <2> QED
      BY <1>1, <1>2, <2>1
  <1>4. \A i \in LineStarts(f) : Parses(f, i)
    BY <1>3, WholeEvent
  <1> QED
    BY <1>3, <1>4 DEF Readable

\* Where the event of a newline starts.
LEMMA WholeBack ==
  ASSUME NEW f \in Seq(Piece), Whole(f), NEW i \in 1..Len(f), f[i].part = "eol"
  PROVE  /\ i > 2 /\ i - 2 \in 1..Len(f) /\ i - 1 \in 1..Len(f)
         /\ f[i - 1].part = "tail" /\ f[i - 2].part = "head"
  <1>1. i > 2 /\ f[i - 1].part = "tail"
    BY DEF Whole
  <1>2. i - 1 \in 1..Len(f) /\ i - 2 \in 1..Len(f) /\ (i - 1) - 1 = i - 2
    BY <1>1
  <1>3. f[(i - 1) - 1].part = "head"
    BY <1>1, <1>2 DEF Whole
  <1> QED
    BY <1>1, <1>2, <1>3

\* The last line that starts before place k, when k - 1 is a newline.
LEMMA WholeLast ==
  ASSUME NEW f \in Seq(Piece), Whole(f), NEW k \in Nat, k - 1 \in 1..Len(f), f[k - 1].part = "eol"
  PROVE  /\ k - 3 \in 1..Len(f) /\ f[k - 3].part = "head"
         /\ k - 3 \in LineStarts(f)
         /\ Max({i \in LineStarts(f) : i < k}) = k - 3
  <1>1. PICK e \in 1..Len(f) : e = k - 1
    OBVIOUS
  <1>2. /\ e > 2 /\ e - 2 \in 1..Len(f) /\ f[e].part = "eol" /\ f[e - 1].part = "tail" /\ f[e - 2].part = "head"
    BY <1>1, WholeBack
  <1>3. PICK m : m = e - 2
    OBVIOUS
  <1>4. /\ m = k - 3 /\ m + 1 = e - 1 /\ m + 2 = e /\ m \in 1..Len(f) /\ m < k
        /\ f[m].part = "head" /\ f[m + 1].part = "tail" /\ f[m + 2].part = "eol"
    BY <1>1, <1>2, <1>3
  <1>5. LineStarts(f) = {i \in 1..Len(f) : f[i].part = "head"}
    BY WholeStarts
  <1> DEFINE S == {i \in LineStarts(f) : i < k}
  <1>6. m \in S /\ S \subseteq 0..Len(f) /\ Len(f) \in Nat
    BY <1>4, <1>5
  <1>7. \A i \in S : i <= m
    <2>1. ASSUME NEW i \in S PROVE i <= m
      <3>1. i \in 1..Len(f) /\ i < k /\ f[i].part = "head"
        BY <1>5
      <3>2. i # m + 1 /\ i # m + 2
        BY <1>4, <3>1
      <3> QED
        BY <1>4, <3>1, <3>2
    <2> QED
      BY <2>1
  <1>8. Max(S) = m
    <2>1. PICK x \in S : x = Max(S) /\ \A i \in S : i <= x
      BY <1>6, MaxIsMember
    <2>2. x <= m /\ m <= x /\ x \in Nat /\ m \in Nat
      BY <1>6, <1>7, <2>1
    <2> QED
      BY <2>1, <2>2
  <1> QED
    BY <1>4, <1>5, <1>8

LEMMA WholeTail ==
  ASSUME NEW f \in Seq(Piece), Whole(f)
  PROVE  /\ TailHash(f) \in Nat
         /\ f = << >> => TailHash(f) = 0
         /\ f # << >> => Len(f) > 2 /\ f[Len(f)].part = "eol" /\ TailHash(f) = f[Len(f) - 2].id
  <1>1. CASE f = << >>
    <2>1. LineStarts(f) = {}
      BY <1>1 DEF LineStarts
    <2> QED
      BY <1>1, <2>1 DEF TailHash
  <1>2. CASE f # << >>
    <2>1. PICK k : k = Len(f) + 1
      OBVIOUS
    <2>2. k \in Nat /\ k - 1 = Len(f) /\ k - 1 \in 1..Len(f) /\ k - 3 = Len(f) - 2
      BY <1>2, <2>1
    <2>3. f[Len(f)].part = "eol"
      BY <1>2 DEF Whole
    <2>4. /\ k - 3 \in 1..Len(f) /\ f[k - 3].part = "head" /\ k - 3 \in LineStarts(f)
          /\ Max({i \in LineStarts(f) : i < k}) = k - 3
      BY <2>2, <2>3, WholeLast
    <2>5. {i \in LineStarts(f) : i < k} = LineStarts(f)
      <3>1. \A i \in LineStarts(f) : i \in 1..Len(f)
        BY DEF LineStarts
      <3> QED
        BY <2>1, <3>1
    <2>6. Parses(f, k - 3)
      BY <2>4, WholeEvent
    <2>7. TailHash(f) = f[k - 3].id
      BY <2>4, <2>5, <2>6 DEF TailHash
    <2>8. f[k - 3].id \in Nat
      BY <2>4, PartsOfPieces
    <2> QED
      BY <1>2, <2>2, <2>3, <2>4, <2>7, <2>8
  <1> QED
    BY <1>1, <1>2

LEMMA HasEventGrown ==
  ASSUME NEW f, NEW g, Grown(f, g), NEW id, HasEvent(f, id)
  PROVE  HasEvent(g, id)
  <1>1. PICK i \in 1..Len(f) : f[i].part = "head" /\ f[i].id = id
    BY DEF HasEvent
  <1>2. i \in 1..Len(g) /\ g[i] = f[i]
    BY DEF Grown
  <1> QED
    BY <1>1, <1>2 DEF HasEvent

\* An event that names the last one before it leaves the file whole.
LEMMA WholeGrows ==
  ASSUME NEW f \in Seq(Piece), Whole(f), NEW g, NEW id \in Nat, NEW prev \in Nat,
         Extends(g, f, id, prev), prev = TailHash(f)
  PROVE  Whole(g) /\ HasEvent(g, id) /\ Grown(f, g)
  <1> DEFINE L == Len(f)
  <1>1. /\ L \in Nat /\ g \in Seq(Piece) /\ Len(g) = L + 3
        /\ \A i \in 1..L : g[i] = f[i]
    BY DEF Extends
  <1>2. /\ g[L + 1] = [id |-> id, prev |-> prev, part |-> "head"]
        /\ g[L + 2] = [id |-> id, prev |-> prev, part |-> "tail"]
        /\ g[L + 3] = [id |-> id, prev |-> prev, part |-> "eol"]
        /\ \A i \in 1..Len(g) : i \in 1..L \/ i = L + 1 \/ i = L + 2 \/ i = L + 3
    BY ExtendsPieces
  <1>3. /\ g[L + 1].part = "head" /\ g[L + 2].part = "tail" /\ g[L + 3].part = "eol"
        /\ g[L + 1].id = id /\ g[L + 1].prev = prev /\ g[L + 2] = [g[L + 1] EXCEPT !.part = "tail"]
    BY <1>2
  <1>4. IsEvent(g, L + 1)
    BY <1>1, <1>3 DEF IsEvent
  <1>5. /\ L = 0 => prev = 0
        /\ L # 0 => L > 2 /\ f[L].part = "eol" /\ prev = f[L - 2].id
    BY <1>1, WholeTail
  <1> HIDE DEF L
  <1>6. ASSUME NEW i \in 1..L
        PROVE  /\ g[i].part = "head" => IsEvent(g, i)
               /\ g[i].part = "tail" => i > 1 /\ g[i - 1].part = "head"
               /\ g[i].part = "eol" => i > 2 /\ g[i - 1].part = "tail"
               /\ g[i].part = "eol" /\ i < Len(g) =>
                    g[i + 1].part = "head" /\ g[i + 1].prev = g[i - 2].id
    <2>1. i \in 1..Len(f) /\ g[i] = f[i] /\ (i > 1 => g[i - 1] = f[i - 1]) /\ (i > 2 => g[i - 2] = f[i - 2])
      BY <1>1 DEF L
    <2>2. ASSUME g[i].part = "head" PROVE IsEvent(g, i)
      <3>1. /\ i + 2 <= Len(f) /\ i + 1 \in 1..Len(f) /\ i + 2 \in 1..Len(f)
            /\ f[i + 1] = [f[i] EXCEPT !.part = "tail"] /\ f[i + 2].part = "eol"
        <4>1. i \in 1..Len(f) /\ f[i].part = "head"
          BY <2>1, <2>2
        <4> QED
          BY <4>1, WholeEvent
      <3>2. g[i + 1] = f[i + 1] /\ g[i + 2] = f[i + 2] /\ i + 2 <= Len(g)
        BY <1>1, <3>1 DEF L
      <3> QED
        BY <2>1, <2>2, <3>1, <3>2 DEF IsEvent
    <2>3. ASSUME g[i].part = "tail" PROVE i > 1 /\ g[i - 1].part = "head"
      BY <2>1, <2>3 DEF Whole
    <2>4. ASSUME g[i].part = "eol" PROVE i > 2 /\ g[i - 1].part = "tail"
      BY <2>1, <2>4 DEF Whole
    <2>5. ASSUME g[i].part = "eol", i < Len(g)
          PROVE  g[i + 1].part = "head" /\ g[i + 1].prev = g[i - 2].id
      <3>1. CASE i = L
        BY <1>3, <1>5, <2>1, <2>4, <2>5, <3>1
      <3>2. CASE i # L
        <4>1. i < Len(f) /\ g[i + 1] = f[i + 1]
          BY <1>1, <3>2 DEF L
        <4>2. f[i + 1].part = "head" /\ f[i + 1].prev = f[i - 2].id
          BY <2>1, <2>5, <4>1 DEF Whole
        <4> QED
          BY <2>1, <2>4, <2>5, <4>1, <4>2
      <3> QED
        BY <3>1, <3>2
    <2> QED
      BY <2>2, <2>3, <2>4, <2>5
  <1>7. ASSUME NEW i \in 1..Len(g)
        PROVE  /\ g[i].part = "head" => IsEvent(g, i)
               /\ g[i].part = "tail" => i > 1 /\ g[i - 1].part = "head"
               /\ g[i].part = "eol" => i > 2 /\ g[i - 1].part = "tail"
               /\ g[i].part = "eol" /\ i < Len(g) =>
                    g[i + 1].part = "head" /\ g[i + 1].prev = g[i - 2].id
    <2>1. CASE i \in 1..L
      BY <1>6, <2>1
    <2>2. CASE i = L + 1
      BY <1>3, <1>4, <2>2
    <2>3. CASE i = L + 2
      <3>1. i - 1 = L + 1 /\ i > 1
        BY <1>1, <2>3
      <3> QED
        BY <1>3, <2>3, <3>1
    <2>4. CASE i = L + 3
      <3>1. i - 1 = L + 2 /\ i > 2 /\ ~(i < Len(g))
        BY <1>1, <2>4
      <3> QED
        BY <1>3, <2>4, <3>1
    <2> QED
      BY <1>2, <2>1, <2>2, <2>3, <2>4 DEF L
  <1>8. IsEvent(g, 1) /\ g[1].prev = 0 /\ g[Len(g)].part = "eol"
    <2>1. g[Len(g)].part = "eol"
      BY <1>1, <1>3
    <2>2. CASE L = 0
      BY <1>3, <1>4, <1>5, <2>1, <2>2
    <2>3. CASE L # 0
      <3>1. 1 \in 1..L /\ g[1] = f[1] /\ f # << >>
        BY <1>1, <2>3 DEF L
      <3>2. IsEvent(f, 1) /\ f[1].prev = 0
        BY <3>1 DEF Whole
      <3>3. g[1].part = "head"
        BY <3>1, <3>2 DEF IsEvent
      <3> QED
        BY <1>6, <2>1, <3>1, <3>2, <3>3
    <2> QED
      BY <2>2, <2>3
  <1>9. Whole(g)
    BY <1>7, <1>8 DEF Whole
  <1>10. HasEvent(g, id)
    <2>1. L + 1 \in 1..Len(g)
      BY <1>1
    <2> QED
      BY <1>3, <2>1 DEF HasEvent
  <1>11. Grown(f, g)
    BY <1>1 DEF Grown, L
  <1> QED
    BY <1>9, <1>10, <1>11

LEMMA WholeIsChained ==
  ASSUME file \in Seq(Piece), Whole(file)
  PROVE  ChainIntact
  <1> SUFFICES ASSUME NEW i \in LineStarts(file), Parses(file, i)
               PROVE  IF LineBefore(i) = 0 THEN file[i].prev = 0
                      ELSE Parses(file, LineBefore(i)) /\ file[i].prev = file[LineBefore(i)].id
    BY DEF ChainIntact
  <1>1. i \in 1..Len(file) /\ file[i].part = "head"
    BY WholeStarts
  <1>2. CASE i = 1
    <2>1. {s \in LineStarts(file) : s < i} = {}
      BY <1>2 DEF LineStarts
    <2>2. LineBefore(i) = 0
      BY <2>1 DEF LineBefore
    <2>3. file # << >>
      BY <1>1
    <2>4. file[1].prev = 0
      BY <2>3 DEF Whole
    <2> QED
      BY <1>2, <2>2, <2>4
  <1>3. CASE i # 1
    <2>1. i \in Nat /\ i - 1 \in 1..Len(file) /\ file[i - 1].part = "eol" /\ i - 1 < Len(file)
      BY <1>1, <1>3, WholeBefore
    <2>2. /\ i - 3 \in 1..Len(file) /\ file[i - 3].part = "head" /\ i - 3 \in LineStarts(file)
          /\ Max({s \in LineStarts(file) : s < i}) = i - 3
      BY <2>1, WholeLast
    <2>3. LineBefore(i) = i - 3
      <3>1. i - 3 \in {s \in LineStarts(file) : s < i}
        BY <2>1, <2>2
      <3> QED
        BY <2>2, <3>1 DEF LineBefore
    <2>4. Parses(file, i - 3)
      BY <2>2, WholeEvent
    <2>5. file[i].prev = file[i - 3].id
      <3>1. PICK e \in 1..Len(file) : e = i - 1
        BY <2>1
      <3>2. file[e].part = "eol" /\ e < Len(file) /\ e + 1 = i /\ e - 2 = i - 3
        BY <2>1, <3>1
      <3>3. file[e + 1].prev = file[e - 2].id
        BY <3>2 DEF Whole
      <3> QED
        BY <3>2, <3>3
    <2>6. i - 3 # 0
      BY <2>2
    <2> QED
      BY <2>3, <2>4, <2>5, <2>6
  <1> QED
    BY <1>2, <1>3

-----------------------------------------------------------------------------
(* The chain, step by step.                                                *)

\* p now has locals m and place l, and only a holder of the lock writes.
MovesWhole(p, m, l, f) ==
  /\ mine' = [mine EXCEPT ![p] = m]
  /\ pc' = [pc EXCEPT ![p] = l]
  /\ file' = f
  /\ f = file \/ (lock = p /\ Grown(file, f))
  /\ Whole(f)
  /\ Chaining(f, m, l)
  /\ \A id \in acked' : HasEvent(f, id)

LEMMA MoveKeepsWhole ==
  ASSUME XInv, WholeInv, NEW p \in Procs, NEW m, NEW l, NEW f, MovesWhole(p, m, l, f)
  PROVE  WholeInv'
  <1>1. /\ DOMAIN mine = Procs /\ DOMAIN pc = Procs
        /\ mine'[p] = m /\ pc'[p] = l
        /\ \A q \in Procs : q # p => mine'[q] = mine[q] /\ pc'[q] = pc[q]
    BY DEF MovesWhole, XInv, Frame
  <1>2. ASSUME NEW q \in Procs PROVE Chaining(file', mine'[q], pc'[q])
    <2>1. CASE q = p
      BY <1>1, <2>1 DEF MovesWhole
    <2>2. CASE q # p
      <3>1. PICK m0, l0 : m0 = mine[q] /\ l0 = pc[q]
        OBVIOUS
      <3>2. mine'[q] = m0 /\ pc'[q] = l0
        BY <1>1, <2>2, <3>1
      <3>3. Chaining(file, m0, l0)
        BY <3>1 DEF WholeInv
      <3>4. CASE f = file
        BY <3>2, <3>3, <3>4 DEF MovesWhole
      <3>5. CASE lock = p /\ Grown(file, f)
        <4>1. l0 \notin {"write", "flush"}
          BY <2>2, <3>1, <3>5 DEF XInv, Shaped, Locked
        <4>2. HasEvent(file, m0.id) => HasEvent(f, m0.id)
          BY <3>5, HasEventGrown
        <4>3. Chaining(f, m0, l0)
          BY <3>3, <4>1, <4>2 DEF Chaining
        <4> QED
          BY <3>2, <4>3 DEF MovesWhole
      <3> QED
        BY <3>4, <3>5 DEF MovesWhole
    <2> QED
      BY <2>1, <2>2
  <1>3. Whole(file') /\ \A id \in acked' : HasEvent(file', id)
    BY DEF MovesWhole
  <1> QED
    BY <1>2, <1>3 DEF WholeInv

\* The steps that leave the file and the acknowledged events as they are.
LEMMA QuietKeepsWhole ==
  ASSUME XInv, WholeInv, NEW p \in Procs, NEW m, NEW l,
         mine' = [mine EXCEPT ![p] = m], pc' = [pc EXCEPT ![p] = l],
         Chaining(file, m, l), UNCHANGED <<file, acked>>
  PROVE  WholeInv'
  <1>1. MovesWhole(p, m, l, file)
    BY DEF MovesWhole, WholeInv
  <1> QED
    BY <1>1, MoveKeepsWhole

LEMMA WholeStanding ==
  ASSUME XInv, WholeInv, NEW p \in Procs, NEW m, m = mine[p], NEW l, l = pc[p]
  PROVE  /\ m \in Mine /\ l \in PCs /\ mine = [mine EXCEPT ![p] = m]
         /\ Shaped(p, m, l, lock, attempts) /\ Chaining(file, m, l)
         /\ file \in Seq(Piece) /\ Whole(file) /\ \A id \in acked : HasEvent(file, id)
  BY DEF XInv, Frame, WholeInv

LEMMA WholeAcquire ==
  ASSUME XInv, WholeInv, NEW p \in Procs, Acquire(p)
  PROVE  WholeInv'
  <1>1. PICK m : m = [NoAppend EXCEPT !.id = attempts + 1]
    OBVIOUS
  <1>2. PICK l \in {"state", "tail"} : pc' = [pc EXCEPT ![p] = l]
    BY DEF Acquire, Goto
  <1>3. m.buffer = << >> /\ m.ok = FALSE
    BY <1>1 DEF NoAppend
  <1>4. Chaining(file, m, l)
    BY <1>2, <1>3 DEF Chaining
  <1> QED
    BY <1>1, <1>2, <1>4, QuietKeepsWhole DEF Acquire

LEMMA WholeReadState ==
  ASSUME XInv, WholeInv, NEW p \in Procs, ReadState(p)
  PROVE  WholeInv'
  <1>1. PICK m0, l0 : m0 = mine[p] /\ l0 = pc[p]
    OBVIOUS
  <1>2. PICK size, head : size = Len(file) /\ head = TailHash(file)
    OBVIOUS
  <1>3. PICK l : l = IF head = -1 THEN "tail" ELSE "tables"
    OBVIOUS
  <1>4. m0 \in Mine /\ l0 = "state" /\ Chaining(file, m0, l0)
    BY <1>1, WholeStanding DEF ReadState
  <1>5. PICK m1 : m1 = [m0 EXCEPT !.size = size]
    OBVIOUS
  <1>6. PICK m : m = [m1 EXCEPT !.head = head]
    OBVIOUS
  <1>7. m.buffer = m0.buffer /\ m.ok = m0.ok /\ m.id = m0.id
    <2>1. m1.buffer = m0.buffer /\ m1.ok = m0.ok /\ m1.id = m0.id
      BY <1>4, <1>5 DEF Mine
    <2> QED
      BY <1>4, <1>5, <1>6, <2>1 DEF Mine
  <1>8. Chaining(file, m, l)
    BY <1>3, <1>4, <1>7 DEF Chaining
  <1>9. mine' = [mine EXCEPT ![p] = m] /\ pc' = [pc EXCEPT ![p] = l]
    BY <1>1, <1>2, <1>3, <1>5, <1>6 DEF ReadState, Goto, XInv, Frame
  <1>10. UNCHANGED <<file, acked>>
    BY DEF ReadState
  <1> QED
    BY <1>8, <1>9, <1>10, QuietKeepsWhole

LEMMA WholeReadTail ==
  ASSUME XInv, WholeInv, NEW p \in Procs, ReadTail(p)
  PROVE  WholeInv'
  <1>1. PICK m0, l0 : m0 = mine[p] /\ l0 = pc[p]
    OBVIOUS
  <1>2. PICK head : head = TailHash(file)
    OBVIOUS
  <1>3. m0 \in Mine /\ l0 = "tail" /\ Chaining(file, m0, l0) /\ file \in Seq(Piece) /\ Whole(file)
    BY <1>1, WholeStanding DEF ReadTail
  <1>4. head # -1
    <2>1. head \in Nat
      BY <1>2, <1>3, WholeTail
    <2> QED
      BY <2>1
  <1>5. PICK m : m = [m0 EXCEPT !.prev = head]
    OBVIOUS
  <1>6. m.buffer = m0.buffer /\ m.ok = m0.ok /\ m.id = m0.id /\ m.prev = head
    BY <1>3, <1>5 DEF Mine
  <1>7. Chaining(file, m, "write")
    BY <1>2, <1>3, <1>6 DEF Chaining
  <1>8. mine' = [mine EXCEPT ![p] = m] /\ pc' = [pc EXCEPT ![p] = "write"]
    BY <1>1, <1>2, <1>4, <1>5 DEF ReadTail, Goto
  <1>9. UNCHANGED <<file, acked>>
    BY DEF ReadTail
  <1> QED
    BY <1>7, <1>8, <1>9, QuietKeepsWhole

LEMMA WholeWrite ==
  ASSUME XInv, WholeInv, NEW p \in Procs, Write(p)
  PROVE  WholeInv'
  <1>1. PICK m0, l0 : m0 = mine[p] /\ l0 = pc[p]
    OBVIOUS
  <1>2. PICK size, e : size = Len(file) /\ e = Encoded(m0.id, m0.prev)
    OBVIOUS
  <1>3. m0 \in Mine /\ l0 = "write" /\ Chaining(file, m0, l0)
    BY <1>1, WholeStanding DEF Write
  <1>4. PICK m1 : m1 = [m0 EXCEPT !.before = size]
    OBVIOUS
  <1>5. PICK m : m = [m1 EXCEPT !.buffer = e]
    OBVIOUS
  <1>6. m.prev = m0.prev /\ m.ok = m0.ok /\ m.id = m0.id
    <2>1. m1.prev = m0.prev /\ m1.ok = m0.ok /\ m1.id = m0.id
      BY <1>3, <1>4 DEF Mine
    <2> QED
      BY <1>3, <1>4, <1>5, <2>1 DEF Mine
  <1>7. Chaining(file, m, "flush")
    BY <1>3, <1>6 DEF Chaining
  <1>8. mine' = [mine EXCEPT ![p] = m] /\ pc' = [pc EXCEPT ![p] = "flush"]
    BY <1>1, <1>2, <1>4, <1>5 DEF Write, Goto, XInv, Frame
  <1>9. UNCHANGED <<file, acked>>
    BY DEF Write
  <1> QED
    BY <1>7, <1>8, <1>9, QuietKeepsWhole

LEMMA WholeFlush ==
  ASSUME XInv, WholeInv, NEW p \in Procs, Flush(p), ~cutShort'
  PROVE  WholeInv'
  <1>1. PICK m0, l0 : m0 = mine[p] /\ l0 = pc[p]
    OBVIOUS
  <1>2. /\ m0 \in Mine /\ l0 = "flush" /\ Shaped(p, m0, l0, lock, attempts) /\ Chaining(file, m0, l0)
        /\ file \in Seq(Piece) /\ Whole(file) /\ \A id \in acked : HasEvent(file, id)
    BY <1>1, WholeStanding DEF Flush
  <1>3. PICK b : b = m0.buffer
    OBVIOUS
  <1>4. b = Encoded(m0.id, m0.prev) /\ m0.id \in Nat /\ m0.prev \in Nat /\ m0.prev = TailHash(file)
    <2>1. m0.id \in Nat /\ m0.prev \in Nat
      BY <1>2 DEF Mine
    <2> QED
      BY <1>2, <1>3, <2>1 DEF Shaped, Chaining
  <1>5. b \in Seq(Piece) /\ Len(b) = 3
    BY <1>4, EncodedPieces
  <1>6. PICK r, g : r = SubSeq(b, 3 + 1, Len(b)) /\ g = file \o SubSeq(b, 1, 3)
    OBVIOUS
  <1>7. WriteOut(p, 3) /\ pc' = [pc EXCEPT ![p] = "sync"]
    BY DEF Flush, Goto
  <1>8. PICK m : m = [m0 EXCEPT !.buffer = r]
    OBVIOUS
  <1>9. mine' = [mine EXCEPT ![p] = m] /\ file' = g
    BY <1>1, <1>3, <1>5, <1>6, <1>7, <1>8 DEF WriteOut
  <1>10. r = << >>
    BY <1>5, <1>6
  <1>11. Extends(g, file, m0.id, m0.prev)
    <2>1. 3 \in 0..Len(b)
      BY <1>5
    <2>2. /\ g \in Seq(Piece) /\ Len(g) = Len(file) + 3
          /\ \A i \in 1..Len(file) : g[i] = file[i]
          /\ \A k \in 1..3 : g[Len(file) + k] = b[k]
      BY <1>2, <1>5, <1>6, <2>1, FlushShape
    <2> QED
      BY <1>4, <2>2 DEF Extends
  <1>12. Whole(g) /\ HasEvent(g, m0.id) /\ Grown(file, g)
    BY <1>2, <1>4, <1>11, WholeGrows
  <1>13. m.buffer = << >> /\ m.id = m0.id
    BY <1>2, <1>8, <1>10 DEF Mine
  <1>14. Chaining(g, m, "sync")
    BY <1>12, <1>13 DEF Chaining
  <1>15. lock = p
    BY <1>2 DEF Shaped, Locked
  <1>16. \A id \in acked' : HasEvent(g, id)
    <2>1. acked' = acked
      BY DEF Flush
    <2> QED
      BY <1>2, <1>12, <2>1, HasEventGrown
  <1>17. MovesWhole(p, m, "sync", g)
    BY <1>7, <1>9, <1>12, <1>14, <1>15, <1>16 DEF MovesWhole
  <1> QED
    BY <1>17, MoveKeepsWhole

\* GetTables, Sync and Unlock move on and touch nothing of the chain.
LEMMA WholeMoveOn ==
  ASSUME XInv, WholeInv, NEW p \in Procs, GetTables(p) \/ Sync(p) \/ Unlock(p)
  PROVE  WholeInv'
  <1>1. PICK m, l0 : m = mine[p] /\ l0 = pc[p]
    OBVIOUS
  <1>2. /\ Chaining(file, m, l0) /\ mine = [mine EXCEPT ![p] = m]
        /\ l0 \in {"tables", "sync", "unlock"}
    BY <1>1, WholeStanding DEF GetTables, Sync, Unlock
  <1>3. PICK l \in {"tail", "note", "unlock", "close"} :
          pc' = [pc EXCEPT ![p] = l] /\ (l = "note" => l0 = "sync")
    BY <1>1 DEF GetTables, Sync, Unlock, Goto
  <1>4. UNCHANGED <<file, acked, mine>>
    BY DEF GetTables, Sync, Unlock
  <1>5. Chaining(file, m, l)
    BY <1>2, <1>3 DEF Chaining
  <1> QED
    BY <1>2, <1>3, <1>4, <1>5, QuietKeepsWhole

LEMMA WholeNote ==
  ASSUME XInv, WholeInv, NEW p \in Procs, Note(p)
  PROVE  WholeInv'
  <1>1. PICK m0, l0 : m0 = mine[p] /\ l0 = pc[p]
    OBVIOUS
  <1>2. m0 \in Mine /\ l0 = "note" /\ Chaining(file, m0, l0)
    BY <1>1, WholeStanding DEF Note
  <1>3. PICK m : m = [m0 EXCEPT !.ok = TRUE]
    OBVIOUS
  <1>4. m.buffer = m0.buffer /\ m.id = m0.id
    BY <1>2, <1>3 DEF Mine
  <1>5. Chaining(file, m, "unlock")
    BY <1>2, <1>4 DEF Chaining
  <1>6. /\ mine' = [mine EXCEPT ![p] = m] /\ pc' = [pc EXCEPT ![p] = "unlock"]
        /\ UNCHANGED <<file, acked>>
    BY <1>1, <1>3 DEF Note, Goto
  <1> QED
    BY <1>5, <1>6, QuietKeepsWhole

LEMMA WholeClose ==
  ASSUME XInv, WholeInv, NEW p \in Procs, Close(p)
  PROVE  WholeInv'
  <1>1. PICK m0, l0 : m0 = mine[p] /\ l0 = pc[p]
    OBVIOUS
  <1>2. /\ m0 \in Mine /\ l0 = "close" /\ Chaining(file, m0, l0)
        /\ file \in Seq(Piece) /\ Whole(file) /\ \A id \in acked : HasEvent(file, id)
    BY <1>1, WholeStanding DEF Close
  <1>3. m0.buffer = << >> /\ (m0.ok => HasEvent(file, m0.id))
    BY <1>2 DEF Chaining
  <1>4. file' = file
    <2>1. PICK n \in 0..Len(m0.buffer) : file' = file \o SubSeq(m0.buffer, 1, n)
      BY <1>1 DEF Close
    <2>2. n = 0
      BY <1>3, <2>1
    <2>3. m0.buffer \in Seq(Piece)
      BY <1>2 DEF Mine
    <2>4. PICK g : g = file \o SubSeq(m0.buffer, 1, n)
      OBVIOUS
    <2>5. g \in Seq(Piece) /\ Len(g) = Len(file) + n /\ Len(file) \in Nat /\ \A i \in 1..Len(file) : g[i] = file[i]
      BY <1>2, <2>3, <2>4, FlushShape
    <2>6. Grown(file, g) /\ Len(g) = Len(file)
      BY <1>2, <2>2, <2>5 DEF Grown
    <2> QED
      BY <2>1, <2>4, <2>6, GrownSame
  <1>5. \A id \in acked' : HasEvent(file, id)
    <2>1. acked' = IF m0.ok THEN acked \cup {m0.id} ELSE acked
      BY <1>1 DEF Close
    <2> QED
      BY <1>2, <1>3, <2>1
  <1>6. Chaining(file, NoAppend, "idle")
    BY NoAppendType DEF Chaining
  <1>7. mine' = [mine EXCEPT ![p] = NoAppend] /\ pc' = [pc EXCEPT ![p] = "idle"]
    BY DEF Close, Goto
  <1>8. MovesWhole(p, NoAppend, "idle", file)
    BY <1>2, <1>4, <1>5, <1>6, <1>7 DEF MovesWhole
  <1> QED
    BY <1>8, MoveKeepsWhole

LEMMA WholeKill ==
  ASSUME XInv, WholeInv, NEW p \in Procs, Kill(p)
  PROVE  WholeInv'
  <1>1. Chaining(file, NoAppend, "idle")
    BY NoAppendType DEF Chaining
  <1> QED
    BY <1>1, QuietKeepsWhole DEF Kill, Goto

LEMMA WholeInvStarts == Init => WholeInv
  <1> SUFFICES ASSUME Init PROVE WholeInv
    OBVIOUS
  <1>1. Whole(<< >>)
    BY DEF Whole
  <1>2. Chaining(<< >>, NoAppend, "idle")
    BY NoAppendType DEF Chaining
  <1> QED
    BY <1>1, <1>2 DEF Init, WholeInv

\* What was cut short stays so.
LEMMA CInvIsKept == CInv /\ [Next]_vars => CInv'
  <1> SUFFICES ASSUME XInv, ~cutShort => WholeInv, [Next]_vars, ~cutShort' PROVE WholeInv'
    BY XInvIsKept DEF CInv
  <1>1. CASE UNCHANGED vars
    BY <1>1 DEF vars, WholeInv
  <1>2. CASE Next
    <2>1. PICK p \in Procs :
            \/ Acquire(p) \/ ReadState(p) \/ GetTables(p) \/ ReadTail(p)
            \/ Write(p) \/ Flush(p) \/ Sync(p) \/ Note(p) \/ Unlock(p) \/ Close(p)
            \/ Kill(p)
      BY <1>2 DEF Next
    <2>2. ~cutShort
      BY <2>1 DEF Acquire, ReadState, GetTables, ReadTail, Write, Flush, Sync, Note, Unlock, Close, Kill
    <2> QED
      BY <2>1, <2>2, WholeAcquire, WholeReadState, WholeMoveOn, WholeReadTail, WholeWrite,
         WholeFlush, WholeNote, WholeClose, WholeKill
  <1> QED
    BY <1>1, <1>2

(***************************************************************************)
(* While no write was cut short, every append that returned can be read    *)
(* back and every event names the one before it, for any number of         *)
(* processes, kills and failed syncs (append_event).                       *)
(***************************************************************************)
THEOREM AckedIsAlwaysReadable == Spec => []AckedIsReadable
  <1>1. Init => CInv
    BY XInvStarts, WholeInvStarts DEF CInv
  <1>2. CInv => AckedIsReadable
    <2> SUFFICES ASSUME XInv, WholeInv
                 PROVE  /\ ChainIntact
                        /\ \A id \in acked : \E n \in DOMAIN EventsOf(file) : EventsOf(file)[n] = id
      BY DEF CInv, AckedIsReadable
    <2>1. file \in Seq(Piece) /\ Whole(file)
      BY DEF XInv, Frame, WholeInv
    <2>2. ChainIntact
      BY <2>1, WholeIsChained
    <2>3. ASSUME NEW id \in acked PROVE \E n \in DOMAIN EventsOf(file) : EventsOf(file)[n] = id
      <3>1. PICK i \in 1..Len(file) : file[i].part = "head" /\ file[i].id = id
        BY DEF WholeInv, HasEvent
      <3>2. i \in Readable(file)
        BY <2>1, <3>1, WholeStarts
      <3> QED
        BY <2>1, <3>1, <3>2, EventsShape
    <2> QED
      BY <2>2, <2>3
  <1> QED
    BY <1>1, <1>2, CInvIsKept, PTL DEF Spec
=============================================================================
