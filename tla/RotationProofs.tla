--------------------------- MODULE RotationProofs ---------------------------
(***************************************************************************)
(* Machine-checked facts about Rotation, for any number of writers and     *)
(* archivers, any --keep and journals of any length.                       *)
(*                                                                         *)
(* TInv types the state and what each step of an archive has established.  *)
(* QInv adds where files are (Places: an inode has one entry in the        *)
(* directory, a name one archiver, a placeholder nobody's events) and,     *)
(* while no writer was active during an archive, what every archiver knows *)
(* of the file it counted (Quiesced).                                      *)
(***************************************************************************)
EXTENDS Rotation, TLAPS

Processes == Writers \cup Archivers

\* What archive_journal has established when it stands at a step: the count is
\* of a journal that had events, the name is its own, the handle is open.
Progress ==
  \A p \in Processes :
    /\ pc[p] \in {"append", "link"} => my[p].inode # 0
    /\ pc[p] \in {"claim", "rename", "settle", "rollback?", "rollback", "open", "link"} =>
         my[p].count # 0 /\ my[p].head # 0
    /\ pc[p] \in {"rename", "settle", "rollback?", "rollback", "open", "link", "prune"} =>
         my[p].name # 0

TInv == TypeOK /\ Progress

Local == [inode : 0..Len(inodes), count : Nat, head : Nat,
          name : 0..Len(names), keep : Keeps \cup {0}]

-----------------------------------------------------------------------------
\* What the steps do to one process's place and locals.
LEMMA GotoType ==
  ASSUME TypeOK, NEW p \in Processes, NEW label \in PCs, Goto(p, label)
  PROVE  /\ pc' \in [Processes -> PCs]
         /\ pc'[p] = label
         /\ \A q \in Processes : q # p => pc'[q] = pc[q]
  BY DEF TypeOK, Goto, Processes

\* Nothing disappears: every step only adds inodes and names.
Grows == /\ Len(inodes') \in Nat /\ Len(inodes) <= Len(inodes')
         /\ Len(names') \in Nat /\ Len(names) <= Len(names')

LEMMA SeqMonotone ==
  ASSUME NEW S, NEW T, S \subseteq T, NEW s \in Seq(S)
  PROVE  s \in Seq(T)
  <1>1. \A n \in 1..Len(s) : s[n] \in T
    OBVIOUS
  <1> QED
    BY <1>1

LEMMA SeqUpdate ==
  ASSUME NEW S, NEW s \in Seq(S), NEW k, NEW v \in S
  PROVE  [s EXCEPT ![k] = v] \in Seq(S) /\ Len([s EXCEPT ![k] = v]) = Len(s)
  <1>1. Len(s) \in Nat /\ s \in [1..Len(s) -> S]
    OBVIOUS
  <1>2. [s EXCEPT ![k] = v] \in [1..Len(s) -> S]
    BY <1>1
  <1> QED
    BY <1>1, <1>2

\* What refers to inodes and names goes on referring to them.
LEMMA Carried ==
  ASSUME TypeOK, Grows
  PROVE  /\ my \in [Processes -> Local']
         /\ pruned \subseteq 1..Len(inodes')
         /\ names \in Seq(0..Len(inodes'))
         /\ live \in 0..Len(inodes')
  <1>1. Len(inodes) \in Nat /\ Len(names) \in Nat
    BY DEF TypeOK
  <1>2. 0..Len(inodes) \subseteq 0..Len(inodes') /\ 1..Len(inodes) \subseteq 1..Len(inodes')
        /\ 0..Len(names) \subseteq 0..Len(names') /\ 1..Len(names) \subseteq 1..Len(names')
    BY <1>1 DEF Grows
  <1>3. Local \subseteq Local'
    BY <1>2 DEF Local
  <1>4. names \in Seq(0..Len(inodes'))
    BY <1>2, SeqMonotone DEF TypeOK
  <1> QED
    BY <1>2, <1>3, <1>4 DEF TypeOK, Processes, Local

LEMMA ReturnType ==
  ASSUME TypeOK, NEW p \in Processes, Return(p), Grows
  PROVE  /\ pc' \in [Processes -> PCs]
         /\ my' \in [Processes -> Local']
         /\ pc'[p] = "idle"
         /\ \A q \in Processes : q # p => pc'[q] = pc[q] /\ my'[q] = my[q]
  <1>1. "idle" \in PCs
    BY DEF PCs
  <1>2. NoLocals \in Local'
    BY DEF NoLocals, Local, Grows
  <1> QED
    BY <1>1, <1>2, Carried, GotoType DEF Return, Processes

\* Creating a file, and opening the live path.
LEMMA CreateType ==
  ASSUME TypeOK, Create
  PROVE  /\ inodes' \in Seq(Seq(Event)) /\ Len(inodes') = Len(inodes) + 1
         /\ mtimes' \in Seq(Nat) /\ Len(mtimes') = Len(inodes')
         /\ Len(inodes) \in Nat
         /\ \A i \in DOMAIN inodes : inodes'[i] = inodes[i]
         /\ inodes'[Len(inodes) + 1] = <<>>
  <1>1. <<>> \in Seq(Event)
    OBVIOUS
  <1>2. Now + 1 \in Nat
    BY RotationAssumption DEF Now, TypeOK, RotationAssumption
  <1> QED
    BY <1>1, <1>2 DEF Create, TypeOK

\* open(path, "a+b"): inode i exists afterwards, and is empty if it is new.
LEMMA OpenLiveType ==
  ASSUME TypeOK, NEW i \in 1..Len(inodes) + 1, OpenLive(i), UNCHANGED names
  PROVE  /\ Grows
         /\ inodes' \in Seq(Seq(Event))
         /\ mtimes' \in Seq(Nat) /\ Len(mtimes') = Len(inodes')
         /\ live' \in 0..Len(inodes')
         /\ i \in 1..Len(inodes')
         /\ \/ UNCHANGED inodes
            \/ Create
  <1>1. Len(inodes) \in Nat /\ Len(names) \in Nat /\ live \in 0..Len(inodes)
    BY DEF TypeOK
  <1>2. CASE live # 0 /\ i = live /\ UNCHANGED <<inodes, mtimes, live>>
    BY <1>1, <1>2 DEF TypeOK, Grows
  <1>3. CASE live = 0 /\ i = Len(inodes) + 1 /\ live' = i /\ Create
    <2>1. Len(inodes') = Len(inodes) + 1 /\ inodes' \in Seq(Seq(Event))
          /\ mtimes' \in Seq(Nat) /\ Len(mtimes') = Len(inodes')
      BY <1>3, CreateType
    <2> QED
      BY <1>1, <1>3, <2>1 DEF Grows
  <1> QED
    BY <1>2, <1>3 DEF OpenLive

\* Appending e to inode i changes no other inode, and i only at its end.
LEMMA AppendToType ==
  ASSUME TypeOK, NEW i \in 1..Len(inodes), NEW e \in Event, AppendTo(i, e)
  PROVE  /\ inodes' \in Seq(Seq(Event)) /\ Len(inodes') = Len(inodes)
         /\ mtimes' \in Seq(Nat) /\ Len(mtimes') = Len(inodes')
         /\ written' \in 0..MaxEvents /\ written' = written + 1
         /\ inodes'[i] = Append(inodes[i], e)
         /\ \A k \in 1..Len(inodes) : k # i => inodes'[k] = inodes[k]
  <1>1. Append(inodes[i], e) \in Seq(Event)
    BY DEF TypeOK
  <1>2. Now + 1 \in Nat
    BY RotationAssumption DEF Now, TypeOK, RotationAssumption
  <1>3. written' \in 0..MaxEvents /\ written' = written + 1
    BY RotationAssumption DEF AppendTo, TypeOK, RotationAssumption
  <1>4. inodes' \in Seq(Seq(Event)) /\ Len(inodes') = Len(inodes)
    BY <1>1 DEF AppendTo, TypeOK
  <1>5. mtimes' \in Seq(Nat) /\ Len(mtimes') = Len(inodes)
    BY <1>2 DEF AppendTo, TypeOK
  <1> QED
    BY <1>3, <1>4, <1>5 DEF AppendTo, TypeOK

LEMMA HeadType ==
  ASSUME TypeOK, NEW i \in 1..Len(inodes)
  PROVE  /\ HeadOf(i) \in Nat /\ Len(inodes[i]) \in Nat
         /\ inodes[i] # <<>> => HeadOf(i) # 0 /\ Len(inodes[i]) # 0
  <1>1. inodes[i] \in Seq(Event)
    BY DEF TypeOK
  <1>2. \A e \in Event : e.id \in Nat /\ e.id # 0
    BY DEF Event
  <1>3. inodes[i] # <<>> => Len(inodes[i]) # 0 /\ inodes[i][Len(inodes[i])] \in Event
    BY <1>1
  <1> QED
    BY <1>1, <1>2, <1>3 DEF HeadOf

LEMMA ClaimLocals ==
  ASSUME NEW c, NEW h, NEW k
  PROVE  [NoLocals EXCEPT !.count = c, !.head = h, !.keep = k]
           = [inode |-> 0, count |-> c, head |-> h, name |-> 0, keep |-> k]
  <1>1. [NoLocals EXCEPT !.count = c]
          = [inode |-> 0, count |-> c, head |-> 0, name |-> 0, keep |-> 0]
    BY DEF NoLocals
  <1>2. [[inode |-> 0, count |-> c, head |-> 0, name |-> 0, keep |-> 0] EXCEPT !.head = h]
          = [inode |-> 0, count |-> c, head |-> h, name |-> 0, keep |-> 0]
    OBVIOUS
  <1>3. [[inode |-> 0, count |-> c, head |-> h, name |-> 0, keep |-> 0] EXCEPT !.keep = k]
          = [inode |-> 0, count |-> c, head |-> h, name |-> 0, keep |-> k]
    OBVIOUS
  <1> QED
    BY <1>1, <1>2, <1>3

\* Updating locals keeps the type.
LEMMA MyUpdates ==
  ASSUME TypeOK, NEW p \in Processes, Grows
  PROVE  /\ \A i \in 0..Len(inodes') :
              /\ [my EXCEPT ![p].inode = i] \in [Processes -> Local']
              /\ [my EXCEPT ![p].inode = i][p] = [my[p] EXCEPT !.inode = i]
         /\ \A n \in 0..Len(names') :
              /\ [my EXCEPT ![p].name = n] \in [Processes -> Local']
              /\ [my EXCEPT ![p].name = n][p] = [my[p] EXCEPT !.name = n]
  <1>1. my \in [Processes -> Local'] /\ my[p] \in Local'
    BY Carried
  <1>2. /\ \A i \in 0..Len(inodes') : [my[p] EXCEPT !.inode = i] \in Local'
        /\ \A n \in 0..Len(names') : [my[p] EXCEPT !.name = n] \in Local'
    BY <1>1 DEF Local
  <1> QED
    BY <1>1, <1>2

-----------------------------------------------------------------------------
LEMMA TypeInit == Init => TInv
  <1> SUFFICES ASSUME Init PROVE TInv
    OBVIOUS
  <1>1. Len(inodes) = 0 /\ Len(names) = 0 /\ Len(mtimes) = 0
    BY DEF Init
  <1>2. NoLocals \in Local
    BY <1>1 DEF NoLocals, Local
  <1>3. "idle" \in PCs
    BY DEF PCs
  <1>4. inodes \in Seq(Seq(Event)) /\ mtimes \in Seq(Nat) /\ names \in Seq(0..Len(inodes))
    BY DEF Init
  <1>5. written \in 0..MaxEvents /\ live \in 0..Len(inodes)
    BY <1>1, RotationAssumption DEF Init, RotationAssumption
  <1>6. pc \in [Processes -> PCs] /\ my \in [Processes -> Local]
    BY <1>2, <1>3 DEF Init, Processes
  <1>7. TypeOK
    BY <1>1, <1>4, <1>5, <1>6 DEF Init, TypeOK, Processes, Local
  <1> QED
    BY <1>7 DEF Init, TInv, Progress, Processes

\* A step that leaves the files alone and ends p's operation.
LEMMA EndsOperation ==
  ASSUME TInv, NEW p \in Processes, Return(p),
         UNCHANGED <<inodes, mtimes, written, live, names, History>>
  PROVE  TInv'
  <1>1. Grows
    BY DEF TInv, TypeOK, Grows
  <1>2. /\ pc' \in [Processes -> PCs] /\ my' \in [Processes -> Local']
        /\ pc'[p] = "idle"
        /\ \A q \in Processes : q # p => pc'[q] = pc[q] /\ my'[q] = my[q]
    BY <1>1, ReturnType DEF TInv
  <1> QED
    BY <1>2 DEF TInv, TypeOK, Progress, Processes, Local, History

LEMMA TypeStep == TInv /\ [Next]_vars => TInv'
  <1> SUFFICES ASSUME TInv, [Next]_vars PROVE TInv'
    OBVIOUS
  <1> USE DEF History
  <1>a. /\ Len(inodes) \in Nat /\ Len(names) \in Nat
        /\ \A p \in Processes : my[p] \in Local
    BY DEF TInv, TypeOK, Processes, Local
  <1>b. Writers \subseteq Processes /\ Archivers \subseteq Processes
    BY DEF Processes
  <1>1. ASSUME NEW w \in Writers, Open(w) PROVE TInv'
    <2>1. PICK i \in 1..Len(inodes) + 1 : OpenLive(i) /\ my' = [my EXCEPT ![w].inode = i]
      BY <1>1 DEF Open
    <2>2. Grows /\ inodes' \in Seq(Seq(Event)) /\ mtimes' \in Seq(Nat)
          /\ Len(mtimes') = Len(inodes') /\ live' \in 0..Len(inodes') /\ i \in 1..Len(inodes')
      BY <1>1, <2>1, OpenLiveType DEF Open, TInv
    <2>3. my' \in [Processes -> Local'] /\ my'[w].inode = i /\ i # 0
      <3>1. i \in 0..Len(inodes') /\ i # 0
        BY <2>2 DEF Grows
      <3>2. my' \in [Processes -> Local'] /\ my'[w] = [my[w] EXCEPT !.inode = i]
        BY <1>b, <2>1, <2>2, <3>1, MyUpdates DEF TInv
      <3> QED
        BY <1>a, <1>b, <3>1, <3>2 DEF Local
    <2>4. pc' \in [Processes -> PCs] /\ pc'[w] = "append" /\ \A q \in Processes : q # w => pc'[q] = pc[q]
      BY <1>1, <1>b, GotoType DEF Open, TInv, PCs
    <2>5. \A q \in Processes : q # w => my'[q] = my[q]
      BY <2>1 DEF TInv, TypeOK, Processes
    <2>6. TypeOK'
      BY <1>1, <2>2, <2>3, <2>4, Carried DEF TInv, TypeOK, Open, Processes, Local
    <2>7. Progress'
      BY <2>3, <2>4, <2>5 DEF TInv, Progress
    <2> QED
      BY <2>6, <2>7 DEF TInv
  <1>2. ASSUME NEW w \in Writers, Write(w) PROVE TInv'
    <2> DEFINE e == [id |-> written + 1, count |-> 0, head |-> 0, name |-> 0]
    <2>1. my[w].inode \in 1..Len(inodes)
      BY <1>2, <1>a, <1>b DEF Write, TInv, Progress, Local
    <2>2. e \in Event /\ written + 1 \in Nat
      BY RotationAssumption DEF Event, TInv, TypeOK, RotationAssumption
    <2>3. AppendTo(my[w].inode, e)
      BY <1>2 DEF Write
    <2>4. /\ inodes' \in Seq(Seq(Event)) /\ Len(inodes') = Len(inodes)
          /\ mtimes' \in Seq(Nat) /\ Len(mtimes') = Len(inodes')
          /\ written' \in 0..MaxEvents /\ written' = written + 1
      BY <2>1, <2>2, <2>3, AppendToType DEF TInv
    <2>5. Grows
      BY <1>2, <1>a, <2>4 DEF Write, Grows
    <2>6. /\ pc' \in [Processes -> PCs] /\ my' \in [Processes -> Local']
          /\ pc'[w] = "idle"
          /\ \A q \in Processes : q # w => pc'[q] = pc[q] /\ my'[q] = my[q]
      BY <1>2, <1>b, <2>5, ReturnType DEF Write, TInv
    <2>7. acked' \subseteq 1..MaxEvents
      <3>1. acked' = acked \cup {written + 1}
        BY <1>2 DEF Write
      <3>2. written + 1 \in 1..MaxEvents
        BY <2>3, RotationAssumption DEF AppendTo, TInv, TypeOK, RotationAssumption
      <3> QED
        BY <3>1, <3>2 DEF TInv, TypeOK
    <2>8. TypeOK'
      BY <1>2, <2>4, <2>5, <2>6, <2>7, Carried DEF TInv, TypeOK, Write, Processes, Local
    <2>9. Progress'
      BY <2>6 DEF TInv, Progress
    <2> QED
      BY <2>8, <2>9 DEF TInv
  <1>3. ASSUME NEW a \in Archivers, NEW keep \in Keeps, Stat(a, keep) PROVE TInv'
    <2>1. PICK i \in 1..Len(inodes) + 1 : OpenLive(i)
      BY <1>3 DEF Stat
    <2>2. Grows /\ inodes' \in Seq(Seq(Event)) /\ mtimes' \in Seq(Nat)
          /\ Len(mtimes') = Len(inodes') /\ live' \in 0..Len(inodes')
      BY <1>3, <2>1, OpenLiveType DEF Stat, TInv
    <2>3. CASE Return(a)
      <3>1. /\ pc' \in [Processes -> PCs] /\ my' \in [Processes -> Local']
            /\ pc'[a] = "idle"
            /\ \A q \in Processes : q # a => pc'[q] = pc[q] /\ my'[q] = my[q]
        BY <1>b, <2>2, <2>3, ReturnType DEF TInv
      <3>2. TypeOK'
        BY <1>3, <2>2, <3>1, Carried DEF TInv, TypeOK, Stat, Processes, Local
      <3>3. Progress'
        BY <3>1 DEF TInv, Progress
      <3> QED
        BY <3>2, <3>3 DEF TInv
    <2>4. CASE /\ live # 0 /\ inodes[live] # <<>>
               /\ my' = [my EXCEPT ![a] = [NoLocals EXCEPT
                          !.count = Len(inodes[live]), !.head = HeadOf(live), !.keep = keep]]
               /\ Goto(a, "claim")
      <3> DEFINE m == [NoLocals EXCEPT
                         !.count = Len(inodes[live]), !.head = HeadOf(live), !.keep = keep]
      <3>1. live \in 1..Len(inodes)
        BY <2>4, <1>a DEF TInv, TypeOK
      <3>2. m \in Local' /\ m.count # 0 /\ m.head # 0
        <4>1. /\ Len(inodes[live]) \in Nat /\ Len(inodes[live]) # 0
              /\ HeadOf(live) \in Nat /\ HeadOf(live) # 0
          BY <2>4, <3>1, HeadType DEF TInv
        <4>2. 0 \in 0..Len(inodes') /\ 0 \in 0..Len(names')
          BY <2>2 DEF Grows
        <4> QED
          BY <4>1, <4>2, ClaimLocals DEF Local
      <3>3. my \in [Processes -> Local']
        BY <2>2, Carried DEF TInv
      <3>4. /\ my' \in [Processes -> Local'] /\ my'[a] = m
            /\ \A q \in Processes : q # a => my'[q] = my[q]
        BY <1>b, <2>4, <3>2, <3>3
      <3>5. pc' \in [Processes -> PCs] /\ pc'[a] = "claim" /\ \A q \in Processes : q # a => pc'[q] = pc[q]
        BY <2>4, <1>b, GotoType DEF TInv, PCs
      <3>6. TypeOK'
        BY <1>3, <2>2, <3>4, <3>5, Carried DEF TInv, TypeOK, Stat, Processes, Local
      <3>7. Progress'
        BY <3>2, <3>4, <3>5 DEF TInv, Progress
      <3> QED
        BY <3>6, <3>7 DEF TInv
    <2> QED
      BY <1>3, <2>3, <2>4 DEF Stat
  <1>4. ASSUME NEW a \in Archivers, Claim(a) PROVE TInv'
    <2>1. /\ inodes' \in Seq(Seq(Event)) /\ Len(inodes') = Len(inodes) + 1
          /\ mtimes' \in Seq(Nat) /\ Len(mtimes') = Len(inodes')
      BY <1>4, CreateType DEF Claim, TInv
    <2>2. names' \in Seq(0..Len(inodes')) /\ Len(names') = Len(names) + 1
      <3>1. names \in Seq(0..Len(inodes'))
        <4>1. 0..Len(inodes) \subseteq 0..Len(inodes')
          BY <1>a, <2>1
        <4> QED
          BY <4>1, SeqMonotone DEF TInv, TypeOK
      <3>2. Len(inodes) + 1 \in 0..Len(inodes')
        BY <1>a, <2>1
      <3> QED
        BY <1>4, <3>1, <3>2 DEF Claim
    <2>3. Grows
      BY <1>a, <2>1, <2>2 DEF Grows
    <2>4. Len(names) + 1 \in 0..Len(names') /\ Len(names) + 1 # 0
      BY <1>a, <2>2
    <2>5. /\ my' \in [Processes -> Local'] /\ my'[a] = [my[a] EXCEPT !.name = Len(names) + 1]
          /\ \A q \in Processes : q # a => my'[q] = my[q]
      <3>1. my' = [my EXCEPT ![a].name = Len(names) + 1]
        BY <1>4 DEF Claim
      <3>2. my' \in [Processes -> Local'] /\ my'[a] = [my[a] EXCEPT !.name = Len(names) + 1]
        BY <1>b, <2>3, <2>4, <3>1, MyUpdates DEF TInv
      <3> QED
        BY <3>1, <3>2 DEF TInv, TypeOK, Processes
    <2>6. my'[a].name # 0 /\ my'[a].count = my[a].count /\ my'[a].head = my[a].head
      BY <1>a, <1>b, <2>4, <2>5 DEF Local
    <2>7. pc' \in [Processes -> PCs] /\ pc'[a] = "rename" /\ \A q \in Processes : q # a => pc'[q] = pc[q]
      BY <1>4, <1>b, GotoType DEF TInv, PCs, Claim
    <2>8. TypeOK'
      BY <1>4, <2>1, <2>2, <2>3, <2>5, <2>7, Carried DEF TInv, TypeOK, Claim, Processes, Local
    <2>9. Progress'
      BY <1>4, <1>b, <2>5, <2>6, <2>7 DEF TInv, Progress, Claim
    <2> QED
      BY <2>8, <2>9 DEF TInv
  <1>5. ASSUME NEW a \in Archivers, Rename(a) PROVE TInv'
    <2>1. CASE Return(a) /\ UNCHANGED <<names, live>>
      BY <1>5, <1>b, <2>1, EndsOperation DEF Rename
    <2>2. CASE /\ live # 0
               /\ names' = [names EXCEPT ![my[a].name] = live]
               /\ live' = 0
               /\ Goto(a, "settle")
               /\ UNCHANGED my
      <3>1. names' \in Seq(0..Len(inodes)) /\ Len(names') = Len(names)
        BY <2>2, SeqUpdate DEF TInv, TypeOK
      <3>2. Grows
        BY <1>5, <1>a, <3>1 DEF Rename, Grows
      <3>3. pc' \in [Processes -> PCs] /\ pc'[a] = "settle" /\ \A q \in Processes : q # a => pc'[q] = pc[q]
        BY <2>2, <1>b, GotoType DEF TInv, PCs
      <3>4. live' \in 0..Len(inodes')
        BY <1>5, <1>a, <2>2 DEF Rename
      <3>5. TypeOK'
        BY <1>5, <2>2, <3>1, <3>2, <3>3, <3>4, Carried DEF TInv, TypeOK, Rename, Processes, Local
      <3>6. Progress'
        BY <1>5, <1>b, <2>2, <3>3 DEF TInv, Progress, Rename
      <3> QED
        BY <3>5, <3>6 DEF TInv
    <2> QED
      BY <1>5, <2>1, <2>2 DEF Rename
  <1>6. ASSUME NEW a \in Archivers, Settle(a) PROVE TInv'
    <2> DEFINE n == my[a].name
    <2>0. disturbed' \in BOOLEAN
      BY <1>6 DEF Settle, TInv, TypeOK
    <2>1. CASE UNCHANGED <<inodes, mtimes, names>>
      <3>1. Grows
        BY <1>a, <2>1 DEF Grows
      <3>2. PICK label \in {"open", "rollback?"} : Goto(a, label)
        BY <1>6 DEF Settle
      <3>3. pc' \in [Processes -> PCs] /\ pc'[a] = label /\ \A q \in Processes : q # a => pc'[q] = pc[q]
        BY <3>2, <1>b, GotoType DEF TInv, PCs
      <3>4. TypeOK'
        BY <1>6, <2>0, <2>1, <3>1, <3>3, Carried DEF TInv, TypeOK, Settle, Processes, Local
      <3>5. Progress'
        BY <1>6, <1>b, <3>3 DEF TInv, Progress, Settle
      <3> QED
        BY <3>4, <3>5 DEF TInv
    <2>2. CASE Create /\ names' = [names EXCEPT ![n] = Len(inodes) + 1] /\ Goto(a, "rollback?")
      <3>1. /\ inodes' \in Seq(Seq(Event)) /\ Len(inodes') = Len(inodes) + 1
            /\ mtimes' \in Seq(Nat) /\ Len(mtimes') = Len(inodes')
        BY <2>2, CreateType DEF TInv
      <3>2. names' \in Seq(0..Len(inodes')) /\ Len(names') = Len(names)
        <4>1. names \in Seq(0..Len(inodes'))
          <5>1. 0..Len(inodes) \subseteq 0..Len(inodes')
            BY <1>a, <3>1
          <5> QED
            BY <5>1, SeqMonotone DEF TInv, TypeOK
        <4>2. Len(inodes) + 1 \in 0..Len(inodes')
          BY <1>a, <3>1
        <4>3. PICK s, v, S : s = names /\ v = Len(inodes) + 1 /\ S = 0..Len(inodes')
          OBVIOUS
        <4>4. s \in Seq(S) /\ v \in S
          BY <4>1, <4>2, <4>3
        <4>5. [s EXCEPT ![n] = v] \in Seq(S) /\ Len([s EXCEPT ![n] = v]) = Len(s)
          BY <4>4, SeqUpdate
        <4> QED
          BY <2>2, <4>3, <4>5
      <3>3. Grows
        BY <1>a, <3>1, <3>2 DEF Grows
      <3>4. pc' \in [Processes -> PCs] /\ pc'[a] = "rollback?" /\ \A q \in Processes : q # a => pc'[q] = pc[q]
        BY <2>2, <1>b, GotoType DEF TInv, PCs
      <3>5. TypeOK'
        BY <1>6, <3>1, <3>2, <3>3, <3>4, Carried DEF TInv, TypeOK, Settle, Processes, Local
      <3>6. Progress'
        BY <1>6, <1>b, <3>4 DEF TInv, Progress, Settle
      <3> QED
        BY <3>5, <3>6 DEF TInv
    <2> QED
      BY <1>6, <2>1, <2>2 DEF Settle
  <1>7. ASSUME NEW a \in Archivers, CheckRollback(a) PROVE TInv'
    <2>1. CASE Return(a)
      BY <1>7, <1>b, <2>1, EndsOperation DEF CheckRollback
    <2>2. CASE Goto(a, "rollback") /\ UNCHANGED my
      <3>1. pc' \in [Processes -> PCs] /\ pc'[a] = "rollback" /\ \A q \in Processes : q # a => pc'[q] = pc[q]
        BY <2>2, <1>b, GotoType DEF TInv, PCs
      <3>2. TypeOK'
        BY <1>7, <2>2, <3>1 DEF TInv, TypeOK, CheckRollback, Processes, Local
      <3>3. Progress'
        BY <1>7, <1>b, <2>2, <3>1 DEF TInv, Progress, CheckRollback
      <3> QED
        BY <3>2, <3>3 DEF TInv
    <2> QED
      BY <1>7, <2>1, <2>2 DEF CheckRollback
  <1>8. ASSUME NEW a \in Archivers, Rollback(a) PROVE TInv'
    <2>1. names' \in Seq(0..Len(inodes)) /\ Len(names') = Len(names)
      <3>1. 0 \in 0..Len(inodes)
        BY <1>a
      <3>2. names \in Seq(0..Len(inodes))
        BY DEF TInv, TypeOK
      <3>3. PICK s, n, S : s = names /\ n = my[a].name /\ S = 0..Len(inodes)
        OBVIOUS
      <3>4. s \in Seq(S) /\ 0 \in S
        BY <3>1, <3>2, <3>3
      <3>5. [s EXCEPT ![n] = 0] \in Seq(S) /\ Len([s EXCEPT ![n] = 0]) = Len(s)
        BY <3>4, SeqUpdate
      <3>6. names' = [names EXCEPT ![my[a].name] = 0] \/ names' = names
        BY <1>8 DEF Rollback
      <3> QED
        BY <3>2, <3>3, <3>5, <3>6
    <2>2. live' \in 0..Len(inodes)
      <3>1. my[a].name \in 1..Len(names)
        BY <1>8, <1>a, <1>b DEF Rollback, TInv, Progress, Local
      <3> QED
        BY <1>8, <3>1 DEF Rollback, TInv, TypeOK
    <2>3. Grows
      BY <1>8, <1>a, <2>1 DEF Rollback, Grows
    <2>4. /\ pc' \in [Processes -> PCs] /\ my' \in [Processes -> Local']
          /\ pc'[a] = "idle"
          /\ \A q \in Processes : q # a => pc'[q] = pc[q] /\ my'[q] = my[q]
      BY <1>8, <1>b, <2>3, ReturnType DEF Rollback, TInv
    <2>5. TypeOK'
      BY <1>8, <2>1, <2>2, <2>3, <2>4, Carried DEF TInv, TypeOK, Rollback, Processes, Local
    <2>6. Progress'
      BY <2>4 DEF TInv, Progress
    <2> QED
      BY <2>5, <2>6 DEF TInv
  <1>9. ASSUME NEW a \in Archivers, OpenSuccessor(a) PROVE TInv'
    <2>1. PICK i \in 1..Len(inodes) + 1 : OpenLive(i) /\ my' = [my EXCEPT ![a].inode = i]
      BY <1>9 DEF OpenSuccessor
    <2>2. Grows /\ inodes' \in Seq(Seq(Event)) /\ mtimes' \in Seq(Nat)
          /\ Len(mtimes') = Len(inodes') /\ live' \in 0..Len(inodes') /\ i \in 1..Len(inodes')
      BY <1>9, <2>1, OpenLiveType DEF OpenSuccessor, TInv
    <2>3. /\ my' \in [Processes -> Local'] /\ my'[a].inode # 0
          /\ my'[a].count = my[a].count /\ my'[a].head = my[a].head /\ my'[a].name = my[a].name
      <3>1. i \in 0..Len(inodes') /\ i # 0
        BY <2>2 DEF Grows
      <3>2. my' \in [Processes -> Local'] /\ my'[a] = [my[a] EXCEPT !.inode = i]
        BY <1>b, <2>1, <2>2, <3>1, MyUpdates DEF TInv
      <3> QED
        BY <1>a, <1>b, <3>1, <3>2 DEF Local
    <2>4. pc' \in [Processes -> PCs] /\ pc'[a] = "link" /\ \A q \in Processes : q # a => pc'[q] = pc[q]
      BY <1>9, <1>b, GotoType DEF OpenSuccessor, TInv, PCs
    <2>5. \A q \in Processes : q # a => my'[q] = my[q]
      BY <2>1 DEF TInv, TypeOK, Processes
    <2>6. TypeOK'
      BY <1>9, <2>2, <2>3, <2>4, Carried DEF TInv, TypeOK, OpenSuccessor, Processes, Local
    <2>7. Progress'
      BY <1>9, <1>b, <2>3, <2>4, <2>5 DEF TInv, Progress, OpenSuccessor
    <2> QED
      BY <2>6, <2>7 DEF TInv
  <1>10. ASSUME NEW a \in Archivers, Link(a) PROVE TInv'
    <2> DEFINE m == my[a]
               e == [id |-> written + 1, count |-> m.count, head |-> m.head, name |-> m.name]
    <2>1. CASE Return(a) /\ UNCHANGED <<inodes, mtimes, written>>
      BY <1>10, <1>b, <2>1, EndsOperation DEF Link
    <2>2. CASE AppendTo(m.inode, e) /\ Goto(a, "prune") /\ UNCHANGED my
      <3>1. /\ m.inode \in 1..Len(inodes)
            /\ m.count \in Nat \ {0} /\ m.head \in Nat \ {0} /\ m.name \in Nat \ {0}
        BY <1>10, <1>a, <1>b DEF Link, TInv, Progress, Local
      <3>2. e \in Event
        <4>1. written + 1 \in Nat \ {0}
          BY RotationAssumption DEF TInv, TypeOK, RotationAssumption
        <4> QED
          BY <3>1, <4>1 DEF Event
      <3>3. /\ inodes' \in Seq(Seq(Event)) /\ Len(inodes') = Len(inodes)
            /\ mtimes' \in Seq(Nat) /\ Len(mtimes') = Len(inodes')
            /\ written' \in 0..MaxEvents
        BY <2>2, <3>1, <3>2, AppendToType DEF TInv
      <3>4. Grows
        BY <1>10, <1>a, <3>3 DEF Link, Grows
      <3>5. pc' \in [Processes -> PCs] /\ pc'[a] = "prune" /\ \A q \in Processes : q # a => pc'[q] = pc[q]
        BY <2>2, <1>b, GotoType DEF TInv, PCs
      <3>6. TypeOK'
        BY <1>10, <2>2, <3>3, <3>4, <3>5, Carried DEF TInv, TypeOK, Link, Processes, Local
      <3>7. Progress'
        BY <1>10, <1>b, <2>2, <3>5 DEF TInv, Progress, Link
      <3> QED
        BY <3>6, <3>7 DEF TInv
    <2> QED
      BY <1>10, <2>1, <2>2 DEF Link
  <1>11. ASSUME NEW a \in Archivers, Prune(a) PROVE TInv'
    <2>1. PICK doomed \in SUBSET {n \in DOMAIN names : names[n] # 0} :
            /\ names' = [n \in DOMAIN names |-> IF n \in doomed THEN 0 ELSE names[n]]
            /\ pruned' = pruned \cup {names[n] : n \in doomed}
      BY <1>11 DEF Prune
    <2>2. names' \in Seq(0..Len(inodes)) /\ Len(names') = Len(names)
      <3>1. names \in [1..Len(names) -> 0..Len(inodes)] /\ DOMAIN names = 1..Len(names)
        BY DEF TInv, TypeOK
      <3>2. names' \in [1..Len(names) -> 0..Len(inodes)]
        BY <1>a, <2>1, <3>1
      <3> QED
        BY <1>a, <3>2
    <2>3. Grows
      BY <1>11, <1>a, <2>2 DEF Prune, Grows
    <2>4. pruned' \subseteq 1..Len(inodes)
      <3>1. names \in Seq(0..Len(inodes)) /\ \A n \in doomed : n \in DOMAIN names /\ names[n] # 0
        BY <2>1 DEF TInv, TypeOK
      <3>2. \A n \in DOMAIN names : names[n] \in 0..Len(inodes)
        BY <3>1
      <3>3. \A n \in doomed : names[n] \in 1..Len(inodes)
        BY <1>a, <3>1, <3>2
      <3> QED
        BY <2>1, <3>3 DEF TInv, TypeOK
    <2>6. /\ pc' \in [Processes -> PCs] /\ my' \in [Processes -> Local']
          /\ pc'[a] = "idle"
          /\ \A q \in Processes : q # a => pc'[q] = pc[q] /\ my'[q] = my[q]
      BY <1>11, <1>b, <2>3, ReturnType DEF Prune, TInv
    <2>7. TypeOK'
      BY <1>11, <2>2, <2>3, <2>4, <2>6, Carried DEF TInv, TypeOK, Prune, Processes, Local
    <2>8. Progress'
      BY <2>6 DEF TInv, Progress
    <2> QED
      BY <2>7, <2>8 DEF TInv
  <1>12. ASSUME NEW p \in Processes, Stop(p) PROVE TInv'
    BY <1>12, EndsOperation DEF Stop
  <1>13. CASE UNCHANGED vars
    BY <1>13 DEF vars, TInv, TypeOK, Progress, Processes, Local
  <1> QED
    BY <1>1, <1>2, <1>3, <1>4, <1>5, <1>6, <1>7, <1>8, <1>9, <1>10, <1>11, <1>12, <1>13
    DEF Next, Processes

(***************************************************************************)
(* Every reachable state of a rotation is well typed; in particular no     *)
(* archive event is ever built with an empty commitment.                   *)
(***************************************************************************)
THEOREM TypeCorrect == Spec => []TypeOK
  <1>1. TInv => TypeOK
    BY DEF TInv
  <1> QED
    BY <1>1, TypeInit, TypeStep, PTL DEF Spec

-----------------------------------------------------------------------------
\* A new empty file keeps links where they are.
LEMMA CreateKeepsLinksFirst ==
  ASSUME TypeOK, LinksComeFirst, Create
  PROVE  LinksComeFirst'
  <1>1. /\ Len(inodes') = Len(inodes) + 1 /\ Len(inodes) \in Nat
        /\ inodes' \in Seq(Seq(Event)) /\ inodes \in Seq(Seq(Event))
        /\ \A i \in DOMAIN inodes : inodes'[i] = inodes[i]
        /\ inodes'[Len(inodes) + 1] = <<>>
    BY CreateType DEF TypeOK
  <1>2. ASSUME NEW i \in DOMAIN inodes', NEW n \in DOMAIN inodes'[i], inodes'[i][n].name # 0
        PROVE  n = 1
    <2>1. CASE i \in DOMAIN inodes
      BY <1>1, <1>2, <2>1 DEF LinksComeFirst
    <2>2. CASE i = Len(inodes) + 1
      BY <1>1, <1>2, <2>2
    <2> QED
      BY <1>1, <2>1, <2>2
  <1> QED
    BY <1>2 DEF LinksComeFirst

\* An append keeps links first if what it appends is no link, or is the first.
LEMMA AppendKeepsLinksFirst ==
  ASSUME TypeOK, LinksComeFirst, NEW i \in 1..Len(inodes), NEW e \in Event, AppendTo(i, e),
         e.name = 0 \/ inodes[i] = <<>>
  PROVE  LinksComeFirst'
  <1>1. /\ inodes' \in Seq(Seq(Event)) /\ Len(inodes') = Len(inodes)
        /\ inodes'[i] = Append(inodes[i], e)
        /\ \A k \in 1..Len(inodes) : k # i => inodes'[k] = inodes[k]
        /\ inodes \in Seq(Seq(Event))
    BY AppendToType DEF TypeOK
  <1>3. inodes[i] \in Seq(Event) /\ DOMAIN inodes[i] = 1..Len(inodes[i]) /\ i \in DOMAIN inodes
    BY <1>1
  <1>2. ASSUME NEW k \in DOMAIN inodes', NEW n \in DOMAIN inodes'[k], inodes'[k][n].name # 0
        PROVE  n = 1
    <2>1. k \in DOMAIN inodes
      BY <1>1
    <2>2. CASE k # i
      BY <1>1, <1>2, <2>1, <2>2 DEF LinksComeFirst
    <2>3. CASE k = i
      <3>1. n \in 1..Len(inodes[i]) + 1
        BY <1>1, <1>3, <2>3
      <3>2. CASE n \in 1..Len(inodes[i])
        <4>1. inodes'[k][n] = inodes[i][n]
          BY <1>1, <1>3, <2>3, <3>2
        <4> QED
          BY <1>2, <1>3, <3>2, <4>1 DEF LinksComeFirst
      <3>3. CASE n = Len(inodes[i]) + 1
        <4>1. inodes'[k][n] = e
          BY <1>1, <1>3, <2>3, <3>3
        <4>2. inodes[i] = <<>>
          BY <1>2, <4>1
        <4> QED
          BY <3>3, <4>2
      <3> QED
        BY <1>3, <3>1, <3>2, <3>3
    <2> QED
      BY <2>2, <2>3
  <1> QED
    BY <1>2 DEF LinksComeFirst

LEMMA LinksStep == TInv /\ LinksComeFirst /\ [Next]_vars => LinksComeFirst'
  <1> SUFFICES ASSUME TInv, LinksComeFirst, [Next]_vars PROVE LinksComeFirst'
    OBVIOUS
  <1>a. \A p \in Processes : my[p] \in Local /\ Len(inodes) \in Nat
    BY DEF TInv, TypeOK, Processes, Local
  <1>1. CASE UNCHANGED inodes
    BY <1>1 DEF LinksComeFirst
  <1>2. CASE Create
    BY <1>2, CreateKeepsLinksFirst DEF TInv
  <1>3. ASSUME NEW w \in Writers, Write(w) PROVE LinksComeFirst'
    <2> DEFINE e == [id |-> written + 1, count |-> 0, head |-> 0, name |-> 0]
    <2>1. my[w].inode \in 1..Len(inodes)
      BY <1>3, <1>a DEF Write, TInv, Progress, Local, Processes
    <2>2. e \in Event /\ e.name = 0
      BY RotationAssumption DEF Event, TInv, TypeOK, RotationAssumption
    <2> QED
      BY <1>3, <2>1, <2>2, AppendKeepsLinksFirst DEF Write, TInv
  <1>4. ASSUME NEW a \in Archivers, Link(a) PROVE LinksComeFirst'
    <2> DEFINE m == my[a]
               e == [id |-> written + 1, count |-> m.count, head |-> m.head, name |-> m.name]
    <2>1. /\ m.inode \in 1..Len(inodes)
          /\ m.count \in Nat \ {0} /\ m.head \in Nat \ {0} /\ m.name \in Nat \ {0}
      BY <1>4, <1>a DEF Link, TInv, Progress, Local, Processes
    <2>2. e \in Event
      <3>1. written + 1 \in Nat \ {0}
        BY RotationAssumption DEF TInv, TypeOK, RotationAssumption
      <3> QED
        BY <2>1, <3>1 DEF Event
    <2>3. CASE inodes[m.inode] = <<>> /\ AppendTo(m.inode, e)
      BY <2>1, <2>2, <2>3, AppendKeepsLinksFirst DEF TInv
    <2> QED
      BY <1>4, <1>1, <2>3 DEF Link
  <1>5. ASSUME NEW w \in Writers, Open(w) PROVE LinksComeFirst'
    BY <1>1, <1>2, <1>5 DEF Open, OpenLive
  <1>6. ASSUME NEW a \in Archivers,
               \/ \E keep \in Keeps : Stat(a, keep)
               \/ Claim(a) \/ Rename(a) \/ Settle(a) \/ CheckRollback(a) \/ Rollback(a)
               \/ OpenSuccessor(a) \/ Prune(a)
        PROVE  LinksComeFirst'
    BY <1>1, <1>2, <1>6
    DEF Stat, Claim, Rename, Settle, CheckRollback, Rollback, OpenSuccessor, Prune, OpenLive
  <1>7. ASSUME NEW p \in Processes, Stop(p) PROVE LinksComeFirst'
    BY <1>1, <1>7 DEF Stop
  <1>8. CASE UNCHANGED vars
    BY <1>1, <1>8 DEF vars
  <1> QED
    BY <1>3, <1>4, <1>5, <1>6, <1>7, <1>8 DEF Next, Processes

(***************************************************************************)
(* Whatever writers and archivers do and wherever they die, an archive     *)
(* event is only ever the first line of its file.                          *)
(***************************************************************************)
THEOREM LinksAlwaysComeFirst == Spec => []LinksComeFirst
  <1>1. Init => TInv /\ LinksComeFirst
    BY TypeInit DEF Init, LinksComeFirst
  <1>2. (TInv /\ LinksComeFirst) /\ [Next]_vars => (TInv /\ LinksComeFirst)'
    BY TypeStep, LinksStep
  <1> QED
    BY <1>1, <1>2, PTL DEF Spec

-----------------------------------------------------------------------------
\* Inode i is what archiver a counted.
Counted(i, a) == Len(inodes[i]) = my[a].count /\ HeadOf(i) = my[a].head

\* Inode i holds an event that is no link.
Bears(i) == \E n \in DOMAIN inodes[i] : inodes[i][n].name = 0

\* An inode has one entry at most in the directory.
OneEntryEach ==
  /\ \A m, n \in DOMAIN names : names[m] # 0 /\ names[m] = names[n] => m = n
  /\ \A n \in DOMAIN names : names[n] # 0 => names[n] # live

HoldsName == {"rename", "settle", "rollback?", "rollback", "open", "link"}

\* A name is of one archiver, and links are to names that nobody is at work on.
NamesAreOwn ==
  /\ \A a, b \in Processes :
       pc[a] \in HoldsName /\ pc[b] \in HoldsName /\ my[a].name = my[b].name => a = b
  /\ \A i \in DOMAIN inodes : \A n \in DOMAIN inodes[i] :
       /\ inodes[i][n].name <= Len(names)
       /\ \A a \in Processes : pc[a] \in HoldsName => inodes[i][n].name # my[a].name

\* What stands at a claimed name before the rename is empty, and open nowhere.
PlaceholdersAreEmpty ==
  \A a \in Processes : pc[a] = "rename" =>
    LET i == names[my[a].name]
    IN  i # 0 => inodes[i] = <<>> /\ \A p \in Processes : my[p].inode # i

\* Where files are.
Places == OneEntryEach /\ NamesAreOwn /\ PlaceholdersAreEmpty

\* A writer writes to the live file, while no archive runs.
WritersAreAlone ==
  \A w \in Writers : pc[w] = "append" => my[w].inode = live /\ ~Archiving

\* What an archiver at a step knows of its archive, and of the live file. Only
\* files without events of writers are moved back, or moved back over.
Knows(a) ==
  LET i == names[my[a].name] IN
  /\ pc[a] \in {"claim", "rename"} /\ live # 0 /\ Bears(live) => Counted(live, a)
  /\ pc[a] = "settle" /\ i # 0 /\ Bears(i) => Counted(i, a)
  /\ pc[a] \in {"rollback?", "rollback"} /\ i # 0 => ~Bears(i)
  /\ pc[a] = "rollback" /\ live # 0 => ~Bears(live)
  /\ pc[a] \in {"open", "link"} /\ i # 0 => Counted(i, a)

Kept == (Range(names) \cup {live} \cup pruned) \ {0}

AckedAreKept ==
  \A id \in acked : \E i \in Kept : \E n \in DOMAIN inodes[i] :
    inodes[i][n].id = id /\ inodes[i][n].name = 0

\* What holds while no writer was active during an archive.
Quiesced ==
  /\ WritersAreAlone
  /\ \A a \in Archivers : Knows(a)
  /\ \A i \in DOMAIN inodes : LinkHolds(i)
  /\ AckedAreKept

QInv == TInv /\ Places /\ (~disturbed => Quiesced)

-----------------------------------------------------------------------------
\* The types, as the proofs below need them.
Shapes ==
  /\ Len(inodes) \in Nat /\ DOMAIN inodes = 1..Len(inodes)
  /\ \A i \in 1..Len(inodes) :
       /\ inodes[i] \in Seq(Event)
       /\ Len(inodes[i]) \in Nat /\ DOMAIN inodes[i] = 1..Len(inodes[i])
       /\ \A n \in 1..Len(inodes[i]) : inodes[i][n] \in Event
  /\ Len(names) \in Nat /\ DOMAIN names = 1..Len(names)
  /\ \A n \in 1..Len(names) : names[n] \in 0..Len(inodes)
  /\ live \in 0..Len(inodes)
  /\ \A p \in Processes : my[p] \in Local /\ my[p].name \in 0..Len(names)
  /\ \A p \in Processes : my[p].inode \in 0..Len(inodes)
  /\ \A p \in Processes : pc[p] \in HoldsName =>
       my[p].name \in 1..Len(names) /\ my[p].count \in Nat \ {0}

LEMMA ShapesHold == TInv => Shapes
  <1> SUFFICES ASSUME TInv PROVE Shapes
    OBVIOUS
  <1>1. /\ inodes \in Seq(Seq(Event)) /\ Len(inodes) \in Nat
        /\ \A i \in 1..Len(inodes) : inodes[i] \in Seq(Event)
    BY DEF TInv, TypeOK
  <1>2. \A s \in Seq(Event) :
          Len(s) \in Nat /\ DOMAIN s = 1..Len(s) /\ \A n \in 1..Len(s) : s[n] \in Event
    OBVIOUS
  <1>3. names \in Seq(0..Len(inodes)) /\ Len(names) \in Nat
    BY DEF TInv, TypeOK
  <1>4. \A p \in Processes : my[p] \in Local /\ my[p].name \in 0..Len(names)
                             /\ my[p].inode \in 0..Len(inodes) /\ my[p].count \in Nat
    BY DEF TInv, TypeOK, Local, Processes
  <1>5. \A p \in Processes : pc[p] \in HoldsName => my[p].name # 0 /\ my[p].count # 0
    BY DEF TInv, Progress, HoldsName
  <1>6. \A p \in Processes : pc[p] \in HoldsName =>
          my[p].name \in 1..Len(names) /\ my[p].count \in Nat \ {0}
    BY <1>3, <1>4, <1>5
  <1> QED
    BY <1>1, <1>2, <1>3, <1>4, <1>6 DEF Shapes, TInv, TypeOK

LEMMA ShapesHoldNext == TInv' => Shapes'
  BY ShapesHold, PTL

\* A step that only adds empty files.
Grown ==
  /\ Len(inodes) <= Len(inodes')
  /\ \A i \in 1..Len(inodes) : inodes'[i] = inodes[i]
  /\ \A i \in 1..Len(inodes') : i \notin 1..Len(inodes) => inodes'[i] = <<>>

\* A step of p alone.
Others(p) == \A q \in Processes : q # p => pc'[q] = pc[q] /\ my'[q] = my[q]

LEMMA SameGrown == ASSUME Shapes, UNCHANGED inodes PROVE Grown
  BY DEF Shapes, Grown

LEMMA CreateGrown ==
  ASSUME TInv, Create
  PROVE  Grown /\ Len(inodes') = Len(inodes) + 1 /\ inodes'[Len(inodes) + 1] = <<>>
  <1>1. /\ Len(inodes) \in Nat /\ DOMAIN inodes = 1..Len(inodes)
        /\ Len(inodes') = Len(inodes) + 1
        /\ \A i \in DOMAIN inodes : inodes'[i] = inodes[i]
        /\ inodes'[Len(inodes) + 1] = <<>>
    BY CreateType DEF TInv, TypeOK
  <1>2. \A i \in 1..Len(inodes') : i \notin 1..Len(inodes) => i = Len(inodes) + 1
    BY <1>1
  <1> QED
    BY <1>1, <1>2 DEF Grown

LEMMA OpenLiveGrown ==
  ASSUME TInv, NEW i \in 1..Len(inodes) + 1, OpenLive(i)
  PROVE  /\ Grown /\ live' = i /\ live' # 0
         /\ \/ live # 0 /\ live' = live /\ inodes' = inodes
            \/ live = 0 /\ live' = Len(inodes) + 1 /\ Len(inodes') = Len(inodes) + 1
  <1>1. Shapes
    BY ShapesHold
  <1>2. CASE live # 0 /\ i = live /\ UNCHANGED <<inodes, mtimes, live>>
    BY <1>1, <1>2, SameGrown
  <1>3. CASE live = 0 /\ i = Len(inodes) + 1 /\ live' = i /\ Create
    BY <1>1, <1>3, CreateGrown DEF Shapes
  <1> QED
    BY <1>2, <1>3 DEF OpenLive

-----------------------------------------------------------------------------
(* What keeps Places. *)

\* The live path is as it was, or empty, or opened anew.
Reopens == live' \in {0, live} \/ live' > Len(inodes)

LEMMA OneEntryKept ==
  ASSUME Shapes, Shapes', OneEntryEach, Reopens, Len(names') = Len(names),
         \A n \in 1..Len(names) : names'[n] \in {0, names[n]}
  PROVE  OneEntryEach'
  <1>1. \A m, n \in 1..Len(names) : names'[m] # 0 /\ names'[m] = names'[n] => m = n
    BY DEF OneEntryEach, Shapes
  <1>2. ASSUME NEW n \in 1..Len(names), names'[n] # 0 PROVE names'[n] # live'
    <2>1. names'[n] = names[n] /\ names[n] # 0 /\ n \in DOMAIN names
      BY <1>2 DEF Shapes
    <2>2. names[n] # live
      BY <2>1 DEF OneEntryEach
    <2>3. names[n] \in 1..Len(inodes)
      BY <2>1 DEF Shapes
    <2> QED
      BY <1>2, <2>1, <2>2, <2>3 DEF Reopens, Shapes
  <1>3. DOMAIN names' = 1..Len(names)
    BY DEF Shapes
  <1> QED
    BY <1>1, <1>2, <1>3 DEF OneEntryEach

\* No step but a claim takes a name.
TakesNoName ==
  \A p \in Processes :
    /\ pc'[p] \in HoldsName => pc[p] \in HoldsName /\ my'[p].name = my[p].name
    /\ pc'[p] = "rename" => pc[p] = "rename"

LEMMA NamesKept ==
  ASSUME Shapes, Shapes', NamesAreOwn, Grown, Len(names) <= Len(names'), TakesNoName
  PROVE  NamesAreOwn'
  <1>1. \A a, b \in Processes :
          pc'[a] \in HoldsName /\ pc'[b] \in HoldsName /\ my'[a].name = my'[b].name => a = b
    BY DEF NamesAreOwn, TakesNoName
  <1>2. ASSUME NEW i \in 1..Len(inodes'), NEW n \in DOMAIN inodes'[i]
        PROVE  /\ inodes'[i][n].name <= Len(names')
               /\ \A a \in Processes : pc'[a] \in HoldsName => inodes'[i][n].name # my'[a].name
    <2>1. i \in 1..Len(inodes) /\ inodes'[i] = inodes[i]
      <3>1. CASE i \notin 1..Len(inodes)
        BY <1>2, <3>1 DEF Grown, Shapes
      <3> QED
        BY <3>1 DEF Grown
    <2>2. n \in DOMAIN inodes[i] /\ i \in DOMAIN inodes
      BY <2>1 DEF Shapes
    <2>3. inodes[i][n].name <= Len(names)
          /\ \A a \in Processes : pc[a] \in HoldsName => inodes[i][n].name # my[a].name
      BY <2>2 DEF NamesAreOwn
    <2>4. inodes[i][n].name \in Nat
      BY <2>1, <2>2 DEF Shapes, Event
    <2> QED
      BY <2>1, <2>3, <2>4 DEF TakesNoName, Shapes
  <1>3. DOMAIN inodes' = 1..Len(inodes')
    BY DEF Shapes
  <1> QED
    BY <1>1, <1>2, <1>3 DEF NamesAreOwn

\* Handles go back to none, or to the live file.
OpensLive == \A p \in Processes : my'[p].inode \in {0, my[p].inode, live'}

\* No step renames over the name of another archiver that is about to rename.
SparesPlaceholders ==
  \A a \in Processes : pc'[a] = "rename" => names'[my[a].name] \in {0, names[my[a].name]}

\* What an append leaves alone: files that nobody has open.
WritesWhereOpen ==
  \A i \in 1..Len(inodes) : inodes'[i] = inodes[i] \/ \E p \in Processes : my[p].inode = i

LEMMA PlaceholdersKept ==
  ASSUME Shapes, Shapes', PlaceholdersAreEmpty, OneEntryEach', TakesNoName, OpensLive,
         SparesPlaceholders, WritesWhereOpen
  PROVE  PlaceholdersAreEmpty'
  <1>1. ASSUME NEW a \in Processes, pc'[a] = "rename", NEW i, i = names'[my'[a].name], i # 0
        PROVE  inodes'[i] = <<>> /\ \A p \in Processes : my'[p].inode # i
    <2>1. pc[a] = "rename" /\ pc'[a] \in HoldsName /\ my'[a].name = my[a].name
      BY <1>1 DEF TakesNoName, HoldsName
    <2>2. my[a].name \in 1..Len(names) /\ i = names[my[a].name]
      BY <1>1, <2>1 DEF SparesPlaceholders, Shapes, HoldsName
    <2>3. i \in 1..Len(inodes)
      BY <1>1, <2>2 DEF Shapes
    <2>4. inodes[i] = <<>> /\ \A p \in Processes : my[p].inode # i
      BY <1>1, <2>1, <2>2 DEF PlaceholdersAreEmpty
    <2>5. i # live'
      BY <1>1, <2>1 DEF OneEntryEach, Shapes
    <2> QED
      BY <1>1, <2>3, <2>4, <2>5 DEF WritesWhereOpen, OpensLive
  <1> QED
    BY <1>1 DEF PlaceholdersAreEmpty

\* Steps that take no name, move nothing and write nothing.
LEMMA PlacesKept ==
  ASSUME Shapes, Shapes', Places, Grown, Reopens, Len(names') = Len(names),
         \A n \in 1..Len(names) : names'[n] \in {0, names[n]}, TakesNoName, OpensLive
  PROVE  Places'
  <1>1. OneEntryEach'
    BY OneEntryKept DEF Places
  <1>2. NamesAreOwn'
    <2>1. Len(names) <= Len(names')
      BY DEF Shapes
    <2> QED
      BY <2>1, NamesKept DEF Places
  <1>3. SparesPlaceholders
    BY DEF SparesPlaceholders, TakesNoName, Shapes, HoldsName
  <1>4. WritesWhereOpen
    BY DEF WritesWhereOpen, Grown
  <1>5. PlaceholdersAreEmpty'
    BY <1>1, <1>3, <1>4, PlaceholdersKept DEF Places
  <1> QED
    BY <1>1, <1>2, <1>5 DEF Places

-----------------------------------------------------------------------------
(* What keeps Quiesced. *)

\* Files that hold something are left alone, and the others come to hold links
\* at most.
Gentle ==
  /\ Len(inodes) <= Len(inodes')
  /\ \A i \in 1..Len(inodes) : inodes'[i] = inodes[i] \/ (inodes[i] = <<>> /\ ~Bears(i)')
  /\ \A i \in 1..Len(inodes') : i \notin 1..Len(inodes) => inodes'[i] = <<>>

LEMMA GrownIsGentle == ASSUME Shapes, Grown PROVE Gentle
  BY DEF Shapes, Grown, Gentle, Bears

\* A file that holds what an archiver counted still does.
LEMMA CountedKept ==
  ASSUME Shapes, Gentle, NEW i \in 1..Len(inodes), NEW a \in Processes,
         Counted(i, a), my[a].count # 0, my'[a].count = my[a].count, my'[a].head = my[a].head
  PROVE  Counted(i, a)'
  <1>1. inodes[i] # <<>>
    BY DEF Counted, Shapes
  <1>2. inodes'[i] = inodes[i]
    BY <1>1 DEF Gentle
  <1> QED
    BY <1>1, <1>2 DEF Counted, HeadOf

\* A file bears an event after the step only if it did before.
LEMMA BearsBefore ==
  ASSUME Shapes, Gentle, NEW i \in 1..Len(inodes'), Bears(i)'
  PROVE  i \in 1..Len(inodes) /\ Bears(i) /\ inodes'[i] = inodes[i]
  BY DEF Gentle, Bears

\* Where the live path leads after the step: where it did, nowhere, or to a file
\* without events of writers.
KeepsLive == live' \in {0, live} \/ ~Bears(live)'

\* An archiver that does not move goes on knowing what it knew.
LEMMA BystanderKnows ==
  ASSUME TInv, Shapes, Shapes', Gentle, KeepsLive, NEW b \in Archivers,
         pc'[b] = pc[b], my'[b] = my[b],
         pc[b] \in HoldsName => names'[my[b].name] \in {0, names[my[b].name]},
         Knows(b)
  PROVE  Knows(b)'
  <1> DEFINE i == names'[my[b].name]
  <1>a. b \in Processes
    BY DEF Processes
  <1>b. pc[b] \in HoldsName \cup {"claim"} => my[b].count # 0
    BY <1>a DEF TInv, Progress, HoldsName
  <1>c. pc[b] \in HoldsName /\ i # 0 => i = names[my[b].name] /\ i \in 1..Len(inodes) /\ i \in 1..Len(inodes')
    BY <1>a DEF Shapes, Gentle
  <1>1. ASSUME pc[b] \in {"claim", "rename"}, live' # 0, Bears(live)' PROVE Counted(live, b)'
    <2>1. live' = live
      BY <1>1 DEF KeepsLive
    <2>2. live \in 1..Len(inodes) /\ live \in 1..Len(inodes')
      BY <1>1, <2>1 DEF Shapes, Gentle
    <2>3. PICK l : l = live
      OBVIOUS
    <2>4. Bears(l) /\ l \in 1..Len(inodes)
      <3>1. Bears(l)'
        BY <1>1, <2>1, <2>3 DEF Bears
      <3> QED
        BY <2>2, <2>3, <3>1, BearsBefore
    <2>5. Counted(l, b)
      BY <1>1, <2>1, <2>3, <2>4 DEF Knows
    <2>6. Counted(l, b)'
      BY <1>1, <1>a, <1>b, <2>4, <2>5, CountedKept DEF HoldsName
    <2> QED
      BY <2>1, <2>3, <2>6 DEF Counted, HeadOf
  <1>2. PICK k : k = i
    OBVIOUS
  <1>3. ASSUME pc[b] = "settle", k # 0, Bears(k)' PROVE Counted(k, b)'
    <2>1. k = names[my[b].name] /\ k \in 1..Len(inodes) /\ k \in 1..Len(inodes')
      BY <1>2, <1>3, <1>c DEF HoldsName
    <2>2. Bears(k)
      BY <1>3, <2>1, BearsBefore
    <2>3. Counted(k, b)
      BY <1>3, <2>1, <2>2 DEF Knows
    <2> QED
      BY <1>3, <1>a, <1>b, <2>1, <2>3, CountedKept DEF HoldsName
  <1>4. ASSUME pc[b] \in {"rollback?", "rollback"}, k # 0 PROVE ~Bears(k)'
    <2>1. k = names[my[b].name] /\ k \in 1..Len(inodes) /\ k \in 1..Len(inodes')
      BY <1>2, <1>4, <1>c DEF HoldsName
    <2>2. ~Bears(k)
      BY <1>4, <2>1 DEF Knows
    <2> QED
      BY <2>1, <2>2, BearsBefore
  <1>5. ASSUME pc[b] = "rollback", live' # 0 PROVE ~Bears(live)'
    <2>1. CASE live' = live
      <3>1. PICK l : l = live
        OBVIOUS
      <3>2. ~Bears(l) /\ l \in 1..Len(inodes)
        BY <1>5, <2>1, <3>1 DEF Knows, Shapes
      <3>3. ~Bears(l)'
        <4>1. l \in 1..Len(inodes')
          BY <3>2 DEF Gentle, Shapes
        <4> QED
          BY <3>2, <4>1, BearsBefore
      <3> QED
        BY <2>1, <3>1, <3>3 DEF Bears
    <2> QED
      BY <1>5, <2>1 DEF KeepsLive
  <1>6. ASSUME pc[b] \in {"open", "link"}, k # 0 PROVE Counted(k, b)'
    <2>1. k = names[my[b].name] /\ k \in 1..Len(inodes)
      BY <1>2, <1>6, <1>c DEF HoldsName
    <2>2. Counted(k, b)
      BY <1>6, <2>1 DEF Knows
    <2> QED
      BY <1>6, <1>a, <1>b, <2>1, <2>2, CountedKept DEF HoldsName
  <1>7. k = names'[my'[b].name]
    BY <1>2
  <1> HIDE DEF i
  <1>8. /\ pc'[b] = "settle" /\ k # 0 /\ Bears(k)' => Counted(k, b)'
        /\ pc'[b] \in {"rollback?", "rollback"} /\ k # 0 => ~Bears(k)'
        /\ pc'[b] \in {"open", "link"} /\ k # 0 => Counted(k, b)'
    BY <1>3, <1>4, <1>6
  <1>9. /\ pc'[b] \in {"claim", "rename"} /\ live' # 0 /\ Bears(live)' => Counted(live, b)'
        /\ pc'[b] = "rollback" /\ live' # 0 => ~Bears(live)'
    BY <1>1, <1>5
  <1> QED
    BY <1>7, <1>8, <1>9 DEF Knows, Bears, Counted, HeadOf

\* No name changes to another file, but that of the archiver at work on it.
LinkedNamesKept(p) ==
  /\ Len(names) <= Len(names')
  /\ \A n \in 1..Len(names) :
       names'[n] \in {0, names[n]} \/ (pc[p] \in HoldsName /\ n = my[p].name)

\* A link that is not written by the step goes on holding.
LEMMA LinkKept ==
  ASSUME Shapes, Shapes', NamesAreOwn, Gentle, NEW p \in Processes, LinkedNamesKept(p),
         NEW i \in 1..Len(inodes), inodes'[i] = inodes[i], LinkHolds(i)
  PROVE  LinkHolds(i)'
  <1> DEFINE link == inodes[i][1]
  <1> SUFFICES ASSUME inodes[i] # <<>>, link.name # 0,
                      NEW f, f = names'[link.name], f # 0
               PROVE  Len(inodes'[f]) = link.count /\ HeadOf(f)' = link.head
    BY DEF LinkHolds, HasLink, HeadOf
  <1>1. link \in Event /\ 1 \in DOMAIN inodes[i] /\ i \in DOMAIN inodes
    <2>1. \A s \in Seq(Event) : s # <<>> => Len(s) \in Nat \ {0}
      OBVIOUS
    <2>2. 1 \in 1..Len(inodes[i])
      BY <2>1 DEF Shapes
    <2> QED
      BY <2>2 DEF Shapes
  <1>2. link.name \in 1..Len(names) /\ link.count # 0
    <2>1. link.name <= Len(names)
      BY <1>1 DEF NamesAreOwn
    <2> QED
      BY <1>1, <2>1 DEF Event, Shapes
  <1>3. f = names[link.name]
    <2>1. pc[p] \in HoldsName => link.name # my[p].name
      BY <1>1 DEF NamesAreOwn
    <2> QED
      BY <1>2, <2>1 DEF LinkedNamesKept
  <1>4. f \in 1..Len(inodes)
    BY <1>2, <1>3 DEF Shapes
  <1>5. Len(inodes[f]) = link.count /\ HeadOf(f) = link.head
    BY <1>3 DEF LinkHolds, HasLink
  <1>6. inodes[f] # <<>>
    BY <1>2, <1>5
  <1>7. inodes'[f] = inodes[f]
    BY <1>4, <1>6 DEF Gentle
  <1> QED
    BY <1>5, <1>7 DEF HeadOf

\* Files that bear events of writers stay where they can be found.
KeepsBearers == \A i \in Kept : Bears(i) => i \in Kept'

LEMMA KeptShape == ASSUME TInv PROVE Kept \subseteq 1..Len(inodes)
  <1>1. Shapes
    BY ShapesHold
  <1>2. Range(names) \subseteq 0..Len(inodes)
    BY <1>1 DEF Range, Shapes
  <1>3. Len(inodes) \in Nat /\ live \in 0..Len(inodes) /\ pruned \subseteq 1..Len(inodes)
    BY <1>1 DEF Shapes, TInv, TypeOK
  <1>4. ASSUME NEW i \in Kept PROVE i \in 1..Len(inodes)
    <2>1. i \in Range(names) \/ i = live \/ i \in pruned
      BY DEF Kept
    <2>2. i # 0
      BY DEF Kept
    <2>3. i \in 0..Len(inodes)
      <3>1. 1..Len(inodes) \subseteq 0..Len(inodes)
        BY <1>3
      <3> QED
        BY <1>2, <1>3, <2>1, <3>1, Zenon
    <2> QED
      BY <1>3, <2>2, <2>3
  <1> QED
    BY <1>4

LEMMA AckedKept ==
  ASSUME TInv, Shapes, Gentle, KeepsBearers, AckedAreKept, UNCHANGED acked
  PROVE  AckedAreKept'
  <1>1. ASSUME NEW id \in acked
        PROVE  \E i \in Kept' : \E n \in DOMAIN inodes'[i] :
                 inodes'[i][n].id = id /\ inodes'[i][n].name = 0
    <2>1. PICK i \in Kept : \E n \in DOMAIN inodes[i] :
                 inodes[i][n].id = id /\ inodes[i][n].name = 0
      BY DEF AckedAreKept
    <2>2. Bears(i) /\ i \in 1..Len(inodes)
      BY <2>1, KeptShape DEF Bears
    <2>3. inodes[i] # <<>>
      BY <2>2 DEF Bears
    <2>4. inodes'[i] = inodes[i] /\ i \in Kept'
      BY <2>2, <2>3 DEF Gentle, KeepsBearers
    <2> QED
      BY <2>1, <2>4
  <1> QED
    BY <1>1 DEF AckedAreKept

\* While an archive runs, no writer is about to write.
LEMMA NoWriterBeside ==
  ASSUME Shapes, NEW a \in Archivers, Others(a), \A w \in Writers : pc[w] # "append"
  PROVE  WritersAreAlone'
  BY RotationAssumption DEF WritersAreAlone, Others, RotationAssumption, Processes

LEMMA QuiescedKept ==
  ASSUME TInv, Shapes, Shapes', NamesAreOwn, Quiesced, Gentle, KeepsLive, KeepsBearers,
         NEW p \in Processes, Others(p), LinkedNamesKept(p), UNCHANGED acked,
         p \in Archivers => Knows(p)',
         \A i \in 1..Len(inodes) : inodes'[i] = inodes[i] \/ LinkHolds(i)',
         WritersAreAlone'
  PROVE  Quiesced'
  <1>1. ASSUME NEW b \in Archivers PROVE Knows(b)'
    <2>1. CASE b # p
      <3>1. b \in Processes /\ pc'[b] = pc[b] /\ my'[b] = my[b] /\ Knows(b)
        BY <2>1 DEF Processes, Others, Quiesced
      <3>2. pc[b] \in HoldsName => names'[my[b].name] \in {0, names[my[b].name]}
        BY <2>1, <3>1 DEF LinkedNamesKept, Shapes, NamesAreOwn
      <3> QED
        BY <3>1, <3>2, BystanderKnows
    <2> QED
      BY <2>1
  <1>2. ASSUME NEW i \in 1..Len(inodes') PROVE LinkHolds(i)'
    <2>1. CASE i \notin 1..Len(inodes)
      <3>1. inodes'[i] = <<>>
        BY <2>1 DEF Gentle
      <3> QED
        BY <3>1 DEF LinkHolds, HasLink
    <2>2. CASE i \in 1..Len(inodes) /\ inodes'[i] = inodes[i]
      <3>1. LinkHolds(i)
        BY <2>2 DEF Quiesced, Shapes
      <3> QED
        BY <2>2, <3>1, LinkKept
    <2> QED
      BY <2>1, <2>2
  <1>3. AckedAreKept'
    BY AckedKept DEF Quiesced
  <1>4. DOMAIN inodes' = 1..Len(inodes')
    BY DEF Shapes
  <1> QED
    BY <1>1, <1>2, <1>3, <1>4 DEF Quiesced

-----------------------------------------------------------------------------
(* The steps, one by one. *)

LEMMA Returned ==
  ASSUME TInv, NEW p \in Processes, Return(p)
  PROVE  pc'[p] = "idle" /\ my'[p].inode = 0 /\ Others(p)
  BY GotoType DEF TInv, TypeOK, Return, Goto, NoLocals, PCs, Others, Processes

LEMMA WentTo ==
  ASSUME TInv, NEW p \in Processes, NEW label \in PCs, Goto(p, label)
  PROVE  pc'[p] = label /\ \A q \in Processes : q # p => pc'[q] = pc[q]
  BY GotoType DEF TInv

\* The live file is opened, or created empty.
LEMMA OpensReopen ==
  ASSUME Shapes, Grown,
         \/ live' = live
         \/ live' = Len(inodes) + 1 /\ Len(inodes') = Len(inodes) + 1
  PROVE  Reopens /\ KeepsLive
  <1>1. CASE live' = live
    BY <1>1 DEF Reopens, KeepsLive
  <1>2. CASE live' = Len(inodes) + 1 /\ Len(inodes') = Len(inodes) + 1
    <2>1. Len(inodes) \in Nat
      BY DEF Shapes
    <2>2. live' > Len(inodes) /\ live' \in 1..Len(inodes') /\ live' \notin 1..Len(inodes)
      BY <1>2, <2>1
    <2>3. inodes'[live'] = <<>>
      BY <2>2 DEF Grown
    <2> QED
      BY <2>2, <2>3 DEF Reopens, KeepsLive, Bears
  <1> QED
    BY <1>1, <1>2

\* Ending, by returning, raising or dying, with every file as it was.
LEMMA EndSafe ==
  ASSUME QInv, TInv', NEW p \in Processes, Return(p),
         UNCHANGED <<inodes, live, names, History>>
  PROVE  QInv'
  <1>1. TInv /\ Shapes /\ Shapes' /\ Places
    BY ShapesHold, ShapesHoldNext DEF QInv
  <1>2. pc'[p] = "idle" /\ my'[p].inode = 0 /\ Others(p)
    BY <1>1, Returned
  <1>3. Grown
    BY <1>1, SameGrown
  <1>4. Places'
    <2>1. TakesNoName
      BY <1>2 DEF TakesNoName, Others, HoldsName
    <2>2. OpensLive
      BY <1>2 DEF OpensLive, Others
    <2> QED
      BY <1>1, <1>3, <2>1, <2>2, PlacesKept DEF Reopens
  <1>5. ASSUME ~disturbed' PROVE Quiesced'
    <2>1. Quiesced
      BY <1>5 DEF QInv, History
    <2>2. Gentle
      BY <1>1, <1>3, GrownIsGentle
    <2>3. KeepsLive /\ KeepsBearers /\ acked' = acked
      BY DEF KeepsLive, KeepsBearers, Kept, History
    <2>4. LinkedNamesKept(p)
      BY <1>1 DEF LinkedNamesKept, Shapes
    <2>5. p \in Archivers => Knows(p)'
      BY <1>2 DEF Knows
    <2>6. WritersAreAlone'
      <3>1. \A a \in Archivers : pc'[a] # "idle" => pc[a] # "idle"
        BY <1>2 DEF Others, Processes
      <3> QED
        BY <1>2, <2>1, <3>1 DEF Quiesced, WritersAreAlone, Archiving, Others, Processes
    <2> QED
      BY <1>1, <1>2, <1>3, <2>1, <2>2, <2>3, <2>4, <2>5, <2>6, QuiescedKept DEF Places, Grown
  <1> QED
    BY <1>1, <1>4, <1>5 DEF QInv

\* A writer opens the live file.
LEMMA OpenSafe ==
  ASSUME QInv, TInv', NEW w \in Writers, Open(w)
  PROVE  QInv'
  <1>1. TInv /\ Shapes /\ Shapes' /\ Places /\ w \in Processes /\ w \notin Archivers
    BY ShapesHold, ShapesHoldNext, RotationAssumption DEF QInv, Processes, RotationAssumption
  <1>2. PICK i \in 1..Len(inodes) + 1 : OpenLive(i) /\ my' = [my EXCEPT ![w].inode = i]
    BY DEF Open
  <1>3. /\ Grown /\ live' = i /\ live' # 0
        /\ \/ live # 0 /\ live' = live /\ inodes' = inodes
           \/ live = 0 /\ live' = Len(inodes) + 1 /\ Len(inodes') = Len(inodes) + 1
    BY <1>1, <1>2, OpenLiveGrown
  <1>4. /\ pc[w] = "idle" /\ names' = names /\ acked' = acked /\ pruned' = pruned
        /\ disturbed' = (disturbed \/ Archiving)
    BY DEF Open
  <1>5. pc'[w] = "append" /\ \A q \in Processes : q # w => pc'[q] = pc[q]
    BY <1>1, WentTo DEF Open, PCs
  <1>6. my'[w].inode = live' /\ \A q \in Processes : q # w => my'[q] = my[q]
    <2>1. my[w] \in Local /\ my \in [Processes -> Local]
      BY <1>1 DEF Shapes, TInv, TypeOK, Local, Processes
    <2>2. my'[w] = [my[w] EXCEPT !.inode = i]
      BY <1>1, <1>2, <2>1
    <2>3. my'[w].inode = i
      BY <2>1, <2>2 DEF Local
    <2> QED
      BY <1>2, <1>3, <2>1, <2>3
  <1>7. Others(w)
    BY <1>5, <1>6 DEF Others
  <1>8. Places'
    <2>1. TakesNoName
      BY <1>5, <1>7 DEF TakesNoName, Others, HoldsName
    <2>2. OpensLive
      BY <1>6, <1>7 DEF OpensLive, Others
    <2>3. Reopens
      BY <1>1, <1>3, OpensReopen
    <2> QED
      BY <1>1, <1>3, <1>4, <2>1, <2>2, <2>3, PlacesKept
  <1>9. ASSUME ~disturbed' PROVE Quiesced'
    <2>1. Quiesced /\ ~Archiving
      BY <1>4, <1>9 DEF QInv
    <2>2. Gentle
      BY <1>1, <1>3, GrownIsGentle
    <2>3. KeepsLive
      BY <1>1, <1>3, OpensReopen
    <2>4. KeepsBearers
      BY <1>3, <1>4 DEF KeepsBearers, Kept
    <2>5. LinkedNamesKept(w)
      BY <1>1, <1>4 DEF LinkedNamesKept, Shapes
    <2>6. WritersAreAlone'
      <3>1. ASSUME NEW v \in Writers, pc'[v] = "append" PROVE my'[v].inode = live'
        <4>1. CASE v = w
          BY <1>6, <4>1
        <4>2. CASE v # w
          <5>1. pc[v] = "append" /\ my'[v] = my[v] /\ v \in Processes
            BY <1>7, <3>1, <4>2 DEF Others, Processes
          <5>2. my[v].inode = live
            BY <2>1, <5>1 DEF Quiesced, WritersAreAlone
          <5>3. my[v].inode # 0
            BY <1>1, <5>1 DEF TInv, Progress
          <5> QED
            BY <1>3, <5>1, <5>2, <5>3
        <4> QED
          BY <4>1, <4>2
      <3>2. ~Archiving'
        BY <1>1, <1>5, <2>1 DEF Archiving, Processes
      <3> QED
        BY <3>1, <3>2 DEF WritersAreAlone
    <2> QED
      BY <1>1, <1>3, <1>4, <1>7, <2>1, <2>2, <2>3, <2>4, <2>5, <2>6, QuiescedKept
      DEF Places, Grown
  <1> QED
    BY <1>1, <1>8, <1>9 DEF QInv

\* e is appended to inode i.
Appends(i, e) ==
  /\ Len(inodes') = Len(inodes)
  /\ inodes'[i] = Append(inodes[i], e)
  /\ \A k \in 1..Len(inodes) : k # i => inodes'[k] = inodes[k]

\* The events of a file after an append: those it had, where they were, and e.
LEMMA AppendEvents ==
  ASSUME Shapes, NEW i \in 1..Len(inodes), NEW e \in Event, Appends(i, e)
  PROVE  /\ \A k \in 1..Len(inodes) : \A n \in DOMAIN inodes[k] :
              n \in DOMAIN inodes'[k] /\ inodes'[k][n] = inodes[k][n]
         /\ \A k \in 1..Len(inodes) : \A n \in DOMAIN inodes'[k] :
              \/ n \in DOMAIN inodes[k] /\ inodes'[k][n] = inodes[k][n]
              \/ k = i /\ n = Len(inodes[i]) + 1 /\ inodes'[k][n] = e
         /\ Len(inodes[i]) + 1 \in DOMAIN inodes'[i] /\ inodes'[i][Len(inodes[i]) + 1] = e
  <1>1. inodes[i] \in Seq(Event) /\ DOMAIN inodes[i] = 1..Len(inodes[i])
    BY DEF Shapes
  <1>2. \A s \in Seq(Event) :
          /\ Len(s) \in Nat /\ DOMAIN Append(s, e) = 1..Len(s) + 1 /\ Append(s, e)[Len(s) + 1] = e
          /\ \A n \in 1..Len(s) : Append(s, e)[n] = s[n]
    OBVIOUS
  <1>3. /\ Len(inodes[i]) \in Nat /\ DOMAIN inodes'[i] = 1..Len(inodes[i]) + 1
        /\ inodes'[i][Len(inodes[i]) + 1] = e
        /\ \A n \in 1..Len(inodes[i]) : inodes'[i][n] = inodes[i][n]
    BY <1>1, <1>2 DEF Appends
  <1>4. ASSUME NEW k \in 1..Len(inodes), k # i
        PROVE  inodes'[k] = inodes[k]
    BY <1>4 DEF Appends
  <1>5. \A n \in DOMAIN inodes[i] : n \in DOMAIN inodes'[i] /\ inodes'[i][n] = inodes[i][n]
    BY <1>1, <1>3
  <1>6. \A n \in DOMAIN inodes'[i] :
          \/ n \in DOMAIN inodes[i] /\ inodes'[i][n] = inodes[i][n]
          \/ n = Len(inodes[i]) + 1 /\ inodes'[i][n] = e
    BY <1>1, <1>3
  <1>7. Len(inodes[i]) + 1 \in DOMAIN inodes'[i]
    BY <1>3
  <1> QED
    BY <1>3, <1>4, <1>5, <1>6, <1>7

LEMMA AppendNames ==
  ASSUME Shapes, Shapes', NamesAreOwn, TakesNoName, UNCHANGED names,
         NEW i \in 1..Len(inodes), NEW e \in Event, Appends(i, e),
         e.name <= Len(names), \A a \in Processes : pc'[a] \in HoldsName => e.name # my[a].name
  PROVE  NamesAreOwn'
  <1>1. \A a, b \in Processes :
          pc'[a] \in HoldsName /\ pc'[b] \in HoldsName /\ my'[a].name = my'[b].name => a = b
    BY DEF NamesAreOwn, TakesNoName
  <1>2. ASSUME NEW k \in 1..Len(inodes), NEW n \in DOMAIN inodes'[k]
        PROVE  /\ inodes'[k][n].name <= Len(names)
               /\ \A a \in Processes : pc'[a] \in HoldsName => inodes'[k][n].name # my'[a].name
    <2>1. CASE n \in DOMAIN inodes[k] /\ inodes'[k][n] = inodes[k][n]
      <3>1. k \in DOMAIN inodes
        BY DEF Shapes
      <3>2. inodes[k][n].name <= Len(names)
            /\ \A a \in Processes : pc[a] \in HoldsName => inodes[k][n].name # my[a].name
        BY <2>1, <3>1 DEF NamesAreOwn
      <3> QED
        BY <2>1, <3>2 DEF TakesNoName
    <2>2. CASE inodes'[k][n] = e
      BY <2>2 DEF TakesNoName
    <2> QED
      BY <2>1, <2>2, AppendEvents
  <1>3. DOMAIN inodes' = 1..Len(inodes)
    BY DEF Shapes, Appends
  <1> QED
    BY <1>1, <1>2, <1>3 DEF NamesAreOwn

\* Steps that append to a file that is open take no name and move nothing.
LEMMA PlacesKeptByAppend ==
  ASSUME Shapes, Shapes', Places, TakesNoName, OpensLive, UNCHANGED <<names, live>>,
         NEW p \in Processes, NEW e \in Event, my[p].inode # 0, Appends(my[p].inode, e),
         e.name <= Len(names), \A a \in Processes : pc'[a] \in HoldsName => e.name # my[a].name
  PROVE  Places'
  <1>1. my[p].inode \in 1..Len(inodes)
    BY DEF Shapes
  <1>2. OneEntryEach'
    BY OneEntryKept DEF Places, Reopens
  <1>3. NamesAreOwn'
    BY <1>1, AppendNames DEF Places
  <1>4. SparesPlaceholders /\ WritesWhereOpen
    BY DEF SparesPlaceholders, WritesWhereOpen, Appends
  <1> QED
    BY <1>2, <1>3, <1>4, PlaceholdersKept DEF Places

\* A writer appends its event to the file it opened.
LEMMA WriteSafe ==
  ASSUME QInv, TInv', NEW w \in Writers, Write(w)
  PROVE  QInv'
  <1> DEFINE e == [id |-> written + 1, count |-> 0, head |-> 0, name |-> 0]
  <1>1. TInv /\ Shapes /\ Shapes' /\ Places /\ w \in Processes /\ w \notin Archivers
    BY ShapesHold, ShapesHoldNext, RotationAssumption DEF QInv, Processes, RotationAssumption
  <1>2. pc[w] = "append" /\ my[w].inode # 0
    BY <1>1 DEF Write, TInv, Progress
  <1>3. PICK i \in 1..Len(inodes) : i = my[w].inode
    BY <1>1, <1>2 DEF Shapes
  <1>4. e \in Event /\ e.name = 0 /\ e.id = written + 1
    BY <1>1, RotationAssumption DEF Event, TInv, TypeOK, RotationAssumption
  <1> HIDE DEF e
  <1>5. Appends(i, e)
    <2>1. AppendTo(i, e)
      BY <1>3 DEF Write, e
    <2> QED
      BY <1>1, <1>4, <2>1, AppendToType DEF Appends, TInv
  <1>6. /\ names' = names /\ live' = live /\ pruned' = pruned /\ disturbed' = disturbed
        /\ acked' = acked \cup {e.id}
    BY <1>4 DEF Write, e
  <1>7. pc'[w] = "idle" /\ my'[w].inode = 0 /\ Others(w)
    BY <1>1, Returned DEF Write
  <1>8. Places'
    <2>1. TakesNoName /\ OpensLive
      BY <1>7 DEF TakesNoName, OpensLive, Others, HoldsName
    <2>2. e.name <= Len(names)
      BY <1>1, <1>4 DEF Shapes
    <2>3. \A a \in Processes : pc'[a] \in HoldsName => e.name # my[a].name
      BY <1>1, <1>4, <2>1 DEF TakesNoName, Shapes
    <2> QED
      BY <1>1, <1>2, <1>3, <1>4, <1>5, <1>6, <2>1, <2>2, <2>3, PlacesKeptByAppend
  <1>9. ASSUME ~disturbed' PROVE Quiesced'
    <2>1. Quiesced
      BY <1>6, <1>9 DEF QInv
    <2>2. i = live /\ ~Archiving
      BY <1>2, <1>3, <2>1 DEF Quiesced, WritersAreAlone
    <2>3. \A a \in Archivers : pc'[a] = "idle"
      BY <1>1, <1>7, <2>2 DEF Archiving, Others, Processes
    <2>4. \A a \in Archivers : Knows(a)'
      BY <2>3 DEF Knows
    <2>5. WritersAreAlone'
      BY <1>6, <1>7, <2>1, <2>3 DEF Quiesced, WritersAreAlone, Archiving, Others, Processes
    <2>6. ASSUME NEW k \in 1..Len(inodes) PROVE LinkHolds(k)'
      <3>1. SUFFICES ASSUME inodes'[k] # <<>>, inodes'[k][1].name # 0,
                            NEW f, f = names[inodes'[k][1].name], f # 0
                     PROVE  /\ Len(inodes'[f]) = inodes'[k][1].count
                            /\ HeadOf(f)' = inodes'[k][1].head
        BY <1>6 DEF LinkHolds, HasLink, HeadOf
      <3>2. inodes[k] # <<>> /\ inodes'[k][1] = inodes[k][1] /\ 1 \in DOMAIN inodes[k]
        <4>1. \A s \in Seq(Event) : s # <<>> => 1 \in 1..Len(s)
          OBVIOUS
        <4>2. 1 \in DOMAIN inodes'[k]
          BY <1>1, <1>5, <3>1, <4>1 DEF Shapes, Appends
        <4>3. 1 \in DOMAIN inodes[k] /\ inodes'[k][1] = inodes[k][1]
          BY <1>1, <1>4, <1>5, <3>1, <4>2, AppendEvents
        <4> QED
          BY <4>3
      <3>3. inodes[k][1].name \in 1..Len(names)
        <4>1. inodes[k][1] \in Event /\ k \in DOMAIN inodes
          BY <1>1, <3>2 DEF Shapes
        <4>2. inodes[k][1].name <= Len(names)
          BY <1>1, <3>2, <4>1 DEF Places, NamesAreOwn
        <4> QED
          BY <1>1, <3>1, <3>2, <4>1, <4>2 DEF Event, Shapes
      <3>4. f # live /\ f \in 1..Len(inodes)
        BY <1>1, <3>1, <3>2, <3>3 DEF Places, OneEntryEach, Shapes
      <3>5. inodes'[f] = inodes[f]
        BY <1>5, <2>2, <3>4 DEF Appends
      <3>6. LinkHolds(k)
        BY <1>1, <2>1 DEF Quiesced, Shapes
      <3>7. Len(inodes[f]) = inodes[k][1].count /\ HeadOf(f) = inodes[k][1].head
        BY <3>1, <3>2, <3>6 DEF LinkHolds, HasLink
      <3> QED
        BY <3>2, <3>5, <3>7 DEF HeadOf
    <2>7. AckedAreKept'
      <3>1. Kept' = Kept /\ i \in Kept /\ Kept \subseteq 1..Len(inodes)
        BY <1>1, <1>3, <1>6, <2>2, KeptShape DEF Kept
      <3>2. ASSUME NEW id \in acked
            PROVE  \E k \in Kept : \E n \in DOMAIN inodes'[k] :
                     inodes'[k][n].id = id /\ inodes'[k][n].name = 0
        <4>1. PICK k \in Kept : \E n \in DOMAIN inodes[k] :
                     inodes[k][n].id = id /\ inodes[k][n].name = 0
          BY <2>1 DEF Quiesced, AckedAreKept
        <4>2. k \in 1..Len(inodes)
          BY <3>1
        <4> QED
          BY <1>1, <1>4, <1>5, <4>1, <4>2, AppendEvents
      <3>3. \E n \in DOMAIN inodes'[i] : inodes'[i][n].id = e.id /\ inodes'[i][n].name = 0
        BY <1>1, <1>4, <1>5, AppendEvents
      <3> QED
        BY <1>6, <3>1, <3>2, <3>3 DEF AckedAreKept
    <2>8. DOMAIN inodes' = 1..Len(inodes)
      BY <1>1, <1>5 DEF Shapes, Appends
    <2> QED
      BY <2>4, <2>5, <2>6, <2>7, <2>8 DEF Quiesced
  <1> QED
    BY <1>1, <1>8, <1>9 DEF QInv

\* An archiver reads the journal's statistics, creating the journal.
LEMMA StatSafe ==
  ASSUME QInv, TInv', NEW a \in Archivers, NEW keep \in Keeps, Stat(a, keep)
  PROVE  QInv'
  <1>1. TInv /\ Shapes /\ Shapes' /\ Places /\ a \in Processes
    BY ShapesHold, ShapesHoldNext DEF QInv, Processes
  <1>2. PICK i \in 1..Len(inodes) + 1 :
          /\ OpenLive(i)
          /\ \/ Return(a)
             \/ /\ live # 0 /\ inodes[live] # <<>>
                /\ my' = [my EXCEPT ![a] = [NoLocals EXCEPT
                           !.count = Len(inodes[live]), !.head = HeadOf(live), !.keep = keep]]
                /\ Goto(a, "claim")
    BY DEF Stat
  <1>3. /\ Grown /\ live' = i /\ live' # 0
        /\ \/ live # 0 /\ live' = live /\ inodes' = inodes
           \/ live = 0 /\ live' = Len(inodes) + 1 /\ Len(inodes') = Len(inodes) + 1
    BY <1>1, <1>2, OpenLiveGrown
  <1>4. /\ names' = names /\ acked' = acked /\ pruned' = pruned
        /\ disturbed' = (disturbed \/ Writing)
    BY DEF Stat
  <1>5. /\ my'[a].inode = 0 /\ Others(a)
        /\ \/ pc'[a] = "idle"
           \/ /\ pc'[a] = "claim" /\ live # 0
              /\ my'[a].count = Len(inodes[live]) /\ my'[a].head = HeadOf(live)
    <2>1. CASE Return(a)
      BY <1>1, <2>1, Returned
    <2>2. CASE /\ live # 0
               /\ my' = [my EXCEPT ![a] = [NoLocals EXCEPT
                          !.count = Len(inodes[live]), !.head = HeadOf(live), !.keep = keep]]
               /\ Goto(a, "claim")
      <3>1. pc'[a] = "claim" /\ \A q \in Processes : q # a => pc'[q] = pc[q]
        BY <1>1, <2>2, WentTo DEF PCs
      <3>2. PICK m : m = [NoLocals EXCEPT
                            !.count = Len(inodes[live]), !.head = HeadOf(live), !.keep = keep]
        OBVIOUS
      <3>3. m.inode = 0 /\ m.count = Len(inodes[live]) /\ m.head = HeadOf(live)
        BY <3>2, ClaimLocals
      <3>4. my' = [my EXCEPT ![a] = m]
        BY <2>2, <3>2
      <3>5. my \in [Processes -> Local]
        BY <1>1 DEF TInv, TypeOK, Local, Processes
      <3>6. my'[a] = m /\ \A q \in Processes : q # a => my'[q] = my[q]
        BY <1>1, <3>4, <3>5
      <3> QED
        BY <2>2, <3>1, <3>3, <3>6 DEF Others
    <2> QED
      BY <1>2, <2>1, <2>2
  <1>6. Places'
    <2>1. TakesNoName /\ OpensLive
      BY <1>5 DEF TakesNoName, OpensLive, Others, HoldsName
    <2>2. Reopens
      BY <1>1, <1>3, OpensReopen
    <2> QED
      BY <1>1, <1>3, <1>4, <2>1, <2>2, PlacesKept
  <1>7. ASSUME ~disturbed' PROVE Quiesced'
    <2>1. Quiesced /\ ~Writing
      BY <1>4, <1>7 DEF QInv
    <2>2. Gentle
      BY <1>1, <1>3, GrownIsGentle
    <2>3. KeepsLive
      BY <1>1, <1>3, OpensReopen
    <2>4. KeepsBearers
      BY <1>3, <1>4 DEF KeepsBearers, Kept
    <2>5. LinkedNamesKept(a)
      BY <1>1, <1>4 DEF LinkedNamesKept, Shapes
    <2>6. WritersAreAlone'
      <3>1. \A w \in Writers : pc[w] # "append"
        BY <2>1 DEF Writing
      <3> QED
        BY <1>1, <1>5, <3>1, NoWriterBeside
    <2>7. Knows(a)'
      <3>1. CASE pc'[a] = "idle"
        BY <3>1 DEF Knows
      <3>2. CASE /\ pc'[a] = "claim" /\ live # 0
                 /\ my'[a].count = Len(inodes[live]) /\ my'[a].head = HeadOf(live)
        <4>1. live' = live /\ inodes' = inodes
          BY <1>3, <3>2
        <4>2. Counted(live, a)'
          BY <3>2, <4>1 DEF Counted, HeadOf
        <4> QED
          BY <3>2, <4>2 DEF Knows
      <3> QED
        BY <1>5, <3>1, <3>2
    <2> QED
      BY <1>1, <1>3, <1>4, <1>5, <2>1, <2>2, <2>3, <2>4, <2>5, <2>6, <2>7, QuiescedKept
      DEF Places, Grown
  <1> QED
    BY <1>1, <1>6, <1>7 DEF QInv

\* While an archiver is at work, no writer is about to write.
LEMMA WritersStayAlone ==
  ASSUME Shapes, WritersAreAlone, NEW a \in Archivers, pc[a] # "idle", Others(a)
  PROVE  WritersAreAlone'
  <1>1. \A w \in Writers : pc[w] # "append"
    BY DEF WritersAreAlone, Archiving
  <1> QED
    BY <1>1, NoWriterBeside

\* An archiver claims a new name.
LEMMA ClaimSafe ==
  ASSUME QInv, TInv', NEW a \in Archivers, Claim(a)
  PROVE  QInv'
  <1>1. TInv /\ Shapes /\ Shapes' /\ Places /\ a \in Processes
    BY ShapesHold, ShapesHoldNext DEF QInv, Processes
  <1>2. Grown /\ Len(inodes') = Len(inodes) + 1 /\ inodes'[Len(inodes) + 1] = <<>>
    BY <1>1, CreateGrown DEF Claim
  <1>3. /\ pc[a] = "claim" /\ live' = live /\ acked' = acked /\ pruned' = pruned
        /\ disturbed' = disturbed
    BY DEF Claim, History
  <1>4. /\ DOMAIN names' = 1..Len(names) + 1 /\ Len(names') = Len(names) + 1
        /\ names'[Len(names) + 1] = Len(inodes) + 1
        /\ \A n \in 1..Len(names) : names'[n] = names[n]
    <2>1. names \in Seq(0..Len(inodes)) /\ names' = Append(names, Len(inodes) + 1)
      BY <1>1 DEF TInv, TypeOK, Claim
    <2>2. PICK s, v, S : s = names /\ v = Len(inodes) + 1 /\ S = 0..Len(inodes)
      OBVIOUS
    <2>3. s \in Seq(S) /\ names' = Append(s, v)
      BY <2>1, <2>2
    <2>4. /\ DOMAIN Append(s, v) = 1..Len(s) + 1 /\ Len(Append(s, v)) = Len(s) + 1
          /\ Append(s, v)[Len(s) + 1] = v
          /\ \A n \in 1..Len(s) : Append(s, v)[n] = s[n]
      BY <2>3
    <2> QED
      BY <2>2, <2>3, <2>4
  <1>5. pc'[a] = "rename" /\ \A q \in Processes : q # a => pc'[q] = pc[q]
    BY <1>1, WentTo DEF Claim, PCs
  <1>6. /\ my'[a].name = Len(names) + 1 /\ my'[a].inode = my[a].inode
        /\ my'[a].count = my[a].count /\ my'[a].head = my[a].head
        /\ \A q \in Processes : q # a => my'[q] = my[q]
    <2>1. my[a] \in Local /\ my \in [Processes -> Local]
      BY <1>1 DEF Shapes, TInv, TypeOK, Local, Processes
    <2>2. my'[a] = [my[a] EXCEPT !.name = Len(names) + 1]
          /\ \A q \in Processes : q # a => my'[q] = my[q]
      BY <1>1, <2>1 DEF Claim
    <2> QED
      BY <2>1, <2>2 DEF Local
  <1>7. Others(a)
    BY <1>5, <1>6 DEF Others
  <1>8. Len(inodes) \in Nat /\ Len(names) \in Nat
    BY <1>1 DEF Shapes
  <1>9. OneEntryEach'
    <2>1. \A n \in 1..Len(names) : names'[n] \in 0..Len(inodes) /\ names'[n] = names[n]
      BY <1>1, <1>4 DEF Shapes
    <2>2. \A m, n \in 1..Len(names) : names[m] # 0 /\ names[m] = names[n] => m = n
      BY <1>1 DEF Places, OneEntryEach, Shapes
    <2>3. \A n \in 1..Len(names) : names[n] # 0 => names[n] # live
      BY <1>1 DEF Places, OneEntryEach, Shapes
    <2>4. live \in 0..Len(inodes)
      BY <1>1 DEF Shapes
    <2>5. \A m, n \in 1..Len(names) + 1 : names'[m] # 0 /\ names'[m] = names'[n] => m = n
      BY <1>4, <1>8, <2>1, <2>2
    <2>6. \A n \in 1..Len(names) + 1 : names'[n] # 0 => names'[n] # live
      BY <1>4, <1>8, <2>1, <2>3, <2>4
    <2> QED
      BY <1>3, <1>4, <2>5, <2>6 DEF OneEntryEach
  <1>10. NamesAreOwn'
    <2>1. \A b \in Processes : b # a /\ pc'[b] \in HoldsName =>
            pc[b] \in HoldsName /\ my'[b].name = my[b].name /\ my[b].name <= Len(names)
      BY <1>1, <1>7 DEF Others, Shapes
    <2>2. \A b, c \in Processes :
            pc'[b] \in HoldsName /\ pc'[c] \in HoldsName /\ my'[b].name = my'[c].name => b = c
      BY <1>1, <1>6, <1>8, <2>1 DEF Places, NamesAreOwn
    <2>3. ASSUME NEW i \in 1..Len(inodes'), NEW n \in DOMAIN inodes'[i]
          PROVE  /\ inodes'[i][n].name <= Len(names')
                 /\ \A b \in Processes : pc'[b] \in HoldsName => inodes'[i][n].name # my'[b].name
      <3>1. i \in 1..Len(inodes) /\ inodes'[i] = inodes[i]
        <4>1. CASE i \notin 1..Len(inodes)
          <5>1. i = Len(inodes) + 1
            BY <1>2, <1>8, <4>1
          <5> QED
            BY <1>2, <2>3, <5>1
        <4> QED
          BY <1>2, <4>1 DEF Grown
      <3>2. n \in DOMAIN inodes[i] /\ i \in DOMAIN inodes /\ inodes[i][n] \in Event
        BY <1>1, <3>1, <2>3 DEF Shapes
      <3>3. inodes[i][n].name <= Len(names)
            /\ \A b \in Processes : pc[b] \in HoldsName => inodes[i][n].name # my[b].name
        BY <1>1, <3>2 DEF Places, NamesAreOwn
      <3>4. inodes[i][n].name \in Nat
        BY <3>2 DEF Event
      <3> QED
        BY <1>4, <1>6, <1>8, <2>1, <3>1, <3>3, <3>4
    <2>4. DOMAIN inodes' = 1..Len(inodes')
      BY <1>1 DEF Shapes
    <2> QED
      BY <2>2, <2>3, <2>4 DEF NamesAreOwn
  <1>11. PlaceholdersAreEmpty'
    <2>1. ASSUME NEW b \in Processes, pc'[b] = "rename",
                 NEW i, i = names'[my'[b].name], i # 0
          PROVE  inodes'[i] = <<>> /\ \A p \in Processes : my'[p].inode # i
      <3>a. \A p \in Processes : my'[p].inode = my[p].inode /\ my[p].inode \in 0..Len(inodes)
        BY <1>1, <1>6 DEF Shapes
      <3>1. CASE b = a
        <4>1. i = Len(inodes) + 1
          BY <1>4, <1>6, <2>1, <3>1
        <4> QED
          BY <1>2, <1>8, <3>a, <4>1
      <3>2. CASE b # a
        <4>1. pc[b] = "rename" /\ my'[b].name = my[b].name /\ pc[b] \in HoldsName
          BY <1>7, <2>1, <3>2 DEF Others, HoldsName
        <4>2. my[b].name \in 1..Len(names)
          BY <1>1, <4>1 DEF Shapes
        <4>3. i = names[my[b].name] /\ i \in 1..Len(inodes)
          BY <1>1, <1>4, <2>1, <4>1, <4>2 DEF Shapes
        <4>4. inodes[i] = <<>> /\ \A p \in Processes : my[p].inode # i
          BY <1>1, <2>1, <4>1, <4>3 DEF Places, PlaceholdersAreEmpty
        <4> QED
          BY <1>2, <3>a, <4>3, <4>4 DEF Grown
      <3> QED
        BY <3>1, <3>2
    <2> QED
      BY <2>1 DEF PlaceholdersAreEmpty
  <1>12. ASSUME ~disturbed' PROVE Quiesced'
    <2>1. Quiesced
      BY <1>3, <1>12 DEF QInv
    <2>2. Gentle
      BY <1>1, <1>2, GrownIsGentle
    <2>3. KeepsLive
      BY <1>3 DEF KeepsLive
    <2>4. KeepsBearers
      <3>1. Range(names) \subseteq Range(names')
        BY <1>1, <1>4, <1>8 DEF Range, Shapes
      <3> QED
        BY <1>3, <3>1 DEF KeepsBearers, Kept
    <2>5. LinkedNamesKept(a)
      BY <1>4, <1>8 DEF LinkedNamesKept
    <2>6. WritersAreAlone'
      BY <1>1, <1>3, <1>7, <2>1, WritersStayAlone DEF Quiesced
    <2>7. Knows(a)'
      <3>1. ASSUME live # 0, Bears(live)' PROVE Counted(live, a)'
        <4>1. PICK l \in 1..Len(inodes) : l = live
          BY <1>1, <3>1 DEF Shapes
        <4>2. inodes'[l] = inodes[l]
          BY <1>2 DEF Grown
        <4>3. Bears(live)
          BY <1>3, <3>1, <4>1, <4>2 DEF Bears
        <4>4. Counted(live, a)
          BY <1>3, <2>1, <3>1, <4>3 DEF Quiesced, Knows
        <4> QED
          BY <1>3, <1>6, <4>1, <4>2, <4>4 DEF Counted, HeadOf
      <3> QED
        BY <1>3, <1>5, <3>1 DEF Knows
    <2> QED
      BY <1>1, <1>2, <1>3, <1>7, <2>1, <2>2, <2>3, <2>4, <2>5, <2>6, <2>7, QuiescedKept
      DEF Places, Grown
  <1> QED
    BY <1>1, <1>9, <1>10, <1>11, <1>12 DEF QInv, Places

\* What an archiver does to its own name: it leads to inode v afterwards.
Renames(a, v) ==
  /\ Len(names') = Len(names)
  /\ names'[my[a].name] = v
  /\ \A m \in 1..Len(names) : m # my[a].name => names'[m] = names[m]

LEMMA RenamesHold ==
  ASSUME TInv, NEW a \in Processes, pc[a] \in HoldsName,
         NEW v, names' = [names EXCEPT ![my[a].name] = v]
  PROVE  Renames(a, v)
  <1>1. my[a].name \in 1..Len(names) /\ DOMAIN names = 1..Len(names)
    BY ShapesHold DEF Shapes
  <1>2. names = [m \in 1..Len(names) |-> names[m]] /\ Len(names) \in Nat
    BY DEF TInv, TypeOK
  <1>3. DOMAIN names' = 1..Len(names) /\ names' = [m \in 1..Len(names) |-> names'[m]]
    BY <1>2
  <1>4. Len(names') = Len(names)
    BY <1>2, <1>3
  <1> QED
    BY <1>1, <1>4 DEF Renames

LEMMA PlacesKeptByRenaming ==
  ASSUME Shapes, Shapes', Places, Grown, NEW a \in Processes, pc[a] \in HoldsName,
         pc'[a] # "rename", TakesNoName, OpensLive, NEW v, Renames(a, v),
         v # 0 => v # live' /\ \A m \in 1..Len(names) : m # my[a].name => names[m] # v,
         \A m \in 1..Len(names) : m # my[a].name /\ names[m] # 0 => names[m] # live'
  PROVE  Places'
  <1>1. my[a].name \in 1..Len(names) /\ DOMAIN names' = 1..Len(names)
    BY DEF Shapes, Renames
  <1>2. OneEntryEach'
    <2>1. \A m, n \in 1..Len(names) : names[m] # 0 /\ names[m] = names[n] => m = n
      BY DEF Places, OneEntryEach, Shapes
    <2>2. \A m, n \in 1..Len(names) : names'[m] # 0 /\ names'[m] = names'[n] => m = n
      BY <1>1, <2>1 DEF Renames
    <2>3. \A n \in 1..Len(names) : names'[n] # 0 => names'[n] # live'
      BY <1>1 DEF Renames
    <2> QED
      BY <1>1, <2>2, <2>3 DEF OneEntryEach
  <1>3. NamesAreOwn'
    <2>1. Len(names) <= Len(names')
      BY DEF Shapes, Renames
    <2> QED
      BY <2>1, NamesKept DEF Places
  <1>4. SparesPlaceholders
    <2>1. ASSUME NEW b \in Processes, pc'[b] = "rename"
          PROVE  names'[my[b].name] = names[my[b].name]
      <3>1. b # a /\ pc[b] \in HoldsName
        BY <2>1 DEF TakesNoName, HoldsName
      <3>2. my[b].name # my[a].name /\ my[b].name \in 1..Len(names)
        BY <3>1 DEF Places, NamesAreOwn, Shapes
      <3> QED
        BY <3>2 DEF Renames
    <2> QED
      BY <2>1 DEF SparesPlaceholders
  <1>5. WritesWhereOpen
    BY DEF WritesWhereOpen, Grown
  <1> QED
    BY <1>2, <1>3, <1>4, <1>5, PlaceholdersKept DEF Places

\* What the names hold is held on to, but for what stood at the archiver's name.
LEMMA BearersKept ==
  ASSUME Shapes, NEW a \in Processes, NEW v, Renames(a, v), UNCHANGED pruned,
         NEW i \in Kept, i # live, my[a].name \in 1..Len(names), i # names[my[a].name]
  PROVE  i \in Kept'
  <1>1. i # 0 /\ (i \in Range(names) \/ i \in pruned)
    BY DEF Kept
  <1>2. CASE i \in Range(names)
    <2>1. PICK m \in 1..Len(names) : i = names[m]
      BY <1>2 DEF Range, Shapes
    <2>2. i = names'[m] /\ m \in DOMAIN names'
      <3>1. m # my[a].name
        BY <2>1
      <3>2. my[a].name \in 1..Len(names')
        BY DEF Renames
      <3> QED
        BY <2>1, <3>1 DEF Renames, Shapes
    <2>3. i \in Range(names')
      BY <2>2 DEF Range
    <2> QED
      BY <1>1, <2>3 DEF Kept
  <1>3. CASE i \in pruned
    BY <1>1, <1>3 DEF Kept
  <1> QED
    BY <1>1, <1>2, <1>3

LEMMA RenamesLinked ==
  ASSUME Shapes, NEW a \in Processes, pc[a] \in HoldsName, NEW v, Renames(a, v)
  PROVE  LinkedNamesKept(a)
  BY DEF Shapes, Renames, LinkedNamesKept

\* The journal is moved over the placeholder.
LEMMA RenameSafe ==
  ASSUME QInv, TInv', NEW a \in Archivers, Rename(a)
  PROVE  QInv'
  <1>1. TInv /\ Shapes /\ Shapes' /\ Places /\ a \in Processes
    BY ShapesHold, ShapesHoldNext DEF QInv, Processes
  <1>2. CASE Return(a) /\ UNCHANGED <<names, live>>
    BY <1>1, <1>2, EndSafe DEF Rename
  <1>3. CASE /\ live # 0
             /\ names' = [names EXCEPT ![my[a].name] = live]
             /\ live' = 0
             /\ Goto(a, "settle")
             /\ UNCHANGED my
    <2>1. pc[a] = "rename" /\ pc[a] \in HoldsName /\ my[a].name \in 1..Len(names)
      BY <1>1 DEF Rename, HoldsName, Shapes
    <2>2. /\ inodes' = inodes /\ acked' = acked /\ pruned' = pruned /\ disturbed' = disturbed
          /\ my' = my
      BY <1>3 DEF Rename, History
    <2>3. pc'[a] = "settle" /\ Others(a)
      BY <1>1, <1>3, WentTo DEF PCs, Others
    <2>4. Renames(a, live)
      BY <1>1, <1>3, <2>1, RenamesHold
    <2>5. Grown
      BY <1>1, <2>2, SameGrown
    <2>6. Places'
      <3>1. TakesNoName /\ OpensLive
        BY <2>1, <2>2, <2>3 DEF TakesNoName, OpensLive, Others, HoldsName
      <3>2. \A m \in 1..Len(names) : names[m] # live
        BY <1>1, <1>3 DEF Places, OneEntryEach, Shapes
      <3> QED
        BY <1>1, <1>3, <2>1, <2>3, <2>4, <2>5, <3>1, <3>2, PlacesKeptByRenaming
    <2>7. ASSUME ~disturbed' PROVE Quiesced'
      <3>1. Quiesced
        BY <2>2, <2>7 DEF QInv
      <3>2. Gentle
        BY <1>1, <2>5, GrownIsGentle
      <3>3. KeepsLive
        BY <1>3 DEF KeepsLive
      <3>4. KeepsBearers
        <4>1. ASSUME NEW i \in Kept, Bears(i) PROVE i \in Kept'
          <5>1. i # 0 /\ i # names[my[a].name]
            BY <1>1, <2>1, <4>1 DEF Kept, Bears, Places, PlaceholdersAreEmpty
          <5>2. CASE i = live
            <6>1. my[a].name \in DOMAIN names' /\ names'[my[a].name] = live
              BY <1>1, <2>1, <2>4 DEF Renames, Shapes
            <6> QED
              BY <5>1, <5>2, <6>1 DEF Kept, Range
          <5> QED
            BY <1>1, <2>1, <2>2, <2>4, <5>1, <5>2, BearersKept
        <4> QED
          BY <4>1 DEF KeepsBearers
      <3>5. LinkedNamesKept(a)
        BY <1>1, <2>1, <2>4, RenamesLinked
      <3>6. WritersAreAlone'
        BY <1>1, <2>1, <2>3, <3>1, WritersStayAlone DEF Quiesced
      <3>7. Knows(a)'
        <4>1. names'[my'[a].name] = live
          BY <2>2, <2>4 DEF Renames
        <4>2. Bears(live) => Counted(live, a)
          BY <1>3, <2>1, <3>1 DEF Quiesced, Knows
        <4>3. PICK l : l = live
          OBVIOUS
        <4>4. Bears(l)' => Counted(l, a)'
          BY <2>2, <4>2, <4>3 DEF Bears, Counted, HeadOf
        <4>5. names'[my'[a].name] = l
          BY <4>1, <4>3
        <4> QED
          BY <2>3, <4>4, <4>5 DEF Knows, Bears, Counted, HeadOf
      <3> QED
        BY <1>1, <2>2, <2>3, <2>5, <3>1, <3>2, <3>3, <3>4, <3>5, <3>6, <3>7, QuiescedKept
        DEF Places, Grown
    <2> QED
      BY <1>1, <2>6, <2>7 DEF QInv
  <1> QED
    BY <1>2, <1>3 DEF Rename

\* A step of an archiver that changes nothing but its place.
LEMMA StaySafe ==
  ASSUME QInv, TInv', NEW a \in Archivers, pc[a] \in HoldsName, NEW label \in PCs,
         Goto(a, label), label # "rename", UNCHANGED <<inodes, live, names, my, acked, pruned>>,
         disturbed => disturbed', ~disturbed' => Knows(a)'
  PROVE  QInv'
  <1>1. TInv /\ Shapes /\ Shapes' /\ Places /\ a \in Processes
    BY ShapesHold, ShapesHoldNext DEF QInv, Processes
  <1>2. pc'[a] = label /\ Others(a)
    BY <1>1, WentTo DEF Others
  <1>3. Grown
    BY <1>1, SameGrown
  <1>4. Places'
    <2>1. TakesNoName /\ OpensLive
      BY <1>2 DEF TakesNoName, OpensLive, Others, HoldsName
    <2> QED
      BY <1>1, <1>3, <2>1, PlacesKept DEF Reopens
  <1>5. ASSUME ~disturbed' PROVE Quiesced'
    <2>1. Quiesced /\ Knows(a)'
      BY <1>5 DEF QInv
    <2>2. Gentle
      BY <1>1, <1>3, GrownIsGentle
    <2>3. KeepsLive /\ KeepsBearers /\ acked' = acked
      BY DEF KeepsLive, KeepsBearers, Kept
    <2>4. LinkedNamesKept(a)
      BY <1>1 DEF LinkedNamesKept, Shapes
    <2>5. WritersAreAlone'
      BY <1>1, <1>2, <2>1, WritersStayAlone DEF Quiesced, HoldsName
    <2> QED
      BY <1>1, <1>2, <1>3, <2>1, <2>2, <2>3, <2>4, <2>5, QuiescedKept DEF Places, Grown
  <1> QED
    BY <1>1, <1>4, <1>5 DEF QInv

\* The archived file is counted again; a name pruned meanwhile is created anew.
LEMMA SettleSafe ==
  ASSUME QInv, TInv', NEW a \in Archivers, Settle(a)
  PROVE  QInv'
  <1> DEFINE n == my[a].name
  <1>1. TInv /\ Shapes /\ Shapes' /\ Places /\ a \in Processes
    BY ShapesHold, ShapesHoldNext DEF QInv, Processes
  <1>2. /\ pc[a] = "settle" /\ pc[a] \in HoldsName /\ n \in 1..Len(names)
        /\ live' = live /\ my' = my /\ acked' = acked /\ pruned' = pruned
        /\ disturbed => disturbed'
    <2>1. disturbed' = disturbed \/ disturbed' = TRUE
      BY Zenon DEF Settle
    <2>2. disturbed => disturbed'
      BY <2>1
    <2> QED
      BY <1>1, <2>2 DEF Settle, HoldsName, Shapes
  <1>3. CASE UNCHANGED <<inodes, names, disturbed>> /\ names[n] # 0
             /\ Goto(a, IF Counted(names[n], a) THEN "open" ELSE "rollback?")
    <2>1. PICK i : i = names[n]
      OBVIOUS
    <2>2. i # 0 /\ (Counted(i, a) => Goto(a, "open")) /\ (~Counted(i, a) => Goto(a, "rollback?"))
      BY <1>3, <2>1
    <2>3. names'[my'[a].name] = i /\ inodes' = inodes
      BY <1>2, <1>3, <2>1
    <2>4. CASE Counted(i, a)
      <3>1. Goto(a, "open") /\ pc'[a] = "open"
        BY <1>1, <2>2, <2>4, WentTo DEF PCs
      <3>2. Counted(i, a)'
        BY <1>2, <2>3, <2>4 DEF Counted, HeadOf
      <3>3. Knows(a)'
        BY <2>3, <3>1, <3>2 DEF Knows, Counted, HeadOf
      <3> QED
        BY <1>2, <1>3, <3>1, <3>3, StaySafe DEF PCs
    <2>5. CASE ~Counted(i, a)
      <3>1. Goto(a, "rollback?") /\ pc'[a] = "rollback?"
        BY <1>1, <2>2, <2>5, WentTo DEF PCs
      <3>2. ASSUME ~disturbed' PROVE Knows(a)'
        <4>1. ~Bears(i)
          BY <1>2, <2>1, <2>2, <2>5, <3>2 DEF QInv, Quiesced, Knows
        <4>2. ~Bears(i)'
          BY <2>3, <4>1 DEF Bears
        <4> QED
          BY <2>3, <3>1, <4>2 DEF Knows, Bears
      <3> QED
        BY <1>2, <1>3, <3>1, <3>2, StaySafe DEF PCs
    <2> QED
      BY <2>4, <2>5
  <1>4. CASE /\ names[n] = 0
             /\ Create
             /\ names' = [names EXCEPT ![n] = Len(inodes) + 1]
             /\ Goto(a, "rollback?")
             /\ disturbed' = disturbed
    <2>1. Grown /\ Len(inodes') = Len(inodes) + 1 /\ inodes'[Len(inodes) + 1] = <<>>
      BY <1>1, <1>4, CreateGrown
    <2>2. pc'[a] = "rollback?" /\ Others(a)
      BY <1>1, <1>2, <1>4, WentTo DEF PCs, Others
    <2>3. Renames(a, Len(inodes) + 1)
      BY <1>1, <1>2, <1>4, RenamesHold
    <2>4. Len(inodes) \in Nat
      BY <1>1 DEF Shapes
    <2>5. Places'
      <3>1. TakesNoName /\ OpensLive
        BY <1>2, <2>2 DEF TakesNoName, OpensLive, Others, HoldsName
      <3>2. /\ live' # Len(inodes) + 1
            /\ \A m \in 1..Len(names) : names[m] # Len(inodes) + 1
        <4>1. live \in 0..Len(inodes) /\ \A m \in 1..Len(names) : names[m] \in 0..Len(inodes)
          BY <1>1 DEF Shapes
        <4> QED
          BY <1>2, <2>4, <4>1
      <3>3. \A m \in 1..Len(names) : names[m] # 0 => names[m] # live'
        BY <1>1, <1>2 DEF Places, OneEntryEach, Shapes
      <3> QED
        BY <1>1, <1>2, <2>1, <2>2, <2>3, <3>1, <3>2, <3>3, PlacesKeptByRenaming
    <2>6. ASSUME ~disturbed' PROVE Quiesced'
      <3>1. Quiesced
        BY <1>2, <2>6 DEF QInv
      <3>2. Gentle
        BY <1>1, <2>1, GrownIsGentle
      <3>3. KeepsLive
        BY <1>2 DEF KeepsLive
      <3>4. KeepsBearers
        <4>1. ASSUME NEW i \in Kept PROVE i \in Kept'
          <5>1. i # 0
            BY DEF Kept
          <5>2. CASE i = live
            BY <1>2, <5>1, <5>2 DEF Kept
          <5> QED
            BY <1>1, <1>2, <1>4, <2>3, <5>1, <5>2, BearersKept
        <4> QED
          BY <4>1 DEF KeepsBearers
      <3>5. LinkedNamesKept(a)
        BY <1>1, <1>2, <2>3, RenamesLinked
      <3>6. WritersAreAlone'
        BY <1>1, <1>2, <2>2, <3>1, WritersStayAlone DEF Quiesced
      <3>7. Knows(a)'
        <4>1. PICK i : i = Len(inodes) + 1
          OBVIOUS
        <4>2. names'[my'[a].name] = i
          BY <1>2, <2>3, <4>1 DEF Renames
        <4>3. ~Bears(i)'
          BY <2>1, <4>1 DEF Bears
        <4> QED
          BY <2>2, <4>2, <4>3 DEF Knows, Bears
      <3> QED
        BY <1>1, <1>2, <2>1, <2>2, <3>1, <3>2, <3>3, <3>4, <3>5, <3>6, <3>7, QuiescedKept
        DEF Places, Grown
    <2> QED
      BY <1>1, <2>5, <2>6 DEF QInv
  <1>5. CASE Goto(a, "rollback?") /\ disturbed' = TRUE /\ UNCHANGED <<inodes, names>>
    BY <1>2, <1>5, StaySafe DEF PCs
  <1>6. \/ UNCHANGED <<inodes, names, disturbed>> /\ names[n] # 0
           /\ Goto(a, IF Counted(names[n], a) THEN "open" ELSE "rollback?")
        \/ /\ names[n] = 0 /\ Create /\ names' = [names EXCEPT ![n] = Len(inodes) + 1]
           /\ Goto(a, "rollback?") /\ disturbed' = disturbed
        \/ Goto(a, "rollback?") /\ disturbed' = TRUE /\ UNCHANGED <<inodes, names>>
    BY DEF Settle, Counted
  <1> QED
    BY <1>3, <1>4, <1>5, <1>6

\* The rollback looks for a successor.
LEMMA CheckRollbackSafe ==
  ASSUME QInv, TInv', NEW a \in Archivers, CheckRollback(a)
  PROVE  QInv'
  <1>1. a \in Processes
    BY DEF Processes
  <1>2. CASE Return(a)
    BY <1>1, <1>2, EndSafe DEF CheckRollback
  <1>3. CASE live = 0 /\ Goto(a, "rollback") /\ UNCHANGED my
    <2>1. pc[a] = "rollback?" /\ pc[a] \in HoldsName
      BY DEF CheckRollback, HoldsName
    <2>2. inodes' = inodes /\ live' = 0 /\ names' = names /\ my' = my
      BY <1>3 DEF CheckRollback
    <2>3. pc'[a] = "rollback"
      BY <1>1, <1>3, WentTo DEF PCs, QInv
    <2>4. ASSUME ~disturbed PROVE Knows(a)'
      <3>1. names[my[a].name] # 0 => ~Bears(names[my[a].name])
        BY <2>1, <2>4 DEF QInv, Quiesced, Knows
      <3>2. PICK i : i = names[my[a].name]
        OBVIOUS
      <3>3. i # 0 => ~Bears(i)'
        BY <2>2, <3>1, <3>2 DEF Bears
      <3>4. names'[my'[a].name] = i
        BY <2>2, <3>2
      <3> QED
        BY <2>2, <2>3, <3>3, <3>4 DEF Knows, Bears
    <2> QED
      BY <1>3, <2>1, <2>4, StaySafe DEF CheckRollback, PCs, History
  <1> QED
    BY <1>2, <1>3 DEF CheckRollback

\* The archive is moved back to the live path, over what is there by then.
LEMMA RollbackSafe ==
  ASSUME QInv, TInv', NEW a \in Archivers, Rollback(a)
  PROVE  QInv'
  <1>1. TInv /\ Shapes /\ Shapes' /\ Places /\ a \in Processes
    BY ShapesHold, ShapesHoldNext DEF QInv, Processes
  <1>2. /\ pc[a] = "rollback" /\ pc[a] \in HoldsName /\ my[a].name \in 1..Len(names)
        /\ Return(a) /\ inodes' = inodes /\ acked' = acked /\ pruned' = pruned
        /\ disturbed' = disturbed
    BY <1>1 DEF Rollback, HoldsName, Shapes, History
  <1>3. CASE UNCHANGED <<live, names>>
    BY <1>1, <1>2, <1>3, EndSafe DEF History
  <1>4. CASE /\ names[my[a].name] # 0
             /\ live' = names[my[a].name]
             /\ names' = [names EXCEPT ![my[a].name] = 0]
    <2>1. Grown
      BY <1>1, <1>2, SameGrown
    <2>2. pc'[a] = "idle" /\ my'[a].inode = 0 /\ Others(a)
      BY <1>1, <1>2, Returned
    <2>3. Renames(a, 0)
      BY <1>1, <1>2, <1>4, RenamesHold
    <2>4. Places'
      <3>1. TakesNoName /\ OpensLive
        BY <2>2 DEF TakesNoName, OpensLive, Others, HoldsName
      <3>2. \A m \in 1..Len(names) : m # my[a].name /\ names[m] # 0 => names[m] # live'
        BY <1>1, <1>2, <1>4 DEF Places, OneEntryEach, Shapes
      <3> QED
        BY <1>1, <1>2, <2>1, <2>2, <2>3, <3>1, <3>2, PlacesKeptByRenaming
    <2>5. ASSUME ~disturbed' PROVE Quiesced'
      <3>1. Quiesced /\ Knows(a)
        BY <1>2, <2>5 DEF QInv, Quiesced
      <3>2. Gentle
        BY <1>1, <2>1, GrownIsGentle
      <3>3. ~Bears(names[my[a].name]) /\ (live # 0 => ~Bears(live))
        BY <1>2, <1>4, <3>1 DEF Knows
      <3>4. KeepsLive
        <4>1. PICK i : i = names[my[a].name]
          OBVIOUS
        <4>2. ~Bears(i)' /\ live' = i
          BY <1>2, <1>4, <3>3, <4>1 DEF Bears
        <4> QED
          BY <4>2 DEF KeepsLive, Bears
      <3>5. KeepsBearers
        <4>1. ASSUME NEW i \in Kept, Bears(i) PROVE i \in Kept'
          <5>1. i # 0 /\ i # names[my[a].name]
            BY <3>3, <4>1 DEF Kept
          <5>2. i # live
            BY <3>3, <4>1, <5>1
          <5> QED
            BY <1>1, <1>2, <2>3, <5>1, <5>2, BearersKept
        <4> QED
          BY <4>1 DEF KeepsBearers
      <3>6. LinkedNamesKept(a)
        BY <1>1, <1>2, <2>3, RenamesLinked
      <3>7. WritersAreAlone'
        BY <1>1, <1>2, <2>2, <3>1, WritersStayAlone DEF Quiesced
      <3>8. Knows(a)'
        BY <2>2 DEF Knows
      <3> QED
        BY <1>1, <1>2, <2>1, <2>2, <3>1, <3>2, <3>4, <3>5, <3>6, <3>7, <3>8, QuiescedKept
        DEF Places, Grown
    <2> QED
      BY <1>1, <2>4, <2>5 DEF QInv
  <1> QED
    BY <1>3, <1>4 DEF Rollback

\* The archiver opens the successor.
LEMMA OpenSuccessorSafe ==
  ASSUME QInv, TInv', NEW a \in Archivers, OpenSuccessor(a)
  PROVE  QInv'
  <1>1. TInv /\ Shapes /\ Shapes' /\ Places /\ a \in Processes
    BY ShapesHold, ShapesHoldNext DEF QInv, Processes
  <1>2. PICK i \in 1..Len(inodes) + 1 : OpenLive(i) /\ my' = [my EXCEPT ![a].inode = i]
    BY DEF OpenSuccessor
  <1>3. /\ Grown /\ live' = i /\ live' # 0
        /\ \/ live # 0 /\ live' = live /\ inodes' = inodes
           \/ live = 0 /\ live' = Len(inodes) + 1 /\ Len(inodes') = Len(inodes) + 1
    BY <1>1, <1>2, OpenLiveGrown
  <1>4. /\ pc[a] = "open" /\ pc[a] \in HoldsName /\ names' = names /\ acked' = acked
        /\ pruned' = pruned /\ disturbed' = disturbed
    BY DEF OpenSuccessor, HoldsName, History
  <1>5. pc'[a] = "link" /\ \A q \in Processes : q # a => pc'[q] = pc[q]
    BY <1>1, WentTo DEF OpenSuccessor, PCs
  <1>6. /\ my'[a].inode = live' /\ my'[a].name = my[a].name
        /\ my'[a].count = my[a].count /\ my'[a].head = my[a].head
        /\ \A q \in Processes : q # a => my'[q] = my[q]
    <2>1. my[a] \in Local /\ my \in [Processes -> Local]
      BY <1>1 DEF Shapes, TInv, TypeOK, Local, Processes
    <2>2. my'[a] = [my[a] EXCEPT !.inode = i] /\ \A q \in Processes : q # a => my'[q] = my[q]
      BY <1>1, <1>2, <2>1
    <2> QED
      BY <1>3, <2>1, <2>2 DEF Local
  <1>7. Others(a)
    BY <1>5, <1>6 DEF Others
  <1>8. Places'
    <2>1. TakesNoName /\ OpensLive
      BY <1>4, <1>5, <1>6, <1>7 DEF TakesNoName, OpensLive, Others, HoldsName
    <2>2. Reopens
      BY <1>1, <1>3, OpensReopen
    <2> QED
      BY <1>1, <1>3, <1>4, <2>1, <2>2, PlacesKept
  <1>9. ASSUME ~disturbed' PROVE Quiesced'
    <2>1. Quiesced /\ Knows(a)
      BY <1>4, <1>9 DEF QInv, Quiesced
    <2>2. Gentle
      BY <1>1, <1>3, GrownIsGentle
    <2>3. KeepsLive
      BY <1>1, <1>3, OpensReopen
    <2>4. KeepsBearers
      BY <1>3, <1>4 DEF KeepsBearers, Kept
    <2>5. LinkedNamesKept(a)
      BY <1>1, <1>4 DEF LinkedNamesKept, Shapes
    <2>6. WritersAreAlone'
      BY <1>1, <1>4, <1>7, <2>1, WritersStayAlone DEF Quiesced
    <2>7. Knows(a)'
      <3>1. PICK k : k = names[my[a].name]
        OBVIOUS
      <3>2. k # 0 => Counted(k, a)'
        <4>1. k # 0 => Counted(k, a) /\ k \in 1..Len(inodes)
          BY <1>1, <1>4, <2>1, <3>1 DEF Knows, Shapes
        <4>2. my[a].count # 0
          BY <1>1, <1>4 DEF Shapes
        <4> QED
          BY <1>1, <1>6, <2>2, <4>1, <4>2, CountedKept
      <3>3. names'[my'[a].name] = k
        BY <1>4, <1>6, <3>1
      <3> QED
        BY <1>5, <3>2, <3>3 DEF Knows, Counted, HeadOf
    <2> QED
      BY <1>1, <1>3, <1>4, <1>7, <2>1, <2>2, <2>3, <2>4, <2>5, <2>6, <2>7, QuiescedKept
      DEF Places, Grown
  <1> QED
    BY <1>1, <1>8, <1>9 DEF QInv

\* The archive event is appended to the successor, which is still empty.
LEMMA LinkSafe ==
  ASSUME QInv, TInv', NEW a \in Archivers, Link(a)
  PROVE  QInv'
  <1> DEFINE e == [id |-> written + 1, count |-> my[a].count, head |-> my[a].head,
                   name |-> my[a].name]
  <1>1. TInv /\ Shapes /\ Shapes' /\ Places /\ a \in Processes
    BY ShapesHold, ShapesHoldNext DEF QInv, Processes
  <1>2. /\ pc[a] = "link" /\ pc[a] \in HoldsName /\ live' = live /\ names' = names
        /\ acked' = acked /\ pruned' = pruned /\ disturbed' = disturbed
    BY DEF Link, HoldsName, History
  <1>3. CASE Return(a) /\ UNCHANGED inodes
    BY <1>1, <1>2, <1>3, EndSafe DEF History
  <1>4. CASE /\ inodes[my[a].inode] = <<>>
             /\ AppendTo(my[a].inode, e)
             /\ Goto(a, "prune")
             /\ UNCHANGED my
    <2>1. my[a].inode # 0 /\ my[a].count # 0 /\ my[a].head # 0 /\ my[a].name # 0
      BY <1>1, <1>2 DEF TInv, Progress
    <2>2. PICK k \in 1..Len(inodes) : k = my[a].inode
      BY <1>1, <2>1 DEF Shapes
    <2>3. /\ e \in Event /\ e.name = my[a].name /\ e.count = my[a].count
          /\ e.head = my[a].head
      <3>1. written + 1 \in Nat \ {0}
        BY <1>1, RotationAssumption DEF TInv, TypeOK, RotationAssumption
      <3>2. /\ my[a].count \in Nat \ {0} /\ my[a].head \in Nat \ {0}
            /\ my[a].name \in Nat \ {0}
        BY <1>1, <2>1 DEF Shapes, Local
      <3> QED
        BY <3>1, <3>2 DEF Event
    <2> HIDE DEF e
    <2>4. Appends(k, e)
      BY <1>1, <1>4, <2>2, <2>3, AppendToType DEF Appends, TInv
    <2>5. pc'[a] = "prune" /\ Others(a) /\ my' = my
      BY <1>1, <1>4, WentTo DEF PCs, Others
    <2>6. my[a].name \in 1..Len(names) /\ Len(names) \in Nat
      BY <1>1, <1>2 DEF Shapes
    <2>7. Places'
      <3>1. TakesNoName /\ OpensLive
        BY <2>5 DEF TakesNoName, OpensLive, Others, HoldsName
      <3>2. e.name <= Len(names)
        BY <2>3, <2>6
      <3>3. \A b \in Processes : pc'[b] \in HoldsName => e.name # my[b].name
        BY <1>1, <1>2, <2>3, <2>5 DEF Places, NamesAreOwn, Others, HoldsName
      <3> QED
        BY <1>1, <1>2, <2>1, <2>2, <2>3, <2>4, <3>1, <3>2, <3>3, PlacesKeptByAppend
    <2>8. ASSUME ~disturbed' PROVE Quiesced'
      <3>1. Quiesced /\ Knows(a)
        BY <1>2, <2>8 DEF QInv, Quiesced
      <3>2. inodes[k] = <<>> /\ inodes'[k] = <<e>>
        <4>1. inodes[k] = <<>>
          BY <1>4, <2>2
        <4>2. Append(<<>>, e) = <<e>>
          BY <2>3
        <4> QED
          BY <2>4, <4>1, <4>2 DEF Appends
      <3>3. Gentle
        <4>1. ~Bears(k)'
          BY <2>1, <2>3, <3>2 DEF Bears
        <4>2. Len(inodes') = Len(inodes) /\ Len(inodes) \in Nat
          BY <1>1, <2>4 DEF Appends, Shapes
        <4> QED
          BY <2>4, <3>2, <4>1, <4>2 DEF Appends, Gentle
      <3>4. KeepsLive /\ KeepsBearers
        BY <1>2 DEF KeepsLive, KeepsBearers, Kept
      <3>5. LinkedNamesKept(a)
        BY <1>1, <1>2 DEF LinkedNamesKept, Shapes
      <3>6. WritersAreAlone'
        BY <1>1, <1>2, <2>5, <3>1, WritersStayAlone DEF Quiesced
      <3>7. Knows(a)'
        BY <2>5 DEF Knows
      <3>8. LinkHolds(k)'
        <4>1. SUFFICES ASSUME NEW f, f = names[e.name], f # 0
                       PROVE  Len(inodes'[f]) = e.count /\ HeadOf(f)' = e.head
          BY <1>2, <3>2 DEF LinkHolds, HasLink, HeadOf
        <4>2. Counted(f, a) /\ f \in 1..Len(inodes)
          BY <1>1, <1>2, <2>3, <2>6, <3>1, <4>1 DEF Knows, Shapes
        <4>3. inodes[f] # <<>>
          BY <2>1, <4>2 DEF Counted
        <4>4. inodes'[f] = inodes[f]
          BY <2>4, <3>2, <4>2, <4>3 DEF Appends
        <4> QED
          BY <2>3, <4>2, <4>4 DEF Counted, HeadOf
      <3>9. \A i \in 1..Len(inodes) : inodes'[i] = inodes[i] \/ LinkHolds(i)'
        BY <2>4, <3>8 DEF Appends
      <3> QED
        BY <1>1, <1>2, <2>5, <3>1, <3>3, <3>4, <3>5, <3>6, <3>7, <3>9, QuiescedKept
        DEF Places
    <2> QED
      BY <1>1, <2>7, <2>8 DEF QInv
  <1> QED
    BY <1>3, <1>4 DEF Link

\* Old archives are deleted.
LEMMA PruneSafe ==
  ASSUME QInv, TInv', NEW a \in Archivers, Prune(a)
  PROVE  QInv'
  <1>1. TInv /\ Shapes /\ Shapes' /\ Places /\ a \in Processes
    BY ShapesHold, ShapesHoldNext DEF QInv, Processes
  <1>2. /\ pc[a] = "prune" /\ Return(a) /\ inodes' = inodes /\ live' = live
        /\ acked' = acked /\ disturbed' = disturbed
    BY DEF Prune
  <1>3. PICK doomed \in SUBSET {n \in DOMAIN names : names[n] # 0} :
          /\ names' = [n \in DOMAIN names |-> IF n \in doomed THEN 0 ELSE names[n]]
          /\ pruned' = pruned \cup {names[n] : n \in doomed}
    BY DEF Prune
  <1>4. Len(names) \in Nat /\ DOMAIN names = 1..Len(names) /\ Len(names') \in Nat
        /\ DOMAIN names' = 1..Len(names')
    BY <1>1 DEF Shapes
  <1>5. /\ Len(names') = Len(names)
        /\ \A n \in 1..Len(names) : names'[n] = IF n \in doomed THEN 0 ELSE names[n]
    <2>1. DOMAIN names' = 1..Len(names)
      BY <1>3, <1>4
    <2> QED
      BY <1>3, <1>4, <2>1
  <1>6. pc'[a] = "idle" /\ my'[a].inode = 0 /\ Others(a)
    BY <1>1, <1>2, Returned
  <1>7. Grown
    BY <1>1, <1>2, SameGrown
  <1>8. Places'
    <2>1. TakesNoName /\ OpensLive
      BY <1>6 DEF TakesNoName, OpensLive, Others, HoldsName
    <2> QED
      BY <1>1, <1>2, <1>5, <1>7, <2>1, PlacesKept DEF Reopens
  <1>9. ASSUME ~disturbed' PROVE Quiesced'
    <2>1. Quiesced
      BY <1>2, <1>9 DEF QInv
    <2>2. Gentle
      BY <1>1, <1>7, GrownIsGentle
    <2>3. KeepsLive
      BY <1>2 DEF KeepsLive
    <2>4. KeepsBearers
      <3>1. ASSUME NEW i \in Kept PROVE i \in Kept'
        <4>1. i # 0 /\ (i \in Range(names) \/ i = live \/ i \in pruned)
          BY DEF Kept
        <4>2. CASE i \in Range(names)
          <5>1. PICK m \in 1..Len(names) : i = names[m]
            BY <1>4, <4>2 DEF Range
          <5>2. CASE m \in doomed
            BY <1>3, <4>1, <5>1, <5>2 DEF Kept
          <5>3. CASE m \notin doomed
            <6>1. m \in DOMAIN names' /\ names'[m] = i
              BY <1>4, <1>5, <5>1, <5>3
            <6> QED
              BY <4>1, <6>1 DEF Kept, Range
          <5> QED
            BY <5>2, <5>3
        <4>3. CASE i = live
          BY <1>2, <4>1, <4>3 DEF Kept
        <4>4. CASE i \in pruned
          BY <1>3, <4>1, <4>4 DEF Kept
        <4> QED
          BY <4>1, <4>2, <4>3, <4>4
      <3> QED
        BY <3>1 DEF KeepsBearers
    <2>5. LinkedNamesKept(a)
      BY <1>4, <1>5 DEF LinkedNamesKept
    <2>6. WritersAreAlone'
      BY <1>1, <1>2, <1>6, <2>1, WritersStayAlone DEF Quiesced
    <2>7. Knows(a)'
      BY <1>6 DEF Knows
    <2> QED
      BY <1>1, <1>2, <1>6, <1>7, <2>1, <2>2, <2>3, <2>4, <2>5, <2>6, <2>7, QuiescedKept
      DEF Places, Grown
  <1> QED
    BY <1>1, <1>8, <1>9 DEF QInv

LEMMA QuiescedInit == Init => QInv
  <1> SUFFICES ASSUME Init PROVE QInv
    OBVIOUS
  <1>1. TInv
    BY TypeInit
  <1>2. /\ DOMAIN inodes = {} /\ DOMAIN names = {} /\ live = 0 /\ acked = {}
        /\ \A p \in Processes : pc[p] = "idle"
    BY DEF Init, Processes
  <1>3. Places
    BY <1>2 DEF Places, OneEntryEach, NamesAreOwn, PlaceholdersAreEmpty, HoldsName
  <1>4. Quiesced
    BY <1>2 DEF Quiesced, WritersAreAlone, Knows, AckedAreKept, Processes
  <1> QED
    BY <1>1, <1>3, <1>4 DEF QInv

LEMMA QuiescedStep == QInv /\ [Next]_vars => QInv'
  <1> SUFFICES ASSUME QInv, [Next]_vars PROVE QInv'
    OBVIOUS
  <1>1. TInv'
    BY TypeStep DEF QInv
  <1>2. ASSUME NEW w \in Writers, Open(w) \/ Write(w) PROVE QInv'
    BY <1>1, <1>2, OpenSafe, WriteSafe
  <1>3. ASSUME NEW a \in Archivers,
               \/ \E keep \in Keeps : Stat(a, keep)
               \/ Claim(a) \/ Rename(a) \/ Settle(a) \/ CheckRollback(a) \/ Rollback(a)
               \/ OpenSuccessor(a) \/ Link(a) \/ Prune(a)
        PROVE  QInv'
    BY <1>1, <1>3, StatSafe, ClaimSafe, RenameSafe, SettleSafe, CheckRollbackSafe,
       RollbackSafe, OpenSuccessorSafe, LinkSafe, PruneSafe
  <1>4. ASSUME NEW p \in Processes, Stop(p) PROVE QInv'
    <2>1. Return(p) /\ UNCHANGED <<inodes, live, names, History>>
      BY <1>4 DEF Stop
    <2> QED
      BY <1>1, <2>1, EndSafe
  <1>5. CASE UNCHANGED vars
    <2>1. UNCHANGED <<Places, disturbed>>
      BY <1>5 DEF vars, Places, OneEntryEach, NamesAreOwn, PlaceholdersAreEmpty
    <2>2. UNCHANGED <<WritersAreAlone, AckedAreKept>>
      BY <1>5 DEF vars, WritersAreAlone, Archiving, AckedAreKept, Kept
    <2>3. UNCHANGED (\A a \in Archivers : Knows(a))
      BY <1>5 DEF vars, Knows, Bears, Counted, HeadOf
    <2>4. UNCHANGED (\A i \in DOMAIN inodes : LinkHolds(i))
      BY <1>5 DEF vars, LinkHolds, HasLink, HeadOf
    <2> QED
      BY <1>1, <2>1, <2>2, <2>3, <2>4 DEF QInv, Quiesced
  <1> QED
    BY <1>2, <1>3, <1>4, <1>5 DEF Next, Processes

(***************************************************************************)
(* While no writer was active during an archive, no interleaving of        *)
(* archivers, wherever they die, breaks custody or loses an acknowledged   *)
(* event: for any number of archivers and of rotations.                    *)
(***************************************************************************)
THEOREM QuiescedRotationAlwaysSafe == Spec => []QuiescedRotationIsSafe
  <1>1. QInv => QuiescedRotationIsSafe
    <2> SUFFICES ASSUME QInv, ~disturbed PROVE CustodyHolds /\ NothingLost
      BY DEF QuiescedRotationIsSafe
    <2>1. Quiesced
      BY DEF QInv
    <2>2. CustodyHolds
      BY <2>1 DEF Quiesced, CustodyHolds, OnChain
    <2>3. NothingLost
      BY <2>1 DEF Quiesced, AckedAreKept, Kept, NothingLost
    <2> QED
      BY <2>2, <2>3
  <1> QED
    BY <1>1, QuiescedInit, QuiescedStep, PTL DEF Spec
=============================================================================
