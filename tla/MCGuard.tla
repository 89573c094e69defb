------------------------------ MODULE MCGuard ------------------------------
(***************************************************************************)
(* Small instances of Guard and of its audit.                              *)
(***************************************************************************)
EXTENDS AuditedGuard, TLC

CONSTANTS a1, a2, pa, pb, k1, k2

TwoThreads          == (a1 :> pa) @@ (a2 :> pa)
OneThreadPerProcess == [p \in Procs |-> p]

\* Two keys, of which one completed is forgotten for the other, and dry runs without one.
ThreadCalls == [c \in Callers |-> {<<k1, FALSE>>, <<k2, FALSE>>, <<NoKey, TRUE>>}]
KeyedCalls == [c \in Callers |-> {<<k1, FALSE>>}]

Processes == Permutations({pa, pb})

\* Threads call alike, and with either key.
ThreadsAndKeys == {p @@ q : p \in Permutations({a1, a2}), q \in Permutations({k1, k2})}
=============================================================================
