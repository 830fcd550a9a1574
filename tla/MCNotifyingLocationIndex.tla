----------------------- MODULE MCNotifyingLocationIndex -----------------------
(* Small instances of NotifyingLocationIndex for TLC.                       *)
EXTENDS NotifyingLocationIndex, TLC

CONSTANTS t1, t2, p1, p2, q

\* Each thread has a path of its own.
OwnScope == (t1 :> {p1}) @@ (t2 :> {p2})

\* The theorems about events and settled writes apply to these instances.
ASSUME Alone == SetsAlone /\ WritesAlone

\* The threads can be swapped together with their paths.
Symmetry ==
  {f \in Permutations(Threads \cup {p1, p2}) :
     \A t \in Threads :
       f[t] \in Threads /\ OwnScope[f[t]] = {f[p] : p \in OwnScope[t]}}
=============================================================================
