----------------------------- MODULE MCRootTracker -----------------------------
(* A small instance of RootTracker for TLC.                                 *)
EXTENDS RootTracker, TLC

CONSTANTS t1, t2, p1

\* One thread writes content, the other the config entry.
ConfigScope == t1 :> {p1} @@ t2 :> {1}
AllUnder == [x \in Prefixes |-> Paths]
AnyChoices == [p \in Paths |-> Hashes] @@ [c \in ConfigIds |-> Configs]
ConfigCasts ==
  {[configs |-> NoConfigs, writes |-> [t \in Threads |-> 2], restarts |-> 0]}

Symmetry == Permutations(Hashes)
=============================================================================
