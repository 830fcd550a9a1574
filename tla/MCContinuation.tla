--------------------------- MODULE MCContinuation ---------------------------
(* Instances of Continuation for TLC. *)
EXTENDS Continuation, TLC

Join(deadline, partial, onError, count) ==
  [deadline |-> deadline, partial |-> partial, onError |-> onError, count |-> count]

\* A counted join that fires what it has, a standing one that abandons, and one
\* that waits for ever.
MCJoinConfigs ==
  {Join(TRUE, TRUE, FALSE, 2), Join(TRUE, FALSE, TRUE, 0), Join(FALSE, FALSE, FALSE, 1)}

Symmetry == Permutations(Tasks) \cup Permutations(Slots)
=============================================================================
