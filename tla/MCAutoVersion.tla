----------------------------- MODULE MCAutoVersion -----------------------------
(* Small instances of AutoVersion for TLC.                                  *)
EXTENDS AutoVersion, TLC

CONSTANTS t1, t2, t3, d1, d2,   \* threads; d1 and d2 may be at the depth limit
          p1, p2, p3, e1, g1,   \* paths; e1 is excluded, g1 tagged
          x1, x2, x3,           \* x1 is nested in x2, x3 lies beside x1
          h1, h2

On(x)       == [prefix |-> x, enabled |-> TRUE]
Disabled(x) == [prefix |-> x, enabled |-> FALSE]

\* Every content writer has paths of its own; d2 writes content and configs.
OwnScope ==
  [t \in Threads |-> (t1 :> {p1} @@ t2 :> {p2, e1} @@ t3 :> {p3}
                        @@ d1 :> {p3, g1} @@ d2 :> {p1, g1, 1})[t]]

NestedUnder ==
  [x \in Prefixes |-> (x1 :> {p1, g1} @@ x2 :> Paths @@ x3 :> {p2})[x]]

\* Entry 1 moves between x1 and x3; entry 2 is not written, and keeps x2 tracked.
OwnChoices ==
  [p \in Paths |-> IF p = p1 THEN Hashes ELSE {h1}]
    @@ [c \in ConfigIds |->
          IF c = 1 THEN {On(x1), Disabled(x1), On(x3), Disabled(x3)} ELSE {}]

Budget(b) == [t \in Threads |-> IF t \in DOMAIN b THEN b[t] ELSE 0]
Cast(cfgs, b, n) ==
  [configs |-> [c \in ConfigIds |-> cfgs[c]], writes |-> Budget(b), restarts |-> n]

BothOn == <<On(x1), On(x2)>>
OneOn  == <<Nil, On(x2)>>

\* In turn: two writers and a crash, over two tracked prefixes; one writer
\* overtaken by another; three writers; a writer beside one at the depth limit;
\* one thread that changes content and configs at the depth limit.
MixedCasts ==
  {Cast(BothOn, t1 :> 2 @@ t2 :> 1, 1),
   Cast(OneOn, t1 :> 1 @@ t2 :> 3, 0),
   Cast(OneOn, t1 :> 1 @@ t2 :> 1 @@ t3 :> 1, 0),
   Cast(BothOn, t1 :> 1 @@ d1 :> 2, 0),
   Cast(OneOn, d2 :> 3, 0)}

\* The theorems about roots, versions and halts apply to every one of these scenarios.
ASSUME Alone ==
  \A s \in Casts :
    /\ VersionedAlone(s) /\ StaysTracked(s)
    /\ \A x \in Prefixes : TrackedAlone(s, x) \/ RebuiltAlone(s, x)

TwoWriters == {Cast(OneOn, t1 :> 1 @@ t2 :> 1, 0)}
=============================================================================
