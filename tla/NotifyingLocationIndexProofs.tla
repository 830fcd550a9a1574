--------------------- MODULE NotifyingLocationIndexProofs ---------------------
(***************************************************************************)
(* Machine-checked safety of the emit pathway, for any number of threads,  *)
(* paths, hooks and calls and any cascade limit.                           *)
(*                                                                         *)
(* The counter cascade_depth is global and its test and its increment are  *)
(* separate steps, so no bound on it is inductive by itself.  The proof    *)
(* counts: depth is the cardinality of the set of guards held, and the     *)
(* calls that passed the test and have not counted themselves in yet are   *)
(* added to it.                                                            *)
(*                                                                         *)
(* What is published is proved on top of that, in the two situations the   *)
(* lock-free write, enter, announce sequence allows it: an event is real   *)
(* when no other writer sets its path (EventInv, under SetsAlone), and a   *)
(* Complete result is settled when no other thread writes its path         *)
(* (SettledInv, under WritesAlone).  Both follow what a call saw, wrote    *)
(* and announced from its first read to its return.                        *)
(***************************************************************************)
EXTENDS NotifyingLocationIndex, FiniteSetTheorems, SequenceTheorems, TLAPS

-----------------------------------------------------------------------------
(* The inductive invariant.                                                 *)

\* A call that is waiting for a nested one is running a hook.
OuterCallsRunHooks ==
  \A t \in Threads : \A i \in 1..(Len(stack[t]) - 1) : stack[t][i].pc = "hook"

\* A call past the test has a valid path, and one that adds to its chain has one.
GoodCall(f) ==
  /\ f.pc # "check" => f.path \in Paths
  /\ f.pc = "chain" => f.chain # NoChain

CallsGood ==
  \A t \in Threads : \A i \in 1..Len(stack[t]) : GoodCall(stack[t][i])

\* Every call on a stack has been counted against MaxCalls.
StacksCounted == \A t \in Threads : Len(stack[t]) <= calls[t]

\* A call that has not been tested yet may be one too deep.
StacksBounded ==
  \A t \in Threads : stack[t] # <<>> =>
    Len(stack[t]) <= IF Top(t).pc = "check" THEN DepthLimit + 1 ELSE DepthLimit

\* The call passed the depth test and has not counted itself in.
Tested(f) == f.pc \in {"read", "write", "enter"}

Entering == {t \in Threads : stack[t] # <<>> /\ Tested(Top(t))}

\* Guards held and guards about to be taken, together.
EnteringBounded ==
  depth + Cardinality(Entering) <= DepthLimit - 1 + Cardinality(Threads)

StackInv ==
  /\ OuterCallsRunHooks
  /\ CallsGood
  /\ StacksCounted
  /\ DepthCountsCascades
  /\ StacksBounded
  /\ EnteringBounded

Inv == TypeOK /\ StackInv

-----------------------------------------------------------------------------
(* What the steps do to the stack of their thread t.                        *)

OthersKept(t) == \A u \in Threads \ {t} : stack'[u] = stack[u]

Replaced(t, f) ==
  /\ stack' \in [Threads -> Seq(Calls)]
  /\ OthersKept(t)
  /\ Len(stack'[t]) = Len(stack[t])
  /\ \A i \in 1..Len(stack[t]) :
       stack'[t][i] = IF i = Len(stack[t]) THEN f ELSE stack[t][i]

Unwound(f) == [f EXCEPT !.pc = "unwind"]

Popped(t) ==
  /\ stack' \in [Threads -> Seq(Calls)]
  /\ OthersKept(t)
  /\ Len(stack'[t]) = Len(stack[t]) - 1
  /\ \A i \in 1..(Len(stack[t]) - 1) :
       /\ stack'[t][i].pc \in {"hook", "unwind"}
       /\ i < Len(stack[t]) - 1 => stack'[t][i].pc = "hook"
       /\ stack'[t][i].path \in Paths
       /\ stack'[t][i] = stack[t][i] \/ stack'[t][i] = Unwound(stack[t][i])

Pushed(t, f) ==
  /\ stack' \in [Threads -> Seq(Calls)]
  /\ OthersKept(t)
  /\ Len(stack'[t]) = Len(stack[t]) + 1
  /\ \A i \in 1..Len(stack[t]) : stack'[t][i] = stack[t][i]
  /\ stack'[t][Len(stack[t]) + 1] = f

\* The innermost call of a thread is a call.
LEMMA TopType ==
  ASSUME TypeOK, NEW t \in Threads, stack[t] # <<>>
  PROVE  /\ stack[t] \in Seq(Calls)
         /\ Len(stack[t]) \in Nat \ {0}
         /\ Len(stack[t]) \in 1..Len(stack[t])
         /\ Top(t) \in Calls
<1>1. stack[t] \in Seq(Calls)
  BY DEF TypeOK
<1>2. Len(stack[t]) \in Nat \ {0}
  BY <1>1, EmptySeq
<1>3. Len(stack[t]) \in 1..Len(stack[t])
  BY <1>2
<1>4. Top(t) \in Calls
  BY <1>1, <1>3, ElementOfSeq DEF Top
<1> QED
  BY <1>1, <1>2, <1>3, <1>4

\* Update replaces the innermost call.
LEMMA UpdateReplaces ==
  ASSUME TypeOK, NEW t \in Threads, stack[t] # <<>>, NEW f \in Calls, Update(t, f)
  PROVE  Replaced(t, f)
<1> DEFINE n == Len(stack[t])
           s == [stack[t] EXCEPT ![n] = f]
<1>1. stack[t] \in Seq(Calls) /\ n \in 1..n
  BY TopType
<1>2. /\ s \in Seq(Calls)
      /\ Len(s) = n
      /\ \A i \in 1..n : s[i] = IF i = n THEN f ELSE stack[t][i]
  BY <1>1, ExceptSeq
<1>3. stack \in [Threads -> Seq(Calls)] /\ stack' = [stack EXCEPT ![t] = s]
  BY DEF TypeOK, Update
<1>4. stack'[t] = s /\ OthersKept(t) /\ stack' \in [Threads -> Seq(Calls)]
  <2> HIDE DEF s
  <2> QED BY <1>2, <1>3 DEF OthersKept
<1> QED
  BY <1>2, <1>4 DEF Replaced

\* The waiting calls of a thread run hooks, at valid paths.
LEMMA OuterCalls ==
  ASSUME Inv, NEW t \in Threads, Len(stack[t]) \in Nat
  PROVE  \A i \in 1..(Len(stack[t]) - 1) :
           stack[t][i].pc = "hook" /\ stack[t][i].path \in Paths
<1> SUFFICES ASSUME NEW i \in 1..(Len(stack[t]) - 1)
             PROVE  stack[t][i].pc = "hook" /\ stack[t][i].path \in Paths
  OBVIOUS
<1>1. stack[t][i].pc = "hook"
  BY DEF Inv, StackInv, OuterCallsRunHooks
<1>2. i \in 1..Len(stack[t])
  OBVIOUS
<1>3. GoodCall(stack[t][i])
  BY <1>2 DEF Inv, StackInv, CallsGood
<1> QED
  BY <1>1, <1>3 DEF GoodCall

\* Return pops it: the caller's call, if any, is running a hook.
LEMMA ReturnPops ==
  ASSUME Inv, NEW t \in Threads, stack[t] # <<>>, NEW f, Return(t, f)
  PROVE  Popped(t)
<1> DEFINE n == Len(stack[t])
           s == SubSeq(stack[t], 1, n - 1)
<1>1. stack[t] \in Seq(Calls) /\ n \in Nat \ {0}
  BY TopType DEF Inv
<1>2. \A i \in 1..(n - 1) : stack[t][i] \in Calls
  BY <1>1, ElementOfSeq
<1>3. n - 1 \in Int /\ 1 \in Int
  BY <1>1
<1>4. /\ s \in Seq(Calls)
      /\ Len(s) = IF 1 <= n - 1 THEN (n - 1) - 1 + 1 ELSE 0
      /\ \A i \in 1..((n - 1) - 1 + 1) : s[i] = stack[t][1 + i - 1]
  BY <1>2, <1>3, SubSeqProperties
<1>5. /\ Len(s) = n - 1
      /\ \A i \in 1..(n - 1) : s[i] = stack[t][i]
  BY <1>1, <1>4
<1>6. stack \in [Threads -> Seq(Calls)] /\ stack' = [stack EXCEPT ![t] = s]
  BY DEF Inv, TypeOK, Return
<1>7. stack'[t] = s /\ OthersKept(t) /\ stack' \in [Threads -> Seq(Calls)]
  <2> HIDE DEF s
  <2> QED BY <1>4, <1>6 DEF OthersKept
<1>8. \A i \in 1..(n - 1) : stack[t][i].pc = "hook" /\ stack[t][i].path \in Paths
  BY <1>1, OuterCalls
<1> QED
  BY <1>5, <1>7, <1>8 DEF Popped

\* Unwind pops it too, and the caller's call starts to unwind.
LEMMA UnwindPops ==
  ASSUME Inv, NEW t \in Threads, Unwind(t)
  PROVE  Popped(t)
<1> DEFINE n == Len(stack[t])
           s == SubSeq(stack[t], 1, n - 1)
           r == IF n = 1 THEN <<>> ELSE [s EXCEPT ![n - 1].pc = "unwind"]
<1>1. stack[t] \in Seq(Calls) /\ n \in Nat \ {0}
  BY TopType DEF Inv, Unwind, At
<1>2. \A i \in 1..(n - 1) : stack[t][i] \in Calls
  BY <1>1, ElementOfSeq
<1>3. n - 1 \in Int /\ 1 \in Int
  BY <1>1
<1>4. /\ s \in Seq(Calls)
      /\ Len(s) = IF 1 <= n - 1 THEN (n - 1) - 1 + 1 ELSE 0
      /\ \A i \in 1..((n - 1) - 1 + 1) : s[i] = stack[t][1 + i - 1]
  BY <1>2, <1>3, SubSeqProperties
<1>5. /\ Len(s) = n - 1
      /\ \A i \in 1..(n - 1) : s[i] = stack[t][i]
  BY <1>1, <1>4
<1>6. \A i \in 1..(n - 1) : stack[t][i].pc = "hook" /\ stack[t][i].path \in Paths
  BY <1>1, OuterCalls
<1>7. /\ r \in Seq(Calls)
      /\ Len(r) = n - 1
      /\ \A i \in 1..(n - 1) : /\ r[i].pc \in {"hook", "unwind"}
                               /\ i < n - 1 => r[i].pc = "hook"
                               /\ r[i].path \in Paths
                               /\ r[i] = stack[t][i] \/ r[i] = Unwound(stack[t][i])
  <2>1. CASE n = 1
    BY <2>1, EmptySeq
  <2>2. CASE n # 1
    <3> DEFINE g == [s[n - 1] EXCEPT !.pc = "unwind"]
    <3>1. n - 1 \in 1..Len(s) /\ n - 1 \in 1..(n - 1)
      <4> HIDE DEF s, n
      <4> QED BY <1>1, <1>5, <2>2
    <3>2. s[n - 1] \in Calls
      BY <1>4, <3>1, ElementOfSeq
    <3>3. g \in Calls /\ g.pc = "unwind" /\ g.path = s[n - 1].path
      BY <3>2 DEF Calls, PCs
    <3>4. r = [s EXCEPT ![n - 1] = g]
      BY <2>2
    <3> HIDE DEF g, r, s
    <3>5. /\ [s EXCEPT ![n - 1] = g] \in Seq(Calls)
          /\ Len([s EXCEPT ![n - 1] = g]) = Len(s)
          /\ \A j \in 1..Len(s) :
               [s EXCEPT ![n - 1] = g][j] = IF j = n - 1 THEN g ELSE s[j]
      BY <1>4, <3>1, <3>3, ExceptSeq
    <3>6. r \in Seq(Calls) /\ Len(r) = n - 1
      BY <1>5, <3>4, <3>5
    <3>7. ASSUME NEW i \in 1..(n - 1)
          PROVE  /\ r[i].pc \in {"hook", "unwind"}
                 /\ i < n - 1 => r[i].pc = "hook"
                 /\ r[i].path \in Paths
                 /\ r[i] = stack[t][i] \/ r[i] = Unwound(stack[t][i])
      <4>1. r[i] = IF i = n - 1 THEN g ELSE s[i]
        BY <1>5, <3>4, <3>5
      <4>2. s[i].pc = "hook" /\ s[i].path \in Paths
        BY <1>5, <1>6
      <4>3. CASE i = n - 1
        <5>1. r[i] = Unwound(stack[t][i])
          BY <1>5, <4>1, <4>3 DEF Unwound, g
        <5> QED BY <3>3, <4>1, <4>2, <4>3, <5>1
      <4>4. CASE i # n - 1
        BY <1>5, <4>1, <4>2, <4>4
      <4> QED BY <4>3, <4>4
    <3> QED
      BY <3>6, <3>7
  <2> QED
    BY <2>1, <2>2
<1>8. stack \in [Threads -> Seq(Calls)] /\ stack' = [stack EXCEPT ![t] = r]
  BY DEF Inv, TypeOK, Unwind
<1>9. stack'[t] = r /\ OthersKept(t) /\ stack' \in [Threads -> Seq(Calls)]
  <2> HIDE DEF r
  <2> QED BY <1>7, <1>8 DEF OthersKept
<1> QED
  <2> HIDE DEF r
  <2> QED BY <1>7, <1>9 DEF Popped

\* A call of a task, or of a hook, is a new innermost call.
LEMMA NewCallPushed ==
  ASSUME TypeOK, NEW t \in Threads, NEW f \in Calls,
         \/ stack[t] = <<>> /\ stack' = [stack EXCEPT ![t] = <<f>>]
         \/ stack' = [stack EXCEPT ![t] = Append(@, f)]
  PROVE  Pushed(t, f)
<1>1. stack \in [Threads -> Seq(Calls)] /\ stack[t] \in Seq(Calls)
  BY DEF TypeOK
<1>2. stack' = [stack EXCEPT ![t] = Append(stack[t], f)]
  <2>1. CASE stack[t] = <<>> /\ stack' = [stack EXCEPT ![t] = <<f>>]
    <3>1. Append(stack[t], f) = <<f>>
      BY <2>1
    <3> QED BY <2>1, <3>1
  <2>2. CASE stack' = [stack EXCEPT ![t] = Append(@, f)]
    BY <2>2
  <2> QED BY <2>1, <2>2
<1> DEFINE s == Append(stack[t], f)
<1>3. /\ s \in Seq(Calls)
      /\ Len(s) = Len(stack[t]) + 1
      /\ \A i \in 1..Len(stack[t]) : s[i] = stack[t][i]
      /\ s[Len(stack[t]) + 1] = f
  BY <1>1, AppendProperties
<1>4. stack'[t] = s /\ OthersKept(t) /\ stack' \in [Threads -> Seq(Calls)]
  <2> HIDE DEF s
  <2> QED BY <1>1, <1>2, <1>3 DEF OthersKept, s
<1> QED
  BY <1>3, <1>4 DEF Pushed

\* Requests are calls that nothing has tested yet.
LEMMA RequestType ==
  ASSUME NEW ops \in SUBSET AllOps, NEW ps \in SUBSET (Paths \cup {BadPath}),
         NEW c \in Chains \cup {NoChain}, NEW f \in Requests(ops, ps, c)
  PROVE  f \in Calls /\ f.pc = "check"
<1>1. 1 \in 1..(NumHooks + 1)
  BY ConstantsAssumption
<1>2. PICK op \in ops, p \in ps, h \in Hashes \cup {Nil}, e \in Hashes \cup {Nil} :
        f = NewCall(op, p, h, e, c)
  <2>1. CASE f \in {NewCall(op, p, h, e, c) :
                     op \in ops \ {"cas_remove", "remove"}, p \in ps,
                     h \in Hashes, e \in Hashes \cup {Nil}}
    <3>1. PICK op \in ops \ {"cas_remove", "remove"}, p \in ps, h \in Hashes,
               e \in Hashes \cup {Nil} : f = NewCall(op, p, h, e, c)
      BY <2>1
    <3> QED BY <3>1
  <2>2. CASE f \in {NewCall(op, p, Nil, e, c) :
                     op \in ops \cap {"cas_remove", "remove"},
                     p \in ps, e \in Hashes \cup {Nil}}
    <3>1. PICK op \in ops \cap {"cas_remove", "remove"}, p \in ps,
               e \in Hashes \cup {Nil} : f = NewCall(op, p, Nil, e, c)
      BY <2>2
    <3> QED BY <3>1
  <2> QED BY <2>1, <2>2 DEF Requests
<1>3. f \in [op : AllOps, path : Paths \cup {BadPath}, hash : Hashes \cup {Nil},
          exp : Hashes \cup {Nil}, chain : Chains \cup {NoChain},
          prev : Hashes \cup {Nil}, was : Hashes \cup {Nil},
          wrote : BOOLEAN, hook : 1..(NumHooks + 1), stamp : Nat,
          out : Outcomes, pc : PCs]
  <2>1. op \in AllOps /\ p \in Paths \cup {BadPath}
    OBVIOUS
  <2> QED BY <1>1, <1>2, <2>1 DEF NewCall, Outcomes, PCs
<1> QED
  BY <1>2, <1>3 DEF Calls, NewCall

-----------------------------------------------------------------------------
(* Counting.                                                                *)

\* There are finitely many cascades and entering calls.
LEMMA FiniteCounts ==
  ASSUME TRUE
  PROVE  /\ IsFiniteSet(Cascades) /\ Cardinality(Cascades) \in Nat
         /\ IsFiniteSet(Entering) /\ Cardinality(Entering) \in Nat
         /\ Cardinality(Entering) <= Cardinality(Threads)
         /\ Cardinality(Threads) \in Nat
<1>1. IsFiniteSet(1..MaxCalls)
  BY FS_Interval, ConstantsAssumption
<1>2. IsFiniteSet(Threads \X (1..MaxCalls))
  BY <1>1, FS_Product, ThreadsAssumption
<1>3. Cascades \in SUBSET (Threads \X (1..MaxCalls))
  BY DEF Cascades
<1>4. Entering \in SUBSET Threads
  BY DEF Entering
<1> QED
  BY <1>2, <1>3, <1>4, FS_Subset, FS_CardinalityType, ThreadsAssumption

\* The stacks are no longer than MaxCalls.
LEMMA StackLength ==
  ASSUME Inv, NEW t \in Threads, stack[t] # <<>>
  PROVE  Len(stack[t]) \in Nat \ {0} /\ Len(stack[t]) \in 1..MaxCalls
<1>1. Len(stack[t]) \in Nat \ {0}
  BY TopType DEF Inv
<1>2. calls[t] \in 0..MaxCalls /\ Len(stack[t]) <= calls[t]
  BY DEF Inv, TypeOK, StackInv, StacksCounted
<1> QED
  BY <1>1, <1>2, ConstantsAssumption

\* A call that holds no guard, or one that keeps its guard, replaced by another
\* such call changes no cascade.
LEMMA SameCascades ==
  ASSUME Inv, NEW t \in Threads, stack[t] # <<>>, NEW f \in Calls, Replaced(t, f),
         Entered(f) <=> Entered(Top(t))
  PROVE  Cascades' = Cascades
<1> DEFINE n == Len(stack[t])
<1>1. n \in Nat \ {0}
  BY TopType DEF Inv
<1>2. ASSUME NEW x \in Threads \X (1..MaxCalls)
      PROVE  (x[2] <= Len(stack'[x[1]]) /\ Entered(stack'[x[1]][x[2]]))
               <=> (x[2] <= Len(stack[x[1]]) /\ Entered(stack[x[1]][x[2]]))
  <2>1. x[1] \in Threads /\ x[2] \in 1..MaxCalls /\ x[2] \in Nat /\ x[2] >= 1
    BY ConstantsAssumption
  <2>2. CASE x[1] = t
    <3>1. CASE x[2] = n
      BY <1>1, <2>1, <2>2, <3>1 DEF Replaced, Top
    <3>2. CASE x[2] # n
      BY <1>1, <2>1, <2>2, <3>2 DEF Replaced
    <3> QED BY <3>1, <3>2
  <2>3. CASE x[1] # t
    BY <2>1, <2>3 DEF Replaced, OthersKept
  <2> QED BY <2>2, <2>3
<1> QED
  BY <1>2, Zenon DEF Cascades

\* Counting a call in adds its cascade.
LEMMA MoreCascades ==
  ASSUME Inv, NEW t \in Threads, stack[t] # <<>>, NEW f \in Calls, Replaced(t, f),
         Entered(f), ~Entered(Top(t))
  PROVE  /\ Cascades' = Cascades \cup {<<t, Len(stack[t])>>}
         /\ <<t, Len(stack[t])>> \notin Cascades
<1> DEFINE n == Len(stack[t])
<1>1. n \in Nat \ {0} /\ n \in 1..MaxCalls
  BY StackLength
<1>2. <<t, n>> \notin Cascades /\ <<t, n>> \in Threads \X (1..MaxCalls)
  BY <1>1 DEF Cascades, Top
<1>3. ASSUME NEW x \in Threads \X (1..MaxCalls)
      PROVE  (x[2] <= Len(stack'[x[1]]) /\ Entered(stack'[x[1]][x[2]]))
               <=> \/ x[2] <= Len(stack[x[1]]) /\ Entered(stack[x[1]][x[2]])
                   \/ x = <<t, n>>
  <2>1. x[1] \in Threads /\ x[2] \in 1..MaxCalls /\ x[2] \in Nat /\ x[2] >= 1
        /\ x = <<x[1], x[2]>>
    BY ConstantsAssumption
  <2>2. CASE x[1] = t
    <3>1. CASE x[2] = n
      BY <1>1, <2>1, <2>2, <3>1 DEF Replaced, Top
    <3>2. CASE x[2] # n
      BY <1>1, <2>1, <2>2, <3>2 DEF Replaced
    <3> QED BY <3>1, <3>2
  <2>3. CASE x[1] # t
    BY <2>1, <2>3 DEF Replaced, OthersKept
  <2> QED BY <2>2, <2>3
<1> QED
  BY <1>2, <1>3, Zenon DEF Cascades

\* Popping a call removes its cascade if it had one.
LEMMA FewerCascades ==
  ASSUME Inv, NEW t \in Threads, stack[t] # <<>>, Popped(t)
  PROVE  /\ Cascades' = Cascades \ {<<t, Len(stack[t])>>}
         /\ <<t, Len(stack[t])>> \in Cascades <=> Entered(Top(t))
<1> DEFINE n == Len(stack[t])
<1>1. n \in Nat \ {0} /\ n \in 1..MaxCalls
  BY StackLength
<1>2. /\ <<t, n>> \in Threads \X (1..MaxCalls)
      /\ <<t, n>> \in Cascades <=> Entered(Top(t))
  BY <1>1 DEF Cascades, Top
<1>3. ASSUME NEW x \in Threads \X (1..MaxCalls)
      PROVE  (x[2] <= Len(stack'[x[1]]) /\ Entered(stack'[x[1]][x[2]]))
               <=> /\ x[2] <= Len(stack[x[1]]) /\ Entered(stack[x[1]][x[2]])
                   /\ x # <<t, n>>
  <2>1. x[1] \in Threads /\ x[2] \in 1..MaxCalls /\ x[2] \in Nat /\ x[2] >= 1
        /\ x = <<x[1], x[2]>>
    BY ConstantsAssumption
  <2>2. CASE x[1] = t
    <3>1. CASE x[2] < n
      <4>1. stack[t][x[2]].pc = "hook"
        BY <1>1, <2>1, <3>1 DEF Inv, StackInv, OuterCallsRunHooks
      <4> QED
        BY <1>1, <2>1, <2>2, <3>1, <4>1 DEF Popped, Entered
    <3>2. CASE x[2] >= n
      BY <1>1, <2>1, <2>2, <3>2 DEF Popped
    <3> QED BY <1>1, <2>1, <3>1, <3>2
  <2>3. CASE x[1] # t
    BY <2>1, <2>3 DEF Popped, OthersKept
  <2> QED BY <2>2, <2>3
<1> QED
  BY <1>2, <1>3, Zenon DEF Cascades

\* A new call has no cascade yet.
LEMMA PushedCascades ==
  ASSUME Inv, NEW t \in Threads, NEW f \in Calls, Pushed(t, f), ~Entered(f)
  PROVE  Cascades' = Cascades
<1> DEFINE n == Len(stack[t])
<1>1. n \in Nat
  BY LenProperties DEF Inv, TypeOK
<1>2. ASSUME NEW x \in Threads \X (1..MaxCalls)
      PROVE  (x[2] <= Len(stack'[x[1]]) /\ Entered(stack'[x[1]][x[2]]))
               <=> (x[2] <= Len(stack[x[1]]) /\ Entered(stack[x[1]][x[2]]))
  <2>1. x[1] \in Threads /\ x[2] \in 1..MaxCalls /\ x[2] \in Nat /\ x[2] >= 1
    BY ConstantsAssumption
  <2>2. CASE x[1] = t
    <3>1. CASE x[2] = n + 1
      BY <1>1, <2>1, <2>2, <3>1 DEF Pushed
    <3>2. CASE x[2] # n + 1
      BY <1>1, <2>1, <2>2, <3>2 DEF Pushed
    <3> QED BY <3>1, <3>2
  <2>3. CASE x[1] # t
    BY <2>1, <2>3 DEF Pushed, OthersKept
  <2> QED BY <2>2, <2>3
<1> QED
  BY <1>2, Zenon DEF Cascades

-----------------------------------------------------------------------------
(* What each kind of step does to the invariant on the stacks.              *)

\* The parts of the invariant that do not count survive any replacement.
LEMMA ReplacedShape ==
  ASSUME Inv, NEW t \in Threads, stack[t] # <<>>, NEW f \in Calls, Replaced(t, f),
         GoodCall(f), calls' = calls
  PROVE  /\ OuterCallsRunHooks' /\ CallsGood' /\ StacksCounted'
         /\ stack'[t] # <<>> /\ Top(t)' = f
         /\ \A u \in Threads \ {t} : stack'[u] = stack[u] /\ Top(u)' = Top(u)
<1>1. Len(stack[t]) \in Nat \ {0}
  BY TopType DEF Inv
<1>2. stack'[t] # <<>>
  BY <1>1, EmptySeq DEF Replaced
<1>3. Top(t)' = f
  BY <1>1 DEF Replaced, Top
<1>4. \A u \in Threads \ {t} : stack'[u] = stack[u] /\ Top(u)' = Top(u)
  BY DEF Replaced, OthersKept, Top
<1>5. OuterCallsRunHooks'
  <2> SUFFICES ASSUME NEW u \in Threads, NEW i \in 1..(Len(stack'[u]) - 1)
               PROVE  stack'[u][i].pc = "hook"
    BY DEF OuterCallsRunHooks
  <2>1. CASE u = t
    BY <1>1, <2>1 DEF Replaced, Inv, StackInv, OuterCallsRunHooks
  <2>2. CASE u # t
    BY <1>4, <2>2 DEF Inv, StackInv, OuterCallsRunHooks
  <2> QED BY <2>1, <2>2
<1>6. StacksCounted'
  BY <1>4 DEF Replaced, Inv, StackInv, StacksCounted
<1>7. CallsGood'
  <2> SUFFICES ASSUME NEW u \in Threads, NEW i \in 1..Len(stack'[u])
               PROVE  GoodCall(stack'[u][i])
    BY DEF CallsGood
  <2>1. CASE u = t
    BY <1>1, <2>1 DEF Replaced, Inv, StackInv, CallsGood
  <2>2. CASE u # t
    BY <1>4, <2>2 DEF Inv, StackInv, CallsGood
  <2> QED BY <2>1, <2>2
<1> QED
  BY <1>2, <1>3, <1>4, <1>5, <1>6, <1>7

\* A step that takes no guard, drops none and passes no test.
LEMMA QuietStep ==
  ASSUME Inv, NEW t \in Threads, stack[t] # <<>>, NEW f \in Calls, Replaced(t, f),
         GoodCall(f), calls' = calls, depth' = depth, Entered(f) <=> Entered(Top(t)),
         Tested(f) => Tested(Top(t)), f.pc # "check", Top(t).pc # "check"
  PROVE  StackInv'
<1>1. /\ OuterCallsRunHooks' /\ CallsGood' /\ StacksCounted'
      /\ stack'[t] # <<>> /\ Top(t)' = f
      /\ \A u \in Threads \ {t} : stack'[u] = stack[u] /\ Top(u)' = Top(u)
  BY ReplacedShape
<1>2. DepthCountsCascades'
  BY SameCascades DEF Inv, StackInv, DepthCountsCascades
<1>3. StacksBounded'
  <2> SUFFICES ASSUME NEW u \in Threads, stack'[u] # <<>>
               PROVE  Len(stack'[u]) <= IF Top(u)'.pc = "check" THEN DepthLimit + 1
                                                                ELSE DepthLimit
    BY DEF StacksBounded
  <2>1. CASE u = t
    BY <1>1, <2>1 DEF Replaced, Inv, StackInv, StacksBounded
  <2>2. CASE u # t
    BY <1>1, <2>2 DEF Inv, StackInv, StacksBounded
  <2> QED BY <2>1, <2>2
<1>4. EnteringBounded'
  <2>1. Entering' \in SUBSET Entering
    <3> SUFFICES ASSUME NEW u \in Threads, stack'[u] # <<>>, Tested(Top(u)')
                 PROVE  stack[u] # <<>> /\ Tested(Top(u))
      BY DEF Entering
    <3> QED BY <1>1
  <2>2. Cardinality(Entering') <= Cardinality(Entering)
        /\ Cardinality(Entering') \in Nat
    BY <2>1, FiniteCounts, FS_Subset, FS_CardinalityType
  <2> QED
    BY <2>2, FiniteCounts, ConstantsAssumption
       DEF EnteringBounded, Inv, StackInv, TypeOK
<1> QED
  BY <1>1, <1>2, <1>3, <1>4 DEF StackInv

\* A thread's waiting calls all hold a guard, so the counter is at least their
\* number.
LEMMA DepthCoversStack ==
  ASSUME Inv, NEW t \in Threads, stack[t] # <<>>
  PROVE  Len(stack[t]) - 1 <= depth
<1> DEFINE n == Len(stack[t])
           S == {t} \X (1..(n - 1))
<1>1. n \in Nat \ {0} /\ n \in 1..MaxCalls
  BY StackLength
<1>2. S \in SUBSET Cascades
  <2> SUFFICES ASSUME NEW i \in 1..(n - 1)
               PROVE  <<t, i>> \in Cascades
    OBVIOUS
  <2>1. stack[t][i].pc = "hook"
    BY DEF Inv, StackInv, OuterCallsRunHooks
  <2> QED
    BY <1>1, <2>1, ConstantsAssumption DEF Cascades, Entered
<1>3. Cardinality(S) <= Cardinality(Cascades)
  BY <1>2, FiniteCounts, FS_Subset
<1>4. /\ IsFiniteSet(1..(n - 1))
      /\ Cardinality(1..(n - 1)) = IF 1 > n - 1 THEN 0 ELSE (n - 1) - 1 + 1
  <2>1. 1 \in Int /\ n - 1 \in Int
    BY <1>1
  <2> QED BY <2>1, FS_Interval
<1>5. IsFiniteSet({t}) /\ Cardinality({t}) = 1
  BY FS_Singleton
<1>6. Cardinality(S) = Cardinality({t}) * Cardinality(1..(n - 1))
  BY <1>4, <1>5, FS_Product
<1>7. Cardinality(S) = n - 1
  <2> HIDE DEF S
  <2> QED BY <1>1, <1>4, <1>5, <1>6
<1>8. n - 1 <= Cardinality(Cascades)
  BY <1>3, <1>7
<1> QED
  BY <1>8 DEF Inv, StackInv, DepthCountsCascades

\* The depth test passes.
LEMMA PassStep ==
  ASSUME Inv, NEW t \in Threads, stack[t] # <<>>, NEW f \in Calls, Replaced(t, f),
         GoodCall(f), calls' = calls, depth' = depth, Top(t).pc = "check", Tested(f),
         depth < DepthLimit
  PROVE  StackInv'
<1>1. /\ OuterCallsRunHooks' /\ CallsGood' /\ StacksCounted'
      /\ stack'[t] # <<>> /\ Top(t)' = f
      /\ \A u \in Threads \ {t} : stack'[u] = stack[u] /\ Top(u)' = Top(u)
  BY ReplacedShape
<1>2. DepthCountsCascades'
  <2>1. Cascades' = Cascades
    BY SameCascades DEF Entered, Tested
  <2> QED
    BY <2>1 DEF Inv, StackInv, DepthCountsCascades
<1>3. StacksBounded'
  <2> SUFFICES ASSUME NEW u \in Threads, stack'[u] # <<>>
               PROVE  Len(stack'[u]) <= IF Top(u)'.pc = "check" THEN DepthLimit + 1
                                                                ELSE DepthLimit
    BY DEF StacksBounded
  <2>1. CASE u = t
    <3>1. Len(stack[t]) - 1 <= depth /\ Len(stack[t]) \in Nat /\ depth \in Nat
      BY DepthCoversStack, TopType DEF Inv, TypeOK
    <3> QED
      BY <1>1, <2>1, <3>1, ConstantsAssumption DEF Replaced, Tested
  <2>2. CASE u # t
    BY <1>1, <2>2 DEF Inv, StackInv, StacksBounded
  <2> QED BY <2>1, <2>2
<1>4. EnteringBounded'
  <2>1. /\ Cardinality(Entering)' \in Nat
        /\ Cardinality(Entering)' <= Cardinality(Threads)
        /\ Cardinality(Threads) \in Nat
    <3>1. Entering' \in SUBSET Threads
      BY DEF Entering
    <3> QED BY <3>1, FS_Subset, FS_CardinalityType, ThreadsAssumption
  <2> QED
    BY <2>1, ConstantsAssumption DEF EnteringBounded, Inv, TypeOK
<1> QED
  BY <1>1, <1>2, <1>3, <1>4 DEF StackInv

\* A call counts itself in.
LEMMA EnterStep ==
  ASSUME Inv, NEW t \in Threads, stack[t] # <<>>, NEW f \in Calls, Replaced(t, f),
         GoodCall(f), calls' = calls, depth' = depth + 1, Tested(Top(t)), Entered(f)
  PROVE  StackInv'
<1>1. /\ OuterCallsRunHooks' /\ CallsGood' /\ StacksCounted'
      /\ stack'[t] # <<>> /\ Top(t)' = f
      /\ \A u \in Threads \ {t} : stack'[u] = stack[u] /\ Top(u)' = Top(u)
  BY ReplacedShape
<1>2. DepthCountsCascades'
  <2>1. /\ Cascades' = Cascades \cup {<<t, Len(stack[t])>>}
        /\ <<t, Len(stack[t])>> \notin Cascades
    BY MoreCascades DEF Entered, Tested
  <2>2. Cardinality(Cascades') = Cardinality(Cascades) + 1
    BY <2>1, FiniteCounts, FS_AddElement
  <2> QED
    BY <2>2 DEF Inv, StackInv, DepthCountsCascades
<1>3. StacksBounded'
  <2> SUFFICES ASSUME NEW u \in Threads, stack'[u] # <<>>
               PROVE  Len(stack'[u]) <= IF Top(u)'.pc = "check" THEN DepthLimit + 1
                                                                ELSE DepthLimit
    BY DEF StacksBounded
  <2>1. CASE u = t
    BY <1>1, <2>1 DEF Replaced, Inv, StackInv, StacksBounded, Tested, Entered
  <2>2. CASE u # t
    BY <1>1, <2>2 DEF Inv, StackInv, StacksBounded
  <2> QED BY <2>1, <2>2
<1>4. EnteringBounded'
  <2>1. Entering' = Entering \ {t} /\ t \in Entering
    <3>1. t \in Entering /\ t \notin Entering'
      BY <1>1 DEF Entering, Tested, Entered
    <3>2. \A u \in Threads \ {t} : u \in Entering' <=> u \in Entering
      BY <1>1 DEF Entering
    <3>3. Entering \in SUBSET Threads /\ Entering' \in SUBSET Threads
      BY DEF Entering
    <3> QED BY <3>1, <3>2, <3>3, Zenon
  <2>2. Cardinality(Entering') = Cardinality(Entering) - 1
    BY <2>1, FiniteCounts, FS_RemoveElement
  <2> QED
    BY <2>2, FiniteCounts, ConstantsAssumption
       DEF EnteringBounded, Inv, StackInv, TypeOK
<1> QED
  BY <1>1, <1>2, <1>3, <1>4 DEF StackInv

\* A call returns or unwinds: it drops the guard it held, if any.
LEMMA PopStep ==
  ASSUME Inv, NEW t \in Threads, stack[t] # <<>>, Popped(t), calls' = calls,
         depth' = IF Entered(Top(t)) THEN depth - 1 ELSE depth
  PROVE  StackInv'
<1> DEFINE n == Len(stack[t])
<1>1. n \in Nat \ {0} /\ n \in 1..MaxCalls
  BY StackLength
<1>2. \A u \in Threads \ {t} : stack'[u] = stack[u] /\ Top(u)' = Top(u)
  BY DEF Popped, OthersKept, Top
<1>3. stack'[t] # <<>> => n > 1 /\ Top(t)'.pc \in {"hook", "unwind"}
  <2>1. stack'[t] \in Seq(Calls) /\ Len(stack'[t]) = n - 1
    BY DEF Popped
  <2>2. stack'[t] # <<>> => n - 1 \in Nat \ {0}
    BY <2>1, EmptySeq
  <2>3. ASSUME n - 1 \in Nat \ {0} PROVE n - 1 \in 1..(n - 1) /\ n > 1
    <3> HIDE DEF n
    <3> QED BY <1>1, <2>3
  <2>4. ASSUME n - 1 \in Nat \ {0}
        PROVE  stack'[t][n - 1].pc \in {"hook", "unwind"}
    BY <2>3, <2>4 DEF Popped
  <2> QED BY <2>1, <2>2, <2>3, <2>4 DEF Top
<1>4. OuterCallsRunHooks'
  <2> SUFFICES ASSUME NEW u \in Threads, NEW i \in 1..(Len(stack'[u]) - 1)
               PROVE  stack'[u][i].pc = "hook"
    BY DEF OuterCallsRunHooks
  <2>1. CASE u = t
    BY <1>1, <2>1 DEF Popped
  <2>2. CASE u # t
    BY <1>2, <2>2 DEF Inv, StackInv, OuterCallsRunHooks
  <2> QED BY <2>1, <2>2
<1>5. StacksCounted'
  <2> SUFFICES ASSUME NEW u \in Threads PROVE Len(stack'[u]) <= calls[u]
    BY DEF StacksCounted
  <2>1. CASE u = t
    <3>1. n <= calls[t] /\ calls[t] \in Nat
      BY ConstantsAssumption DEF Inv, StackInv, StacksCounted, TypeOK
    <3> QED BY <1>1, <2>1, <3>1 DEF Popped
  <2>2. CASE u # t
    BY <1>2, <2>2 DEF Inv, StackInv, StacksCounted
  <2> QED BY <2>1, <2>2
<1>6. DepthCountsCascades'
  <2>1. /\ Cascades' = Cascades \ {<<t, n>>}
        /\ <<t, n>> \in Cascades <=> Entered(Top(t))
    BY FewerCascades
  <2>2. Cardinality(Cascades') = IF <<t, n>> \in Cascades
                                 THEN Cardinality(Cascades) - 1
                                 ELSE Cardinality(Cascades)
    BY <2>1, FiniteCounts, FS_RemoveElement
  <2> QED
    BY <2>1, <2>2 DEF Inv, StackInv, DepthCountsCascades
<1>7. StacksBounded'
  <2> SUFFICES ASSUME NEW u \in Threads, stack'[u] # <<>>
               PROVE  Len(stack'[u]) <= IF Top(u)'.pc = "check" THEN DepthLimit + 1
                                                                ELSE DepthLimit
    BY DEF StacksBounded
  <2>1. CASE u = t
    <3>1. n <= DepthLimit + 1
      BY <1>1, ConstantsAssumption DEF Inv, StackInv, StacksBounded
    <3> QED
      BY <1>1, <1>3, <2>1, <3>1, ConstantsAssumption DEF Popped
  <2>2. CASE u # t
    BY <1>2, <2>2 DEF Inv, StackInv, StacksBounded
  <2> QED BY <2>1, <2>2
<1>8. EnteringBounded'
  <2>1. Entering' \in SUBSET Entering
    <3> SUFFICES ASSUME NEW u \in Threads, stack'[u] # <<>>, Tested(Top(u)')
                 PROVE  stack[u] # <<>> /\ Tested(Top(u))
      BY DEF Entering
    <3> QED BY <1>2, <1>3 DEF Tested
  <2>2. Cardinality(Entering') <= Cardinality(Entering)
        /\ Cardinality(Entering') \in Nat
    BY <2>1, FiniteCounts, FS_Subset, FS_CardinalityType
  <2> QED
    BY <2>2, FiniteCounts, ConstantsAssumption
       DEF EnteringBounded, Inv, StackInv, TypeOK
<1>9. CallsGood'
  <2> SUFFICES ASSUME NEW u \in Threads, NEW i \in 1..Len(stack'[u])
               PROVE  GoodCall(stack'[u][i])
    BY DEF CallsGood
  <2>1. CASE u = t
    BY <1>1, <2>1 DEF Popped, GoodCall
  <2>2. CASE u # t
    BY <1>2, <2>2 DEF Inv, StackInv, CallsGood
  <2> QED BY <2>1, <2>2
<1> QED
  BY <1>4, <1>5, <1>6, <1>7, <1>8, <1>9 DEF StackInv

\* A new call on top of one that runs a hook, or on an empty stack.
LEMMA PushStep ==
  ASSUME Inv, NEW t \in Threads, NEW f \in Calls, Pushed(t, f), f.pc = "check",
         stack[t] # <<>> => Top(t).pc = "hook",
         calls' = [calls EXCEPT ![t] = @ + 1], depth' = depth
  PROVE  StackInv'
<1> DEFINE n == Len(stack[t])
<1>1. n \in Nat /\ stack[t] \in Seq(Calls) /\ stack'[t] \in Seq(Calls)
  BY LenProperties DEF Inv, TypeOK, Pushed
<1>2. \A u \in Threads \ {t} : stack'[u] = stack[u] /\ Top(u)' = Top(u)
  BY DEF Pushed, OthersKept, Top
<1>3. Top(t)' = f /\ Len(stack'[t]) = n + 1
  BY DEF Pushed, Top
<1>4. OuterCallsRunHooks'
  <2> SUFFICES ASSUME NEW u \in Threads, NEW i \in 1..(Len(stack'[u]) - 1)
               PROVE  stack'[u][i].pc = "hook"
    BY DEF OuterCallsRunHooks
  <2>1. CASE u = t
    <3>1. i \in 1..n /\ stack'[t][i] = stack[t][i]
      BY <1>1, <1>3, <2>1 DEF Pushed
    <3>2. CASE i = n
      <4>1. stack[t] # <<>>
        BY <1>1, <3>1, EmptySeq
      <4> QED BY <2>1, <3>1, <3>2, <4>1 DEF Top
    <3>3. CASE i # n
      <4>1. i \in 1..(n - 1)
        BY <1>1, <3>1, <3>3
      <4> QED BY <2>1, <3>1, <4>1 DEF Inv, StackInv, OuterCallsRunHooks
    <3> QED BY <3>2, <3>3
  <2>2. CASE u # t
    BY <1>2, <2>2 DEF Inv, StackInv, OuterCallsRunHooks
  <2> QED BY <2>1, <2>2
<1>5. StacksCounted'
  <2> SUFFICES ASSUME NEW u \in Threads PROVE Len(stack'[u]) <= calls'[u]
    BY DEF StacksCounted
  <2>1. calls \in [Threads -> Nat] /\ Len(stack[u]) <= calls[u]
    BY ConstantsAssumption DEF Inv, StackInv, StacksCounted, TypeOK
  <2>2. CASE u = t
    BY <1>1, <1>3, <2>1, <2>2
  <2>3. CASE u # t
    BY <1>2, <2>1, <2>3
  <2> QED BY <2>2, <2>3
<1>6. DepthCountsCascades'
  <2>1. Cascades' = Cascades
    BY PushedCascades DEF Entered
  <2> QED
    BY <2>1 DEF Inv, StackInv, DepthCountsCascades
<1>7. StacksBounded'
  <2> SUFFICES ASSUME NEW u \in Threads, stack'[u] # <<>>
               PROVE  Len(stack'[u]) <= IF Top(u)'.pc = "check" THEN DepthLimit + 1
                                                                ELSE DepthLimit
    BY DEF StacksBounded
  <2>1. CASE u = t
    <3>1. n <= DepthLimit
      <4>1. CASE stack[t] = <<>>
        BY <4>1, EmptySeq, ConstantsAssumption
      <4>2. CASE stack[t] # <<>>
        BY <4>2 DEF Inv, StackInv, StacksBounded
      <4> QED BY <4>1, <4>2
    <3> QED
      BY <1>1, <1>3, <2>1, <3>1, ConstantsAssumption
  <2>2. CASE u # t
    BY <1>2, <2>2 DEF Inv, StackInv, StacksBounded
  <2> QED BY <2>1, <2>2
<1>8. EnteringBounded'
  <2>1. Entering' \in SUBSET Entering
    <3> SUFFICES ASSUME NEW u \in Threads, stack'[u] # <<>>, Tested(Top(u)')
                 PROVE  stack[u] # <<>> /\ Tested(Top(u))
      BY DEF Entering
    <3> QED BY <1>2, <1>3 DEF Tested
  <2>2. Cardinality(Entering') <= Cardinality(Entering)
        /\ Cardinality(Entering') \in Nat
    BY <2>1, FiniteCounts, FS_Subset, FS_CardinalityType
  <2> QED
    BY <2>2, FiniteCounts, ConstantsAssumption
       DEF EnteringBounded, Inv, StackInv, TypeOK
<1>9. CallsGood'
  <2> SUFFICES ASSUME NEW u \in Threads, NEW i \in 1..Len(stack'[u])
               PROVE  GoodCall(stack'[u][i])
    BY DEF CallsGood
  <2>1. CASE u = t
    <3>1. CASE i = n + 1
      BY <2>1, <3>1 DEF Pushed, GoodCall
    <3>2. CASE i # n + 1
      <4>1. i \in 1..n
        BY <1>1, <1>3, <2>1, <3>2
      <4> QED BY <2>1, <4>1 DEF Pushed, Inv, StackInv, CallsGood
    <3> QED BY <3>1, <3>2
  <2>2. CASE u # t
    BY <1>2, <2>2 DEF Inv, StackInv, CallsGood
  <2> QED BY <2>1, <2>2
<1> QED
  BY <1>4, <1>5, <1>6, <1>7, <1>8, <1>9 DEF StackInv

-----------------------------------------------------------------------------
(* Every action preserves the invariant.                                    *)

\* The new, empty index satisfies the invariant.
LEMMA InitInv == Init => Inv
<1> SUFFICES ASSUME Init PROVE Inv
  OBVIOUS
<1>1. \A t \in Threads : stack[t] = <<>> /\ Len(stack[t]) = 0
  BY EmptySeq DEF Init
<1>2. TypeOK
  BY EmptySeq, ConstantsAssumption DEF Init, TypeOK
<1>3. OuterCallsRunHooks /\ CallsGood /\ StacksBounded
  BY <1>1 DEF OuterCallsRunHooks, CallsGood, StacksBounded
<1>4. StacksCounted
  BY <1>1 DEF Init, StacksCounted
<1>5. DepthCountsCascades
  <2>1. Cascades = {}
    BY <1>1 DEF Cascades
  <2> QED BY <2>1, FS_EmptySet DEF Init, DepthCountsCascades
<1>6. EnteringBounded
  <2>1. Entering = {}
    BY <1>1 DEF Entering
  <2> QED
    BY <2>1, FS_EmptySet, FiniteCounts, ConstantsAssumption
       DEF Init, EnteringBounded
<1> QED
  BY <1>2, <1>3, <1>4, <1>5, <1>6 DEF Inv, StackInv

\* A task starting a write puts an untested call on an empty stack.
LEMMA CallInv ==
  ASSUME Inv, NEW t \in Threads, Call(t) \/ HookWrite(t)
  PROVE  Inv'
<1>1. PICK f \in Calls :
        /\ f.pc = "check"
        /\ \/ stack[t] = <<>> /\ stack' = [stack EXCEPT ![t] = <<f>>]
           \/ stack' = [stack EXCEPT ![t] = Append(@, f)]
  <2>1. CASE Call(t)
    <3>1. PICK c \in Chains \cup {NoChain} :
            \E f \in Requests(Ops, Scope[t] \cup {BadPath}, c) :
              stack' = [stack EXCEPT ![t] = <<f>>]
      BY <2>1 DEF Call
    <3>2. PICK f \in Requests(Ops, Scope[t] \cup {BadPath}, c) :
            stack' = [stack EXCEPT ![t] = <<f>>]
      BY <3>1
    <3>3. Ops \in SUBSET AllOps
          /\ Scope[t] \cup {BadPath} \in SUBSET (Paths \cup {BadPath})
      BY ConstantsAssumption
    <3>4. f \in Calls /\ f.pc = "check"
      BY <3>2, <3>3, RequestType
    <3> QED BY <2>1, <3>2, <3>4 DEF Call
  <2>2. CASE HookWrite(t)
    <3>1. PICK c \in {Top(t).chain, NoChain} :
            \E f \in Requests(HookOps, HookPaths, c) :
              stack' = [stack EXCEPT ![t] = Append(@, f)]
      BY <2>2 DEF HookWrite
    <3>2. PICK f \in Requests(HookOps, HookPaths, c) :
            stack' = [stack EXCEPT ![t] = Append(@, f)]
      BY <3>1
    <3>3. c \in Chains \cup {NoChain}
      BY <2>2, TopType DEF Inv, HookWrite, At, Calls
    <3>4. HookOps \in SUBSET AllOps /\ HookPaths \in SUBSET (Paths \cup {BadPath})
      BY ConstantsAssumption
    <3>5. f \in Calls /\ f.pc = "check"
      BY <3>2, <3>3, <3>4, RequestType
    <3> QED BY <3>2, <3>5
  <2> QED BY <2>1, <2>2
<1>2. Pushed(t, f)
  BY <1>1, NewCallPushed DEF Inv
<1>3. /\ stack[t] # <<>> => Top(t).pc = "hook"
      /\ calls[t] < MaxCalls /\ calls' = [calls EXCEPT ![t] = @ + 1]
      /\ returned' = [returned EXCEPT ![t] = <<>>]
      /\ UNCHANGED <<index, depth, chainDepths, broadcast>>
  BY DEF Call, HookWrite, At
<1>4. StackInv'
  BY <1>1, <1>2, <1>3, PushStep
<1>5. TypeOK'
  <2>1. stack' \in [Threads -> Seq(Calls)]
    BY <1>2 DEF Pushed
  <2>2. calls' \in [Threads -> 0..MaxCalls]
    BY <1>3, ConstantsAssumption DEF Inv, TypeOK
  <2>3. returned' \in [Threads -> Calls \cup {<<>>}]
    BY <1>3 DEF Inv, TypeOK
  <2> QED BY <1>3, <2>1, <2>2, <2>3 DEF Inv, TypeOK
<1> QED
  BY <1>4, <1>5 DEF Inv

\* The depth test: a refused call returns, a passed one may enter later.
LEMMA CheckInv ==
  ASSUME Inv, NEW t \in Threads, Check(t)
  PROVE  Inv'
<1> DEFINE f == Top(t)
<1>1. stack[t] # <<>> /\ f \in Calls /\ f.pc = "check"
  BY TopType DEF Inv, Check, At
<1>2. CASE Refused(f) /\ Return(t, [f EXCEPT !.out = IF f.op \in {"set", "remove"}
                                         THEN "rejected" ELSE "mismatch"])
  <2> DEFINE g == [f EXCEPT !.out = IF f.op \in {"set", "remove"}
                                    THEN "rejected" ELSE "mismatch"]
  <2>1. g \in Calls
    BY <1>1 DEF Calls, Outcomes
  <2>2. Popped(t)
    BY <1>1, <1>2, ReturnPops
  <2>3. StackInv'
    BY <1>1, <2>2, PopStep DEF Check, Entered
  <2>4. TypeOK'
    BY <1>2, <2>1, <2>2 DEF Inv, TypeOK, Check, Return, Popped
  <2> QED BY <2>3, <2>4 DEF Inv
<1>3. CASE /\ ~Refused(f)
           /\ Update(t, [f EXCEPT !.pc = IF f.op = "set" THEN "read" ELSE "write"])
           /\ UNCHANGED returned
  <2> DEFINE g == [f EXCEPT !.pc = IF f.op = "set" THEN "read" ELSE "write"]
  <2>1. g \in Calls /\ Tested(g) /\ GoodCall(g)
    BY <1>1, <1>3 DEF Calls, PCs, Tested, GoodCall, Refused
  <2>2. Replaced(t, g)
    BY <1>1, <1>3, <2>1, UpdateReplaces DEF Inv
  <2>3. depth < DepthLimit
    BY <1>3, ConstantsAssumption DEF Refused, Inv, TypeOK
  <2>4. StackInv'
    <3> HIDE DEF g
    <3> QED BY <1>1, <2>1, <2>2, <2>3, PassStep DEF Check
  <2>5. TypeOK'
    BY <1>3, <2>2 DEF Inv, TypeOK, Check, Replaced
  <2> QED BY <2>4, <2>5 DEF Inv
<1> QED
  BY <1>2, <1>3 DEF Check

\* An action that only moves its innermost call on, whatever else it sets.
LEMMA MoveInv ==
  ASSUME Inv, NEW t \in Threads, stack[t] # <<>>, NEW f \in Calls, Update(t, f),
         GoodCall(f), Entered(f) <=> Entered(Top(t)),
         Tested(f) => Tested(Top(t)),
         f.pc # "check", Top(t).pc # "check", UNCHANGED <<depth, calls>>,
         index' \in [Paths -> Hashes \cup {Nil}], chainDepths' \in [Chains -> Nat],
         returned' \in [Threads -> Calls \cup {<<>>}],
         broadcast' \in [Paths -> {<<>>} \cup {<<h>> : h \in Hashes \cup {Nil}}]
  PROVE  Inv'
<1>1. Replaced(t, f)
  BY UpdateReplaces DEF Inv
<1>2. StackInv'
  BY <1>1, QuietStep
<1>3. TypeOK'
  BY <1>1 DEF Inv, TypeOK, Replaced
<1> QED
  BY <1>2, <1>3 DEF Inv

\* An action that returns from its innermost call before that call counted itself.
LEMMA DropInv ==
  ASSUME Inv, NEW t \in Threads, stack[t] # <<>>, NEW f \in Calls, Return(t, f),
         ~Entered(Top(t)), UNCHANGED <<depth, chainDepths, broadcast, calls>>,
         index' \in [Paths -> Hashes \cup {Nil}]
  PROVE  Inv'
<1>1. Popped(t)
  BY ReturnPops
<1>2. StackInv'
  BY <1>1, PopStep
<1>3. returned' \in [Threads -> Calls \cup {<<>>}]
  BY DEF Return, Inv, TypeOK
<1>4. TypeOK'
  BY <1>1, <1>3 DEF Inv, TypeOK, Popped
<1> QED
  BY <1>2, <1>4 DEF Inv

\* The innermost call of a thread, past its test.
LEMMA TopGood ==
  ASSUME Inv, NEW t \in Threads, stack[t] # <<>>
  PROVE  Top(t) \in Calls /\ GoodCall(Top(t))
BY TopType DEF Inv, StackInv, CallsGood, Top

\* set_impl reading the previous binding moves its call on.
LEMMA ReadPreviousInv ==
  ASSUME Inv, NEW t \in Threads, ReadPrevious(t)
  PROVE  Inv'
<1> DEFINE f == Top(t)
           h == index[f.path]
           g == [f EXCEPT !.prev = h, !.pc = "write"]
<1>1. stack[t] # <<>> /\ f \in Calls /\ f.pc = "read" /\ f.path \in Paths
  BY TopGood DEF ReadPrevious, At, GoodCall
<1>2. h \in Hashes \cup {Nil}
  BY <1>1 DEF Inv, TypeOK
<1>3. g \in Calls /\ g.pc = "write" /\ g.path = f.path
  <2> HIDE DEF h
  <2> QED BY <1>1, <1>2 DEF Calls, PCs
<1>4. Update(t, g) /\ UNCHANGED <<index, depth, chainDepths, returned, broadcast, calls>>
  BY DEF ReadPrevious
<1> QED
  <2> HIDE DEF g
  <2> QED BY <1>1, <1>3, <1>4, MoveInv DEF Inv, TypeOK, Entered, Tested, GoodCall

\* The mutation: the call goes on to count itself in, or returns.
LEMMA WriteInv ==
  ASSUME Inv, NEW t \in Threads, Write(t)
  PROVE  Inv'
<1> DEFINE f == Top(t)
           cur == index[f.path]
<1>1. stack[t] # <<>> /\ f \in Calls /\ f.pc = "write" /\ f.path \in Paths
  BY TopGood DEF Write, At, GoodCall
<1>2. cur \in Hashes \cup {Nil} /\ index \in [Paths -> Hashes \cup {Nil}]
  BY <1>1 DEF Inv, TypeOK
<1>3. UNCHANGED <<depth, chainDepths, broadcast, calls>>
  BY DEF Write
<1>4. index' \in [Paths -> Hashes \cup {Nil}]
  <2>1. f.hash \in Hashes \cup {Nil}
    BY <1>1 DEF Calls
  <2>2. index' = index \/ (\E v \in Hashes \cup {Nil} :
                             index' = [index EXCEPT ![f.path] = v])
    <3>1. CASE WriteSet(t, f)
      BY <2>1, <3>1 DEF WriteSet
    <3>2. CASE WriteCas(t, f)
      BY <2>1, <3>2 DEF WriteCas
    <3>3. CASE WriteRemove(t, f)
      BY <3>3 DEF WriteRemove
    <3> QED BY <3>1, <3>2, <3>3 DEF Write
  <2> QED BY <1>1, <1>2, <2>2
<1>5. \E g \in Calls : \/ Return(t, g)
                       \/ /\ Update(t, g) /\ UNCHANGED returned
                          /\ g.pc = "enter" /\ g.path = f.path
  <2>1. CASE WriteSet(t, f)
    <3> DEFINE g == [f EXCEPT !.was = cur, !.wrote = TRUE]
    <3>1. g \in Calls /\ g.path = f.path
      <4> HIDE DEF cur
      <4> QED BY <1>1, <1>2 DEF Calls
    <3>2. /\ [g EXCEPT !.out = "noop"] \in Calls
          /\ [g EXCEPT !.pc = "enter"] \in Calls
          /\ [g EXCEPT !.pc = "enter"].pc = "enter"
          /\ [g EXCEPT !.pc = "enter"].path = f.path
      <4> HIDE DEF g
      <4> QED BY <3>1 DEF Calls, Outcomes, PCs
    <3>3. \/ Return(t, [g EXCEPT !.out = "noop"])
          \/ Update(t, [g EXCEPT !.pc = "enter"]) /\ UNCHANGED returned
      BY <2>1 DEF WriteSet
    <3> QED
      <4> HIDE DEF g
      <4> QED BY <3>2, <3>3
  <2>2. CASE WriteCas(t, f)
    <3> DEFINE g == [f EXCEPT !.was = cur, !.wrote = TRUE, !.prev = f.exp]
    <3>1. g \in Calls /\ g.path = f.path
      <4> HIDE DEF cur
      <4> QED BY <1>1, <1>2 DEF Calls
    <3>2. /\ [g EXCEPT !.out = "noop"] \in Calls
          /\ [g EXCEPT !.pc = "enter"] \in Calls
          /\ [g EXCEPT !.pc = "enter"].pc = "enter"
          /\ [g EXCEPT !.pc = "enter"].path = f.path
      <4> HIDE DEF g
      <4> QED BY <3>1 DEF Calls, Outcomes, PCs
    <3>3. [f EXCEPT !.out = IF cur = Nil THEN "notfound" ELSE "mismatch"] \in Calls
      BY <1>1 DEF Calls, Outcomes
    <3>4. \/ Return(t, [f EXCEPT !.out = IF cur = Nil THEN "notfound" ELSE "mismatch"])
          \/ Return(t, [g EXCEPT !.out = "noop"])
          \/ Update(t, [g EXCEPT !.pc = "enter"]) /\ UNCHANGED returned
      BY <2>2 DEF WriteCas
    <3> QED
      <4> HIDE DEF g
      <4> QED BY <3>2, <3>3, <3>4
  <2>3. CASE WriteRemove(t, f)
    <3> DEFINE g == [f EXCEPT !.was = cur, !.wrote = TRUE, !.prev = cur]
    <3>1. g \in Calls /\ g.path = f.path
      <4> HIDE DEF cur
      <4> QED BY <1>1, <1>2 DEF Calls
    <3>2. /\ [g EXCEPT !.pc = "enter"] \in Calls
          /\ [g EXCEPT !.pc = "enter"].pc = "enter"
          /\ [g EXCEPT !.pc = "enter"].path = f.path
      <4> HIDE DEF g
      <4> QED BY <3>1 DEF Calls, PCs
    <3>3. [f EXCEPT !.out = "noop"] \in Calls
      BY <1>1 DEF Calls, Outcomes
    <3>4. \/ Return(t, [f EXCEPT !.out = "noop"])
          \/ Update(t, [g EXCEPT !.pc = "enter"]) /\ UNCHANGED returned
      BY <2>3 DEF WriteRemove
    <3> QED
      <4> HIDE DEF g
      <4> QED BY <3>2, <3>3, <3>4
  <2> QED BY <2>1, <2>2, <2>3 DEF Write
<1>6. PICK g \in Calls : \/ Return(t, g)
                         \/ /\ Update(t, g) /\ UNCHANGED returned
                            /\ g.pc = "enter" /\ g.path = f.path
  BY <1>5
<1>7. CASE Return(t, g)
  BY <1>1, <1>3, <1>4, <1>7, DropInv DEF Entered
<1>8. CASE Update(t, g) /\ UNCHANGED returned /\ g.pc = "enter" /\ g.path = f.path
  BY <1>1, <1>3, <1>4, <1>8, MoveInv DEF Inv, TypeOK, Entered, Tested, GoodCall
<1> QED
  BY <1>6, <1>7, <1>8

\* dispatch_event's increment counts exactly the call that enters.
LEMMA EnterInv ==
  ASSUME Inv, NEW t \in Threads, Enter(t)
  PROVE  Inv'
<1> DEFINE f == Top(t)
           g == [f EXCEPT !.pc = "stamp"]
<1>1. stack[t] # <<>> /\ f \in Calls /\ f.pc = "enter" /\ f.path \in Paths
  BY TopGood DEF Enter, At, GoodCall
<1>2. g \in Calls /\ g.pc = "stamp" /\ g.path = f.path
  BY <1>1 DEF Calls, PCs
<1>3. Update(t, g) /\ depth' = depth + 1
      /\ UNCHANGED <<index, chainDepths, returned, broadcast, calls>>
  BY DEF Enter
<1> HIDE DEF g
<1>4. Replaced(t, g)
  BY <1>1, <1>2, <1>3, UpdateReplaces DEF Inv
<1>5. StackInv'
  BY <1>1, <1>2, <1>3, <1>4, EnterStep DEF Entered, Tested, GoodCall
<1>6. TypeOK'
  BY <1>3, <1>4 DEF Inv, TypeOK, Replaced
<1> QED
  BY <1>5, <1>6 DEF Inv

\* Reading cascade_depth back into the context changes no counter.
LEMMA StampInv ==
  ASSUME Inv, NEW t \in Threads, Stamp(t)
  PROVE  Inv'
<1> DEFINE f == Top(t)
           g == [f EXCEPT !.stamp = depth,
                          !.pc = IF f.chain = NoChain THEN "hook" ELSE "chain"]
<1>1. stack[t] # <<>> /\ f \in Calls /\ f.pc = "stamp" /\ f.path \in Paths
  BY TopGood DEF Stamp, At, GoodCall
<1>2. depth \in Nat
  BY DEF Inv, TypeOK
<1>3. /\ g \in Calls /\ g.pc \in {"hook", "chain"} /\ g.path = f.path
      /\ g.pc = "chain" => g.chain # NoChain
  BY <1>1, <1>2 DEF Calls, PCs
<1>4. Update(t, g) /\ UNCHANGED <<index, depth, chainDepths, returned, broadcast, calls>>
  BY DEF Stamp
<1> HIDE DEF g
<1> QED
  BY <1>1, <1>3, <1>4, MoveInv DEF Inv, TypeOK, Entered, Tested, GoodCall

\* The chain test keeps the guard, whether it rejects the cascade or not.
LEMMA ChainCheckInv ==
  ASSUME Inv, NEW t \in Threads, ChainCheck(t)
  PROVE  Inv'
<1> DEFINE f == Top(t)
           total == chainDepths[f.chain] + f.stamp
           g1 == [f EXCEPT !.pc = "leave", !.out = "chain_rejected"]
           g2 == [f EXCEPT !.pc = "hook"]
<1>1. /\ stack[t] # <<>> /\ f \in Calls /\ f.pc = "chain" /\ f.path \in Paths
      /\ f.chain # NoChain
  BY TopGood DEF ChainCheck, At, GoodCall
<1>2. f.chain \in Chains /\ f.stamp \in Nat /\ chainDepths \in [Chains -> Nat]
  BY <1>1 DEF Calls, Inv, TypeOK
<1>3. /\ g1 \in Calls /\ g1.pc = "leave" /\ g1.path = f.path
      /\ g2 \in Calls /\ g2.pc = "hook" /\ g2.path = f.path
  BY <1>1 DEF Calls, PCs, Outcomes
<1>4. /\ \/ Update(t, g1) /\ UNCHANGED chainDepths
         \/ Update(t, g2) /\ chainDepths' = [chainDepths EXCEPT ![f.chain] = total]
      /\ UNCHANGED <<index, depth, returned, broadcast, calls>>
  BY DEF ChainCheck
<1>5. chainDepths' \in [Chains -> Nat]
  BY <1>2, <1>4
<1>6. PICK g \in {g1, g2} : Update(t, g)
  BY <1>4
<1>7. g \in Calls /\ g.pc \in {"leave", "hook"} /\ g.path = f.path
  BY <1>3
<1> QED
  BY <1>1, <1>4, <1>5, <1>6, <1>7, MoveInv
     DEF Inv, TypeOK, Entered, Tested, GoodCall

\* A hook returns, halts or panics, or the change is announced.
LEMMA HookInv ==
  ASSUME Inv, NEW t \in Threads,
         HookOk(t) \/ HookHalt(t) \/ HookPanic(t) \/ Emit(t)
  PROVE  Inv'
<1> DEFINE f == Top(t)
<1>1. stack[t] # <<>> /\ f \in Calls /\ f.pc = "hook" /\ f.path \in Paths
  BY TopGood DEF HookOk, HookHalt, HookPanic, Emit, At, GoodCall
<1>2. \E g \in Calls : /\ Update(t, g)
                       /\ g.pc \in {"hook", "leave", "unwind"} /\ g.path = f.path
  <2>1. CASE HookOk(t)
    <3> DEFINE g == [f EXCEPT !.hook = @ + 1]
    <3>1. f.hook \in 1..(NumHooks + 1) /\ f.hook <= NumHooks
      BY <1>1, <2>1 DEF Calls, HookOk
    <3>2. f.hook + 1 \in 1..(NumHooks + 1)
      BY <3>1, ConstantsAssumption
    <3>3. g \in Calls /\ g.pc = "hook" /\ g.path = f.path
      BY <1>1, <3>2 DEF Calls
    <3> QED BY <2>1, <3>3 DEF HookOk
  <2>2. CASE HookHalt(t)
    <3> DEFINE g == [f EXCEPT !.pc = "leave", !.out = "halted"]
    <3>1. g \in Calls /\ g.pc = "leave" /\ g.path = f.path
      BY <1>1 DEF Calls, PCs, Outcomes
    <3> QED BY <2>2, <3>1 DEF HookHalt
  <2>3. CASE HookPanic(t)
    <3> DEFINE g == [f EXCEPT !.pc = "unwind"]
    <3>1. g \in Calls /\ g.pc = "unwind" /\ g.path = f.path
      BY <1>1 DEF Calls, PCs
    <3> QED BY <2>3, <3>1 DEF HookPanic
  <2>4. CASE Emit(t)
    <3> DEFINE g == [f EXCEPT !.pc = "leave", !.out = "complete"]
    <3>1. g \in Calls /\ g.pc = "leave" /\ g.path = f.path
      BY <1>1 DEF Calls, PCs, Outcomes
    <3> QED BY <2>4, <3>1 DEF Emit
  <2> QED BY <2>1, <2>2, <2>3, <2>4
<1>3. PICK g \in Calls : /\ Update(t, g)
                         /\ g.pc \in {"hook", "leave", "unwind"} /\ g.path = f.path
  BY <1>2
<1>4. broadcast' \in [Paths -> {<<>>} \cup {<<h>> : h \in Hashes \cup {Nil}}]
  <2>1. CASE broadcast' = broadcast
    BY <2>1 DEF Inv, TypeOK
  <2>2. CASE broadcast' = [broadcast EXCEPT ![f.path] = <<f.hash>>]
    <3>1. f.hash \in Hashes \cup {Nil}
      BY <1>1 DEF Calls
    <3> QED BY <1>1, <2>2, <3>1 DEF Inv, TypeOK
  <2> QED BY <2>1, <2>2 DEF HookOk, HookHalt, HookPanic, Emit
<1>5. UNCHANGED <<index, depth, chainDepths, returned, calls>>
  BY DEF HookOk, HookHalt, HookPanic, Emit
<1> QED
  BY <1>1, <1>3, <1>4, <1>5, MoveInv DEF Inv, TypeOK, Entered, Tested, GoodCall

\* The guard drops, in return or in a panic.
LEMMA LeaveInv ==
  ASSUME Inv, NEW t \in Threads, Leave(t) \/ Unwind(t)
  PROVE  Inv'
<1>1. stack[t] # <<>> /\ Top(t) \in Calls /\ Entered(Top(t))
  BY TopGood DEF Leave, Unwind, At, Entered
<1>2. Popped(t)
  BY <1>1, ReturnPops, UnwindPops DEF Leave
<1>3. depth' = depth - 1 /\ UNCHANGED <<index, chainDepths, broadcast, calls>>
  BY DEF Leave, Unwind
<1>4. StackInv'
  BY <1>1, <1>2, <1>3, PopStep
<1>5. depth' \in Nat
  <2>1. <<t, Len(stack[t])>> \in Cascades
    BY <1>1, <1>2, FewerCascades
  <2>2. Cardinality(Cascades) # 0 /\ Cardinality(Cascades) \in Nat
    BY <2>1, FiniteCounts, FS_EmptySet
  <2> QED BY <1>3, <2>2 DEF Inv, StackInv, DepthCountsCascades
<1>6. returned' \in [Threads -> Calls \cup {<<>>}]
  BY <1>1 DEF Leave, Unwind, Return, Inv, TypeOK
<1>7. TypeOK'
  BY <1>2, <1>3, <1>5, <1>6 DEF Inv, TypeOK, Popped
<1> QED
  BY <1>4, <1>7 DEF Inv

\* Every step of the dispatcher preserves the invariant.
LEMMA NextInv ==
  ASSUME Inv, [Next]_vars
  PROVE  Inv'
<1>1. CASE UNCHANGED vars
  BY <1>1 DEF vars, Inv, TypeOK, StackInv, OuterCallsRunHooks, CallsGood,
              StacksCounted, DepthCountsCascades, Cascades, StacksBounded,
              EnteringBounded, Entering, Top
<1>2. ASSUME NEW t \in Threads, Call(t) \/ Step(t)
      PROVE  Inv'
  BY <1>2, CallInv, CheckInv, ReadPreviousInv, WriteInv, EnterInv, StampInv,
     ChainCheckInv, HookInv, LeaveInv DEF Step
<1> QED
  BY <1>1, <1>2 DEF Next

-----------------------------------------------------------------------------
(* The theorems.                                                            *)

\* The inductive invariant holds in every reachable state of the dispatcher.
THEOREM Invariance == Spec => []Inv
<1>1. Inv /\ [Next]_vars => Inv'
  BY NextInv
<1> QED
  BY <1>1, InitInv, PTL DEF Spec

\* The index, the counters and the call stacks always have their types.  In
\* particular the unsigned counter cascade_depth never goes below zero, although
\* every way a cascade can end decrements it.
THEOREM TypeCorrect == Spec => []TypeOK
<1>1. Inv => TypeOK
  BY DEF Inv
<1> QED
  BY <1>1, Invariance, PTL

\* cascade_depth is exactly the number of cascades in progress: the CascadeGuard
\* of core/store counts every one out once, whether its hooks complete, halt,
\* reject the chain or panic.
THEOREM DepthExact == Spec => []DepthCountsCascades
<1>1. Inv => DepthCountsCascades
  BY DEF Inv, StackInv
<1> QED
  BY <1>1, Invariance, PTL

\* Hooks that write recurse at most CASCADE_DEPTH_LIMIT deep on their thread.
THEOREM RecursionBounded == Spec => []NestingBounded
<1>1. Inv => NestingBounded
  BY DEF Inv, StackInv, StacksBounded, NestingBounded
<1> QED
  BY <1>1, Invariance, PTL

\* The counter passes the limit by at most one cascade per other thread, although
\* the depth test and the increment are separate acquisitions of its lock.
THEOREM OvershootLimited == Spec => []OvershootBounded
<1>1. Inv => OvershootBounded
  BY FiniteCounts, ConstantsAssumption
     DEF Inv, StackInv, TypeOK, EnteringBounded, OvershootBounded
<1> QED
  BY <1>1, Invariance, PTL

-----------------------------------------------------------------------------
(* What a step does to the innermost call of its thread, and to the index.  *)

Past(f) == f.pc = "enter" \/ Entered(f)

\* The call moves on to g.
Moved(t, g) ==
  LET f == Top(t) IN
  /\ stack[t] # <<>> /\ Replaced(t, g) /\ UNCHANGED returned
  /\ g.op = f.op /\ g.path = f.path /\ g.hash = f.hash

\* It is tested, or reads the binding it will replace.
Tries(t, g) ==
  LET f == Top(t) IN
  /\ Moved(t, g) /\ UNCHANGED <<index, broadcast>>
  /\ g.wrote = f.wrote /\ g.out = f.out
  /\ \/ f.pc = "check" /\ g.pc \in {"read", "write"} /\ (g.pc = "write" => g.op # "set")
     \/ f.pc = "read" /\ g.pc = "write" /\ g.prev = index[f.path]

\* It writes.
Writes(t, g) ==
  LET f == Top(t) IN
  /\ Moved(t, g) /\ UNCHANGED broadcast
  /\ f.pc = "write" /\ g.pc = "enter" /\ g.out = f.out
  /\ index' = [index EXCEPT ![f.path] = IF f.op = "remove" THEN Nil ELSE f.hash]
  /\ g.was = index[f.path]
  /\ g.prev = g.was \/ (f.op = "set" /\ g.prev = f.prev)

\* Its cascade goes on.
Cascading(t, g) ==
  LET f == Top(t) IN
  /\ Moved(t, g) /\ UNCHANGED index
  /\ f.pc \in {"enter", "stamp", "chain", "hook"} /\ Entered(g)
  /\ g.prev = f.prev /\ g.was = f.was
  /\ \/ UNCHANGED broadcast /\ g.out \in {f.out, "halted", "chain_rejected"}
     \/ /\ broadcast' = [broadcast EXCEPT ![f.path] = <<f.hash>>]
        /\ g.out = "complete" /\ g.pc = "leave"

\* It returns without a cascade.
Refuses(t, g) ==
  LET f == Top(t) IN
  /\ stack[t] # <<>> /\ Popped(t) /\ returned' = [returned EXCEPT ![t] = g]
  /\ UNCHANGED broadcast /\ g.out # "complete"
  /\ \/ UNCHANGED index /\ f.pc \in {"check", "write"} /\ g.wrote = f.wrote
     \/ /\ f.pc = "write" /\ index' = [index EXCEPT ![f.path] = f.hash]
        /\ \/ g.was = g.hash
           \/ f.op = "set" /\ f.prev = g.hash /\ g.was = index[f.path]

\* Its guard drops, and it returns or unwinds.
Ends(t) ==
  /\ stack[t] # <<>> /\ Popped(t) /\ UNCHANGED <<index, broadcast>>
  /\ \/ Top(t).pc = "leave" /\ returned' = [returned EXCEPT ![t] = Top(t)]
     \/ returned' = [returned EXCEPT ![t] = <<>>]

\* A new call.
Begins(t, f) ==
  /\ Pushed(t, f) /\ UNCHANGED <<index, broadcast>>
  /\ returned' = [returned EXCEPT ![t] = <<>>]
  /\ f.pc = "check" /\ ~f.wrote /\ f.out = "running" /\ (f.op = "remove" => f.hash = Nil)
  /\ IF stack[t] = <<>> THEN f.path \in Scope[t] \cup {BadPath} /\ f.op \in Ops
     ELSE f.path \in HookPaths /\ f.op \in HookOps

\* Requests have the path and operation they were asked for.
LEMMA RequestShape ==
  ASSUME NEW ops, NEW ps, NEW c, NEW f \in Requests(ops, ps, c)
  PROVE  /\ f.op \in ops /\ f.path \in ps /\ ~f.wrote /\ f.out = "running"
         /\ f.op = "remove" => f.hash = Nil
<1>1. CASE f \in {NewCall(op, p, h, e, c) :
                   op \in ops \ {"cas_remove", "remove"}, p \in ps,
                   h \in Hashes, e \in Hashes \cup {Nil}}
  <2>1. PICK op \in ops \ {"cas_remove", "remove"}, p \in ps, h \in Hashes,
             e \in Hashes \cup {Nil} : f = NewCall(op, p, h, e, c)
    BY <1>1
  <2> QED BY <2>1 DEF NewCall
<1>2. CASE f \in {NewCall(op, p, Nil, e, c) :
                   op \in ops \cap {"cas_remove", "remove"},
                   p \in ps, e \in Hashes \cup {Nil}}
  <2>1. PICK op \in ops \cap {"cas_remove", "remove"}, p \in ps,
             e \in Hashes \cup {Nil} : f = NewCall(op, p, Nil, e, c)
    BY <1>2
  <2> QED BY <2>1 DEF NewCall
<1> QED
  BY <1>1, <1>2 DEF Requests

LEMMA CallShape ==
  ASSUME Inv, NEW t \in Threads, Call(t) \/ HookWrite(t)
  PROVE  \E f : Begins(t, f)
<1>1. UNCHANGED <<index, broadcast>> /\ returned' = [returned EXCEPT ![t] = <<>>]
  BY DEF Call, HookWrite
<1>2. CASE Call(t)
  <2>1. PICK c \in Chains \cup {NoChain} :
          \E f \in Requests(Ops, Scope[t] \cup {BadPath}, c) :
            stack' = [stack EXCEPT ![t] = <<f>>]
    BY <1>2 DEF Call
  <2>2. PICK f \in Requests(Ops, Scope[t] \cup {BadPath}, c) :
          stack' = [stack EXCEPT ![t] = <<f>>]
    BY <2>1
  <2>3. Ops \in SUBSET AllOps
        /\ Scope[t] \cup {BadPath} \in SUBSET (Paths \cup {BadPath})
    BY ConstantsAssumption
  <2>4. f \in Calls /\ f.pc = "check"
    BY <2>2, <2>3, RequestType
  <2>5. stack[t] = <<>> /\ Pushed(t, f)
    BY <1>2, <2>2, <2>4, NewCallPushed DEF Inv, Call
  <2>6. /\ f.op \in Ops /\ f.path \in Scope[t] \cup {BadPath}
        /\ ~f.wrote /\ f.out = "running" /\ (f.op = "remove" => f.hash = Nil)
    BY <2>2, RequestShape
  <2> QED BY <1>1, <2>4, <2>5, <2>6 DEF Begins
<1>3. CASE HookWrite(t)
  <2>1. PICK c \in {Top(t).chain, NoChain} :
          \E f \in Requests(HookOps, HookPaths, c) :
            stack' = [stack EXCEPT ![t] = Append(@, f)]
    BY <1>3 DEF HookWrite
  <2>2. PICK f \in Requests(HookOps, HookPaths, c) :
          stack' = [stack EXCEPT ![t] = Append(@, f)]
    BY <2>1
  <2>3. c \in Chains \cup {NoChain}
    BY <1>3, TopType DEF Inv, HookWrite, At, Calls
  <2>4. HookOps \in SUBSET AllOps /\ HookPaths \in SUBSET (Paths \cup {BadPath})
    BY ConstantsAssumption
  <2>5. f \in Calls /\ f.pc = "check"
    BY <2>2, <2>3, <2>4, RequestType
  <2>6. stack[t] # <<>> /\ Pushed(t, f)
    BY <1>3, <2>2, <2>5, NewCallPushed DEF Inv, HookWrite, At
  <2>7. /\ f.op \in HookOps /\ f.path \in HookPaths
        /\ ~f.wrote /\ f.out = "running" /\ (f.op = "remove" => f.hash = Nil)
    BY <2>2, RequestShape
  <2> QED BY <1>1, <2>5, <2>6, <2>7 DEF Begins
<1> QED
  BY <1>2, <1>3

LEMMA CheckShape ==
  ASSUME Inv, NEW t \in Threads, Check(t)
  PROVE  \E g : Tries(t, g) \/ Refuses(t, g)
<1> DEFINE f == Top(t)
<1>1. stack[t] # <<>> /\ f \in Calls /\ f.pc = "check"
  BY TopType DEF Inv, Check, At
<1>2. UNCHANGED <<index, broadcast>>
  BY DEF Check
<1>3. CASE Return(t, [f EXCEPT !.out = IF f.op \in {"set", "remove"}
                                       THEN "rejected" ELSE "mismatch"])
  <2> DEFINE g == [f EXCEPT !.out = IF f.op \in {"set", "remove"}
                                    THEN "rejected" ELSE "mismatch"]
  <2>1. g.out # "complete" /\ g.wrote = f.wrote
    BY <1>1 DEF Calls
  <2>2. Popped(t)
    BY <1>1, <1>3, ReturnPops
  <2>3. returned' = [returned EXCEPT ![t] = g]
    BY <1>3 DEF Return
  <2> HIDE DEF g
  <2> QED BY <1>1, <1>2, <2>1, <2>2, <2>3 DEF Refuses
<1>4. CASE /\ Update(t, [f EXCEPT !.pc = IF f.op = "set" THEN "read" ELSE "write"])
           /\ UNCHANGED returned
  <2> DEFINE g == [f EXCEPT !.pc = IF f.op = "set" THEN "read" ELSE "write"]
  <2>1. /\ g \in Calls /\ g.op = f.op /\ g.path = f.path /\ g.hash = f.hash
        /\ g.wrote = f.wrote /\ g.out = f.out
        /\ g.pc \in {"read", "write"} /\ (g.pc = "write" => g.op # "set")
    BY <1>1 DEF Calls, PCs
  <2>2. Replaced(t, g)
    BY <1>1, <1>4, <2>1, UpdateReplaces DEF Inv
  <2> HIDE DEF g
  <2> QED BY <1>1, <1>2, <1>4, <2>1, <2>2 DEF Tries, Moved
<1> QED
  BY <1>3, <1>4 DEF Check

LEMMA ReadShape ==
  ASSUME Inv, NEW t \in Threads, ReadPrevious(t)
  PROVE  \E g : Tries(t, g)
<1> DEFINE f == Top(t)
           h == index[f.path]
           g == [f EXCEPT !.prev = h, !.pc = "write"]
<1>1. stack[t] # <<>> /\ f \in Calls /\ f.pc = "read" /\ f.path \in Paths
  BY TopGood DEF ReadPrevious, At, GoodCall
<1>2. h \in Hashes \cup {Nil}
  BY <1>1 DEF Inv, TypeOK
<1>3. /\ g \in Calls /\ g.op = f.op /\ g.path = f.path /\ g.hash = f.hash
      /\ g.wrote = f.wrote /\ g.out = f.out /\ g.pc = "write" /\ g.prev = h
  <2> HIDE DEF h
  <2> QED BY <1>1, <1>2 DEF Calls, PCs
<1>4. Update(t, g) /\ UNCHANGED <<index, returned, broadcast>>
  BY DEF ReadPrevious
<1> HIDE DEF g
<1>5. Replaced(t, g)
  BY <1>1, <1>3, <1>4, UpdateReplaces DEF Inv
<1> QED
  BY <1>1, <1>3, <1>4, <1>5 DEF Tries, Moved

LEMMA WriteShape ==
  ASSUME Inv, NEW t \in Threads, Write(t)
  PROVE  \E g : Writes(t, g) \/ Refuses(t, g)
<1> DEFINE f == Top(t)
           cur == index[f.path]
<1>1. stack[t] # <<>> /\ f \in Calls /\ f.pc = "write" /\ f.path \in Paths
  BY TopGood DEF Write, At, GoodCall
<1>2. cur \in Hashes \cup {Nil}
  BY <1>1 DEF Inv, TypeOK
<1>3. UNCHANGED broadcast
  BY DEF Write
<1>4. ASSUME NEW g \in Calls, Update(t, g) PROVE Replaced(t, g)
  BY <1>1, <1>4, UpdateReplaces DEF Inv
<1>5. ASSUME NEW g, Return(t, g)
      PROVE  Popped(t) /\ returned' = [returned EXCEPT ![t] = g]
  BY <1>1, <1>5, ReturnPops DEF Return
<1>6. CASE f.op = "set" /\ WriteSet(t, f)
  <2> DEFINE g0 == [f EXCEPT !.was = cur, !.wrote = TRUE]
             g1 == [g0 EXCEPT !.out = "noop"]
             g2 == [g0 EXCEPT !.pc = "enter"]
  <2>0. /\ g0 \in Calls /\ g0.op = f.op /\ g0.path = f.path /\ g0.hash = f.hash
        /\ g0.prev = f.prev /\ g0.was = cur /\ g0.out = f.out
    <3> HIDE DEF cur
    <3> QED BY <1>1, <1>2 DEF Calls
  <2>1. /\ g1.hash = f.hash /\ g1.was = cur /\ g1.out = "noop"
        /\ g2 \in Calls /\ g2.op = f.op /\ g2.path = f.path /\ g2.hash = f.hash
        /\ g2.prev = f.prev /\ g2.was = cur /\ g2.out = f.out /\ g2.pc = "enter"
    <3> HIDE DEF g0
    <3> QED BY <2>0 DEF Calls, PCs
  <2>2. /\ index' = [index EXCEPT ![f.path] = f.hash]
        /\ \/ f.prev = f.hash /\ Return(t, g1)
           \/ Update(t, g2) /\ UNCHANGED returned
    BY <1>6 DEF WriteSet
  <2> HIDE DEF g1, g2
  <2>3. CASE f.prev = f.hash /\ Return(t, g1)
    <3>1. Refuses(t, g1)
      BY <1>1, <1>3, <1>5, <1>6, <2>1, <2>2, <2>3 DEF Refuses
    <3> QED BY <3>1
  <2>4. CASE Update(t, g2) /\ UNCHANGED returned
    <3>1. Writes(t, g2)
      BY <1>1, <1>3, <1>4, <1>6, <2>1, <2>2, <2>4 DEF Writes, Moved
    <3> QED BY <3>1
  <2> QED BY <2>2, <2>3, <2>4
<1>7. CASE f.op \in {"swap", "create", "cas_remove"} /\ WriteCas(t, f)
  <2> DEFINE g0 == [f EXCEPT !.was = cur, !.wrote = TRUE, !.prev = f.exp]
             g1 == [g0 EXCEPT !.out = "noop"]
             g2 == [g0 EXCEPT !.pc = "enter"]
             g3 == [f EXCEPT !.out = IF cur = Nil THEN "notfound" ELSE "mismatch"]
  <2>0. /\ g0 \in Calls /\ g0.op = f.op /\ g0.path = f.path /\ g0.hash = f.hash
        /\ g0.prev = f.exp /\ g0.was = cur /\ g0.out = f.out
    <3> HIDE DEF cur
    <3> QED BY <1>1, <1>2 DEF Calls
  <2>1. /\ g1.hash = f.hash /\ g1.was = cur /\ g1.out = "noop"
        /\ g2 \in Calls /\ g2.op = f.op /\ g2.path = f.path /\ g2.hash = f.hash
        /\ g2.prev = f.exp /\ g2.was = cur /\ g2.out = f.out /\ g2.pc = "enter"
    <3> HIDE DEF g0
    <3> QED BY <2>0 DEF Calls, PCs
  <2>2. g3.out # "complete" /\ g3.wrote = f.wrote
    BY <1>1 DEF Calls
  <2>3. \/ Return(t, g3) /\ UNCHANGED index
        \/ /\ cur = f.exp /\ index' = [index EXCEPT ![f.path] = f.hash]
           /\ f.exp = f.hash /\ Return(t, g1)
        \/ /\ cur = f.exp /\ index' = [index EXCEPT ![f.path] = f.hash]
           /\ Update(t, g2) /\ UNCHANGED returned
    BY <1>7 DEF WriteCas
  <2> HIDE DEF g1, g2, g3
  <2>4. CASE Return(t, g3) /\ UNCHANGED index
    <3>1. Refuses(t, g3)
      BY <1>1, <1>3, <1>5, <2>2, <2>4 DEF Refuses
    <3> QED BY <3>1
  <2>5. CASE /\ cur = f.exp /\ index' = [index EXCEPT ![f.path] = f.hash]
             /\ f.exp = f.hash /\ Return(t, g1)
    <3>1. Refuses(t, g1)
      BY <1>1, <1>3, <1>5, <2>1, <2>5 DEF Refuses
    <3> QED BY <3>1
  <2>6. CASE /\ cur = f.exp /\ index' = [index EXCEPT ![f.path] = f.hash]
             /\ Update(t, g2) /\ UNCHANGED returned
    <3>1. Writes(t, g2)
      BY <1>1, <1>3, <1>4, <1>7, <2>1, <2>6 DEF Writes, Moved
    <3> QED BY <3>1
  <2> QED BY <2>3, <2>4, <2>5, <2>6
<1>8. CASE f.op = "remove" /\ WriteRemove(t, f)
  <2> DEFINE g0 == [f EXCEPT !.was = cur, !.wrote = TRUE, !.prev = cur]
             g1 == [f EXCEPT !.out = "noop"]
             g2 == [g0 EXCEPT !.pc = "enter"]
  <2>0. /\ g0 \in Calls /\ g0.op = f.op /\ g0.path = f.path /\ g0.hash = f.hash
        /\ g0.prev = cur /\ g0.was = cur /\ g0.out = f.out
    <3> HIDE DEF cur
    <3> QED BY <1>1, <1>2 DEF Calls
  <2>1. /\ g2 \in Calls /\ g2.op = f.op /\ g2.path = f.path /\ g2.hash = f.hash
        /\ g2.prev = cur /\ g2.was = cur /\ g2.out = f.out /\ g2.pc = "enter"
    <3> HIDE DEF g0
    <3> QED BY <2>0 DEF Calls, PCs
  <2>2. g1.out # "complete" /\ g1.wrote = f.wrote
    BY <1>1 DEF Calls
  <2>3. \/ Return(t, g1) /\ UNCHANGED index
        \/ /\ index' = [index EXCEPT ![f.path] = Nil]
           /\ Update(t, g2) /\ UNCHANGED returned
    BY <1>8 DEF WriteRemove
  <2> HIDE DEF g1, g2
  <2>4. CASE Return(t, g1) /\ UNCHANGED index
    <3>1. Refuses(t, g1)
      BY <1>1, <1>3, <1>5, <2>2, <2>4 DEF Refuses
    <3> QED BY <3>1
  <2>5. CASE /\ index' = [index EXCEPT ![f.path] = Nil]
             /\ Update(t, g2) /\ UNCHANGED returned
    <3>1. Writes(t, g2)
      BY <1>1, <1>3, <1>4, <1>8, <2>1, <2>5 DEF Writes, Moved
    <3> QED BY <3>1
  <2> QED BY <2>3, <2>4, <2>5
<1> QED
  BY <1>6, <1>7, <1>8 DEF Write

LEMMA CascadeShape ==
  ASSUME Inv, NEW t \in Threads,
         \/ Enter(t) \/ Stamp(t) \/ ChainCheck(t)
         \/ HookOk(t) \/ HookHalt(t) \/ HookPanic(t) \/ Emit(t)
  PROVE  \E g : Cascading(t, g)
<1> USE DEF Enter, Stamp, ChainCheck, HookOk, HookHalt, HookPanic, Emit
<1> DEFINE f == Top(t)
<1>1. /\ stack[t] # <<>> /\ f \in Calls /\ f.pc \in {"enter", "stamp", "chain", "hook"}
      /\ depth \in Nat
  <2>1. stack[t] # <<>> /\ f.pc \in {"enter", "stamp", "chain", "hook"}
    BY DEF At
  <2> QED BY <2>1, TopType DEF Inv, TypeOK
<1>2. UNCHANGED <<index, returned>>
  OBVIOUS
<1>3. ASSUME NEW g \in Calls, Update(t, g), Entered(g), g.op = f.op, g.path = f.path,
             g.hash = f.hash, g.prev = f.prev, g.was = f.was,
             \/ UNCHANGED broadcast /\ g.out \in {f.out, "halted", "chain_rejected"}
             \/ /\ broadcast' = [broadcast EXCEPT ![f.path] = <<f.hash>>]
                /\ g.out = "complete" /\ g.pc = "leave"
      PROVE  \E x : Cascading(t, x)
  <2>1. Replaced(t, g)
    BY <1>1, <1>3, UpdateReplaces DEF Inv
  <2>2. Cascading(t, g)
    BY <1>1, <1>2, <1>3, <2>1 DEF Cascading, Moved
  <2> QED BY <2>2
<1>4. CASE Enter(t)
  <2> DEFINE g == [f EXCEPT !.pc = "stamp"]
  <2>1. /\ g \in Calls /\ g.pc = "stamp" /\ g.op = f.op /\ g.path = f.path
        /\ g.hash = f.hash /\ g.prev = f.prev /\ g.was = f.was /\ g.out = f.out
    BY <1>1 DEF Calls, PCs
  <2>2. Update(t, g) /\ UNCHANGED broadcast
    BY <1>4
  <2> HIDE DEF g
  <2> QED BY <1>3, <2>1, <2>2 DEF Entered
<1>5. CASE Stamp(t)
  <2> DEFINE g == [f EXCEPT !.stamp = depth,
                            !.pc = IF f.chain = NoChain THEN "hook" ELSE "chain"]
  <2>1. /\ g \in Calls /\ g.pc \in {"hook", "chain"} /\ g.op = f.op /\ g.path = f.path
        /\ g.hash = f.hash /\ g.prev = f.prev /\ g.was = f.was /\ g.out = f.out
    BY <1>1 DEF Calls, PCs
  <2>2. Update(t, g) /\ UNCHANGED broadcast
    BY <1>5
  <2> HIDE DEF g
  <2> QED BY <1>3, <2>1, <2>2 DEF Entered
<1>6. ASSUME NEW pc \in {"leave", "unwind"}, NEW o \in Outcomes,
             Update(t, [f EXCEPT !.pc = pc, !.out = o]),
             \/ UNCHANGED broadcast /\ o \in {f.out, "halted", "chain_rejected"}
             \/ /\ broadcast' = [broadcast EXCEPT ![f.path] = <<f.hash>>]
                /\ o = "complete" /\ pc = "leave"
      PROVE  \E x : Cascading(t, x)
  <2> DEFINE g == [f EXCEPT !.pc = pc, !.out = o]
  <2>1. /\ g \in Calls /\ g.pc = pc /\ g.op = f.op /\ g.path = f.path
        /\ g.hash = f.hash /\ g.prev = f.prev /\ g.was = f.was /\ g.out = o
    BY <1>1, <1>6 DEF Calls, PCs
  <2>2. Update(t, g)
    BY <1>6
  <2> HIDE DEF g
  <2> QED BY <1>3, <1>6, <2>1, <2>2 DEF Entered
<1>7. ASSUME NEW pc \in {"hook", "unwind"}, Update(t, [f EXCEPT !.pc = pc]),
             UNCHANGED broadcast
      PROVE  \E x : Cascading(t, x)
  <2> DEFINE g == [f EXCEPT !.pc = pc]
  <2>1. /\ g \in Calls /\ g.pc = pc /\ g.op = f.op /\ g.path = f.path
        /\ g.hash = f.hash /\ g.prev = f.prev /\ g.was = f.was /\ g.out = f.out
    BY <1>1, <1>7 DEF Calls, PCs
  <2>2. Update(t, g)
    BY <1>7
  <2> HIDE DEF g
  <2> QED BY <1>3, <1>7, <2>1, <2>2 DEF Entered
<1>8. CASE ChainCheck(t)
  <2>1. "chain_rejected" \in Outcomes
    BY DEF Outcomes
  <2> QED BY <1>6, <1>7, <1>8, <2>1
<1>9. CASE HookHalt(t) \/ Emit(t)
  <2>1. "halted" \in Outcomes /\ "complete" \in Outcomes
    BY DEF Outcomes
  <2> QED BY <1>6, <1>9, <2>1
<1>10. CASE HookPanic(t)
  BY <1>7, <1>10
<1>11. CASE HookOk(t)
  <2> DEFINE g == [f EXCEPT !.hook = @ + 1]
  <2>1. f.hook + 1 \in 1..(NumHooks + 1)
    BY <1>1, <1>11, ConstantsAssumption DEF Calls
  <2>2. /\ g \in Calls /\ g.pc = f.pc /\ g.op = f.op /\ g.path = f.path
        /\ g.hash = f.hash /\ g.prev = f.prev /\ g.was = f.was /\ g.out = f.out
    BY <1>1, <2>1 DEF Calls
  <2>3. Update(t, g) /\ UNCHANGED broadcast /\ f.pc = "hook"
    BY <1>11 DEF At
  <2> HIDE DEF g
  <2> QED BY <1>3, <2>2, <2>3 DEF Entered
<1> QED
  BY <1>4, <1>5, <1>8, <1>9, <1>10, <1>11

LEMMA EndShape ==
  ASSUME Inv, NEW t \in Threads, Leave(t) \/ Unwind(t)
  PROVE  Ends(t)
<1>1. stack[t] # <<>>
  BY DEF Leave, Unwind, At
<1>2. Popped(t)
  BY <1>1, ReturnPops, UnwindPops DEF Leave
<1> QED
  BY <1>1, <1>2 DEF Leave, Unwind, Return, Ends, At

\* Every step has one of these shapes.
LEMMA NextShape ==
  ASSUME Inv, [Next]_vars
  PROVE  \/ UNCHANGED <<index, stack, returned, broadcast>>
         \/ \E t \in Threads : \/ \E g : \/ Begins(t, g) \/ Tries(t, g) \/ Writes(t, g)
                                         \/ Cascading(t, g) \/ Refuses(t, g)
                               \/ Ends(t)
<1>1. ASSUME NEW t \in Threads, Call(t) \/ Step(t)
      PROVE  \/ \E g : \/ Begins(t, g) \/ Tries(t, g) \/ Writes(t, g)
                       \/ Cascading(t, g) \/ Refuses(t, g)
             \/ Ends(t)
  <2>1. CASE Call(t) \/ HookWrite(t)
    BY <2>1, CallShape
  <2>2. CASE Check(t)
    BY <2>2, CheckShape
  <2>3. CASE ReadPrevious(t)
    BY <2>3, ReadShape
  <2>4. CASE Write(t)
    BY <2>4, WriteShape
  <2>5. CASE \/ Enter(t) \/ Stamp(t) \/ ChainCheck(t)
             \/ HookOk(t) \/ HookHalt(t) \/ HookPanic(t) \/ Emit(t)
    BY <2>5, CascadeShape
  <2>6. CASE Leave(t) \/ Unwind(t)
    BY <2>6, EndShape
  <2> QED BY <1>1, <2>1, <2>2, <2>3, <2>4, <2>5, <2>6 DEF Step
<1> QED
  BY <1>1 DEF Next, vars

-----------------------------------------------------------------------------
(* Events.                                                                  *)

\* What call f of thread t knows of the index ix: a set that is about to write has
\* read the binding it will replace, and a call that has written reports it.
Event(ix, t, f) ==
  /\ f.path \in Scope[t] \cup HookPaths \cup {BadPath}
  /\ f.op = "set" /\ f.path \in Paths => Exclusive(t, f.path)
  /\ f.pc \in {"check", "read", "write"} => ~f.wrote
  /\ f.pc = "write" /\ f.op = "set" => f.prev = ix[f.path]
  /\ Past(f) => f.prev = f.was
  /\ f.out # "noop"

NoopsReal(r) == r # <<>> /\ r.out = "noop" /\ r.wrote => r.was = r.hash

EventInv ==
  /\ \A t \in Threads : \A i \in 1..Len(stack[t]) : Event(index, t, stack[t][i])
  /\ \A t \in Threads : NoopsReal(returned[t])

\* Thread t writes a path it, or a hook, may write, or none.
IndexMoves(t) ==
  \/ UNCHANGED index
  \/ \E p \in Paths \cap (Scope[t] \cup HookPaths) : \E v : index' = [index EXCEPT ![p] = v]

\* Another thread's write does not touch what a set has read.
LEMMA EventOther ==
  ASSUME Inv, NEW t \in Threads, NEW u \in Threads \ {t}, NEW f, Event(index, u, f),
         GoodCall(f), NEW p \in Paths, p \in Scope[t] \cup HookPaths, NEW v,
         index' = [index EXCEPT ![p] = v]
  PROVE  Event(index', u, f)
<1>1. ASSUME f.pc = "write", f.op = "set" PROVE f.prev = index'[f.path]
  <2>1. f.path \in Paths /\ Exclusive(u, f.path) /\ f.prev = index[f.path]
    BY <1>1 DEF GoodCall, Event
  <2>2. f.path # p
    BY <2>1 DEF Exclusive
  <2> QED BY <2>1, <2>2 DEF Inv, TypeOK
<1> QED
  BY <1>1 DEF Event

\* A call that is waiting, or begins to unwind, has nothing more to compare.
LEMMA EventWaits ==
  ASSUME NEW t, NEW f \in Calls, NEW x, NEW y, Event(x, t, f), f.pc = "hook",
         NEW g, g = f \/ g = Unwound(f)
  PROVE  Event(y, t, g)
<1>1. CASE g = f
  BY <1>1 DEF Event
<1>2. CASE g = Unwound(f)
  <2>1. /\ g.path = f.path /\ g.op = f.op /\ g.prev = f.prev /\ g.was = f.was
        /\ g.pc = "unwind" /\ g.out = f.out
    BY <1>2 DEF Unwound, Calls
  <2> QED BY <2>1 DEF Event, Past, Entered
<1> QED
  BY <1>1, <1>2

\* The calls of the other threads, and the waiting ones of thread t.
LEMMA EventKept ==
  ASSUME Inv, EventInv, NEW t \in Threads, OthersKept(t),
         IndexMoves(t)
  PROVE  /\ \A u \in Threads \ {t} : \A i \in 1..Len(stack'[u]) : Event(index', u, stack'[u][i])
         /\ \A i \in 1..(Len(stack[t]) - 1) : \A g :
              g = stack[t][i] \/ g = Unwound(stack[t][i]) => Event(index', t, g)
<1>1. ASSUME NEW u \in Threads \ {t}, NEW i \in 1..Len(stack'[u])
      PROVE  Event(index', u, stack'[u][i])
  <2>1. stack'[u] = stack[u]
    BY DEF OthersKept
  <2>2. Event(index, u, stack[u][i]) /\ GoodCall(stack[u][i])
    BY <2>1 DEF EventInv, Inv, StackInv, CallsGood
  <2>3. CASE UNCHANGED index
    BY <2>1, <2>2, <2>3
  <2>4. CASE \E p \in Paths \cap (Scope[t] \cup HookPaths) : \E v :
               index' = [index EXCEPT ![p] = v]
    BY <2>1, <2>2, <2>4, EventOther
  <2> QED BY <2>3, <2>4 DEF IndexMoves
<1>2. ASSUME NEW i \in 1..(Len(stack[t]) - 1), NEW g,
             g = stack[t][i] \/ g = Unwound(stack[t][i])
      PROVE  Event(index', t, g)
  <2>1. stack[t] \in Seq(Calls) /\ Len(stack[t]) \in Nat
    BY LenProperties DEF Inv, TypeOK
  <2>2. i \in 1..Len(stack[t]) /\ stack[t][i].pc = "hook"
    BY <2>1, OuterCalls
  <2>3. stack[t][i] \in Calls /\ Event(index, t, stack[t][i])
    BY <2>1, <2>2, ElementOfSeq DEF EventInv
  <2> QED BY <1>2, <2>2, <2>3, EventWaits
<1> QED
  BY <1>1, <1>2

\* The innermost call knows what it says.
LEMMA EventTop ==
  ASSUME Inv, EventInv, NEW t \in Threads, stack[t] # <<>>
  PROVE  /\ Top(t) \in Calls /\ Event(index, t, Top(t)) /\ GoodCall(Top(t))
         /\ Len(stack[t]) \in Nat \ {0}
         /\ Top(t).pc # "check" => Top(t).path \in Paths \cap (Scope[t] \cup HookPaths)
<1>1. Top(t) \in Calls /\ GoodCall(Top(t)) /\ Len(stack[t]) \in 1..Len(stack[t])
  BY TopGood, TopType DEF Inv
<1>2. Event(index, t, Top(t)) /\ Len(stack[t]) \in Nat \ {0}
  BY <1>1, TopType DEF EventInv, Top, Inv
<1> QED
  BY <1>1, <1>2, ConstantsAssumption DEF Event, GoodCall

\* The innermost call moves on.
LEMMA EventMoves ==
  ASSUME Inv, EventInv, NEW t \in Threads, NEW g, Moved(t, g), Event(index', t, g),
         IndexMoves(t)
  PROVE  EventInv'
<1>1. stack[t] # <<>> /\ Replaced(t, g) /\ OthersKept(t) /\ Len(stack[t]) \in Nat \ {0}
  BY EventTop DEF Moved, Replaced
<1>2. \A u \in Threads \ {t} : \A i \in 1..Len(stack'[u]) : Event(index', u, stack'[u][i])
  BY <1>1, EventKept
<1>3. ASSUME NEW i \in 1..Len(stack'[t]) PROVE Event(index', t, stack'[t][i])
  <2>1. i \in 1..Len(stack[t]) /\ stack'[t][i] = IF i = Len(stack[t]) THEN g ELSE stack[t][i]
    BY <1>1 DEF Replaced
  <2>2. CASE i = Len(stack[t])
    BY <2>1, <2>2
  <2>3. CASE i # Len(stack[t])
    <3>1. i \in 1..(Len(stack[t]) - 1)
      BY <1>1, <2>1, <2>3
    <3> QED BY <1>1, <2>1, <2>3, <3>1, EventKept
  <2> QED BY <2>2, <2>3
<1>4. \A u \in Threads : \A i \in 1..Len(stack'[u]) : Event(index', u, stack'[u][i])
  BY <1>2, <1>3
<1>5. UNCHANGED returned
  BY DEF Moved
<1> QED
  BY <1>4, <1>5 DEF EventInv

\* The innermost call is gone.
LEMMA EventPops ==
  ASSUME Inv, EventInv, NEW t \in Threads, stack[t] # <<>>, Popped(t),
         NEW r, NoopsReal(r), returned' = [returned EXCEPT ![t] = r],
         IndexMoves(t)
  PROVE  EventInv'
<1>1. OthersKept(t) /\ Len(stack[t]) \in Nat \ {0} /\ Len(stack'[t]) = Len(stack[t]) - 1
  BY EventTop DEF Popped
<1>2. \A u \in Threads \ {t} : \A i \in 1..Len(stack'[u]) : Event(index', u, stack'[u][i])
  BY <1>1, EventKept
<1>3. ASSUME NEW i \in 1..Len(stack'[t]) PROVE Event(index', t, stack'[t][i])
  <2>1. i \in 1..(Len(stack[t]) - 1)
    BY <1>1
  <2>2. stack'[t][i] = stack[t][i] \/ stack'[t][i] = Unwound(stack[t][i])
    BY <2>1 DEF Popped
  <2> QED BY <1>1, <2>1, <2>2, EventKept
<1>4. \A u \in Threads : \A i \in 1..Len(stack'[u]) : Event(index', u, stack'[u][i])
  BY <1>2, <1>3
<1>5. returned'[t] = r /\ \A u \in Threads \ {t} : returned'[u] = returned[u]
  BY DEF Inv, TypeOK
<1>6. \A u \in Threads : NoopsReal(returned'[u])
  BY <1>5 DEF EventInv
<1> QED
  BY <1>4, <1>6 DEF EventInv

LEMMA EventBegins ==
  ASSUME Inv, SetsAlone, EventInv, NEW t \in Threads, NEW f, Begins(t, f)
  PROVE  EventInv'
<1>1. Pushed(t, f) /\ OthersKept(t) /\ UNCHANGED index /\ Len(stack[t]) \in Nat
  BY LenProperties DEF Begins, Pushed, Inv, TypeOK
<1>2. Event(index, t, f)
  <2>1. f.path \in Scope[t] \cup HookPaths \cup {BadPath} /\ f.pc = "check" /\ ~f.wrote
        /\ f.out # "noop"
    BY DEF Begins
  <2>2. ASSUME f.op = "set", f.path \in Paths PROVE Exclusive(t, f.path)
    BY <2>2, ConstantsAssumption DEF Begins, SetsAlone
  <2> QED BY <2>1, <2>2 DEF Event, Past, Entered
<1>3. ASSUME NEW u \in Threads, NEW i \in 1..Len(stack'[u])
      PROVE  Event(index', u, stack'[u][i])
  <2>1. CASE u # t
    BY <1>1, <2>1 DEF OthersKept, EventInv
  <2>2. CASE u = t /\ i = Len(stack[t]) + 1
    BY <1>1, <1>2, <2>2 DEF Pushed
  <2>3. CASE u = t /\ i # Len(stack[t]) + 1
    <3>1. i \in 1..Len(stack[t])
      BY <1>1, <2>3 DEF Pushed
    <3> QED BY <1>1, <2>3, <3>1 DEF Pushed, EventInv
  <2> QED BY <2>1, <2>2, <2>3
<1>4. returned'[t] = <<>> /\ \A u \in Threads \ {t} : returned'[u] = returned[u]
  BY DEF Begins, Inv, TypeOK
<1>5. \A u \in Threads : NoopsReal(returned'[u])
  BY <1>4 DEF EventInv, NoopsReal
<1> QED
  BY <1>3, <1>5 DEF EventInv

LEMMA EventTries ==
  ASSUME Inv, EventInv, NEW t \in Threads, NEW g, Tries(t, g)
  PROVE  EventInv'
<1>1. Moved(t, g) /\ stack[t] # <<>> /\ UNCHANGED index
  BY DEF Tries, Moved
<1>2. Event(index, t, Top(t))
  BY <1>1, EventTop
<1>3. Event(index, t, g)
  BY <1>2 DEF Tries, Moved, Event, Past, Entered
<1> QED
  BY <1>1, <1>3, EventMoves DEF IndexMoves

LEMMA EventWrites ==
  ASSUME Inv, EventInv, NEW t \in Threads, NEW g, Writes(t, g)
  PROVE  EventInv'
<1>1. Moved(t, g) /\ stack[t] # <<>> /\ Top(t).pc = "write"
  BY DEF Writes, Moved
<1>2. Event(index, t, Top(t)) /\ Top(t).path \in Paths \cap (Scope[t] \cup HookPaths)
  BY <1>1, EventTop
<1>3. g.prev = g.was
  BY <1>1, <1>2 DEF Writes, Event
<1>4. Event(index', t, g)
  BY <1>2, <1>3 DEF Writes, Moved, Event, Past
<1>5. IndexMoves(t)
  BY <1>2 DEF Writes, IndexMoves
<1> QED
  BY <1>1, <1>4, <1>5, EventMoves

LEMMA EventCascading ==
  ASSUME Inv, EventInv, NEW t \in Threads, NEW g, Cascading(t, g)
  PROVE  EventInv'
<1>1. Moved(t, g) /\ stack[t] # <<>> /\ UNCHANGED index
  BY DEF Cascading, Moved
<1>2. Event(index, t, Top(t))
  BY <1>1, EventTop
<1>3. Event(index, t, g)
  BY <1>2 DEF Cascading, Moved, Event, Past, Entered
<1> QED
  BY <1>1, <1>3, EventMoves DEF IndexMoves

LEMMA EventRefuses ==
  ASSUME Inv, EventInv, NEW t \in Threads, NEW g, Refuses(t, g)
  PROVE  EventInv'
<1>1. stack[t] # <<>> /\ Popped(t) /\ returned' = [returned EXCEPT ![t] = g]
  BY DEF Refuses
<1>2. /\ Event(index, t, Top(t))
      /\ Top(t).pc # "check" => Top(t).path \in Paths \cap (Scope[t] \cup HookPaths)
  BY <1>1, EventTop
<1>3. NoopsReal(g)
  BY <1>2 DEF Refuses, Event, NoopsReal
<1>4. IndexMoves(t)
  BY <1>2 DEF Refuses, IndexMoves
<1> QED
  BY <1>1, <1>3, <1>4, EventPops

LEMMA EventEnds ==
  ASSUME Inv, EventInv, NEW t \in Threads, Ends(t)
  PROVE  EventInv'
<1>1. stack[t] # <<>> /\ Popped(t) /\ IndexMoves(t)
  BY DEF Ends, IndexMoves
<1>2. PICK r : returned' = [returned EXCEPT ![t] = r]
               /\ (r = <<>> \/ (r = Top(t) /\ Top(t).pc = "leave"))
  BY DEF Ends
<1>3. NoopsReal(r)
  BY <1>1, <1>2, EventTop DEF NoopsReal, Event
<1> QED
  BY <1>1, <1>2, <1>3, EventPops

\* An event's previous_hash is the binding the mutation really replaced, and a write
\* suppressed as a no-op left the binding as it was: for the compare operations with
\* any number of writers, and for plain set (set_impl reads and writes in two calls
\* of the inner index) where no other thread writes the path.
THEOREM EventsReal == Spec => [](SetsAlone => EventsAreReal)
<1> DEFINE E == SetsAlone => EventInv
<1>1. Init => E
  <2> SUFFICES ASSUME Init PROVE EventInv
    OBVIOUS
  <2>1. \A t \in Threads : stack[t] = <<>> /\ Len(stack[t]) = 0 /\ returned[t] = <<>>
    BY EmptySeq DEF Init
  <2> QED BY <2>1 DEF EventInv, NoopsReal
<1>2. Inv /\ E /\ [Next]_vars => E'
  <2> SUFFICES ASSUME Inv, SetsAlone, EventInv, [Next]_vars PROVE EventInv'
    BY DEF SetsAlone, Exclusive
  <2>1. CASE UNCHANGED <<index, stack, returned, broadcast>>
    BY <2>1 DEF EventInv
  <2> QED
    BY <2>1, NextShape, EventBegins, EventTries, EventWrites, EventCascading,
       EventRefuses, EventEnds
<1>3. E => (SetsAlone => EventsAreReal)
  <2> SUFFICES ASSUME EventInv PROVE EventsAreReal
    OBVIOUS
  <2>1. ASSUME NEW x \in Cascades PROVE stack[x[1]][x[2]].prev = stack[x[1]][x[2]].was
    <3>1. /\ x[1] \in Threads /\ x[2] \in 1..MaxCalls /\ x[2] <= Len(stack[x[1]])
          /\ Entered(stack[x[1]][x[2]])
      BY DEF Cascades
    <3>2. x[2] \in 1..Len(stack[x[1]])
      BY <3>1
    <3> QED BY <3>1, <3>2 DEF EventInv, Event, Past
  <2> QED BY <2>1 DEF EventInv, NoopsReal, EventsAreReal
<1> QED
  BY <1>1, <1>2, <1>3, Invariance, PTL DEF Spec

-----------------------------------------------------------------------------
(* Settled writes.                                                          *)

\* Call f, the i-th on the stack of thread t, against index ix and announcements bc:
\* what a task's own call wrote is still there, and announced once it is complete.
Settled(ix, bc, t, i, f) ==
  /\ IF i = 1 THEN f.path \in Scope[t] \cup {BadPath} ELSE f.path \in HookPaths
  /\ f.op = "remove" => f.hash = Nil
  /\ f.out = "complete" => f.pc = "leave"
  /\ i = 1 /\ Past(f) => ix[f.path] = f.hash
  /\ i = 1 /\ f.out = "complete" => bc[f.path] = <<f.hash>>

Announced(ix, bc, t, r) ==
  r # <<>> /\ r.out = "complete" =>
    r.path \in Scope[t] /\ ix[r.path] = r.hash /\ bc[r.path] = <<r.hash>>

SettledInv ==
  /\ \A t \in Threads : \A i \in 1..Len(stack[t]) : Settled(index, broadcast, t, i, stack[t][i])
  /\ \A t \in Threads : stack[t] = <<>> => Announced(index, broadcast, t, returned[t])

\* The step of thread t touches the path of its innermost call at most.
Touches(t) ==
  \A q \in Paths : q # Top(t).path => index'[q] = index[q] /\ broadcast'[q] = broadcast[q]

\* The innermost call, and where it may write.
LEMMA SettledTop ==
  ASSUME Inv, SettledInv, NEW t \in Threads, stack[t] # <<>>
  PROVE  /\ Top(t) \in Calls /\ Settled(index, broadcast, t, Len(stack[t]), Top(t))
         /\ Len(stack[t]) \in Nat \ {0} /\ GoodCall(Top(t))
         /\ index \in [Paths -> Hashes \cup {Nil}] /\ DOMAIN broadcast = Paths
         /\ broadcast = [q \in Paths |-> broadcast[q]]
<1>1. /\ Top(t) \in Calls /\ GoodCall(Top(t)) /\ Len(stack[t]) \in 1..Len(stack[t])
      /\ Len(stack[t]) \in Nat \ {0}
  BY TopGood, TopType DEF Inv
<1>2. Settled(index, broadcast, t, Len(stack[t]), Top(t))
  BY <1>1 DEF SettledInv, Top
<1>3. /\ index \in [Paths -> Hashes \cup {Nil}] /\ DOMAIN broadcast = Paths
      /\ broadcast = [q \in Paths |-> broadcast[q]]
  BY DEF Inv, TypeOK
<1> QED
  BY <1>1, <1>2, <1>3

\* The other threads' calls and results, and the waiting calls of thread t, keep
\* their bindings.
LEMMA SettledKept ==
  ASSUME Inv, WritesAlone, SettledInv, NEW t \in Threads, stack[t] # <<>>, OthersKept(t),
         Touches(t)
  PROVE  /\ \A u \in Threads \ {t} : \A i \in 1..Len(stack'[u]) :
              Settled(index', broadcast', u, i, stack'[u][i])
         /\ \A u \in Threads \ {t} : stack'[u] = <<>> =>
              Announced(index', broadcast', u, returned[u])
         /\ \A i \in 1..(Len(stack[t]) - 1) : \A g :
              g = stack[t][i] \/ g = Unwound(stack[t][i]) =>
                Settled(index', broadcast', t, i, g)
<1> DEFINE p == Top(t).path
           n == Len(stack[t])
<1>1. /\ n \in Nat \ {0}
      /\ IF n = 1 THEN p \in Scope[t] \cup {BadPath} ELSE p \in HookPaths
  BY SettledTop DEF Settled
<1>2. \A u \in Threads \ {t} : \A q \in Scope[u] : q \in Paths /\ q # p
  BY <1>1, ConstantsAssumption DEF WritesAlone, Exclusive
<1>3. n # 1 => \A q \in Scope[t] : q \in Paths /\ q # p
  BY <1>1, ConstantsAssumption DEF WritesAlone
<1>4. \A q \in Paths : q # p => index'[q] = index[q] /\ broadcast'[q] = broadcast[q]
  BY DEF Touches
<1> HIDE DEF p
<1>5. ASSUME NEW u \in Threads \ {t}, NEW i \in 1..Len(stack'[u])
      PROVE  Settled(index', broadcast', u, i, stack'[u][i])
  <2>1. stack'[u] = stack[u]
    BY DEF OthersKept
  <2> DEFINE f == stack[u][i]
  <2>2. Settled(index, broadcast, u, i, f) /\ GoodCall(f)
    BY <2>1 DEF SettledInv, Inv, StackInv, CallsGood
  <2>3. ASSUME i = 1, Past(f) \/ f.out = "complete"
        PROVE  index'[f.path] = index[f.path] /\ broadcast'[f.path] = broadcast[f.path]
    <3>1. f.path \in Paths /\ f.path \in Scope[u]
      BY <2>2, <2>3, ConstantsAssumption DEF Settled, GoodCall, Past, Entered
    <3> QED BY <1>2, <1>4, <3>1
  <2> HIDE DEF f
  <2>4. Settled(index', broadcast', u, i, f)
    BY <2>2, <2>3 DEF Settled
  <2> QED BY <2>1, <2>4 DEF f
<1>6. ASSUME NEW u \in Threads \ {t}, stack'[u] = <<>>
      PROVE  Announced(index', broadcast', u, returned[u])
  <2>1. stack[u] = <<>>
    BY <1>6 DEF OthersKept
  <2>2. Announced(index, broadcast, u, returned[u])
    BY <2>1 DEF SettledInv
  <2> QED BY <1>2, <1>4, <2>2 DEF Announced
<1>7. ASSUME NEW i \in 1..(n - 1), NEW g, g = stack[t][i] \/ g = Unwound(stack[t][i])
      PROVE  Settled(index', broadcast', t, i, g)
  <2> DEFINE f == stack[t][i]
  <2>1. stack[t] \in Seq(Calls) /\ i \in 1..n /\ n # 1
    <3>1. stack[t] \in Seq(Calls)
      BY DEF Inv, TypeOK
    <3> HIDE DEF n
    <3> QED BY <1>1, <3>1
  <2>2. f.pc = "hook" /\ f \in Calls /\ f.path \in Paths
    BY <1>1, <2>1, OuterCalls, ElementOfSeq
  <2>3. Settled(index, broadcast, t, i, f)
    BY <2>1 DEF SettledInv
  <2> HIDE DEF f
  <2>4. f.out # "complete" /\ Past(f)
    BY <2>2, <2>3 DEF Settled, Past, Entered
  <2>5. /\ g.path = f.path /\ g.op = f.op /\ g.hash = f.hash /\ g.out = f.out
        /\ g.pc \in {"hook", "unwind"}
    BY <1>7, <2>2 DEF Unwound, Calls, f
  <2>6. i = 1 => index'[f.path] = f.hash
    <3>1. i = 1 => f.path \in Scope[t] /\ index[f.path] = f.hash
      BY <2>2, <2>3, <2>4, ConstantsAssumption DEF Settled
    <3> QED BY <1>3, <1>4, <2>1, <3>1
  <2> QED BY <2>3, <2>4, <2>5, <2>6 DEF Settled
<1> QED
  BY <1>5, <1>6, <1>7

\* The innermost call moves on.
LEMMA SettledMoves ==
  ASSUME Inv, WritesAlone, SettledInv, NEW t \in Threads, NEW g, Moved(t, g), Touches(t),
         Settled(index', broadcast', t, Len(stack[t]), g)
  PROVE  SettledInv'
<1>1. /\ stack[t] # <<>> /\ Replaced(t, g) /\ OthersKept(t) /\ Len(stack[t]) \in Nat \ {0}
      /\ UNCHANGED returned
  BY SettledTop DEF Moved, Replaced
<1>2. ASSUME NEW i \in 1..Len(stack'[t])
      PROVE  Settled(index', broadcast', t, i, stack'[t][i])
  <2>1. i \in 1..Len(stack[t]) /\ stack'[t][i] = IF i = Len(stack[t]) THEN g ELSE stack[t][i]
    BY <1>1 DEF Replaced
  <2>2. CASE i = Len(stack[t])
    BY <2>1, <2>2
  <2>3. CASE i # Len(stack[t])
    <3>1. i \in 1..(Len(stack[t]) - 1)
      BY <1>1, <2>1, <2>3
    <3> QED BY <1>1, <2>1, <2>3, <3>1, SettledKept
  <2> QED BY <2>2, <2>3
<1>3. \A u \in Threads : \A i \in 1..Len(stack'[u]) :
        Settled(index', broadcast', u, i, stack'[u][i])
  BY <1>1, <1>2, SettledKept
<1>4. stack'[t] # <<>>
  BY <1>1, EmptySeq DEF Replaced
<1>5. \A u \in Threads : stack'[u] = <<>> => Announced(index', broadcast', u, returned'[u])
  BY <1>1, <1>4, SettledKept
<1> QED
  BY <1>3, <1>5 DEF SettledInv

\* The innermost call is gone; when it was the task's own, its result is announced.
LEMMA SettledPops ==
  ASSUME Inv, WritesAlone, SettledInv, NEW t \in Threads, stack[t] # <<>>, Popped(t),
         Touches(t), NEW r, returned' = [returned EXCEPT ![t] = r],
         Len(stack[t]) = 1 => Announced(index', broadcast', t, r)
  PROVE  SettledInv'
<1>1. OthersKept(t) /\ Len(stack[t]) \in Nat \ {0} /\ Len(stack'[t]) = Len(stack[t]) - 1
  BY SettledTop DEF Popped
<1>2. ASSUME NEW i \in 1..Len(stack'[t])
      PROVE  Settled(index', broadcast', t, i, stack'[t][i])
  <2>1. i \in 1..(Len(stack[t]) - 1)
    BY <1>1
  <2>2. stack'[t][i] = stack[t][i] \/ stack'[t][i] = Unwound(stack[t][i])
    BY <2>1 DEF Popped
  <2> QED BY <1>1, <2>1, <2>2, SettledKept
<1>3. \A u \in Threads : \A i \in 1..Len(stack'[u]) :
        Settled(index', broadcast', u, i, stack'[u][i])
  BY <1>1, <1>2, SettledKept
<1>4. returned'[t] = r /\ \A u \in Threads \ {t} : returned'[u] = returned[u]
  BY DEF Inv, TypeOK
<1>5. stack'[t] = <<>> => Len(stack[t]) = 1
  BY <1>1, EmptySeq
<1>6. \A u \in Threads : stack'[u] = <<>> => Announced(index', broadcast', u, returned'[u])
  BY <1>1, <1>4, <1>5, SettledKept
<1> QED
  BY <1>3, <1>6 DEF SettledInv

LEMMA SettledBegins ==
  ASSUME Inv, SettledInv, NEW t \in Threads, NEW f, Begins(t, f)
  PROVE  SettledInv'
<1>1. /\ Pushed(t, f) /\ OthersKept(t) /\ UNCHANGED <<index, broadcast>>
      /\ stack[t] \in Seq(Calls) /\ Len(stack[t]) \in Nat /\ (stack[t] = <<>> <=> Len(stack[t]) = 0)
      /\ stack'[t] \in Seq(Calls)
  BY LenProperties, EmptySeq DEF Begins, Pushed, Inv, TypeOK
<1>2. Settled(index, broadcast, t, Len(stack[t]) + 1, f)
  BY <1>1 DEF Begins, Settled, Past, Entered
<1>3. ASSUME NEW u \in Threads, NEW i \in 1..Len(stack'[u])
      PROVE  Settled(index', broadcast', u, i, stack'[u][i])
  <2>1. CASE u # t
    BY <1>1, <2>1 DEF OthersKept, SettledInv
  <2>2. CASE u = t /\ i = Len(stack[t]) + 1
    BY <1>1, <1>2, <2>2 DEF Pushed
  <2>3. CASE u = t /\ i # Len(stack[t]) + 1
    <3>1. i \in 1..Len(stack[t])
      BY <1>1, <2>3 DEF Pushed
    <3> QED BY <1>1, <2>3, <3>1 DEF Pushed, SettledInv
  <2> QED BY <2>1, <2>2, <2>3
<1>4. stack'[t] # <<>>
  BY <1>1, EmptySeq DEF Pushed
<1>5. \A u \in Threads \ {t} : returned'[u] = returned[u] /\ stack'[u] = stack[u]
  BY <1>1 DEF Begins, Inv, TypeOK, OthersKept
<1>6. \A u \in Threads : stack'[u] = <<>> => Announced(index', broadcast', u, returned'[u])
  BY <1>1, <1>4, <1>5 DEF SettledInv
<1> QED
  BY <1>3, <1>6 DEF SettledInv

LEMMA SettledTries ==
  ASSUME Inv, WritesAlone, SettledInv, NEW t \in Threads, NEW g, Tries(t, g)
  PROVE  SettledInv'
<1>1. Moved(t, g) /\ stack[t] # <<>> /\ Touches(t) /\ UNCHANGED <<index, broadcast>>
  BY DEF Tries, Moved, Touches
<1>2. Settled(index, broadcast, t, Len(stack[t]), Top(t))
  BY <1>1, SettledTop
<1>3. Settled(index, broadcast, t, Len(stack[t]), g)
  BY <1>2 DEF Tries, Moved, Settled, Past, Entered
<1> QED
  BY <1>1, <1>3, SettledMoves

LEMMA SettledWrites ==
  ASSUME Inv, WritesAlone, SettledInv, NEW t \in Threads, NEW g, Writes(t, g)
  PROVE  SettledInv'
<1>1. Moved(t, g) /\ stack[t] # <<>> /\ Top(t).pc = "write"
  BY DEF Writes, Moved
<1>2. /\ Settled(index, broadcast, t, Len(stack[t]), Top(t)) /\ Top(t).path \in Paths
      /\ index \in [Paths -> Hashes \cup {Nil}]
  BY <1>1, SettledTop DEF GoodCall
<1>3. Touches(t)
  BY <1>2 DEF Writes, Touches
<1>4. index'[Top(t).path] = Top(t).hash
  BY <1>2 DEF Writes, Settled
<1>5. Settled(index', broadcast', t, Len(stack[t]), g)
  BY <1>1, <1>2, <1>4 DEF Writes, Moved, Settled
<1> QED
  BY <1>1, <1>3, <1>5, SettledMoves

LEMMA SettledCascading ==
  ASSUME Inv, WritesAlone, SettledInv, NEW t \in Threads, NEW g, Cascading(t, g)
  PROVE  SettledInv'
<1>1. Moved(t, g) /\ stack[t] # <<>> /\ UNCHANGED index /\ Top(t).pc # "check" /\ Past(Top(t))
      /\ Top(t).pc # "leave"
  BY DEF Cascading, Moved, Past, Entered
<1>2. /\ Settled(index, broadcast, t, Len(stack[t]), Top(t)) /\ Top(t).path \in Paths
      /\ broadcast = [q \in Paths |-> broadcast[q]]
  BY <1>1, SettledTop DEF GoodCall
<1>3. Touches(t)
  BY <1>2 DEF Cascading, Touches
<1>4. Top(t).out # "complete"
  BY <1>1, <1>2 DEF Settled
<1>5. g.out = "complete" => g.pc = "leave" /\ broadcast'[Top(t).path] = <<Top(t).hash>>
  BY <1>2, <1>4 DEF Cascading
<1>6. Settled(index', broadcast', t, Len(stack[t]), g)
  BY <1>1, <1>2, <1>5 DEF Moved, Settled
<1> QED
  BY <1>1, <1>3, <1>6, SettledMoves

LEMMA SettledRefuses ==
  ASSUME Inv, WritesAlone, SettledInv, NEW t \in Threads, NEW g, Refuses(t, g)
  PROVE  SettledInv'
<1>1. stack[t] # <<>> /\ Popped(t) /\ returned' = [returned EXCEPT ![t] = g]
  BY DEF Refuses
<1>2. index \in [Paths -> Hashes \cup {Nil}]
  BY DEF Inv, TypeOK
<1>3. Touches(t)
  BY <1>2 DEF Refuses, Touches
<1>4. Announced(index', broadcast', t, g)
  BY DEF Refuses, Announced
<1> QED
  BY <1>1, <1>3, <1>4, SettledPops

LEMMA SettledEnds ==
  ASSUME Inv, WritesAlone, SettledInv, NEW t \in Threads, Ends(t)
  PROVE  SettledInv'
<1>1. stack[t] # <<>> /\ Popped(t) /\ Touches(t) /\ UNCHANGED <<index, broadcast>>
  BY DEF Ends, Touches
<1>2. PICK r : returned' = [returned EXCEPT ![t] = r]
               /\ (r = <<>> \/ (r = Top(t) /\ Top(t).pc = "leave"))
  BY DEF Ends
<1>3. ASSUME Len(stack[t]) = 1 PROVE Announced(index', broadcast', t, r)
  <2>1. CASE r = <<>>
    BY <2>1 DEF Announced
  <2>2. CASE r = Top(t) /\ Top(t).pc = "leave"
    <3>1. Settled(index, broadcast, t, 1, r) /\ r.path \in Paths /\ Past(r)
      BY <1>1, <1>3, <2>2, SettledTop DEF GoodCall, Past, Entered
    <3> QED BY <1>1, <3>1, ConstantsAssumption DEF Settled, Announced
  <2> QED BY <1>2, <2>1, <2>2
<1> QED
  BY <1>1, <1>2, <1>3, SettledPops

\* A task whose call returned complete, at a path that no other thread and no hook
\* writes, finds its binding in the index and as the last change Phase 2 announced,
\* whatever cascades, halts and panics the other threads and its own hooks had.
THEOREM CompleteSettled == Spec => [](WritesAlone => CompleteIsSettled)
<1> DEFINE W == WritesAlone => SettledInv
<1>1. Init => W
  <2> SUFFICES ASSUME Init PROVE SettledInv
    OBVIOUS
  <2>1. \A t \in Threads : stack[t] = <<>> /\ Len(stack[t]) = 0 /\ returned[t] = <<>>
    BY EmptySeq DEF Init
  <2> QED BY <2>1 DEF SettledInv, Announced
<1>2. Inv /\ W /\ [Next]_vars => W'
  <2> SUFFICES ASSUME Inv, WritesAlone, SettledInv, [Next]_vars PROVE SettledInv'
    BY DEF WritesAlone, Exclusive
  <2>1. CASE UNCHANGED <<index, stack, returned, broadcast>>
    BY <2>1 DEF SettledInv
  <2> QED
    BY <2>1, NextShape, SettledBegins, SettledTries, SettledWrites, SettledCascading,
       SettledRefuses, SettledEnds
<1>3. W => (WritesAlone => CompleteIsSettled)
  BY DEF SettledInv, Announced, CompleteIsSettled
<1> QED
  BY <1>1, <1>2, <1>3, Invariance, PTL DEF Spec
=============================================================================
