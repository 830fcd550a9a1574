------------------------ MODULE NotifyingLocationIndex ------------------------
(***************************************************************************)
(* The emit pathway of core/store: the location index of a peer (path ->   *)
(* content hash) behind the dispatcher that runs synchronous hooks after   *)
(* every mutation and broadcasts the change when all of them succeeded.    *)
(*                                                                         *)
(* Several threads write at once.  The inner index is atomic per call, but *)
(* the dispatcher holds no lock between its steps, so every lock           *)
(* acquisition of the code is one action here.  A hook is arbitrary code:  *)
(* it may return, halt the cascade, panic, or write to the index again on  *)
(* the same call stack, which is why a thread's state is a stack of calls. *)
(***************************************************************************)
EXTENDS Naturals, Sequences, FiniteSets

CONSTANTS
  Threads,      \* tasks that write to the tree
  Paths,        \* absolute paths the index accepts
  BadPath,      \* stands for every path validate_absolute_path refuses
  Hashes,       \* content hashes
  Chains,       \* chain ids an execution context may carry
  NoChain,      \* the context has no chain id
  Nil,          \* unbound
  Scope,        \* Scope[t]: the paths thread t writes by itself
  HookPaths,    \* the paths hooks write
  Ops,          \* the operations callers use, a subset of AllOps
  HookOps,      \* the operations hooks use
  NumHooks,     \* registered Phase 1 hooks, in registration order
  DepthLimit,   \* CASCADE_DEPTH_LIMIT
  MaxCalls      \* bound: calls each thread makes, nested ones included

AllOps == {"set", "swap", "create", "cas_remove", "remove"}

ASSUME ThreadsAssumption == IsFiniteSet(Threads)
ASSUME ConstantsAssumption ==
  /\ Scope \in [Threads -> SUBSET Paths]
  /\ HookPaths \subseteq Paths
  /\ Ops \subseteq AllOps
  /\ HookOps \subseteq AllOps
  /\ NumHooks \in Nat
  /\ DepthLimit \in Nat \ {0}
  /\ MaxCalls \in Nat
  /\ Nil \notin Hashes
  /\ NoChain \notin Chains
  /\ BadPath \notin Paths

VARIABLES
  index,        \* inner: path -> hash or Nil
  depth,        \* cascade_depth: one counter for the whole index
  chainDepths,  \* chain_cascade_depths; an absent chain counts as 0
  stack,        \* per thread, its calls in progress, innermost last
  returned,     \* per thread, the call that returned last (<<>>: none since the
                \* thread made its latest call)
  broadcast,    \* per path, the last change Phase 2 announced (<<>> at first)
  calls         \* per thread, calls made so far (bounded by MaxCalls)

vars == <<index, depth, chainDepths, stack, returned, broadcast, calls>>

-----------------------------------------------------------------------------
(* A call in progress.  hash is the new binding, exp the expected one of a  *)
(* compare operation, prev the previous binding the event will report, hook *)
(* the next hook to run, stamp ctx.cascade_depth.  was is a history field:  *)
(* the binding the mutation really replaced; out is the outcome.            *)

PCs == {"check", "read", "write", "enter", "stamp", "chain", "hook", "leave",
        "unwind"}

\* The call holds a CascadeGuard: it has counted itself in cascade_depth.
Entered(f) == f.pc \in {"stamp", "chain", "hook", "leave", "unwind"}

Outcomes == {"running", "rejected", "mismatch", "notfound", "noop",
             "complete", "halted", "chain_rejected"}

Calls == [op : AllOps, path : Paths \cup {BadPath}, hash : Hashes \cup {Nil},
          exp : Hashes \cup {Nil}, chain : Chains \cup {NoChain},
          prev : Hashes \cup {Nil}, was : Hashes \cup {Nil},
          wrote : BOOLEAN, hook : 1..(NumHooks + 1), stamp : Nat,
          out : Outcomes, pc : PCs]

NewCall(op, p, h, e, c) ==
  [op |-> op, path |-> p, hash |-> h, exp |-> e, chain |-> c,
   prev |-> Nil, was |-> Nil, wrote |-> FALSE, hook |-> 1, stamp |-> 0,
   out |-> "running", pc |-> "check"]

\* The calls with operation in ops on a path in ps: remove takes no new hash,
\* and only swap and cas_remove take an expected one (create expects none).
Requests(ops, ps, c) ==
  {NewCall(op, p, h, e, c) : op \in ops \ {"cas_remove", "remove"}, p \in ps,
                             h \in Hashes, e \in Hashes \cup {Nil}}
    \cup {NewCall(op, p, Nil, e, c) : op \in ops \cap {"cas_remove", "remove"},
                                      p \in ps, e \in Hashes \cup {Nil}}

WellFormed(f) == (f.exp = Nil) <=> f.op \in {"set", "create", "remove"}

Top(t) == stack[t][Len(stack[t])]

Init ==
  /\ index = [p \in Paths |-> Nil]
  /\ depth = 0
  /\ chainDepths = [c \in Chains |-> 0]
  /\ stack = [t \in Threads |-> <<>>]
  /\ returned = [t \in Threads |-> <<>>]
  /\ broadcast = [p \in Paths |-> <<>>]
  /\ calls = [t \in Threads |-> 0]

-----------------------------------------------------------------------------
At(t, pc) == stack[t] # <<>> /\ Top(t).pc = pc

Update(t, f) == stack' = [stack EXCEPT ![t][Len(stack[t])] = f]

\* Pop the innermost call and hand its outcome to the caller.
Return(t, f) ==
  /\ stack' = [stack EXCEPT ![t] = SubSeq(@, 1, Len(@) - 1)]
  /\ returned' = [returned EXCEPT ![t] = f]

\* A task starts a write of its own.
Call(t) ==
  /\ stack[t] = <<>>
  /\ calls[t] < MaxCalls
  /\ \E c \in Chains \cup {NoChain} :
       \E f \in Requests(Ops, Scope[t] \cup {BadPath}, c) :
         /\ WellFormed(f)
         /\ stack' = [stack EXCEPT ![t] = <<f>>]
  /\ calls' = [calls EXCEPT ![t] = @ + 1]
  /\ returned' = [returned EXCEPT ![t] = <<>>]
  /\ UNCHANGED <<index, depth, chainDepths, broadcast>>

\* Mutant: the depth test is off by one.
RefusedLate(f) == f.path = BadPath \/ depth > DepthLimit

\* Path validation and the depth test, before anything is written.  The CAS
\* operations report a refusal as a mismatch.
Refused(f) == f.path = BadPath \/ depth >= DepthLimit

Check(t) ==
  /\ At(t, "check")
  /\ LET f == Top(t) IN
       \/ /\ Refused(f)
          /\ Return(t, [f EXCEPT !.out = IF f.op \in {"set", "remove"}
                                         THEN "rejected" ELSE "mismatch"])
       \/ /\ ~Refused(f)
          /\ Update(t, [f EXCEPT !.pc = IF f.op = "set" THEN "read" ELSE "write"])
          /\ UNCHANGED returned
  /\ UNCHANGED <<index, depth, chainDepths, broadcast, calls>>

\* set_impl reads the previous binding in one call of the inner index ...
ReadPrevious(t) ==
  /\ At(t, "read")
  /\ Update(t, [Top(t) EXCEPT !.prev = index[Top(t).path], !.pc = "write"])
  /\ UNCHANGED <<index, depth, chainDepths, returned, broadcast, calls>>

\* ... and writes in another.  An unchanged hash raises no event.
WriteSet(t, f) ==
  LET g == [f EXCEPT !.was = index[f.path], !.wrote = TRUE] IN
  /\ index' = [index EXCEPT ![f.path] = f.hash]
  /\ \/ /\ f.prev = f.hash
        /\ Return(t, [g EXCEPT !.out = "noop"])
     \/ /\ f.prev # f.hash
        /\ Update(t, [g EXCEPT !.pc = "enter"])
        /\ UNCHANGED returned

\* Mutant: the compare of the compare operations is lost.
WriteBlind(t, f) ==
  /\ index' = [index EXCEPT ![f.path] = f.hash]
  /\ Update(t, [f EXCEPT !.was = index[f.path], !.wrote = TRUE,
                         !.prev = f.exp, !.pc = "enter"])
  /\ UNCHANGED returned

\* The compare operations decide and write under one lock acquisition.
WriteCas(t, f) ==
  LET cur == index[f.path]
      g   == [f EXCEPT !.was = cur, !.wrote = TRUE, !.prev = f.exp]
  IN
  \/ /\ cur # f.exp
     /\ Return(t, [f EXCEPT !.out = IF cur = Nil THEN "notfound" ELSE "mismatch"])
     /\ UNCHANGED index
  \/ /\ cur = f.exp
     /\ index' = [index EXCEPT ![f.path] = f.hash]
     /\ \/ /\ f.exp = f.hash
           /\ Return(t, [g EXCEPT !.out = "noop"])
        \/ /\ f.exp # f.hash
           /\ Update(t, [g EXCEPT !.pc = "enter"])
           /\ UNCHANGED returned

\* remove takes out whatever is bound; an unbound path is no change.
WriteRemove(t, f) ==
  LET cur == index[f.path]
      g   == [f EXCEPT !.was = cur, !.wrote = TRUE, !.prev = cur]
  IN
  \/ /\ cur = Nil
     /\ Return(t, [f EXCEPT !.out = "noop"])
     /\ UNCHANGED index
  \/ /\ cur # Nil
     /\ index' = [index EXCEPT ![f.path] = Nil]
     /\ Update(t, [g EXCEPT !.pc = "enter"])
     /\ UNCHANGED returned

Write(t) ==
  /\ At(t, "write")
  /\ LET f == Top(t) IN
       \/ f.op = "set" /\ WriteSet(t, f)
       \/ f.op \in {"swap", "create", "cas_remove"} /\ WriteCas(t, f)
       \/ f.op = "remove" /\ WriteRemove(t, f)
  /\ UNCHANGED <<depth, chainDepths, broadcast, calls>>

-----------------------------------------------------------------------------
(* dispatch_event                                                           *)

\* Count this cascade in; from here on the guard will count it out.
Enter(t) ==
  /\ At(t, "enter")
  /\ depth' = depth + 1
  /\ Update(t, [Top(t) EXCEPT !.pc = "stamp"])
  /\ UNCHANGED <<index, chainDepths, returned, broadcast, calls>>

\* ctx.cascade_depth is read back under a second acquisition of the lock.
Stamp(t) ==
  /\ At(t, "stamp")
  /\ Update(t, [Top(t) EXCEPT !.stamp = depth,
                              !.pc = IF Top(t).chain = NoChain
                                     THEN "hook" ELSE "chain"])
  /\ UNCHANGED <<index, depth, chainDepths, returned, broadcast, calls>>

\* Add this cascade's depth to its chain, or reject it: the mutation stays.
ChainCheck(t) ==
  /\ At(t, "chain")
  /\ LET f     == Top(t)
         total == chainDepths[f.chain] + f.stamp
     IN
       \/ /\ total > DepthLimit
          /\ Update(t, [f EXCEPT !.pc = "leave", !.out = "chain_rejected"])
          /\ UNCHANGED chainDepths
       \/ /\ total <= DepthLimit
          /\ chainDepths' = [chainDepths EXCEPT ![f.chain] = total]
          /\ Update(t, [f EXCEPT !.pc = "hook"])
  /\ UNCHANGED <<index, depth, returned, broadcast, calls>>

\* The next hook returns Ok.
HookOk(t) ==
  /\ At(t, "hook")
  /\ Top(t).hook <= NumHooks
  /\ Update(t, [Top(t) EXCEPT !.hook = @ + 1])
  /\ UNCHANGED <<index, depth, chainDepths, returned, broadcast, calls>>

\* Mutant: a halt is swallowed, and the cascade reported complete.
HookHaltSwallowed(t) ==
  /\ At(t, "hook")
  /\ Top(t).hook <= NumHooks
  /\ Update(t, [Top(t) EXCEPT !.pc = "leave", !.out = "complete"])
  /\ UNCHANGED <<index, depth, chainDepths, returned, broadcast, calls>>

\* The next hook halts the cascade: later hooks and Phase 2 are skipped.
HookHalt(t) ==
  /\ At(t, "hook")
  /\ Top(t).hook <= NumHooks
  /\ Update(t, [Top(t) EXCEPT !.pc = "leave", !.out = "halted"])
  /\ UNCHANGED <<index, depth, chainDepths, returned, broadcast, calls>>

\* The next hook writes to the index: a nested call with the cascade's
\* context, or with none.
HookWrite(t) ==
  /\ At(t, "hook")
  /\ Top(t).hook <= NumHooks
  /\ calls[t] < MaxCalls
  /\ \E c \in {Top(t).chain, NoChain} :
       \E f \in Requests(HookOps, HookPaths, c) :
         /\ WellFormed(f)
         /\ stack' = [stack EXCEPT ![t] = Append(@, f)]
  /\ calls' = [calls EXCEPT ![t] = @ + 1]
  /\ returned' = [returned EXCEPT ![t] = <<>>]
  /\ UNCHANGED <<index, depth, chainDepths, broadcast>>

\* The next hook panics: the stack unwinds call by call.
HookPanic(t) ==
  /\ At(t, "hook")
  /\ Top(t).hook <= NumHooks
  /\ Update(t, [Top(t) EXCEPT !.pc = "unwind"])
  /\ UNCHANGED <<index, depth, chainDepths, returned, broadcast, calls>>

\* All hooks completed: Phase 2 announces the settled change.
Emit(t) ==
  /\ At(t, "hook")
  /\ Top(t).hook = NumHooks + 1
  /\ broadcast' = [broadcast EXCEPT ![Top(t).path] = <<Top(t).hash>>]
  /\ Update(t, [Top(t) EXCEPT !.pc = "leave", !.out = "complete"])
  /\ UNCHANGED <<index, depth, chainDepths, returned, calls>>

\* Mutant: the halt path decrements by hand and the guard decrements again.
LeaveTwice(t) ==
  /\ At(t, "leave")
  /\ depth' = depth - (IF Top(t).out = "halted" THEN 2 ELSE 1)
  /\ Return(t, Top(t))
  /\ UNCHANGED <<index, chainDepths, broadcast, calls>>

\* The guard drops: the cascade counts itself out and returns.
Leave(t) ==
  /\ At(t, "leave")
  /\ depth' = depth - 1
  /\ Return(t, Top(t))
  /\ UNCHANGED <<index, chainDepths, broadcast, calls>>

\* Mutant: without the guard, an unwinding cascade is never counted out.
UnwindUnguarded(t) ==
  /\ At(t, "unwind")
  /\ LET n == Len(stack[t]) IN
     stack' = [stack EXCEPT ![t] =
                 IF n = 1 THEN <<>>
                 ELSE [SubSeq(@, 1, n - 1) EXCEPT ![n - 1].pc = "unwind"]]
  /\ returned' = [returned EXCEPT ![t] = <<>>]
  /\ UNCHANGED <<index, depth, chainDepths, broadcast, calls>>

\* The same guard drops while a panic unwinds, and the caller unwinds too.
Unwind(t) ==
  /\ At(t, "unwind")
  /\ depth' = depth - 1
  /\ LET n == Len(stack[t]) IN
     stack' = [stack EXCEPT ![t] =
                 IF n = 1 THEN <<>>
                 ELSE [SubSeq(@, 1, n - 1) EXCEPT ![n - 1].pc = "unwind"]]
  /\ returned' = [returned EXCEPT ![t] = <<>>]
  /\ UNCHANGED <<index, chainDepths, broadcast, calls>>

Step(t) ==
  \/ Check(t) \/ ReadPrevious(t) \/ Write(t)
  \/ Enter(t) \/ Stamp(t) \/ ChainCheck(t)
  \/ HookOk(t) \/ HookHalt(t) \/ HookWrite(t) \/ HookPanic(t)
  \/ Emit(t) \/ Leave(t) \/ Unwind(t)

Next == \E t \in Threads : Call(t) \/ Step(t)

Spec == Init /\ [][Next]_vars

-----------------------------------------------------------------------------
(* Properties.                                                              *)

\* Every variable keeps its type.  The part that is not by construction: the
\* unsigned counter cascade_depth never goes below zero, whichever way cascades end.
TypeOK ==
  /\ index \in [Paths -> Hashes \cup {Nil}]
  /\ depth \in Nat
  /\ chainDepths \in [Chains -> Nat]
  /\ stack \in [Threads -> Seq(Calls)]
  /\ returned \in [Threads -> Calls \cup {<<>>}]
  /\ broadcast \in [Paths -> {<<>>} \cup {<<h>> : h \in Hashes \cup {Nil}}]
  /\ calls \in [Threads -> 0..MaxCalls]

\* The calls of all threads that hold a CascadeGuard.
Cascades ==
  {x \in Threads \X (1..MaxCalls) :
     x[2] <= Len(stack[x[1]]) /\ Entered(stack[x[1]][x[2]])}

\* cascade_depth is exactly the number of cascades in progress, over all
\* threads and all nesting levels: whatever way a cascade ends (completion,
\* halt, chain rejection, or a panic in a hook), its guard counts it out once.
\* In particular the counter is back at 0 when nothing runs, so a halted or
\* panicked write never leaves the index refusing later ones.
DepthCountsCascades == depth = Cardinality(Cascades)

\* The recursion of hooks that write is bounded: a call that passed the depth
\* test is at most DepthLimit calls deep on its own thread.
NestingBounded ==
  \A t \in Threads :
    stack[t] # <<>> /\ Top(t).pc # "check" => Len(stack[t]) <= DepthLimit

\* The depth test and the increment are separate lock acquisitions, so the
\* counter can pass the limit, but only by one cascade per other thread.
OvershootBounded == depth <= DepthLimit + Cardinality(Threads) - 1

\* No other thread writes path p, neither by itself nor by its hooks.
Exclusive(t, p) == \A u \in Threads \ {t} : p \notin Scope[u] \cup HookPaths

\* Where plain set is used, no other thread writes.  The compare operations may meet.
SetsAlone ==
  /\ "set" \in Ops => \A t \in Threads : \A p \in Scope[t] : Exclusive(t, p)
  /\ "set" \in HookOps => \A t \in Threads : \A p \in HookPaths : Exclusive(t, p)

\* The paths of a thread are its own, and no hook writes them.
WritesAlone ==
  \A t \in Threads : \A p \in Scope[t] : p \notin HookPaths /\ Exclusive(t, p)

\* An event's previous_hash is the binding the mutation really replaced, and a
\* write suppressed as a no-op really left the binding as it was.
EventsAreReal ==
  /\ \A x \in Cascades : stack[x[1]][x[2]].prev = stack[x[1]][x[2]].was
  /\ \A t \in Threads :
       returned[t] # <<>> /\ returned[t].out = "noop" /\ returned[t].wrote
         => returned[t].was = returned[t].hash

\* A writer whose call returned complete and that alone writes the path finds
\* its binding in the index and as the last change Phase 2 announced.
CompleteIsSettled ==
  \A t \in Threads :
    stack[t] = <<>> /\ returned[t] # <<>> /\ returned[t].out = "complete"
      => /\ index[returned[t].path] = returned[t].hash
         /\ broadcast[returned[t].path] = <<returned[t].hash>>

\* CascadeResult::binding_committed of an outcome (an error for the CAS ones).
BindingCommitted(f) == f.out \in {"noop", "complete", "halted"}

\* A call that reports its binding as not committed changed no binding.
NotCommittedMeansUnchanged ==
  \A t \in Threads :
    returned[t] # <<>> /\ ~BindingCommitted(returned[t]) => ~returned[t].wrote
=============================================================================
