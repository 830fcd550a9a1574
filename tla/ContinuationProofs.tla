-------------------------- MODULE ContinuationProofs --------------------------
(***************************************************************************)
(* What Continuation promises, for any number of tasks, joins, slots,      *)
(* forwards, installs and advances.  Three invariants carry the proofs:    *)
(*                                                                         *)
(*   TypeInv  types; what the pc of a task says of the rest of it; a       *)
(*            join's mutex is held by exactly the task that works on it;   *)
(*            what a join or a copy of it received is of its round.        *)
(*   FireInv  rounds fired and rounds left are no more than the join was   *)
(*            installed for: in the tree and in the copies of tasks.       *)
(*            It is the copy that is written back, so the invariant is     *)
(*            about both, and one task at a time has a copy of a join.     *)
(*   AgeInv   dispatches charged to a forward, less those in flight, are   *)
(*            what its remaining executions have gone down by since it was *)
(*            installed.                                                   *)
(***************************************************************************)
EXTENDS Continuation, FiniteSetTheorems, TLAPS

-----------------------------------------------------------------------------
(* Joins.                                                                   *)

\* What came in belongs to the round, and a counted join has rounds left.
JoinOK(jn) ==
  /\ jn \in JoinType
  /\ jn.cfg.deadline => \A s \in Slots : jn.received[s] \in {Nothing, Untagged, jn.round}
  /\ jn.cfg.count > 0 => jn.left > 0

\* k is what is left of jn, or jn with more results.
Same(jn, k) == k.inst = jn.inst /\ k.cfg = jn.cfg

\* A newly installed join.
LEMMA NewJoinOK ==
  ASSUME NEW c \in JoinConfigs, NEW S \in SUBSET Slots, NEW i \in Nat
  PROVE  LET jn == NewJoin(c, S, i) IN
         JoinOK(jn) /\ jn.inst = i /\ jn.cfg = c /\ jn.left = c.count
<1>1. c \in ConfigType
  BY ConfigAssumption
<1>2. NewJoin(c, S, i) \in JoinType
  BY <1>1 DEF NewJoin, JoinType, Results, ConfigType
<1> QED
  BY <1>1, <1>2 DEF NewJoin, JoinOK, ConfigType

\* A join whose round was reset.
LEMMA ResetOK ==
  ASSUME NEW jn, JoinOK(jn)
  PROVE  JoinOK(ResetRound(jn)) /\ Same(jn, ResetRound(jn)) /\ ResetRound(jn).left = jn.left
<1>1. (IF jn.cfg.deadline THEN jn.round + 1 ELSE jn.round) \in Nat
  BY DEF JoinOK, JoinType
<1>2. NoResults \in [Slots -> Results] /\ \A s \in Slots : NoResults[s] = Nothing
  BY DEF NoResults, Results
<1>3. ResetRound(jn) \in JoinType
  BY <1>1, <1>2 DEF ResetRound, JoinOK, JoinType
<1> QED
  BY <1>2, <1>3 DEF ResetRound, JoinOK, JoinType, Same

\* What is left after a round: a counted join has one round less.
LEMMA FinishedOK ==
  ASSUME NEW jn, JoinOK(jn)
  PROVE  \/ Finished(jn) = Nothing
         \/ /\ JoinOK(Finished(jn)) /\ Same(jn, Finished(jn))
            /\ Finished(jn).left = IF jn.left = 0 THEN 0 ELSE jn.left - 1
<1> DEFINE r == ResetRound(jn)
           k == [r EXCEPT !.left = IF @ = 0 THEN 0 ELSE @ - 1]
<1>1. r \in JoinType /\ JoinOK(r) /\ Same(jn, r) /\ r.left = jn.left /\ jn.left \in Nat
  BY ResetOK DEF JoinOK, JoinType
<1> HIDE DEF r
<1>2. CASE jn.left # 1
  <2>1. (IF r.left = 0 THEN 0 ELSE r.left - 1) \in Nat
    BY <1>1
  <2>2. /\ k \in JoinType /\ k.cfg = r.cfg /\ k.received = r.received /\ k.round = r.round
        /\ k.inst = r.inst /\ k.left = IF r.left = 0 THEN 0 ELSE r.left - 1
    BY <1>1, <2>1 DEF JoinType
  <2>3. Finished(jn) = k
    BY <1>2 DEF Finished, r
  <2> HIDE DEF k
  <2>4. r.cfg.count > 0 => k.left > 0
    BY <1>1, <1>2, <2>2 DEF JoinOK
  <2> QED
    BY <1>1, <2>2, <2>3, <2>4 DEF JoinOK, Same
<1> QED
  BY <1>2 DEF Finished

\* A join with one more result, of its round.
LEMMA AccumulateOK ==
  ASSUME NEW jn, JoinOK(jn), NEW s \in Slots, NEW r \in Nat \cup {Untagged},
         jn.cfg.deadline => r \in {Untagged, jn.round}
  PROVE  /\ JoinOK(Accumulate(jn, s, r)) /\ Same(jn, Accumulate(jn, s, r))
         /\ Accumulate(jn, s, r).left = jn.left
<1> DEFINE k == Accumulate(jn, s, r)
<1>1. [jn.received EXCEPT ![s] = r] \in [Slots -> Results]
  BY DEF JoinOK, JoinType, Results
<1>2. k \in JoinType
  BY <1>1 DEF Accumulate, JoinOK, JoinType
<1>3. /\ k.received = [jn.received EXCEPT ![s] = r] /\ k.cfg = jn.cfg /\ k.round = jn.round
      /\ k.inst = jn.inst /\ k.left = jn.left
  BY DEF Accumulate, JoinOK, JoinType
<1> HIDE DEF k
<1>4. ASSUME k.cfg.deadline, NEW x \in Slots
      PROVE  k.received[x] \in {Nothing, Untagged, k.round}
  <2>1. jn.received \in [Slots -> Results] /\ jn.cfg.deadline
    BY <1>3, <1>4 DEF JoinOK, JoinType
  <2>2. CASE x = s
    BY <1>3, <2>1, <2>2
  <2>3. CASE x # s
    BY <1>3, <2>1, <2>3 DEF JoinOK
  <2> QED
    BY <2>2, <2>3
<1>5. k.cfg.count > 0 => k.left > 0
  BY <1>3 DEF JoinOK
<1>6. JoinOK(k)
  BY <1>2, <1>4, <1>5 DEF JoinOK
<1> QED
  BY <1>3, <1>6 DEF Same, k

-----------------------------------------------------------------------------
(* Types, and who holds which mutex.                                        *)

TaskType ==
  [pc : PCs, path : Joins \cup Forwards \cup {Nothing}, slot : Slots \cup {Nothing},
   round : Nat \cup {Untagged}, queue : SUBSET Joins, join : Joins \cup {Nothing},
   copy : JoinType \cup {Nothing}, seen : Nat]

\* A task that works on a copy of a join.
Copying == {"abandon", "sweepfire", "note", "touched", "reap", "judged", "fire"}

\* What the pc of a task says of the rest of it.
TaskOK(t) ==
  /\ t \in TaskType
  /\ t.pc \in Sweeping \cup {"sweepwait"} => t.join \in Joins
  /\ IF t.pc = "idle" THEN t.path = Nothing ELSE t.path \in Joins \cup Forwards
  /\ t.path \in Joins => t.slot \in Slots
  /\ t.pc \in Inside \cup {"wait"} => t.path \in Joins
  /\ t.pc \in {"dispatch", "age", "cas"} => t.path \in Forwards
  /\ t.pc = "cas" => t.seen \in 1..Executions
  /\ IF t.pc \in Copying THEN JoinOK(t.copy) ELSE t.copy = Nothing

\* The task is working on join j under its mutex.
Holds(t, j) ==
  \/ t.pc \in Sweeping /\ t.join = j
  \/ t.pc \in Inside /\ t.path = j

LockInv == \A j \in Joins : \A a \in Tasks : lock[j] = a <=> Holds(task[a], j)

TypeInv ==
  /\ joins = [j \in Joins |-> joins[j]]
  /\ \A j \in Joins : joins[j] = Nothing \/ JoinOK(joins[j])
  /\ forwards \in [Forwards -> 1..Executions \cup {Nothing}]
  /\ tracked \subseteq Joins /\ noting \in [Joins -> Nat]
  /\ lock \in [Joins -> Tasks \cup {Nothing}]
  /\ task \in [Tasks -> TaskType] /\ \A a \in Tasks : TaskOK(task[a])
  /\ LockInv
  /\ parent \in [Tasks -> Tasks \cup {Nothing}]
  /\ advances \in 0..MaxAdvances /\ installs \in 0..MaxInstalls
  /\ fires \in [Joins -> [0..MaxInstalls -> Nat]]
  /\ granted \in [Forwards -> 1..Executions] /\ charged \in [Forwards -> Nat]

\* A task that has nothing to do.
LEMMA IdleOK == TaskOK(IdleTask) /\ \A j \in Joins : ~Holds(IdleTask, j)
<1>1. IdleTask \in TaskType
  BY DEF IdleTask, TaskType, PCs
<1> QED
  BY <1>1, PathAssumption DEF IdleTask, TaskOK, Copying, Holds, Sweeping, Inside

\* Nothing has come in and nobody holds a mutex at first.
LEMMA TypeInit == Init => TypeInv
<1> SUFFICES ASSUME Init PROVE TypeInv
  OBVIOUS
<1> USE PathAssumption, ConfigAssumption
<1>1. PICK cs \in [Joins -> JoinConfigs], S \in [Joins -> SUBSET Slots] :
        joins = [j \in Joins |-> NewJoin(cs[j], S[j], 0)]
  BY DEF Init
<1>2. \A j \in Joins : JoinOK(joins[j])
  BY <1>1, NewJoinOK
<1>3. Cardinality(Joins) \in Nat
  BY FS_CardinalityType
<1>4. /\ task = [a \in Tasks |-> IdleTask] /\ lock = [j \in Joins |-> Nothing]
  BY DEF Init
<1>5. task \in [Tasks -> TaskType] /\ \A a \in Tasks : TaskOK(task[a])
  BY <1>4, IdleOK DEF TaskOK
<1>6. LockInv
  BY <1>4, IdleOK DEF LockInv
<1> QED
  BY <1>1, <1>2, <1>3, <1>4, <1>5, <1>6 DEF Init, TypeInv

\* A step that replaces the state of one task, and keeps the mutexes.
LEMMA SetKeeps ==
  ASSUME TypeInv, NEW a \in Tasks, NEW t, Set(a, t), TaskOK(t), UNCHANGED lock,
         \A j \in Joins : Holds(t, j) <=> Holds(task[a], j)
  PROVE  /\ task' \in [Tasks -> TaskType] /\ \A b \in Tasks : TaskOK(task'[b])
         /\ LockInv'
<1>1. task' \in [Tasks -> TaskType]
  BY DEF Set, TypeInv, TaskOK
<1>2. task'[a] = t /\ \A b \in Tasks \ {a} : task'[b] = task[b]
  BY DEF Set, TypeInv
<1> QED
  BY <1>1, <1>2 DEF TypeInv, LockInv

\* A step that takes the mutex of a join.
LEMMA SetAcquires ==
  ASSUME TypeInv, NEW a \in Tasks, NEW t, Set(a, t), TaskOK(t), NEW j \in Joins,
         Acquire(a, j), \A k \in Joins : ~Holds(task[a], k),
         \A k \in Joins : Holds(t, k) <=> k = j
  PROVE  /\ task' \in [Tasks -> TaskType] /\ \A b \in Tasks : TaskOK(task'[b])
         /\ LockInv' /\ lock' \in [Joins -> Tasks \cup {Nothing}]
<1>1. task' \in [Tasks -> TaskType] /\ lock' \in [Joins -> Tasks \cup {Nothing}]
  BY DEF Set, TypeInv, TaskOK, Acquire
<1>2. task'[a] = t /\ \A b \in Tasks \ {a} : task'[b] = task[b]
  BY DEF Set, TypeInv
<1>3. lock[j] = Nothing /\ lock'[j] = a /\ \A k \in Joins \ {j} : lock'[k] = lock[k]
  BY DEF Acquire, TypeInv
<1>4. ASSUME NEW k \in Joins, NEW b \in Tasks
      PROVE  lock'[k] = b <=> Holds(task'[b], k)
  <2>1. lock[k] = b <=> Holds(task[b], k)
    BY DEF TypeInv, LockInv
  <2>2. CASE b = a
    BY <1>2, <1>3, <2>1, <2>2
  <2>3. CASE b # a /\ k = j
    BY <1>2, <1>3, <2>1, <2>3, PathAssumption
  <2>4. CASE b # a /\ k # j
    BY <1>2, <1>3, <2>1, <2>4
  <2> QED
    BY <2>2, <2>3, <2>4
<1> QED
  BY <1>1, <1>2, <1>4 DEF TypeInv, LockInv

\* A step that gives it back.
LEMMA SetReleases ==
  ASSUME TypeInv, NEW a \in Tasks, NEW t, Set(a, t), TaskOK(t), NEW j \in Joins,
         Release(j), Holds(task[a], j), \A k \in Joins : ~Holds(t, k)
  PROVE  /\ task' \in [Tasks -> TaskType] /\ \A b \in Tasks : TaskOK(task'[b])
         /\ LockInv' /\ lock' \in [Joins -> Tasks \cup {Nothing}]
<1>1. task' \in [Tasks -> TaskType] /\ lock' \in [Joins -> Tasks \cup {Nothing}]
  BY DEF Set, TypeInv, TaskOK, Release
<1>2. task'[a] = t /\ \A b \in Tasks \ {a} : task'[b] = task[b]
  BY DEF Set, TypeInv
<1>3. lock[j] = a /\ lock'[j] = Nothing /\ \A k \in Joins \ {j} : lock'[k] = lock[k]
  BY DEF Release, TypeInv, LockInv
<1>4. \A k \in Joins \ {j} : ~Holds(task[a], k)
  BY <1>3 DEF TypeInv, TaskOK, Holds, Sweeping, Inside
<1>5. ASSUME NEW k \in Joins, NEW b \in Tasks
      PROVE  lock'[k] = b <=> Holds(task'[b], k)
  <2>1. lock[k] = b <=> Holds(task[b], k)
    BY DEF TypeInv, LockInv
  <2>2. CASE b = a
    BY <1>2, <1>3, <1>4, <2>1, <2>2, PathAssumption
  <2>3. CASE b # a /\ k = j
    BY <1>2, <1>3, <2>1, <2>3, PathAssumption
  <2>4. CASE b # a /\ k # j
    BY <1>2, <1>3, <2>1, <2>4
  <2> QED
    BY <2>2, <2>3, <2>4
<1> QED
  BY <1>1, <1>2, <1>5 DEF TypeInv, LockInv

\* A request: the path of a forward, or a slot of a join.
LEMMA RequestOK ==
  ASSUME TypeInv, NEW t \in Requests
  PROVE  /\ t \in TaskType /\ t.copy = Nothing /\ t.path \in Joins \cup Forwards
         /\ t.path \in Joins => t.slot \in Slots
<1>0. IdleTask \in TaskType /\ IdleTask.copy = Nothing
  BY IdleOK DEF TaskOK, IdleTask
<1>1. ASSUME NEW f \in Forwards, t = ForwardRequest(f)
      PROVE  /\ t \in TaskType /\ t.copy = Nothing /\ t.path \in Joins \cup Forwards
             /\ t.path \in Joins => t.slot \in Slots
  BY <1>0, <1>1, PathAssumption DEF TaskType, ForwardRequest
<1>2. ASSUME NEW j \in Joins, NEW s \in Slots, NEW r \in Rounds(j), t = SlotRequest(j, s, r)
      PROVE  /\ t \in TaskType /\ t.copy = Nothing /\ t.path \in Joins \cup Forwards
             /\ t.path \in Joins => t.slot \in Slots
  <2>1. joins[j] # Nothing => joins[j].round \in Nat
    BY DEF TypeInv, JoinOK, JoinType
  <2>2. r \in Nat \cup {Untagged}
    BY <2>1, <1>2 DEF Rounds
  <2> QED
    BY <1>0, <1>2, <2>2 DEF TaskType, SlotRequest
<1>3. \/ \E f \in Forwards : t = ForwardRequest(f)
      \/ \E j \in Joins : \E s \in Slots, r \in Rounds(j) : t = SlotRequest(j, s, r)
  BY DEF Requests
<1> QED
  BY <1>1, <1>2, <1>3

\* A join is replaced by what is left of it, or removed.
LEMMA PutOK ==
  ASSUME TypeInv, NEW j \in Joins, NEW k, k = Nothing \/ JoinOK(k),
         joins' = [joins EXCEPT ![j] = k]
  PROVE  /\ joins' = [i \in Joins |-> joins'[i]]
         /\ \A i \in Joins : joins'[i] = Nothing \/ JoinOK(joins'[i])
<1>1. joins = [i \in Joins |-> joins[i]]
  BY DEF TypeInv
<1>2. joins'[j] = k /\ \A i \in Joins \ {j} : joins'[i] = joins[i]
  BY <1>1
<1>3. joins' = [i \in Joins |-> joins'[i]]
  BY <1>1
<1> QED
  BY <1>2, <1>3 DEF TypeInv

\* The advance returns.
LEMMA ReturnOK ==
  ASSUME TypeInv, NEW a \in Tasks, Return(a)
  PROVE  Set(a, IdleTask) /\ parent' \in [Tasks -> Tasks \cup {Nothing}]
  BY DEF Return, TypeInv

\* An advance begins: by itself or from a dispatch.
LEMMA AdvanceType ==
  ASSUME TypeInv, NEW a \in Tasks, NEW p \in Tasks \cup {Nothing}, Advance(a, p)
  PROVE  TypeInv'
<1> USE DEF Advance, stored
<1>1. PICK t \in Requests : \/ Set(a, [t EXCEPT !.pc = "sweep", !.queue = tracked])
                            \/ Set(a, [t EXCEPT !.pc = "path"])
  OBVIOUS
<1>2. /\ t \in TaskType /\ t.copy = Nothing /\ t.path \in Joins \cup Forwards
      /\ t.path \in Joins => t.slot \in Slots
  BY RequestOK
<1>3. PICK u : Set(a, u) /\ u \in {[t EXCEPT !.pc = "sweep", !.queue = tracked],
                                   [t EXCEPT !.pc = "path"]}
  BY <1>1
<1>4. tracked \subseteq Joins
  BY DEF TypeInv
<1>5. u \in TaskType /\ u.pc \in {"sweep", "path"} /\ u.path = t.path /\ u.slot = t.slot
      /\ u.copy = Nothing
  BY <1>2, <1>3, <1>4 DEF TaskType, PCs
<1>6. TaskOK(u) /\ \A j \in Joins : ~Holds(u, j)
  BY <1>2, <1>5 DEF TaskOK, Holds, Copying, Sweeping, Inside
<1>7. \A j \in Joins : ~Holds(task[a], j)
  BY DEF At, Holds, Sweeping, Inside
<1>8. task' \in [Tasks -> TaskType] /\ (\A b \in Tasks : TaskOK(task'[b])) /\ LockInv'
  BY <1>3, <1>6, <1>7, SetKeeps
<1>9. advances' \in 0..MaxAdvances
  BY ConfigAssumption DEF TypeInv
<1> QED
  BY <1>8, <1>9 DEF TypeInv

\* The pc alone changes.
LEMMA GotoOK ==
  ASSUME NEW t, TaskOK(t), NEW pc \in PCs, NEW u, u = [t EXCEPT !.pc = pc]
  PROVE  /\ u \in TaskType /\ u.pc = pc /\ u.path = t.path /\ u.slot = t.slot
         /\ u.join = t.join /\ u.copy = t.copy /\ u.seen = t.seen /\ u.round = t.round
  BY DEF TaskOK, TaskType

\* The sweep goes on to the next join, or to the path of the request.
LEMMA SweepNextType ==
  ASSUME TypeInv, NEW a \in Tasks, SweepNext(a)
  PROVE  TypeInv'
<1> USE DEF SweepNext, stored, history
<1>1. TaskOK(task[a]) /\ task[a] \in TaskType
  BY DEF TypeInv
<1>2. PICK u : /\ Set(a, u)
               /\ \/ u = [task[a] EXCEPT !.pc = "path", !.join = Nothing]
                  \/ \E j \in task[a].queue :
                       u = [task[a] EXCEPT !.pc = "sweepwait", !.join = j, !.queue = @ \ {j}]
  OBVIOUS
<1>3. /\ u \in TaskType /\ u.path = task[a].path /\ u.slot = task[a].slot
      /\ u.copy = task[a].copy
      /\ u.pc = "path" \/ (u.pc = "sweepwait" /\ u.join \in Joins)
  <2>1. CASE u = [task[a] EXCEPT !.pc = "path", !.join = Nothing]
    BY <1>1, <2>1 DEF TaskType, PCs
  <2>2. ASSUME NEW j \in task[a].queue,
               u = [task[a] EXCEPT !.pc = "sweepwait", !.join = j, !.queue = @ \ {j}]
        PROVE  /\ u \in TaskType /\ u.path = task[a].path /\ u.slot = task[a].slot
               /\ u.copy = task[a].copy /\ u.pc = "sweepwait" /\ u.join \in Joins
    <3>1. j \in Joins /\ task[a].queue \ {j} \in SUBSET Joins
      BY <1>1 DEF TaskType
    <3> QED
      BY <1>1, <2>2, <3>1 DEF TaskType, PCs
  <2> QED
    BY <1>2, <2>1, <2>2
<1>4. TaskOK(u) /\ (\A j \in Joins : ~Holds(u, j)) /\ \A j \in Joins : ~Holds(task[a], j)
  BY <1>1, <1>3 DEF TaskOK, Holds, Copying, At, Sweeping, Inside
<1>5. task' \in [Tasks -> TaskType] /\ (\A b \in Tasks : TaskOK(task'[b])) /\ LockInv'
  BY <1>2, <1>4, SetKeeps
<1> QED
  BY <1>5 DEF TypeInv

\* The mutex of the join that is swept is taken.
LEMMA SweepLockType ==
  ASSUME TypeInv, NEW a \in Tasks, SweepLock(a)
  PROVE  TypeInv'
<1> USE DEF SweepLock, stored, history
<1> DEFINE u == [task[a] EXCEPT !.pc = "sweepjoin"]
<1>1. TaskOK(task[a]) /\ Set(a, u) /\ At(a, "sweepwait")
  BY DEF TypeInv, Goto
<1>2. /\ u \in TaskType /\ u.pc = "sweepjoin" /\ u.path = task[a].path
      /\ u.slot = task[a].slot /\ u.join = task[a].join /\ u.copy = task[a].copy
  BY <1>1, GotoOK DEF PCs
<1> HIDE DEF u
<1>3. TaskOK(u) /\ task[a].join \in Joins
  BY <1>1, <1>2 DEF TaskOK, Copying, At, Sweeping, Inside
<1>4. (\A j \in Joins : ~Holds(task[a], j)) /\ \A j \in Joins : Holds(u, j) <=> j = task[a].join
  BY <1>1, <1>2 DEF Holds, At, Sweeping, Inside
<1>5. /\ task' \in [Tasks -> TaskType] /\ \A b \in Tasks : TaskOK(task'[b])
      /\ LockInv' /\ lock' \in [Joins -> Tasks \cup {Nothing}]
  BY <1>1, <1>3, <1>4, SetAcquires
<1> QED
  BY <1>5 DEF TypeInv

\* The mutex of the join that is advanced is taken.
LEMMA JoinLockType ==
  ASSUME TypeInv, NEW a \in Tasks, JoinLock(a)
  PROVE  TypeInv'
<1> USE DEF JoinLock, stored, history
<1> DEFINE u == [task[a] EXCEPT !.pc = "slot"]
<1>1. TaskOK(task[a]) /\ Set(a, u) /\ At(a, "wait")
  BY DEF TypeInv, Goto
<1>2. /\ u \in TaskType /\ u.pc = "slot" /\ u.path = task[a].path
      /\ u.slot = task[a].slot /\ u.join = task[a].join /\ u.copy = task[a].copy
  BY <1>1, GotoOK DEF PCs
<1> HIDE DEF u
<1>3. TaskOK(u) /\ task[a].path \in Joins
  BY <1>1, <1>2 DEF TaskOK, Copying, At, Sweeping, Inside
<1>4. (\A j \in Joins : ~Holds(task[a], j)) /\ \A j \in Joins : Holds(u, j) <=> j = task[a].path
  BY <1>1, <1>2 DEF Holds, At, Sweeping, Inside
<1>5. /\ task' \in [Tasks -> TaskType] /\ \A b \in Tasks : TaskOK(task'[b])
      /\ LockInv' /\ lock' \in [Joins -> Tasks \cup {Nothing}]
  BY <1>1, <1>3, <1>4, SetAcquires
<1> QED
  BY <1>5 DEF TypeInv

\* The task goes on with, or without, a JoinData in hand.
With(t, pc, c) == [t EXCEPT !.pc = pc, !.copy = c]

LEMMA CopyOK ==
  ASSUME NEW t, TaskOK(t), NEW pc \in PCs, NEW c \in JoinType \cup {Nothing}
  PROVE  LET u == With(t, pc, c) IN
         /\ u \in TaskType /\ u.pc = pc /\ u.path = t.path /\ u.slot = t.slot
         /\ u.join = t.join /\ u.copy = c /\ u.seen = t.seen
  BY DEF TaskOK, TaskType, With

\* Goto keeps the copy.
LEMMA GotoWith ==
  ASSUME NEW a \in Tasks, task[a] \in TaskType, NEW pc, Goto(a, pc)
  PROVE  Set(a, With(task[a], pc, task[a].copy))
<1>1. [task[a] EXCEPT !.pc = pc] = With(task[a], pc, task[a].copy)
  BY DEF TaskType, With
<1> QED
  BY <1>1 DEF Goto

\* The sweep of a join goes on under its mutex.
LEMMA StaysSweeping ==
  ASSUME TypeInv, NEW a \in Tasks, task[a].pc \in Sweeping, UNCHANGED lock,
         NEW pc \in Sweeping, NEW c, IF pc \in Copying THEN JoinOK(c) ELSE c = Nothing,
         Set(a, With(task[a], pc, c))
  PROVE  /\ task' \in [Tasks -> TaskType] /\ \A b \in Tasks : TaskOK(task'[b])
         /\ LockInv'
<1> DEFINE u == With(task[a], pc, c)
<1>1. TaskOK(task[a]) /\ pc \in PCs /\ c \in JoinType \cup {Nothing}
  BY DEF TypeInv, Sweeping, PCs, JoinOK
<1>2. /\ u \in TaskType /\ u.pc = pc /\ u.path = task[a].path /\ u.join = task[a].join
      /\ u.slot = task[a].slot /\ u.copy = c
  BY <1>1, CopyOK
<1>3. Set(a, u)
  OBVIOUS
<1> HIDE DEF u
<1>4. TaskOK(u) /\ \A j \in Joins : Holds(u, j) <=> Holds(task[a], j)
  BY <1>1, <1>2 DEF TaskOK, Holds, Sweeping, Inside
<1> QED
  BY <1>3, <1>4, SetKeeps

\* The sweep is done with the join.
LEMMA SweepReleases ==
  ASSUME TypeInv, NEW a \in Tasks, task[a].pc \in Sweeping, Release(task[a].join),
         Set(a, With(task[a], "sweep", Nothing))
  PROVE  /\ task' \in [Tasks -> TaskType] /\ \A b \in Tasks : TaskOK(task'[b])
         /\ LockInv' /\ lock' \in [Joins -> Tasks \cup {Nothing}]
<1> DEFINE u == With(task[a], "sweep", Nothing)
<1>1. TaskOK(task[a]) /\ task[a].join \in Joins /\ Holds(task[a], task[a].join)
  BY DEF TypeInv, TaskOK, Holds
<1>2. /\ u \in TaskType /\ u.pc = "sweep" /\ u.path = task[a].path
      /\ u.slot = task[a].slot /\ u.copy = Nothing
  BY <1>1, CopyOK DEF PCs
<1>3. Set(a, u)
  OBVIOUS
<1> HIDE DEF u
<1>4. TaskOK(u) /\ \A k \in Joins : ~Holds(u, k)
  BY <1>1, <1>2 DEF TaskOK, Holds, Copying, Sweeping, Inside
<1> QED
  BY <1>1, <1>3, <1>4, SetReleases

\* The sweep reads a join, under its mutex.
LEMMA SweepReadType ==
  ASSUME TypeInv, NEW a \in Tasks, SweepRead(a)
  PROVE  TypeInv'
<1> USE DEF SweepRead, stored, history
<1> DEFINE j == task[a].join
           jn == joins[j]
<1>1. /\ task[a] \in TaskType /\ task[a].pc = "sweepjoin" /\ task[a].pc \in Sweeping
      /\ j \in Joins /\ task[a].copy = Nothing
  BY DEF TypeInv, TaskOK, At, Copying, Sweeping
<1>2. jn # Nothing => JoinOK(jn)
  BY <1>1 DEF TypeInv
<1>3. /\ "forget" \in Sweeping \ Copying
      /\ \A pc \in {"sweepfire", "abandon"} : pc \in Sweeping \cap Copying
  BY DEF Sweeping, Copying
<1>4. CASE Goto(a, "forget") /\ UNCHANGED lock
  <2>1. Set(a, With(task[a], "forget", Nothing))
    BY <1>1, <1>4, GotoWith
  <2>2. task' \in [Tasks -> TaskType] /\ (\A b \in Tasks : TaskOK(task'[b])) /\ LockInv'
    BY <1>1, <1>3, <1>4, <2>1, StaysSweeping
  <2> QED
    BY <1>4, <2>2 DEF TypeInv
<1>5. CASE Release(j) /\ Goto(a, "sweep")
  <2>1. Set(a, With(task[a], "sweep", Nothing))
    BY <1>1, <1>5, GotoWith
  <2>2. /\ task' \in [Tasks -> TaskType] /\ \A b \in Tasks : TaskOK(task'[b])
        /\ LockInv' /\ lock' \in [Joins -> Tasks \cup {Nothing}]
    BY <1>1, <1>5, <2>1, SweepReleases
  <2> QED
    BY <2>2 DEF TypeInv
<1>6. ASSUME jn # Nothing, UNCHANGED lock, NEW pc \in {"sweepfire", "abandon"},
             Set(a, With(task[a], pc, jn))
      PROVE  TypeInv'
  <2>1. task' \in [Tasks -> TaskType] /\ (\A b \in Tasks : TaskOK(task'[b])) /\ LockInv'
    BY <1>1, <1>2, <1>3, <1>6, StaysSweeping
  <2> QED
    BY <1>6, <2>1 DEF TypeInv
<1>7. CASE /\ jn # Nothing /\ UNCHANGED lock
           /\ Set(a, With(task[a], IF jn.cfg.partial THEN "sweepfire" ELSE "abandon", jn))
  BY <1>6, <1>7
<1> QED
  BY <1>4, <1>5, <1>7 DEF With

\* The path is forgotten.
LEMMA SweepForgetType ==
  ASSUME TypeInv, NEW a \in Tasks, SweepForget(a)
  PROVE  TypeInv'
<1> USE DEF SweepForget, history
<1>1. task[a] \in TaskType /\ task[a].copy = Nothing /\ task[a].pc \in Sweeping
  BY DEF TypeInv, TaskOK, At, Copying, Sweeping
<1>2. Set(a, With(task[a], "sweep", Nothing))
  BY <1>1, GotoWith
<1>3. /\ task' \in [Tasks -> TaskType] /\ \A b \in Tasks : TaskOK(task'[b])
      /\ LockInv' /\ lock' \in [Joins -> Tasks \cup {Nothing}]
  BY <1>1, <1>2, SweepReleases
<1> QED
  BY <1>3 DEF TypeInv

\* The count of a round that fired.
LEMMA CountOK ==
  ASSUME TypeInv, NEW j \in Joins, NEW jn, CountFire(j, jn)
  PROVE  fires' \in [Joins -> [0..MaxInstalls -> Nat]]
<1>1. fires[j] \in [0..MaxInstalls -> Nat]
  BY DEF TypeInv
<1>2. ASSUME NEW D, NEW f \in [D -> Nat], NEW i
      PROVE  [f EXCEPT ![i] = @ + 1] \in [D -> Nat]
  <2>1. ASSUME NEW d \in D PROVE [f EXCEPT ![i] = @ + 1][d] \in Nat
    OBVIOUS
  <2> QED
    BY <2>1
<1> QED
  BY <1>1, <1>2 DEF CountFire, TypeInv

\* A round is over: what is left of the copy is stored.
LEMMA FinishOK ==
  ASSUME TypeInv, NEW j \in Joins, NEW jn, JoinOK(jn), FinishRound(j, jn)
  PROVE  /\ joins' = [i \in Joins |-> joins'[i]]
         /\ \A i \in Joins : joins'[i] = Nothing \/ JoinOK(joins'[i])
<1>1. Finished(jn) = Nothing \/ JoinOK(Finished(jn))
  BY FinishedOK
<1> QED
  BY <1>1, PutOK DEF FinishRound

\* The round of the join that was read is abandoned.
LEMMA SweepAbandonType ==
  ASSUME TypeInv, NEW a \in Tasks, SweepAbandon(a)
  PROVE  TypeInv'
<1> USE DEF SweepAbandon, history
<1>1. task[a].join \in Joins /\ JoinOK(task[a].copy) /\ task[a].pc \in Sweeping
  BY DEF TypeInv, TaskOK, At, Copying, Sweeping
<1>2. /\ task' \in [Tasks -> TaskType] /\ \A b \in Tasks : TaskOK(task'[b])
      /\ LockInv' /\ lock' \in [Joins -> Tasks \cup {Nothing}]
  BY <1>1, SweepReleases DEF With
<1>3. /\ joins' = [i \in Joins |-> joins'[i]]
      /\ \A i \in Joins : joins'[i] = Nothing \/ JoinOK(joins'[i])
  BY <1>1, FinishOK
<1> QED
  BY <1>2, <1>3 DEF TypeInv

\* The sweep's partial fire returns.
LEMMA SweepFiredType ==
  ASSUME TypeInv, NEW a \in Tasks, SweepFired(a)
  PROVE  TypeInv'
<1> USE DEF SweepFired
<1>1. task[a].join \in Joins /\ JoinOK(task[a].copy) /\ task[a].pc \in Sweeping
  BY DEF TypeInv, TaskOK, At, Copying, Sweeping
<1>2. /\ task' \in [Tasks -> TaskType] /\ \A b \in Tasks : TaskOK(task'[b])
      /\ LockInv' /\ lock' \in [Joins -> Tasks \cup {Nothing}]
  BY <1>1, SweepReleases DEF With
<1>3. /\ joins' = [i \in Joins |-> joins'[i]]
      /\ \A i \in Joins : joins'[i] = Nothing \/ JoinOK(joins'[i])
  BY <1>1, FinishOK
<1>4. fires' \in [Joins -> [0..MaxInstalls -> Nat]]
  BY <1>1, CountOK
<1> QED
  BY <1>2, <1>3, <1>4 DEF TypeInv

\* The path of the request is looked up.
LEMMA AdvanceAtPathType ==
  ASSUME TypeInv, NEW a \in Tasks, AdvanceAtPath(a)
  PROVE  TypeInv'
<1> USE DEF AdvanceAtPath, stored
<1> DEFINE p == task[a].path
<1>1. /\ TaskOK(task[a]) /\ At(a, "path") /\ task[a].copy = Nothing
      /\ \A j \in Joins : ~Holds(task[a], j)
  BY DEF TypeInv, TaskOK, At, Copying, Holds, Sweeping, Inside
<1>2. ASSUME NEW pc \in PCs, Goto(a, pc), 
             (pc = "dispatch" /\ p \in Forwards) \/ (pc = "wait" /\ p \in Joins)
      PROVE  task' \in [Tasks -> TaskType] /\ (\A b \in Tasks : TaskOK(task'[b])) /\ LockInv'
  <2> DEFINE u == [task[a] EXCEPT !.pc = pc]
  <2>1. /\ u \in TaskType /\ u.pc = pc /\ u.path = p
        /\ u.slot = task[a].slot /\ u.join = task[a].join /\ u.copy = task[a].copy
    BY <1>1, GotoOK
  <2>2. Set(a, u)
    BY <1>2 DEF Goto
  <2> HIDE DEF u
  <2>3. TaskOK(u) /\ \A k \in Joins : ~Holds(u, k)
    BY <1>1, <1>2, <2>1 DEF TaskOK, Holds, At, Copying, Sweeping, Inside
  <2> QED
    BY <1>1, <2>2, <2>3, SetKeeps
<1>3. ASSUME Return(a)
      PROVE  /\ task' \in [Tasks -> TaskType] /\ \A b \in Tasks : TaskOK(task'[b])
             /\ LockInv' /\ parent' \in [Tasks -> Tasks \cup {Nothing}]
  BY <1>1, <1>3, ReturnOK, IdleOK, SetKeeps
<1>4. CASE /\ p \in Forwards /\ charged' = [charged EXCEPT ![p] = @ + 1]
           /\ Goto(a, "dispatch") /\ UNCHANGED parent
  <2>1. charged' \in [Forwards -> Nat]
    BY <1>4 DEF TypeInv
  <2>2. task' \in [Tasks -> TaskType] /\ (\A b \in Tasks : TaskOK(task'[b])) /\ LockInv'
    BY <1>2, <1>4 DEF PCs
  <2> QED
    BY <1>4, <2>1, <2>2 DEF TypeInv
<1>5. CASE p \in Joins /\ Goto(a, "wait") /\ UNCHANGED <<parent, charged>>
  <2>1. task' \in [Tasks -> TaskType] /\ (\A b \in Tasks : TaskOK(task'[b])) /\ LockInv'
    BY <1>2, <1>5 DEF PCs
  <2> QED
    BY <1>5, <2>1 DEF TypeInv
<1>6. CASE Return(a) /\ UNCHANGED charged
  BY <1>3, <1>6 DEF TypeInv
<1> QED
  BY <1>4, <1>5, <1>6

\* The mutex is dropped and the advance returns.
LEMMA LeaveOK ==
  ASSUME TypeInv, NEW a \in Tasks, task[a].pc \in Inside, Leave(a)
  PROVE  /\ task' \in [Tasks -> TaskType] /\ \A b \in Tasks : TaskOK(task'[b])
         /\ LockInv' /\ lock' \in [Joins -> Tasks \cup {Nothing}]
         /\ parent' \in [Tasks -> Tasks \cup {Nothing}]
<1>1. TaskOK(task[a]) /\ task[a].path \in Joins /\ Holds(task[a], task[a].path)
  BY DEF TypeInv, TaskOK, Inside, Holds
<1>2. Set(a, IdleTask) /\ parent' \in [Tasks -> Tasks \cup {Nothing}] /\ Release(task[a].path)
  BY ReturnOK DEF Leave
<1> QED
  BY <1>1, <1>2, IdleOK, SetReleases

\* The task goes on under its mutex.
LEMMA StaysInside ==
  ASSUME TypeInv, NEW a \in Tasks, task[a].pc \in Inside, UNCHANGED lock,
         NEW pc \in Inside, NEW c, IF pc \in Copying THEN JoinOK(c) ELSE c = Nothing,
         Set(a, With(task[a], pc, c))
  PROVE  /\ task' \in [Tasks -> TaskType] /\ \A b \in Tasks : TaskOK(task'[b])
         /\ LockInv'
<1> DEFINE u == With(task[a], pc, c)
<1>1. TaskOK(task[a]) /\ task[a].path \in Joins /\ pc \in PCs /\ c \in JoinType \cup {Nothing}
  BY DEF TypeInv, TaskOK, Inside, PCs, JoinOK
<1>2. /\ u \in TaskType /\ u.pc = pc /\ u.path = task[a].path
      /\ u.slot = task[a].slot /\ u.copy = c
  BY <1>1, CopyOK
<1>3. Set(a, u)
  OBVIOUS
<1> HIDE DEF u
<1>4. TaskOK(u) /\ \A j \in Joins : Holds(u, j) <=> Holds(task[a], j)
  BY <1>1, <1>2 DEF TaskOK, Holds, Inside, Sweeping
<1> QED
  BY <1>3, <1>4, SetKeeps

\* The slot's result is dropped, stored, or completes the round.
LEMMA AdmitOK ==
  ASSUME TypeInv, NEW a \in Tasks, task[a].pc \in {"touched", "judged"},
         NEW jn, JoinOK(jn), Admit(a, jn)
  PROVE  /\ joins' = [i \in Joins |-> joins'[i]]
         /\ \A i \in Joins : joins'[i] = Nothing \/ JoinOK(joins'[i])
         /\ task' \in [Tasks -> TaskType] /\ \A b \in Tasks : TaskOK(task'[b])
         /\ LockInv' /\ lock' \in [Joins -> Tasks \cup {Nothing}]
         /\ parent' \in [Tasks -> Tasks \cup {Nothing}]
<1> DEFINE j  == task[a].path
           up == Accumulate(jn, task[a].slot, task[a].round)
<1>1. /\ task[a].pc \in Inside /\ j \in Joins /\ task[a].slot \in Slots
      /\ task[a].round \in Nat \cup {Untagged}
  BY DEF TypeInv, TaskOK, Inside, TaskType
<1>2. ASSUME ~Straggler(a, jn) PROVE JoinOK(up)
  <2>1. jn.cfg.deadline => task[a].round \in {Untagged, jn.round}
    BY <1>2 DEF Straggler
  <2> QED
    BY <1>1, <2>1, AccumulateOK
<1> HIDE DEF up
<1>3. CASE Leave(a) /\ UNCHANGED joins
  BY <1>1, <1>3, LeaveOK DEF TypeInv
<1>4. CASE ~Straggler(a, jn) /\ joins' = [joins EXCEPT ![j] = up] /\ Leave(a)
  BY <1>1, <1>2, <1>4, LeaveOK, PutOK
<1>5. CASE /\ ~Straggler(a, jn) /\ Set(a, With(task[a], "fire", up))
           /\ UNCHANGED <<joins, lock, parent>>
  <2>1. "fire" \in Inside /\ "fire" \in Copying /\ JoinOK(up)
    BY <1>2, <1>5 DEF Inside, Copying
  <2>2. /\ task' \in [Tasks -> TaskType] /\ \A b \in Tasks : TaskOK(task'[b])
        /\ LockInv'
    BY <1>1, <1>5, <2>1, StaysInside
  <2> QED
    BY <1>5, <2>2 DEF TypeInv
<1> QED
  BY <1>3, <1>4, <1>5 DEF Admit, With, up

\* The join is read under its mutex: at first, and again after a reap.
LEMMA ReadType ==
  ASSUME TypeInv, NEW a \in Tasks, SlotRead(a) \/ Reread(a)
  PROVE  TypeInv'
<1> USE DEF SlotRead, Reread, stored, history
<1> DEFINE jn == joins[task[a].path]
<1>1. task[a].pc \in Inside /\ (jn # Nothing => JoinOK(jn))
  BY DEF TypeInv, TaskOK, Inside, At
<1>2. CASE Leave(a)
  BY <1>1, <1>2, LeaveOK DEF TypeInv
<1>3. ASSUME NEW pc \in {"note", "judged"}, jn # Nothing, Set(a, With(task[a], pc, jn)),
             UNCHANGED <<lock, parent>>
      PROVE  TypeInv'
  <2>1. pc \in Inside /\ pc \in Copying
    BY DEF Inside, Copying
  <2>2. task' \in [Tasks -> TaskType] /\ (\A b \in Tasks : TaskOK(task'[b])) /\ LockInv'
    BY <1>1, <1>3, <2>1, StaysInside
  <2> QED
    BY <1>3, <2>2 DEF TypeInv
<1> QED
  BY <1>2, <1>3 DEF With

\* Its path is noted.
LEMMA SlotNoteType ==
  ASSUME TypeInv, NEW a \in Tasks, SlotNote(a)
  PROVE  TypeInv'
<1> USE DEF SlotNote, history
<1>1. /\ task[a].pc \in Inside /\ JoinOK(task[a].copy) /\ task[a] \in TaskType
      /\ task[a].path \in Joins
  BY DEF TypeInv, TaskOK, Inside, At, Copying
<1>2. "touched" \in Inside /\ "touched" \in Copying
  BY DEF Inside, Copying
<1>3. Set(a, With(task[a], "touched", task[a].copy))
  BY <1>1, GotoWith
<1>4. task' \in [Tasks -> TaskType] /\ (\A b \in Tasks : TaskOK(task'[b])) /\ LockInv'
  BY <1>1, <1>2, <1>3, StaysInside
<1> QED
  BY <1>1, <1>4 DEF TypeInv

\* A round past its deadline is reaped; otherwise the result is looked at.
LEMMA SlotType ==
  ASSUME TypeInv, NEW a \in Tasks, Slot(a)
  PROVE  TypeInv'
<1> USE DEF Slot, history
<1> DEFINE j == task[a].path
           jn == task[a].copy
<1>1. /\ task[a].pc \in Inside /\ j \in Joins /\ task[a].pc \in {"touched", "judged"}
      /\ JoinOK(jn) /\ task[a] \in TaskType
  BY DEF TypeInv, TaskOK, Inside, At, Copying
<1>2. CASE Admit(a, jn)
  BY <1>1, <1>2, AdmitOK DEF TypeInv
<1>3. CASE /\ FinishRound(j, jn) /\ Set(a, With(task[a], "admit", Nothing))
           /\ UNCHANGED <<lock, parent>>
  <2>1. /\ joins' = [i \in Joins |-> joins'[i]]
        /\ \A i \in Joins : joins'[i] = Nothing \/ JoinOK(joins'[i])
    BY <1>1, <1>3, FinishOK
  <2>2. "admit" \in Inside \ Copying
    BY DEF Inside, Copying
  <2>3. task' \in [Tasks -> TaskType] /\ (\A b \in Tasks : TaskOK(task'[b])) /\ LockInv'
    BY <1>1, <1>3, <2>2, StaysInside
  <2> QED
    BY <1>3, <2>1, <2>3 DEF TypeInv
<1>4. CASE Goto(a, "reap") /\ UNCHANGED <<joins, lock, parent>>
  <2>1. "reap" \in Inside /\ "reap" \in Copying
    BY DEF Inside, Copying
  <2>2. Set(a, With(task[a], "reap", jn))
    BY <1>1, <1>4, GotoWith
  <2>3. task' \in [Tasks -> TaskType] /\ (\A b \in Tasks : TaskOK(task'[b])) /\ LockInv'
    BY <1>1, <1>4, <2>1, <2>2, StaysInside
  <2> QED
    BY <1>4, <2>3 DEF TypeInv
<1> QED
  BY <1>2, <1>3, <1>4 DEF With

\* The reap's partial fire returns.
LEMMA ReapFiredType ==
  ASSUME TypeInv, NEW a \in Tasks, ReapFired(a)
  PROVE  TypeInv'
<1> USE DEF ReapFired
<1>1. task[a].path \in Joins /\ JoinOK(task[a].copy) /\ task[a].pc \in Inside
  BY DEF TypeInv, TaskOK, At, Copying, Inside
<1>2. "admit" \in Inside \ Copying
  BY DEF Inside, Copying
<1>3. /\ task' \in [Tasks -> TaskType] /\ \A b \in Tasks : TaskOK(task'[b])
      /\ LockInv'
  BY <1>1, <1>2, StaysInside DEF With
<1>4. /\ joins' = [i \in Joins |-> joins'[i]]
      /\ \A i \in Joins : joins'[i] = Nothing \/ JoinOK(joins'[i])
  BY <1>1, FinishOK
<1>5. fires' \in [Joins -> [0..MaxInstalls -> Nat]]
  BY <1>1, CountOK
<1> QED
  BY <1>3, <1>4, <1>5 DEF TypeInv

\* The result is looked at after a reap.
LEMMA AdmitAfterReapType ==
  ASSUME TypeInv, NEW a \in Tasks, AdmitAfterReap(a)
  PROVE  TypeInv'
<1> USE DEF AdmitAfterReap, history
<1>1. task[a].pc \in {"touched", "judged"} /\ JoinOK(task[a].copy)
  BY DEF TypeInv, TaskOK, Copying, At
<1> QED
  BY <1>1, AdmitOK DEF TypeInv

\* The dispatch of a complete round returns.
LEMMA FiredType ==
  ASSUME TypeInv, NEW a \in Tasks, Fired(a)
  PROVE  TypeInv'
<1> USE DEF Fired
<1>1. task[a].path \in Joins /\ JoinOK(task[a].copy) /\ task[a].pc \in Inside
  BY DEF TypeInv, TaskOK, At, Copying, Inside
<1>2. /\ joins' = [i \in Joins |-> joins'[i]]
      /\ \A i \in Joins : joins'[i] = Nothing \/ JoinOK(joins'[i])
  BY <1>1, FinishOK
<1>3. fires' \in [Joins -> [0..MaxInstalls -> Nat]]
  BY <1>1, CountOK
<1> QED
  BY <1>1, <1>2, <1>3, LeaveOK DEF TypeInv

LEMMA FireFailsType ==
  ASSUME TypeInv, NEW a \in Tasks, FireFails(a)
  PROVE  TypeInv'
<1> USE DEF FireFails, stored, history
<1>1. task[a].pc \in Inside
  BY DEF At, Inside
<1> QED
  BY <1>1, LeaveOK DEF TypeInv

\* The dispatch of a forward returns.
LEMMA DispatchedType ==
  ASSUME TypeInv, NEW a \in Tasks, Dispatched(a)
  PROVE  TypeInv'
<1> USE DEF Dispatched, stored, history
<1> DEFINE u == [task[a] EXCEPT !.pc = "age"]
<1>1. TaskOK(task[a]) /\ Set(a, u) /\ At(a, "dispatch")
  BY DEF TypeInv, Goto
<1>2. /\ u \in TaskType /\ u.pc = "age" /\ u.path = task[a].path
      /\ u.slot = task[a].slot /\ u.join = task[a].join /\ u.copy = task[a].copy
  BY <1>1, GotoOK DEF PCs
<1> HIDE DEF u
<1>3. TaskOK(u) /\ \A j \in Joins : Holds(u, j) <=> Holds(task[a], j)
  BY <1>1, <1>2 DEF TaskOK, Copying, At, Holds, Sweeping, Inside
<1>4. task' \in [Tasks -> TaskType] /\ (\A b \in Tasks : TaskOK(task'[b])) /\ LockInv'
  BY <1>1, <1>3, SetKeeps
<1> QED
  BY <1>4 DEF TypeInv

\* A forward's advance returns.
LEMMA ForwardReturns ==
  ASSUME TypeInv, NEW a \in Tasks, task[a].pc \in {"age", "cas"}, Return(a), UNCHANGED lock
  PROVE  /\ task' \in [Tasks -> TaskType] /\ \A b \in Tasks : TaskOK(task'[b])
         /\ LockInv' /\ parent' \in [Tasks -> Tasks \cup {Nothing}]
<1>1. \A j \in Joins : ~Holds(task[a], j)
  BY DEF Holds, Sweeping, Inside
<1> QED
  BY <1>1, ReturnOK, IdleOK, SetKeeps

\* The count is read.
LEMMA ReadCountType ==
  ASSUME TypeInv, NEW a \in Tasks, ReadCount(a)
  PROVE  TypeInv'
<1> USE DEF ReadCount, stored, history
<1> DEFINE n == forwards[task[a].path]
           u == [task[a] EXCEPT !.pc = "cas", !.seen = n]
<1>1. /\ TaskOK(task[a]) /\ At(a, "age") /\ task[a].path \in Forwards
      /\ n # Nothing => n \in 1..Executions
  BY DEF TypeInv, TaskOK, At
<1>2. CASE Return(a)
  BY <1>1, <1>2, ForwardReturns DEF TypeInv, At
<1>3. CASE n # Nothing /\ Set(a, u) /\ UNCHANGED parent
  <2>1. n \in 1..Executions /\ n \in Nat
    BY <1>1, <1>3, ConfigAssumption
  <2> HIDE DEF n
  <2>2. /\ u \in TaskType /\ u.pc = "cas" /\ u.path = task[a].path /\ u.seen = n
        /\ u.slot = task[a].slot /\ u.join = task[a].join /\ u.copy = task[a].copy
    BY <1>1, <2>1 DEF TaskOK, TaskType, PCs
  <2> HIDE DEF u
  <2>3. TaskOK(u) /\ \A j \in Joins : Holds(u, j) <=> Holds(task[a], j)
    BY <1>1, <2>1, <2>2 DEF TaskOK, Copying, At, Holds, Sweeping, Inside
  <2>4. task' \in [Tasks -> TaskType] /\ (\A b \in Tasks : TaskOK(task'[b])) /\ LockInv'
    BY <1>3, <2>3, SetKeeps
  <2> QED
    BY <1>3, <2>4 DEF TypeInv
<1> QED
  BY <1>2, <1>3

\* The count is swapped, or somebody else's swap came first.
LEMMA SwapType ==
  ASSUME TypeInv, NEW a \in Tasks, Swap(a)
  PROVE  TypeInv'
<1> USE DEF Swap, history
<1> DEFINE p == task[a].path
<1>1. /\ TaskOK(task[a]) /\ At(a, "cas") /\ p \in Forwards
      /\ task[a].seen \in 1..Executions
  BY DEF TypeInv, TaskOK, At
<1>2. CASE forwards' = [forwards EXCEPT ![p] = Aged(task[a].seen)] /\ Return(a)
  <2>1. Aged(task[a].seen) \in 1..Executions \cup {Nothing}
    BY <1>1, ConfigAssumption DEF Aged
  <2>2. forwards' \in [Forwards -> 1..Executions \cup {Nothing}]
    BY <1>1, <1>2, <2>1 DEF TypeInv
  <2> QED
    BY <1>1, <1>2, <2>2, ForwardReturns DEF TypeInv, At
<1>3. CASE Return(a) /\ UNCHANGED forwards
  BY <1>1, <1>3, ForwardReturns DEF TypeInv, At
<1>4. CASE Goto(a, "age") /\ UNCHANGED <<forwards, parent>>
  <2> DEFINE u == [task[a] EXCEPT !.pc = "age"]
  <2>1. /\ u \in TaskType /\ u.pc = "age" /\ u.path = p /\ Set(a, u)
        /\ u.slot = task[a].slot /\ u.join = task[a].join /\ u.copy = task[a].copy
    BY <1>1, <1>4, GotoOK DEF PCs, Goto
  <2> HIDE DEF u
  <2>2. TaskOK(u) /\ \A j \in Joins : Holds(u, j) <=> Holds(task[a], j)
    BY <1>1, <2>1 DEF TaskOK, Copying, At, Holds, Sweeping, Inside
  <2>3. task' \in [Tasks -> TaskType] /\ (\A b \in Tasks : TaskOK(task'[b])) /\ LockInv'
    BY <2>1, <2>2, SetKeeps
  <2> QED
    BY <1>4, <2>3 DEF TypeInv
<1> QED
  BY <1>2, <1>3, <1>4

\* A join is installed, whatever is at its path.
LEMMA InstallType ==
  ASSUME TypeInv, NEW j \in Joins, Install(j)
  PROVE  TypeInv'
<1> USE DEF Install
<1>1. installs \in Nat /\ installs' \in 0..MaxInstalls
  BY ConfigAssumption DEF TypeInv
<1>2. PICK c \in JoinConfigs, S \in SUBSET Slots :
        /\ joins' = [joins EXCEPT ![j] = NewJoin(c, S, installs)]
        /\ noting' = IF c.deadline THEN [noting EXCEPT ![j] = @ + 1] ELSE noting
  OBVIOUS
<1>3. JoinOK(NewJoin(c, S, installs))
  BY <1>1, NewJoinOK
<1>4. /\ joins' = [i \in Joins |-> joins'[i]]
      /\ \A i \in Joins : joins'[i] = Nothing \/ JoinOK(joins'[i])
  BY <1>2, <1>3, PutOK
<1>5. noting' \in [Joins -> Nat]
  BY <1>2 DEF TypeInv
<1> QED
  BY <1>1, <1>4, <1>5 DEF TypeInv, LockInv

\* Its path is noted.
LEMMA NoteType ==
  ASSUME TypeInv, NEW j \in Joins, Note(j)
  PROVE  TypeInv'
<1> USE DEF Note, history
<1>1. noting' \in [Joins -> Nat] /\ tracked' \subseteq Joins
  BY DEF TypeInv
<1> QED
  BY <1>1 DEF TypeInv, LockInv

\* How many dispatches of a forward are in flight.
LEMMA InFlightFinite == \A f : IsFiniteSet(InFlight(f)) /\ Cardinality(InFlight(f)) \in Nat
<1> SUFFICES ASSUME NEW f PROVE IsFiniteSet(InFlight(f)) /\ Cardinality(InFlight(f)) \in Nat
  OBVIOUS
<1>1. InFlight(f) \subseteq Tasks
  BY DEF InFlight
<1>2. IsFiniteSet(InFlight(f))
  BY <1>1, PathAssumption, FS_Subset
<1> QED
  BY <1>2, FS_CardinalityType

\* A forward is installed, whatever is at its path.
LEMMA InstallForwardType ==
  ASSUME TypeInv, NEW f \in Forwards, InstallForward(f)
  PROVE  TypeInv'
<1> USE DEF InstallForward
<1>1. installs' \in 0..MaxInstalls
  BY ConfigAssumption DEF TypeInv
<1>2. /\ forwards' \in [Forwards -> 1..Executions \cup {Nothing}]
      /\ granted' \in [Forwards -> 1..Executions]
  BY DEF TypeInv
<1>3. charged' \in [Forwards -> Nat]
  BY InFlightFinite DEF TypeInv
<1> QED
  BY <1>1, <1>2, <1>3 DEF TypeInv, LockInv

\* Time passes.
LEMMA DeadlineType ==
  ASSUME TypeInv, NEW j \in Joins, DeadlinePasses(j)
  PROVE  TypeInv'
  BY DEF DeadlinePasses, history, TypeInv, LockInv

\* Every step keeps the types and the mutexes.
LEMMA TypeStep == TypeInv /\ [Next]_vars => TypeInv'
<1> SUFFICES ASSUME TypeInv, [Next]_vars PROVE TypeInv'
  OBVIOUS
<1>1. ASSUME NEW a \in Tasks, Advance(a, Nothing) PROVE TypeInv'
  BY <1>1, AdvanceType
<1>2. ASSUME NEW a \in Tasks, Step(a) PROVE TypeInv'
  BY <1>2, SweepNextType, SweepReadType, SweepForgetType, SweepAbandonType, SweepFiredType,
     AdvanceAtPathType, ReadType, SlotNoteType, SlotType, ReapFiredType, AdmitAfterReapType,
     FiredType, FireFailsType, DispatchedType, ReadCountType, SwapType DEF Step
<1>3. ASSUME NEW a \in Tasks, Locking(a) PROVE TypeInv'
  BY <1>3, SweepLockType, JoinLockType DEF Locking
<1>4. ASSUME NEW a \in Tasks, NEW b \in Tasks, Nest(a, b) PROVE TypeInv'
  BY <1>4, AdvanceType DEF Nest
<1>5. ASSUME NEW j \in Joins, Install(j) \/ Note(j) \/ DeadlinePasses(j) PROVE TypeInv'
  BY <1>5, InstallType, NoteType, DeadlineType
<1>6. ASSUME NEW f \in Forwards, InstallForward(f) PROVE TypeInv'
  BY <1>6, InstallForwardType
<1>7. CASE UNCHANGED vars
  BY <1>7 DEF vars, stored, history, TypeInv, LockInv
<1> QED
  BY <1>1, <1>2, <1>3, <1>4, <1>5, <1>6, <1>7 DEF Next

LEMMA TypeAlways == Spec => []TypeInv
<1>1. Init => TypeInv
  BY TypeInit
<1>2. TypeInv /\ [Next]_vars => TypeInv'
  BY TypeStep
<1> QED
  BY <1>1, <1>2, PTL DEF Spec

\* The state stays well typed, and the mutex of a join is only ever held by the task
\* that works on this join: the guard of advance_join_slot and of sweep_one_join is
\* dropped on every path out.
THEOREM TypeCorrect == Spec => []TypeOK
<1>1. TypeInv => TypeOK
  <2> SUFFICES ASSUME TypeInv PROVE TypeOK
    OBVIOUS
  <2>1. \A j \in Joins : joins[j] = Nothing \/ joins[j] \in JoinType
    BY DEF TypeInv, JoinOK
  <2>2. \A f \in Forwards : forwards[f] = Nothing \/ forwards[f] \in 1..Executions
    BY DEF TypeInv
  <2>3. \A a \in Tasks :
          /\ task[a].pc \in PCs /\ task[a].queue \subseteq Joins
          /\ task[a].copy = Nothing \/ task[a].copy \in JoinType
    BY DEF TypeInv, TaskType
  <2>4. ASSUME NEW j \in Joins, lock[j] # Nothing
        PROVE  \/ task[lock[j]].join = j /\ task[lock[j]].pc \in Sweeping
               \/ task[lock[j]].path = j /\ task[lock[j]].pc \in Inside
    <3>1. lock[j] \in Tasks
      BY <2>4 DEF TypeInv
    <3>2. Holds(task[lock[j]], j)
      BY <3>1 DEF TypeInv, LockInv
    <3> QED
      BY <3>2 DEF Holds
  <2> QED
    BY <2>1, <2>2, <2>3, <2>4 DEF TypeInv, TypeOK
<1> QED
  BY <1>1, TypeAlways, PTL

\* The straggler guard: what a join with a deadline has received is all of its
\* current round, in the tree and in the hands of a task about to fire it, whatever
\* installs, reaps and late results meet on the join.
THEOREM OneRoundPerBoundary == Spec => []OneGeneration
<1>1. TypeInv => OneGeneration
  <2> SUFFICES ASSUME TypeInv,
                      NEW jn \in ({joins[j] : j \in Joins} \cup {task[a].copy : a \in Tasks}) \ {Nothing}
               PROVE  jn.cfg.deadline =>
                        \A s \in Slots : jn.received[s] \in {Nothing, Untagged, jn.round}
    BY DEF OneGeneration
  <2>1. JoinOK(jn)
    <3>1. ASSUME NEW j \in Joins, joins[j] # Nothing PROVE JoinOK(joins[j])
      BY <3>1 DEF TypeInv
    <3>2. ASSUME NEW a \in Tasks, task[a].copy # Nothing PROVE JoinOK(task[a].copy)
      BY <3>2 DEF TypeInv, TaskOK
    <3> QED
      BY <3>1, <3>2
  <2> QED
    BY <2>1 DEF JoinOK
<1> QED
  BY <1>1, TypeAlways, PTL

-----------------------------------------------------------------------------
(* Rounds fired.                                                            *)

\* jn was installed, and the rounds it fired and those it has left are no more than
\* it was installed for.
Counted(j, jn) ==
  /\ jn.inst < installs
  /\ jn.cfg.count > 0 => fires[j][jn.inst] + jn.left <= jn.cfg.count

\* So it is for the joins in the tree, and for the copies that tasks work on: what
\* becomes of the copy overwrites the join.
FireInv ==
  /\ \A j \in Joins : joins[j] # Nothing => Counted(j, joins[j])
  /\ \A a \in Tasks : \A j \in Joins :
       task[a].pc \in Copying /\ Holds(task[a], j) => Counted(j, task[a].copy)
  /\ \A j \in Joins : \A i \in installs..MaxInstalls : fires[j][i] = 0

\* No round has fired at first.
LEMMA FireInit == Init => FireInv
<1> SUFFICES ASSUME Init PROVE FireInv
  OBVIOUS
<1>1. PICK cs \in [Joins -> JoinConfigs], S \in [Joins -> SUBSET Slots] :
        joins = [j \in Joins |-> NewJoin(cs[j], S[j], 0)]
  BY DEF Init
<1>2. Cardinality(Joins) \in Nat /\ (Joins # {} => Cardinality(Joins) # 0)
  BY PathAssumption, FS_CardinalityType, FS_EmptySet
<1>3. ASSUME NEW j \in Joins PROVE Counted(j, joins[j])
  <2>1. cs[j] \in ConfigType /\ cs[j].count \in Nat
    BY ConfigAssumption DEF ConfigType
  <2>2. joins[j].inst = 0 /\ joins[j].cfg = cs[j] /\ joins[j].left = cs[j].count
    BY <1>1, NewJoinOK
  <2>3. fires[j][0] = 0 /\ installs > 0
    BY <1>2, ConfigAssumption DEF Init
  <2> QED
    BY <2>1, <2>2, <2>3 DEF Counted
<1>4. \A a \in Tasks : task[a].pc \notin Copying
  BY DEF Init, IdleTask, Copying
<1>5. \A j \in Joins : \A i \in installs..MaxInstalls : fires[j][i] = 0
  BY <1>2, ConfigAssumption DEF Init
<1> QED
  BY <1>3, <1>4, <1>5 DEF FireInv

\* What is left of a counted join is counted.
LEMMA CountedStays ==
  ASSUME TypeInv, NEW j \in Joins, NEW jn, JoinOK(jn), Counted(j, jn),
         NEW k, JoinOK(k), Same(jn, k), k.left <= jn.left
  PROVE  Counted(j, k)
<1>1. jn.left \in Nat /\ k.left \in Nat /\ jn.cfg.count \in Nat /\ jn.inst \in Nat
  BY DEF JoinOK, JoinType, ConfigType
<1>2. jn.inst \in 0..MaxInstalls
  BY <1>1, ConfigAssumption DEF Counted, TypeInv
<1>3. fires[j][jn.inst] \in Nat
  BY <1>2 DEF TypeInv
<1> QED
  BY <1>1, <1>3 DEF Counted, Same

\* What is left of a join after a round that was abandoned.
LEMMA CountedFinished ==
  ASSUME TypeInv, NEW j \in Joins, NEW jn, JoinOK(jn), Counted(j, jn)
  PROVE  Finished(jn) # Nothing => Counted(j, Finished(jn))
<1>1. jn.left \in Nat
  BY DEF JoinOK, JoinType
<1> QED
  BY <1>1, FinishedOK, CountedStays

\* A join of the tree replaced by a counted one.
LEMMA PutCounted ==
  ASSUME TypeInv, FireInv, NEW j \in Joins, NEW k, k # Nothing => Counted(j, k),
         joins' = [joins EXCEPT ![j] = k]
  PROVE  \A i \in Joins : joins'[i] # Nothing => Counted(i, joins'[i])
<1>1. joins'[j] = k /\ \A i \in Joins \ {j} : joins'[i] = joins[i]
  BY DEF TypeInv
<1> QED
  BY <1>1 DEF FireInv

\* A step of a task in which no round fires.
LEMMA QuietStep ==
  ASSUME TypeInv, FireInv, NEW a \in Tasks, NEW t, Set(a, t), UNCHANGED <<fires, installs>>,
         t.pc \in Copying => \A j \in Joins : Holds(t, j) => Counted(j, t.copy),
         \A j \in Joins : joins'[j] # Nothing => Counted(j, joins'[j])
  PROVE  FireInv'
<1>1. task'[a] = t /\ \A b \in Tasks \ {a} : task'[b] = task[b]
  BY DEF Set, TypeInv
<1>2. ASSUME NEW b \in Tasks, NEW j \in Joins, task'[b].pc \in Copying, Holds(task'[b], j)
      PROVE  Counted(j, task'[b].copy)
  <2>1. CASE b = a
    BY <1>1, <1>2, <2>1
  <2>2. CASE b # a
    BY <1>1, <1>2, <2>2 DEF FireInv
  <2> QED
    BY <2>1, <2>2
<1> QED
  BY <1>2 DEF FireInv, Counted

\* A round fires: the copy's count goes up and its remaining rounds go down, and no
\* other task is firing a round of this join.
LEMMA FireStep ==
  ASSUME TypeInv, FireInv, NEW a \in Tasks, NEW t, Set(a, t), UNCHANGED installs,
         NEW j \in Joins, task[a].pc \in Copying, Holds(task[a], j), t.pc \notin Copying,
         FinishRound(j, task[a].copy), CountFire(j, task[a].copy)
  PROVE  FireInv'
<1> DEFINE jn == task[a].copy
           n  == jn.inst
<1>1. task'[a] = t /\ \A b \in Tasks \ {a} : task'[b] = task[b]
  BY DEF Set, TypeInv
<1>2. JoinOK(jn) /\ Counted(j, jn)
  BY DEF TypeInv, TaskOK, FireInv
<1>3. /\ jn.left \in Nat /\ jn.cfg.count \in Nat /\ n \in Nat /\ n < installs
      /\ jn.cfg.count > 0 => jn.left > 0
  BY <1>2 DEF JoinOK, JoinType, ConfigType, Counted
<1>4. n \in 0..MaxInstalls /\ installs \in Nat
  BY <1>3, ConfigAssumption DEF TypeInv
<1>5. fires[j][n] \in Nat
  BY <1>4 DEF TypeInv
<1>6. /\ fires'[j][n] = fires[j][n] + 1
      /\ \A i \in 0..MaxInstalls : i # n => fires'[j][i] = fires[j][i]
      /\ \A k \in Joins : k # j => fires'[k] = fires[k]
  <2>1. fires \in [Joins -> [0..MaxInstalls -> Nat]]
    BY DEF TypeInv
  <2> HIDE DEF jn
  <2>2. fires' = [fires EXCEPT ![j] = [fires[j] EXCEPT ![n] = @ + 1]]
    BY DEF CountFire, jn
  <2> HIDE DEF n
  <2> QED
    BY <1>4, <2>1, <2>2
<1>7. joins'[j] = Finished(jn) /\ \A k \in Joins \ {j} : joins'[k] = joins[k]
  BY DEF FinishRound, TypeInv
<1> HIDE DEF jn
<1>8. ASSUME NEW k \in Joins, joins'[k] # Nothing
      PROVE  Counted(k, joins[k])'
  <2>1. CASE k = j
    <3>1. /\ JoinOK(Finished(jn)) /\ Same(jn, Finished(jn))
          /\ Finished(jn).left = IF jn.left = 0 THEN 0 ELSE jn.left - 1
      BY <1>2, <1>7, <1>8, <2>1, FinishedOK
    <3>2. jn.cfg.count > 0 => fires[j][n] + jn.left <= jn.cfg.count
      BY <1>2 DEF Counted
    <3> QED
      BY <1>3, <1>5, <1>6, <1>7, <2>1, <3>1, <3>2 DEF Counted, Same
  <2>2. CASE k # j
    BY <1>6, <1>7, <1>8, <2>2 DEF FireInv, Counted
  <2> QED
    BY <2>1, <2>2
<1>9. ASSUME NEW b \in Tasks, NEW k \in Joins, task'[b].pc \in Copying, Holds(task'[b], k)
      PROVE  Counted(k, task[b].copy)'
  <2>1. b # a /\ task'[b] = task[b]
    BY <1>1, <1>9
  <2>2. k # j
    BY <1>9, <2>1 DEF TypeInv, LockInv
  <2>3. Counted(k, task[b].copy)
    BY <1>9, <2>1 DEF FireInv
  <2> QED
    BY <1>6, <2>1, <2>2, <2>3 DEF Counted
<1>10. ASSUME NEW k \in Joins, NEW i \in installs'..MaxInstalls
       PROVE  fires'[k][i] = 0
  <2>1. i # n /\ i \in 0..MaxInstalls /\ i \in installs..MaxInstalls
    BY <1>3, <1>4, ConfigAssumption
  <2>2. fires'[k][i] = fires[k][i]
    BY <1>6, <2>1
  <2> QED
    BY <2>1, <2>2 DEF FireInv
<1> QED
  BY <1>8, <1>9, <1>10 DEF FireInv

\* The joins stay, and the task is not firing afterwards.
LEMMA QuietTask ==
  ASSUME TypeInv, FireInv, NEW a \in Tasks, NEW t, Set(a, t),
         UNCHANGED <<fires, installs, joins>>, t.pc \notin Copying
  PROVE  FireInv'
<1>1. \A j \in Joins : joins'[j] # Nothing => Counted(j, joins'[j])
  BY DEF FireInv
<1> QED
  BY <1>1, QuietStep

LEMMA AdvanceFire ==
  ASSUME TypeInv, FireInv, NEW a \in Tasks, NEW p \in Tasks \cup {Nothing}, Advance(a, p)
  PROVE  FireInv'
<1> USE DEF Advance, stored
<1>1. PICK t \in Requests : \/ Set(a, [t EXCEPT !.pc = "sweep", !.queue = tracked])
                            \/ Set(a, [t EXCEPT !.pc = "path"])
  OBVIOUS
<1>2. t \in TaskType
  BY RequestOK
<1>3. PICK u : Set(a, u) /\ u \in {[t EXCEPT !.pc = "sweep", !.queue = tracked],
                                   [t EXCEPT !.pc = "path"]}
  BY <1>1
<1>4. u.pc \notin Copying
  BY <1>2, <1>3 DEF TaskType, Copying
<1> QED
  BY <1>3, <1>4, QuietTask

\* A task that goes on to a place where it fires nothing.
LEMMA GotoFire ==
  ASSUME TypeInv, FireInv, NEW a \in Tasks, NEW pc \in PCs \ Copying, Goto(a, pc),
         UNCHANGED <<fires, installs>>,
         \A j \in Joins : joins'[j] # Nothing => Counted(j, joins'[j])
  PROVE  FireInv'
<1> DEFINE u == [task[a] EXCEPT !.pc = pc]
<1>1. TaskOK(task[a])
  BY DEF TypeInv
<1>2. u.pc = pc /\ Set(a, u)
  BY <1>1, GotoOK DEF Goto
<1> HIDE DEF u
<1> QED
  BY <1>2, QuietStep

\* A task that goes on without a copy.
LEMMA DropCopy ==
  ASSUME TypeInv, FireInv, NEW a \in Tasks, NEW pc \in PCs \ Copying,
         Set(a, With(task[a], pc, Nothing)), UNCHANGED <<fires, installs>>,
         \A j \in Joins : joins'[j] # Nothing => Counted(j, joins'[j])
  PROVE  FireInv'
<1> DEFINE u == With(task[a], pc, Nothing)
<1>1. TaskOK(task[a])
  BY DEF TypeInv
<1>2. u.pc = pc /\ Set(a, u)
  BY <1>1, CopyOK
<1> HIDE DEF u
<1> QED
  BY <1>2, QuietStep

LEMMA SweepNextFire ==
  ASSUME TypeInv, FireInv, NEW a \in Tasks, SweepNext(a)
  PROVE  FireInv'
<1> USE DEF SweepNext, stored, history
<1>1. TaskOK(task[a]) /\ task[a] \in TaskType
  BY DEF TypeInv
<1>2. \A j \in Joins : joins'[j] # Nothing => Counted(j, joins'[j])
  BY DEF FireInv
<1>3. CASE Set(a, [task[a] EXCEPT !.pc = "path", !.join = Nothing])
  <2> DEFINE u == [task[a] EXCEPT !.pc = "path", !.join = Nothing]
  <2>1. u.pc \notin Copying
    BY <1>1 DEF TaskType, Copying
  <2>2. Set(a, u)
    BY <1>3
  <2> HIDE DEF u
  <2> QED
    BY <1>2, <2>1, <2>2, QuietTask
<1>4. ASSUME NEW j \in task[a].queue,
             Set(a, [task[a] EXCEPT !.pc = "sweepwait", !.join = j, !.queue = @ \ {j}])
      PROVE  FireInv'
  <2> DEFINE u == [task[a] EXCEPT !.pc = "sweepwait", !.join = j, !.queue = @ \ {j}]
  <2>1. u.pc \notin Copying
    BY <1>1 DEF TaskType, Copying
  <2>2. Set(a, u)
    BY <1>4
  <2> HIDE DEF u
  <2> QED
    BY <2>1, <2>2, QuietTask
<1> QED
  BY <1>3, <1>4

LEMMA LockingFire ==
  ASSUME TypeInv, FireInv, NEW a \in Tasks, Locking(a)
  PROVE  FireInv'
<1> USE DEF Locking, SweepLock, JoinLock, stored, history
<1>1. \A j \in Joins : joins'[j] # Nothing => Counted(j, joins'[j])
  BY DEF FireInv
<1>2. CASE Goto(a, "sweepjoin") /\ UNCHANGED <<fires, installs>>
  BY <1>1, <1>2, GotoFire DEF PCs, Copying
<1>3. CASE Goto(a, "slot") /\ UNCHANGED <<fires, installs>>
  BY <1>1, <1>3, GotoFire DEF PCs, Copying
<1> QED
  BY <1>2, <1>3

\* A task that takes a copy to work on it.
LEMMA TakeCopy ==
  ASSUME TypeInv, FireInv, NEW a \in Tasks, UNCHANGED <<fires, installs, joins>>,
         NEW j \in Joins, Holds(task[a], j), NEW pc \in PCs,
         NEW jn, JoinOK(jn), Counted(j, jn), Set(a, With(task[a], pc, jn)),
         \/ pc \in Sweeping /\ task[a].pc \in Sweeping
         \/ pc \in Inside /\ task[a].pc \in Inside
  PROVE  FireInv'
<1> DEFINE u == With(task[a], pc, jn)
<1>1. TaskOK(task[a]) /\ jn \in JoinType
  BY DEF TypeInv, JoinOK
<1>2. u.pc = pc /\ u.path = task[a].path /\ u.join = task[a].join /\ u.copy = jn /\ Set(a, u)
  BY <1>1, CopyOK
<1> HIDE DEF u
<1>3. \A k \in Joins : Holds(u, k) => k = j
  BY <1>2 DEF Holds, Inside, Sweeping
<1>4. \A k \in Joins : joins'[k] # Nothing => Counted(k, joins'[k])
  BY DEF FireInv
<1> QED
  BY <1>2, <1>3, <1>4, QuietStep

LEMMA SweepReadFire ==
  ASSUME TypeInv, FireInv, NEW a \in Tasks, SweepRead(a)
  PROVE  FireInv'
<1> USE DEF SweepRead, stored, history
<1> DEFINE j == task[a].join
           jn == joins[j]
<1>1. TaskOK(task[a]) /\ task[a].pc \in Sweeping /\ j \in Joins /\ Holds(task[a], j)
  BY DEF TypeInv, TaskOK, At, Holds, Sweeping
<1>2. jn # Nothing => JoinOK(jn) /\ Counted(j, jn)
  BY <1>1 DEF TypeInv, FireInv
<1>3. ASSUME NEW pc \in {"forget", "sweep"}, Goto(a, pc) PROVE FireInv'
  <2>1. \A k \in Joins : joins'[k] # Nothing => Counted(k, joins'[k])
    BY DEF FireInv
  <2>2. pc \in PCs \ Copying
    BY DEF PCs, Copying
  <2> QED
    BY <1>3, <2>1, <2>2, GotoFire
<1>4. ASSUME jn # Nothing, NEW pc \in {"sweepfire", "abandon"}, Set(a, With(task[a], pc, jn))
      PROVE  FireInv'
  <2>1. pc \in PCs /\ pc \in Sweeping
    BY DEF PCs, Sweeping
  <2> QED
    BY <1>1, <1>2, <1>4, <2>1, TakeCopy
<1>5. CASE /\ jn # Nothing
           /\ Set(a, With(task[a], IF jn.cfg.partial THEN "sweepfire" ELSE "abandon", jn))
  BY <1>4, <1>5
<1> QED
  BY <1>3, <1>5 DEF With

LEMMA SweepForgetFire ==
  ASSUME TypeInv, FireInv, NEW a \in Tasks, SweepForget(a)
  PROVE  FireInv'
<1>1. Goto(a, "sweep") /\ UNCHANGED <<fires, installs, joins>>
  BY DEF SweepForget, history
<1>2. \A k \in Joins : joins'[k] # Nothing => Counted(k, joins'[k])
  BY <1>1 DEF FireInv
<1> QED
  BY <1>1, <1>2, GotoFire DEF PCs, Copying

\* What is left of the copy, when its round is abandoned.
LEMMA AbandonCounted ==
  ASSUME TypeInv, FireInv, NEW a \in Tasks, task[a].pc \in Copying, NEW j \in Joins,
         Holds(task[a], j), FinishRound(j, task[a].copy)
  PROVE  \A k \in Joins : joins'[k] # Nothing => Counted(k, joins'[k])
<1>1. JoinOK(task[a].copy) /\ Counted(j, task[a].copy)
  BY DEF TypeInv, TaskOK, FireInv
<1> QED
  BY <1>1, CountedFinished, PutCounted DEF FinishRound

LEMMA SweepAbandonFire ==
  ASSUME TypeInv, FireInv, NEW a \in Tasks, SweepAbandon(a)
  PROVE  FireInv'
<1> USE DEF SweepAbandon, history
<1>1. task[a].pc \in Copying /\ task[a].join \in Joins /\ Holds(task[a], task[a].join)
  BY DEF TypeInv, TaskOK, At, Holds, Sweeping, Copying
<1>2. \A k \in Joins : joins'[k] # Nothing => Counted(k, joins'[k])
  BY <1>1, AbandonCounted
<1>3. "sweep" \in PCs \ Copying
  BY DEF PCs, Copying
<1> QED
  BY <1>2, <1>3, DropCopy DEF With

LEMMA SweepFiredFire ==
  ASSUME TypeInv, FireInv, NEW a \in Tasks, SweepFired(a)
  PROVE  FireInv'
<1> USE DEF SweepFired
<1> DEFINE u == With(task[a], "sweep", Nothing)
<1>1. /\ TaskOK(task[a]) /\ task[a].pc \in Copying /\ task[a].join \in Joins
      /\ Holds(task[a], task[a].join)
  BY DEF TypeInv, TaskOK, At, Holds, Copying, Sweeping, Inside
<1>2. u.pc = "sweep"
  BY <1>1, CopyOK DEF PCs
<1>3. Set(a, u)
  BY DEF With
<1> HIDE DEF u
<1> QED
  BY <1>1, <1>2, <1>3, FireStep DEF Copying

LEMMA AdvanceAtPathFire ==
  ASSUME TypeInv, FireInv, NEW a \in Tasks, AdvanceAtPath(a)
  PROVE  FireInv'
<1> USE DEF AdvanceAtPath, stored
<1>1. \A j \in Joins : joins'[j] # Nothing => Counted(j, joins'[j])
  BY DEF FireInv
<1>2. CASE Goto(a, "dispatch")
  BY <1>1, <1>2, GotoFire DEF PCs, Copying
<1>3. CASE Goto(a, "wait")
  BY <1>1, <1>3, GotoFire DEF PCs, Copying
<1>4. CASE Return(a)
  BY <1>4, QuietTask DEF Return, IdleTask, Copying
<1> QED
  BY <1>2, <1>3, <1>4

\* The advance returns and nothing fires.
LEMMA ReturnFire ==
  ASSUME TypeInv, FireInv, NEW a \in Tasks, Return(a), UNCHANGED <<fires, installs>>,
         \A j \in Joins : joins'[j] # Nothing => Counted(j, joins'[j])
  PROVE  FireInv'
<1>1. IdleTask.pc \notin Copying
  BY DEF IdleTask, Copying
<1> QED
  BY <1>1, QuietStep DEF Return

LEMMA AdmitFire ==
  ASSUME TypeInv, FireInv, NEW a \in Tasks, task[a].pc \in {"touched", "judged"},
         NEW jn, JoinOK(jn), Counted(task[a].path, jn), Admit(a, jn),
         UNCHANGED <<fires, installs>>
  PROVE  FireInv'
<1> DEFINE j  == task[a].path
           up == Accumulate(jn, task[a].slot, task[a].round)
<1>1. /\ task[a].pc \in Inside /\ j \in Joins /\ task[a].slot \in Slots /\ Holds(task[a], j)
      /\ task[a].round \in Nat \cup {Untagged}
  BY DEF TypeInv, TaskOK, Inside, TaskType, Holds
<1>2. ASSUME ~Straggler(a, jn) PROVE JoinOK(up) /\ Counted(j, up)
  <2>1. jn.cfg.deadline => task[a].round \in {Untagged, jn.round}
    BY <1>2 DEF Straggler
  <2>2. JoinOK(up) /\ Same(jn, up) /\ up.left = jn.left
    BY <1>1, <2>1, AccumulateOK
  <2>3. jn.left \in Nat
    BY DEF JoinOK, JoinType
  <2> HIDE DEF up
  <2> QED
    BY <1>1, <2>2, <2>3, CountedStays
<1> HIDE DEF up
<1>3. CASE Leave(a) /\ UNCHANGED joins
  <2>1. \A k \in Joins : joins'[k] # Nothing => Counted(k, joins'[k])
    BY <1>3 DEF FireInv
  <2> QED
    BY <1>3, <2>1, ReturnFire DEF Leave
<1>4. CASE ~Straggler(a, jn) /\ joins' = [joins EXCEPT ![j] = up] /\ Leave(a)
  <2>1. \A k \in Joins : joins'[k] # Nothing => Counted(k, joins'[k])
    BY <1>1, <1>2, <1>4, PutCounted
  <2> QED
    BY <1>4, <2>1, ReturnFire DEF Leave
<1>5. CASE ~Straggler(a, jn) /\ Set(a, With(task[a], "fire", up)) /\ UNCHANGED joins
  <2>1. "fire" \in Inside /\ "fire" \in PCs
    BY DEF Inside, PCs
  <2> QED
    BY <1>1, <1>2, <1>5, <2>1, TakeCopy
<1> QED
  BY <1>3, <1>4, <1>5 DEF Admit, With, up

LEMMA ReadFire ==
  ASSUME TypeInv, FireInv, NEW a \in Tasks, SlotRead(a) \/ Reread(a)
  PROVE  FireInv'
<1> USE DEF SlotRead, Reread, stored, history
<1> DEFINE j == task[a].path
           jn == joins[j]
<1>1. task[a].pc \in Inside /\ j \in Joins /\ Holds(task[a], j)
  BY DEF TypeInv, TaskOK, Inside, At, Holds
<1>2. jn # Nothing => JoinOK(jn) /\ Counted(j, jn)
  BY <1>1 DEF TypeInv, FireInv
<1>3. CASE Leave(a)
  <2>1. \A k \in Joins : joins'[k] # Nothing => Counted(k, joins'[k])
    BY DEF FireInv
  <2> QED
    BY <1>3, <2>1, ReturnFire DEF Leave
<1>4. ASSUME NEW pc \in {"note", "judged"}, jn # Nothing, Set(a, With(task[a], pc, jn))
      PROVE  FireInv'
  <2>1. pc \in Inside /\ pc \in PCs
    BY DEF Inside, PCs
  <2> QED
    BY <1>1, <1>2, <1>4, <2>1, TakeCopy
<1> QED
  BY <1>3, <1>4 DEF With

\* A task that goes on with the copy it has.
LEMMA KeepCopy ==
  ASSUME TypeInv, FireInv, NEW a \in Tasks, task[a].pc \in Inside \cap Copying,
         NEW pc \in Inside, Goto(a, pc), UNCHANGED <<fires, installs, joins>>
  PROVE  FireInv'
<1> DEFINE j == task[a].path
<1>1. /\ task[a] \in TaskType /\ j \in Joins /\ Holds(task[a], j) /\ pc \in PCs
      /\ JoinOK(task[a].copy) /\ Counted(j, task[a].copy)
  BY DEF TypeInv, TaskOK, Inside, Holds, PCs, FireInv
<1>2. Set(a, With(task[a], pc, task[a].copy))
  BY <1>1, GotoWith
<1> QED
  BY <1>1, <1>2, TakeCopy

LEMMA SlotFire ==
  ASSUME TypeInv, FireInv, NEW a \in Tasks, SlotNote(a) \/ Slot(a)
  PROVE  FireInv'
<1> USE DEF SlotNote, Slot, history
<1> DEFINE j == task[a].path
           jn == task[a].copy
<1>1. /\ task[a].pc \in Inside \cap Copying /\ j \in Joins /\ Holds(task[a], j)
      /\ JoinOK(jn)
  BY DEF TypeInv, TaskOK, Inside, At, Holds, Copying
<1>2. Counted(j, jn)
  BY <1>1 DEF FireInv
<1>3. CASE At(a, "touched") /\ Admit(a, jn) /\ UNCHANGED history
  BY <1>1, <1>2, <1>3, AdmitFire DEF At
<1>4. CASE /\ FinishRound(j, jn) /\ Set(a, With(task[a], "admit", Nothing))
           /\ UNCHANGED history
  <2>1. \A k \in Joins : joins'[k] # Nothing => Counted(k, joins'[k])
    BY <1>1, <1>4, AbandonCounted
  <2>2. "admit" \in PCs \ Copying
    BY DEF PCs, Copying
  <2> QED
    BY <1>4, <2>1, <2>2, DropCopy
<1>5. ASSUME NEW pc \in {"touched", "reap"}, Goto(a, pc), UNCHANGED <<joins, history>>
      PROVE  FireInv'
  <2>1. pc \in Inside
    BY DEF Inside
  <2> QED
    BY <1>1, <1>5, <2>1, KeepCopy
<1> QED
  BY <1>3, <1>4, <1>5 DEF With

LEMMA ReapFiredFire ==
  ASSUME TypeInv, FireInv, NEW a \in Tasks, ReapFired(a)
  PROVE  FireInv'
<1> USE DEF ReapFired
<1> DEFINE u == With(task[a], "admit", Nothing)
<1>1. /\ TaskOK(task[a]) /\ task[a].pc \in Copying /\ task[a].path \in Joins
      /\ Holds(task[a], task[a].path)
  BY DEF TypeInv, TaskOK, At, Holds, Copying, Sweeping, Inside
<1>2. u.pc = "admit"
  BY <1>1, CopyOK DEF PCs
<1>3. Set(a, u)
  BY DEF With
<1> HIDE DEF u
<1> QED
  BY <1>1, <1>2, <1>3, FireStep DEF Copying

LEMMA AdmitAfterReapFire ==
  ASSUME TypeInv, FireInv, NEW a \in Tasks, AdmitAfterReap(a)
  PROVE  FireInv'
<1> USE DEF AdmitAfterReap, history
<1>1. /\ task[a].pc = "judged" /\ task[a].path \in Joins
      /\ Holds(task[a], task[a].path) /\ JoinOK(task[a].copy)
  BY DEF TypeInv, TaskOK, At, Holds, Inside, Copying
<1>2. Counted(task[a].path, task[a].copy)
  BY <1>1 DEF FireInv, Copying
<1> QED
  BY <1>1, <1>2, AdmitFire

LEMMA FiredFire ==
  ASSUME TypeInv, FireInv, NEW a \in Tasks, Fired(a)
  PROVE  FireInv'
<1> USE DEF Fired
<1>1. /\ TaskOK(task[a]) /\ task[a].pc \in Copying /\ task[a].path \in Joins
      /\ Holds(task[a], task[a].path)
  BY DEF TypeInv, TaskOK, At, Holds, Copying, Sweeping, Inside
<1>2. IdleTask.pc \notin Copying /\ Set(a, IdleTask)
  BY DEF IdleTask, Copying, Leave, Return
<1> QED
  BY <1>1, <1>2, FireStep

LEMMA ForwardFire ==
  ASSUME TypeInv, FireInv, NEW a \in Tasks,
         FireFails(a) \/ Dispatched(a) \/ ReadCount(a) \/ Swap(a)
  PROVE  FireInv'
<1> USE DEF FireFails, Dispatched, ReadCount, Swap, stored, history
<1>1. /\ UNCHANGED <<fires, installs, joins>>
      /\ \A j \in Joins : joins'[j] # Nothing => Counted(j, joins'[j])
  BY DEF FireInv
<1>2. CASE Return(a)
  BY <1>1, <1>2, ReturnFire
<1>3. CASE Goto(a, "age")
  BY <1>1, <1>3, GotoFire DEF PCs, Copying
<1>4. CASE Set(a, [task[a] EXCEPT !.pc = "cas", !.seen = forwards[task[a].path]])
  <2> DEFINE u == [task[a] EXCEPT !.pc = "cas", !.seen = forwards[task[a].path]]
  <2>1. u.pc \notin Copying
    BY DEF TypeInv, TaskType, Copying
  <2>2. Set(a, u)
    BY <1>4
  <2> HIDE DEF u
  <2> QED
    BY <1>1, <2>1, <2>2, QuietTask
<1> QED
  BY <1>2, <1>3, <1>4 DEF Leave

\* A join that is installed has fired no round, whatever was there and whoever is
\* firing it.
LEMMA InstallFire ==
  ASSUME TypeInv, FireInv, NEW j \in Joins, Install(j)
  PROVE  FireInv'
<1> USE DEF Install
<1>1. /\ installs \in Nat /\ installs \in installs..MaxInstalls /\ installs' = installs + 1
      /\ installs'..MaxInstalls \subseteq installs..MaxInstalls
  BY ConfigAssumption DEF TypeInv
<1>2. PICK c \in JoinConfigs, S \in SUBSET Slots :
        joins' = [joins EXCEPT ![j] = NewJoin(c, S, installs)]
  OBVIOUS
<1>3. fires[j][installs] = 0
  BY <1>1 DEF FireInv
<1>4. c.count \in Nat
  BY ConfigAssumption DEF ConfigType
<1>5. /\ NewJoin(c, S, installs).inst = installs /\ NewJoin(c, S, installs).cfg = c
      /\ NewJoin(c, S, installs).left = c.count
  BY <1>1, NewJoinOK
<1>6. joins'[j] = NewJoin(c, S, installs) /\ \A k \in Joins \ {j} : joins'[k] = joins[k]
  BY <1>2 DEF TypeInv
<1>7. ASSUME NEW k, NEW jn, JoinOK(jn), Counted(k, jn)
      PROVE  jn.inst < installs' /\ (jn.cfg.count > 0 => fires'[k][jn.inst] + jn.left <= jn.cfg.count)
  <2>1. jn.inst \in Nat
    BY <1>7 DEF JoinOK, JoinType
  <2> QED
    BY <1>1, <1>7, <2>1 DEF Counted
<1>8. ASSUME NEW k \in Joins, joins'[k] # Nothing PROVE Counted(k, joins[k])'
  <2>1. CASE k = j
    BY <1>1, <1>3, <1>4, <1>5, <1>6, <2>1 DEF Counted
  <2>2. CASE k # j
    <3>1. joins'[k] = joins[k] /\ JoinOK(joins[k]) /\ Counted(k, joins[k])
      BY <1>6, <1>8, <2>2 DEF TypeInv, FireInv
    <3> QED
      BY <1>7, <3>1 DEF Counted
  <2> QED
    BY <2>1, <2>2
<1>9. ASSUME NEW b \in Tasks, NEW k \in Joins, task[b].pc \in Copying, Holds(task[b], k)
      PROVE  Counted(k, task[b].copy)'
  <2>1. JoinOK(task[b].copy) /\ Counted(k, task[b].copy)
    BY <1>9 DEF TypeInv, TaskOK, FireInv
  <2> QED
    BY <1>7, <2>1 DEF Counted
<1> QED
  BY <1>1, <1>8, <1>9 DEF FireInv

\* A forward is installed.
LEMMA InstallForwardFire ==
  ASSUME TypeInv, FireInv, NEW f \in Forwards, InstallForward(f)
  PROVE  FireInv'
<1> USE DEF InstallForward
<1>1. /\ installs \in Nat /\ installs' = installs + 1
      /\ installs'..MaxInstalls \subseteq installs..MaxInstalls
  BY ConfigAssumption DEF TypeInv
<1>2. ASSUME NEW k, NEW jn, JoinOK(jn), Counted(k, jn)
      PROVE  jn.inst < installs' /\ (jn.cfg.count > 0 => fires'[k][jn.inst] + jn.left <= jn.cfg.count)
  <2>1. jn.inst \in Nat
    BY <1>2 DEF JoinOK, JoinType
  <2> QED
    BY <1>1, <1>2, <2>1 DEF Counted
<1>3. ASSUME NEW k \in Joins, joins'[k] # Nothing PROVE Counted(k, joins[k])'
  <2>1. joins'[k] = joins[k] /\ JoinOK(joins[k]) /\ Counted(k, joins[k])
    BY <1>3 DEF TypeInv, FireInv
  <2> QED
    BY <1>2, <2>1 DEF Counted
<1>4. ASSUME NEW b \in Tasks, NEW k \in Joins, task[b].pc \in Copying, Holds(task[b], k)
      PROVE  Counted(k, task[b].copy)'
  <2>1. JoinOK(task[b].copy) /\ Counted(k, task[b].copy)
    BY <1>4 DEF TypeInv, TaskOK, FireInv
  <2> QED
    BY <1>2, <2>1 DEF Counted
<1> QED
  BY <1>1, <1>3, <1>4 DEF FireInv

LEMMA FireAll == TypeInv /\ FireInv /\ [Next]_vars => FireInv'
<1> SUFFICES ASSUME TypeInv, FireInv, [Next]_vars PROVE FireInv'
  OBVIOUS
<1>1. ASSUME NEW a \in Tasks, Advance(a, Nothing) PROVE FireInv'
  BY <1>1, AdvanceFire
<1>2. ASSUME NEW a \in Tasks, Step(a) PROVE FireInv'
  BY <1>2, SweepNextFire, SweepReadFire, SweepForgetFire, SweepAbandonFire, SweepFiredFire,
     AdvanceAtPathFire, ReadFire, SlotFire, ReapFiredFire, AdmitAfterReapFire, FiredFire,
     ForwardFire DEF Step
<1>3. ASSUME NEW a \in Tasks, Locking(a) PROVE FireInv'
  BY <1>3, LockingFire
<1>4. ASSUME NEW a \in Tasks, NEW b \in Tasks, Nest(a, b) PROVE FireInv'
  BY <1>4, AdvanceFire DEF Nest
<1>5. CASE UNCHANGED <<joins, task, fires, installs>>
  BY <1>5 DEF FireInv, Counted
<1>6. ASSUME NEW j \in Joins, Install(j) \/ Note(j) \/ DeadlinePasses(j) PROVE FireInv'
  BY <1>5, <1>6, InstallFire DEF Note, DeadlinePasses, history
<1>7. ASSUME NEW f \in Forwards, InstallForward(f) PROVE FireInv'
  BY <1>7, InstallForwardFire
<1>8. CASE UNCHANGED vars
  BY <1>5, <1>8 DEF vars, stored, history
<1> QED
  BY <1>1, <1>2, <1>3, <1>4, <1>6, <1>7, <1>8 DEF Next

\* A counted join never fires more rounds than it was installed for, whatever installs
\* replace it or are overwritten by it: a partial fire, a complete round and an
\* abandoned one all age it under its mutex, from the copy they fired.
THEOREM NoExtraRound == Spec => []FiresAsInstalled
<1>1. Init => FireInv
  BY FireInit
<1>2. TypeInv /\ FireInv /\ [Next]_vars => FireInv'
  BY FireAll
<1>3. FireInv => FiresAsInstalled
  BY DEF FireInv, FiresAsInstalled, Counted
<1> QED
  BY <1>1, <1>2, <1>3, TypeAlways, PTL DEF Spec

-----------------------------------------------------------------------------
(* Forwards.                                                                *)

\* Every dispatch charged to the forward has taken one of its executions, but for
\* those in flight; a forward that is gone had all of its executions taken.
AgeInv ==
  \A f \in Forwards :
    LET n == Cardinality(InFlight(f)) IN
    IF forwards[f] = Nothing THEN charged[f] >= granted[f] + n
    ELSE forwards[f] + charged[f] = granted[f] + n

\* Nothing is dispatched at first.
LEMMA AgeInit == Init => AgeInv
<1> SUFFICES ASSUME Init, NEW f \in Forwards
             PROVE  LET n == Cardinality(InFlight(f)) IN
                    IF forwards[f] = Nothing THEN charged[f] >= granted[f] + n
                    ELSE forwards[f] + charged[f] = granted[f] + n
  BY DEF AgeInv
<1>1. InFlight(f) = {}
  BY DEF Init, IdleTask, InFlight, Flying
<1>2. Cardinality(InFlight(f)) = 0
  BY <1>1, FS_EmptySet
<1>3. /\ forwards[f] = Executions /\ granted[f] = Executions /\ charged[f] = 0
      /\ Executions # Nothing /\ Executions \in Nat
  BY PathAssumption, ConfigAssumption DEF Init
<1> QED
  BY <1>2, <1>3

\* A step that leaves every dispatch as it is.
LEMMA AgeStays ==
  ASSUME AgeInv, UNCHANGED <<forwards, granted, charged>>,
         \A f \in Forwards : InFlight(f)' = InFlight(f)
  PROVE  AgeInv'
  BY DEF AgeInv

\* A task that has no dispatch of a forward in flight, before and after.
LEMMA OtherTask ==
  ASSUME TypeInv, AgeInv, UNCHANGED <<forwards, granted, charged>>, NEW a \in Tasks, NEW t,
         Set(a, t), task[a].pc \notin Flying, t.pc \notin Flying
  PROVE  AgeInv'
<1>1. task'[a] = t /\ \A b \in Tasks \ {a} : task'[b] = task[b]
  BY DEF Set, TypeInv
<1>2. \A f \in Forwards : InFlight(f)' = InFlight(f)
  BY <1>1 DEF InFlight
<1> QED
  BY <1>2, AgeStays

\* A task whose dispatch stays in flight.
LEMMA SameTask ==
  ASSUME TypeInv, AgeInv, UNCHANGED <<forwards, granted, charged>>, NEW a \in Tasks, NEW t,
         Set(a, t), task[a].pc \in Flying, t.pc \in Flying, t.path = task[a].path
  PROVE  AgeInv'
<1>1. task'[a] = t /\ \A b \in Tasks \ {a} : task'[b] = task[b]
  BY DEF Set, TypeInv
<1>2. \A f \in Forwards : InFlight(f)' = InFlight(f)
  BY <1>1 DEF InFlight
<1> QED
  BY <1>2, AgeStays

LEMMA AdvanceAge ==
  ASSUME TypeInv, AgeInv, NEW a \in Tasks, NEW p \in Tasks \cup {Nothing}, Advance(a, p)
  PROVE  AgeInv'
<1> USE DEF Advance, stored
<1>1. PICK t \in Requests : \/ Set(a, [t EXCEPT !.pc = "sweep", !.queue = tracked])
                            \/ Set(a, [t EXCEPT !.pc = "path"])
  OBVIOUS
<1>2. t \in TaskType
  BY RequestOK
<1>3. PICK u : Set(a, u) /\ u \in {[t EXCEPT !.pc = "sweep", !.queue = tracked],
                                   [t EXCEPT !.pc = "path"]}
  BY <1>1
<1>4. u.pc \notin Flying /\ task[a].pc \notin Flying
  BY <1>2, <1>3 DEF TaskType, Flying, At
<1> QED
  BY <1>3, <1>4, OtherTask

LEMMA GotoAge ==
  ASSUME TypeInv, AgeInv, UNCHANGED <<forwards, granted, charged>>, NEW a \in Tasks,
         NEW pc \in PCs, Goto(a, pc), pc \in Flying <=> task[a].pc \in Flying
  PROVE  AgeInv'
<1> DEFINE u == [task[a] EXCEPT !.pc = pc]
<1>1. TaskOK(task[a])
  BY DEF TypeInv
<1>2. u.pc = pc /\ u.path = task[a].path /\ Set(a, u)
  BY <1>1, GotoOK DEF Goto
<1> HIDE DEF u
<1> QED
  BY <1>2, OtherTask, SameTask

LEMMA WithAge ==
  ASSUME TypeInv, AgeInv, UNCHANGED <<forwards, granted, charged>>, NEW a \in Tasks,
         NEW pc \in PCs \ Flying, NEW c \in JoinType \cup {Nothing},
         Set(a, With(task[a], pc, c)), task[a].pc \notin Flying
  PROVE  AgeInv'
<1> DEFINE u == With(task[a], pc, c)
<1>1. TaskOK(task[a])
  BY DEF TypeInv
<1>2. u.pc = pc /\ Set(a, u)
  BY <1>1, CopyOK
<1> HIDE DEF u
<1> QED
  BY <1>2, OtherTask

LEMMA ReturnAge ==
  ASSUME TypeInv, AgeInv, UNCHANGED <<forwards, granted, charged>>, NEW a \in Tasks,
         Return(a), task[a].pc \notin Flying
  PROVE  AgeInv'
<1>1. IdleTask.pc \notin Flying
  BY DEF IdleTask, Flying
<1> QED
  BY <1>1, OtherTask DEF Return

LEMMA SweepAge ==
  ASSUME TypeInv, AgeInv, NEW a \in Tasks,
         \/ SweepNext(a) \/ SweepLock(a) \/ SweepRead(a) \/ SweepForget(a)
         \/ SweepAbandon(a) \/ SweepFired(a)
  PROVE  AgeInv'
<1> USE DEF SweepNext, SweepLock, SweepRead, SweepForget, SweepAbandon, SweepFired, stored, history
<1>1. /\ UNCHANGED <<forwards, granted, charged>> /\ task[a].pc \notin Flying
      /\ task[a] \in TaskType
  BY DEF At, Flying, TypeInv
<1>2. ASSUME NEW pc \in {"sweepjoin", "forget", "sweep"}, Goto(a, pc) PROVE AgeInv'
  <2>1. pc \in PCs \ Flying
    BY DEF PCs, Flying
  <2> QED
    BY <1>1, <1>2, <2>1, GotoAge
<1>3. ASSUME NEW j \in task[a].queue,
             Set(a, [task[a] EXCEPT !.pc = "sweepwait", !.join = j, !.queue = @ \ {j}])
      PROVE  AgeInv'
  <2> DEFINE u == [task[a] EXCEPT !.pc = "sweepwait", !.join = j, !.queue = @ \ {j}]
  <2>1. u.pc \notin Flying
    BY <1>1 DEF TaskType, Flying
  <2>2. Set(a, u)
    BY <1>3
  <2> HIDE DEF u
  <2> QED
    BY <1>1, <2>1, <2>2, OtherTask
<1>4. CASE Set(a, [task[a] EXCEPT !.pc = "path", !.join = Nothing])
  <2> DEFINE u == [task[a] EXCEPT !.pc = "path", !.join = Nothing]
  <2>1. u.pc \notin Flying
    BY <1>1 DEF TaskType, Flying
  <2>2. Set(a, u)
    BY <1>4
  <2> HIDE DEF u
  <2> QED
    BY <1>1, <2>1, <2>2, OtherTask
<1>5. ASSUME NEW c, c = joins[task[a].join], c # Nothing, At(a, "sweepjoin"),
             NEW pc \in {"sweepfire", "abandon"}, Set(a, With(task[a], pc, c))
      PROVE  AgeInv'
  <2>1. pc \in PCs \ Flying /\ c \in JoinType
    BY <1>5 DEF PCs, Flying, TypeInv, TaskOK, At, JoinOK, Sweeping
  <2> QED
    BY <1>1, <1>5, <2>1, WithAge
<1>6. ASSUME NEW c, c = joins[task[a].join], c # Nothing, At(a, "sweepjoin"),
             Set(a, With(task[a], IF c.cfg.partial THEN "sweepfire" ELSE "abandon", c))
      PROVE  AgeInv'
  BY <1>5, <1>6
<1>7. CASE Set(a, With(task[a], "sweep", Nothing))
  <2>1. "sweep" \in PCs \ Flying
    BY DEF PCs, Flying
  <2> QED
    BY <1>1, <1>7, <2>1, WithAge
<1> QED
  <2>1. CASE SweepNext(a)
    BY <1>3, <1>4, <2>1
  <2>2. CASE SweepLock(a) \/ SweepForget(a)
    BY <1>2, <2>2
  <2>3. CASE SweepRead(a)
    BY <1>2, <1>6, <2>3 DEF With
  <2>4. CASE SweepAbandon(a) \/ SweepFired(a)
    BY <1>7, <2>4 DEF With
  <2> QED
    BY <2>1, <2>2, <2>3, <2>4

LEMMA AdmitAge ==
  ASSUME TypeInv, AgeInv, NEW a \in Tasks, task[a].pc \in {"touched", "judged"},
         NEW jn, JoinOK(jn), Admit(a, jn), UNCHANGED <<forwards, granted, charged>>
  PROVE  AgeInv'
<1> DEFINE up == Accumulate(jn, task[a].slot, task[a].round)
<1>1. task[a].pc \notin Flying /\ "fire" \in PCs \ Flying
  BY DEF Flying, PCs
<1>2. CASE Leave(a)
  BY <1>1, <1>2, ReturnAge DEF Leave
<1>3. CASE ~Straggler(a, jn) /\ Set(a, With(task[a], "fire", up))
  <2>1. task[a].slot \in Slots /\ task[a].round \in Nat \cup {Untagged}
    BY DEF TypeInv, TaskOK, TaskType, Sweeping, Inside
  <2>2. jn.cfg.deadline => task[a].round \in {Untagged, jn.round}
    BY <1>3 DEF Straggler
  <2>3. up \in JoinType
    BY <2>1, <2>2, AccumulateOK DEF JoinOK
  <2> HIDE DEF up
  <2> QED
    BY <1>1, <1>3, <2>3, WithAge
<1> QED
  BY <1>2, <1>3 DEF Admit, With

LEMMA JoinAge ==
  ASSUME TypeInv, AgeInv, NEW a \in Tasks,
         \/ JoinLock(a) \/ SlotRead(a) \/ SlotNote(a) \/ Slot(a) \/ ReapFired(a)
         \/ Reread(a) \/ AdmitAfterReap(a) \/ Fired(a) \/ FireFails(a)
  PROVE  AgeInv'
<1> USE DEF JoinLock, SlotRead, SlotNote, Slot, ReapFired, Reread, AdmitAfterReap, Fired,
            FireFails, stored, history
<1> DEFINE jn == joins[task[a].path]
<1>1. UNCHANGED <<forwards, granted, charged>> /\ task[a].pc \notin Flying
  BY DEF At, Flying
<1>2. \A pc \in {"slot", "note", "touched", "admit", "judged", "reap"} : pc \in PCs \ Flying
  BY DEF PCs, Flying
<1>3. /\ task[a].path \in Joins
      /\ jn # Nothing => jn \in JoinType
  BY DEF TypeInv, TaskOK, At, JoinOK, Inside
<1>4. ASSUME NEW pc \in {"slot", "touched", "reap"}, Goto(a, pc) PROVE AgeInv'
  BY <1>1, <1>2, <1>4, GotoAge
<1>5. CASE Leave(a)
  BY <1>1, <1>5, ReturnAge DEF Leave
<1>6. CASE Set(a, With(task[a], "admit", Nothing))
  BY <1>1, <1>2, <1>6, WithAge
<1>7. ASSUME NEW pc \in {"note", "judged"}, jn # Nothing, Set(a, With(task[a], pc, jn))
      PROVE  AgeInv'
  BY <1>1, <1>2, <1>3, <1>7, WithAge
<1>8. CASE task[a].pc \in {"touched", "judged"} /\ Admit(a, task[a].copy)
  <2>1. JoinOK(task[a].copy)
    BY <1>8 DEF TypeInv, TaskOK, Copying
  <2> QED
    BY <1>1, <1>8, <2>1, AdmitAge
<1> QED
  <2>1. CASE JoinLock(a) \/ SlotNote(a)
    BY <1>4, <2>1
  <2>2. CASE SlotRead(a) \/ Reread(a)
    BY <1>5, <1>7, <2>2 DEF With
  <2>3. CASE Slot(a)
    BY <1>4, <1>6, <1>8, <2>3 DEF With, At
  <2>4. CASE ReapFired(a)
    BY <1>6, <2>4 DEF With
  <2>5. CASE AdmitAfterReap(a)
    BY <1>8, <2>5 DEF At
  <2>6. CASE Fired(a) \/ FireFails(a)
    BY <1>5, <2>6
  <2> QED
    BY <2>1, <2>2, <2>3, <2>4, <2>5, <2>6

\* A dispatch begins or ends: one task more, or one less, is in flight.
LEMMA OneMore ==
  ASSUME TypeInv, NEW a \in Tasks, NEW t, Set(a, t), task[a].pc \notin Flying,
         t.pc \in Flying, NEW f \in Forwards, t.path = f
  PROVE  /\ Cardinality(InFlight(f)') = Cardinality(InFlight(f)) + 1
         /\ \A g \in Forwards \ {f} : InFlight(g)' = InFlight(g)
<1>1. task'[a] = t /\ \A b \in Tasks \ {a} : task'[b] = task[b]
  BY DEF Set, TypeInv
<1>2. InFlight(f)' = InFlight(f) \cup {a} /\ a \notin InFlight(f)
  BY <1>1 DEF InFlight
<1>3. \A g \in Forwards \ {f} : InFlight(g)' = InFlight(g)
  BY <1>1 DEF InFlight
<1> QED
  BY <1>2, <1>3, InFlightFinite, FS_AddElement

LEMMA OneLess ==
  ASSUME TypeInv, NEW a \in Tasks, NEW t, Set(a, t), task[a].pc \in Flying,
         t.pc \notin Flying, NEW f \in Forwards, task[a].path = f
  PROVE  /\ Cardinality(InFlight(f)) = Cardinality(InFlight(f)') + 1
         /\ Cardinality(InFlight(f)') \in Nat
         /\ \A g \in Forwards \ {f} : InFlight(g)' = InFlight(g)
<1>1. task'[a] = t /\ \A b \in Tasks \ {a} : task'[b] = task[b]
  BY DEF Set, TypeInv
<1>2. InFlight(f)' = InFlight(f) \ {a} /\ a \in InFlight(f)
  BY <1>1 DEF InFlight
<1>3. \A g \in Forwards \ {f} : InFlight(g)' = InFlight(g)
  BY <1>1 DEF InFlight
<1>4. /\ IsFiniteSet(InFlight(f)) /\ Cardinality(InFlight(f)) \in Nat
      /\ IsFiniteSet(InFlight(f)')
  BY <1>2, InFlightFinite, FS_RemoveElement
<1>5. Cardinality(InFlight(f)') = Cardinality(InFlight(f)) - 1
  BY <1>2, <1>4, FS_RemoveElement
<1>6. Cardinality(InFlight(f)') \in Nat
  BY <1>4, FS_CardinalityType
<1> QED
  BY <1>3, <1>4, <1>5, <1>6

LEMMA AdvanceAtPathAge ==
  ASSUME TypeInv, AgeInv, NEW a \in Tasks, AdvanceAtPath(a)
  PROVE  AgeInv'
<1> USE DEF AdvanceAtPath, stored
<1>1. task[a].pc \notin Flying /\ TaskOK(task[a]) /\ UNCHANGED <<forwards, granted>>
  BY DEF At, Flying, TypeInv
<1>2. CASE Goto(a, "wait") /\ UNCHANGED charged
  BY <1>1, <1>2, GotoAge DEF PCs, Flying
<1>3. CASE Return(a) /\ UNCHANGED charged
  BY <1>1, <1>3, ReturnAge
<1>4. ASSUME NEW f \in Forwards, task[a].path = f, forwards[f] # Nothing,
             charged' = [charged EXCEPT ![f] = @ + 1], Goto(a, "dispatch")
      PROVE  AgeInv'
  <2> DEFINE u == [task[a] EXCEPT !.pc = "dispatch"]
  <2>1. u.pc = "dispatch" /\ u.path = f /\ Set(a, u)
    BY <1>1, <1>4, GotoOK DEF Goto, PCs
  <2> HIDE DEF u
  <2>2. /\ Cardinality(InFlight(f)') = Cardinality(InFlight(f)) + 1
        /\ \A g \in Forwards \ {f} : InFlight(g)' = InFlight(g)
    BY <1>1, <1>4, <2>1, OneMore DEF Flying
  <2>3. charged'[f] = charged[f] + 1 /\ \A g \in Forwards \ {f} : charged'[g] = charged[g]
    BY <1>4 DEF TypeInv
  <2>4. forwards[f] \in Nat /\ charged[f] \in Nat /\ granted[f] \in Nat /\ Cardinality(InFlight(f)) \in Nat
    BY <1>4, InFlightFinite DEF TypeInv
  <2>5. forwards[f] + charged[f] = granted[f] + Cardinality(InFlight(f))
    BY <1>4 DEF AgeInv
  <2>6. forwards[f] + charged'[f] = granted[f] + Cardinality(InFlight(f)')
    BY <2>2, <2>3, <2>4, <2>5, ConfigAssumption
  <2> QED
    BY <1>1, <1>4, <2>2, <2>3, <2>6 DEF AgeInv
<1> QED
  BY <1>2, <1>3, <1>4

\* The advance returns with its execution taken, or finds the forward gone.
LEMMA AgedReturn ==
  ASSUME TypeInv, AgeInv, NEW a \in Tasks, task[a].pc \in Flying, Return(a),
         UNCHANGED <<granted, charged>>,
         LET f == task[a].path IN
         \/ forwards[f] = Nothing /\ UNCHANGED forwards
         \/ forwards[f] # Nothing /\ forwards' = [forwards EXCEPT ![f] = Aged(forwards[f])]
  PROVE  AgeInv'
<1>1. PICK f \in Forwards : f = task[a].path
  BY DEF TypeInv, TaskOK, Flying
<1>2. IdleTask.pc \notin Flying /\ Set(a, IdleTask)
  BY DEF IdleTask, Flying, Return
<1>3. /\ Cardinality(InFlight(f)) = Cardinality(InFlight(f)') + 1
      /\ Cardinality(InFlight(f)') \in Nat
      /\ \A g \in Forwards \ {f} : InFlight(g)' = InFlight(g)
  BY <1>1, <1>2, OneLess
<1>4. charged[f] \in Nat /\ charged' = charged /\ granted[f] \in Nat /\ granted' = granted
  BY <1>1, ConfigAssumption DEF TypeInv
<1>5. CASE forwards[f] = Nothing /\ UNCHANGED forwards
  <2>1. charged[f] >= granted[f] + Cardinality(InFlight(f))
    BY <1>1, <1>5 DEF AgeInv
  <2>2. charged[f] >= granted[f] + Cardinality(InFlight(f)')
    BY <1>3, <1>4, <2>1, ConfigAssumption
  <2> QED
    BY <1>3, <1>4, <1>5, <2>2 DEF AgeInv
<1>6. CASE forwards[f] # Nothing /\ forwards' = [forwards EXCEPT ![f] = Aged(forwards[f])]
  <2>1. forwards[f] + charged[f] = granted[f] + Cardinality(InFlight(f))
    BY <1>1, <1>6 DEF AgeInv
  <2>2. forwards[f] \in 1..Executions
    BY <1>1, <1>6 DEF TypeInv
  <2>3. /\ forwards'[f] = Aged(forwards[f])
        /\ \A g \in Forwards \ {f} : forwards'[g] = forwards[g]
    BY <1>1, <1>6 DEF TypeInv
  <2>4. IF forwards'[f] = Nothing THEN charged'[f] >= granted'[f] + Cardinality(InFlight(f)')
        ELSE forwards'[f] + charged'[f] = granted'[f] + Cardinality(InFlight(f)')
    <3>1. CASE forwards[f] = 1
      BY <1>3, <1>4, <2>1, <2>3, <3>1, ConfigAssumption DEF Aged
    <3>2. CASE forwards[f] # 1
      <4>1. forwards'[f] = forwards[f] - 1 /\ forwards'[f] \in Nat
        BY <2>2, <2>3, <3>2, ConfigAssumption DEF Aged
      <4>2. forwards'[f] # Nothing
        BY <4>1, PathAssumption
      <4> QED
        BY <1>3, <1>4, <2>1, <2>2, <4>1, <4>2, ConfigAssumption
    <3> QED
      BY <3>1, <3>2
  <2> QED
    BY <1>3, <1>4, <2>3, <2>4 DEF AgeInv
<1> QED
  BY <1>1, <1>5, <1>6

LEMMA ForwardAge ==
  ASSUME TypeInv, AgeInv, NEW a \in Tasks, Dispatched(a) \/ ReadCount(a) \/ Swap(a)
  PROVE  AgeInv'
<1> USE DEF Dispatched, ReadCount, Swap, stored, history
<1> DEFINE f == task[a].path
<1>1. /\ task[a].pc \in Flying /\ "age" \in Flying /\ "age" \in PCs /\ UNCHANGED <<granted, charged>>
      /\ f \in Forwards /\ (task[a].pc = "cas" => task[a].seen \in 1..Executions)
  BY DEF At, Flying, PCs, TypeInv, TaskOK
<1>2. CASE Goto(a, "age") /\ UNCHANGED forwards
  BY <1>1, <1>2, GotoAge
<1>3. CASE forwards[f] = Nothing /\ Return(a) /\ UNCHANGED forwards
  BY <1>1, <1>3, AgedReturn
<1>4. CASE /\ task[a].pc = "cas" /\ forwards[f] = task[a].seen /\ Return(a)
           /\ forwards' = [forwards EXCEPT ![f] = Aged(task[a].seen)]
  <2>1. forwards[f] # Nothing
    BY <1>1, <1>4, PathAssumption, ConfigAssumption
  <2> QED
    BY <1>1, <1>4, <2>1, AgedReturn
<1>5. CASE UNCHANGED forwards /\ Set(a, [task[a] EXCEPT !.pc = "cas", !.seen = forwards[f]])
  <2> DEFINE u == [task[a] EXCEPT !.pc = "cas", !.seen = forwards[f]]
  <2>1. u.pc \in Flying /\ u.path = task[a].path
    BY DEF TypeInv, TaskType, Flying
  <2>2. Set(a, u)
    BY <1>5
  <2> HIDE DEF u
  <2> QED
    BY <1>1, <1>5, <2>1, <2>2, SameTask
<1> QED
  <2>1. CASE Dispatched(a)
    BY <1>2, <2>1
  <2>2. CASE ReadCount(a)
    BY <1>3, <1>5, <2>2
  <2>3. CASE Swap(a)
    BY <1>2, <1>3, <1>4, <2>3 DEF At
  <2> QED
    BY <2>1, <2>2, <2>3

\* A forward is installed: what is in flight will take an execution of it.
LEMMA InstallForwardAge ==
  ASSUME TypeInv, AgeInv, NEW g \in Forwards, InstallForward(g)
  PROVE  AgeInv'
<1> USE DEF InstallForward
<1>1. PICK n \in 1..Executions :
        /\ forwards' = [forwards EXCEPT ![g] = n] /\ granted' = [granted EXCEPT ![g] = n]
  OBVIOUS
<1>2. \A f \in Forwards : InFlight(f)' = InFlight(f)
  BY DEF InFlight
<1>3. /\ forwards'[g] = n /\ granted'[g] = n /\ charged'[g] = Cardinality(InFlight(g))
      /\ \A f \in Forwards \ {g} : /\ forwards'[f] = forwards[f] /\ granted'[f] = granted[f]
                                   /\ charged'[f] = charged[f]
  BY <1>1 DEF TypeInv
<1>4. n # Nothing /\ n \in Nat
  BY PathAssumption, ConfigAssumption
<1>5. forwards'[g] + charged'[g] = granted'[g] + Cardinality(InFlight(g)')
  BY <1>2, <1>3
<1> QED
  BY <1>2, <1>3, <1>4, <1>5 DEF AgeInv

LEMMA AgeStep == TypeInv /\ AgeInv /\ [Next]_vars => AgeInv'
<1> SUFFICES ASSUME TypeInv, AgeInv, [Next]_vars PROVE AgeInv'
  OBVIOUS
<1>1. ASSUME NEW a \in Tasks, Advance(a, Nothing) PROVE AgeInv'
  BY <1>1, AdvanceAge
<1>2. ASSUME NEW a \in Tasks, Step(a) PROVE AgeInv'
  BY <1>2, SweepAge, JoinAge, AdvanceAtPathAge, ForwardAge DEF Step
<1>3. ASSUME NEW a \in Tasks, Locking(a) PROVE AgeInv'
  BY <1>3, SweepAge, JoinAge DEF Locking
<1>4. ASSUME NEW a \in Tasks, NEW b \in Tasks, Nest(a, b) PROVE AgeInv'
  BY <1>4, AdvanceAge DEF Nest
<1>5. CASE UNCHANGED <<forwards, granted, charged, task>>
  BY <1>5, AgeStays DEF InFlight
<1>6. ASSUME NEW j \in Joins, Install(j) \/ Note(j) \/ DeadlinePasses(j) PROVE AgeInv'
  BY <1>5, <1>6 DEF Install, Note, DeadlinePasses, history
<1>7. ASSUME NEW f \in Forwards, InstallForward(f) PROVE AgeInv'
  BY <1>7, InstallForwardAge
<1>8. CASE UNCHANGED vars
  BY <1>5, <1>8 DEF vars, stored, history
<1> QED
  BY <1>1, <1>2, <1>3, <1>4, <1>6, <1>7, <1>8 DEF Next

\* Once the advances of a forward have returned, it has been aged once for each dispatch
\* made since it was installed, and once for each dispatch of what it replaced that was
\* still unfinished then: handle_remaining_executions ages what is bound.  However many
\* advance it at once, each of them takes exactly one execution.
THEOREM AgedOnce == Spec => []AgedOncePerDispatch
<1>1. Init => AgeInv
  BY AgeInit
<1>2. TypeInv /\ AgeInv /\ [Next]_vars => AgeInv'
  BY AgeStep
<1>3. TypeInv /\ AgeInv => AgedOncePerDispatch
  <2> SUFFICES ASSUME TypeInv, AgeInv, NEW f \in Forwards, \A a \in Tasks : task[a].path # f
               PROVE  forwards[f] = IF charged[f] >= granted[f] THEN Nothing
                                    ELSE granted[f] - charged[f]
    BY DEF AgedOncePerDispatch
  <2>1. Cardinality(InFlight(f)) = 0
    <3>1. InFlight(f) = {}
      BY DEF InFlight
    <3> QED
      BY <3>1, FS_EmptySet
  <2>2. /\ charged[f] \in Nat /\ granted[f] \in Nat
        /\ forwards[f] # Nothing => forwards[f] \in Nat \ {0}
    BY ConfigAssumption DEF TypeInv
  <2>3. IF forwards[f] = Nothing THEN charged[f] >= granted[f]
        ELSE forwards[f] + charged[f] = granted[f]
    BY <2>1, <2>2 DEF AgeInv
  <2> QED
    BY <2>2, <2>3
<1> QED
  BY <1>1, <1>2, <1>3, TypeAlways, PTL DEF Spec
=============================================================================
