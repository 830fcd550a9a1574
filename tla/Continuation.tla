---------------------------- MODULE Continuation ----------------------------
(***************************************************************************)
(* The continuation handler's advance (extensions/continuation): forward   *)
(* continuations, aged by a compare-and-swap after their dispatch; and     *)
(* joins, which collect one result per slot and dispatch when all have     *)
(* come, round after round, each round with a deadline if the join has     *)
(* one.  Every advance first sweeps the joins it knows of for rounds that  *)
(* are past their deadline, at most once a minute.                         *)
(*                                                                         *)
(* A join is only advanced and reaped under its path's mutex, which is     *)
(* held across the dispatch of its target.  Install takes no lock, so what *)
(* it stores can be overwritten by a task that works on the join it        *)
(* replaced.  The target of a dispatch may advance a continuation in its   *)
(* turn, on the same call stack: the dispatch returns when that advance    *)
(* has ended.                                                              *)
(*                                                                         *)
(* A result is represented by the round it says it belongs to, a forward   *)
(* by its count: what else it holds makes no difference to its ageing,     *)
(* which takes whatever is bound when it looks.  Markers and per-slot      *)
(* statuses, which no step reads, are left out.                            *)
(***************************************************************************)
EXTENDS Naturals, FiniteSets

CONSTANTS
  Tasks,         \* advances that may be in progress at once
  Joins,         \* paths of joins
  Slots,         \* every join expects these
  Forwards,      \* paths of forward continuations
  Executions,    \* most remaining_executions a forward is installed with
  JoinConfigs,   \* the joins that may be installed
  MaxAdvances,   \* bound: advances in all
  MaxInstalls,   \* bound: installs, the first ones of the joins included
  Untagged,      \* a result without a round id
  Nothing        \* no entity, no result, no task

ConfigType == [deadline : BOOLEAN, partial : BOOLEAN, onError : BOOLEAN, count : Nat]

ASSUME PathAssumption ==
  /\ Joins \cap Forwards = {} /\ Slots # {}
  /\ IsFiniteSet(Joins) /\ IsFiniteSet(Tasks)
  /\ Nothing \notin Nat
  /\ Nothing \notin Tasks \cup Joins \cup Forwards \cup {Untagged}

ASSUME ConfigAssumption ==
  /\ JoinConfigs # {} /\ JoinConfigs \subseteq ConfigType
  /\ Executions \in Nat \ {0} /\ MaxAdvances \in Nat
  /\ MaxInstalls \in Nat /\ Cardinality(Joins) <= MaxInstalls

VARIABLES
  joins,       \* the join at each path
  forwards,    \* remaining_executions of the forward at each path
  tracked,     \* join_paths
  noting,      \* installs that have stored a join and not noted its path yet
  late,        \* rounds past their deadline: path, installed join, round
  lock,        \* the task that has each join's mutex
  task,        \* what each task is doing
  parent,      \* the task whose dispatch made this advance
  advances,    \* advances so far (bounded by MaxAdvances)
  installs,    \* installs so far (bounded by MaxInstalls)
  fires,       \* history: rounds each installed join has fired
  granted,     \* history: executions each forward was last installed with
  charged      \* history: dispatches since, and those unfinished at that time

stored == <<joins, forwards, tracked, noting, late>>
history == <<advances, installs, fires, granted, charged>>
vars == <<stored, lock, task, parent, history>>

-----------------------------------------------------------------------------
(* A join.  received holds what came for each slot; armed says that         *)
(* round_started_ms is set; left is remaining_executions, 0 for a standing  *)
(* join; inst tells installed joins apart.                                  *)

NoResults == [s \in Slots |-> Nothing]

\* The clock, the statuses and the round are made fresh; results that the
\* installer put in received, for the slots S, are kept.
NewJoin(c, S, i) ==
  [cfg |-> c, received |-> [s \in Slots |-> IF s \in S THEN Untagged ELSE Nothing],
   armed |-> FALSE, round |-> 0, left |-> c.count, inst |-> i]

Missing(jn) == {s \in Slots : jn.received[s] = Nothing}

\* The clock of a round of the join at path j.
Clock(j, jn) == <<j, jn.inst, jn.round>>

\* join_round_incomplete
RoundIncomplete(j, jn) == jn.armed /\ Clock(j, jn) \in late /\ Missing(jn) # {}

\* reset_join_round
ResetRound(jn) ==
  [jn EXCEPT !.received = NoResults, !.armed = FALSE,
             !.round = IF jn.cfg.deadline THEN @ + 1 ELSE @]

\* Mutant: a counted join is reset and never used up.
FinishedForever(jn) == ResetRound(jn)

\* finish_join_round: what is left of the join after a round.
Finished(jn) ==
  IF jn.left = 1 THEN Nothing
  ELSE [ResetRound(jn) EXCEPT !.left = IF @ = 0 THEN 0 ELSE @ - 1]

FinishRound(j, jn) == joins' = [joins EXCEPT ![j] = Finished(jn)]

\* The slot's result goes in and the round's clock is armed.
Accumulate(jn, s, r) ==
  [jn EXCEPT !.received[s] = r,
             !.armed = @ \/ jn.cfg.deadline]

-----------------------------------------------------------------------------
(* A task.  path, slot and round are the request; queue the joins still to  *)
(* be swept, and join the one in hand; copy the JoinData it works on; seen  *)
(* the forward's count its compare-and-swap expects.                        *)

PCs == {"idle", "sweep", "sweepwait", "sweepjoin", "forget", "abandon", "sweepfire",
        "path", "wait", "slot", "note", "touched", "reap", "admit", "judged", "fire",
        "dispatch", "age", "cas"}

IdleTask ==
  [pc |-> "idle", path |-> Nothing, slot |-> Nothing, round |-> Untagged,
   queue |-> {}, join |-> Nothing, copy |-> Nothing, seen |-> 0]

Init ==
  /\ \E cs \in [Joins -> JoinConfigs], S \in [Joins -> SUBSET Slots] :
       joins = [j \in Joins |-> NewJoin(cs[j], S[j], 0)]
  /\ forwards = [f \in Forwards |-> Executions]
  /\ tracked = {j \in Joins : joins[j].cfg.deadline}
  /\ noting = [j \in Joins |-> 0] /\ late = {}
  /\ lock = [j \in Joins |-> Nothing]
  /\ task = [a \in Tasks |-> IdleTask] /\ parent = [a \in Tasks |-> Nothing]
  /\ advances = 0 /\ installs = Cardinality(Joins)
  /\ fires = [j \in Joins |-> [i \in 0..MaxInstalls |-> 0]]
  /\ granted = forwards /\ charged = [f \in Forwards |-> 0]

At(a, pc) == task[a].pc = pc
Set(a, t) == task' = [task EXCEPT ![a] = t]
Goto(a, pc) == Set(a, [task[a] EXCEPT !.pc = pc])
Acquire(a, j) == lock[j] = Nothing /\ lock' = [lock EXCEPT ![j] = a]
Release(j) == lock' = [lock EXCEPT ![j] = Nothing]

\* The advance returns to whoever made it.
Return(a) == Set(a, IdleTask) /\ parent' = [parent EXCEPT ![a] = Nothing]

Dispatching == {"sweepfire", "reap", "fire", "dispatch"}

\* The dispatch of task a can return.
NothingNested(a) == \A b \in Tasks : parent[b] # a

-----------------------------------------------------------------------------
(* handle_advance: a request comes in by itself or from a dispatch; the     *)
(* sweep is due or throttled.                                               *)

\* The round a slot result says it is from: none, one gone by, or the current.
Rounds(j) == {Untagged} \cup (IF joins[j] = Nothing THEN {} ELSE 0..joins[j].round)

ForwardRequest(f) == [IdleTask EXCEPT !.path = f]
SlotRequest(j, s, r) == [IdleTask EXCEPT !.path = j, !.slot = s, !.round = r]

Requests ==
  {ForwardRequest(f) : f \in Forwards}
    \cup UNION {{SlotRequest(j, s, r) : s \in Slots, r \in Rounds(j)} : j \in Joins}

Advance(a, p) ==
  /\ At(a, "idle") /\ advances < MaxAdvances
  /\ advances' = advances + 1
  /\ \E t \in Requests : \/ Set(a, [t EXCEPT !.pc = "sweep", !.queue = tracked])
                         \/ Set(a, [t EXCEPT !.pc = "path"])
  /\ parent' = [parent EXCEPT ![a] = p]
  /\ UNCHANGED <<stored, lock, installs, fires, granted, charged>>

\* maybe_sweep_joins: one join after the other, each under its lock.
SweepNext(a) ==
  /\ At(a, "sweep")
  /\ IF task[a].queue = {}
     THEN Set(a, [task[a] EXCEPT !.pc = "path", !.join = Nothing])
     ELSE \E j \in task[a].queue :
            Set(a, [task[a] EXCEPT !.pc = "sweepwait", !.join = j,
                                   !.queue = @ \ {j}])
  /\ UNCHANGED <<stored, lock, parent, history>>

SweepLock(a) ==
  /\ At(a, "sweepwait") /\ Acquire(a, task[a].join)
  /\ Goto(a, "sweepjoin")
  /\ UNCHANGED <<stored, parent, history>>

\* sweep_one_join reads the join: what is no deadline-carrying join is to be
\* forgotten; a round past its deadline is fired as it is, or abandoned.  The
\* sweep's clock was read before it waited for the lock, and may not show the
\* deadline passed.
SweepRead(a) ==
  /\ At(a, "sweepjoin")
  /\ LET j  == task[a].join
         jn == joins[j]
     IN \/ /\ jn = Nothing \/ (jn # Nothing /\ ~jn.cfg.deadline)
           /\ Goto(a, "forget") /\ UNCHANGED lock
        \/ /\ jn # Nothing /\ jn.cfg.deadline
           /\ Release(j) /\ Goto(a, "sweep")
        \/ /\ jn # Nothing /\ RoundIncomplete(j, jn)
           /\ Set(a, [task[a] EXCEPT !.copy = jn,
                       !.pc = IF jn.cfg.partial THEN "sweepfire" ELSE "abandon"])
           /\ UNCHANGED lock
  /\ UNCHANGED <<stored, parent, history>>

\* forget_join_path, whatever was installed since the join was read.
SweepForget(a) ==
  /\ At(a, "forget")
  /\ tracked' = tracked \ {task[a].join}
  /\ Release(task[a].join) /\ Goto(a, "sweep")
  /\ UNCHANGED <<joins, forwards, noting, late, parent, history>>

\* reap_join_round, abandoning: the round of the join that was read is over.
SweepAbandon(a) ==
  /\ At(a, "abandon")
  /\ FinishRound(task[a].join, task[a].copy)
  /\ Release(task[a].join)
  /\ Set(a, [task[a] EXCEPT !.pc = "sweep", !.copy = Nothing])
  /\ UNCHANGED <<forwards, tracked, noting, late, parent, history>>

\* Count a round that has fired.
CountFire(j, jn) == fires' = [fires EXCEPT ![j][jn.inst] = @ + 1]

\* fire_partial_round: the dispatch returns, well or badly, and the round is over.
SweepFired(a) ==
  /\ At(a, "sweepfire") /\ NothingNested(a)
  /\ FinishRound(task[a].join, task[a].copy)
  /\ CountFire(task[a].join, task[a].copy)
  /\ Release(task[a].join)
  /\ Set(a, [task[a] EXCEPT !.pc = "sweep", !.copy = Nothing])
  /\ UNCHANGED <<forwards, tracked, noting, late, parent,
                 advances, installs, granted, charged>>

\* advance_at_path: a forward is dispatched, a slot of a join waits for the
\* join's lock, and for anything else nothing is found.  A forward may also be
\* refused and not aged: its transform fails, its capability is gone, or the
\* chain is too deep.
AdvanceAtPath(a) ==
  /\ At(a, "path")
  /\ LET p == task[a].path IN
       \/ /\ p \in Forwards /\ forwards[p] # Nothing
          /\ charged' = [charged EXCEPT ![p] = @ + 1]
          /\ Goto(a, "dispatch") /\ UNCHANGED parent
       \/ /\ p \in Joins /\ joins[p] # Nothing
          /\ Goto(a, "wait") /\ UNCHANGED <<parent, charged>>
       \/ /\ p \in Forwards \/ (p \in Joins /\ joins[p] = Nothing)
          /\ Return(a) /\ UNCHANGED charged
  /\ UNCHANGED <<stored, lock, advances, installs, fires, granted>>

-----------------------------------------------------------------------------
(* advance_join_slot.                                                       *)

JoinLock(a) ==
  /\ At(a, "wait") /\ Acquire(a, task[a].path)
  /\ Goto(a, "slot")
  /\ UNCHANGED <<stored, parent, history>>

\* Drop the lock and return.
Leave(a) == Release(task[a].path) /\ Return(a)

\* Mutant: whatever round the result is from, it is admitted.
StragglerAdmitted(a, jn) == FALSE

\* The straggler guard: a result tagged with another round than the current.
Straggler(a, jn) ==
  task[a].round # Untagged /\ jn.cfg.deadline /\ task[a].round # jn.round

\* From the straggler guard on, with the JoinData in hand: drop, or accumulate
\* and store, or accumulate and dispatch.  A result that completes the round is
\* dropped too when the dispatch capability is gone.
Admit(a, jn) ==
  LET j  == task[a].path
      up == Accumulate(jn, task[a].slot, task[a].round)
  IN \/ /\ Straggler(a, jn) \/ Missing(up) = {}
        /\ Leave(a) /\ UNCHANGED joins
     \/ /\ ~Straggler(a, jn) /\ Missing(up) # {}
        /\ joins' = [joins EXCEPT ![j] = up]
        /\ Leave(a)
     \/ /\ ~Straggler(a, jn) /\ Missing(up) = {}
        /\ Set(a, [task[a] EXCEPT !.pc = "fire", !.copy = up])
        /\ UNCHANGED <<joins, lock, parent>>

\* The join is read again under the lock.
SlotRead(a) ==
  /\ At(a, "slot")
  /\ LET jn == joins[task[a].path] IN
       \/ jn = Nothing /\ Leave(a)
       \/ /\ jn # Nothing
          /\ Set(a, [task[a] EXCEPT !.pc = "note", !.copy = jn])
          /\ UNCHANGED <<lock, parent>>
  /\ UNCHANGED <<stored, history>>

\* note_join_path
SlotNote(a) ==
  /\ At(a, "note")
  /\ tracked' = IF task[a].copy.cfg.deadline THEN tracked \cup {task[a].path} ELSE tracked
  /\ Goto(a, "touched")
  /\ UNCHANGED <<joins, forwards, noting, late, lock, parent, history>>

\* A round past its deadline is reaped before the result is looked at.
Slot(a) ==
  /\ At(a, "touched")
  /\ LET j  == task[a].path
         jn == task[a].copy
     IN \/ ~RoundIncomplete(j, jn) /\ Admit(a, jn)
        \/ /\ RoundIncomplete(j, jn) /\ ~jn.cfg.partial
           /\ FinishRound(j, jn)
           /\ Set(a, [task[a] EXCEPT !.pc = "admit", !.copy = Nothing])
           /\ UNCHANGED <<lock, parent>>
        \/ /\ RoundIncomplete(j, jn) /\ jn.cfg.partial
           /\ Goto(a, "reap")
           /\ UNCHANGED <<joins, lock, parent>>
  /\ UNCHANGED <<forwards, tracked, noting, late, history>>

ReapFired(a) ==
  /\ At(a, "reap") /\ NothingNested(a)
  /\ FinishRound(task[a].path, task[a].copy)
  /\ CountFire(task[a].path, task[a].copy)
  /\ Set(a, [task[a] EXCEPT !.pc = "admit", !.copy = Nothing])
  /\ UNCHANGED <<forwards, tracked, noting, late, lock, parent,
                 advances, installs, granted, charged>>

\* After the reap the join is read once more: it may be gone.
Reread(a) ==
  /\ At(a, "admit")
  /\ LET jn == joins[task[a].path] IN
       \/ jn = Nothing /\ Leave(a)
       \/ /\ jn # Nothing
          /\ Set(a, [task[a] EXCEPT !.pc = "judged", !.copy = jn])
          /\ UNCHANGED <<lock, parent>>
  /\ UNCHANGED <<stored, history>>

AdmitAfterReap(a) ==
  /\ At(a, "judged")
  /\ Admit(a, task[a].copy)
  /\ UNCHANGED <<forwards, tracked, noting, late, history>>

\* The dispatch succeeded, or failed and on_error took it: the round is over.
Fired(a) ==
  /\ At(a, "fire") /\ NothingNested(a)
  /\ FinishRound(task[a].path, task[a].copy)
  /\ CountFire(task[a].path, task[a].copy)
  /\ Leave(a)
  /\ UNCHANGED <<forwards, tracked, noting, late, advances, installs, granted, charged>>

\* The dispatch failed and there is no on_error: the join stays as it was,
\* without the last result.
FireFails(a) ==
  /\ At(a, "fire") /\ NothingNested(a) /\ ~task[a].copy.cfg.onError
  /\ Leave(a)
  /\ UNCHANGED <<stored, history>>

-----------------------------------------------------------------------------
(* advance_forward, after its dispatch: handle_remaining_executions.        *)

Dispatched(a) ==
  /\ At(a, "dispatch") /\ NothingNested(a)
  /\ Goto(a, "age")
  /\ UNCHANGED <<stored, lock, parent, history>>

ReadCount(a) ==
  /\ At(a, "age")
  /\ LET n == forwards[task[a].path] IN
       \/ n = Nothing /\ Return(a)
       \/ /\ n # Nothing
          /\ Set(a, [task[a] EXCEPT !.pc = "cas", !.seen = n]) /\ UNCHANGED parent
  /\ UNCHANGED <<stored, lock, history>>

\* Mutant: the last execution leaves a count of zero.
AgedToZero(n) == IF n = 0 THEN Nothing ELSE n - 1

Aged(n) == IF n <= 1 THEN Nothing ELSE n - 1

\* Mutant: the decremented count is stored with a plain set.
SwapBlind(a) ==
  /\ At(a, "cas")
  /\ forwards' = [forwards EXCEPT ![task[a].path] = Aged(task[a].seen)]
  /\ Return(a)
  /\ UNCHANGED <<joins, tracked, noting, late, lock, history>>

\* compare_and_swap, or compare_and_remove for the last execution.
Swap(a) ==
  /\ At(a, "cas")
  /\ LET p == task[a].path IN
       \/ /\ forwards[p] = task[a].seen
          /\ forwards' = [forwards EXCEPT ![p] = Aged(task[a].seen)]
          /\ Return(a)
       \/ forwards[p] = Nothing /\ Return(a) /\ UNCHANGED forwards
       \/ /\ forwards[p] # Nothing /\ forwards[p] # task[a].seen
          /\ Goto(a, "age") /\ UNCHANGED <<forwards, parent>>
  /\ UNCHANGED <<joins, tracked, noting, late, lock, history>>

-----------------------------------------------------------------------------
\* handle_install of a join: a plain set, with no lock.
Install(j) ==
  /\ installs < MaxInstalls
  /\ installs' = installs + 1
  /\ \E c \in JoinConfigs, S \in SUBSET Slots :
       /\ joins' = [joins EXCEPT ![j] = NewJoin(c, S, installs)]
       /\ noting' = IF c.deadline THEN [noting EXCEPT ![j] = @ + 1] ELSE noting
  /\ UNCHANGED <<forwards, tracked, late, lock, task, parent,
                 advances, fires, granted, charged>>

\* The note that follows it.
Note(j) ==
  /\ noting[j] > 0
  /\ noting' = [noting EXCEPT ![j] = @ - 1] /\ tracked' = tracked \cup {j}
  /\ UNCHANGED <<joins, forwards, late, lock, task, parent, history>>

\* Between the dispatch of a forward and the end of its ageing.
Flying == {"dispatch", "age", "cas"}

InFlight(f) == {a \in Tasks : task[a].path = f /\ task[a].pc \in Flying}

\* handle_install of a forward: a plain set over whatever is bound.
InstallForward(f) ==
  /\ installs < MaxInstalls
  /\ installs' = installs + 1
  /\ \E n \in 1..Executions :
       /\ forwards' = [forwards EXCEPT ![f] = n]
       /\ granted' = [granted EXCEPT ![f] = n]
  /\ charged' = [charged EXCEPT ![f] = Cardinality(InFlight(f))]
  /\ UNCHANGED <<joins, tracked, noting, late, lock, task, parent, advances, fires>>

\* The task that has read the join and not looked at the clock yet.
Readers(j) == {a \in Tasks : task[a].path = j /\ task[a].pc \in {"note", "touched"}}

\* Time passes: for the join in the tree, and for one that a task has read.
DeadlinePasses(j) ==
  /\ \E jn \in ({joins[j]} \cup {task[a].copy : a \in Readers(j)}) \ {Nothing} :
       jn.armed /\ Clock(j, jn) \notin late /\ late' = late \cup {Clock(j, jn)}
  /\ UNCHANGED <<joins, forwards, tracked, noting, lock, task, parent, history>>

Step(a) ==
  \/ SweepNext(a) \/ SweepRead(a) \/ SweepForget(a) \/ SweepAbandon(a) \/ SweepFired(a)
  \/ AdvanceAtPath(a) \/ SlotRead(a) \/ SlotNote(a) \/ Slot(a)
  \/ ReapFired(a) \/ Reread(a) \/ AdmitAfterReap(a) \/ Fired(a) \/ FireFails(a)
  \/ Dispatched(a) \/ ReadCount(a) \/ Swap(a)

Locking(a) == SweepLock(a) \/ JoinLock(a)

\* A dispatch makes an advance of its own, one at a time.
Nest(a, b) == task[a].pc \in Dispatching /\ NothingNested(a) /\ Advance(b, a)

Next ==
  \/ \E a \in Tasks : Advance(a, Nothing) \/ Step(a) \/ Locking(a)
  \/ \E a, b \in Tasks : Nest(a, b)
  \/ \E j \in Joins : Install(j) \/ Note(j) \/ DeadlinePasses(j)
  \/ \E f \in Forwards : InstallForward(f)

Spec == Init /\ [][Next]_vars

-----------------------------------------------------------------------------
(* Properties.                                                              *)

Results == Nat \cup {Untagged, Nothing}
JoinType ==
  [cfg : ConfigType, received : [Slots -> Results],
   armed : BOOLEAN, round : Nat, left : Nat, inst : Nat]

\* Where a task has the mutex of the join it sweeps, and of the one it advances.
Sweeping == {"sweepjoin", "forget", "abandon", "sweepfire"}
Inside == {"slot", "note", "touched", "reap", "admit", "judged", "fire"}

\* Type correctness; and a join's mutex is held by a task that works on it.
TypeOK ==
  /\ \A j \in Joins : joins[j] = Nothing \/ joins[j] \in JoinType
  /\ \A f \in Forwards : forwards[f] = Nothing \/ forwards[f] \in 1..Executions
  /\ tracked \subseteq Joins /\ noting \in [Joins -> Nat]
  /\ \A a \in Tasks :
       /\ task[a].pc \in PCs /\ task[a].queue \subseteq Joins
       /\ task[a].copy = Nothing \/ task[a].copy \in JoinType
  /\ \A j \in Joins : lock[j] # Nothing =>
       \/ task[lock[j]].join = j /\ task[lock[j]].pc \in Sweeping
       \/ task[lock[j]].path = j /\ task[lock[j]].pc \in Inside
  /\ parent \in [Tasks -> Tasks \cup {Nothing}]
  /\ advances \in 0..MaxAdvances /\ installs \in 0..MaxInstalls

\* The straggler guard, "stitches two generations into one boundary hash: wrong,
\* deterministic-looking": what a join with a deadline has received, in the tree
\* or in the hands of a task about to fire it, is all of its current round.
OneGeneration ==
  \A jn \in ({joins[j] : j \in Joins} \cup {task[a].copy : a \in Tasks}) \ {Nothing} :
    jn.cfg.deadline =>
      \A s \in Slots : jn.received[s] \in {Nothing, Untagged, jn.round}

\* finish_join_round ages a join the same way on every path: a counted join never
\* fires more rounds than it was installed for, whatever installs replace it or
\* are replaced by it meanwhile.
FiresAsInstalled ==
  \A j \in Joins : joins[j] # Nothing =>
    LET jn == joins[j] IN
    jn.cfg.count > 0 => fires[j][jn.inst] + jn.left <= jn.cfg.count

\* handle_remaining_executions, "concurrent advancers cannot double-decrement or
\* double-delete": once its advances have returned, a forward has been aged once
\* for each dispatch made since it was installed, and, as what is bound is aged
\* whoever was dispatched, once for each that was unfinished when it was installed.
AgedOncePerDispatch ==
  \A f \in Forwards :
    (\A a \in Tasks : task[a].path # f) =>
      forwards[f] = IF charged[f] >= granted[f] THEN Nothing ELSE granted[f] - charged[f]

\* handle_advance sweeps so that a join "must still self-heal, or it wedges
\* forever".  The sweep of an advance that a dispatch makes must then not wait
\* for the mutex which this very dispatch holds.
NeverWedged ==
  \A a \in Tasks :
    At(a, "sweepwait") /\ parent[a] # Nothing => lock[task[a].join] # parent[a]
=============================================================================
