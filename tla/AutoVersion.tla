------------------------------ MODULE AutoVersion ------------------------------
(***************************************************************************)
(* Per-write auto-versioning of extensions/revision, composed with the     *)
(* root tracker: after the tracker's hook (position 6 of the cascade) has  *)
(* stored the root, the revision engine's hook (position 7) emits, on the  *)
(* same thread, a version whose root is the filtered tracked root and      *)
(* whose parent is the head, and moves the head to it.                     *)
(*                                                                         *)
(* A version is content addressed by its root and its parents, and every   *)
(* version emitted here has the head it replaces as its only parent, so a  *)
(* version is represented by the sequence of the roots from the first one  *)
(* to its own; <<>> stands for no version.                                 *)
(***************************************************************************)
EXTENDS RootTracker, Sequences

CONSTANTS
  VPrefix,         \* the prefix whose revision config has auto_version
  Excluded,        \* the paths its exclude patterns match
  ActiveBranch,    \* TRUE: an active branch is set for the prefix
  MaxHeadRetries   \* MAX_HEAD_CAS_RETRIES

ASSUME VersionAssumption ==
  /\ VPrefix \in Prefixes
  /\ Excluded \subseteq Targets
  /\ ActiveBranch \in BOOLEAN
  /\ MaxHeadRetries \in Nat \ {0}

VARIABLES
  head,     \* the version the head of the prefix names
  branch,   \* the version the active branch's pointer names
  ver,      \* per thread, its emit in progress
  missed    \* history: paths with a write in no version, for a halt or a crash

versionVars == <<head, branch, ver, missed>>
allVars == <<vars, versionVars>>

(* An emit in progress: head and root are the values observed, tries the    *)
(* lost CAS races.                                                          *)
VPCs == {"off", "root", "cas", "branch"}

Emit(pc, h, tries) == [pc |-> pc, head |-> h, root |-> Nil, tries |-> tries]

Off == Emit("off", <<>>, 0)

VInit ==
  /\ Init
  /\ head = <<>>
  /\ branch = <<>>
  /\ ver = [t \in Threads |-> Off]
  /\ missed = {}

VAt(t, pc) == At(t, "tracked") /\ ver[t].pc = pc

\* config_matches: the path is under the prefix and no exclude pattern hits it.
Matches(p) == p \in Under[VPrefix] \ Excluded

\* Mutant: the tracked root is adopted as it is.
UnfilteredRoot(r) == [p \in Under[VPrefix] |-> r[p]]

FilteredRoot(r) ==
  [p \in Under[VPrefix] |-> IF p \in Excluded THEN Nil ELSE r[p]]

SetVer(t, v) == ver' = [ver EXCEPT ![t] = v]

\* The hook returns, and with it the cascade and the write.
Settle(t, out) ==
  /\ Set(t, IdleJob(out))
  /\ SetVer(t, Off)

Halt(t) ==
  /\ Settle(t, "halted")
  /\ missed' = missed \cup {job[t].target}

-----------------------------------------------------------------------------
\* A step of the writer or of the tracker's hook.
Track(t) ==
  /\ TrackerStep(t)
  /\ missed' = missed \cup {p \in {job[t].target} :
                              job'[t].out = "halted" /\ ~At(t, "idle")}
  /\ UNCHANGED <<head, branch, ver>>

\* The write concerns no auto-versioned prefix.
Skip(t) ==
  /\ VAt(t, "off")
  /\ ~Matches(job[t].target)
  /\ Settle(t, "complete")
  /\ UNCHANGED <<index, root, cached, lost, writes, restarts, cast, head, branch, missed>>

\* auto_version_once reads the head before the tracked root.
ReadHead(t) ==
  /\ VAt(t, "off")
  /\ Matches(job[t].target)
  /\ SetVer(t, Emit("root", head, ver[t].tries))
  /\ UNCHANGED <<vars, head, branch, missed>>

\* Without a tracked root the emit fails; a head that already records the
\* filtered root needs no new version.
ReadTrackedRoot(t) ==
  /\ VAt(t, "root")
  /\ LET v == ver[t]
         r == root[VPrefix]
     IN  \/ /\ r = Nil
            /\ Halt(t)
         \/ /\ r # Nil
            /\ v.head # <<>> /\ v.head[Len(v.head)] = FilteredRoot(r)
            /\ Settle(t, "complete")
            /\ UNCHANGED missed
         \/ /\ r # Nil
            /\ ~(v.head # <<>> /\ v.head[Len(v.head)] = FilteredRoot(r))
            /\ SetVer(t, [v EXCEPT !.root = FilteredRoot(r), !.pc = "cas"])
            /\ UNCHANGED <<job, missed>>
  /\ UNCHANGED <<index, root, cached, lost, writes, restarts, cast, head, branch>>

\* Mutant: the head is advanced with a plain set.
HeadHitBlind(t) ==
  /\ VAt(t, "cas")
  /\ head' = Append(ver[t].head, ver[t].root)
  /\ SetVer(t, [ver[t] EXCEPT !.pc = "branch"])
  /\ UNCHANGED <<vars, branch, missed>>

\* compare_and_swap, or compare_and_create when there was no head.
HeadHit(t) ==
  /\ VAt(t, "cas")
  /\ head = ver[t].head
  /\ head' = Append(ver[t].head, ver[t].root)
  /\ SetVer(t, [ver[t] EXCEPT !.pc = "branch"])
  /\ UNCHANGED <<vars, branch, missed>>

\* Mutant: the attempts are counted one too far.
HeadMissLate(t) ==
  /\ VAt(t, "cas")
  /\ head # ver[t].head \/ t \in Deep
  /\ \/ /\ ver[t].tries < MaxHeadRetries
        /\ SetVer(t, Emit("off", <<>>, ver[t].tries + 1))
        /\ UNCHANGED <<job, missed>>
     \/ /\ ver[t].tries = MaxHeadRetries
        /\ Halt(t)
  /\ UNCHANGED <<index, root, cached, lost, writes, restarts, cast, head, branch>>

\* Mutant: a lost race is given up in silence.
HeadMissSilent(t) ==
  /\ VAt(t, "cas")
  /\ head # ver[t].head \/ t \in Deep
  /\ Settle(t, "complete")
  /\ UNCHANGED <<index, root, cached, lost, writes, restarts, cast, head, branch, missed>>

\* Mutant: the retry reads the root again but not the head.
HeadMissStale(t) ==
  /\ VAt(t, "cas")
  /\ head # ver[t].head
  /\ \/ /\ ver[t].tries + 1 < MaxHeadRetries
        /\ SetVer(t, Emit("root", ver[t].head, ver[t].tries + 1))
        /\ UNCHANGED <<job, missed>>
     \/ /\ ver[t].tries + 1 = MaxHeadRetries
        /\ Halt(t)
  /\ UNCHANGED <<index, root, cached, lost, writes, restarts, cast, head, branch>>

\* Mutant: a lost race costs no attempt.
HeadMissFree(t) ==
  /\ VAt(t, "cas")
  /\ head # ver[t].head \/ t \in Deep
  /\ SetVer(t, Emit("off", <<>>, ver[t].tries))
  /\ UNCHANGED <<vars, head, branch, missed>>

\* Another cascade moved the head (or the index is at its cascade limit):
\* observe both again, until the attempts are used up and the cascade halts.
HeadMiss(t) ==
  /\ VAt(t, "cas")
  /\ head # ver[t].head \/ t \in Deep
  /\ \/ /\ ver[t].tries + 1 < MaxHeadRetries
        /\ SetVer(t, Emit("off", <<>>, ver[t].tries + 1))
        /\ UNCHANGED <<job, missed>>
     \/ /\ ver[t].tries + 1 = MaxHeadRetries
        /\ Halt(t)
  /\ UNCHANGED <<index, root, cached, lost, writes, restarts, cast, head, branch>>

\* The active branch's pointer follows with a plain set, its result dropped.
AdvanceBranch(t) ==
  /\ VAt(t, "branch")
  /\ \/ /\ ActiveBranch
        /\ branch' = Append(ver[t].head, ver[t].root)
     \/ /\ ~ActiveBranch \/ t \in Deep
        /\ UNCHANGED branch
  /\ Settle(t, "complete")
  /\ UNCHANGED <<index, root, cached, lost, writes, restarts, cast, head, missed>>

\* A crash; what was in progress may be in no version yet.
VRestart ==
  /\ Restart
  /\ ver' = [t \in Threads |-> Off]
  /\ missed' = missed \cup {p \in Targets : Pending(p)}
  /\ UNCHANGED <<head, branch>>

\* Mutant: the tracked root is read before the head.
ReadRootFirst(t) ==
  /\ VAt(t, "off")
  /\ Matches(job[t].target)
  /\ root[VPrefix] # Nil
  /\ SetVer(t, [Emit("root", <<>>, ver[t].tries) EXCEPT
                  !.root = FilteredRoot(root[VPrefix])])
  /\ UNCHANGED <<vars, head, branch, missed>>

ReadHeadSecond(t) ==
  /\ VAt(t, "root")
  /\ \/ /\ head # <<>> /\ head[Len(head)] = ver[t].root
        /\ Settle(t, "complete")
     \/ /\ ~(head # <<>> /\ head[Len(head)] = ver[t].root)
        /\ SetVer(t, [ver[t] EXCEPT !.head = head, !.pc = "cas"])
        /\ UNCHANGED job
  /\ UNCHANGED <<index, root, cached, lost, writes, restarts, cast, head, branch, missed>>

VersionStepSwapped(t) ==
  \/ Skip(t) \/ ReadRootFirst(t) \/ ReadHeadSecond(t)
  \/ HeadHit(t) \/ HeadMiss(t) \/ AdvanceBranch(t)

VersionStep(t) ==
  \/ Skip(t) \/ ReadHead(t) \/ ReadTrackedRoot(t)
  \/ HeadHit(t) \/ HeadMiss(t) \/ AdvanceBranch(t)

VNext == (\E t \in Threads : Track(t) \/ VersionStep(t)) \/ VRestart

VSpec == VInit /\ [][VNext]_allVars

\* A thread in the middle of a write keeps running; none has to start one.
Fairness ==
  \A t \in Threads :
    WF_allVars((~At(t, "idle") /\ Track(t)) \/ VersionStep(t))

FairVSpec == VSpec /\ Fairness

-----------------------------------------------------------------------------
(* Properties.                                                              *)

Versions == Seq(Tries(VPrefix))

\* Every variable keeps its type.  Not by construction: auto_version counts its
\* attempts below MAX_HEAD_CAS_RETRIES, and a version's root is a trie of the prefix.
VTypeOK ==
  /\ TypeOK
  /\ head \in Versions
  /\ branch \in Versions
  /\ ver \in [Threads -> [pc : VPCs, head : Versions,
                          root : Tries(VPrefix) \cup {Nil},
                          tries : 0..(MaxHeadRetries - 1)]]
  /\ missed \subseteq Targets

\* What the head's version binds at p.
Versioned(p) == IF head = <<>> THEN Nil ELSE head[Len(head)][p]

\* Scenario s leaves the tracking configs of the versioned prefix alone, and no two
\* threads write one of its versioned paths.
VersionedAlone(s) ==
  /\ ConfigsFixed(s, VPrefix)
  /\ Under[VPrefix] \cap ConfigIds \subseteq Excluded
  /\ \A p \in Under[VPrefix] \ (Excluded \cup Tagged) : OneWriter(s, p)

\* In scenario s the versioned prefix is tracked from the start, its configs are
\* left alone, and no two config entries are ever for one prefix.
StaysTracked(s) ==
  /\ Built(VPrefix, s.configs)
  /\ ConfigsFixed(s, VPrefix)
  /\ \A x \in Prefixes : OneEntry(s, x)

\* In scenario s no writer is at the depth limit, the peer does not stop, and a
\* cascade has more attempts than the other threads have writes.
SmallBurst(s) ==
  /\ s.restarts = 0
  /\ \A t \in Threads : s.writes[t] > 0 =>
       t \notin Deep /\ Cardinality(ByOthers(s.writes, t)) < MaxRetries

\* As soon as a write returned complete, its binding is in the version the head
\* names, and it stays there until the path is written again, whatever the other
\* cascades are doing: no write of a burst ends up in no version.  Paths with a
\* write that was reported halted, or cut short by a crash, are excepted.
Captured ==
  \A p \in Under[VPrefix] \ (Excluded \cup Tagged \cup missed) :
    Pending(p) \/ Versioned(p) = index[p]

\* In a burst with fewer writes than attempts nothing is given up: no cascade leaves
\* its path out of a root, and every write that returned is in the version the head
\* names.
BurstCaptured ==
  VersionedAlone(cast) /\ StaysTracked(cast) /\ SmallBurst(cast) =>
    /\ lost = {}
    /\ \A p \in Under[VPrefix] \ (Excluded \cup Tagged) :
         Pending(p) \/ Versioned(p) = index[p]

\* The work a write has left: the stage of its cascade, the configs and the attempts
\* it has left there, and its place in the attempt.
Stage ==
  [read |-> 8, write |-> 7, configs |-> 6, root |-> 5, cas |-> 5, clear |-> 6, list |-> 5,
   rebuild |-> 4, load |-> 3, refresh |-> 2, tracked |-> 1, idle |-> 0]
Place == [off |-> 3, root |-> 2, cas |-> 1, branch |-> 0]

Work(j, e) ==
  IF j.pc = "tracked" THEN <<Stage[j.pc], 0, MaxHeadRetries - e.tries, Place[e.pc]>>
  ELSE <<Stage[j.pc], NumConfigs + 1 - j.k, MaxRetries - j.tries,
         IF j.pc = "root" THEN 1 ELSE 0>>

\* a comes before b in the lexical order.
Less(a, b) == \E i \in 1..4 : a[i] < b[i] /\ \A h \in 1..(i - 1) : a[h] = b[h]

\* Every step of a cascade leaves it less work, lost races included, and no step of
\* another thread gives it more: it ends after a bounded number of its own steps,
\* however it is overtaken.
CascadesEnd ==
  [][\A t \in Threads :
       ~At(t, "idle") /\ <<job[t], ver[t]>>' # <<job[t], ver[t]>>
         => Less(Work(job[t], ver[t])', Work(job[t], ver[t]))]_allVars

\* The head only ever moves to a version that extends the one it named: no
\* cascade orphans another one's version.
HeadExtends ==
  [][Len(head) <= Len(head') /\ SubSeq(head', 1, Len(head)) = head]_allVars

\* Excluded paths are in no version.
NeverVersioned ==
  \A i \in 1..Len(head) : \A p \in Under[VPrefix] \cap Excluded : head[i][p] = Nil

\* A write that was begun is, at some later time, in the version the head names,
\* or its path is one whose writer was told of a halt or cut short by a crash.
EventuallyVersioned ==
  \A p \in Under[VPrefix] \ (Excluded \cup Tagged) :
    Pending(p) ~> (Versioned(p) = index[p] \/ p \in missed)

\* Once the cascades are over, the active branch's pointer names the version the
\* head names, unless the index may have refused to move it.
BranchFollowsHead == Quiet /\ ActiveBranch /\ Deep = {} => branch = head
=============================================================================
