-------------------------- MODULE AutoVersionProofs --------------------------
(***************************************************************************)
(* Theorems about the root tracker and the auto-versioning engine composed *)
(* with it (VSpec), for any threads, paths, prefixes, configs, limits and  *)
(* number of crashes.                                                      *)
(*                                                                         *)
(* VTypeInv, the types with what the pc of a write or of an emit says of   *)
(* it, holds in every behaviour; NeverVersioned and HeadExtends follow.    *)
(*                                                                         *)
(* The others are about a scenario that leaves a prefix alone, which the   *)
(* code needs: two writers of one path, or a config that changes under a   *)
(* writer, do leave the root behind.  CfgInv says that the entries of the  *)
(* prefix stay what bootstrap found; PathInv relates, for one path, index, *)
(* root and the write in progress; CapInv relates root, head and the emits *)
(* in progress.  Where one thread alone reconfigures a prefix and writes   *)
(* its paths, ClearInv and BuildInv say which of clear and rebuild the     *)
(* thread has still to do.                                                 *)
(***************************************************************************)
EXTENDS AutoVersion, SequenceTheorems, TLAPS

-----------------------------------------------------------------------------
(* Types.                                                                   *)

\* What the pc of a write says about the rest of it.
JobOK(t, j) ==
  /\ j.pc # "idle" => j.target \in Scope[t] /\ cast.writes[t] > 0
  /\ j.target \in ConfigIds => {j.new, j.prev} \subseteq Configs \cup {Nil}
  /\ j.pc \in {"clear", "list", "rebuild", "load", "refresh"} => j.target \in ConfigIds
  /\ j.pc \in {"configs", "root", "cas"} => j.target \in Paths \ Tagged
  /\ j.pc \in {"read", "write", "configs"} => j.k = 1
  /\ j.pc \in {"list", "rebuild"} => j.new # Nil
  /\ j.pc = "rebuild" => j.cur \in Tries(j.new.prefix)
  /\ j.pc = "cas" => j.k <= NumConfigs /\ Applies(j, j.k)

Shapes ==
  /\ root = [x \in Prefixes |-> root[x]]
  /\ writes = [t \in Threads |-> writes[t]]
  /\ \A c \in ConfigIds : index[c] \in Configs \cup {Nil}

TypeInv == TypeOK /\ Shapes /\ \A t \in Threads : JobOK(t, job[t])

\* No root, and every trie of a prefix, may be in a hook's hands.
LEMMA RootsType == Nil \in Roots /\ \A x \in Prefixes : Tries(x) \subseteq Roots
  BY DEF Roots

\* The initial state is well typed.
LEMMA TypeInit == Init => TypeInv
<1> SUFFICES ASSUME Init PROVE TypeInv
  OBVIOUS
<1> USE TrackerAssumption
<1>1. /\ cast \in Casts /\ cast.configs \in [ConfigIds -> Configs \cup {Nil}]
      /\ cast.writes \in [Threads -> Nat] /\ cast.restarts \in Nat
  BY DEF Init
<1>2. index \in [Targets -> Values] /\ \A c \in ConfigIds : index[c] \in Configs \cup {Nil}
  BY <1>1 DEF Init, Targets, Values
<1>3. /\ \A x \in Prefixes : root[x] \in Tries(x) \cup {Nil}
      /\ root = [x \in Prefixes |-> root[x]]
  BY <1>2 DEF Init, Tries, TrieOf
<1>4. IdleJob("none") \in Jobs
  BY RootsType DEF IdleJob, Jobs, PCs, NoConfigs, Values, ConfigIds
<1>5. job \in [Threads -> Jobs]
  BY <1>4 DEF Init
<1>6. \A t \in Threads : JobOK(t, job[t])
  BY DEF Init, JobOK, IdleJob
<1> QED
  BY <1>1, <1>2, <1>3, <1>5, <1>6 DEF Init, TypeInv, TypeOK, Shapes

\* The job of a thread whose write is over is good.
LEMMA IdleGood ==
  ASSUME NEW out \in {"none", "noop", "complete", "halted"}, NEW t
  PROVE  IdleJob(out) \in Jobs /\ JobOK(t, IdleJob(out))
<1>1. IdleJob(out) \in Jobs
  BY TrackerAssumption, RootsType DEF IdleJob, Jobs, PCs, NoConfigs, Values, ConfigIds
<1>2. JobOK(t, IdleJob(out))
  BY TrackerAssumption DEF IdleJob, JobOK, Targets, ConfigIds
<1> QED BY <1>1, <1>2

\* So is that of a hook that goes on to the next config.
LEMMA NextGood ==
  ASSUME NEW j \in Jobs, NEW t, JobOK(t, j), j.pc \in {"root", "cas"}, j.k <= NumConfigs
  PROVE  NextConfig(j) \in Jobs /\ JobOK(t, NextConfig(j))
<1>1. j.k + 1 \in 1..(NumConfigs + 1) /\ 0 \in 0..(MaxRetries - 1) /\ "root" \in PCs
  BY TrackerAssumption DEF Jobs, PCs
<1>2. NextConfig(j) \in Jobs
  BY <1>1, RootsType DEF NextConfig, Jobs
<1>3. JobOK(t, NextConfig(j))
  BY DEF NextConfig, Jobs, JobOK
<1> QED BY <1>2, <1>3

\* An event applied to a root of its prefix, or to none, is a root of it.
LEMMA PutType ==
  ASSUME NEW x \in Prefixes, NEW r \in Tries(x) \cup {Nil}, NEW p, NEW v \in Values
  PROVE  TriePut(x, r, p, v) \in Tries(x)
  BY DEF TriePut, Tries, Values

\* A step that replaces the write of one thread by a good one.
LEMMA SetJob ==
  ASSUME TypeInv, NEW t \in Threads, NEW j \in Jobs, Set(t, j), JobOK(t, j),
         UNCHANGED cast
  PROVE  /\ job' \in [Threads -> Jobs]
         /\ \A u \in Threads : JobOK(u, job[u])'
<1>1. job' \in [Threads -> Jobs]
  BY DEF Set, TypeInv, TypeOK
<1>2. ASSUME NEW u \in Threads PROVE JobOK(u, job'[u])
  <2>1. CASE u = t
    BY <2>1 DEF Set, TypeInv, TypeOK
  <2>2. CASE u # t
    BY <2>2 DEF Set, TypeInv, TypeOK
  <2> QED BY <2>1, <2>2
<1> QED
  BY <1>1, <1>2 DEF JobOK

\* Every step of a writer or of its tracker hook keeps the types.
LEMMA TypeTracker ==
  ASSUME TypeInv, NEW t \in Threads, TrackerStep(t) PROVE TypeInv'
<1> USE TrackerAssumption
<1> DEFINE j == job[t]
<1>0. j \in Jobs /\ JobOK(t, j) /\ cast \in Casts
  BY DEF TypeInv, TypeOK
<1>00. /\ cast.configs \in [ConfigIds -> Configs \cup {Nil}]
       /\ cast.writes \in [Threads -> Nat] /\ cast.restarts \in Nat
  BY <1>0
<1>1. CASE Begin(t)
  <2>1. PICK p \in Scope[t] : \E v \in Choices[p] \cup {Nil} : Set(t, Job(p, v))
    BY <1>1 DEF Begin
  <2>2. PICK v \in Choices[p] \cup {Nil} : Set(t, Job(p, v))
    BY <2>1
  <2>3. p \in Targets /\ v \in Values /\ (p \in ConfigIds => v \in Configs \cup {Nil})
    BY DEF Targets, Values
  <2>4. Job(p, v) \in Jobs
    <3>1. /\ (IF v = Nil THEN "write" ELSE "read") \in PCs
          /\ Nil \in Values /\ 1 \in 1..(NumConfigs + 1) /\ 0 \in 0..(MaxRetries - 1)
          /\ NoConfigs \in [ConfigIds -> Configs \cup {Nil}]
      BY DEF PCs, Values, NoConfigs
    <3> QED
      BY <2>3, <3>1, RootsType DEF Job, IdleJob, Jobs
  <2>5. JobOK(t, Job(p, v))
    BY <1>1, <1>00, <2>3 DEF Job, IdleJob, JobOK, Begin, TypeInv, TypeOK, Shapes
  <2>6. \A u \in Threads : writes'[u] \in 0..cast.writes[u]
    BY <1>1, <1>00 DEF Begin, TypeInv, TypeOK, Shapes
  <2>7. writes' = [u \in Threads |-> writes'[u]]
    BY <1>1 DEF Begin, TypeInv, Shapes
  <2> QED
    BY <1>1, <2>2, <2>4, <2>5, <2>6, <2>7, SetJob DEF Begin, TypeInv, TypeOK, Shapes
<1>2. CASE ReadPrevious(t)
  <2> DEFINE g == [j EXCEPT !.prev = index[j.target], !.pc = "write"]
  <2>1. j.target \in Targets
    BY <1>0, <1>2 DEF ReadPrevious, At, JobOK
  <2>2. index[j.target] \in Values /\ "write" \in PCs
        /\ (j.target \in ConfigIds => index[j.target] \in Configs \cup {Nil})
    BY <2>1 DEF PCs, TypeInv, TypeOK, Shapes
  <2>3. g \in Jobs
    BY <1>0, <2>2 DEF Jobs
  <2>4. JobOK(t, g)
    BY <1>0, <1>2, <2>2 DEF Jobs, JobOK, ReadPrevious, At
  <2> QED
    BY <1>2, <2>3, <2>4, SetJob DEF ReadPrevious, TypeInv, TypeOK, Shapes
<1>3. CASE Write(t)
  <2> DEFINE w == [j EXCEPT !.prev = IF j.new = Nil THEN index[j.target] ELSE @]
             g == IF w.prev = w.new THEN IdleJob("noop")
                  ELSE [w EXCEPT !.pc = Branch(w.target)]
  <2>1. j.target \in Targets /\ j.pc = "write"
    BY <1>0, <1>3 DEF Write, At, JobOK
  <2>2. w \in Jobs /\ JobOK(t, w) /\ w.target = j.target /\ w.new = j.new /\ w.pc = "write"
    <3>1. /\ index[j.target] \in Values
          /\ (j.target \in ConfigIds => index[j.target] \in Configs \cup {Nil})
      BY <2>1 DEF TypeInv, TypeOK, Shapes
    <3>2. w \in Jobs
      BY <1>0, <3>1 DEF Jobs
    <3> QED
      BY <1>0, <2>1, <3>1, <3>2 DEF Jobs, JobOK
  <2>3. g \in Jobs /\ JobOK(t, g)
    <3>1. CASE w.prev = w.new
      BY <3>1, IdleGood DEF JobOK
    <3>2. CASE w.prev # w.new
      <4>1. Branch(w.target) \in PCs
        BY DEF Branch, PCs
      <4> QED
        BY <2>1, <2>2, <3>2, <4>1 DEF Jobs, JobOK, Branch, Targets
    <3> QED BY <3>1, <3>2
  <2>4. Set(t, g) /\ index' = [index EXCEPT ![j.target] = j.new]
    BY <1>3, <2>2 DEF Write
  <2>5. index' \in [Targets -> Values] /\ \A c \in ConfigIds : index'[c] \in Configs \cup {Nil}
    BY <1>0, <2>1, <2>4 DEF TypeInv, TypeOK, Shapes, Jobs, JobOK
  <2> HIDE DEF g
  <2> QED
    BY <1>3, <2>3, <2>4, <2>5, SetJob DEF Write, TypeInv, TypeOK, Shapes
<1>4. CASE ReadConfigs(t)
  <2> DEFINE g == [j EXCEPT !.cfgs = cached, !.pc = "root"]
  <2>1. g \in Jobs /\ JobOK(t, g)
    BY <1>0, <1>4 DEF ReadConfigs, At, Jobs, JobOK, PCs, TypeInv, TypeOK
  <2> QED
    BY <1>4, <2>1, SetJob DEF ReadConfigs, TypeInv, TypeOK, Shapes
<1>5. CASE SkipConfig(t)
  BY <1>0, <1>5, NextGood, SetJob DEF SkipConfig, At, TypeInv, TypeOK, Shapes
<1>6. CASE ReadRoot(t)
  <2> DEFINE x == j.cfgs[j.k].prefix
             r == root[x]
             g == [j EXCEPT !.cur = r, !.pc = "cas"]
  <2>1. j.k \in ConfigIds /\ Applies(j, j.k) /\ j.pc = "root"
    BY <1>0, <1>6 DEF ReadRoot, At, Jobs, ConfigIds
  <2>2. x \in Prefixes
    BY <1>0, <2>1 DEF Jobs, Applies, IsOn, Configs
  <2>3. r \in Tries(x) \cup {Nil}
    BY <2>2 DEF TypeInv, TypeOK
  <2>4. g \in Jobs
    BY <1>0, <2>2, <2>3, RootsType DEF Jobs, PCs
  <2>5. JobOK(t, g)
    BY <1>0, <2>1 DEF JobOK, Jobs, Applies, ConfigIds
  <2>6. CASE Set(t, NextConfig(j))
    BY <1>0, <1>6, <2>1, <2>6, NextGood, SetJob
       DEF ReadRoot, ConfigIds, TypeInv, TypeOK, Shapes
  <2>7. CASE Set(t, g)
    BY <1>6, <2>4, <2>5, <2>7, SetJob DEF ReadRoot, TypeInv, TypeOK, Shapes
  <2> QED
    BY <1>6, <2>6, <2>7 DEF ReadRoot
<1>7. CASE LastConfig(t)
  <2> DEFINE g == [j EXCEPT !.pc = "tracked"]
  <2>1. g \in Jobs /\ JobOK(t, g)
    BY <1>0, <1>7 DEF LastConfig, At, Jobs, JobOK, PCs
  <2> QED
    BY <1>7, <2>1, SetJob DEF LastConfig, TypeInv, TypeOK, Shapes
<1>8. CASE CasHit(t)
  <2> DEFINE x == j.cfgs[j.k].prefix
  <2>1. j.k \in ConfigIds /\ Applies(j, j.k) /\ j.pc = "cas"
    BY <1>0, <1>8 DEF CasHit, At, Jobs, JobOK, ConfigIds
  <2>2. x \in Prefixes /\ j.target \in Targets
    BY <1>0, <2>1 DEF Jobs, Applies, IsOn, Configs, JobOK
  <2>3. Applied(j, root[x]) \in Tries(x)
    BY <1>0, <2>2, PutType DEF Applied, Jobs, TypeInv, TypeOK
  <2>4. /\ root' = [root EXCEPT ![x] = Applied(j, root[x])]
        /\ lost' = lost \ {<<x, j.target>>}
        /\ Set(t, NextConfig(j))
    BY <1>8 DEF CasHit
  <2>5. /\ \A y \in Prefixes : root'[y] \in Tries(y) \cup {Nil}
        /\ root' = [y \in Prefixes |-> root'[y]]
    BY <2>2, <2>3, <2>4 DEF TypeInv, TypeOK, Shapes
  <2>6. /\ job' \in [Threads -> Jobs]
        /\ \A u \in Threads : JobOK(u, job[u])'
    BY <1>0, <1>8, <2>1, <2>4, NextGood, SetJob DEF CasHit, ConfigIds
  <2> QED
    BY <1>8, <2>4, <2>5, <2>6 DEF CasHit, TypeInv, TypeOK, Shapes
<1>9. CASE CasMiss(t)
  <2>1. j.k \in ConfigIds /\ Applies(j, j.k) /\ j.pc = "cas" /\ j.target \in Targets
    BY <1>0, <1>9 DEF CasMiss, At, Jobs, JobOK, ConfigIds
  <2>2. CASE /\ j.tries + 1 < MaxRetries
             /\ Set(t, [j EXCEPT !.tries = @ + 1, !.cur = Nil, !.pc = "root"])
             /\ UNCHANGED lost
    <3> DEFINE g == [j EXCEPT !.tries = @ + 1, !.cur = Nil, !.pc = "root"]
    <3>0. j.tries + 1 \in 0..(MaxRetries - 1) /\ "root" \in PCs
      BY <1>0, <2>2 DEF Jobs, PCs
    <3>1. g \in Jobs /\ JobOK(t, g)
      BY <1>0, <2>1, <3>0, RootsType DEF Jobs, JobOK
    <3> QED
      BY <1>9, <2>2, <3>1, SetJob DEF CasMiss, TypeInv, TypeOK, Shapes
  <2>3. CASE /\ Set(t, IdleJob("halted"))
             /\ lost' = lost \cup {<<j.cfgs[k].prefix, j.target>> :
                            k \in {i \in j.k..NumConfigs : Applies(j, i)}}
    <3>1. \A k \in j.k..NumConfigs : Applies(j, k) => j.cfgs[k].prefix \in Prefixes
      BY <1>0, <2>1 DEF Jobs, Applies, IsOn, Configs, ConfigIds
    <3>2. lost' \subseteq Prefixes \X (Targets \cup {Nil})
      BY <2>1, <2>3, <3>1 DEF TypeInv, TypeOK
    <3> QED
      BY <1>9, <2>3, <3>2, IdleGood, SetJob DEF CasMiss, TypeInv, TypeOK, Shapes
  <2> QED
    BY <1>9, <2>2, <2>3 DEF CasMiss
<1>10. CASE Clear(t)
  <2> DEFINE g == [j EXCEPT !.pc = IF Rebuilds(j.prev, j.new) THEN "list" ELSE "load"]
  <2>1. /\ j.pc = "clear" /\ j.target \in ConfigIds
        /\ j.new \in Configs \cup {Nil} /\ j.prev \in Configs \cup {Nil}
    BY <1>0, <1>10 DEF Clear, At, JobOK
  <2>2. g \in Jobs
    BY <1>0 DEF Jobs, PCs
  <2>3. JobOK(t, g)
    BY <1>0, <2>1 DEF JobOK, Jobs, Rebuilds, IsOn
  <2>4. Clears(j.prev, j.new) => j.prev.prefix \in Prefixes
    BY <2>1 DEF Clears, Configs
  <2>5. /\ \A y \in Prefixes : root'[y] \in Tries(y) \cup {Nil}
        /\ root' = [y \in Prefixes |-> root'[y]]
        /\ lost' \subseteq Prefixes \X (Targets \cup {Nil})
    BY <1>10, <2>4 DEF Clear, TypeInv, TypeOK, Shapes
  <2>6. Set(t, g)
    BY <1>10 DEF Clear
  <2> QED
    BY <1>10, <2>2, <2>3, <2>5, <2>6, SetJob DEF Clear, TypeInv, TypeOK, Shapes
<1>11. CASE List(t)
  <2> DEFINE g == [j EXCEPT !.cur = TrieOf(j.new.prefix), !.pc = "rebuild"]
  <2>1. j.pc = "list" /\ j.new \in Configs /\ j.new.prefix \in Prefixes
    BY <1>0, <1>11 DEF List, At, JobOK, Configs
  <2>2. TrieOf(j.new.prefix) \in Tries(j.new.prefix)
    BY <2>1 DEF TrieOf, Tries, TypeInv, TypeOK
  <2>3. g \in Jobs
    BY <1>0, <2>1, <2>2, RootsType DEF Jobs, PCs
  <2>4. JobOK(t, g)
    BY <1>0, <2>1, <2>2 DEF JobOK, Jobs
  <2> QED
    BY <1>11, <2>3, <2>4, SetJob DEF List, TypeInv, TypeOK, Shapes
<1>12. CASE Rebuild(t)
  <2> DEFINE g == [j EXCEPT !.pc = "load"]
  <2>1. /\ j.pc = "rebuild" /\ j.new \in Configs /\ j.new.prefix \in Prefixes
        /\ j.cur \in Tries(j.new.prefix)
    BY <1>0, <1>12 DEF Rebuild, At, JobOK, Configs
  <2>2. g \in Jobs /\ JobOK(t, g)
    BY <1>0, <2>1 DEF Jobs, JobOK, PCs
  <2>3. /\ \A y \in Prefixes : root'[y] \in Tries(y) \cup {Nil}
        /\ root' = [y \in Prefixes |-> root'[y]]
    BY <1>12, <2>1 DEF Rebuild, TypeInv, TypeOK, Shapes
  <2>4. lost' \subseteq Prefixes \X (Targets \cup {Nil})
    BY <1>12, <2>1 DEF Rebuild, TypeInv, TypeOK, Shapes
  <2>5. Set(t, g)
    BY <1>12 DEF Rebuild
  <2> QED
    BY <1>12, <2>2, <2>3, <2>4, <2>5, SetJob DEF Rebuild, TypeInv, TypeOK, Shapes
<1>13. CASE Load(t)
  <2> DEFINE g == [j EXCEPT !.cfgs = Entries, !.pc = "refresh"]
  <2>1. Entries \in [ConfigIds -> Configs \cup {Nil}]
    BY DEF Entries, TypeInv, Shapes
  <2>2. g \in Jobs /\ JobOK(t, g)
    BY <1>0, <1>13, <2>1 DEF Load, At, Jobs, JobOK, PCs
  <2> QED
    BY <1>13, <2>2, SetJob DEF Load, TypeInv, TypeOK, Shapes
<1>14. CASE Refresh(t)
  <2> DEFINE g == [j EXCEPT !.pc = "tracked"]
  <2>1. g \in Jobs /\ JobOK(t, g) /\ j.cfgs \in [ConfigIds -> Configs \cup {Nil}]
    BY <1>0, <1>14 DEF Refresh, At, Jobs, JobOK, PCs
  <2> QED
    BY <1>14, <2>1, SetJob DEF Refresh, TypeInv, TypeOK, Shapes
<1> QED
  BY <1>1, <1>2, <1>3, <1>4, <1>5, <1>6, <1>7, <1>8, <1>9, <1>10, <1>11, <1>12,
     <1>13, <1>14 DEF TrackerStep

\* So does a crash with the bootstrap that follows it.
LEMMA TypeRestart == ASSUME TypeInv, Restart PROVE TypeInv'
<1> USE TrackerAssumption
<1>1. \A t \in Threads : job'[t] = IdleJob("none")
  BY DEF Restart
<1>2. job' \in [Threads -> Jobs] /\ \A u \in Threads : JobOK(u, job[u])'
  BY <1>1, IdleGood DEF Restart, JobOK
<1>3. \A x \in Prefixes : TrieOf(x) \in Tries(x)
  BY DEF TrieOf, Tries, TypeInv, TypeOK
<1>4. /\ \A x \in Prefixes : root'[x] \in Tries(x) \cup {Nil}
      /\ root' = [x \in Prefixes |-> root'[x]]
  BY <1>3 DEF Restart, TypeInv, TypeOK
<1>5. cached' \in [ConfigIds -> Configs \cup {Nil}]
  BY DEF Restart, Entries, TypeInv, Shapes
<1>6. restarts' \in 0..cast'.restarts
  BY DEF Restart, TypeInv, TypeOK
<1> QED
  BY <1>2, <1>4, <1>5, <1>6 DEF Restart, TypeInv, TypeOK, Shapes

-----------------------------------------------------------------------------
(* The emit in progress: only the thread whose tracker hook is over has one; *)
(* it has observed a head that is no longer than the head is now; and what   *)
(* it is about to append is a filtered root.                                 *)

Emits ==
  [pc : VPCs, head : Versions, root : Tries(VPrefix) \cup {Nil},
   tries : 0..(MaxHeadRetries - 1)]

Filtered(r) == \A p \in Under[VPrefix] \cap Excluded : r[p] = Nil

EmitOK(t) ==
  /\ ver[t].pc # "off" => At(t, "tracked")
  /\ ver[t].pc \in {"root", "cas"} => Len(ver[t].head) <= Len(head)
  /\ ver[t].pc \in {"cas", "branch"} =>
       ver[t].root \in Tries(VPrefix) /\ Filtered(ver[t].root)

VTypeInv ==
  /\ TypeInv /\ VTypeOK /\ NeverVersioned
  /\ \A t \in Threads : EmitOK(t)

\* Nothing is versioned at first.
LEMMA VTypeInit == VInit => VTypeInv
<1> SUFFICES ASSUME VInit PROVE VTypeInv
  OBVIOUS
<1>1. TypeInv
  BY TypeInit DEF VInit
<1>2. <<>> \in Versions /\ Len(<<>>) = 0
  BY EmptySeq DEF Versions
<1>3. Off \in Emits
  BY <1>2, VersionAssumption DEF Off, Emit, Emits, VPCs
<1> QED
  BY <1>1, <1>2, <1>3 DEF VInit, VTypeInv, VTypeOK, TypeInv, NeverVersioned, EmitOK, Off,
     Emit, Emits

\* The settled thread's state is good.
LEMMA SettleGood ==
  ASSUME VTypeInv, NEW t \in Threads, NEW out \in {"complete", "halted"}, Settle(t, out),
         UNCHANGED <<index, root, cached, lost, writes, restarts, cast, head>>,
         branch' \in Versions, missed' \subseteq Targets
  PROVE  VTypeInv'
<1>1. IdleJob(out) \in Jobs /\ JobOK(t, IdleJob(out)) /\ Set(t, IdleJob(out))
  BY IdleGood DEF Settle
<1>2. job' \in [Threads -> Jobs] /\ \A u \in Threads : JobOK(u, job[u])'
  BY <1>1, SetJob DEF VTypeInv
<1>3. TypeInv'
  BY <1>2 DEF VTypeInv, TypeInv, TypeOK, Shapes
<1>4. Off \in Emits
  BY EmptySeq, VersionAssumption DEF Off, Emit, Emits, VPCs, Versions
<1>5. ver' = [ver EXCEPT ![t] = Off] /\ ver \in [Threads -> Emits]
  BY DEF Settle, SetVer, VTypeInv, VTypeOK, Emits
<1>6. ver' \in [Threads -> Emits]
  BY <1>4, <1>5
<1>7. \A u \in Threads : EmitOK(u)'
  <2> SUFFICES ASSUME NEW u \in Threads PROVE EmitOK(u)'
    OBVIOUS
  <2>1. CASE u = t
    BY <1>5, <2>1 DEF EmitOK, Off, Emit
  <2>2. CASE u # t
    BY <1>5, <2>2 DEF EmitOK, Settle, Set, At, VTypeInv, TypeInv, TypeOK
  <2> QED BY <2>1, <2>2
<1> QED
  BY <1>3, <1>6, <1>7 DEF VTypeInv, VTypeOK, TypeInv, NeverVersioned, Emits

\* A step of the writer or of the tracker.
LEMMA VTypeTrack ==
  ASSUME VTypeInv, NEW t \in Threads, Track(t) PROVE VTypeInv'
<1>1. TypeInv' /\ TrackerStep(t) /\ UNCHANGED <<head, branch, ver>>
  BY TypeTracker DEF Track, VTypeInv
<1>2. missed' \subseteq Targets
  <2>1. ~At(t, "idle") => job[t].target \in Targets
    BY TrackerAssumption DEF VTypeInv, TypeInv, JobOK, At
  <2> QED
    BY <2>1 DEF Track, VTypeInv, VTypeOK
<1>3. ~At(t, "tracked") /\ \A u \in Threads \ {t} : job'[u] = job[u]
  BY <1>1 DEF TrackerStep, Begin, ReadPrevious, Write, ReadConfigs, SkipConfig, ReadRoot,
     LastConfig, CasHit, CasMiss, Clear, List, Rebuild, Load, Refresh, At, Set,
     VTypeInv, TypeInv, TypeOK
<1>4. \A u \in Threads : EmitOK(u)'
  BY <1>1, <1>3 DEF VTypeInv, EmitOK, At
<1> QED
  BY <1>1, <1>2, <1>4 DEF VTypeInv, VTypeOK, TypeInv, NeverVersioned

\* A filtered root is a trie of the prefix without the excluded paths.
LEMMA FilterType ==
  ASSUME NEW r \in Tries(VPrefix)
  PROVE  FilteredRoot(r) \in Tries(VPrefix) /\ Filtered(FilteredRoot(r))
  BY DEF FilteredRoot, Filtered, Tries, Values

\* A step that only moves the emit of one thread on.
LEMMA EmitGood ==
  ASSUME VTypeInv, NEW t \in Threads, NEW v \in Emits, SetVer(t, v),
         UNCHANGED <<vars, head, branch, missed>>, At(t, "tracked"),
         v.pc \in {"root", "cas"} => Len(v.head) <= Len(head),
         v.pc \in {"cas", "branch"} => v.root \in Tries(VPrefix) /\ Filtered(v.root)
  PROVE  VTypeInv'
<1>1. TypeInv'
  BY DEF vars, VTypeInv, TypeInv, TypeOK, Shapes, JobOK
<1>2. ver' = [ver EXCEPT ![t] = v] /\ ver \in [Threads -> Emits]
  BY DEF SetVer, VTypeInv, VTypeOK, Emits
<1>3. ver' \in [Threads -> Emits]
  BY <1>2
<1>4. \A u \in Threads : EmitOK(u)'
  <2> SUFFICES ASSUME NEW u \in Threads PROVE EmitOK(u)'
    OBVIOUS
  <2>1. CASE u = t
    BY <1>2, <2>1 DEF EmitOK, vars, At
  <2>2. CASE u # t
    BY <1>2, <2>2 DEF EmitOK, vars, At, VTypeInv
  <2> QED BY <2>1, <2>2
<1> QED
  BY <1>1, <1>3, <1>4 DEF VTypeInv, VTypeOK, TypeInv, NeverVersioned, Emits

\* Every step of the engine's hook keeps the types.
LEMMA VTypeVersion ==
  ASSUME VTypeInv, NEW t \in Threads, VersionStep(t) PROVE VTypeInv'
<1> DEFINE v == ver[t]
<1>0. v \in Emits /\ EmitOK(t) /\ head \in Versions /\ Len(head) \in Nat
  BY LenProperties DEF VTypeInv, VTypeOK, Emits, Versions
<1>1. CASE Skip(t)
  BY <1>1, SettleGood DEF Skip, VTypeInv, VTypeOK
<1>2. CASE ReadHead(t)
  <2>1. Emit("root", head, v.tries) \in Emits
    BY <1>0 DEF Emit, Emits, VPCs
  <2> QED
    BY <1>0, <1>2, <2>1, EmitGood DEF ReadHead, VAt, Emit
<1>3. CASE ReadTrackedRoot(t)
  <2> DEFINE r == root[VPrefix]
             g == [v EXCEPT !.root = FilteredRoot(r), !.pc = "cas"]
  <2>1. job[t].target \in Targets
    BY <1>3, TrackerAssumption DEF ReadTrackedRoot, VAt, At, VTypeInv, TypeInv, JobOK
  <2>2. CASE Halt(t)
    BY <1>3, <2>1, <2>2, SettleGood DEF ReadTrackedRoot, Halt, VTypeInv, VTypeOK
  <2>3. CASE Settle(t, "complete") /\ UNCHANGED missed
    BY <1>3, <2>3, SettleGood DEF ReadTrackedRoot, VTypeInv, VTypeOK
  <2>4. CASE r # Nil /\ SetVer(t, g) /\ UNCHANGED <<job, missed>>
    <3>1. r \in Tries(VPrefix)
      BY <2>4, VersionAssumption DEF VTypeInv, TypeInv, TypeOK
    <3>2. FilteredRoot(r) \in Tries(VPrefix) /\ Filtered(FilteredRoot(r))
      BY <3>1, FilterType
    <3>3. v.pc = "root" /\ At(t, "tracked")
      BY <1>3 DEF ReadTrackedRoot, VAt
    <3>4. /\ g \in Emits /\ g.pc = "cas" /\ g.head = v.head
          /\ g.root = FilteredRoot(r)
      BY <1>0, <3>2 DEF Emits, VPCs
    <3>5. Len(v.head) <= Len(head)
      BY <1>0, <3>3 DEF EmitOK
    <3>6. UNCHANGED <<vars, head, branch, missed>>
      BY <1>3, <2>4 DEF ReadTrackedRoot, vars
    <3> HIDE DEF g
    <3> QED
      BY <2>4, <3>2, <3>3, <3>4, <3>5, <3>6, EmitGood
  <2> QED
    BY <1>3, <2>2, <2>3, <2>4 DEF ReadTrackedRoot
<1>4. CASE HeadHit(t)
  <2> DEFINE g == [v EXCEPT !.pc = "branch"]
  <2>1. v.pc = "cas" /\ At(t, "tracked") /\ v.root \in Tries(VPrefix) /\ Filtered(v.root)
    BY <1>0, <1>4 DEF HeadHit, VAt, EmitOK
  <2>2. head' = Append(head, v.root) /\ ver' = [ver EXCEPT ![t] = g]
    BY <1>4 DEF HeadHit, SetVer
  <2>3. /\ head' \in Versions /\ Len(head') = Len(head) + 1
        /\ \A i \in 1..Len(head) : head'[i] = head[i]
        /\ head'[Len(head) + 1] = v.root
    BY <1>0, <2>1, <2>2, AppendProperties DEF Versions
  <2>4. g \in Emits /\ g.pc = "branch" /\ g.root = v.root
    BY <1>0 DEF Emits, VPCs
  <2> HIDE DEF g
  <2>5. ver \in [Threads -> Emits]
    BY DEF VTypeInv, VTypeOK, Emits
  <2>6. ver' \in [Threads -> Emits]
    BY <2>2, <2>4, <2>5
  <2>7. TypeInv'
    BY <1>4 DEF HeadHit, vars, VTypeInv, TypeInv, TypeOK, Shapes, JobOK
  <2>8. NeverVersioned'
    BY <1>0, <2>1, <2>3 DEF NeverVersioned, VTypeInv, Filtered
  <2>9. \A u \in Threads : EmitOK(u)'
    <3> SUFFICES ASSUME NEW u \in Threads PROVE EmitOK(u)'
      OBVIOUS
    <3>1. CASE u = t
      BY <1>4, <2>1, <2>2, <2>4, <2>5, <3>1 DEF EmitOK, At, HeadHit, vars
    <3>2. CASE u # t
      <4>1. ver'[u] = ver[u] /\ EmitOK(u) /\ ver[u].head \in Versions
        BY <2>2, <2>5, <3>2 DEF VTypeInv, Emits
      <4>2. Len(ver[u].head) \in Nat
        BY <4>1, LenProperties DEF Versions
      <4> QED
        BY <1>0, <1>4, <2>3, <4>1, <4>2 DEF EmitOK, At, HeadHit, vars
    <3> QED BY <3>1, <3>2
  <2> QED
    BY <1>4, <2>3, <2>6, <2>7, <2>8, <2>9 DEF HeadHit, VTypeInv, VTypeOK, TypeInv, Emits
<1>5. CASE HeadMiss(t)
  <2>1. job[t].target \in Targets
    BY <1>5, TrackerAssumption DEF HeadMiss, VAt, At, VTypeInv, TypeInv, JobOK
  <2>2. CASE Halt(t)
    BY <1>5, <2>1, <2>2, SettleGood DEF HeadMiss, Halt, VTypeInv, VTypeOK
  <2>3. CASE /\ v.tries + 1 < MaxHeadRetries
             /\ SetVer(t, Emit("off", <<>>, v.tries + 1))
             /\ UNCHANGED <<job, missed>>
    <3>1. v.tries + 1 \in 0..(MaxHeadRetries - 1) /\ <<>> \in Versions
      BY <1>0, <2>3, VersionAssumption, EmptySeq DEF Emits, Versions
    <3>2. Emit("off", <<>>, v.tries + 1) \in Emits
      BY <3>1 DEF Emit, Emits, VPCs
    <3>3. UNCHANGED <<vars, head, branch, missed>> /\ At(t, "tracked")
      BY <1>5, <2>3 DEF HeadMiss, VAt, vars
    <3> QED
      BY <2>3, <3>2, <3>3, EmitGood DEF Emit
  <2> QED
    BY <1>5, <2>2, <2>3 DEF HeadMiss
<1>6. CASE AdvanceBranch(t)
  <2>1. v.root \in Tries(VPrefix) /\ v.head \in Versions
    BY <1>0, <1>6 DEF AdvanceBranch, VAt, EmitOK, Emits
  <2>2. Append(v.head, v.root) \in Versions
    BY <2>1, AppendProperties DEF Versions
  <2>3. branch' \in Versions
    BY <1>6, <2>2 DEF AdvanceBranch, VTypeInv, VTypeOK
  <2> QED
    BY <1>6, <2>3, SettleGood DEF AdvanceBranch, VTypeInv, VTypeOK
<1> QED
  BY <1>1, <1>2, <1>3, <1>4, <1>5, <1>6 DEF VersionStep

\* A crash.
LEMMA VTypeRestart == ASSUME VTypeInv, VRestart PROVE VTypeInv'
<1>1. TypeInv'
  BY TypeRestart DEF VRestart, VTypeInv
<1>2. Off \in Emits
  BY EmptySeq, VersionAssumption DEF Off, Emit, Emits, VPCs, Versions
<1> QED
  BY <1>1, <1>2 DEF VRestart, VTypeInv, VTypeOK, TypeInv, NeverVersioned, EmitOK, Off, Emit,
     Emits

\* The types are kept by every step.
LEMMA VTypeStep == VTypeInv /\ [VNext]_allVars => VTypeInv'
<1> SUFFICES ASSUME VTypeInv, [VNext]_allVars PROVE VTypeInv'
  OBVIOUS
<1>1. CASE UNCHANGED allVars
  BY <1>1 DEF allVars, versionVars, vars, VTypeInv, TypeInv, TypeOK, Shapes, JobOK,
     VTypeOK, NeverVersioned, EmitOK, At
<1> QED
  BY <1>1, VTypeTrack, VTypeVersion, VTypeRestart DEF VNext

\* Index, roots, jobs, versions and emits keep their types, for any threads,
\* prefixes, configs and limits.
THEOREM TypeCorrect == VSpec => []VTypeOK
<1>1. VTypeInv => VTypeOK
  BY DEF VTypeInv
<1> QED
  BY <1>1, VTypeInit, VTypeStep, PTL DEF VSpec

\* No version ever binds an excluded path.
THEOREM ExcludedNeverVersioned == VSpec => []NeverVersioned
<1>1. VTypeInv => NeverVersioned
  BY DEF VTypeInv
<1> QED
  BY <1>1, VTypeInit, VTypeStep, PTL DEF VSpec

\* The head only moves to a version that extends it, whatever races for it: the
\* CAS of the engine is the only step that moves it.
THEOREM NoVersionOrphaned == VSpec => HeadExtends
<1>1. ASSUME VTypeInv, [VNext]_allVars
      PROVE  Len(head) <= Len(head') /\ SubSeq(head', 1, Len(head)) = head
  <2>1. head \in Seq(Tries(VPrefix)) /\ Len(head) \in Nat
    BY <1>1, LenProperties DEF VTypeInv, VTypeOK, Versions
  <2>2. CASE UNCHANGED head
    BY <2>1, <2>2, SubSeqFull
  <2>3. ASSUME NEW t \in Threads, HeadHit(t)
        PROVE  Len(head) <= Len(head') /\ SubSeq(head', 1, Len(head)) = head
    <3> DEFINE h == Append(head, ver[t].root)
               q == SubSeq(h, 1, Len(head))
    <3>1. head' = h /\ ver[t].root \in Tries(VPrefix)
      BY <1>1, <2>3 DEF HeadHit, VAt, VTypeInv, EmitOK
    <3>2. /\ Len(h) = Len(head) + 1
          /\ \A i \in 1..Len(head) : h[i] = head[i]
      BY <2>1, <3>1, AppendProperties
    <3> HIDE DEF h
    <3>3. \A i \in 1..Len(head) : h[i] \in Tries(VPrefix)
      BY <2>1, <3>2, ElementOfSeq
    <3>4. /\ q \in Seq(Tries(VPrefix)) /\ Len(q) = Len(head)
          /\ \A i \in 1..Len(head) : q[i] = h[1 + i - 1]
      BY <2>1, <3>3, SubSeqProperties
    <3>5. q = head
      BY <2>1, <3>2, <3>4, SeqEqual
    <3> QED
      BY <2>1, <3>1, <3>2, <3>5
  <2>4. UNCHANGED head \/ \E t \in Threads : HeadHit(t)
    BY <1>1 DEF VNext, Track, VersionStep, Skip, ReadHead, ReadTrackedRoot, HeadMiss,
       AdvanceBranch, VRestart, allVars, versionVars
  <2> QED
    BY <2>2, <2>3, <2>4
<1>2. VTypeInv /\ [VNext]_allVars =>
        [Len(head) <= Len(head') /\ SubSeq(head', 1, Len(head)) = head]_allVars
  BY <1>1
<1> QED
  BY <1>2, VTypeInit, VTypeStep, PTL DEF VSpec, HeadExtends

-----------------------------------------------------------------------------
(* The configs of a prefix that nobody reconfigures.                        *)

\* What f says of prefix x is what the cast says of it.
SameFor(x, f) ==
  \A c \in ConfigIds :
    Names(f[c], x) \/ Names(cast.configs[c], x) => f[c] = cast.configs[c]

\* A write of a config entry has nothing to do with prefix x.
Elsewhere(x, j) ==
  j.pc # "idle" /\ j.target \in ConfigIds => ~Names(j.new, x) /\ ~Names(j.prev, x)

CfgInv(x) ==
  /\ SameFor(x, index) /\ SameFor(x, cached)
  /\ \A t \in Threads : /\ Elsewhere(x, job[t])
                        /\ job[t].pc \in {"root", "cas", "refresh"} => SameFor(x, job[t].cfgs)
  /\ root[x] # Nil <=> Built(x, cast.configs)

\* Bootstrap builds the enabled prefixes and no others.
LEMMA CfgInit == ASSUME Init, NEW x \in Prefixes PROVE CfgInv(x)
<1> USE TrackerAssumption
<1>1. /\ cast \in Casts /\ cast.configs \in [ConfigIds -> Configs \cup {Nil}]
      /\ \A c \in ConfigIds : index[c] = cast.configs[c]
  BY DEF Init, Targets
<1>2. TrieOf(x) # Nil
  BY TypeInit DEF TrieOf, TypeInv, TypeOK, Targets
<1>3. \A t \in Threads : job[t].pc = "idle"
  BY DEF Init, IdleJob
<1>4. root[x] # Nil <=> Built(x, cast.configs)
  BY <1>2 DEF Init
<1> QED
  BY <1>1, <1>3, <1>4 DEF Init, CfgInv, SameFor, Elsewhere

\* While nobody reconfigures x, no step of any thread changes what is tracked.
LEMMA CfgTracker ==
  ASSUME TypeInv, NEW x \in Prefixes, ConfigsFixed(cast, x), CfgInv(x),
         NEW t \in Threads, TrackerStep(t)
  PROVE  CfgInv(x)'
<1> USE TrackerAssumption
<1> DEFINE j == job[t]
<1>0. /\ j \in Jobs /\ JobOK(t, j) /\ cast \in Casts
      /\ cast.configs \in [ConfigIds -> Configs \cup {Nil}]
      /\ cast' = cast /\ job \in [Threads -> Jobs]
  BY DEF TypeInv, TypeOK, TrackerStep, Begin, ReadPrevious, Write, ReadConfigs, SkipConfig,
     ReadRoot, LastConfig, CasHit, CasMiss, Clear, List, Rebuild, Load, Refresh
<1>00. ASSUME NEW g, Set(t, g), Elsewhere(x, g),
              g.pc \in {"root", "cas", "refresh"} => SameFor(x, g.cfgs)
       PROVE  \A u \in Threads :
                /\ Elsewhere(x, job'[u])
                /\ job'[u].pc \in {"root", "cas", "refresh"} => SameFor(x, job'[u].cfgs)
  BY <1>0, <1>00 DEF Set, CfgInv
<1>1. CASE Begin(t)
  <2>1. PICK p \in Scope[t] : \E v \in Choices[p] \cup {Nil} : Set(t, Job(p, v))
    BY <1>1 DEF Begin
  <2>2. PICK v \in Choices[p] \cup {Nil} : Set(t, Job(p, v))
    BY <2>1
  <2>3. p \in ConfigIds => ~Names(v, x)
    <3>1. cast.writes[t] > 0
      BY <1>0, <1>1 DEF Begin, TypeInv, TypeOK
    <3> QED
      BY <1>0, <3>1 DEF ConfigsFixed, Writers, Names
  <2>4. /\ Elsewhere(x, Job(p, v)) /\ Job(p, v).pc \in {"read", "write"}
    BY <2>3 DEF Job, IdleJob, Elsewhere, Names
  <2> QED
    BY <1>0, <1>00, <1>1, <2>2, <2>4 DEF Begin, CfgInv, SameFor
<1>2. CASE ReadPrevious(t)
  <2> DEFINE g == [j EXCEPT !.prev = index[j.target], !.pc = "write"]
  <2>1. j.pc = "read" /\ j.target \in Scope[t] /\ cast.writes[t] > 0
    BY <1>0, <1>2 DEF ReadPrevious, At, JobOK
  <2>2. j.target \in ConfigIds => ~Names(index[j.target], x)
    BY <1>0, <2>1 DEF CfgInv, SameFor, ConfigsFixed, Writers
  <2>3. Elsewhere(x, g) /\ g.pc = "write"
    BY <1>0, <2>1, <2>2 DEF Elsewhere, Jobs, CfgInv
  <2>4. Set(t, g) /\ UNCHANGED <<index, root, cached, cast>>
    BY <1>2 DEF ReadPrevious
  <2> HIDE DEF g
  <2> QED
    BY <1>00, <2>3, <2>4 DEF CfgInv, SameFor
<1>3. CASE Write(t)
  <2> DEFINE w == [j EXCEPT !.prev = IF j.new = Nil THEN index[j.target] ELSE @]
             g == IF w.prev = w.new THEN IdleJob("noop")
                  ELSE [w EXCEPT !.pc = Branch(w.target)]
  <2>1. /\ j.pc = "write" /\ j.target \in Scope[t] /\ cast.writes[t] > 0
        /\ j.target \in Targets /\ j.new \in Values
    BY <1>0, <1>3 DEF Write, At, JobOK, Jobs
  <2>2. j.target \in ConfigIds =>
          /\ ~Names(index[j.target], x) /\ ~Names(j.new, x)
          /\ ~Names(cast.configs[j.target], x)
    BY <1>0, <2>1 DEF CfgInv, SameFor, ConfigsFixed, Writers, Elsewhere
  <2>3. /\ w.target = j.target /\ w.new = j.new
        /\ j.target \in ConfigIds => ~Names(w.prev, x)
    BY <1>0, <2>1, <2>2 DEF Jobs, CfgInv, Elsewhere
  <2>4. Set(t, g) /\ index' = [index EXCEPT ![j.target] = j.new]
    BY <1>3, <2>3 DEF Write
  <2>5. Elsewhere(x, g) /\ g.pc \notin {"root", "cas", "refresh"}
    <3>1. CASE w.prev = w.new
      BY <3>1 DEF IdleJob, Elsewhere
    <3>2. CASE w.prev # w.new
      <4>1. /\ g.pc = Branch(j.target) /\ g.target = j.target /\ g.new = j.new
            /\ g.prev = w.prev
        BY <1>0, <2>3, <3>2 DEF Jobs
      <4> QED BY <2>2, <2>3, <4>1 DEF Elsewhere, Branch
    <3> QED BY <3>1, <3>2
  <2>6. SameFor(x, index')
    BY <1>0, <2>1, <2>2, <2>4 DEF SameFor, CfgInv, TypeInv, TypeOK, Targets
  <2> HIDE DEF g
  <2>7. UNCHANGED <<cached, root, cast>>
    BY <1>3 DEF Write
  <2> QED
    BY <1>00, <2>4, <2>5, <2>6, <2>7 DEF CfgInv, SameFor
<1>4. CASE ReadConfigs(t)
  <2> DEFINE g == [j EXCEPT !.cfgs = cached, !.pc = "root"]
  <2>1. Elsewhere(x, g) /\ g.cfgs = cached
    BY <1>0, <1>4 DEF ReadConfigs, At, Elsewhere, Jobs, CfgInv
  <2>2. Set(t, g) /\ UNCHANGED <<index, root, cached, cast>>
    BY <1>4 DEF ReadConfigs
  <2> HIDE DEF g
  <2> QED
    BY <1>00, <2>1, <2>2 DEF CfgInv, SameFor
<1>5. CASE SkipConfig(t)
  <2>1. /\ Elsewhere(x, NextConfig(j)) /\ SameFor(x, NextConfig(j).cfgs)
    BY <1>0, <1>5 DEF SkipConfig, At, NextConfig, Elsewhere, Jobs, CfgInv
  <2> QED
    BY <1>0, <1>00, <1>5, <2>1 DEF SkipConfig, CfgInv, SameFor
<1>6. CASE ReadRoot(t)
  <2>1. /\ Elsewhere(x, NextConfig(j)) /\ SameFor(x, NextConfig(j).cfgs)
    BY <1>0, <1>6 DEF ReadRoot, At, NextConfig, Elsewhere, Jobs, CfgInv
  <2>2. ASSUME NEW r, NEW g, g = [j EXCEPT !.cur = r, !.pc = "cas"]
        PROVE  Elsewhere(x, g) /\ SameFor(x, g.cfgs)
    BY <1>0, <1>6, <2>2 DEF ReadRoot, At, Elsewhere, Jobs, CfgInv
  <2>3. PICK g : Set(t, g) /\ Elsewhere(x, g) /\ SameFor(x, g.cfgs)
    BY <1>6, <2>1, <2>2 DEF ReadRoot
  <2> QED
    BY <1>00, <1>6, <2>3 DEF ReadRoot, CfgInv, SameFor
<1>7. CASE LastConfig(t)
  <2> DEFINE g == [j EXCEPT !.pc = "tracked"]
  <2>1. Elsewhere(x, g) /\ g.pc = "tracked"
    BY <1>0, <1>7 DEF LastConfig, At, Elsewhere, Jobs, CfgInv
  <2>2. Set(t, g) /\ UNCHANGED <<index, root, cached, cast>>
    BY <1>7 DEF LastConfig
  <2> HIDE DEF g
  <2> QED
    BY <1>00, <2>1, <2>2 DEF CfgInv, SameFor
<1>8. CASE CasHit(t)
  <2> DEFINE y == j.cfgs[j.k].prefix
  <2>1. /\ Elsewhere(x, NextConfig(j)) /\ SameFor(x, NextConfig(j).cfgs)
    BY <1>0, <1>8 DEF CasHit, At, NextConfig, Elsewhere, Jobs, CfgInv
  <2>2. /\ j.pc = "cas" /\ j.k \in ConfigIds /\ IsOn(j.cfgs[j.k]) /\ j.new \in Values
        /\ y \in Prefixes
    BY <1>0, <1>8 DEF CasHit, At, JobOK, Jobs, Applies, ConfigIds, IsOn, Configs
  <2>3. y = x => Built(x, cast.configs)
    BY <1>0, <2>2 DEF CfgInv, SameFor, Built, Names, IsOn
  <2>4. root' = [root EXCEPT ![y] = Applied(j, root[y])]
    BY <1>8 DEF CasHit
  <2>5. Applied(j, root[y]) # Nil
    BY <2>2, PutType DEF Applied, Tries, TypeInv, TypeOK
  <2>6. root'[x] # Nil <=> Built(x, cast.configs)
    BY <2>2, <2>3, <2>4, <2>5 DEF CfgInv, TypeInv, Shapes
  <2> QED
    BY <1>0, <1>00, <1>8, <2>1, <2>6 DEF CasHit, CfgInv, SameFor
<1>9. CASE CasMiss(t)
  <2> DEFINE g == [j EXCEPT !.tries = @ + 1, !.cur = Nil, !.pc = "root"]
  <2>1. Elsewhere(x, g) /\ SameFor(x, g.cfgs)
    BY <1>0, <1>9 DEF CasMiss, At, Elsewhere, Jobs, CfgInv
  <2>2. Elsewhere(x, IdleJob("halted")) /\ IdleJob("halted").pc = "idle"
    BY DEF IdleJob, Elsewhere
  <2>3. Set(t, g) \/ Set(t, IdleJob("halted"))
    BY <1>9 DEF CasMiss
  <2>4. UNCHANGED <<index, root, cached, cast>>
    BY <1>9 DEF CasMiss
  <2> HIDE DEF g
  <2> QED
    BY <1>00, <2>1, <2>2, <2>3, <2>4 DEF CfgInv, SameFor
<1>10. CASE Clear(t)
  <2> DEFINE g == [j EXCEPT !.pc = IF Rebuilds(j.prev, j.new) THEN "list" ELSE "load"]
  <2>1. /\ j.pc = "clear" /\ j.target \in ConfigIds /\ ~Names(j.prev, x)
        /\ j.prev \in Configs \cup {Nil}
    BY <1>0, <1>10 DEF Clear, At, JobOK, CfgInv, Elsewhere
  <2>2. Elsewhere(x, g) /\ g.pc \in {"list", "load"}
    BY <1>0, <2>1 DEF Elsewhere, Jobs, CfgInv
  <2>3. root'[x] = root[x]
    BY <1>10, <2>1 DEF Clear, Clears, Names, TypeInv, Shapes, Configs
  <2>4. Set(t, g) /\ UNCHANGED <<index, cached, cast>>
    BY <1>10 DEF Clear
  <2> HIDE DEF g
  <2> QED
    BY <1>00, <2>2, <2>3, <2>4 DEF CfgInv, SameFor
<1>11. CASE List(t)
  <2> DEFINE g == [j EXCEPT !.cur = TrieOf(j.new.prefix), !.pc = "rebuild"]
  <2>1. Elsewhere(x, g) /\ g.pc = "rebuild"
    BY <1>0, <1>11 DEF List, At, Elsewhere, Jobs, CfgInv
  <2>2. Set(t, g) /\ UNCHANGED <<index, root, cached, cast>>
    BY <1>11 DEF List
  <2> HIDE DEF g
  <2> QED
    BY <1>00, <2>1, <2>2 DEF CfgInv, SameFor
<1>12. CASE Rebuild(t)
  <2> DEFINE g == [j EXCEPT !.pc = "load"]
  <2>1. /\ j.pc = "rebuild" /\ j.target \in ConfigIds /\ ~Names(j.new, x) /\ j.new # Nil
    BY <1>0, <1>12 DEF Rebuild, At, JobOK, CfgInv, Elsewhere
  <2>2. Elsewhere(x, g) /\ g.pc = "load"
    BY <1>0, <2>1 DEF Elsewhere, Jobs, CfgInv
  <2>3. root'[x] = root[x]
    BY <1>12, <2>1 DEF Rebuild, Names, TypeInv, Shapes
  <2>4. Set(t, g) /\ UNCHANGED <<index, cached, cast>>
    BY <1>12 DEF Rebuild
  <2> HIDE DEF g
  <2> QED
    BY <1>00, <2>2, <2>3, <2>4 DEF CfgInv, SameFor
<1>13. CASE Load(t)
  <2> DEFINE g == [j EXCEPT !.cfgs = Entries, !.pc = "refresh"]
  <2>1. Elsewhere(x, g) /\ g.cfgs = Entries
    BY <1>0, <1>13 DEF Load, At, Elsewhere, Jobs, CfgInv
  <2>2. SameFor(x, Entries)
    BY DEF CfgInv, SameFor, Entries
  <2>3. Set(t, g) /\ UNCHANGED <<index, root, cached, cast>>
    BY <1>13 DEF Load
  <2> HIDE DEF g
  <2> QED
    BY <1>00, <2>1, <2>2, <2>3 DEF CfgInv, SameFor
<1>14. CASE Refresh(t)
  <2> DEFINE g == [j EXCEPT !.pc = "tracked"]
  <2>1. Elsewhere(x, g) /\ g.pc = "tracked" /\ SameFor(x, j.cfgs)
    BY <1>0, <1>14 DEF Refresh, At, Elsewhere, Jobs, CfgInv
  <2>2. Set(t, g) /\ UNCHANGED <<index, root, cast>> /\ cached' = j.cfgs
    BY <1>14 DEF Refresh
  <2> HIDE DEF g
  <2> QED
    BY <1>00, <2>1, <2>2 DEF CfgInv, SameFor
<1> QED
  BY <1>1, <1>2, <1>3, <1>4, <1>5, <1>6, <1>7, <1>8, <1>9, <1>10, <1>11, <1>12,
     <1>13, <1>14 DEF TrackerStep

\* A crash neither: bootstrap builds the prefixes that were built before.
LEMMA CfgRestart ==
  ASSUME TypeInv, NEW x \in Prefixes, CfgInv(x), Restart
  PROVE  CfgInv(x)' /\ (Built(x, Entries) <=> Built(x, cast.configs))
<1> USE TrackerAssumption
<1>1. SameFor(x, Entries)
  BY DEF CfgInv, SameFor, Entries
<1>2. Built(x, Entries) <=> Built(x, cast.configs)
  BY <1>1 DEF SameFor, Built, Names, IsOn
<1>3. TrieOf(x) # Nil
  BY DEF TrieOf, TypeInv, TypeOK
<1>4. root'[x] # Nil <=> Built(x, cast.configs)
  BY <1>2, <1>3 DEF Restart, CfgInv
<1>5. \A t \in Threads : job'[t].pc = "idle"
  BY DEF Restart, IdleJob
<1> QED
  BY <1>1, <1>2, <1>4, <1>5 DEF Restart, CfgInv, SameFor, Elsewhere

\* Nor any step of the engine.
LEMMA CfgVersion ==
  ASSUME VTypeInv, NEW x \in Prefixes, CfgInv(x), NEW t \in Threads, VersionStep(t)
  PROVE  CfgInv(x)'
<1>1. UNCHANGED <<index, root, cached, lost, cast>>
  BY DEF VersionStep, Skip, ReadHead, ReadTrackedRoot, HeadHit, HeadMiss, AdvanceBranch, vars
<1>2. UNCHANGED job \/ \E out : Set(t, IdleJob(out))
  BY DEF VersionStep, Skip, ReadHead, ReadTrackedRoot, HeadHit, HeadMiss, AdvanceBranch, vars,
     Halt, Settle
<1>3. \A u \in Threads : UNCHANGED job[u] \/ job'[u].pc = "idle"
  BY <1>2 DEF Set, IdleJob, VTypeInv, TypeInv, TypeOK
<1>4. \A u \in Threads :
        /\ Elsewhere(x, job'[u])
        /\ job'[u].pc \in {"root", "cas", "refresh"} => SameFor(x, job'[u].cfgs)
  BY <1>3 DEF CfgInv, Elsewhere
<1> QED
  BY <1>1, <1>4 DEF CfgInv, SameFor

-----------------------------------------------------------------------------
(* A path p under x with one writer at most.                                *)

\* The write of p is in the index, and its hooks are running.
Hooked(j, p) == j.target = p /\ j.pc \in {"configs", "root", "cas", "tracked"}

After(t, p) == Hooked(job[t], p)

\* The tracker's hook is past the configs of prefix x.
Passed(j, x) ==
  \/ j.pc = "tracked"
  \/ /\ j.pc \in {"root", "cas"}
     /\ \E i \in ConfigIds : i < j.k /\ IsOn(j.cfgs[i]) /\ j.cfgs[i].prefix = x

\* What the stored root of x binds at p.
RootAt(x, p) == IF root[x] = Nil THEN Nil ELSE root[x][p]

PathInv(x, p) ==
  /\ \A t \in Threads : After(t, p) => index[p] = job[t].new
  /\ \A t \in Threads :
       job[t].pc = "write" /\ job[t].target = p /\ job[t].new # Nil => job[t].prev = index[p]
  /\ Built(x, cast.configs) /\ <<x, p>> \notin lost /\ (\A t \in Threads : ~After(t, p))
       => RootAt(x, p) = index[p]
  /\ Built(x, cast.configs) =>
       \A t \in Threads : After(t, p) /\ Passed(job[t], x) => RootAt(x, p) = index[p]

\* What a step of thread t may do to p and to its place in the root of x.
Effect(t, x, p) ==
  /\ \A u \in Threads \ {t} : job'[u] = job[u]
  /\ ~At(t, "tracked")
  /\ index'[p] # index[p] => ~After(t, p) /\ After(t, p)'
  /\ RootAt(x, p)' # RootAt(x, p) =>
       After(t, p) /\ After(t, p)' /\ RootAt(x, p)' = index[p]
  /\ After(t, p)' /\ ~After(t, p) => At(t, "write") /\ job[t].target = p
  /\ After(t, p) /\ ~After(t, p)' => job'[t].out = "halted"
  /\ <<x, p>> \in lost' => <<x, p>> \in lost \/ (After(t, p) /\ ~After(t, p)')

\* Only one thread has a write of p in progress.
LEMMA SoleWriter ==
  ASSUME TypeInv, NEW p, OneWriter(cast, p), NEW t \in Threads, ~At(t, "idle"), job[t].target = p
  PROVE  /\ p \notin ConfigIds
         /\ \A u \in Threads : ~At(u, "idle") /\ job[u].target = p => u = t
<1>1. cast \in Casts /\ \A u \in Threads : JobOK(u, job[u])
  BY DEF TypeInv, TypeOK
<1>2. \A u \in Threads : ~At(u, "idle") /\ job[u].target = p => u \in Writers(cast, p)
  BY <1>1 DEF JobOK, At, Writers
<1> QED
  BY <1>1, <1>2 DEF OneWriter

\* A step that leaves p alone, in the index and in the root.
LEMMA PathKeep ==
  ASSUME TypeInv, NEW x, NEW p, PathInv(x, p), NEW t \in Threads, NEW g, Set(t, g),
         ~At(t, "tracked"), index'[p] = index[p], UNCHANGED <<cast, RootAt(x, p)>>,
         <<x, p>> \in lost <=> <<x, p>> \in lost',
         Hooked(g, p) <=> After(t, p),
         Hooked(g, p) => g.new = job[t].new,
         Hooked(g, p) /\ Passed(g, x) /\ Built(x, cast.configs) =>
            Passed(job[t], x) \/ RootAt(x, p) = index[p],
         g.pc = "write" /\ g.target = p /\ g.new # Nil => g.prev = index[p]
  PROVE  PathInv(x, p)' /\ Effect(t, x, p)
<1>1. job'[t] = g /\ \A u \in Threads \ {t} : job'[u] = job[u]
  BY DEF Set, TypeInv, TypeOK
<1>2. \A u \in Threads : After(u, p)' <=> After(u, p)
  BY <1>1 DEF After
<1>3. RootAt(x, p)' = RootAt(x, p)
  OBVIOUS
<1>4. PathInv(x, p)'
  <2>1. \A u \in Threads : After(u, p)' => index'[p] = job'[u].new
    BY <1>1, <1>2 DEF PathInv, After
  <2>2. \A u \in Threads :
          job'[u].pc = "write" /\ job'[u].target = p /\ job'[u].new # Nil
             => job'[u].prev = index'[p]
    BY <1>1 DEF PathInv
  <2>3. Built(x, cast'.configs) =>
          \A u \in Threads : After(u, p)' /\ Passed(job'[u], x) => RootAt(x, p)' = index'[p]
    BY <1>1, <1>2, <1>3 DEF PathInv, After
  <2> QED
    BY <1>2, <1>3, <2>1, <2>2, <2>3 DEF PathInv
<1>5. Effect(t, x, p)
  BY <1>1, <1>2, <1>3 DEF Effect
<1> QED BY <1>4, <1>5

\* Every step of a writer or of its hook keeps what is known of p, and touches p
\* only as its own writer may.
LEMMA PathTracker ==
  ASSUME TypeInv, NEW x \in Prefixes, ConfigsFixed(cast, x), CfgInv(x),
         NEW p \in Under[x] \ Tagged, OneWriter(cast, p), PathInv(x, p),
         NEW t \in Threads, TrackerStep(t)
  PROVE  PathInv(x, p)' /\ Effect(t, x, p)
<1> USE TrackerAssumption
<1> DEFINE j == job[t]
<1>0. /\ j \in Jobs /\ JobOK(t, j) /\ job \in [Threads -> Jobs] /\ p \in Targets
      /\ cast' = cast /\ ~At(t, "tracked")
  BY DEF TypeInv, TypeOK, TrackerStep, Begin, ReadPrevious, Write, ReadConfigs, SkipConfig,
     ReadRoot, LastConfig, CasHit, CasMiss, Clear, List, Rebuild, Load, Refresh, At
<1>00. root' = root => UNCHANGED RootAt(x, p)
  BY DEF RootAt
<1>1. CASE Begin(t)
  <2>1. PICK q \in Scope[t] : \E v \in Choices[q] \cup {Nil} : Set(t, Job(q, v))
    BY <1>1 DEF Begin
  <2>2. PICK v \in Choices[q] \cup {Nil} : Set(t, Job(q, v))
    BY <2>1
  <2> DEFINE g == Job(q, v)
  <2>3. g.pc = (IF v = Nil THEN "write" ELSE "read") /\ g.new = v
    BY DEF Job, IdleJob
  <2>4. Set(t, g) /\ ~Hooked(g, p) /\ (g.pc = "write" => g.new = Nil)
    BY <2>2, <2>3 DEF Hooked
  <2>5. ~After(t, p) /\ UNCHANGED <<index, root, cast, lost>>
    BY <1>1 DEF Begin, At, After, Hooked
  <2> HIDE DEF g
  <2> QED
    BY <1>0, <1>00, <2>4, <2>5, PathKeep
<1>2. CASE ReadPrevious(t)
  <2> DEFINE g == [j EXCEPT !.prev = index[j.target], !.pc = "write"]
  <2>1. g.pc = "write" /\ (g.target = p => g.prev = index[p]) /\ ~Hooked(g, p)
    BY <1>0 DEF Jobs, Hooked
  <2>2. Set(t, g) /\ ~After(t, p) /\ UNCHANGED <<index, root, cast, lost>>
    BY <1>2 DEF ReadPrevious, At, After, Hooked
  <2> HIDE DEF g
  <2> QED
    BY <1>0, <1>00, <2>1, <2>2, PathKeep
<1>3. CASE Write(t)
  <2> DEFINE w == [j EXCEPT !.prev = IF j.new = Nil THEN index[j.target] ELSE @]
             g == IF w.prev = w.new THEN IdleJob("noop")
                  ELSE [w EXCEPT !.pc = Branch(w.target)]
  <2>1. /\ j.pc = "write" /\ j.target \in Targets /\ UNCHANGED <<root, cast, lost>>
    BY <1>0, <1>3 DEF Write, At, JobOK
  <2>2. /\ w.target = j.target /\ w.new = j.new
        /\ w.prev = IF j.new = Nil THEN index[j.target] ELSE j.prev
    BY <1>0 DEF Jobs
  <2>3. Set(t, g) /\ index' = [index EXCEPT ![j.target] = j.new]
    BY <1>3, <2>2 DEF Write
  <2>4. \/ g.pc = "idle" /\ w.prev = j.new
        \/ /\ g.pc = Branch(j.target) /\ g.target = j.target /\ g.new = j.new
    BY <1>0, <2>2 DEF IdleJob, Jobs
  <2> HIDE DEF g
  <2>5. g.pc # "write" /\ ~After(t, p)
    BY <2>1, <2>4 DEF Branch, After, Hooked
  <2>6. CASE j.target # p \/ g.pc = "idle"
    <3>1. index'[p] = index[p]
      BY <1>0, <2>1, <2>2, <2>3, <2>4, <2>6 DEF PathInv, TypeInv, TypeOK, Branch
    <3>2. ~Hooked(g, p)
      BY <2>4, <2>6 DEF Hooked
    <3> QED
      BY <1>0, <1>00, <2>1, <2>3, <2>5, <3>1, <3>2, PathKeep
  <2>7. CASE j.target = p /\ g.pc # "idle"
    <3>1. /\ p \notin ConfigIds
          /\ \A u \in Threads \ {t} : ~(~At(u, "idle") /\ job[u].target = p)
      BY <2>1, <2>7, SoleWriter DEF At
    <3>2. g.pc = "configs" /\ g.target = p /\ g.new = j.new /\ index'[p] = j.new
      BY <1>0, <2>1, <2>3, <2>4, <2>7, <3>1 DEF Branch, TypeInv, TypeOK
    <3>3. job'[t] = g /\ \A u \in Threads \ {t} : job'[u] = job[u]
      BY <2>3 DEF Set, TypeInv, TypeOK
    <3>4. \A u \in Threads \ {t} : ~After(u, p) /\ ~After(u, p)'
      BY <3>1, <3>3 DEF After, Hooked, At
    <3>5. After(t, p)' /\ ~Passed(job'[t], x)
      BY <3>2, <3>3 DEF After, Hooked, Passed
    <3>6. PathInv(x, p)'
      BY <3>1, <3>2, <3>3, <3>4, <3>5 DEF PathInv, At
    <3> QED
      BY <1>0, <1>00, <2>1, <2>5, <2>7, <3>3, <3>5, <3>6 DEF Effect, At
  <2> QED BY <2>6, <2>7
<1>4. CASE ReadConfigs(t)
  <2> DEFINE g == [j EXCEPT !.cfgs = cached, !.pc = "root"]
  <2>1. j.pc = "configs" /\ UNCHANGED <<index, root, cast, lost>> /\ Set(t, g)
    BY <1>4 DEF ReadConfigs, At
  <2>2. g.pc = "root" /\ g.target = j.target /\ g.new = j.new /\ g.k = 1
    BY <1>0, <2>1 DEF Jobs, JobOK
  <2> HIDE DEF g
  <2>3. ~Passed(g, x)
    BY <2>2 DEF Passed, ConfigIds
  <2> QED
    BY <1>0, <1>00, <2>1, <2>2, <2>3, PathKeep DEF Hooked, After
<1>5. CASE SkipConfig(t)
  <2> DEFINE g == NextConfig(j)
  <2>1. /\ j.pc = "root" /\ UNCHANGED <<index, root, cast, lost>> /\ Set(t, g)
        /\ j.k \in ConfigIds /\ ~Applies(j, j.k)
    BY <1>0, <1>5 DEF SkipConfig, At, Jobs, ConfigIds
  <2>2. /\ g.pc = "root" /\ g.target = j.target /\ g.new = j.new /\ g.k = j.k + 1
        /\ g.cfgs = j.cfgs
    BY <1>0 DEF Jobs, NextConfig
  <2> HIDE DEF g
  <2>3. Passed(g, x) /\ j.target = p => Passed(j, x)
    BY <2>1, <2>2 DEF Passed, ConfigIds, Applies
  <2> QED
    BY <1>0, <1>00, <2>1, <2>2, <2>3, PathKeep DEF Hooked, After
<1>6. CASE ReadRoot(t)
  <2> DEFINE y == j.cfgs[j.k].prefix
             g == NextConfig(j)
  <2>1. /\ j.pc = "root" /\ UNCHANGED <<index, root, cast, lost>>
        /\ j.k \in ConfigIds /\ Applies(j, j.k) /\ y \in Prefixes /\ j.new \in Values
    BY <1>0, <1>6 DEF ReadRoot, At, Jobs, ConfigIds, Applies, IsOn, Configs
  <2>2. CASE root[y] = Applied(j, root[y]) /\ Set(t, g)
    <3>1. /\ g.pc = "root" /\ g.target = j.target /\ g.new = j.new /\ g.k = j.k + 1
          /\ g.cfgs = j.cfgs
      BY <1>0 DEF Jobs, NextConfig
    <3>2. Set(t, g)
      BY <2>2
    <3> HIDE DEF g
    <3>3. j.target = p /\ y = x => RootAt(x, p) = index[p]
      <4> SUFFICES ASSUME j.target = p, y = x PROVE RootAt(x, p) = index[p]
        OBVIOUS
      <4>1. root[x] \in Tries(x) \cup {Nil} /\ Applied(j, root[x]) \in Tries(x)
        BY <2>1, PutType DEF Applied, TypeInv, TypeOK
      <4>2. root[x] # Nil
        BY <2>2, <4>1 DEF Tries
      <4>3. root[x][p] = j.new
        BY <2>2 DEF Applied, TriePut
      <4> QED
        BY <2>1, <4>2, <4>3 DEF RootAt, PathInv, After, Hooked
    <3>4. Passed(g, x) /\ j.target = p => Passed(j, x) \/ RootAt(x, p) = index[p]
      BY <2>1, <3>1, <3>3 DEF Passed, ConfigIds
    <3> QED
      BY <1>0, <1>00, <2>1, <3>1, <3>2, <3>4, PathKeep DEF Hooked, After
  <2>3. ASSUME NEW h, h = [j EXCEPT !.cur = root[y], !.pc = "cas"], Set(t, h)
        PROVE  PathInv(x, p)' /\ Effect(t, x, p)
    <3>1. /\ h.pc = "cas" /\ h.target = j.target /\ h.new = j.new /\ h.k = j.k
          /\ h.cfgs = j.cfgs
      BY <1>0, <2>3 DEF Jobs
    <3>2. Passed(h, x) => Passed(j, x)
      BY <2>1, <3>1 DEF Passed
    <3> QED
      BY <1>0, <1>00, <2>1, <2>3, <3>1, <3>2, PathKeep DEF Hooked, After
  <2> QED
    BY <1>6, <2>2, <2>3 DEF ReadRoot
<1>7. CASE LastConfig(t)
  <2> DEFINE g == [j EXCEPT !.pc = "tracked"]
  <2>1. /\ j.pc = "root" /\ UNCHANGED <<index, root, cast, lost>> /\ Set(t, g)
        /\ j.k = NumConfigs + 1
    BY <1>7 DEF LastConfig, At
  <2>2. g.pc = "tracked" /\ g.target = j.target /\ g.new = j.new
    BY <1>0 DEF Jobs
  <2> HIDE DEF g
  <2>3. ASSUME Built(x, cast.configs) PROVE Passed(j, x)
    <3>1. PICK c \in ConfigIds : IsOn(cast.configs[c]) /\ cast.configs[c].prefix = x
      BY <2>3 DEF Built
    <3>2. j.cfgs[c] = cast.configs[c]
      BY <2>1, <3>1 DEF CfgInv, SameFor, Names, IsOn
    <3>3. c < j.k
      BY <2>1, TrackerAssumption DEF ConfigIds
    <3> QED BY <2>1, <3>1, <3>2, <3>3 DEF Passed
  <2> QED
    BY <1>0, <1>00, <2>1, <2>2, <2>3, PathKeep DEF Hooked, After
<1>8. CASE CasHit(t)
  <2> DEFINE y == j.cfgs[j.k].prefix
             g == NextConfig(j)
  <2>1. /\ j.pc = "cas" /\ UNCHANGED <<index, cast>> /\ Set(t, g)
        /\ root' = [root EXCEPT ![y] = Applied(j, root[y])]
        /\ lost' = lost \ {<<y, j.target>>}
    BY <1>8 DEF CasHit, At
  <2>2. /\ j.k \in ConfigIds /\ IsOn(j.cfgs[j.k]) /\ y \in Prefixes /\ j.new \in Values
    BY <1>0, <2>1 DEF JobOK, Jobs, Applies, ConfigIds, IsOn, Configs
  <2>3. /\ g.pc = "root" /\ g.target = j.target /\ g.new = j.new /\ g.k = j.k + 1
        /\ g.cfgs = j.cfgs
    BY <1>0 DEF Jobs, NextConfig
  <2> HIDE DEF g
  <2>4. /\ y = x => root'[x] = Applied(j, root[x]) /\ root'[x] \in Tries(x) /\ root[x] # Nil
        /\ y # x => root'[x] = root[x]
    <3>1. y = x => Built(x, cast.configs)
      BY <2>1, <2>2 DEF CfgInv, SameFor, Built, Names, IsOn
    <3> QED
      BY <2>1, <2>2, <3>1, PutType DEF Applied, TypeInv, TypeOK, Shapes, CfgInv
  <2>5. CASE j.target = p /\ y = x
    <3>1. RootAt(x, p)' = j.new /\ index[p] = j.new
      BY <2>1, <2>4, <2>5 DEF RootAt, Tries, Applied, TriePut, PathInv, After, Hooked
    <3>2. job'[t] = g /\ \A u \in Threads \ {t} : job'[u] = job[u]
      BY <2>1 DEF Set, TypeInv, TypeOK
    <3>3. \A u \in Threads \ {t} : ~(~At(u, "idle") /\ job[u].target = p)
      BY <2>1, <2>5, SoleWriter DEF At
    <3>4. After(t, p) /\ After(t, p)'
      BY <2>1, <2>3, <2>5, <3>2 DEF After, Hooked
    <3>5. \A u \in Threads \ {t} : ~After(u, p)'
      BY <3>2, <3>3 DEF After, Hooked, At
    <3>6. PathInv(x, p)'
      BY <2>1, <2>3, <3>1, <3>2, <3>3, <3>4, <3>5 DEF PathInv, At
    <3> QED
      BY <1>0, <2>1, <3>1, <3>2, <3>4, <3>6 DEF Effect
  <2>6. CASE j.target # p \/ y # x
    <3>1. UNCHANGED RootAt(x, p)
      BY <2>4, <2>6 DEF RootAt, Tries, Applied, TriePut
    <3>2. <<x, p>> \in lost <=> <<x, p>> \in lost'
      BY <2>1, <2>6
    <3>3. Passed(g, x) /\ j.target = p => Passed(j, x)
      BY <2>1, <2>2, <2>3, <2>6 DEF Passed, ConfigIds
    <3> QED
      BY <1>0, <2>1, <2>3, <3>1, <3>2, <3>3, PathKeep DEF Hooked, After
  <2> QED BY <2>5, <2>6
<1>9. CASE CasMiss(t)
  <2>1. j.pc = "cas" /\ UNCHANGED <<index, root, cast>> /\ j.k \in ConfigIds
    BY <1>0, <1>9 DEF CasMiss, At, JobOK, Jobs, ConfigIds
  <2>2. ASSUME NEW g, g = [j EXCEPT !.tries = @ + 1, !.cur = Nil, !.pc = "root"],
               Set(t, g), UNCHANGED lost
        PROVE  PathInv(x, p)' /\ Effect(t, x, p)
    <3>1. /\ g.pc = "root" /\ g.target = j.target /\ g.new = j.new /\ g.k = j.k
          /\ g.cfgs = j.cfgs
      BY <1>0, <2>2 DEF Jobs
    <3>2. Passed(g, x) => Passed(j, x)
      BY <2>1, <3>1 DEF Passed
    <3> QED
      BY <1>0, <1>00, <2>1, <2>2, <3>1, <3>2, PathKeep DEF Hooked, After
  <2>3. CASE /\ Set(t, IdleJob("halted"))
             /\ lost' = lost \cup {<<j.cfgs[k].prefix, j.target>> :
                            k \in {i \in j.k..NumConfigs : Applies(j, i)}}
    <3>1. IdleJob("halted").pc = "idle" /\ IdleJob("halted").out = "halted"
      BY DEF IdleJob
    <3>2. CASE j.target # p
      <4>1. <<x, p>> \in lost <=> <<x, p>> \in lost'
        BY <2>3, <3>2
      <4> QED
        BY <1>0, <1>00, <2>1, <2>3, <3>1, <3>2, <4>1, PathKeep DEF Hooked, After
    <3>3. CASE j.target = p
      <4>1. job'[t] = IdleJob("halted") /\ \A u \in Threads \ {t} : job'[u] = job[u]
        BY <2>3 DEF Set, TypeInv, TypeOK
      <4>2. \A u \in Threads \ {t} : ~(~At(u, "idle") /\ job[u].target = p)
        BY <2>1, <3>3, SoleWriter DEF At
      <4>3. After(t, p) /\ \A u \in Threads : ~After(u, p)'
        BY <2>1, <3>1, <3>3, <4>1, <4>2 DEF After, Hooked, At
      <4>4. Built(x, cast.configs) /\ <<x, p>> \notin lost' => RootAt(x, p) = index[p]
        <5> SUFFICES ASSUME Built(x, cast.configs), <<x, p>> \notin lost'
                     PROVE  RootAt(x, p) = index[p]
          OBVIOUS
        <5>1. PICK c \in ConfigIds : IsOn(j.cfgs[c]) /\ j.cfgs[c].prefix = x
          BY <2>1 DEF Built, CfgInv, SameFor, Names, IsOn
        <5>2. Applies(j, c) /\ ~(c \in j.k..NumConfigs)
          BY <2>3, <3>3, <5>1 DEF Applies
        <5>3. Passed(j, x)
          BY <2>1, <5>1, <5>2 DEF Passed, ConfigIds
        <5> QED
          BY <4>3, <5>3 DEF PathInv
      <4>5. PathInv(x, p)'
        BY <1>00, <2>1, <3>1, <4>1, <4>2, <4>3, <4>4 DEF PathInv, At
      <4> QED
        BY <1>0, <1>00, <2>1, <3>1, <4>1, <4>3, <4>5 DEF Effect
    <3> QED BY <3>2, <3>3
  <2> QED
    BY <1>9, <2>2, <2>3 DEF CasMiss
<1>10. CASE Clear(t) \/ List(t) \/ Rebuild(t) \/ Load(t) \/ Refresh(t)
  <2>1. /\ j.pc \in {"clear", "list", "rebuild", "load", "refresh"}
        /\ j.target # p
    BY <1>0, <1>10, SoleWriter DEF Clear, List, Rebuild, Load, Refresh, At, JobOK
  <2>2. /\ ~Names(j.new, x) /\ ~Names(j.prev, x)
        /\ (j.pc = "rebuild" => j.new # Nil)
    BY <1>0, <2>1 DEF JobOK, CfgInv, Elsewhere
  <2>3. /\ root'[x] = root[x] /\ index' = index
        /\ <<x, p>> \in lost <=> <<x, p>> \in lost'
    BY <1>10, <2>1, <2>2 DEF Clear, Clears, List, Rebuild, Load, Refresh, At, Names,
       TypeInv, Shapes
  <2>4. UNCHANGED RootAt(x, p)
    BY <2>3 DEF RootAt
  <2> DEFINE g == job'[t]
  <2>5. Set(t, g) /\ g.target = j.target /\ g.pc # "write"
    <3>1. ASSUME NEW h, Set(t, h), h.target = j.target, h.pc # "write"
          PROVE  Set(t, g) /\ g.target = j.target /\ g.pc # "write"
      BY <1>0, <3>1 DEF Set
    <3>2. CASE Clear(t)
      <4> DEFINE h == [j EXCEPT !.pc = IF Rebuilds(j.prev, j.new) THEN "list" ELSE "load"]
      <4>1. h.target = j.target /\ h.pc # "write"
        BY <1>0 DEF Jobs
      <4>2. Set(t, h)
        BY <3>2 DEF Clear
      <4> HIDE DEF h, g
      <4> QED BY <3>1, <4>1, <4>2
    <3>3. CASE List(t)
      <4> DEFINE h == [j EXCEPT !.cur = TrieOf(j.new.prefix), !.pc = "rebuild"]
      <4>1. h.target = j.target /\ h.pc # "write"
        BY <1>0 DEF Jobs
      <4>2. Set(t, h)
        BY <3>3 DEF List
      <4> HIDE DEF h, g
      <4> QED BY <3>1, <4>1, <4>2
    <3>4. CASE Rebuild(t)
      <4> DEFINE h == [j EXCEPT !.pc = "load"]
      <4>1. h.target = j.target /\ h.pc # "write"
        BY <1>0 DEF Jobs
      <4>2. Set(t, h)
        BY <3>4 DEF Rebuild
      <4> HIDE DEF h, g
      <4> QED BY <3>1, <4>1, <4>2
    <3>5. CASE Load(t)
      <4> DEFINE h == [j EXCEPT !.cfgs = Entries, !.pc = "refresh"]
      <4>1. h.target = j.target /\ h.pc # "write"
        BY <1>0 DEF Jobs
      <4>2. Set(t, h)
        BY <3>5 DEF Load
      <4> HIDE DEF h, g
      <4> QED BY <3>1, <4>1, <4>2
    <3>6. CASE Refresh(t)
      <4> DEFINE h == [j EXCEPT !.pc = "tracked"]
      <4>1. h.target = j.target /\ h.pc # "write"
        BY <1>0 DEF Jobs
      <4>2. Set(t, h)
        BY <3>6 DEF Refresh
      <4> HIDE DEF h, g
      <4> QED BY <3>1, <4>1, <4>2
    <3> QED BY <1>10, <3>2, <3>3, <3>4, <3>5, <3>6
  <2> HIDE DEF g
  <2> QED
    BY <1>0, <2>1, <2>3, <2>4, <2>5, PathKeep DEF Hooked, After
<1> QED
  BY <1>1, <1>2, <1>3, <1>4, <1>5, <1>6, <1>7, <1>8, <1>9, <1>10 DEF TrackerStep

\* A crash builds the root from the index.
LEMMA PathRestart ==
  ASSUME TypeInv, NEW x \in Prefixes, CfgInv(x), NEW p \in Under[x], Restart
  PROVE  PathInv(x, p)' /\ RootAt(x, p)' = IF Built(x, cast.configs) THEN index[p] ELSE Nil
<1>1. \A t \in Threads : job'[t].pc = "idle"
  BY DEF Restart, IdleJob
<1>2. Built(x, Entries) <=> Built(x, cast.configs)
  BY CfgRestart
<1>3. TrieOf(x) # Nil /\ TrieOf(x)[p] = index[p]
  BY TrackerAssumption DEF TrieOf, TypeInv, TypeOK
<1>4. RootAt(x, p)' = IF Built(x, cast.configs) THEN index[p] ELSE Nil
  BY <1>2, <1>3 DEF Restart, RootAt, CfgInv
<1> QED
  BY <1>1, <1>4 DEF Restart, PathInv, After, Hooked

\* What the engine's hook does to the job of its thread: nothing, or it is over.
LEMMA VersionEffect ==
  ASSUME VTypeInv, NEW t \in Threads, VersionStep(t)
  PROVE  /\ UNCHANGED <<index, root, cached, lost, writes, restarts, cast>>
         /\ At(t, "tracked")
         /\ job' = job \/ job'[t].pc = "idle"
         /\ \A u \in Threads \ {t} : job'[u] = job[u] /\ ver'[u] = ver[u]
<1>1. UNCHANGED <<index, root, cached, lost, writes, restarts, cast>> /\ At(t, "tracked")
  BY DEF VersionStep, Skip, ReadHead, ReadTrackedRoot, HeadHit, HeadMiss, AdvanceBranch, vars,
     VAt
<1>2. UNCHANGED job \/ \E out : Set(t, IdleJob(out))
  BY DEF VersionStep, Skip, ReadHead, ReadTrackedRoot, HeadHit, HeadMiss, AdvanceBranch, vars,
     Halt, Settle
<1>3. \E v : SetVer(t, v)
  BY DEF VersionStep, Skip, ReadHead, ReadTrackedRoot, HeadHit, HeadMiss, AdvanceBranch,
     Halt, Settle
<1>4. job' = job \/ (job'[t].pc = "idle" /\ \A u \in Threads \ {t} : job'[u] = job[u])
  BY <1>2 DEF Set, IdleJob, VTypeInv, TypeInv, TypeOK
<1>5. \A u \in Threads \ {t} : ver'[u] = ver[u]
  BY <1>3 DEF SetVer, VTypeInv, VTypeOK
<1> QED BY <1>1, <1>4, <1>5

\* No step changes the scenario.
LEMMA CastFixed == ASSUME VTypeInv, [VNext]_allVars PROVE cast' = cast
  BY VersionEffect DEF VNext, Track, TrackerStep, Begin, ReadPrevious, Write, ReadConfigs,
     SkipConfig, ReadRoot, LastConfig, CasHit, CasMiss, Clear, List, Rebuild, Load, Refresh,
     VRestart, Restart, allVars, vars

\* When the hooks of the writer of p are over, the root has its binding.
LEMMA PathVersion ==
  ASSUME VTypeInv, NEW x, NEW p, PathInv(x, p), NEW t \in Threads, VersionStep(t)
  PROVE  PathInv(x, p)'
<1>1. /\ UNCHANGED <<index, root, lost, cast>> /\ At(t, "tracked")
      /\ job' = job \/ job'[t].pc = "idle"
      /\ \A u \in Threads \ {t} : job'[u] = job[u]
  BY VersionEffect
<1>2. \A u \in Threads : job'[u] = job[u] \/ job'[u].pc = "idle"
  BY <1>1
<1>3. \A u \in Threads : After(u, p)' => After(u, p) /\ job'[u] = job[u]
  BY <1>2 DEF After, Hooked
<1>4. RootAt(x, p)' = RootAt(x, p)
  BY <1>1 DEF RootAt
<1>5. (\A u \in Threads : ~After(u, p)') =>
        (\A u \in Threads : ~After(u, p)) \/ (After(t, p) /\ Passed(job[t], x))
  BY <1>1 DEF After, At, Passed
<1> QED
  BY <1>1, <1>2, <1>3, <1>4, <1>5 DEF PathInv

-----------------------------------------------------------------------------
(* The tracked root of a prefix that is left alone.                         *)

TrackedInv(x) ==
  TrackedAlone(cast, x) => CfgInv(x) /\ \A p \in Under[x] \ Tagged : PathInv(x, p)

\* Bootstrap starts from the index.
LEMMA TrackedInit == ASSUME VInit, NEW x \in Prefixes PROVE TrackedInv(x)
<1>1. Init /\ TypeInv /\ CfgInv(x)
  BY TypeInit, CfgInit DEF VInit
<1>2. \A p \in Under[x] : TrieOf(x) # Nil /\ TrieOf(x)[p] = index[p]
  BY <1>1, TrackerAssumption DEF TrieOf, TypeInv, TypeOK
<1>3. \A t \in Threads : job[t].pc = "idle"
  BY <1>1 DEF Init, IdleJob
<1>4. ASSUME NEW p \in Under[x] PROVE PathInv(x, p)
  BY <1>1, <1>2, <1>3 DEF PathInv, After, Hooked, RootAt, Init
<1> QED BY <1>1, <1>4 DEF TrackedInv

\* Every step keeps it.
LEMMA TrackedStep ==
  ASSUME VTypeInv, NEW x \in Prefixes, TrackedInv(x), [VNext]_allVars PROVE TrackedInv(x)'
<1>0. cast' = cast
  BY CastFixed
<1> SUFFICES ASSUME TrackedAlone(cast, x)
             PROVE  CfgInv(x)' /\ \A p \in Under[x] \ Tagged : PathInv(x, p)'
  BY <1>0 DEF TrackedInv, TrackedAlone, ConfigsFixed, OneWriter, Writers
<1>1. /\ TypeInv /\ ConfigsFixed(cast, x) /\ CfgInv(x)
      /\ \A p \in Under[x] \ Tagged : OneWriter(cast, p) /\ PathInv(x, p)
  BY DEF TrackedInv, TrackedAlone, VTypeInv
<1>2. CASE UNCHANGED allVars
  BY <1>1, <1>2 DEF allVars, vars, CfgInv, SameFor, PathInv, After, RootAt
<1>3. ASSUME NEW t \in Threads, Track(t)
      PROVE  CfgInv(x)' /\ \A p \in Under[x] \ Tagged : PathInv(x, p)'
  BY <1>1, <1>3, CfgTracker, PathTracker DEF Track
<1>4. ASSUME NEW t \in Threads, VersionStep(t)
      PROVE  CfgInv(x)' /\ \A p \in Under[x] \ Tagged : PathInv(x, p)'
  BY <1>1, <1>4, CfgVersion, PathVersion
<1>5. CASE VRestart
  BY <1>1, <1>5, CfgRestart, PathRestart DEF VRestart
<1> QED
  BY <1>2, <1>3, <1>4, <1>5 DEF VNext

\* What the invariant says of the stored root.
LEMMA TrackedCurrent ==
  ASSUME VTypeInv, NEW x \in Prefixes, TrackedInv(x), TrackedAlone(cast, x)
  PROVE  CurrentAt(x)
<1>1. CfgInv(x) /\ \A p \in Under[x] \ Tagged : PathInv(x, p)
  BY DEF TrackedInv
<1>2. Enabled(x) => Built(x, cast.configs)
  BY <1>1 DEF Enabled, Entries, CfgInv, SameFor, Built, Names, IsOn
<1>3. \A p, t : After(t, p) => ~At(t, "idle") /\ job[t].target = p
  BY DEF After, Hooked, At
<1> QED
  BY <1>1, <1>2, <1>3 DEF CurrentAt, CfgInv, PathInv, RootAt, Pending

\* In a scenario that leaves the configs of x alone and has one writer for each of
\* its paths, the stored root of x is current at every path no thread is writing:
\* whatever the interleaving, also while other prefixes are reconfigured.
THEOREM PrefixCurrent ==
  ASSUME NEW CONSTANT x \in Prefixes
  PROVE  VSpec => [](TrackedAlone(cast, x) => CurrentAt(x))
<1>1. VInit => VTypeInv /\ TrackedInv(x)
  BY VTypeInit, TrackedInit
<1>2. VTypeInv /\ TrackedInv(x) /\ [VNext]_allVars => VTypeInv' /\ TrackedInv(x)'
  BY VTypeStep, TrackedStep
<1>3. VTypeInv /\ TrackedInv(x) => (TrackedAlone(cast, x) => CurrentAt(x))
  BY TrackedCurrent
<1> QED
  BY <1>1, <1>2, <1>3, PTL DEF VSpec

-----------------------------------------------------------------------------
(* What the versions say of a path p under the versioned prefix.            *)

\* The version the head names binds at p what the tracked root binds there.
InStep(p) == Versioned(p) = RootAt(VPrefix, p)

\* The version an emit would append to binds v at p.
LastIs(e, p, v) == e.head # <<>> /\ e.head[Len(e.head)][p] = v

\* An emit of the writer of p has seen its write: what it observed says whether the
\* head is in step.
OwnEmit(e, p) ==
  /\ e.pc = "root" /\ LastIs(e, p, RootAt(VPrefix, p)) => InStep(p)
  /\ e.pc = "cas" => e.root[p] = RootAt(VPrefix, p)
  /\ e.pc = "branch" => InStep(p)

\* An emit that would still win its race, when the head is in step, keeps it so.
AnyEmit(e, p) ==
  e.pc = "cas" /\ e.head = head /\ InStep(p) => e.root[p] = RootAt(VPrefix, p)

Nobody(p) == \A t \in Threads : ~After(t, p)

CapInv(p) ==
  /\ <<VPrefix, p>> \in lost => p \in missed
  /\ \A u \in Threads : ver[u].pc \in {"cas", "branch"} => root[VPrefix] # Nil
  /\ p \notin missed =>
       /\ Nobody(p) => Versioned(p) = index[p] /\ InStep(p)
       /\ ~Nobody(p) /\ RootAt(VPrefix, p) # index[p] => InStep(p)
       /\ \A u \in Threads : AnyEmit(ver[u], p)
       /\ \A t \in Threads : After(t, p) => OwnEmit(ver[t], p)

\* Nothing is bound, nothing is versioned.
LEMMA CapInit ==
  ASSUME VInit, NEW p \in Under[VPrefix] \ ConfigIds PROVE CapInv(p)
<1>1. Init /\ VPrefix \in Prefixes /\ p \in Targets
  BY VersionAssumption, TrackerAssumption DEF VInit
<1>2. index[p] = Nil /\ Versioned(p) = Nil
  BY <1>1 DEF Init, VInit, Versioned
<1>3. RootAt(VPrefix, p) = Nil
  BY <1>1, <1>2 DEF Init, RootAt, TrieOf
<1>4. Nobody(p) /\ lost = {}
  BY <1>1 DEF Init, IdleJob, Nobody, After, Hooked
<1>5. \A t \in Threads : ver[t].pc = "off"
  BY DEF VInit, Off, Emit
<1> QED
  BY <1>2, <1>3, <1>4, <1>5 DEF CapInv, InStep, AnyEmit, Nobody

\* The writer and the tracker: only the writer of p moves the root at p, and it does
\* so while the head is in step with the binding it replaces.
LEMMA CapTrack ==
  ASSUME VTypeInv, CfgInv(VPrefix), CfgInv(VPrefix)', NEW p, OneWriter(cast, p),
         CapInv(p), NEW t \in Threads, Track(t), VTypeInv', Effect(t, VPrefix, p)
  PROVE  CapInv(p)'
<1>1. /\ UNCHANGED <<head, ver>> /\ Versioned(p)' = Versioned(p) /\ missed \subseteq missed'
      /\ \A u \in Threads \ {t} : After(u, p)' <=> After(u, p)
  BY DEF Track, Versioned, Effect, After
<1>2. After(t, p) /\ ~After(t, p)' => p \in missed'
  BY DEF Track, Effect, After, Hooked, At
<1>3. <<VPrefix, p>> \in lost' => p \in missed'
  BY <1>1, <1>2 DEF Effect, CapInv
<1>4. root'[VPrefix] # Nil <=> root[VPrefix] # Nil
  <2>1. cast' = cast
    BY DEF Track, TrackerStep, Begin, ReadPrevious, Write, ReadConfigs, SkipConfig,
       ReadRoot, LastConfig, CasHit, CasMiss, Clear, List, Rebuild, Load, Refresh
  <2> QED
    BY <2>1 DEF CfgInv
<1> SUFFICES ASSUME p \notin missed'
             PROVE  /\ Nobody(p)' => Versioned(p)' = index'[p] /\ InStep(p)'
                    /\ ~Nobody(p)' /\ RootAt(VPrefix, p)' # index'[p] => InStep(p)'
                    /\ \A u \in Threads : AnyEmit(ver[u], p)'
                    /\ \A u \in Threads : After(u, p)' => OwnEmit(ver[u], p)'
  BY <1>1, <1>3, <1>4 DEF CapInv
<1>5. p \notin missed /\ (After(t, p) => After(t, p)')
  BY <1>1, <1>2
<1>6. Nobody(p)' => /\ Nobody(p)
                    /\ index'[p] = index[p] /\ RootAt(VPrefix, p)' = RootAt(VPrefix, p)
  BY <1>1, <1>5 DEF Nobody, Effect
<1>7. After(t, p)' /\ ~After(t, p) => Nobody(p)
  <2> SUFFICES ASSUME After(t, p)', ~After(t, p) PROVE Nobody(p)
    OBVIOUS
  <2>1. At(t, "write") /\ job[t].target = p
    BY DEF Effect
  <2>2. \A u \in Threads : ~At(u, "idle") /\ job[u].target = p => u = t
    BY <2>1, SoleWriter DEF At, VTypeInv
  <2> QED
    BY <2>2 DEF Nobody, After, Hooked, At
<1>8. CASE RootAt(VPrefix, p)' = RootAt(VPrefix, p)
  <2>1. InStep(p)' <=> InStep(p)
    BY <1>1, <1>8 DEF InStep
  <2>2. \A u \in Threads : AnyEmit(ver[u], p)' <=> AnyEmit(ver[u], p)
    BY <1>1, <1>8, <2>1 DEF AnyEmit
  <2>3. \A u \in Threads : OwnEmit(ver[u], p)' <=> OwnEmit(ver[u], p)
    BY <1>1, <1>8, <2>1 DEF OwnEmit, LastIs
  <2>4. OwnEmit(ver[t], p)
    BY DEF OwnEmit, VTypeInv, EmitOK, Effect
  <2>5. ~Nobody(p)' /\ RootAt(VPrefix, p)' # index'[p] => InStep(p)'
    <3>1. CASE index'[p] = index[p]
      BY <1>5, <1>8, <2>1, <3>1 DEF CapInv
    <3>2. CASE index'[p] # index[p]
      BY <1>5, <1>7, <2>1, <3>2 DEF CapInv, Effect
    <3> QED BY <3>1, <3>2
  <2> QED
    BY <1>1, <1>5, <1>6, <1>8, <2>1, <2>2, <2>3, <2>4, <2>5 DEF CapInv
<1>9. CASE RootAt(VPrefix, p)' # RootAt(VPrefix, p)
  <2>1. /\ After(t, p) /\ After(t, p)' /\ RootAt(VPrefix, p)' = index[p]
        /\ index'[p] = index[p]
    BY <1>9 DEF Effect
  <2>2. InStep(p) /\ ~InStep(p)'
    BY <1>1, <1>5, <1>9, <2>1 DEF CapInv, InStep, Nobody
  <2>3. \A u \in Threads \ {t} : ~After(u, p)'
    <3>1. \A u \in Threads : ~At(u, "idle") /\ job[u].target = p => u = t
      BY <2>1, SoleWriter DEF After, Hooked, At, VTypeInv
    <3> QED
      BY <1>1, <3>1 DEF After, Hooked, At
  <2>4. OwnEmit(ver[t], p)'
    BY <1>1 DEF OwnEmit, VTypeInv, EmitOK, Effect
  <2> QED
    BY <2>1, <2>2, <2>3, <2>4 DEF Nobody, AnyEmit
<1> QED BY <1>8, <1>9

\* The hook of a writer of p returns complete only when the head is in step.
LEMMA CapSettle ==
  ASSUME VTypeInv, NEW p, CapInv(p), NEW t \in Threads, NEW out, Settle(t, out),
         UNCHANGED <<index, root, lost, head>>, missed \subseteq missed',
         After(t, p) => p \in missed' \/ (Versioned(p) = index[p] /\ InStep(p))
  PROVE  CapInv(p)'
<1>1. job'[t].pc = "idle" /\ ver'[t].pc = "off"
  BY DEF Settle, Set, SetVer, IdleJob, Off, Emit, VTypeInv, TypeInv, TypeOK, VTypeOK
<1>2. \A u \in Threads \ {t} : job'[u] = job[u] /\ ver'[u] = ver[u]
  BY DEF Settle, Set, SetVer, VTypeInv, TypeInv, TypeOK, VTypeOK
<1>3. /\ ~After(t, p)'
      /\ \A u \in Threads \ {t} : After(u, p)' <=> After(u, p)
  BY <1>1, <1>2 DEF After, Hooked
<1>4. /\ Versioned(p)' = Versioned(p) /\ RootAt(VPrefix, p)' = RootAt(VPrefix, p)
      /\ InStep(p)' <=> InStep(p)
  BY DEF Versioned, RootAt, InStep
<1>5. \A u \in Threads \ {t} : /\ AnyEmit(ver[u], p)' <=> AnyEmit(ver[u], p)
                               /\ OwnEmit(ver[u], p)' <=> OwnEmit(ver[u], p)
  BY <1>2, <1>4 DEF AnyEmit, OwnEmit, LastIs
<1>6. AnyEmit(ver[t], p)'
  BY <1>1 DEF AnyEmit
<1>7. /\ Nobody(p)' => Nobody(p) \/ After(t, p)
      /\ ~Nobody(p)' => ~Nobody(p)
  BY <1>3 DEF Nobody
<1> QED
  BY <1>1, <1>2, <1>3, <1>4, <1>5, <1>6, <1>7 DEF CapInv

\* A step that only moves the emit of a thread on.
LEMMA CapEmit ==
  ASSUME VTypeInv, NEW p, CapInv(p), NEW t \in Threads, NEW e, SetVer(t, e),
         UNCHANGED <<vars, head, missed>>,
         e.pc \in {"cas", "branch"} => root[VPrefix] # Nil,
         p \notin missed => AnyEmit(e, p) /\ (After(t, p) => OwnEmit(e, p))
  PROVE  CapInv(p)'
<1>1. ver'[t] = e /\ \A u \in Threads \ {t} : ver'[u] = ver[u]
  BY DEF SetVer, VTypeInv, VTypeOK
<1>2. /\ Versioned(p)' = Versioned(p) /\ RootAt(VPrefix, p)' = RootAt(VPrefix, p)
      /\ InStep(p)' <=> InStep(p)
      /\ Nobody(p)' <=> Nobody(p)
      /\ \A u \in Threads : After(u, p)' <=> After(u, p)
  BY DEF Versioned, RootAt, InStep, Nobody, After, vars
<1>3. \A u \in Threads \ {t} : /\ AnyEmit(ver[u], p)' <=> AnyEmit(ver[u], p)
                               /\ OwnEmit(ver[u], p)' <=> OwnEmit(ver[u], p)
  BY <1>1, <1>2 DEF AnyEmit, OwnEmit, LastIs
<1>4. AnyEmit(ver[t], p)' <=> AnyEmit(e, p)
  BY <1>1, <1>2 DEF AnyEmit
<1>5. OwnEmit(ver[t], p)' <=> OwnEmit(e, p)
  BY <1>1, <1>2 DEF OwnEmit, LastIs
<1> QED
  BY <1>1, <1>2, <1>3, <1>4, <1>5 DEF CapInv, vars

\* Every step of the engine's hook.
LEMMA CapVersion ==
  ASSUME VTypeInv, CfgInv(VPrefix), NEW p \in Under[VPrefix] \ Excluded,
         PathInv(VPrefix, p), CapInv(p), NEW t \in Threads, VersionStep(t)
  PROVE  CapInv(p)'
<1> DEFINE e == ver[t]
           r == root[VPrefix]
<1>0. /\ e \in Emits /\ EmitOK(t) /\ head \in Versions /\ Len(head) \in Nat
      /\ VPrefix \in Prefixes
  BY LenProperties, VersionAssumption DEF VTypeInv, VTypeOK, Emits, Versions
<1>00. /\ UNCHANGED <<index, root, cached, lost, writes, restarts, cast>>
       /\ At(t, "tracked")
  BY VersionEffect
<1>01. root[VPrefix] # Nil /\ After(t, p) => RootAt(VPrefix, p) = index[p]
  BY <1>00 DEF CfgInv, PathInv, Passed, At
<1>1. CASE Skip(t)
  <2>1. ~After(t, p)
    BY <1>1 DEF Skip, Matches, After, Hooked
  <2> QED
    BY <1>00, <1>1, <2>1, CapSettle DEF Skip
<1>2. CASE ReadHead(t)
  <2> DEFINE g == Emit("root", head, e.tries)
  <2>1. g.pc = "root" /\ g.head = head
    BY DEF Emit
  <2>2. SetVer(t, g) /\ UNCHANGED <<vars, head, missed>>
    BY <1>2 DEF ReadHead
  <2> HIDE DEF g
  <2>3. AnyEmit(g, p) /\ OwnEmit(g, p)
    BY <2>1 DEF AnyEmit, OwnEmit, LastIs, InStep, Versioned
  <2> QED
    BY <2>1, <2>2, <2>3, CapEmit
<1>3. CASE ReadTrackedRoot(t)
  <2>0. e.pc = "root"
    BY <1>3 DEF ReadTrackedRoot, VAt
  <2>1. CASE Halt(t)
    <3>1. After(t, p) => p \in missed'
      BY <2>1 DEF Halt, After, Hooked
    <3> QED
      BY <1>00, <1>3, <2>1, <3>1, CapSettle DEF ReadTrackedRoot, Halt
  <2>2. CASE /\ r # Nil /\ e.head # <<>> /\ e.head[Len(e.head)] = FilteredRoot(r)
             /\ Settle(t, "complete") /\ UNCHANGED missed
    <3>1. FilteredRoot(r)[p] = RootAt(VPrefix, p)
      BY <2>2 DEF FilteredRoot, RootAt
    <3>2. LastIs(e, p, RootAt(VPrefix, p))
      BY <2>2, <3>1 DEF LastIs
    <3>3. After(t, p) => p \in missed \/ (Versioned(p) = index[p] /\ InStep(p))
      BY <1>01, <2>0, <2>2, <3>2 DEF CapInv, OwnEmit, InStep
    <3> QED
      BY <1>00, <1>3, <2>2, <3>3, CapSettle DEF ReadTrackedRoot
  <2>3. CASE /\ r # Nil
             /\ SetVer(t, [e EXCEPT !.root = FilteredRoot(r), !.pc = "cas"])
             /\ UNCHANGED <<job, missed>>
    <3> DEFINE g == [e EXCEPT !.root = FilteredRoot(r), !.pc = "cas"]
    <3>1. FilteredRoot(r)[p] = RootAt(VPrefix, p)
      BY <2>3 DEF FilteredRoot, RootAt
    <3>2. g.pc = "cas" /\ g.root = FilteredRoot(r)
      BY <1>0 DEF Emits
    <3>3. SetVer(t, g) /\ UNCHANGED <<vars, head, missed>>
      BY <1>00, <1>3, <2>3 DEF ReadTrackedRoot, vars
    <3> HIDE DEF g
    <3>4. AnyEmit(g, p) /\ OwnEmit(g, p)
      BY <3>1, <3>2 DEF AnyEmit, OwnEmit
    <3> QED
      BY <2>3, <3>2, <3>3, <3>4, CapEmit
  <2> QED
    BY <1>3, <2>1, <2>2, <2>3 DEF ReadTrackedRoot
<1>4. CASE HeadHit(t)
  <2> DEFINE g == [e EXCEPT !.pc = "branch"]
  <2>1. /\ e.pc = "cas" /\ e.head = head /\ e.root \in Tries(VPrefix)
        /\ UNCHANGED <<vars, missed>> /\ SetVer(t, g) /\ head' = Append(head, e.root)
    BY <1>0, <1>4 DEF HeadHit, VAt, EmitOK
  <2>2. /\ head' \in Seq(Tries(VPrefix)) /\ Len(head') = Len(head) + 1
        /\ head'[Len(head) + 1] = e.root
    BY <1>0, <2>1, AppendProperties DEF Versions
  <2>3. head' # <<>>
    BY <1>0, <2>2, EmptySeq
  <2>4. Versioned(p)' = e.root[p] /\ RootAt(VPrefix, p)' = RootAt(VPrefix, p)
    BY <2>1, <2>2, <2>3 DEF Versioned, RootAt, vars
  <2>5. g.pc = "branch"
    BY <1>0 DEF Emits
  <2> HIDE DEF g
  <2>6. ver'[t] = g /\ \A u \in Threads \ {t} : ver'[u] = ver[u]
    BY <2>1 DEF SetVer, VTypeInv, VTypeOK
  <2>7. UNCHANGED <<index, root, lost, missed>> /\ root[VPrefix] # Nil
    BY <2>1 DEF vars, CapInv
  <2>8. /\ Nobody(p)' <=> Nobody(p)
        /\ \A u \in Threads : After(u, p)' <=> After(u, p)
    BY <2>1 DEF Nobody, After, vars
  <2> SUFFICES ASSUME p \notin missed
               PROVE  /\ Nobody(p)' => Versioned(p)' = index'[p] /\ InStep(p)'
                      /\ ~Nobody(p)' /\ RootAt(VPrefix, p)' # index'[p] => InStep(p)'
                      /\ \A u \in Threads : AnyEmit(ver[u], p)'
                      /\ \A u \in Threads : After(u, p)' => OwnEmit(ver[u], p)'
    BY <2>5, <2>6, <2>7 DEF CapInv
  <2>9. InStep(p) => InStep(p)'
    BY <2>1, <2>4 DEF CapInv, AnyEmit, InStep
  <2>10. \A u \in Threads : AnyEmit(ver[u], p)'
    <3> SUFFICES ASSUME NEW u \in Threads, u # t, ver[u].pc = "cas" PROVE ver[u].head # head'
      BY <2>5, <2>6 DEF AnyEmit
    <3>1. Len(ver[u].head) <= Len(head)
      BY DEF VTypeInv, EmitOK
    <3> QED
      BY <1>0, <2>2, <3>1
  <2>11. ASSUME NEW u \in Threads, After(u, p)' PROVE OwnEmit(ver[u], p)'
    <3>1. OwnEmit(ver[u], p)
      BY <2>8, <2>11 DEF CapInv
    <3>2. CASE u = t
      BY <2>1, <2>4, <2>5, <2>6, <3>1, <3>2 DEF OwnEmit, InStep
    <3>3. CASE u # t
      BY <2>4, <2>6, <2>9, <3>1, <3>3 DEF OwnEmit, LastIs
    <3> QED BY <3>2, <3>3
  <2>12. Nobody(p) => Versioned(p)' = index'[p] /\ InStep(p)'
    BY <2>4, <2>7, <2>9 DEF CapInv, InStep
  <2>13. ~Nobody(p) /\ RootAt(VPrefix, p) # index[p] => InStep(p)'
    BY <2>9 DEF CapInv
  <2> QED
    BY <2>4, <2>7, <2>8, <2>10, <2>11, <2>12, <2>13
<1>5. CASE HeadMiss(t)
  <2>1. CASE Halt(t)
    <3>1. After(t, p) => p \in missed'
      BY <2>1 DEF Halt, After, Hooked
    <3> QED
      BY <1>00, <1>5, <2>1, <3>1, CapSettle DEF HeadMiss, Halt
  <2>2. CASE SetVer(t, Emit("off", <<>>, e.tries + 1)) /\ UNCHANGED <<job, missed>>
    <3> DEFINE g == Emit("off", <<>>, e.tries + 1)
    <3>1. g.pc = "off"
      BY DEF Emit
    <3>2. SetVer(t, g) /\ UNCHANGED <<vars, head, missed>>
      BY <1>00, <1>5, <2>2 DEF HeadMiss, vars
    <3> HIDE DEF g
    <3>3. AnyEmit(g, p) /\ OwnEmit(g, p)
      BY <3>1 DEF AnyEmit, OwnEmit
    <3> QED
      BY <3>1, <3>2, <3>3, CapEmit
  <2> QED
    BY <1>5, <2>1, <2>2 DEF HeadMiss
<1>6. CASE AdvanceBranch(t)
  <2>1. e.pc = "branch" /\ r # Nil
    BY <1>6 DEF AdvanceBranch, VAt, CapInv
  <2>2. After(t, p) => p \in missed \/ (Versioned(p) = index[p] /\ InStep(p))
    BY <1>01, <2>1 DEF CapInv, OwnEmit, InStep
  <2> QED
    BY <1>00, <1>6, <2>2, CapSettle DEF AdvanceBranch
<1> QED
  BY <1>1, <1>2, <1>3, <1>4, <1>5, <1>6 DEF VersionStep

\* A crash: what no thread was writing is in the version, and in the root built.
LEMMA CapRestart ==
  ASSUME VTypeInv, CfgInv(VPrefix), NEW p \in Under[VPrefix], CapInv(p), VRestart
  PROVE  CapInv(p)'
<1>0. TypeInv /\ VPrefix \in Prefixes /\ Restart /\ p \in Targets
  BY VersionAssumption, TrackerAssumption DEF VTypeInv, VRestart
<1>1. RootAt(VPrefix, p)' = IF Built(VPrefix, cast.configs) THEN index[p] ELSE Nil
  BY <1>0, PathRestart
<1>2. ~Built(VPrefix, cast.configs) => RootAt(VPrefix, p) = Nil
  BY DEF CfgInv, RootAt
<1>3. /\ \A t \in Threads : ver'[t].pc = "off"
      /\ Nobody(p)' /\ Versioned(p)' = Versioned(p)
      /\ index' = index /\ lost' \subseteq lost /\ missed \subseteq missed'
  BY <1>0 DEF VRestart, Restart, Off, Emit, IdleJob, Nobody, After, Hooked, Versioned
<1>4. p \notin missed' => Nobody(p)
  BY <1>0 DEF VRestart, Pending, Nobody, After, Hooked, At
<1>5. p \notin missed' => Versioned(p)' = index'[p] /\ InStep(p)'
  BY <1>1, <1>2, <1>3, <1>4 DEF CapInv, InStep
<1> QED
  BY <1>3, <1>5 DEF CapInv, AnyEmit, Nobody

-----------------------------------------------------------------------------

(* Every path of the versioned prefix.                                      *)

VersionedInv ==
  VersionedAlone(cast) =>
    /\ CfgInv(VPrefix)
    /\ \A p \in Under[VPrefix] \ (Excluded \cup Tagged) : PathInv(VPrefix, p) /\ CapInv(p)

\* It holds at first.
LEMMA VersionedInit == ASSUME VInit PROVE VersionedInv
<1>1. Init /\ TypeInv /\ VPrefix \in Prefixes /\ CfgInv(VPrefix)
  BY TypeInit, CfgInit, VersionAssumption DEF VInit
<1>2. \A p \in Under[VPrefix] : TrieOf(VPrefix) # Nil /\ TrieOf(VPrefix)[p] = index[p]
  BY <1>1, TrackerAssumption DEF TrieOf, TypeInv, TypeOK
<1>3. \A t \in Threads : job[t].pc = "idle"
  BY <1>1 DEF Init, IdleJob
<1>4. ASSUME NEW p \in Under[VPrefix] PROVE PathInv(VPrefix, p)
  BY <1>1, <1>2, <1>3 DEF PathInv, After, Hooked, RootAt, Init
<1> QED
  BY <1>1, <1>4, CapInit DEF VersionedInv, VersionedAlone

\* Every step keeps it.
LEMMA VersionedStep ==
  ASSUME VTypeInv, VTypeInv', VersionedInv, [VNext]_allVars PROVE VersionedInv'
<1> DEFINE Ps == Under[VPrefix] \ (Excluded \cup Tagged)
<1>0. cast' = cast /\ VPrefix \in Prefixes
  BY CastFixed, VersionAssumption
<1> SUFFICES ASSUME VersionedAlone(cast)
             PROVE  CfgInv(VPrefix)' /\ \A p \in Ps : PathInv(VPrefix, p)' /\ CapInv(p)'
  BY <1>0 DEF VersionedInv, VersionedAlone, ConfigsFixed, OneWriter, Writers
<1>1. /\ TypeInv /\ ConfigsFixed(cast, VPrefix) /\ CfgInv(VPrefix)
      /\ \A p \in Ps : OneWriter(cast, p) /\ PathInv(VPrefix, p) /\ CapInv(p)
  BY DEF VersionedInv, VersionedAlone, VTypeInv
<1>2. CASE UNCHANGED allVars
  <2>1. CfgInv(VPrefix)' /\ \A p \in Ps : PathInv(VPrefix, p)'
    BY <1>1, <1>2 DEF allVars, vars, CfgInv, SameFor, PathInv, After, RootAt
  <2>2. ASSUME NEW p \in Ps PROVE CapInv(p)'
    <3>1. UNCHANGED <<index, root, lost, job, head, ver, missed>>
      BY <1>2 DEF allVars, vars, versionVars
    <3> QED
      BY <1>1, <3>1 DEF CapInv, Nobody, After, RootAt, Versioned, InStep, AnyEmit, OwnEmit,
         LastIs
  <2> QED BY <2>1, <2>2
<1>3. ASSUME NEW t \in Threads, Track(t)
      PROVE  CfgInv(VPrefix)' /\ \A p \in Ps : PathInv(VPrefix, p)' /\ CapInv(p)'
  <2>1. CfgInv(VPrefix)'
    BY <1>0, <1>1, <1>3, CfgTracker DEF Track
  <2>2. ASSUME NEW p \in Ps PROVE PathInv(VPrefix, p)' /\ Effect(t, VPrefix, p)
    BY <1>0, <1>1, <1>3, PathTracker DEF Track
  <2> QED
    BY <1>1, <1>3, <2>1, <2>2, CapTrack
<1>4. ASSUME NEW t \in Threads, VersionStep(t)
      PROVE  CfgInv(VPrefix)' /\ \A p \in Ps : PathInv(VPrefix, p)' /\ CapInv(p)'
  BY <1>0, <1>1, <1>4, CfgVersion, PathVersion, CapVersion
<1>5. CASE VRestart
  BY <1>0, <1>1, <1>5, CfgRestart, PathRestart, CapRestart DEF VRestart
<1> QED
  BY <1>2, <1>3, <1>4, <1>5 DEF VNext

\* No write of a burst ends up in no version: in a scenario that leaves the
\* versioned prefix alone, whatever the interleaving of the cascades, a binding is
\* in the version the head names as soon as its write returned complete.
THEOREM EveryWriteVersioned == VSpec => [](VersionedAlone(cast) => Captured)
<1>1. VInit => VTypeInv /\ VersionedInv
  BY VTypeInit, VersionedInit
<1>2. VTypeInv /\ VersionedInv /\ [VNext]_allVars => VTypeInv' /\ VersionedInv'
  BY VTypeStep, VersionedStep
<1>3. VTypeInv /\ VersionedInv => (VersionedAlone(cast) => Captured)
  <2>1. \A p, t : After(t, p) => ~At(t, "idle") /\ job[t].target = p
    BY DEF After, Hooked, At
  <2> QED
    BY <2>1 DEF VersionedInv, CapInv, Nobody, Captured, Pending
<1> QED
  BY <1>1, <1>2, <1>3, PTL DEF VSpec

-----------------------------------------------------------------------------
(* Updates of a root whose configs are left alone.                          *)

FixedInv == \A x \in Prefixes : ConfigsFixed(cast, x) => CfgInv(x)

\* What is tracked where nobody reconfigures stays as it is.
LEMMA FixedStep == ASSUME VTypeInv, FixedInv, [VNext]_allVars PROVE FixedInv'
<1>0. cast' = cast
  BY CastFixed
<1> SUFFICES ASSUME NEW x \in Prefixes, ConfigsFixed(cast, x) PROVE CfgInv(x)'
  BY <1>0 DEF FixedInv, ConfigsFixed, Writers
<1>1. TypeInv /\ CfgInv(x)
  BY DEF FixedInv, VTypeInv
<1>2. CASE UNCHANGED allVars
  BY <1>1, <1>2 DEF allVars, vars, CfgInv, SameFor
<1>3. ASSUME NEW t \in Threads, Track(t) PROVE CfgInv(x)'
  BY <1>1, <1>3, CfgTracker DEF Track
<1>4. ASSUME NEW t \in Threads, VersionStep(t) PROVE CfgInv(x)'
  BY <1>1, <1>4, CfgVersion
<1>5. CASE VRestart
  BY <1>1, <1>5, CfgRestart DEF VRestart
<1> QED
  BY <1>2, <1>3, <1>4, <1>5 DEF VNext

\* There only the CAS of apply_event moves a root, and it moves it at the path of
\* its own event.
LEMMA CasMovesOnePath ==
  ASSUME TypeInv, NEW x \in Prefixes, CfgInv(x), NEW t \in Threads, TrackerStep(t)
  PROVE  OnePathMoves(x)
<1> USE TrackerAssumption
<1> DEFINE j == job[t]
<1>0. j \in Jobs /\ JobOK(t, j)
  BY DEF TypeInv, TypeOK
<1>1. CASE CasHit(t)
  <2> DEFINE y == j.cfgs[j.k].prefix
  <2>1. root' = [root EXCEPT ![y] = Applied(j, root[y])]
    BY <1>1 DEF CasHit
  <2>2. CASE y # x
    BY <2>1, <2>2 DEF OnePathMoves, TypeInv, Shapes
  <2>3. CASE y = x
    <3>1. root'[x] = TriePut(x, root[x], j.target, j.new)
      BY <2>1, <2>3 DEF Applied, TypeInv, Shapes
    <3> QED
      BY <3>1 DEF TriePut, OnePathMoves
  <2> QED BY <2>2, <2>3
<1>2. CASE Clear(t) \/ Rebuild(t)
  <2>1. /\ j.pc \in {"clear", "rebuild"} /\ ~Names(j.new, x) /\ ~Names(j.prev, x)
        /\ (j.pc = "rebuild" => j.new # Nil)
    BY <1>0, <1>2 DEF Clear, Rebuild, At, JobOK, CfgInv, Elsewhere
  <2>2. root'[x] = root[x]
    BY <1>2, <2>1 DEF Clear, Clears, Rebuild, At, Names, TypeInv, Shapes
  <2> QED
    BY <2>2 DEF OnePathMoves
<1>3. CASE root' = root
  BY <1>3 DEF OnePathMoves
<1> QED
  BY <1>1, <1>2, <1>3 DEF TrackerStep, Begin, ReadPrevious, Write, ReadConfigs, SkipConfig,
     ReadRoot, LastConfig, CasMiss, List, Load, Refresh

\* While nobody reconfigures anything, no cascade undoes in a root what another one
\* put there, with any number of writers of any paths.
THEOREM NoUpdateLost ==
  VSpec /\ [](\A x \in Prefixes : ConfigsFixed(cast, x)) => NoLostUpdate
<1>1. VInit => VTypeInv /\ FixedInv
  BY VTypeInit, CfgInit DEF VInit, FixedInv
<1>2. VTypeInv /\ FixedInv /\ [VNext]_allVars => VTypeInv' /\ FixedInv'
  BY VTypeStep, FixedStep
<1>3. ASSUME VTypeInv, FixedInv, \A x \in Prefixes : ConfigsFixed(cast, x), [VNext]_allVars
      PROVE  [restarts' = restarts => \A x \in Prefixes : OnePathMoves(x)]_vars
  <2>1. CASE UNCHANGED allVars
    BY <2>1 DEF allVars
  <2>2. ASSUME NEW t \in Threads, Track(t), NEW x \in Prefixes PROVE OnePathMoves(x)
    BY <1>3, <2>2, CasMovesOnePath DEF Track, VTypeInv, FixedInv
  <2>3. ASSUME NEW t \in Threads, VersionStep(t), NEW x \in Prefixes PROVE OnePathMoves(x)
    BY <1>3, <2>3, VersionEffect DEF OnePathMoves
  <2>4. VRestart => restarts' # restarts
    BY <1>3 DEF VRestart, Restart, VTypeInv, TypeInv, TypeOK
  <2> QED
    BY <1>3, <2>1, <2>2, <2>3, <2>4 DEF VNext
<1>4. VTypeInv /\ FixedInv /\ (\A x \in Prefixes : ConfigsFixed(cast, x)) /\ [VNext]_allVars
        => [restarts' = restarts => \A x \in Prefixes : OnePathMoves(x)]_vars
  BY <1>3
<1> QED
  BY <1>1, <1>2, <1>4, PTL DEF VSpec, NoLostUpdate

-----------------------------------------------------------------------------
(* A prefix whose configs and paths one thread writes.                      *)

\* The write of a config entry is in the index, and the tracker reacts to it.
Updating == {"clear", "list", "rebuild", "load", "refresh"}

\* What the write j in progress knows of the config entries en.
MoveOK(en, x, j) ==
  /\ j.pc = "write" /\ j.target \in ConfigIds /\ j.new # Nil => j.prev = en[j.target]
  /\ j.pc \in Updating => en[j.target] = j.new
  /\ j.pc \in {"list", "rebuild"} => IsOn(j.new)
  /\ j.pc = "refresh" => j.cfgs = en
  /\ j.pc \in {"root", "cas"} /\ j.target \in Under[x] => j.cfgs = en

\* The writer is about to clear the root of x.
Clearing(j, x) == j.pc = "clear" /\ Clears(j.prev, j.new) /\ j.prev.prefix = x

ClearInv(x) ==
  /\ \A t \in Threads : MoveOK(Entries, x, job[t])
  /\ (\A t \in Threads : job[t].pc \notin Updating) => cached = Entries
  /\ ClearedAt(x) \/ \E t \in Threads : Clearing(job[t], x)

\* Nothing is in progress, and bootstrap built the enabled prefixes alone.
LEMMA ClearInit == ASSUME Init, NEW x \in Prefixes PROVE ClearInv(x)
<1> USE TrackerAssumption
<1>1. cast.configs \in [ConfigIds -> Configs \cup {Nil}] /\ cast \in Casts
  BY DEF Init
<1>2. Entries = cast.configs /\ cached = cast.configs
  BY <1>1 DEF Init, Entries, Targets
<1>3. ClearedAt(x)
  BY <1>2 DEF Init, ClearedAt, Enabled
<1>4. \A t \in Threads : job[t].pc = "idle"
  BY DEF Init, IdleJob
<1> QED
  BY <1>2, <1>3, <1>4 DEF ClearInv, MoveOK, Updating

\* A thread that works on a config entry or on a path of x does so alone ...
LEMMA Sole ==
  ASSUME TypeInv, NEW x \in Prefixes, ConfiguredAlone(cast, x), NEW t \in Threads,
         ~At(t, "idle"), job[t].target \in ConfigIds \cup (Under[x] \ Tagged),
         NEW u \in Threads \ {t}, job[u].pc # "idle"
  PROVE  job[u].target \notin ConfigIds \cup (Under[x] \ Tagged)
<1>1. JobOK(t, job[t]) /\ JobOK(u, job[u])
  BY DEF TypeInv, TypeOK
<1>2. t \in Writers(cast, job[t].target) /\ u \in Writers(cast, job[u].target)
  BY <1>1 DEF JobOK, Writers, At
<1> QED BY <1>2 DEF ConfiguredAlone

\* ... and what the others have in progress says nothing of the entries.
LEMMA OthersElsewhere ==
  ASSUME TypeInv, NEW x \in Prefixes, ConfiguredAlone(cast, x), NEW t \in Threads,
         ~At(t, "idle"), job[t].target \in ConfigIds \cup (Under[x] \ Tagged),
         NEW u \in Threads \ {t}
  PROVE  job[u].pc \notin Updating /\ \A en : MoveOK(en, x, job[u])
<1>1. JobOK(u, job[u]) /\ job[u] \in Jobs
  BY DEF TypeInv, TypeOK
<1>2. job[u].pc # "idle" => job[u].target \notin ConfigIds \cup (Under[x] \ Tagged)
  BY Sole
<1>3. job[u].pc \notin Updating
  BY <1>1, <1>2 DEF JobOK, Updating
<1> QED
  BY <1>1, <1>2, <1>3 DEF JobOK, MoveOK, Updating

\* A step that changes neither entries nor cache, and does not leave the clearing of
\* a root behind.
LEMMA ClearKeep ==
  ASSUME TypeInv, NEW x \in Prefixes, ClearInv(x), NEW t \in Threads, NEW g, Set(t, g),
         Entries' = Entries, cached' = cached, MoveOK(Entries, x, g),
         g.pc \notin Updating => job[t].pc \notin Updating, job[t].pc # "clear",
         ClearedAt(x) => ClearedAt(x)'
  PROVE  ClearInv(x)'
<1>1. \A u \in Threads : job'[u] = IF u = t THEN g ELSE job[u]
  BY DEF Set, TypeInv, TypeOK
<1>2. \A u \in Threads : MoveOK(Entries', x, job'[u])
  BY <1>1 DEF ClearInv
<1>3. (\A u \in Threads : job'[u].pc \notin Updating) => cached' = Entries'
  BY <1>1 DEF ClearInv
<1>4. ClearedAt(x)' \/ \E u \in Threads : Clearing(job'[u], x)
  BY <1>1 DEF ClearInv, Clearing
<1> QED
  BY <1>2, <1>3, <1>4 DEF ClearInv

\* Root and refusals of x stay what they are, or there are more refusals.
LEMMA ClearedStays ==
  ASSUME NEW x, Entries' = Entries, root'[x] = root[x], lost \subseteq lost', ClearedAt(x)
  PROVE  ClearedAt(x)'
<1>1. Enabled(x)' <=> Enabled(x)
  BY DEF Enabled
<1> QED
  BY <1>1 DEF ClearedAt

\* The mutation.  Only a config entry's can take the last config from x, and then
\* its writer is about to clear the root.
LEMMA ClearWrite ==
  ASSUME TypeInv, NEW x \in Prefixes, ConfiguredAlone(cast, x), ClearInv(x),
         NEW t \in Threads, Write(t)
  PROVE  ClearInv(x)'
<1> USE TrackerAssumption
<1> DEFINE j == job[t]
           w == [j EXCEPT !.prev = IF j.new = Nil THEN index[j.target] ELSE @]
           g == IF w.prev = w.new THEN IdleJob("noop")
                ELSE [w EXCEPT !.pc = Branch(w.target)]
<1>1. j \in Jobs /\ JobOK(t, j) /\ j.pc = "write" /\ MoveOK(Entries, x, j)
  BY DEF TypeInv, TypeOK, Write, At, ClearInv
<1>2. j.target \in Targets /\ j.new \in Values
  BY <1>1 DEF JobOK, Jobs
<1>3. /\ w.target = j.target /\ w.new = j.new
      /\ w.prev = IF j.new = Nil THEN index[j.target] ELSE j.prev
  BY <1>1 DEF Jobs
<1>4. /\ Set(t, g) /\ index' = [index EXCEPT ![j.target] = j.new]
      /\ UNCHANGED <<root, cached, lost>>
  BY <1>3 DEF Write
<1>5. j.target \in ConfigIds => w.prev = Entries[j.target]
  BY <1>1, <1>3 DEF MoveOK, Entries
<1>6. \A c \in Targets : index'[c] = IF c = j.target THEN j.new ELSE index[c]
  BY <1>2, <1>4 DEF TypeInv, TypeOK
<1>7. w.prev # w.new =>
        /\ g.pc = Branch(j.target) /\ g.target = j.target /\ g.new = j.new
        /\ g.prev = w.prev
  BY <1>1, <1>3 DEF Jobs
<1>8. CASE w.prev = w.new \/ j.target \notin ConfigIds
  <2>1. Entries' = Entries
    BY <1>3, <1>5, <1>6, <1>8 DEF Entries, Targets
  <2>2. g.pc \in {"idle", "tracked", "configs"}
    BY <1>7, <1>8 DEF IdleJob, Branch
  <2>3. MoveOK(Entries, x, g) /\ g.pc \notin Updating
    BY <2>2 DEF MoveOK, Updating
  <2>4. ClearedAt(x) => ClearedAt(x)'
    BY <1>4, <2>1, ClearedStays
  <2> HIDE DEF g
  <2> QED
    BY <1>1, <1>4, <2>1, <2>3, <2>4, ClearKeep DEF Updating
<1>9. CASE w.prev # w.new /\ j.target \in ConfigIds
  <2> DEFINE c == j.target
  <2>1. /\ g.pc = "clear" /\ g.target = c /\ g.new = j.new /\ g.prev = Entries[c]
    BY <1>5, <1>7, <1>9 DEF Branch
  <2>2. \A d \in ConfigIds : Entries'[d] = IF d = c THEN j.new ELSE Entries[d]
    BY <1>6 DEF Entries, Targets
  <2>3. /\ Entries[c] \in Configs \cup {Nil} /\ j.new \in Configs \cup {Nil}
    BY <1>1, <1>9 DEF TypeInv, Shapes, Entries, JobOK
  <2> HIDE DEF g, w
  <2>4. \A u \in Threads : job'[u] = IF u = t THEN g ELSE job[u]
    BY <1>4 DEF Set, TypeInv, TypeOK
  <2>5. \A u \in Threads \ {t} : job[u].pc \notin Updating /\ \A en : MoveOK(en, x, job[u])
    BY <1>1, <1>9, OthersElsewhere DEF At
  <2>6. \A u \in Threads : MoveOK(Entries', x, job'[u])
    <3>1. MoveOK(Entries', x, g)
      BY <1>9, <2>1, <2>2 DEF MoveOK
    <3> QED BY <2>4, <2>5, <3>1
  <2>7. ~(\A u \in Threads : job'[u].pc \notin Updating)
    BY <2>1, <2>4 DEF Updating
  <2>8. ClearedAt(x)
    BY <1>1, <2>5 DEF ClearInv, Clearing, Updating
  <2>9. ClearedAt(x)' \/ Clearing(g, x)
    <3> SUFFICES ASSUME ~ClearedAt(x)' PROVE Clearing(g, x)
      OBVIOUS
    <3>1. ~Built(x, Entries') /\ Built(x, Entries)
      BY <1>4, <2>8 DEF ClearedAt, Enabled
    <3>2. PICK d \in ConfigIds : IsOn(Entries[d]) /\ Entries[d].prefix = x
      BY <3>1 DEF Built
    <3>3. d = c
      BY <2>2, <3>1, <3>2 DEF Built
    <3>4. ~(IsOn(j.new) /\ j.new.prefix = x)
      BY <1>9, <2>2, <3>1 DEF Built
    <3> QED
      BY <2>1, <2>3, <3>2, <3>3, <3>4 DEF Clearing, Clears, IsOn, Configs
  <2> QED
    BY <2>4, <2>6, <2>7, <2>9 DEF ClearInv
<1> QED
  BY <1>8, <1>9

\* The reaction to a config entry: clear the old prefix, or refresh the cache.
LEMMA ClearConfig ==
  ASSUME TypeInv, NEW x \in Prefixes, ConfiguredAlone(cast, x), ClearInv(x),
         NEW t \in Threads, Clear(t) \/ Refresh(t)
  PROVE  ClearInv(x)'
<1> USE TrackerAssumption
<1> DEFINE j == job[t]
           r == IF Rebuilds(j.prev, j.new) THEN "list" ELSE "load"
           g == [j EXCEPT !.pc = IF j.pc = "refresh" THEN "tracked" ELSE r]
<1>1. /\ j \in Jobs /\ JobOK(t, j) /\ j.pc \in {"clear", "refresh"} /\ MoveOK(Entries, x, j)
      /\ j.target \in ConfigIds
  BY DEF TypeInv, TypeOK, Clear, Refresh, At, ClearInv, JobOK
<1>2. /\ Set(t, g) /\ UNCHANGED index
      /\ cached' = IF j.pc = "refresh" THEN j.cfgs ELSE cached
  BY DEF Clear, Refresh, At
<1>3. /\ g.pc = IF j.pc = "refresh" THEN "tracked" ELSE r
      /\ g.target = j.target /\ g.new = j.new
  BY <1>1 DEF Jobs
<1>4. Entries' = Entries
  BY <1>2 DEF Entries
<1>5. \A u \in Threads \ {t} : job[u].pc \notin Updating /\ \A en : MoveOK(en, x, job[u])
  BY <1>1, OthersElsewhere DEF At
<1>6. MoveOK(Entries, x, g)
  BY <1>1, <1>3 DEF MoveOK, Updating, Rebuilds
<1>7. ClearedAt(x)'
  <2>1. ClearedAt(x) \/ Clearing(j, x)
    BY <1>5 DEF ClearInv, Clearing, Updating
  <2>2. CASE Refresh(t)
    <3>1. ClearedAt(x) /\ UNCHANGED <<root, lost>>
      BY <2>1, <2>2 DEF Refresh, At, Clearing
    <3> QED BY <1>4, <3>1, ClearedStays
  <2>3. CASE Clear(t) /\ Clears(j.prev, j.new) /\ j.prev.prefix = x
    <3>1. root'[x] = Nil \/ <<x, Nil>> \in lost'
      BY <2>3 DEF Clear, TypeInv, Shapes
    <3> QED BY <3>1 DEF ClearedAt
  <2>4. CASE Clear(t) /\ ~(Clears(j.prev, j.new) /\ j.prev.prefix = x)
    <3>1. /\ ClearedAt(x) /\ root'[x] = root[x]
          /\ <<x, Nil>> \in lost => <<x, Nil>> \in lost'
      BY <2>1, <2>4 DEF Clear, Clearing, TypeInv, Shapes
    <3> QED BY <1>4, <3>1 DEF ClearedAt, Enabled
  <2> QED BY <2>2, <2>3, <2>4
<1> HIDE DEF g
<1>8. \A u \in Threads : job'[u] = IF u = t THEN g ELSE job[u]
  BY <1>2 DEF Set, TypeInv, TypeOK
<1>9. \A u \in Threads : MoveOK(Entries', x, job'[u])
  BY <1>4, <1>5, <1>6, <1>8
<1>10. (\A u \in Threads : job'[u].pc \notin Updating) => cached' = Entries'
  <2>1. j.pc = "refresh" => cached' = Entries
    BY <1>1, <1>2 DEF MoveOK
  <2>2. j.pc = "clear" => g.pc \in Updating
    BY <1>3 DEF Updating
  <2> QED BY <1>1, <1>4, <1>8, <2>1, <2>2
<1> QED
  BY <1>7, <1>9, <1>10 DEF ClearInv

\* Every step of a writer and its hook.
LEMMA ClearTracker ==
  ASSUME TypeInv, NEW x \in Prefixes, ConfiguredAlone(cast, x), ClearInv(x),
         NEW t \in Threads, TrackerStep(t)
  PROVE  ClearInv(x)'
<1> USE TrackerAssumption
<1> DEFINE j == job[t]
<1>0. j \in Jobs /\ JobOK(t, j) /\ MoveOK(Entries, x, j)
  BY DEF TypeInv, TypeOK, ClearInv
<1>00. UNCHANGED index => Entries' = Entries
  BY DEF Entries
<1>1. CASE Begin(t)
  <2>1. PICK p \in Scope[t] : \E v \in Choices[p] \cup {Nil} : Set(t, Job(p, v))
    BY <1>1 DEF Begin
  <2>2. PICK v \in Choices[p] \cup {Nil} : Set(t, Job(p, v))
    BY <2>1
  <2>3. Job(p, v).pc = (IF v = Nil THEN "write" ELSE "read") /\ Job(p, v).new = v
    BY DEF Job, IdleJob
  <2>4. MoveOK(Entries, x, Job(p, v))
    BY <2>3 DEF MoveOK, Updating
  <2>5. Entries' = Entries /\ UNCHANGED <<cached, root, lost>> /\ j.pc = "idle"
    BY <1>00, <1>1 DEF Begin, At
  <2> QED
    BY <2>2, <2>4, <2>5, ClearKeep, ClearedStays DEF Updating
<1>2. CASE ReadPrevious(t)
  <2> DEFINE g == [j EXCEPT !.prev = index[j.target], !.pc = "write"]
  <2>1. g.pc = "write" /\ g.target = j.target /\ g.prev = index[j.target]
    BY <1>0 DEF Jobs
  <2>2. /\ Set(t, g) /\ Entries' = Entries /\ UNCHANGED <<cached, root, lost>>
        /\ j.pc = "read"
    BY <1>00, <1>2 DEF ReadPrevious, At
  <2> HIDE DEF g
  <2>3. MoveOK(Entries, x, g)
    BY <2>1 DEF MoveOK, Updating, Entries
  <2> QED
    BY <2>2, <2>3, ClearKeep, ClearedStays DEF Updating
<1>3. CASE Write(t)
  BY <1>3, ClearWrite
<1>4. CASE ReadConfigs(t)
  <2> DEFINE g == [j EXCEPT !.cfgs = cached, !.pc = "root"]
  <2>1. g.pc = "root" /\ g.target = j.target /\ g.cfgs = cached
    BY <1>0 DEF Jobs
  <2>2. /\ Set(t, g) /\ Entries' = Entries /\ UNCHANGED <<cached, root, lost>>
        /\ j.pc = "configs" /\ j.target \in Paths \ Tagged
    BY <1>0, <1>00, <1>4 DEF ReadConfigs, At, JobOK
  <2> HIDE DEF g
  <2>3. j.target \in Under[x] => cached = Entries
    <3> SUFFICES ASSUME j.target \in Under[x] PROVE cached = Entries
      OBVIOUS
    <3>1. \A u \in Threads \ {t} : job[u].pc \notin Updating
      BY <2>2, OthersElsewhere DEF At
    <3> QED BY <2>2, <3>1 DEF ClearInv, Updating
  <2>4. MoveOK(Entries, x, g)
    BY <2>1, <2>3 DEF MoveOK, Updating
  <2> QED
    BY <2>2, <2>4, ClearKeep, ClearedStays DEF Updating
<1>5. ASSUME NEW g, Set(t, g), j.pc \in {"root", "cas"}, UNCHANGED <<index, cached>>,
             \/ g.pc \in {"root", "cas"} /\ g.target = j.target /\ g.cfgs = j.cfgs
             \/ g.pc \in {"tracked", "idle"},
             ClearedAt(x) => ClearedAt(x)'
      PROVE  ClearInv(x)'
  <2>1. MoveOK(Entries, x, g)
    BY <1>0, <1>5 DEF MoveOK, Updating
  <2> QED
    BY <1>00, <1>5, <2>1, ClearKeep DEF Updating
<1>6. /\ NextConfig(j).pc = "root" /\ NextConfig(j).target = j.target
      /\ NextConfig(j).cfgs = j.cfgs
  BY <1>0 DEF NextConfig, Jobs
<1>7. CASE SkipConfig(t)
  BY <1>00, <1>5, <1>6, <1>7, ClearedStays DEF SkipConfig, At
<1>8. CASE ReadRoot(t)
  <2> DEFINE g == [j EXCEPT !.cur = root[j.cfgs[j.k].prefix], !.pc = "cas"]
  <2>1. g.pc = "cas" /\ g.target = j.target /\ g.cfgs = j.cfgs
    BY <1>0 DEF Jobs
  <2>2. (Set(t, g) \/ Set(t, NextConfig(j))) /\ UNCHANGED <<index, root, cached, lost>>
    BY <1>8 DEF ReadRoot
  <2> HIDE DEF g
  <2> QED
    BY <1>00, <1>5, <1>6, <1>8, <2>1, <2>2, ClearedStays DEF ReadRoot, At
<1>9. CASE LastConfig(t)
  <2> DEFINE g == [j EXCEPT !.pc = "tracked"]
  <2>1. g.pc = "tracked" /\ Set(t, g)
    BY <1>0, <1>9 DEF LastConfig, Jobs
  <2> HIDE DEF g
  <2> QED
    BY <1>00, <1>5, <1>9, <2>1, ClearedStays DEF LastConfig, At
<1>10. CASE CasHit(t)
  <2> DEFINE y == j.cfgs[j.k].prefix
  <2>1. /\ j.pc = "cas" /\ j.k \in ConfigIds /\ IsOn(j.cfgs[j.k]) /\ j.target \in Under[y]
    BY <1>0, <1>10 DEF CasHit, At, JobOK, Jobs, Applies, ConfigIds
  <2>2. y = x => Built(x, Entries)
    BY <1>0, <2>1 DEF MoveOK, Built
  <2>3. /\ y # x => root'[x] = root[x]
        /\ y # x /\ <<x, Nil>> \in lost => <<x, Nil>> \in lost'
    BY <1>10 DEF CasHit, TypeInv, Shapes
  <2>4. Entries' = Entries /\ UNCHANGED <<index, cached>> /\ Set(t, NextConfig(j))
    BY <1>00, <1>10 DEF CasHit
  <2>5. ClearedAt(x) => ClearedAt(x)'
    BY <2>2, <2>3, <2>4 DEF ClearedAt, Enabled
  <2> QED
    BY <1>5, <1>6, <2>1, <2>4, <2>5
<1>11. CASE CasMiss(t)
  <2> DEFINE g == [j EXCEPT !.tries = @ + 1, !.cur = Nil, !.pc = "root"]
  <2>1. /\ g.pc = "root" /\ g.target = j.target /\ g.cfgs = j.cfgs
        /\ IdleJob("halted").pc = "idle"
    BY <1>0 DEF Jobs, IdleJob
  <2>2. /\ Set(t, g) \/ Set(t, IdleJob("halted"))
        /\ UNCHANGED <<index, root, cached>> /\ lost \subseteq lost' /\ j.pc = "cas"
    BY <1>11 DEF CasMiss, At
  <2> HIDE DEF g
  <2> QED
    BY <1>00, <1>5, <2>1, <2>2, ClearedStays
<1>12. CASE Clear(t) \/ Refresh(t)
  BY <1>12, ClearConfig
<1>13. CASE List(t)
  <2> DEFINE g == [j EXCEPT !.cur = TrieOf(j.new.prefix), !.pc = "rebuild"]
  <2>1. /\ g.pc = "rebuild" /\ g.target = j.target /\ g.new = j.new
    BY <1>0 DEF Jobs
  <2>2. /\ Set(t, g) /\ Entries' = Entries /\ UNCHANGED <<cached, root, lost>>
        /\ j.pc = "list"
    BY <1>00, <1>13 DEF List, At
  <2> HIDE DEF g
  <2>3. MoveOK(Entries, x, g)
    BY <1>0, <2>1, <2>2 DEF MoveOK, Updating
  <2> QED
    BY <2>1, <2>2, <2>3, ClearKeep, ClearedStays DEF Updating
<1>14. CASE Rebuild(t)
  <2> DEFINE g == [j EXCEPT !.pc = "load"]
  <2>1. /\ g.pc = "load" /\ g.target = j.target /\ g.new = j.new
    BY <1>0 DEF Jobs
  <2>2. /\ Set(t, g) /\ Entries' = Entries /\ UNCHANGED cached /\ j.pc = "rebuild"
        /\ j.target \in ConfigIds
    BY <1>0, <1>00, <1>14 DEF Rebuild, At, JobOK
  <2> HIDE DEF g
  <2>3. MoveOK(Entries, x, g)
    BY <1>0, <2>1, <2>2 DEF MoveOK, Updating
  <2>4. j.new.prefix = x => Built(x, Entries)
    BY <1>0, <2>2 DEF MoveOK, Updating, Built
  <2>5. /\ j.new.prefix # x => root'[x] = root[x]
        /\ j.new.prefix # x /\ <<x, Nil>> \in lost => <<x, Nil>> \in lost'
    BY <1>14 DEF Rebuild, TypeInv, Shapes
  <2>6. ClearedAt(x) => ClearedAt(x)'
    BY <2>2, <2>4, <2>5 DEF ClearedAt, Enabled
  <2> QED
    BY <2>1, <2>2, <2>3, <2>6, ClearKeep DEF Updating
<1>15. CASE Load(t)
  <2> DEFINE g == [j EXCEPT !.cfgs = Entries, !.pc = "refresh"]
  <2>1. /\ g.pc = "refresh" /\ g.target = j.target /\ g.new = j.new /\ g.cfgs = Entries
    BY <1>0 DEF Jobs
  <2>2. /\ Set(t, g) /\ Entries' = Entries /\ UNCHANGED <<cached, root, lost>>
        /\ j.pc = "load"
    BY <1>00, <1>15 DEF Load, At
  <2> HIDE DEF g
  <2>3. MoveOK(Entries, x, g)
    BY <1>0, <2>1, <2>2 DEF MoveOK, Updating
  <2> QED
    BY <2>1, <2>2, <2>3, ClearKeep, ClearedStays DEF Updating
<1> QED
  BY <1>1, <1>2, <1>3, <1>4, <1>7, <1>8, <1>9, <1>10, <1>11, <1>12, <1>13, <1>14, <1>15
  DEF TrackerStep

\* The engine touches neither configs nor roots.
LEMMA ClearVersion ==
  ASSUME VTypeInv, NEW x \in Prefixes, ClearInv(x), NEW t \in Threads, VersionStep(t)
  PROVE  ClearInv(x)'
<1>1. UNCHANGED <<index, root, cached, lost, cast>> /\ job[t].pc = "tracked"
  BY DEF VersionStep, Skip, ReadHead, ReadTrackedRoot, HeadHit, HeadMiss, AdvanceBranch, vars,
     VAt, At
<1>2. UNCHANGED job \/ \E out : Set(t, IdleJob(out))
  BY DEF VersionStep, Skip, ReadHead, ReadTrackedRoot, HeadHit, HeadMiss, AdvanceBranch, vars,
     Halt, Settle
<1>3. Entries' = Entries
  BY <1>1 DEF Entries
<1>4. ClearedAt(x) => ClearedAt(x)'
  BY <1>1, <1>3, ClearedStays
<1>5. CASE UNCHANGED job
  BY <1>1, <1>3, <1>4, <1>5 DEF ClearInv
<1>6. ASSUME NEW out, Set(t, IdleJob(out)) PROVE ClearInv(x)'
  <2>1. IdleJob(out).pc = "idle"
    BY DEF IdleJob
  <2>2. MoveOK(Entries, x, IdleJob(out))
    BY <2>1 DEF MoveOK, Updating
  <2> QED
    BY <1>1, <1>3, <1>4, <1>6, <2>1, <2>2, ClearKeep DEF Updating, VTypeInv
<1> QED
  BY <1>2, <1>5, <1>6

ReconfiguredInv == \A x \in Prefixes : ConfiguredAlone(cast, x) => ClearInv(x)

LEMMA ReconfiguredStep ==
  ASSUME VTypeInv, ReconfiguredInv, [VNext]_allVars PROVE ReconfiguredInv'
<1>0. cast' = cast
  BY CastFixed
<1> SUFFICES ASSUME NEW x \in Prefixes, ConfiguredAlone(cast, x) PROVE ClearInv(x)'
  BY <1>0 DEF ReconfiguredInv, ConfiguredAlone, Writers
<1>1. TypeInv /\ ClearInv(x)
  BY DEF ReconfiguredInv, VTypeInv
<1>2. CASE UNCHANGED allVars
  BY <1>1, <1>2 DEF allVars, vars, ClearInv, ClearedAt, Enabled, Entries
<1>3. ASSUME NEW t \in Threads, Track(t) PROVE ClearInv(x)'
  BY <1>1, <1>3, ClearTracker DEF Track
<1>4. ASSUME NEW t \in Threads, VersionStep(t) PROVE ClearInv(x)'
  BY <1>1, <1>4, ClearVersion
<1>5. ~VRestart
  BY <1>1, TrackerAssumption DEF VRestart, Restart, ConfiguredAlone, TypeInv, TypeOK
<1> QED
  BY <1>2, <1>3, <1>4, <1>5 DEF VNext

\* Once the cascades are over, no root is left of a prefix that is not tracked, if
\* each prefix is left alone, or if one thread writes the configs and the paths of it
\* and the peer does not stop.  Creating, disabling, moving and removing entries in
\* any order clears what it must, up to what the index refuses.
THEOREM NoRootWithoutConfig ==
  VSpec => []((\A x \in Prefixes : ConfigsFixed(cast, x) \/ ConfiguredAlone(cast, x))
                => DisabledCleared)
<1> DEFINE Inv == VTypeInv /\ FixedInv /\ ReconfiguredInv
<1>1. VInit => Inv
  BY VTypeInit, CfgInit, ClearInit DEF VInit, FixedInv, ReconfiguredInv
<1>2. Inv /\ [VNext]_allVars => Inv'
  BY VTypeStep, FixedStep, ReconfiguredStep
<1>3. Inv => ((\A x \in Prefixes : ConfigsFixed(cast, x) \/ ConfiguredAlone(cast, x))
                => DisabledCleared)
  <2> SUFFICES ASSUME Inv, Quiet, NEW x \in Prefixes,
                      ConfigsFixed(cast, x) \/ ConfiguredAlone(cast, x)
               PROVE  ClearedAt(x)
    BY DEF DisabledCleared
  <2>1. CASE ConfigsFixed(cast, x)
    <3>1. SameFor(x, index) /\ (root[x] # Nil <=> Built(x, cast.configs))
      BY <2>1 DEF FixedInv, CfgInv
    <3>2. Built(x, cast.configs) => Built(x, Entries)
      BY <3>1 DEF SameFor, Built, Names, IsOn, Entries
    <3> QED BY <3>1, <3>2 DEF ClearedAt, Enabled
  <2>2. CASE ConfiguredAlone(cast, x)
    BY <2>2 DEF ReconfiguredInv, ClearInv, Clearing, Quiet, At
  <2> QED BY <2>1, <2>2
<1> QED
  BY <1>1, <1>2, <1>3, PTL DEF VSpec

-----------------------------------------------------------------------------
(* The root of such a prefix, while its own config comes and goes.          *)

\* What the write j in progress knows of the paths of x, against index ix.
LocalOK(ix, x, j) ==
  /\ j.pc = "write" /\ j.target \in Under[x] \ Tagged /\ j.new # Nil => j.prev = ix[j.target]
  /\ j.pc \in {"configs", "root", "cas"} /\ j.target \in Under[x] \ Tagged
       => ix[j.target] = j.new
  /\ j.pc = "rebuild" /\ j.new.prefix = x => \A p \in Under[x] \ Tagged : j.cur[p] = ix[p]

\* An entry that is, was or becomes one for x is the one that may.
EntryOK(x, j) ==
  j.pc # "idle" /\ j.target \in ConfigIds /\ (Names(j.new, x) \/ Names(j.prev, x))
    => MayName(cast, j.target, x)

\* The writer is about to build the root of x.
Building(j, x) ==
  \/ j.pc = "clear" /\ Rebuilds(j.prev, j.new) /\ j.new.prefix = x
  \/ j.pc \in {"list", "rebuild"} /\ j.new.prefix = x

\* The root of x does not have the binding of p yet.
Due(j, x, p) == Hooked(j, p) /\ ~Passed(j, x)

\* The root of x is there, and has or is about to get the bindings.
Fits(x) ==
  /\ root[x] # Nil
  /\ \A p \in Under[x] \ Tagged :
       <<x, p>> \in lost \/ root[x][p] = index[p] \/ \E t \in Threads : Due(job[t], x, p)

BuildInv(x) ==
  /\ \A c \in ConfigIds : Names(index[c], x) => MayName(cast, c, x)
  /\ \A t \in Threads : EntryOK(x, job[t]) /\ LocalOK(index, x, job[t])
  /\ Enabled(x) /\ <<x, Nil>> \notin lost /\ (\A t \in Threads : ~Building(job[t], x))
       => Fits(x)

\* Bootstrap built the root from the bindings.
LEMMA BuildInit == ASSUME Init, NEW x \in Prefixes PROVE BuildInv(x)
<1> USE TrackerAssumption
<1>1. TypeInv /\ TrieOf(x) # Nil
  BY TypeInit DEF TrieOf, TypeInv, TypeOK
<1>2. \A c \in ConfigIds : index[c] = cast.configs[c]
  BY DEF Init, Targets
<1>3. Enabled(x) <=> Built(x, cast.configs)
  BY <1>2 DEF Enabled, Built, Entries
<1>4. \A t \in Threads : job[t].pc = "idle"
  BY DEF Init, IdleJob
<1>5. Enabled(x) => Fits(x)
  BY <1>1, <1>3 DEF Init, Fits, TrieOf
<1> QED
  BY <1>2, <1>4, <1>5 DEF BuildInv, EntryOK, LocalOK, MayName

\* A step that leaves the root of x and the bindings it covers alone.
LEMMA BuildKeep ==
  ASSUME TypeInv, NEW x \in Prefixes, BuildInv(x), NEW t \in Threads, NEW g, Set(t, g),
         cast' = cast, \A c \in ConfigIds \cup (Under[x] \ Tagged) : index'[c] = index[c],
         EntryOK(x, g), LocalOK(index, x, g), Building(job[t], x) => Building(g, x),
         root'[x] = root[x], \A p : <<x, p>> \in lost => <<x, p>> \in lost',
         \A p \in Under[x] \ Tagged :
           Enabled(x) /\ <<x, Nil>> \notin lost /\ Due(job[t], x, p)
             => Due(g, x, p) \/ <<x, p>> \in lost' \/ root[x][p] = index[p]
  PROVE  BuildInv(x)'
<1>1. \A u \in Threads : job'[u] = IF u = t THEN g ELSE job[u]
  BY DEF Set, TypeInv, TypeOK
<1>2. \A c \in ConfigIds : Names(index'[c], x) => MayName(cast', c, x)
  BY DEF BuildInv
<1>3. \A u \in Threads : EntryOK(x, job'[u]) /\ LocalOK(index, x, job'[u])
  BY <1>1 DEF BuildInv
<1>4. \A u \in Threads : EntryOK(x, job[u])' /\ LocalOK(index', x, job'[u])
  BY <1>3 DEF EntryOK, LocalOK
<1>5. Entries' = Entries
  BY DEF Entries
<1>6. ASSUME Enabled(x)', <<x, Nil>> \notin lost', \A u \in Threads : ~Building(job'[u], x)
      PROVE  Fits(x)'
  <2>1. Enabled(x) /\ <<x, Nil>> \notin lost
    BY <1>5, <1>6 DEF Enabled
  <2>2. \A u \in Threads : ~Building(job[u], x)
    BY <1>1, <1>6
  <2>3. Fits(x)
    BY <2>1, <2>2 DEF BuildInv
  <2>4. ASSUME NEW p \in Under[x] \ Tagged
        PROVE  <<x, p>> \in lost' \/ root[x][p] = index[p] \/ \E u \in Threads : Due(job'[u], x, p)
    BY <1>1, <2>1, <2>3 DEF Fits
  <2> QED BY <2>3, <2>4 DEF Fits
<1> QED
  BY <1>2, <1>4, <1>6 DEF BuildInv

\* Bindings and entries stay, the root of x or the refusals may not.
LEMMA BuildMoves ==
  ASSUME TypeInv, NEW x \in Prefixes, BuildInv(x), NEW t \in Threads, NEW g, Set(t, g),
         UNCHANGED <<cast, index>>, EntryOK(x, g), LocalOK(index, x, g),
         Enabled(x)' /\ <<x, Nil>> \notin lost' /\ (\A u \in Threads : ~Building(job'[u], x))
           => Fits(x)'
  PROVE  BuildInv(x)'
<1>1. \A u \in Threads : job'[u] = IF u = t THEN g ELSE job[u]
  BY DEF Set, TypeInv, TypeOK
<1>2. \A c \in ConfigIds : Names(index'[c], x) => MayName(cast', c, x)
  BY DEF BuildInv
<1>3. \A u \in Threads : EntryOK(x, job'[u]) /\ LocalOK(index, x, job'[u])
  BY <1>1 DEF BuildInv
<1>4. \A u \in Threads : EntryOK(x, job[u])' /\ LocalOK(index', x, job'[u])
  BY <1>3 DEF EntryOK
<1> QED
  BY <1>2, <1>4 DEF BuildInv

\* What the others have in progress, while t works on the prefix.
LEMMA OthersApart ==
  ASSUME TypeInv, NEW x \in Prefixes, ConfiguredAlone(cast, x), NEW t \in Threads,
         ~At(t, "idle"), job[t].target \in ConfigIds \cup (Under[x] \ Tagged),
         NEW u \in Threads \ {t}
  PROVE  /\ EntryOK(x, job[u]) /\ ~Building(job[u], x)
         /\ \A ix : LocalOK(ix, x, job[u])
<1>1. JobOK(u, job[u]) /\ job[u] \in Jobs
  BY DEF TypeInv, TypeOK
<1>2. job[u].pc # "idle" => job[u].target \notin ConfigIds \cup (Under[x] \ Tagged)
  BY Sole
<1> QED
  BY <1>1, <1>2 DEF JobOK, EntryOK, Building, LocalOK

\* The mutation.
LEMMA BuildWrite ==
  ASSUME TypeInv, NEW x \in Prefixes, RebuiltAlone(cast, x), ClearInv(x), BuildInv(x),
         NEW t \in Threads, Write(t)
  PROVE  BuildInv(x)'
<1> USE TrackerAssumption
<1> DEFINE j == job[t]
           w == [j EXCEPT !.prev = IF j.new = Nil THEN index[j.target] ELSE @]
           g == IF w.prev = w.new THEN IdleJob("noop")
                ELSE [w EXCEPT !.pc = Branch(w.target)]
           shared == ConfigIds \cup (Under[x] \ Tagged)
<1>0. ConfiguredAlone(cast, x)
  BY DEF RebuiltAlone
<1>1. /\ j \in Jobs /\ JobOK(t, j) /\ j.pc = "write" /\ MoveOK(Entries, x, j)
      /\ EntryOK(x, j) /\ LocalOK(index, x, j)
  BY DEF TypeInv, TypeOK, Write, At, ClearInv, BuildInv
<1>2. j.target \in Targets /\ j.new \in Values /\ t \in Writers(cast, j.target)
  BY <1>1 DEF JobOK, Jobs, Writers
<1>3. /\ w.target = j.target /\ w.new = j.new
      /\ w.prev = IF j.new = Nil THEN index[j.target] ELSE j.prev
  BY <1>1 DEF Jobs
<1>4. /\ Set(t, g) /\ index' = [index EXCEPT ![j.target] = j.new]
      /\ UNCHANGED <<root, lost, cast>>
  BY <1>3 DEF Write
<1>5. j.target \in shared => w.prev = index[j.target]
  BY <1>1, <1>3 DEF MoveOK, Entries, LocalOK
<1>6. \A c \in Targets : index'[c] = IF c = j.target THEN j.new ELSE index[c]
  BY <1>2, <1>4 DEF TypeInv, TypeOK
<1>7. w.prev # w.new =>
        /\ g.pc = Branch(j.target) /\ g.target = j.target /\ g.new = j.new
        /\ g.prev = w.prev
  BY <1>1, <1>3 DEF Jobs
<1>8. shared \subseteq Targets
  BY DEF Targets
<1>9. ~Building(j, x) /\ \A p : ~Due(j, x, p)
  BY <1>1 DEF Building, Due, Hooked
<1>10. CASE w.prev = w.new \/ j.target \notin shared
  <2>1. \A c \in shared : index'[c] = index[c]
    BY <1>3, <1>5, <1>6, <1>8, <1>10
  <2>2. g.pc = "idle" \/ (g.pc \in {"tracked", "configs"} /\ g.target \notin shared)
    BY <1>7, <1>10 DEF IdleJob, Branch
  <2>3. EntryOK(x, g) /\ LocalOK(index, x, g)
    BY <2>2 DEF EntryOK, LocalOK
  <2> HIDE DEF g
  <2> QED
    BY <1>4, <1>9, <2>1, <2>3, BuildKeep
<1>11. CASE w.prev # w.new /\ j.target \in shared
  <2> DEFINE c == j.target
  <2>1. /\ g.pc = Branch(c) /\ g.target = c /\ g.new = j.new /\ g.prev = index[c]
    BY <1>5, <1>7, <1>11
  <2> HIDE DEF g, w
  <2>2. \A u \in Threads : job'[u] = IF u = t THEN g ELSE job[u]
    BY <1>4 DEF Set, TypeInv, TypeOK
  <2>3. \A u \in Threads \ {t} : /\ EntryOK(x, job[u]) /\ ~Building(job[u], x)
                                 /\ \A ix : LocalOK(ix, x, job[u])
    BY <1>0, <1>1, <1>11, OthersApart DEF At
  <2>4. \A d \in ConfigIds : Names(index'[d], x) => MayName(cast, d, x)
    BY <1>1, <1>6, <1>8 DEF BuildInv, EntryOK
  <2>5. EntryOK(x, g)
    BY <1>1, <2>1 DEF EntryOK, BuildInv
  <2>6. LocalOK(index', x, g)
    <3>1. g.pc \in {"clear", "configs"}
      BY <1>11, <2>1 DEF Branch
    <3> QED BY <1>6, <1>8, <1>11, <2>1, <3>1 DEF LocalOK
  <2>7. \A u \in Threads : EntryOK(x, job[u])' /\ LocalOK(index', x, job'[u])
    <3>1. \A u \in Threads : EntryOK(x, job'[u]) /\ LocalOK(index', x, job'[u])
      BY <2>2, <2>3, <2>5, <2>6
    <3> QED BY <1>4, <3>1 DEF EntryOK
  <2>8. ASSUME Enabled(x)', <<x, Nil>> \notin lost', ~Building(g, x) PROVE Fits(x)'
    <3>1. Enabled(x)
      <4>1. PICK d \in ConfigIds : IsOn(index'[d]) /\ index'[d].prefix = x
        BY <2>8 DEF Enabled, Built, Entries
      <4>2. CASE d # c
        BY <1>6, <1>8, <4>1, <4>2 DEF Enabled, Built, Entries
      <4>3. CASE d = c
        <5>1. g.pc = "clear" /\ IsOn(j.new) /\ j.new.prefix = x
          BY <1>6, <1>8, <2>1, <4>1, <4>3 DEF Branch
        <5>2. IsOn(index[c]) /\ index[c].prefix = x
          BY <2>1, <2>8, <5>1 DEF Building, Rebuilds, IsOn
        <5> QED BY <4>3, <5>2 DEF Enabled, Built, Entries
      <4> QED BY <4>2, <4>3
    <3>2. Fits(x)
      BY <1>4, <1>9, <2>3, <2>8, <3>1 DEF BuildInv
    <3>3. ASSUME NEW p \in Under[x] \ Tagged
          PROVE  \/ <<x, p>> \in lost \/ root[x][p] = index'[p]
                 \/ \E u \in Threads : Due(job'[u], x, p)
      <4>1. CASE p # c
        <5>1. index'[p] = index[p]
          BY <1>6, <1>8, <4>1
        <5> QED BY <1>9, <2>2, <3>2, <5>1 DEF Fits
      <4>2. CASE p = c
        <5>1. c \notin ConfigIds
          BY <1>2, <4>2 DEF RebuiltAlone, OneEntry
        <5>2. Due(g, x, p)
          BY <2>1, <4>2, <5>1 DEF Due, Hooked, Passed, Branch
        <5> QED BY <2>2, <5>2
      <4> QED BY <4>1, <4>2
    <3> QED BY <1>4, <3>2, <3>3 DEF Fits
  <2>9. (\A u \in Threads : ~Building(job'[u], x)) => ~Building(g, x)
    BY <2>2
  <2> QED
    BY <1>4, <2>4, <2>7, <2>8, <2>9 DEF BuildInv
<1> QED
  BY <1>10, <1>11

\* apply_event stores a root of x with the writer's own binding in it.
LEMMA BuildCas ==
  ASSUME TypeInv, NEW x \in Prefixes, RebuiltAlone(cast, x), BuildInv(x),
         NEW t \in Threads, CasHit(t)
  PROVE  BuildInv(x)'
<1> USE TrackerAssumption
<1> DEFINE j == job[t]
           y == j.cfgs[j.k].prefix
           p == j.target
           g == NextConfig(j)
<1>1. /\ j \in Jobs /\ JobOK(t, j) /\ j.pc = "cas" /\ LocalOK(index, x, j)
  BY DEF TypeInv, TypeOK, CasHit, At, BuildInv
<1>2. /\ p \in Paths \ Tagged /\ p \notin ConfigIds /\ p \in Under[y] /\ p # Nil
      /\ j.k \in ConfigIds
  BY <1>1 DEF JobOK, Applies, Jobs, ConfigIds
<1>3. /\ g.pc = "root" /\ g.target = p /\ g.new = j.new /\ g.cfgs = j.cfgs /\ g.k = j.k + 1
  BY <1>1 DEF NextConfig, Jobs
<1>4. /\ Set(t, g) /\ UNCHANGED <<cast, index>> /\ lost' = lost \ {<<y, p>>}
      /\ root' = [root EXCEPT ![y] = Applied(j, root[y])]
  BY DEF CasHit
<1> HIDE DEF g
<1>5. EntryOK(x, g) /\ LocalOK(index, x, g)
  BY <1>1, <1>2, <1>3 DEF EntryOK, LocalOK
<1>6. ~Building(j, x) /\ \A q : Due(j, x, q) => q = p
  BY <1>1 DEF Building, Due, Hooked
<1>7. CASE y # x
  <2>1. Passed(g, x) => Passed(j, x)
    BY <1>1, <1>2, <1>3, <1>7 DEF Passed, Jobs, ConfigIds
  <2>2. \A q : Due(j, x, q) => Due(g, x, q)
    BY <1>3, <1>6, <2>1 DEF Due, Hooked
  <2>3. root'[x] = root[x] /\ \A q : <<x, q>> \in lost => <<x, q>> \in lost'
    BY <1>4, <1>7 DEF TypeInv, Shapes
  <2> QED
    BY <1>4, <1>5, <1>6, <2>2, <2>3, BuildKeep
<1>8. CASE y = x
  <2>1. \A u \in Threads \ {t} : ~Building(job[u], x)
    BY <1>1, <1>2, <1>8, OthersApart DEF At, RebuiltAlone, OneEntry
  <2>2. ASSUME Enabled(x)', <<x, Nil>> \notin lost' PROVE Fits(x)'
    <3>1. Enabled(x) /\ <<x, Nil>> \notin lost
      BY <1>2, <1>4, <2>2 DEF Enabled, Entries
    <3>2. Fits(x)
      BY <1>6, <2>1, <3>1 DEF BuildInv
    <3>3. root'[x] = [q \in Under[x] |-> IF q = p THEN j.new ELSE root[x][q]]
      BY <1>4, <1>8, <3>2 DEF TypeInv, Shapes, Applied, TriePut, Fits
    <3>4. root'[x] # Nil
      <4>1. j.new \in Values /\ root[x] \in Tries(x) \cup {Nil}
        BY <1>1 DEF Jobs, TypeInv, TypeOK
      <4>2. TriePut(x, root[x], p, j.new) \in Tries(x)
        BY <4>1, PutType
      <4>3. root'[x] = TriePut(x, root[x], p, j.new)
        BY <1>4, <1>8 DEF TypeInv, Shapes, Applied
      <4> QED BY <4>2, <4>3 DEF Tries
    <3>5. index[p] = j.new
      BY <1>1, <1>2, <1>8 DEF LocalOK
    <3>6. \A u \in Threads : job'[u] = IF u = t THEN g ELSE job[u]
      BY <1>4 DEF Set, TypeInv, TypeOK
    <3>7. ASSUME NEW q \in Under[x] \ Tagged
          PROVE  \/ <<x, q>> \in lost' \/ root'[x][q] = index[q]
                 \/ \E u \in Threads : Due(job'[u], x, q)
      <4>1. CASE q = p
        BY <3>3, <3>5, <4>1
      <4>2. CASE q # p
        BY <1>4, <1>6, <3>2, <3>3, <3>6, <4>2 DEF Fits
      <4> QED BY <4>1, <4>2
    <3> QED BY <1>4, <3>4, <3>7 DEF Fits
  <2> QED
    BY <1>4, <1>5, <2>2, BuildMoves
<1> QED
  BY <1>7, <1>8

\* Clearing the root of x happens when x is not tracked any more.
LEMMA BuildClear ==
  ASSUME TypeInv, NEW x \in Prefixes, RebuiltAlone(cast, x), ClearInv(x), BuildInv(x),
         NEW t \in Threads, Clear(t)
  PROVE  BuildInv(x)'
<1> USE TrackerAssumption
<1> DEFINE j == job[t]
           r == IF Rebuilds(j.prev, j.new) THEN "list" ELSE "load"
           g == [j EXCEPT !.pc = r]
<1>1. /\ j \in Jobs /\ JobOK(t, j) /\ j.pc = "clear" /\ j.target \in ConfigIds
      /\ MoveOK(Entries, x, j) /\ EntryOK(x, j)
  BY DEF TypeInv, TypeOK, Clear, At, BuildInv, ClearInv, JobOK
<1>2. g.pc = r /\ g.target = j.target /\ g.new = j.new /\ g.prev = j.prev
  BY <1>1 DEF Jobs
<1>3. Set(t, g) /\ UNCHANGED <<cast, index>>
  BY DEF Clear
<1> HIDE DEF g
<1>4. EntryOK(x, g) /\ LocalOK(index, x, g)
  BY <1>1, <1>2 DEF EntryOK, LocalOK
<1>5. CASE Clears(j.prev, j.new) /\ j.prev.prefix = x
  <2>1. Names(j.prev, x) /\ MayName(cast, j.target, x)
    BY <1>1, <1>5 DEF Clears, Names, EntryOK
  <2>2. index[j.target] = j.new
    BY <1>1 DEF MoveOK, Updating, Entries
  <2>3. ~(IsOn(j.new) /\ j.new.prefix = x)
    BY <1>5 DEF Clears, IsOn
  <2>4. ~Enabled(x)
    <3> SUFFICES ASSUME NEW d \in ConfigIds, IsOn(index[d]), index[d].prefix = x PROVE FALSE
      BY DEF Enabled, Built, Entries
    <3>1. MayName(cast, d, x)
      BY DEF BuildInv, Names, IsOn
    <3>2. d = j.target
      BY <1>1, <2>1, <3>1 DEF RebuiltAlone, OneEntry
    <3> QED BY <2>2, <2>3, <3>2
  <2>5. ~Enabled(x)'
    BY <1>3, <2>4 DEF Enabled, Entries
  <2> QED
    BY <1>3, <1>4, <2>5, BuildMoves
<1>6. CASE ~(Clears(j.prev, j.new) /\ j.prev.prefix = x)
  <2>1. root'[x] = root[x] /\ \A p : <<x, p>> \in lost => <<x, p>> \in lost'
    BY <1>6 DEF Clear, TypeInv, Shapes
  <2>2. Building(j, x) => Building(g, x)
    BY <1>1, <1>2 DEF Building
  <2>3. \A p : ~Due(j, x, p)
    BY <1>1 DEF Due, Hooked
  <2> QED
    BY <1>3, <1>4, <2>1, <2>2, <2>3, BuildKeep
<1> QED
  BY <1>5, <1>6

\* rebuild_prefix stores what it listed, and nobody wrote in between.
LEMMA BuildRebuild ==
  ASSUME TypeInv, NEW x \in Prefixes, RebuiltAlone(cast, x), BuildInv(x),
         NEW t \in Threads, Rebuild(t)
  PROVE  BuildInv(x)'
<1> USE TrackerAssumption
<1> DEFINE j == job[t]
           g == [j EXCEPT !.pc = "load"]
<1>1. /\ j \in Jobs /\ JobOK(t, j) /\ j.pc = "rebuild" /\ j.target \in ConfigIds
      /\ EntryOK(x, j) /\ LocalOK(index, x, j)
  BY DEF TypeInv, TypeOK, Rebuild, At, BuildInv, JobOK
<1>2. g.pc = "load" /\ g.target = j.target /\ g.new = j.new /\ g.prev = j.prev
  BY <1>1 DEF Jobs
<1>3. Set(t, g) /\ UNCHANGED <<cast, index>>
  BY DEF Rebuild
<1> HIDE DEF g
<1>4. EntryOK(x, g) /\ LocalOK(index, x, g)
  BY <1>1, <1>2 DEF EntryOK, LocalOK
<1>5. CASE j.new.prefix # x
  <2>1. root'[x] = root[x] /\ \A p : <<x, p>> \in lost => <<x, p>> \in lost'
    BY <1>5 DEF Rebuild, TypeInv, Shapes
  <2>2. ~Building(j, x) /\ \A p : ~Due(j, x, p)
    BY <1>1, <1>5 DEF Building, Due, Hooked
  <2> QED
    BY <1>3, <1>4, <2>1, <2>2, BuildKeep
<1>6. CASE j.new.prefix = x
  <2>1. <<x, Nil>> \in lost' \/ root'[x] = j.cur
    BY <1>6 DEF Rebuild, TypeInv, Shapes
  <2>2. j.cur # Nil /\ \A p \in Under[x] \ Tagged : j.cur[p] = index[p]
    BY <1>1, <1>6 DEF JobOK, LocalOK, Tries
  <2>3. <<x, Nil>> \notin lost' => Fits(x)'
    BY <1>3, <2>1, <2>2 DEF Fits
  <2> QED
    BY <1>3, <1>4, <2>3, BuildMoves
<1> QED
  BY <1>5, <1>6

\* Every step of a writer and its hook.
LEMMA BuildTracker ==
  ASSUME TypeInv, NEW x \in Prefixes, RebuiltAlone(cast, x), ClearInv(x), BuildInv(x),
         NEW t \in Threads, TrackerStep(t)
  PROVE  BuildInv(x)'
<1> USE TrackerAssumption
<1> DEFINE j == job[t]
<1>0. /\ j \in Jobs /\ JobOK(t, j) /\ MoveOK(Entries, x, j) /\ EntryOK(x, j)
      /\ LocalOK(index, x, j) /\ cast \in Casts
  BY DEF TypeInv, TypeOK, ClearInv, BuildInv
\* Steps that touch the thread's own state alone, before and after the hook's work.
<1>1. ASSUME NEW g, Set(t, g), UNCHANGED <<cast, index, root, lost>>, EntryOK(x, g),
             LocalOK(index, x, g), Building(j, x) => Building(g, x),
             j.pc \notin {"configs", "root", "cas"}
      PROVE  BuildInv(x)'
  <2>1. \A p : ~Due(j, x, p)
    BY <1>1 DEF Due, Hooked, Passed
  <2> QED BY <1>1, <2>1, BuildKeep
\* Steps of the hook for a content path that leave the roots alone.
<1>2. ASSUME NEW g, Set(t, g), UNCHANGED <<cast, index, root>>, lost \subseteq lost',
             j.pc \in {"configs", "root", "cas"},
             \/ /\ g.pc \in {"root", "cas", "tracked"} /\ g.target = j.target /\ g.new = j.new
                /\ \/ ~Enabled(x) \/ j.target \notin Under[x] \/ Passed(j, x) \/ ~Passed(g, x)
                   \/ root[x][j.target] = index[j.target]
             \/ /\ g.pc = "idle"
                /\ \/ ~Enabled(x) \/ j.target \notin Under[x] \/ Passed(j, x)
                   \/ <<x, j.target>> \in lost'
      PROVE  BuildInv(x)'
  <2>1. EntryOK(x, g) /\ LocalOK(index, x, g)
    BY <1>0, <1>2 DEF EntryOK, LocalOK, JobOK
  <2>2. ~Building(j, x)
    BY <1>2 DEF Building
  <2>3. ASSUME NEW p \in Under[x] \ Tagged, Enabled(x), Due(j, x, p)
        PROVE  Due(g, x, p) \/ <<x, p>> \in lost' \/ root[x][p] = index[p]
    BY <1>2, <2>3 DEF Due, Hooked
  <2> QED BY <1>2, <2>1, <2>2, <2>3, BuildKeep
<1>3. CASE Begin(t)
  <2>1. PICK p \in Scope[t] : \E v \in Choices[p] \cup {Nil} : Set(t, Job(p, v))
    BY <1>3 DEF Begin
  <2>2. PICK v \in Choices[p] \cup {Nil} : Set(t, Job(p, v))
    BY <2>1
  <2>3. /\ Job(p, v).pc = (IF v = Nil THEN "write" ELSE "read") /\ Job(p, v).new = v
        /\ Job(p, v).prev = Nil /\ Job(p, v).target = p
    BY DEF Job, IdleJob
  <2>4. j.pc = "idle" /\ t \in Writers(cast, p)
    BY <1>0, <1>3 DEF Begin, At, Writers, TypeInv, TypeOK
  <2>5. EntryOK(x, Job(p, v))
    BY <2>3, <2>4 DEF EntryOK, MayName, Names
  <2>6. LocalOK(index, x, Job(p, v)) /\ ~Building(j, x)
    BY <2>3, <2>4 DEF LocalOK, Building
  <2> QED
    BY <1>1, <1>3, <2>2, <2>4, <2>5, <2>6 DEF Begin
<1>4. CASE ReadPrevious(t)
  <2> DEFINE g == [j EXCEPT !.prev = index[j.target], !.pc = "write"]
  <2>1. /\ g.pc = "write" /\ g.target = j.target /\ g.prev = index[j.target]
        /\ g.new = j.new
    BY <1>0 DEF Jobs
  <2>2. Set(t, g) /\ j.pc = "read" /\ UNCHANGED <<cast, index, root, lost>>
    BY <1>4 DEF ReadPrevious, At
  <2> HIDE DEF g
  <2>3. EntryOK(x, g) /\ LocalOK(index, x, g) /\ ~Building(j, x)
    BY <1>0, <2>1, <2>2 DEF EntryOK, LocalOK, Building, BuildInv
  <2> QED BY <1>1, <2>2, <2>3
<1>5. CASE Write(t)
  BY <1>5, BuildWrite
<1>6. CASE ReadConfigs(t)
  <2> DEFINE g == [j EXCEPT !.cfgs = cached, !.pc = "root"]
  <2>1. g.pc = "root" /\ g.target = j.target /\ g.new = j.new /\ g.k = 1 /\ j.pc = "configs"
    BY <1>0, <1>6 DEF Jobs, JobOK, ReadConfigs, At
  <2>2. Set(t, g) /\ UNCHANGED <<cast, index, root, lost>>
    BY <1>6 DEF ReadConfigs
  <2> HIDE DEF g
  <2>3. ~Passed(g, x)
    BY <2>1 DEF Passed, ConfigIds
  <2> QED BY <1>2, <2>1, <2>2, <2>3
<1>7. /\ NextConfig(j).pc = "root" /\ NextConfig(j).target = j.target
      /\ NextConfig(j).new = j.new /\ NextConfig(j).cfgs = j.cfgs
      /\ NextConfig(j).k = j.k + 1 /\ j.k \in Nat
  BY <1>0 DEF NextConfig, Jobs
<1>8. CASE SkipConfig(t)
  <2>1. /\ j.pc = "root" /\ j.k \in ConfigIds /\ ~Applies(j, j.k) /\ Set(t, NextConfig(j))
        /\ UNCHANGED <<cast, index, root, lost>>
    BY <1>0, <1>8 DEF SkipConfig, At, Jobs, ConfigIds
  <2>2. j.target \in Under[x] => Passed(j, x) \/ ~Passed(NextConfig(j), x)
    BY <1>7, <2>1 DEF Passed, Applies, ConfigIds
  <2> QED BY <1>2, <1>7, <2>1, <2>2
<1>9. CASE ReadRoot(t)
  <2> DEFINE g == [j EXCEPT !.cur = root[j.cfgs[j.k].prefix], !.pc = "cas"]
             y == j.cfgs[j.k].prefix
  <2>1. /\ g.pc = "cas" /\ g.target = j.target /\ g.new = j.new /\ g.cfgs = j.cfgs
        /\ g.k = j.k
    BY <1>0 DEF Jobs
  <2>2. /\ Set(t, g) \/ (Set(t, NextConfig(j)) /\ root[y] = Applied(j, root[y]))
        /\ UNCHANGED <<cast, index, root, lost>> /\ j.pc = "root" /\ j.k \in ConfigIds
    BY <1>0, <1>9 DEF ReadRoot, At, Jobs, ConfigIds
  <2> HIDE DEF g
  <2>3. CASE Set(t, g)
    <3>1. Passed(j, x) \/ ~Passed(g, x)
      BY <2>1, <2>2 DEF Passed
    <3> QED BY <1>2, <2>1, <2>2, <2>3, <3>1
  <2>4. CASE Set(t, NextConfig(j)) /\ root[y] = Applied(j, root[y])
    <3>1. y # x => Passed(j, x) \/ ~Passed(NextConfig(j), x)
      BY <1>7, <2>2 DEF Passed, ConfigIds
    <3>2. y = x /\ j.target \in Under[x] => root[x][j.target] = index[j.target]
      <4> SUFFICES ASSUME y = x, j.target \in Under[x] PROVE root[x][j.target] = index[j.target]
        OBVIOUS
      <4>1. root[x][j.target] = j.new
        BY <2>4 DEF Applied, TriePut
      <4>2. index[j.target] = j.new
        BY <1>0, <2>2 DEF LocalOK, JobOK
      <4> QED BY <4>1, <4>2
    <3> QED BY <1>2, <1>7, <2>2, <2>4, <3>1, <3>2
  <2> QED BY <2>2, <2>3, <2>4
<1>10. CASE LastConfig(t)
  <2> DEFINE g == [j EXCEPT !.pc = "tracked"]
  <2>1. g.pc = "tracked" /\ g.target = j.target /\ g.new = j.new
    BY <1>0 DEF Jobs
  <2>2. /\ Set(t, g) /\ UNCHANGED <<cast, index, root, lost>> /\ j.pc = "root"
        /\ j.k = NumConfigs + 1
    BY <1>10 DEF LastConfig, At
  <2> HIDE DEF g
  <2>3. Enabled(x) /\ j.target \in Under[x] => Passed(j, x)
    <3> SUFFICES ASSUME Enabled(x), j.target \in Under[x] PROVE Passed(j, x)
      OBVIOUS
    <3>1. j.cfgs = Entries
      BY <1>0, <2>2 DEF MoveOK
    <3>2. PICK i \in ConfigIds : IsOn(Entries[i]) /\ Entries[i].prefix = x
      BY DEF Enabled, Built
    <3>3. i < j.k
      BY <2>2 DEF ConfigIds
    <3> QED BY <2>2, <3>1, <3>2, <3>3 DEF Passed
  <2> QED BY <1>2, <2>1, <2>2, <2>3
<1>11. CASE CasHit(t)
  BY <1>11, BuildCas
<1>12. CASE CasMiss(t)
  <2> DEFINE g == [j EXCEPT !.tries = @ + 1, !.cur = Nil, !.pc = "root"]
             left == {<<j.cfgs[k].prefix, j.target>> :
                        k \in {i \in j.k..NumConfigs : Applies(j, i)}}
  <2>1. /\ g.pc = "root" /\ g.target = j.target /\ g.new = j.new /\ g.cfgs = j.cfgs
        /\ g.k = j.k /\ IdleJob("halted").pc = "idle"
    BY <1>0 DEF Jobs, IdleJob
  <2>2. /\ \/ Set(t, g) /\ UNCHANGED lost
           \/ Set(t, IdleJob("halted")) /\ lost' = lost \cup left
        /\ UNCHANGED <<cast, index, root>> /\ j.pc = "cas"
    BY <1>12 DEF CasMiss, At
  <2> HIDE DEF g
  <2>3. CASE Set(t, g) /\ UNCHANGED lost
    <3>1. Passed(j, x) \/ ~Passed(g, x)
      BY <2>1, <2>2 DEF Passed
    <3> QED BY <1>2, <2>1, <2>2, <2>3, <3>1
  <2>4. CASE Set(t, IdleJob("halted")) /\ lost' = lost \cup left
    <3>1. ASSUME Enabled(x), j.target \in Under[x], ~Passed(j, x)
          PROVE  <<x, j.target>> \in left
      <4>1. j.cfgs = Entries
        BY <1>0, <2>2, <3>1 DEF MoveOK
      <4>2. PICK i \in ConfigIds : IsOn(Entries[i]) /\ Entries[i].prefix = x
        BY <3>1 DEF Enabled, Built
      <4>3. i \in j.k..NumConfigs
        BY <1>0, <2>2, <3>1, <4>1, <4>2 DEF Passed, ConfigIds, Jobs
      <4>4. Applies(j, i) /\ j.cfgs[i].prefix = x
        BY <3>1, <4>1, <4>2 DEF Applies
      <4> QED BY <4>3, <4>4
    <3> HIDE DEF left
    <3> QED BY <1>2, <2>1, <2>2, <2>4, <3>1
  <2> QED BY <2>2, <2>3, <2>4
<1>13. CASE Clear(t)
  BY <1>13, BuildClear
<1>14. CASE List(t)
  <2> DEFINE g == [j EXCEPT !.cur = TrieOf(j.new.prefix), !.pc = "rebuild"]
  <2>1. /\ g.pc = "rebuild" /\ g.target = j.target /\ g.new = j.new /\ g.prev = j.prev
        /\ g.cur = TrieOf(j.new.prefix)
    BY <1>0 DEF Jobs
  <2>2. Set(t, g) /\ UNCHANGED <<cast, index, root, lost>> /\ j.pc = "list"
    BY <1>14 DEF List, At
  <2> HIDE DEF g
  <2>3. EntryOK(x, g) /\ (Building(j, x) => Building(g, x))
    BY <1>0, <2>1, <2>2 DEF EntryOK, Building
  <2>4. LocalOK(index, x, g)
    BY <2>1 DEF LocalOK, TrieOf
  <2> QED BY <1>1, <2>2, <2>3, <2>4
<1>15. CASE Rebuild(t)
  BY <1>15, BuildRebuild
<1>16. CASE Load(t) \/ Refresh(t)
  <2>1. PICK g : /\ Set(t, g) /\ g.target = j.target /\ g.new = j.new /\ g.prev = j.prev
                 /\ g.pc \in {"refresh", "tracked"}
    <3>1. CASE Load(t)
      <4> DEFINE g == [j EXCEPT !.cfgs = Entries, !.pc = "refresh"]
      <4>1. /\ Set(t, g) /\ g.target = j.target /\ g.new = j.new /\ g.prev = j.prev
            /\ g.pc = "refresh"
        BY <1>0, <3>1 DEF Load, Jobs
      <4> HIDE DEF g
      <4> QED BY <4>1
    <3>2. CASE Refresh(t)
      <4> DEFINE g == [j EXCEPT !.pc = "tracked"]
      <4>1. /\ Set(t, g) /\ g.target = j.target /\ g.new = j.new /\ g.prev = j.prev
            /\ g.pc = "tracked"
        BY <1>0, <3>2 DEF Refresh, Jobs
      <4> HIDE DEF g
      <4> QED BY <4>1
    <3> QED BY <1>16, <3>1, <3>2
  <2>2. j.pc \in {"load", "refresh"} /\ UNCHANGED <<cast, index, root, lost>>
    BY <1>16 DEF Load, Refresh, At
  <2>3. EntryOK(x, g) /\ LocalOK(index, x, g) /\ ~Building(j, x)
    BY <1>0, <2>1, <2>2 DEF EntryOK, LocalOK, Building
  <2> QED BY <1>1, <2>1, <2>2, <2>3
<1> QED
  BY <1>3, <1>4, <1>5, <1>6, <1>8, <1>9, <1>10, <1>11, <1>12, <1>13, <1>14, <1>15, <1>16
  DEF TrackerStep

\* A write leaves the engine when the tracker is done with it.
LEMMA BuildVersion ==
  ASSUME VTypeInv, NEW x \in Prefixes, BuildInv(x), NEW t \in Threads, VersionStep(t)
  PROVE  BuildInv(x)'
<1>1. UNCHANGED <<index, root, cached, lost, cast>> /\ job[t].pc = "tracked"
  BY DEF VersionStep, Skip, ReadHead, ReadTrackedRoot, HeadHit, HeadMiss, AdvanceBranch, vars,
     VAt, At
<1>2. UNCHANGED job \/ \E out : Set(t, IdleJob(out))
  BY DEF VersionStep, Skip, ReadHead, ReadTrackedRoot, HeadHit, HeadMiss, AdvanceBranch, vars,
     Halt, Settle
<1>3. CASE UNCHANGED job
  BY <1>1, <1>3 DEF BuildInv, EntryOK, Enabled, Entries, Fits
<1>4. ASSUME NEW out, Set(t, IdleJob(out)) PROVE BuildInv(x)'
  <2>1. IdleJob(out).pc = "idle"
    BY DEF IdleJob
  <2>2. EntryOK(x, IdleJob(out)) /\ LocalOK(index, x, IdleJob(out))
    BY <2>1 DEF EntryOK, LocalOK
  <2>3. ~Building(job[t], x) /\ \A p : ~Due(job[t], x, p)
    BY <1>1 DEF Building, Due, Passed
  <2> QED
    BY <1>1, <1>4, <2>2, <2>3, BuildKeep DEF VTypeInv
<1> QED
  BY <1>2, <1>3, <1>4

RebuiltInv == \A x \in Prefixes : RebuiltAlone(cast, x) => BuildInv(x)

LEMMA RebuiltStep ==
  ASSUME VTypeInv, ReconfiguredInv, RebuiltInv, [VNext]_allVars PROVE RebuiltInv'
<1>0. cast' = cast
  BY CastFixed
<1> SUFFICES ASSUME NEW x \in Prefixes, RebuiltAlone(cast, x) PROVE BuildInv(x)'
  BY <1>0 DEF RebuiltInv, RebuiltAlone, OneEntry, ConfiguredAlone, MayName, Writers
<1>1. TypeInv /\ BuildInv(x) /\ ClearInv(x) /\ ConfiguredAlone(cast, x)
  BY DEF RebuiltInv, ReconfiguredInv, RebuiltAlone, VTypeInv
<1>2. CASE UNCHANGED allVars
  BY <1>1, <1>2 DEF allVars, vars, BuildInv, EntryOK, Enabled, Entries, Fits
<1>3. ASSUME NEW t \in Threads, Track(t) PROVE BuildInv(x)'
  BY <1>1, <1>3, BuildTracker DEF Track
<1>4. ASSUME NEW t \in Threads, VersionStep(t) PROVE BuildInv(x)'
  BY <1>1, <1>4, BuildVersion
<1>5. ~VRestart
  BY <1>1, TrackerAssumption DEF VRestart, Restart, ConfiguredAlone, TypeInv, TypeOK
<1> QED
  BY <1>2, <1>3, <1>4, <1>5 DEF VNext

\* While no config write is in progress, the stored roots are current, if each prefix
\* is left alone and has one writer per path, with any number of crashes, or if one
\* thread writes its only config entry and its paths: that one may enable, disable,
\* move and remove the entry between its writes.
THEOREM RootsCurrent ==
  VSpec => []((\A x \in Prefixes : TrackedAlone(cast, x) \/ RebuiltAlone(cast, x))
                => RootCurrent)
<1> DEFINE Inv == /\ VTypeInv /\ ReconfiguredInv /\ RebuiltInv
                  /\ \A x \in Prefixes : TrackedInv(x)
<1>1. VInit => Inv
  BY VTypeInit, TrackedInit, ClearInit, BuildInit DEF VInit, ReconfiguredInv, RebuiltInv
<1>2. Inv /\ [VNext]_allVars => Inv'
  BY VTypeStep, TrackedStep, ReconfiguredStep, RebuiltStep
<1>3. Inv => ((\A x \in Prefixes : TrackedAlone(cast, x) \/ RebuiltAlone(cast, x))
                => RootCurrent)
  <2> SUFFICES ASSUME Inv, \A c \in ConfigIds : ~Pending(c), NEW x \in Prefixes,
                      TrackedAlone(cast, x) \/ RebuiltAlone(cast, x)
               PROVE  CurrentAt(x)
    BY DEF RootCurrent
  <2>1. CASE TrackedAlone(cast, x)
    BY <2>1, TrackedCurrent
  <2>2. CASE RebuiltAlone(cast, x)
    <3>1. BuildInv(x)
      BY <2>2 DEF RebuiltInv
    <3>2. \A t \in Threads : ~Building(job[t], x)
      BY DEF Pending, Building, At, VTypeInv, TypeInv, JobOK
    <3>3. \A t \in Threads : \A p : Due(job[t], x, p) => Pending(p)
      BY DEF Pending, Due, Hooked, At
    <3> QED
      BY <3>1, <3>2, <3>3 DEF BuildInv, Fits, CurrentAt
  <2> QED BY <2>1, <2>2
<1> QED
  BY <1>1, <1>2, <1>3, PTL DEF VSpec
=============================================================================
