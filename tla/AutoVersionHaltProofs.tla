------------------------ MODULE AutoVersionHaltProofs ------------------------
(***************************************************************************)
(* Why a write is given up, and that no cascade runs for ever: the         *)
(* properties HaltsForCause, BurstCaptured and CascadesEnd of VSpec, for   *)
(* any threads, paths, prefixes, configs and number of crashes.            *)
(*                                                                         *)
(* The argument charges every lost race to a write of another thread.      *)
(* Past(t, x) holds the writes others began that can no longer move the    *)
(* root of x.  Each write moves the root of x once at most, and enters     *)
(* Past(t, x) as it does, so RaceInv, which bounds the races t lost by the *)
(* size of Past(t, x), is kept.  HeadInv does the same for the head.       *)
(* Hence a burst with fewer writes than attempts gives nothing up; and,    *)
(* with no such hypothesis, each step leaves a cascade less work.          *)
(***************************************************************************)
EXTENDS AutoVersionProofs, FiniteSetTheorems

-----------------------------------------------------------------------------
(* Counting writes.                                                         *)

\* Of the writes, n[u] by thread u, that the threads besides t began: those that a
\* later one of their thread followed, and the last ones of the threads in D.
Settled(n, t, D) ==
  {w \in ByOthers(n, t) : w[2] < n[w[1]] \/ w[1] \in D}

\* Finitely many writes have begun.
LEMMA RowsFinite ==
  ASSUME NEW n, \A u \in Threads : n[u] \in Nat, NEW t PROVE IsFiniteSet(ByOthers(n, t))
<1> DEFINE Others == Threads \ {t}
           Row(u) == {u} \X (1..n[u])
           f == [u \in Others |-> Row(u)]
           Rows == {Row(u) : u \in Others}
<1>1. IsFiniteSet(Others)
  BY ThreadsFinite, FS_Subset
<1>2. f \in Surjection(Others, Rows)
  BY DEF Surjection
<1>3. IsFiniteSet(Rows)
  <2> HIDE DEF f, Rows, Others
  <2> QED BY <1>1, <1>2, FS_Surjection
<1>4. ASSUME NEW R \in Rows PROVE IsFiniteSet(R)
  <2>1. PICK u \in Others : R = Row(u)
    BY <1>4
  <2>2. n[u] \in Int
    BY DEF Others
  <2>3. ASSUME NEW i \in Int PROVE IsFiniteSet(1..i)
    BY FS_Interval
  <2>4. IsFiniteSet(1..n[u]) /\ IsFiniteSet({u})
    BY <2>2, <2>3, FS_Singleton
  <2> QED BY <2>1, <2>4, FS_Product
<1>5. IsFiniteSet(UNION Rows)
  <2> HIDE DEF Rows
  <2> QED BY <1>3, <1>4, FS_UNION
<1> QED BY <1>5 DEF ByOthers

\* A finite set that another one includes has no more elements, and fewer if the
\* other one has an element it lacks.
LEMMA Outnumbered ==
  ASSUME NEW S, NEW T, IsFiniteSet(T), S \subseteq T
  PROVE  /\ Cardinality(S) \in Nat /\ Cardinality(T) \in Nat
         /\ Cardinality(S) <= Cardinality(T)
         /\ (\E w \in T : w \notin S) => Cardinality(S) + 1 <= Cardinality(T)
<1>1. IsFiniteSet(S) /\ Cardinality(S) <= Cardinality(T) /\ (Cardinality(S) = Cardinality(T) => S = T)
  BY FS_Subset
<1>2. Cardinality(S) \in Nat /\ Cardinality(T) \in Nat
  BY <1>1, FS_CardinalityType
<1> QED BY <1>1, <1>2

\* They are finitely many, and no more than the writes begun.
LEMMA SettledCount ==
  ASSUME NEW n, \A u \in Threads : n[u] \in Nat, NEW t, NEW D
  PROVE  /\ IsFiniteSet(Settled(n, t, D)) /\ Cardinality(Settled(n, t, D)) \in Nat
         /\ Cardinality(ByOthers(n, t)) \in Nat
         /\ Cardinality(Settled(n, t, D)) <= Cardinality(ByOthers(n, t))
<1>1. IsFiniteSet(ByOthers(n, t)) /\ Settled(n, t, D) \subseteq ByOthers(n, t)
  BY RowsFinite DEF Settled
<1> QED BY <1>1, Outnumbered, FS_Subset

\* A step of thread t, from n and D to m and E, that begins a write or keeps t
\* settled keeps the settled writes, and adds one if it settles t.
LEMMA SettledGrows ==
  ASSUME NEW n, NEW m, \A u \in Threads : n[u] \in Nat /\ m[u] \in Nat, NEW D, NEW E,
         NEW t \in Threads, \A u \in Threads \ {t} : m[u] = n[u] /\ (u \in D => u \in E),
         m[t] = n[t] + 1 \/ (m[t] = n[t] /\ (t \in D => t \in E)), NEW u \in Threads
  PROVE  /\ Cardinality(Settled(n, u, D)) \in Nat
         /\ Cardinality(Settled(m, u, E)) \in Nat
         /\ Cardinality(Settled(n, u, D)) <= Cardinality(Settled(m, u, E))
         /\ u # t /\ m[t] = n[t] /\ n[t] > 0 /\ t \notin D /\ t \in E =>
              Cardinality(Settled(n, u, D)) + 1 <= Cardinality(Settled(m, u, E))
<1>1. ASSUME NEW w \in Settled(n, u, D) PROVE w \in Settled(m, u, E)
  <2>1. PICK v \in Threads \ {u} : w \in {v} \X (1..n[v])
    BY DEF Settled, ByOthers
  <2>2. PICK i \in 1..n[v] : w = <<v, i>>
    BY <2>1
  <2>3. i < n[v] \/ v \in D
    BY <2>2 DEF Settled
  <2>4. i \in 1..m[v] /\ (i < m[v] \/ v \in E)
    BY <2>3
  <2> QED BY <2>2, <2>4 DEF Settled, ByOthers
<1>2. ASSUME u # t, m[t] = n[t], n[t] > 0, t \notin D, t \in E
      PROVE  <<t, n[t]>> \in Settled(m, u, E) /\ <<t, n[t]>> \notin Settled(n, u, D)
  BY <1>2 DEF Settled, ByOthers
<1>3. IsFiniteSet(Settled(m, u, E))
  BY SettledCount
<1> QED BY <1>1, <1>2, <1>3, Outnumbered

-----------------------------------------------------------------------------
(* Which entry names which prefix, and what a write in progress has counted. *)

NameOK(x, j) ==
  /\ \A c \in ConfigIds : Names(j.cfgs[c], x) => MayName(cast, c, x)
  /\ j.target \in ConfigIds /\ Names(j.new, x) => MayName(cast, j.target, x)

\* A write in progress is one of the n begun, and has lost no race before it reads a root.
Fresh(n, j) ==
  /\ j.pc # "idle" => n > 0
  /\ j.pc \in {"read", "write", "configs"} => j.tries = 0

NameInv ==
  /\ \A x \in Prefixes : \A c \in ConfigIds :
       Names(index[c], x) \/ Names(cached[c], x) => MayName(cast, c, x)
  /\ \A t \in Threads : (\A x \in Prefixes : NameOK(x, job[t])) /\ Fresh(writes[t], job[t])

\* At first nothing is in progress.
LEMMA NameInit == ASSUME Init PROVE NameInv
<1>1. /\ \A c \in ConfigIds : index[c] = cast.configs[c]
      /\ cached = cast.configs /\ \A t \in Threads : job[t] = IdleJob("none")
  BY DEF Init, Targets
<1> QED
  BY <1>1, TrackerAssumption DEF NameInv, NameOK, Fresh, IdleJob, NoConfigs, Names, MayName

\* The entries keep naming what they may, while thread t writes as t may.
LEMMA NameTracker ==
  ASSUME TypeInv, NameInv, NEW t \in Threads, TrackerStep(t) PROVE NameInv'
<1> USE TrackerAssumption
<1> DEFINE j == job[t]
<1>0. /\ j \in Jobs /\ JobOK(t, j) /\ cast \in Casts /\ job \in [Threads -> Jobs]
      /\ cast.writes \in [Threads -> Nat] /\ cast' = cast
      /\ \A x \in Prefixes : NameOK(x, j)
      /\ Fresh(writes[t], j)
  BY DEF TypeInv, TypeOK, NameInv, TrackerStep, Begin, ReadPrevious, Write, ReadConfigs,
     SkipConfig, ReadRoot, LastConfig, CasHit, CasMiss, Clear, List, Rebuild, Load, Refresh
<1>1. ASSUME NEW g, Set(t, g), \A x \in Prefixes : NameOK(x, g), Fresh(writes'[t], g),
             \A u \in Threads \ {t} : writes'[u] = writes[u],
             \A x \in Prefixes : \A c \in ConfigIds :
               Names(index'[c], x) \/ Names(cached'[c], x) => MayName(cast, c, x)
      PROVE  NameInv'
  <2>1. job'[t] = g /\ \A u \in Threads \ {t} : job'[u] = job[u]
    BY <1>0, <1>1 DEF Set
  <2>2. \A u \in Threads : \A x \in Prefixes : NameOK(x, job'[u])
    BY <1>1, <2>1 DEF NameInv
  <2>3. \A u \in Threads : Fresh(writes'[u], job'[u])
    BY <1>1, <2>1 DEF NameInv, Fresh
  <2> QED BY <1>0, <1>1, <2>2, <2>3 DEF NameInv, NameOK
<1>2. ASSUME NEW g \in Jobs, g.target = j.target, g.new = j.new, g.cfgs = j.cfgs
      PROVE  \A x \in Prefixes : NameOK(x, g)
  BY <1>0, <1>2 DEF NameOK
<1>3. \A out : /\ \A x \in Prefixes : NameOK(x, IdleJob(out))
               /\ IdleJob(out).pc = "idle"
  BY DEF NameOK, IdleJob, NoConfigs, Names
<1>4. CASE Begin(t)
  <2>1. PICK p \in Scope[t] : \E v \in Choices[p] \cup {Nil} : Set(t, Job(p, v))
    BY <1>4 DEF Begin
  <2>2. PICK v \in Choices[p] \cup {Nil} : Set(t, Job(p, v))
    BY <2>1
  <2>3. writes[t] \in Nat /\ writes[t] < cast.writes[t] /\ writes'[t] = writes[t] + 1
        /\ \A u \in Threads \ {t} : writes'[u] = writes[u]
    BY <1>0, <1>4 DEF Begin, TypeInv, TypeOK, Shapes
  <2>4. ASSUME NEW x \in Prefixes PROVE NameOK(x, Job(p, v))
    <3>1. p \in ConfigIds => t \in Writers(cast, p)
      BY <1>0, <2>3 DEF Writers
    <3> QED BY <3>1 DEF NameOK, Job, IdleJob, NoConfigs, Names, MayName
  <2>5. Fresh(writes'[t], Job(p, v))
    BY <2>3 DEF Fresh, Job, IdleJob
  <2> QED
    BY <1>1, <1>4, <2>2, <2>3, <2>4, <2>5 DEF Begin, NameInv
<1>5. CASE ReadPrevious(t)
  <2> DEFINE g == [j EXCEPT !.prev = index[j.target], !.pc = "write"]
  <2>1. \A x \in Prefixes : NameOK(x, g)
    BY <1>0 DEF NameOK, Jobs
  <2>2. Fresh(writes'[t], g)
    BY <1>0, <1>5 DEF ReadPrevious, At, Fresh, Jobs
  <2>3. Set(t, g) /\ UNCHANGED <<index, cached, writes>>
    BY <1>5 DEF ReadPrevious
  <2> HIDE DEF g
  <2> QED BY <1>1, <2>1, <2>2, <2>3 DEF NameInv
<1>6. CASE Write(t)
  <2> DEFINE w == [j EXCEPT !.prev = IF j.new = Nil THEN index[j.target] ELSE @]
             g == IF w.prev = w.new THEN IdleJob("noop")
                  ELSE [w EXCEPT !.pc = Branch(w.target)]
  <2>1. j.pc = "write" /\ j.target \in Targets
    BY <1>0, <1>6 DEF Write, At, JobOK, Jobs, Targets
  <2>2. w.target = j.target /\ w.new = j.new /\ w.cfgs = j.cfgs /\ w.tries = j.tries
    BY <1>0 DEF Jobs
  <2>3. \A x \in Prefixes : NameOK(x, g)
    <3>1. CASE w.prev = w.new
      BY <1>3, <3>1
    <3>2. CASE w.prev # w.new
      <4>1. g.target = j.target /\ g.new = j.new /\ g.cfgs = j.cfgs
        BY <1>0, <3>2 DEF Jobs
      <4> QED BY <1>0, <4>1 DEF NameOK
    <3> QED BY <3>1, <3>2
  <2>4. Fresh(writes'[t], g)
    <3>1. CASE w.prev = w.new
      BY <1>3, <3>1 DEF Fresh
    <3>2. CASE w.prev # w.new
      <4>1. g.pc = Branch(w.target) /\ g.tries = 0 /\ writes'[t] > 0
        BY <1>0, <1>6, <2>1, <3>2 DEF Jobs, Fresh, Write
      <4> QED BY <4>1 DEF Fresh
    <3> QED BY <3>1, <3>2
  <2>5. Set(t, g) /\ UNCHANGED <<cached, writes>> /\ index' = [index EXCEPT ![j.target] = j.new]
    BY <1>6, <2>2 DEF Write
  <2>6. \A x \in Prefixes : \A c \in ConfigIds : Names(index'[c], x) => MayName(cast, c, x)
    BY <1>0, <2>1, <2>5 DEF NameInv, NameOK, TypeInv, TypeOK, Targets
  <2> HIDE DEF g
  <2> QED BY <1>1, <2>3, <2>4, <2>5, <2>6 DEF NameInv
<1>7. CASE ReadConfigs(t)
  <2> DEFINE g == [j EXCEPT !.cfgs = cached, !.pc = "root"]
  <2>1. \A x \in Prefixes : NameOK(x, g)
    BY <1>0 DEF NameOK, Jobs, NameInv
  <2>2. Fresh(writes'[t], g)
    BY <1>0, <1>7 DEF ReadConfigs, At, Fresh, Jobs
  <2>3. Set(t, g) /\ UNCHANGED <<index, cached, writes>>
    BY <1>7 DEF ReadConfigs
  <2> HIDE DEF g
  <2> QED BY <1>1, <2>1, <2>2, <2>3 DEF NameInv
<1>8. CASE Load(t)
  <2> DEFINE g == [j EXCEPT !.cfgs = Entries, !.pc = "refresh"]
  <2>1. \A x \in Prefixes : NameOK(x, g)
    BY <1>0 DEF NameOK, Jobs, NameInv, Entries
  <2>2. Fresh(writes'[t], g)
    BY <1>0, <1>8 DEF Load, At, Fresh, Jobs
  <2>3. Set(t, g) /\ UNCHANGED <<index, cached, writes>>
    BY <1>8 DEF Load
  <2> HIDE DEF g
  <2> QED BY <1>1, <2>1, <2>2, <2>3 DEF NameInv
<1>9. CASE SkipConfig(t) \/ ReadRoot(t) \/ LastConfig(t) \/ CasHit(t) \/ CasMiss(t)
           \/ Clear(t) \/ List(t) \/ Rebuild(t) \/ Refresh(t)
  <2>1. /\ UNCHANGED <<index, writes>> /\ (cached' = cached \/ cached' = j.cfgs)
        /\ j.pc \notin {"idle", "read", "write", "configs"}
    BY <1>9 DEF SkipConfig, ReadRoot, LastConfig, CasHit, CasMiss, Clear, List, Rebuild, Refresh, At
  <2>2. PICK g : /\ Set(t, g) /\ g.pc \notin {"read", "write", "configs"}
                 /\ \/ g.target = j.target /\ g.new = j.new /\ g.cfgs = j.cfgs
                    \/ g = IdleJob("halted")
    <3> DEFINE Same(g) == /\ g.pc \notin {"read", "write", "configs"}
                          /\ g.target = j.target /\ g.new = j.new /\ g.cfgs = j.cfgs
    <3>1. ASSUME NEW pc \in PCs \ {"read", "write", "configs"} PROVE Same([j EXCEPT !.pc = pc])
      BY <1>0 DEF Jobs
    <3>2. ASSUME NEW cur, NEW pc \in PCs \ {"read", "write", "configs"}
          PROVE  Same([j EXCEPT !.cur = cur, !.pc = pc])
      BY <1>0 DEF Jobs
    <3>3. Same(NextConfig(j)) /\ Same([j EXCEPT !.tries = @ + 1, !.cur = Nil, !.pc = "root"])
      BY <1>0 DEF Jobs, NextConfig
    <3> HIDE DEF Same
    <3>4. \E g : Set(t, g) /\ (Same(g) \/ g = IdleJob("halted"))
      <4>1. CASE SkipConfig(t) \/ CasHit(t)
        BY <3>3, <4>1 DEF SkipConfig, CasHit
      <4>2. CASE ReadRoot(t)
        BY <3>2, <3>3, <4>2 DEF ReadRoot, PCs
      <4>3. CASE CasMiss(t)
        BY <3>3, <4>3 DEF CasMiss
      <4>4. CASE LastConfig(t) \/ Rebuild(t) \/ Refresh(t)
        BY <3>1, <4>4 DEF LastConfig, Rebuild, Refresh, PCs
      <4>5. CASE List(t)
        BY <3>2, <4>5 DEF List, PCs
      <4>6. CASE Clear(t)
        BY <3>1, <4>6 DEF Clear, PCs
      <4> QED BY <1>9, <4>1, <4>2, <4>3, <4>4, <4>5, <4>6
    <3> QED BY <1>3, <3>4 DEF Same
  <2>3. \A x \in Prefixes : NameOK(x, g)
    BY <1>0, <1>3, <2>2 DEF NameOK
  <2>4. Fresh(writes'[t], g)
    BY <1>0, <2>1, <2>2 DEF Fresh
  <2>5. \A x \in Prefixes : \A c \in ConfigIds :
          Names(index'[c], x) \/ Names(cached'[c], x) => MayName(cast, c, x)
    BY <1>0, <2>1 DEF NameInv, NameOK
  <2> QED BY <1>1, <2>1, <2>2, <2>3, <2>4, <2>5
<1> QED
  BY <1>4, <1>5, <1>6, <1>7, <1>8, <1>9 DEF TrackerStep

\* The engine and a crash only end writes.
LEMMA NameVersion ==
  ASSUME VTypeInv, NameInv, NEW t \in Threads, VersionStep(t) PROVE NameInv'
<1>1. /\ UNCHANGED <<index, cached, writes, cast>>
      /\ UNCHANGED job \/ \E out : Set(t, IdleJob(out))
  BY DEF VersionStep, Skip, ReadHead, ReadTrackedRoot, HeadHit, HeadMiss, AdvanceBranch, vars,
     Halt, Settle
<1>2. \A u \in Threads : job'[u] = job[u] \/ \E out : job'[u] = IdleJob(out)
  BY <1>1 DEF Set, VTypeInv, TypeInv, TypeOK
<1>3. \A out, x, n : NameOK(x, IdleJob(out)) /\ Fresh(n, IdleJob(out))
  BY TrackerAssumption DEF NameOK, Fresh, IdleJob, NoConfigs, Names
<1>4. \A u \in Threads :
        (\A x \in Prefixes : NameOK(x, job'[u])) /\ Fresh(writes'[u], job'[u])
  BY <1>1, <1>2, <1>3 DEF NameInv
<1> QED BY <1>1, <1>4 DEF NameInv, NameOK

LEMMA NameRestart == ASSUME NameInv, Restart PROVE NameInv'
<1>1. \A out, x, n : NameOK(x, IdleJob(out)) /\ Fresh(n, IdleJob(out))
  BY TrackerAssumption DEF NameOK, Fresh, IdleJob, NoConfigs, Names
<1>2. UNCHANGED <<index, writes, cast>> /\ \A c \in ConfigIds : cached'[c] = index[c]
  BY DEF Restart, Entries
<1>3. \A u \in Threads : job'[u] = IdleJob("none")
  BY DEF Restart
<1>4. \A u \in Threads :
        (\A x \in Prefixes : NameOK(x, job'[u])) /\ Fresh(writes'[u], job'[u])
  BY <1>1, <1>3
<1> QED BY <1>2, <1>4 DEF NameInv, NameOK

-----------------------------------------------------------------------------
(* The writes that are past a prefix.                                       *)

\* The write in progress can no longer move the root of x.
Done(j, x) ==
  \/ j.pc \in {"idle", "load", "refresh"}
  \/ Passed(j, x)
  \/ j.pc \in {"list", "rebuild"} /\ j.new.prefix # x

\* The config in hand is for x.
InHand(j, x) == j.pc \in {"root", "cas"} /\ j.k <= NumConfigs /\ Names(j.cfgs[j.k], x)

Past(t, x) == Settled(writes, t, {u \in Threads : Done(job[u], x)})

\* A step of t leaves the others alone, takes none of its writes back from those
\* past x, and adds one as it moves the root of x.
Advances(t, x) ==
  /\ \A u \in Threads \ {t} : job'[u] = job[u] /\ writes'[u] = writes[u]
  /\ \/ writes'[t] = writes[t] + 1
     \/ writes'[t] = writes[t] /\ (Done(job[t], x) => Done(job'[t], x))
  /\ root'[x] # root[x] =>
       /\ writes'[t] = writes[t] /\ ~At(t, "idle")
       /\ ~Done(job[t], x) /\ Done(job'[t], x)

\* Every step of the tracker's hook does, if x has one entry at most: apply_event
\* then stores the root of x once per write.
LEMMA TrackerAdvances ==
  ASSUME TypeInv, NameInv, NEW x \in Prefixes, OneEntry(cast, x),
         NEW t \in Threads, TrackerStep(t)
  PROVE  Advances(t, x)
<1> USE TrackerAssumption
<1> DEFINE j == job[t]
<1>0. j \in Jobs /\ JobOK(t, j) /\ job \in [Threads -> Jobs] /\ NameOK(x, j)
  BY DEF TypeInv, TypeOK, NameInv
<1>1. ASSUME NEW g, Set(t, g), Done(j, x) => Done(g, x), writes' = writes,
             root'[x] # root[x] => ~Done(j, x) /\ Done(g, x)
      PROVE  Advances(t, x)
  <2>1. job'[t] = g /\ \A u \in Threads \ {t} : job'[u] = job[u]
    BY <1>0, <1>1 DEF Set
  <2> QED BY <1>1, <2>1 DEF Advances, At, Done
<1>2. \A out : Done(IdleJob(out), x)
  BY DEF Done, IdleJob
<1>3. j.pc \in {"root", "cas"} /\ j.k <= NumConfigs =>
        /\ Done(j, x) => Done(NextConfig(j), x)
        /\ IsOn(j.cfgs[j.k]) /\ j.cfgs[j.k].prefix = x => Done(NextConfig(j), x)
  BY <1>0 DEF Done, Passed, NextConfig, Jobs, ConfigIds
<1>4. CASE Begin(t)
  BY <1>0, <1>4 DEF Begin, Set, Advances, TypeInv, Shapes
<1>5. CASE ReadPrevious(t) \/ Write(t) \/ ReadConfigs(t)
  <2>1. ~Done(j, x) /\ root' = root /\ writes' = writes /\ \E g : Set(t, g)
    BY <1>5 DEF ReadPrevious, Write, ReadConfigs, At, Done, Passed
  <2> QED BY <1>1, <2>1
<1>6. CASE SkipConfig(t)
  BY <1>1, <1>3, <1>6 DEF SkipConfig, At
<1>7. CASE ReadRoot(t)
  <2> DEFINE g == [j EXCEPT !.cur = root[j.cfgs[j.k].prefix], !.pc = "cas"]
  <2>1. Done(j, x) => Done(g, x)
    BY <1>0, <1>7 DEF ReadRoot, At, Done, Passed, Jobs
  <2>2. Set(t, g) \/ Set(t, NextConfig(j))
    BY <1>7 DEF ReadRoot
  <2> HIDE DEF g
  <2> QED BY <1>1, <1>3, <1>7, <2>1, <2>2 DEF ReadRoot, At
<1>8. CASE LastConfig(t)
  <2> DEFINE g == [j EXCEPT !.pc = "tracked"]
  <2>1. Done(g, x)
    BY <1>0 DEF Done, Passed, Jobs
  <2> HIDE DEF g
  <2> QED BY <1>1, <1>8, <2>1 DEF LastConfig, g
<1>9. CASE CasHit(t)
  <2> DEFINE y == j.cfgs[j.k].prefix
  <2>1. j.pc = "cas" /\ j.k \in ConfigIds /\ IsOn(j.cfgs[j.k]) /\ y \in Prefixes
    BY <1>0, <1>9 DEF CasHit, At, JobOK, Jobs, Applies, ConfigIds, IsOn, Configs
  <2>2. Set(t, NextConfig(j)) /\ writes' = writes /\ (y # x => root'[x] = root[x])
    BY <1>9, <2>1 DEF CasHit, TypeInv, Shapes
  <2>3. y = x => ~Done(j, x)
    <3> SUFFICES ASSUME y = x, NEW i \in ConfigIds, i < j.k, IsOn(j.cfgs[i]), j.cfgs[i].prefix = x
                 PROVE  FALSE
      BY <2>1 DEF Done, Passed
    <3>1. MayName(cast, i, x) /\ MayName(cast, j.k, x)
      BY <1>0, <2>1 DEF NameOK, Names, IsOn
    <3> QED BY <2>1, <3>1 DEF OneEntry, ConfigIds
  <2>4. j.k <= NumConfigs
    BY <2>1 DEF ConfigIds
  <2> QED BY <1>1, <1>3, <2>1, <2>2, <2>3, <2>4
<1>10. CASE CasMiss(t)
  <2> DEFINE g == [j EXCEPT !.tries = @ + 1, !.cur = Nil, !.pc = "root"]
  <2>1. Done(j, x) => Done(g, x)
    BY <1>0, <1>10 DEF CasMiss, At, Done, Passed, Jobs
  <2>2. (Set(t, g) \/ Set(t, IdleJob("halted"))) /\ UNCHANGED <<root, writes>>
    BY <1>10 DEF CasMiss
  <2> HIDE DEF g
  <2> QED BY <1>1, <1>2, <2>1, <2>2
<1>11. CASE Clear(t)
  <2> DEFINE g == [j EXCEPT !.pc = IF Rebuilds(j.prev, j.new) THEN "list" ELSE "load"]
  <2>1. ~Done(j, x) /\ Set(t, g) /\ writes' = writes
    BY <1>11 DEF Clear, At, Done, Passed
  <2>2. root'[x] # root[x] => Clears(j.prev, j.new) /\ j.prev.prefix = x
    BY <1>11 DEF Clear, TypeInv, Shapes
  <2>3. Clears(j.prev, j.new) /\ j.prev.prefix = x /\ Rebuilds(j.prev, j.new) => j.new.prefix # x
    BY DEF Clears, Rebuilds, IsOn
  <2>4. root'[x] # root[x] => Done(g, x)
    BY <1>0, <2>2, <2>3 DEF Done, Jobs
  <2> HIDE DEF g
  <2> QED BY <1>1, <2>1, <2>4
<1>12. CASE List(t)
  <2> DEFINE g == [j EXCEPT !.cur = TrieOf(j.new.prefix), !.pc = "rebuild"]
  <2>1. Done(j, x) => Done(g, x)
    BY <1>0, <1>12 DEF List, At, Done, Passed, Jobs
  <2>2. Set(t, g) /\ UNCHANGED <<root, writes>>
    BY <1>12 DEF List
  <2> HIDE DEF g
  <2> QED BY <1>1, <2>1, <2>2
<1>13. CASE Rebuild(t)
  <2> DEFINE g == [j EXCEPT !.pc = "load"]
  <2>1. Done(g, x) /\ (j.new.prefix = x => ~Done(j, x))
    BY <1>0, <1>13 DEF Rebuild, At, Done, Passed, Jobs
  <2>2. Set(t, g) /\ writes' = writes /\ (root'[x] # root[x] => j.new.prefix = x)
    BY <1>13 DEF Rebuild, TypeInv, Shapes
  <2> HIDE DEF g
  <2> QED BY <1>1, <2>1, <2>2
<1>14. CASE Load(t)
  <2> DEFINE g == [j EXCEPT !.cfgs = Entries, !.pc = "refresh"]
  <2>1. Done(g, x)
    BY <1>0 DEF Done, Jobs
  <2> HIDE DEF g
  <2> QED BY <1>1, <1>14, <2>1 DEF Load, g
<1>15. CASE Refresh(t)
  <2> DEFINE g == [j EXCEPT !.pc = "tracked"]
  <2>1. Done(g, x)
    BY <1>0 DEF Done, Passed, Jobs
  <2> HIDE DEF g
  <2> QED BY <1>1, <1>15, <2>1 DEF Refresh, g
<1> QED
  BY <1>4, <1>5, <1>6, <1>7, <1>8, <1>9, <1>10, <1>11, <1>12, <1>13, <1>14, <1>15
  DEF TrackerStep

\* So the writes past x only get more, and one more when the root of x moves.
LEMMA PastGrows ==
  ASSUME TypeInv, TypeInv', NameInv, NEW x, NEW t \in Threads, Advances(t, x), NEW u \in Threads
  PROVE  /\ Cardinality(Past(u, x)) \in Nat
         /\ Cardinality(Past(u, x))' \in Nat
         /\ Cardinality(Past(u, x)) <= Cardinality(Past(u, x))'
         /\ u # t /\ root'[x] # root[x] =>
              Cardinality(Past(u, x)) + 1 <= Cardinality(Past(u, x))'
<1> DEFINE D == {v \in Threads : Done(job[v], x)}
           E == {v \in Threads : Done(job'[v], x)}
<1>1. \A v \in Threads : writes[v] \in Nat /\ writes'[v] \in Nat
  BY TrackerAssumption DEF TypeInv, TypeOK
<1>2. /\ \A v \in Threads \ {t} : writes'[v] = writes[v] /\ (v \in D => v \in E)
      /\ writes'[t] = writes[t] + 1 \/ (writes'[t] = writes[t] /\ (t \in D => t \in E))
      /\ root'[x] # root[x] =>
           writes'[t] = writes[t] /\ writes[t] > 0 /\ t \notin D /\ t \in E
  BY DEF Advances, NameInv, Fresh, At
<1>3. Past(u, x) = Settled(writes, u, D) /\ Past(u, x)' = Settled(writes', u, E)
  BY DEF Past, Settled, Done, Passed
<1> HIDE DEF D, E
<1> QED BY <1>1, <1>2, <1>3, SettledGrows

-----------------------------------------------------------------------------
(* The races for the root.                                                  *)

\* A hook about to swap has lost the race already if the root moved.
Behind(j, r) == IF j.pc = "cas" /\ r # j.cur THEN 1 ELSE 0

RaceInv(x) ==
  \A t \in Threads \ Deep :
    InHand(job[t], x) => job[t].tries + Behind(job[t], root[x]) <= Cardinality(Past(t, x))

\* What a step of t adds to the races it lost itself.
Races(t, x) ==
  InHand(job'[t], x) =>
    \/ job'[t].tries = 0 /\ Behind(job'[t], root'[x]) = 0
    \/ /\ InHand(job[t], x)
       /\ job'[t].tries + Behind(job'[t], root'[x]) <= job[t].tries + Behind(job[t], root[x])

LEMMA TrackerRaces ==
  ASSUME TypeInv, NameInv, NEW x \in Prefixes, NEW t \in Threads \ Deep, TrackerStep(t)
  PROVE  Races(t, x)
<1> USE TrackerAssumption
<1> DEFINE j == job[t]
<1>0. j \in Jobs /\ JobOK(t, j) /\ job \in [Threads -> Jobs] /\ Fresh(writes[t], j)
  BY DEF TypeInv, TypeOK, NameInv
<1>1. \A g : Set(t, g) => job'[t] = g
  BY <1>0 DEF Set
<1>2. NextConfig(j).tries = 0 /\ NextConfig(j).pc = "root"
  BY <1>0 DEF NextConfig, Jobs
<1>3. CASE SkipConfig(t) \/ CasHit(t)
  BY <1>1, <1>2, <1>3 DEF SkipConfig, CasHit, Races, Behind
<1>4. CASE ReadConfigs(t)
  <2> DEFINE g == [j EXCEPT !.cfgs = cached, !.pc = "root"]
  <2>1. Set(t, g) /\ g.tries = 0 /\ g.pc = "root"
    BY <1>0, <1>4 DEF ReadConfigs, At, Fresh, Jobs
  <2> QED BY <1>1, <2>1 DEF Races, Behind
<1>5. CASE ReadRoot(t)
  <2> DEFINE y == j.cfgs[j.k].prefix
             g == [j EXCEPT !.cur = root[y], !.pc = "cas"]
  <2>1. /\ g.tries = j.tries /\ g.pc = "cas" /\ g.k = j.k /\ g.cfgs = j.cfgs /\ g.cur = root[y]
        /\ j.tries \in Nat
    BY <1>0 DEF Jobs
  <2>2. Set(t, NextConfig(j)) \/ Set(t, g)
    BY <1>5 DEF ReadRoot
  <2>3. CASE Set(t, NextConfig(j))
    BY <1>1, <1>2, <2>3 DEF Races, Behind
  <2>4. CASE Set(t, g)
    <3>1. job'[t] = g /\ root' = root /\ j.pc = "root"
      BY <1>1, <1>5, <2>4 DEF ReadRoot, At
    <3>2. InHand(g, x) => InHand(j, x) /\ y = x
      BY <2>1, <3>1 DEF InHand, Names
    <3>3. InHand(g, x) => Behind(g, root'[x]) = 0 /\ Behind(j, root[x]) = 0
      BY <2>1, <3>1, <3>2 DEF Behind
    <3> QED BY <2>1, <3>1, <3>2, <3>3 DEF Races
  <2> QED BY <2>2, <2>3, <2>4
<1>6. CASE CasMiss(t)
  <2> DEFINE y == j.cfgs[j.k].prefix
             g == [j EXCEPT !.tries = @ + 1, !.cur = Nil, !.pc = "root"]
  <2>1. /\ g.tries = j.tries + 1 /\ g.pc = "root" /\ g.k = j.k /\ g.cfgs = j.cfgs
        /\ j.tries \in Nat
    BY <1>0 DEF Jobs
  <2>2. j.pc = "cas" /\ root[y] # j.cur /\ (Set(t, g) \/ Set(t, IdleJob("halted")))
    BY <1>6 DEF CasMiss, At
  <2>3. CASE Set(t, IdleJob("halted"))
    BY <1>1, <2>3 DEF Races, InHand, IdleJob
  <2>4. CASE Set(t, g)
    <3>1. job'[t] = g
      BY <1>1, <2>4
    <3>2. InHand(g, x) => InHand(j, x) /\ y = x
      BY <2>1, <2>2 DEF InHand, Names
    <3>3. InHand(g, x) => Behind(g, root'[x]) = 0 /\ Behind(j, root[x]) = 1
      BY <2>1, <2>2, <3>2 DEF Behind
    <3> QED BY <2>1, <3>1, <3>2, <3>3 DEF Races
  <2> QED BY <2>2, <2>3, <2>4
<1>7. CASE Begin(t) \/ ReadPrevious(t) \/ Write(t) \/ LastConfig(t) \/ Clear(t) \/ List(t)
           \/ Rebuild(t) \/ Load(t) \/ Refresh(t)
  <2>1. job'[t].pc \notin {"root", "cas"}
    <3>1. \A p, v : Job(p, v).pc \in {"read", "write"} /\ IdleJob("noop").pc = "idle"
      BY DEF Job, IdleJob
    <3>2. CASE Begin(t)
      BY <1>1, <3>1, <3>2 DEF Begin
    <3>3. CASE Write(t)
      <4> DEFINE w == [j EXCEPT !.prev = IF j.new = Nil THEN index[j.target] ELSE @]
                 g == [w EXCEPT !.pc = Branch(w.target)]
      <4>1. g.pc = Branch(w.target)
        BY <1>0 DEF Jobs
      <4>2. Set(t, IdleJob("noop")) \/ Set(t, g)
        BY <3>3 DEF Write
      <4> HIDE DEF g, w
      <4> QED BY <1>1, <3>1, <4>1, <4>2 DEF Branch
    <3>4. \A pc : [j EXCEPT !.pc = pc].pc = pc
      BY <1>0 DEF Jobs
    <3>5. CASE LastConfig(t) \/ Rebuild(t) \/ Refresh(t)
      BY <1>1, <3>4, <3>5 DEF LastConfig, Rebuild, Refresh
    <3>6. CASE Clear(t)
      BY <1>1, <3>4, <3>6 DEF Clear
    <3>7. CASE ReadPrevious(t)
      BY <1>0, <1>1, <3>7 DEF ReadPrevious, Jobs
    <3>8. CASE List(t)
      BY <1>0, <1>1, <3>8 DEF List, Jobs
    <3>9. CASE Load(t)
      BY <1>0, <1>1, <3>9 DEF Load, Jobs
    <3> QED BY <1>7, <3>2, <3>3, <3>5, <3>6, <3>7, <3>8, <3>9
  <2> QED BY <2>1 DEF Races, InHand
<1> QED
  BY <1>3, <1>4, <1>5, <1>6, <1>7 DEF TrackerStep

\* No step of t breaks the bound, neither for t nor for the others.
LEMMA RaceStep ==
  ASSUME TypeInv, TypeInv', NameInv, NEW x, RaceInv(x), NEW t \in Threads, Advances(t, x),
         t \notin Deep => Races(t, x)
  PROVE  RaceInv(x)'
<1> SUFFICES ASSUME NEW u \in Threads \ Deep, InHand(job'[u], x)
             PROVE  job'[u].tries + Behind(job'[u], root'[x]) <= Cardinality(Past(u, x))'
  BY DEF RaceInv, InHand
<1>1. job[u].tries \in Nat /\ job'[u].tries \in Nat
  BY TrackerAssumption DEF TypeInv, TypeOK, Jobs
<1>2. \A j, r : Behind(j, r) \in {0, 1}
  BY DEF Behind
<1>3. /\ Cardinality(Past(u, x)) \in Nat /\ Cardinality(Past(u, x))' \in Nat
      /\ Cardinality(Past(u, x)) <= Cardinality(Past(u, x))'
      /\ u # t /\ root'[x] # root[x] =>
           Cardinality(Past(u, x)) + 1 <= Cardinality(Past(u, x))'
  BY PastGrows
<1>4. InHand(job[u], x) => job[u].tries + Behind(job[u], root[x]) <= Cardinality(Past(u, x))
  BY DEF RaceInv
<1>5. CASE u = t
  BY <1>1, <1>2, <1>3, <1>4, <1>5 DEF Races
<1>6. CASE u # t
  <2>1. job'[u] = job[u]
    BY <1>6 DEF Advances
  <2> QED BY <1>1, <1>2, <1>3, <1>4, <1>6, <2>1
<1> QED BY <1>5, <1>6

\* The engine does not touch the root of x, and a crash ends all races.
LEMMA RaceVersion ==
  ASSUME VTypeInv, VTypeInv', NameInv, NEW x \in Prefixes, RaceInv(x), NEW t \in Threads,
         VersionStep(t)
  PROVE  RaceInv(x)'
<1>1. /\ UNCHANGED <<root, writes>> /\ At(t, "tracked") /\ (job' = job \/ job'[t].pc = "idle")
      /\ \A u \in Threads \ {t} : job'[u] = job[u]
  BY VersionEffect
<1>2. Advances(t, x)
  BY <1>1 DEF Advances, Done
<1>3. Races(t, x)
  BY <1>1 DEF Races, InHand, At
<1> QED BY <1>2, <1>3, RaceStep DEF VTypeInv

LEMMA RaceRestart == ASSUME NEW x, Restart PROVE RaceInv(x)'
  BY DEF Restart, RaceInv, InHand, IdleJob

-----------------------------------------------------------------------------
(* The races for the head.                                                  *)

\* The writes of the others that can no longer move the head.
HeadPast(t) ==
  Settled(writes, t, {u \in Threads : At(u, "idle") \/ ver[u].pc = "branch"})

HeadBehind(e, h) == IF e.pc \in {"root", "cas"} /\ h # e.head THEN 1 ELSE 0

HeadInv ==
  \A t \in Threads \ Deep :
    ver[t].tries + HeadBehind(ver[t], head) <= Cardinality(HeadPast(t))

\* A step of t leaves the others alone, and a write that moves the head is past it.
HeadAdvances(t) ==
  /\ \A u \in Threads \ {t} :
       writes'[u] = writes[u] /\ (At(u, "idle") => At(u, "idle")') /\ ver'[u] = ver[u]
  /\ \/ writes'[t] = writes[t] + 1
     \/ /\ writes'[t] = writes[t]
        /\ At(t, "idle") \/ ver[t].pc = "branch" => At(t, "idle")' \/ ver'[t].pc = "branch"
  /\ head' # head =>
       /\ writes'[t] = writes[t] /\ ~At(t, "idle")
       /\ ver[t].pc # "branch" /\ ver'[t].pc = "branch"

\* What a step of t adds to the races it lost itself.
HeadRaces(t) ==
  \/ ver'[t].tries = 0 /\ HeadBehind(ver'[t], head') = 0
  \/ ver'[t].tries + HeadBehind(ver'[t], head') <= ver[t].tries + HeadBehind(ver[t], head)

\* No such step breaks the bound.
LEMMA HeadStep ==
  ASSUME VTypeInv, VTypeInv', NameInv, HeadInv, NEW t \in Threads, HeadAdvances(t),
         t \notin Deep => HeadRaces(t)
  PROVE  HeadInv'
<1> SUFFICES ASSUME NEW u \in Threads \ Deep
             PROVE  ver'[u].tries + HeadBehind(ver'[u], head') <= Cardinality(HeadPast(u))'
  BY DEF HeadInv, HeadBehind
<1> DEFINE D == {v \in Threads : At(v, "idle") \/ ver[v].pc = "branch"}
           E == {v \in Threads : At(v, "idle")' \/ ver'[v].pc = "branch"}
<1>1. \A v \in Threads : writes[v] \in Nat /\ writes'[v] \in Nat
  BY TrackerAssumption DEF VTypeInv, TypeInv, TypeOK
<1>2. ver[u].tries \in Nat /\ ver'[u].tries \in Nat
  BY VersionAssumption DEF VTypeInv, VTypeOK
<1>3. /\ \A v \in Threads \ {t} : writes'[v] = writes[v] /\ (v \in D => v \in E)
      /\ writes'[t] = writes[t] + 1 \/ (writes'[t] = writes[t] /\ (t \in D => t \in E))
      /\ head' # head => writes'[t] = writes[t] /\ writes[t] > 0 /\ t \notin D /\ t \in E
  BY DEF HeadAdvances, NameInv, Fresh, At
<1>4. HeadPast(u) = Settled(writes, u, D) /\ HeadPast(u)' = Settled(writes', u, E)
  BY DEF HeadPast, Settled, At
<1>5. /\ Cardinality(HeadPast(u)) \in Nat /\ Cardinality(HeadPast(u))' \in Nat
      /\ Cardinality(HeadPast(u)) <= Cardinality(HeadPast(u))'
      /\ u # t /\ head' # head => Cardinality(HeadPast(u)) + 1 <= Cardinality(HeadPast(u))'
  <2> HIDE DEF D, E
  <2> QED BY <1>1, <1>3, <1>4, SettledGrows
<1>6. \A e, h : HeadBehind(e, h) \in {0, 1}
  BY DEF HeadBehind
<1>7. ver[u].tries + HeadBehind(ver[u], head) <= Cardinality(HeadPast(u))
  BY DEF HeadInv
<1>8. CASE u = t
  BY <1>2, <1>5, <1>6, <1>7, <1>8 DEF HeadRaces
<1>9. CASE u # t
  <2>1. ver'[u] = ver[u] /\ (head' = head => HeadBehind(ver'[u], head') = HeadBehind(ver[u], head))
    BY <1>9 DEF HeadAdvances
  <2> QED BY <1>2, <1>5, <1>6, <1>7, <1>9, <2>1
<1> QED BY <1>8, <1>9

\* The tracker's hook does not touch the head.
LEMMA HeadTrack ==
  ASSUME VTypeInv, VTypeInv', NameInv, HeadInv, NEW t \in Threads, Track(t)
  PROVE  HeadInv'
<1>1. UNCHANGED <<head, ver>> /\ TrackerStep(t)
  BY DEF Track
<1>2. \A u \in Threads \ {t} : job'[u] = job[u] /\ writes'[u] = writes[u]
  BY <1>1 DEF TrackerStep, Begin, ReadPrevious, Write, ReadConfigs, SkipConfig, ReadRoot,
     LastConfig, CasHit, CasMiss, Clear, List, Rebuild, Load, Refresh, Set, VTypeInv, TypeInv,
     TypeOK, Shapes
<1>3. writes'[t] = writes[t] + 1 \/ (writes'[t] = writes[t] /\ ~At(t, "idle"))
  BY <1>1 DEF TrackerStep, Begin, ReadPrevious, Write, ReadConfigs, SkipConfig, ReadRoot,
     LastConfig, CasHit, CasMiss, Clear, List, Rebuild, Load, Refresh, At, VTypeInv, TypeInv,
     Shapes
<1>4. HeadAdvances(t)
  BY <1>1, <1>2, <1>3 DEF HeadAdvances, At
<1>5. HeadRaces(t)
  <2>1. ver[t].tries \in Nat /\ HeadBehind(ver[t], head) \in Nat
    BY VersionAssumption DEF VTypeInv, VTypeOK, HeadBehind
  <2> QED BY <1>1, <2>1 DEF HeadRaces
<1> QED BY <1>4, <1>5, HeadStep

\* The engine moves the head once per write, and reads it again after a lost race.
LEMMA HeadVersion ==
  ASSUME VTypeInv, VTypeInv', NameInv, HeadInv, NEW t \in Threads, VersionStep(t)
  PROVE  HeadInv'
<1> DEFINE e == ver[t]
<1>0. /\ e \in Emits /\ ver \in [Threads -> Emits] /\ e.tries \in Nat
      /\ \A d, h : HeadBehind(d, h) \in {0, 1}
  BY VersionAssumption DEF VTypeInv, VTypeOK, Emits, HeadBehind
<1>1. /\ UNCHANGED writes /\ At(t, "tracked")
      /\ job' = job \/ job'[t].pc = "idle"
      /\ \A u \in Threads \ {t} : job'[u] = job[u] /\ ver'[u] = ver[u]
  BY VersionEffect
<1>2. ASSUME NEW d, SetVer(t, d), e.pc = "branch" => At(t, "idle")' \/ d.pc = "branch",
             head' # head => e.pc # "branch" /\ d.pc = "branch",
             t \notin Deep =>
               \/ d.tries = 0 /\ d.pc \in {"off", "branch"}
               \/ d.tries + HeadBehind(d, head') <= e.tries + HeadBehind(e, head)
      PROVE  HeadInv'
  <2>1. ver'[t] = d
    BY <1>0, <1>2 DEF SetVer
  <2>2. HeadAdvances(t)
    BY <1>1, <1>2, <2>1 DEF HeadAdvances, At
  <2>3. t \notin Deep => HeadRaces(t)
    BY <1>2, <2>1 DEF HeadRaces, HeadBehind
  <2> QED BY <2>2, <2>3, HeadStep
<1>3. ASSUME NEW out, Settle(t, out), head' = head PROVE HeadInv'
  <2>1. SetVer(t, Off) /\ Off.tries = 0 /\ Off.pc = "off"
    BY <1>3 DEF Settle, Off, Emit
  <2>2. At(t, "idle")'
    BY <1>3 DEF Settle, Set, At, IdleJob, VTypeInv, TypeInv, TypeOK
  <2> QED BY <1>2, <1>3, <2>1, <2>2
<1>4. CASE Skip(t) \/ AdvanceBranch(t)
  BY <1>3, <1>4 DEF Skip, AdvanceBranch
<1>5. CASE ReadHead(t)
  <2> DEFINE d == Emit("root", head, e.tries)
  <2>1. d.pc = "root" /\ d.tries = e.tries /\ d.head = head
    BY DEF Emit
  <2>2. SetVer(t, d) /\ head' = head /\ e.pc = "off"
    BY <1>5 DEF ReadHead, VAt
  <2>3. HeadBehind(d, head') = 0
    BY <2>1, <2>2 DEF HeadBehind
  <2> HIDE DEF d
  <2> QED BY <1>0, <1>2, <2>1, <2>2, <2>3
<1>6. CASE ReadTrackedRoot(t)
  <2> DEFINE d == [e EXCEPT !.root = FilteredRoot(root[VPrefix]), !.pc = "cas"]
  <2>1. d.pc = "cas" /\ d.tries = e.tries /\ d.head = e.head
    BY <1>0 DEF Emits
  <2>2. /\ head' = head /\ e.pc = "root"
        /\ Settle(t, "halted") \/ Settle(t, "complete") \/ SetVer(t, d)
    BY <1>6 DEF ReadTrackedRoot, VAt, Halt
  <2>3. HeadBehind(d, head') = HeadBehind(e, head)
    BY <2>1, <2>2 DEF HeadBehind
  <2> HIDE DEF d
  <2> QED BY <1>0, <1>2, <1>3, <2>1, <2>2, <2>3
<1>7. CASE HeadHit(t)
  <2> DEFINE d == [e EXCEPT !.pc = "branch"]
  <2>1. d.pc = "branch" /\ d.tries = e.tries
    BY <1>0 DEF Emits
  <2>2. SetVer(t, d) /\ e.pc = "cas"
    BY <1>7 DEF HeadHit, VAt
  <2>3. HeadBehind(d, head') = 0
    BY <2>1 DEF HeadBehind
  <2> HIDE DEF d
  <2> QED BY <1>0, <1>2, <2>1, <2>2, <2>3
<1>8. CASE HeadMiss(t)
  <2> DEFINE d == Emit("off", <<>>, e.tries + 1)
  <2>1. d.pc = "off" /\ d.tries = e.tries + 1
    BY DEF Emit
  <2>2. /\ head' = head /\ e.pc = "cas" /\ (head # e.head \/ t \in Deep)
        /\ Settle(t, "halted") \/ SetVer(t, d)
    BY <1>8 DEF HeadMiss, VAt, Halt
  <2>3. HeadBehind(d, head') = 0 /\ (t \notin Deep => HeadBehind(e, head) = 1)
    BY <2>1, <2>2 DEF HeadBehind
  <2> HIDE DEF d
  <2> QED BY <1>0, <1>2, <1>3, <2>1, <2>2, <2>3
<1> QED
  BY <1>4, <1>5, <1>6, <1>7, <1>8 DEF VersionStep

-----------------------------------------------------------------------------
(* Halts.                                                                   *)

\* No more writes settled than began.
LEMMA SettledBegan ==
  ASSUME TypeInv, NEW t \in Threads, NEW D
  PROVE  /\ Cardinality(Settled(writes, t, D)) \in Nat /\ OthersWrites(t) \in Nat
         /\ Cardinality(Settled(writes, t, D)) <= OthersWrites(t)
<1>1. \A u \in Threads : writes[u] \in Nat
  BY TrackerAssumption DEF TypeInv, TypeOK
<1> QED BY <1>1, SettledCount DEF OthersWrites

\* The writes the others began only get more.
LEMMA BegunGrows ==
  ASSUME TypeInv, TypeInv', NEW t \in Threads,
         \A u \in Threads : writes'[u] = writes[u] \/ (u = t /\ writes'[u] = writes[u] + 1),
         NEW u \in Threads
  PROVE  /\ OthersWrites(u) \in Nat /\ OthersWrites(u)' \in Nat
         /\ OthersWrites(u) <= OthersWrites(u)'
<1>1. \A v \in Threads : writes[v] \in Nat /\ writes'[v] \in Nat
  BY TrackerAssumption DEF TypeInv, TypeOK
<1>2. /\ ByOthers(writes, u) = Settled(writes, u, Threads)
      /\ ByOthers(writes, u)' = Settled(writes', u, Threads)
  BY <1>1 DEF ByOthers, Settled
<1>3. \A v \in Threads \ {t} : writes'[v] = writes[v]
  OBVIOUS
<1>4. writes'[t] = writes[t] + 1 \/ writes'[t] = writes[t]
  OBVIOUS
<1> QED BY <1>1, <1>2, <1>3, <1>4, SettledGrows DEF OthersWrites

\* The tracker's hook gives up after MaxRetries lost races.
LEMMA HaltTracker ==
  ASSUME TypeInv, \A x \in Prefixes : RaceInv(x), NEW t \in Threads \ Deep, TrackerStep(t),
         job'[t].out = "halted"
  PROVE  job[t].out = "halted" \/ OthersWrites(t) >= MaxRetries
<1> USE TrackerAssumption
<1> DEFINE j == job[t]
<1>0. j \in Jobs /\ JobOK(t, j) /\ job \in [Threads -> Jobs] /\ j.tries \in Nat
  BY DEF TypeInv, TypeOK, Jobs
<1>1. \A g : Set(t, g) => job'[t] = g
  BY <1>0 DEF Set
<1>2. CASE CasMiss(t)
  <2> DEFINE x == j.cfgs[j.k].prefix
             g == [j EXCEPT !.tries = @ + 1, !.cur = Nil, !.pc = "root"]
  <2>1. CASE Set(t, g)
    BY <1>0, <1>1, <2>1 DEF Jobs
  <2>2. CASE j.tries + 1 = MaxRetries
    <3>1. j.pc = "cas" /\ root[x] # j.cur
      BY <1>2 DEF CasMiss, At
    <3>2. x \in Prefixes /\ InHand(j, x)
      BY <1>0, <3>1 DEF JobOK, Jobs, Applies, ConfigIds, IsOn, Configs, InHand, Names
    <3>3. MaxRetries <= Cardinality(Past(t, x))
      BY <2>2, <3>1, <3>2 DEF RaceInv, Behind
    <3>4. /\ Cardinality(Past(t, x)) \in Nat /\ OthersWrites(t) \in Nat
          /\ Cardinality(Past(t, x)) <= OthersWrites(t)
      BY SettledBegan DEF Past
    <3> QED BY <3>3, <3>4
  <2>3. Set(t, g) \/ j.tries + 1 = MaxRetries
    BY <1>2 DEF CasMiss
  <2> QED BY <2>1, <2>2, <2>3
<1>3. CASE Begin(t)
  <2>1. \A p, v : Job(p, v).out = "running"
    BY DEF Job, IdleJob
  <2> QED BY <1>1, <1>3, <2>1 DEF Begin
<1>4. CASE Write(t)
  <2> DEFINE w == [j EXCEPT !.prev = IF j.new = Nil THEN index[j.target] ELSE @]
             g == [w EXCEPT !.pc = Branch(w.target)]
  <2>1. g.out = j.out /\ IdleJob("noop").out = "noop"
    BY <1>0 DEF Jobs, IdleJob
  <2>2. Set(t, IdleJob("noop")) \/ Set(t, g)
    BY <1>4 DEF Write
  <2> HIDE DEF g, w
  <2> QED BY <1>1, <2>1, <2>2
<1>5. \A pc : [j EXCEPT !.pc = pc].out = j.out
  BY <1>0 DEF Jobs
<1>6. NextConfig(j).out = j.out
  BY <1>0 DEF Jobs, NextConfig
<1>7. CASE SkipConfig(t) \/ CasHit(t)
  BY <1>1, <1>6, <1>7 DEF SkipConfig, CasHit
<1>8. CASE ReadRoot(t)
  <2> DEFINE g == [j EXCEPT !.cur = root[j.cfgs[j.k].prefix], !.pc = "cas"]
  <2>1. g.out = j.out
    BY <1>0 DEF Jobs
  <2>2. Set(t, NextConfig(j)) \/ Set(t, g)
    BY <1>8 DEF ReadRoot
  <2> HIDE DEF g
  <2> QED BY <1>1, <1>6, <2>1, <2>2
<1>9. CASE LastConfig(t)
  BY <1>1, <1>5, <1>9 DEF LastConfig
<1>10. CASE Clear(t)
  BY <1>1, <1>5, <1>10 DEF Clear
<1>11. CASE Rebuild(t)
  BY <1>1, <1>5, <1>11 DEF Rebuild
<1>12. CASE Refresh(t)
  BY <1>1, <1>5, <1>12 DEF Refresh
<1>13. CASE ReadPrevious(t)
  BY <1>0, <1>1, <1>13 DEF ReadPrevious, Jobs
<1>14. CASE ReadConfigs(t)
  BY <1>0, <1>1, <1>14 DEF ReadConfigs, Jobs
<1>15. CASE List(t)
  BY <1>0, <1>1, <1>15 DEF List, Jobs
<1>16. CASE Load(t)
  BY <1>0, <1>1, <1>16 DEF Load, Jobs
<1> QED
  BY <1>2, <1>3, <1>4, <1>7, <1>8, <1>9, <1>10, <1>11, <1>12, <1>13, <1>14, <1>15, <1>16
  DEF TrackerStep

\* The engine's after MaxHeadRetries, and never for want of a root.
LEMMA HaltVersion ==
  ASSUME VTypeInv, HeadInv, root[VPrefix] # Nil, NEW t \in Threads \ Deep, VersionStep(t),
         job'[t].out = "halted"
  PROVE  job[t].out = "halted" \/ OthersWrites(t) >= MaxHeadRetries
<1>1. ASSUME NEW out, Settle(t, out) PROVE job'[t].out = out
  BY <1>1 DEF Settle, Set, IdleJob, VTypeInv, TypeInv, TypeOK
<1>2. CASE HeadMiss(t)
  <2>1. ver[t].tries \in Nat
    BY VersionAssumption DEF VTypeInv, VTypeOK
  <2>2. CASE ver[t].tries + 1 = MaxHeadRetries
    <3>1. HeadBehind(ver[t], head) = 1
      BY <1>2 DEF HeadMiss, VAt, HeadBehind
    <3>2. MaxHeadRetries <= Cardinality(HeadPast(t))
      BY <2>2, <3>1 DEF HeadInv
    <3>3. /\ Cardinality(HeadPast(t)) \in Nat /\ OthersWrites(t) \in Nat
          /\ Cardinality(HeadPast(t)) <= OthersWrites(t)
      BY SettledBegan DEF HeadPast, VTypeInv
    <3> QED BY <3>2, <3>3, VersionAssumption
  <2> QED BY <1>2, <2>2 DEF HeadMiss
<1>3. CASE Skip(t) \/ AdvanceBranch(t)
  BY <1>1, <1>3 DEF Skip, AdvanceBranch
<1>4. CASE ReadTrackedRoot(t)
  BY <1>1, <1>4 DEF ReadTrackedRoot
<1>5. CASE ReadHead(t) \/ HeadHit(t)
  BY <1>5 DEF ReadHead, HeadHit, vars
<1> QED
  BY <1>2, <1>3, <1>4, <1>5 DEF VersionStep

\* Everything that is needed, in a scenario that keeps the versioned prefix tracked.
HaltInv ==
  StaysTracked(cast) =>
    /\ CfgInv(VPrefix) /\ HeadInv /\ HaltsForCause
    /\ \A x \in Prefixes : RaceInv(x)

LEMMA HaltInit == ASSUME VInit PROVE HaltInv
<1>1. TypeInv /\ Init
  BY TypeInit DEF VInit
<1>2. CfgInv(VPrefix)
  BY <1>1, CfgInit, VersionAssumption
<1>3. \A t \in Threads : job[t] = IdleJob("none") /\ ver[t] = Off
  BY DEF VInit, Init
<1>4. HaltsForCause /\ \A x \in Prefixes : RaceInv(x)
  BY <1>3 DEF HaltsForCause, RaceInv, InHand, IdleJob
<1>5. \A t \in Threads : Cardinality(HeadPast(t)) \in Nat
  BY <1>1, SettledBegan DEF HeadPast
<1>6. HeadInv
  BY <1>3, <1>5 DEF HeadInv, HeadBehind, Off, Emit
<1> QED BY <1>2, <1>4, <1>6 DEF HaltInv

LEMMA HaltStep ==
  ASSUME MaxRetries <= MaxHeadRetries, VTypeInv, VTypeInv', NameInv, HaltInv, [VNext]_allVars
  PROVE  HaltInv'
<1>0. cast' = cast
  BY CastFixed
<1> SUFFICES ASSUME StaysTracked(cast)
             PROVE  /\ CfgInv(VPrefix)' /\ HeadInv' /\ HaltsForCause'
                    /\ \A x \in Prefixes : RaceInv(x)'
  BY <1>0 DEF HaltInv, StaysTracked, Built, ConfigsFixed, OneEntry, MayName, Writers
<1>1. /\ TypeInv /\ TypeInv' /\ CfgInv(VPrefix) /\ HeadInv /\ HaltsForCause
      /\ \A x \in Prefixes : RaceInv(x) /\ OneEntry(cast, x)
      /\ ConfigsFixed(cast, VPrefix) /\ VPrefix \in Prefixes
      /\ root[VPrefix] # Nil
  BY VersionAssumption DEF HaltInv, VTypeInv, StaysTracked, CfgInv
<1>2. ASSUME NEW t \in Threads, \A u \in Threads \ {t} : job'[u] = job[u],
             \A u \in Threads : writes'[u] = writes[u] \/ (u = t /\ writes'[u] = writes[u] + 1),
             t \notin Deep /\ job'[t].out = "halted" =>
               job[t].out = "halted" \/ OthersWrites(t) >= MaxRetries
      PROVE  HaltsForCause'
  <2> SUFFICES ASSUME NEW u \in Threads, job'[u].out = "halted", u \notin Deep
               PROVE  OthersWrites(u)' >= MaxRetries
    BY DEF HaltsForCause
  <2>1. OthersWrites(u) >= MaxRetries
    BY <1>1, <1>2 DEF HaltsForCause
  <2> QED BY <1>1, <1>2, <2>1, BegunGrows, TrackerAssumption
<1>3. CASE UNCHANGED allVars
  BY <1>1, <1>3 DEF allVars, vars, versionVars, CfgInv, SameFor, HeadInv, HeadPast, At, HaltsForCause,
     OthersWrites, ByOthers, RaceInv, Past
<1>4. ASSUME NEW t \in Threads, Track(t)
      PROVE  /\ CfgInv(VPrefix)' /\ HeadInv' /\ HaltsForCause'
             /\ \A x \in Prefixes : RaceInv(x)'
  <2>1. TrackerStep(t)
    BY <1>4 DEF Track
  <2>2. CfgInv(VPrefix)' /\ HeadInv'
    BY <1>1, <1>4, <2>1, CfgTracker, HeadTrack
  <2>3. \A x \in Prefixes : Advances(t, x) /\ (t \notin Deep => Races(t, x))
    BY <1>1, <2>1, TrackerAdvances, TrackerRaces
  <2>4. \A x \in Prefixes : RaceInv(x)'
    BY <1>1, <2>3, RaceStep
  <2>5. HaltsForCause'
    BY <1>1, <1>2, <2>1, <2>3, HaltTracker DEF Advances
  <2> QED BY <2>2, <2>4, <2>5
<1>5. ASSUME NEW t \in Threads, VersionStep(t)
      PROVE  /\ CfgInv(VPrefix)' /\ HeadInv' /\ HaltsForCause'
             /\ \A x \in Prefixes : RaceInv(x)'
  <2>1. UNCHANGED writes /\ \A u \in Threads \ {t} : job'[u] = job[u]
    BY <1>5, VersionEffect
  <2>2. CfgInv(VPrefix)' /\ HeadInv' /\ \A x \in Prefixes : RaceInv(x)'
    BY <1>1, <1>5, CfgVersion, HeadVersion, RaceVersion
  <2>3. OthersWrites(t) \in Nat
    BY <1>1, SettledBegan
  <2>4. t \notin Deep /\ job'[t].out = "halted" =>
          job[t].out = "halted" \/ OthersWrites(t) >= MaxRetries
    BY <1>1, <1>5, <2>3, HaltVersion, TrackerAssumption, VersionAssumption
  <2> QED BY <1>2, <2>1, <2>2, <2>4
<1>6. CASE VRestart
  <2>1. Restart /\ (\A t \in Threads : job'[t] = IdleJob("none") /\ ver'[t] = Off)
    BY <1>6 DEF VRestart, Restart
  <2>2. CfgInv(VPrefix)' /\ \A x \in Prefixes : RaceInv(x)'
    BY <1>1, <2>1, CfgRestart, RaceRestart
  <2>3. HaltsForCause'
    BY <2>1 DEF HaltsForCause, IdleJob
  <2>4. HeadInv'
    <3>1. \A u \in Threads : writes'[u] \in Nat
      BY <1>1, TrackerAssumption DEF TypeInv, TypeOK
    <3>2. ASSUME NEW t \in Threads
          PROVE  ver'[t].tries + HeadBehind(ver'[t], head') <= Cardinality(HeadPast(t))'
      <4>1. Cardinality(HeadPast(t))' \in Nat
        BY <3>1, SettledCount DEF HeadPast
      <4> QED BY <2>1, <4>1 DEF HeadBehind, Off, Emit
    <3> QED BY <3>2 DEF HeadInv, HeadBehind
  <2> QED BY <2>2, <2>3, <2>4
<1> QED
  BY <1>3, <1>4, <1>5, <1>6 DEF VNext

\* All of it together, kept by every step.
LEMMA HaltAlways ==
  ASSUME MaxRetries <= MaxHeadRetries, VTypeInv, NameInv, HaltInv, [VNext]_allVars
  PROVE  VTypeInv' /\ NameInv' /\ HaltInv'
<1>1. VTypeInv' /\ TypeInv
  BY VTypeStep DEF VTypeInv
<1>2. NameInv'
  <2>1. CASE UNCHANGED allVars
    BY <2>1 DEF allVars, vars, NameInv, NameOK
  <2>2. ASSUME NEW t \in Threads, Track(t) PROVE NameInv'
    BY <1>1, <2>2, NameTracker DEF Track
  <2>3. ASSUME NEW t \in Threads, VersionStep(t) PROVE NameInv'
    BY <2>3, NameVersion
  <2>4. CASE VRestart
    BY <2>4, NameRestart DEF VRestart
  <2> QED BY <2>1, <2>2, <2>3, <2>4 DEF VNext
<1>3. HaltInv'
  BY <1>1, HaltStep
<1> QED BY <1>1, <1>2, <1>3

\* A write is given up only by a cascade at the depth limit, or when the other
\* threads began as many writes as it had attempts, in a scenario that keeps the
\* versioned prefix tracked and has one config entry for each prefix.  (In the code
\* both limits of attempts are 64.)
THEOREM NobodyHaltsInVain ==
  ASSUME MaxRetries <= MaxHeadRetries
  PROVE  VSpec => [](StaysTracked(cast) => HaltsForCause)
<1>1. VInit => VTypeInv /\ NameInv /\ HaltInv
  BY VTypeInit, NameInit, HaltInit DEF VInit
<1>2. VTypeInv /\ NameInv /\ HaltInv /\ [VNext]_allVars => VTypeInv' /\ NameInv' /\ HaltInv'
  BY HaltAlways
<1>3. HaltInv => (StaysTracked(cast) => HaltsForCause)
  BY DEF HaltInv
<1> QED
  BY <1>1, <1>2, <1>3, PTL DEF VSpec

-----------------------------------------------------------------------------
(* A burst with fewer writes than attempts.                                 *)

Burst == StaysTracked(cast) /\ SmallBurst(cast)

\* No thread that writes is told of a halt.
LEMMA BurstHalts ==
  ASSUME TypeInv, HaltInv, Burst, NEW t \in Threads, cast.writes[t] > 0
  PROVE  job[t].out # "halted"
<1>1. /\ cast \in Casts /\ \A u \in Threads : writes[u] \in 0..cast.writes[u]
      /\ \A u \in Threads : cast.writes[u] \in Nat
  BY TrackerAssumption DEF TypeInv, TypeOK
<1>2. t \notin Deep /\ Cardinality(ByOthers(cast.writes, t)) < MaxRetries
  BY DEF Burst, SmallBurst
<1>3. IsFiniteSet(ByOthers(cast.writes, t))
  BY <1>1, RowsFinite
<1>4. ByOthers(writes, t) \subseteq ByOthers(cast.writes, t)
  <2> SUFFICES ASSUME NEW w \in ByOthers(writes, t) PROVE w \in ByOthers(cast.writes, t)
    OBVIOUS
  <2>1. PICK u \in Threads \ {t} : w \in {u} \X (1..writes[u])
    BY DEF ByOthers
  <2>2. 1..writes[u] \subseteq 1..cast.writes[u]
    BY <1>1
  <2>3. w \in {u} \X (1..cast.writes[u])
    BY <2>1, <2>2
  <2> QED BY <2>3 DEF ByOthers
<1>5. /\ OthersWrites(t) \in Nat /\ Cardinality(ByOthers(cast.writes, t)) \in Nat
      /\ OthersWrites(t) <= Cardinality(ByOthers(cast.writes, t))
  BY <1>3, <1>4, Outnumbered DEF OthersWrites
<1>6. ~(OthersWrites(t) >= MaxRetries)
  BY <1>2, <1>5, TrackerAssumption
<1> QED BY <1>2, <1>6 DEF HaltInv, HaltsForCause, Burst

\* So that nothing is given up.
GivenUpInv == Burst => lost = {} /\ missed = {}

LEMMA GivenUpStep ==
  ASSUME VTypeInv, VTypeInv', HaltInv', GivenUpInv, [VNext]_allVars
  PROVE  GivenUpInv'
<1>0. cast' = cast /\ Burst' = Burst
  BY CastFixed DEF Burst, StaysTracked, SmallBurst, Built, ConfigsFixed, OneEntry, MayName,
     Writers
<1> SUFFICES ASSUME Burst PROVE lost' = {} /\ missed' = {}
  BY <1>0 DEF GivenUpInv
<1>1. TypeInv /\ TypeInv' /\ lost = {} /\ missed = {} /\ Burst' /\ cast.restarts = 0
  BY <1>0 DEF GivenUpInv, VTypeInv, Burst, SmallBurst
<1>2. ASSUME NEW t \in Threads, Track(t) \/ VersionStep(t)
      PROVE  job'[t].out # "halted" /\ t \notin Deep
  <2>1. cast.writes[t] > 0
    <3>1. CASE job[t].pc = "idle"
      <4>1. writes[t] < cast.writes[t] /\ writes[t] \in Nat /\ cast.writes[t] \in Nat
        BY <1>1, <1>2, <3>1, TrackerAssumption
        DEF Track, TrackerStep, Begin, ReadPrevious, Write, ReadConfigs, SkipConfig, ReadRoot,
            LastConfig, CasHit, CasMiss, Clear, List, Rebuild, Load, Refresh, At, VersionStep,
            Skip, ReadHead, ReadTrackedRoot, HeadHit, HeadMiss, AdvanceBranch, VAt, TypeInv,
            TypeOK
      <4> QED BY <4>1
    <3>2. CASE job[t].pc # "idle"
      BY <1>1, <3>2 DEF TypeInv, JobOK
    <3> QED BY <3>1, <3>2
  <2>2. (TypeInv /\ HaltInv /\ Burst /\ cast.writes[t] > 0 => job[t].out # "halted")'
    BY BurstHalts, PTL
  <2>3. job'[t].out # "halted"
    BY <1>0, <1>1, <2>1, <2>2
  <2> QED BY <2>1, <2>3 DEF Burst, SmallBurst
<1>3. ASSUME NEW t \in Threads, Track(t) PROVE lost' = {} /\ missed' = {}
  <2>1. TrackerStep(t) /\ missed' = {} /\ t \notin Deep /\ job'[t].out # "halted"
    BY <1>1, <1>2, <1>3 DEF Track
  <2>2. CASE CasMiss(t)
    <3>1. job \in [Threads -> Jobs] /\ IdleJob("halted").out = "halted"
      BY <1>1 DEF TypeInv, TypeOK, IdleJob
    <3>2. ~Set(t, IdleJob("halted"))
      BY <2>1, <3>1 DEF Set
    <3> QED BY <1>1, <2>1, <2>2, <3>2 DEF CasMiss
  <2>3. CASE CasHit(t) \/ Clear(t) \/ Rebuild(t)
    BY <1>1, <2>1, <2>3 DEF CasHit, Clear, Rebuild
  <2> QED
    BY <1>1, <2>1, <2>2, <2>3 DEF TrackerStep, Begin, ReadPrevious, Write, ReadConfigs, SkipConfig,
       ReadRoot, LastConfig, List, Load, Refresh
<1>4. ASSUME NEW t \in Threads, VersionStep(t) PROVE lost' = {} /\ missed' = {}
  <2>1. lost' = {} /\ job'[t].out # "halted"
    BY <1>1, <1>2, <1>4, VersionEffect
  <2>2. ~Halt(t)
    BY <1>1, <2>1 DEF Halt, Settle, Set, IdleJob, TypeInv, TypeOK
  <2> QED
    BY <1>1, <1>4, <2>1, <2>2
    DEF VersionStep, Skip, ReadHead, ReadTrackedRoot, HeadHit, HeadMiss, AdvanceBranch
<1>5. ~VRestart
  BY <1>1 DEF VRestart, Restart, TypeInv, TypeOK
<1> QED
  BY <1>1, <1>3, <1>4, <1>5 DEF VNext, allVars, vars, versionVars

\* In a burst with fewer writes than attempts every write that returned is in the
\* version the head names, and no root lacks one: no write is lost to contention.
THEOREM SmallBurstCaptured ==
  ASSUME MaxRetries <= MaxHeadRetries PROVE VSpec => []BurstCaptured
<1> DEFINE Inv == VTypeInv /\ NameInv /\ HaltInv /\ VersionedInv /\ GivenUpInv
<1>1. VInit => Inv
  BY VTypeInit, NameInit, HaltInit, VersionedInit DEF VInit, Init, GivenUpInv
<1>2. Inv /\ [VNext]_allVars => Inv'
  BY HaltAlways, VersionedStep, GivenUpStep
<1>3. Inv => BurstCaptured
  <2> SUFFICES ASSUME Inv, VersionedAlone(cast), Burst,
                      NEW p \in Under[VPrefix] \ (Excluded \cup Tagged)
               PROVE  Pending(p) \/ Versioned(p) = index[p]
    BY DEF BurstCaptured, GivenUpInv, Burst
  <2>1. p \notin missed /\ CapInv(p)
    BY DEF GivenUpInv, VersionedInv
  <2>2. \A t : After(t, p) => ~At(t, "idle") /\ job[t].target = p
    BY DEF After, Hooked, At
  <2> QED BY <2>1, <2>2 DEF CapInv, Nobody, Pending
<1> QED
  BY <1>1, <1>2, <1>3, PTL DEF VSpec

-----------------------------------------------------------------------------
(* A cascade has less and less to do.                                       *)

LEMMA Lexical ==
  ASSUME NEW a1, NEW a2, NEW a3, NEW a4, NEW b1, NEW b2, NEW b3, NEW b4,
         \/ a1 < b1
         \/ a1 = b1 /\ a2 < b2
         \/ a1 = b1 /\ a2 = b2 /\ a3 < b3
         \/ a1 = b1 /\ a2 = b2 /\ a3 = b3 /\ a4 < b4
  PROVE  Less(<<a1, a2, a3, a4>>, <<b1, b2, b3, b4>>)
<1> DEFINE a == <<a1, a2, a3, a4>>
           b == <<b1, b2, b3, b4>>
<1>1. /\ a[1] = a1 /\ a[2] = a2 /\ a[3] = a3 /\ a[4] = a4
      /\ b[1] = b1 /\ b[2] = b2 /\ b[3] = b3 /\ b[4] = b4
  OBVIOUS
<1> SUFFICES Less(a, b)
  OBVIOUS
<1> HIDE DEF a, b
<1>2. /\ \A h \in 1..(1 - 1) : a[h] = b[h]
      /\ a1 = b1 => \A h \in 1..(2 - 1) : a[h] = b[h]
      /\ a1 = b1 /\ a2 = b2 => \A h \in 1..(3 - 1) : a[h] = b[h]
      /\ a1 = b1 /\ a2 = b2 /\ a3 = b3 => \A h \in 1..(4 - 1) : a[h] = b[h]
  BY <1>1
<1>3. CASE a1 < b1
  BY <1>1, <1>2, <1>3 DEF Less
<1>4. CASE a1 = b1 /\ a2 < b2
  BY <1>1, <1>2, <1>4 DEF Less
<1>5. CASE a1 = b1 /\ a2 = b2 /\ a3 < b3
  BY <1>1, <1>2, <1>5 DEF Less
<1>6. CASE a1 = b1 /\ a2 = b2 /\ a3 = b3 /\ a4 < b4
  BY <1>1, <1>2, <1>6 DEF Less
<1> QED BY <1>3, <1>4, <1>5, <1>6

\* The stages, in the order of the hook's two branches.
LEMMA Stages ==
  /\ Stage["read"] = 8 /\ Stage["write"] = 7 /\ Stage["configs"] = 6 /\ Stage["root"] = 5
  /\ Stage["cas"] = 5 /\ Stage["clear"] = 6 /\ Stage["list"] = 5 /\ Stage["rebuild"] = 4
  /\ Stage["load"] = 3 /\ Stage["refresh"] = 2 /\ Stage["tracked"] = 1 /\ Stage["idle"] = 0
  BY DEF Stage

LEMMA NextStage ==
  ASSUME NEW j, NEW e, NEW g, NEW f, Stage[g.pc] < Stage[j.pc]
  PROVE  Less(Work(g, f), Work(j, e))
  BY Lexical DEF Work

\* Between two accesses of apply_event: the next config, the next attempt, or on to
\* the CAS of this one.
LEMMA NextTurn ==
  ASSUME NEW j \in Jobs, NEW e, NEW g \in Jobs, NEW f, {j.pc, g.pc} \subseteq {"root", "cas"},
         \/ g.k = j.k + 1
         \/ g.k = j.k /\ g.tries = j.tries + 1
         \/ g.k = j.k /\ g.tries = j.tries /\ j.pc = "root" /\ g.pc = "cas"
  PROVE  Less(Work(g, f), Work(j, e))
<1> DEFINE Rank(i) == IF i.pc = "root" THEN 1 ELSE 0
<1>1. /\ Work(j, e) = <<5, NumConfigs + 1 - j.k, MaxRetries - j.tries, Rank(j)>>
      /\ Work(g, f) = <<5, NumConfigs + 1 - g.k, MaxRetries - g.tries, Rank(g)>>
  BY Stages DEF Work
<1>2. /\ NumConfigs \in Nat /\ MaxRetries \in Nat /\ j.k \in Nat /\ g.k \in Nat
      /\ j.tries \in Nat /\ g.tries \in Nat
  BY TrackerAssumption DEF Jobs
<1>3. \/ NumConfigs + 1 - g.k < NumConfigs + 1 - j.k
      \/ g.k = j.k /\ MaxRetries - g.tries < MaxRetries - j.tries
      \/ g.k = j.k /\ g.tries = j.tries /\ Rank(g) < Rank(j)
  BY <1>2
<1> HIDE DEF Rank
<1> QED BY <1>1, <1>3, Lexical

\* The tracker's hook.
LEMMA WorkTracker ==
  ASSUME TypeInv, TypeInv', NEW t \in Threads, TrackerStep(t), ~At(t, "idle"), NEW e, NEW f
  PROVE  Less(Work(job'[t], f), Work(job[t], e))
<1> USE TrackerAssumption
<1> DEFINE j == job[t]
           g == job'[t]
<1>0. j \in Jobs /\ g \in Jobs /\ job \in [Threads -> Jobs] /\ j.pc # "idle"
  BY DEF TypeInv, TypeOK, At
<1>1. \A i : Set(t, i) => g = i
  BY <1>0 DEF Set
<1>2. CASE SkipConfig(t) \/ CasHit(t)
  <2>1. j.pc \in {"root", "cas"} /\ g = NextConfig(j)
    BY <1>1, <1>2 DEF SkipConfig, CasHit, At
  <2>2. g.pc = "root" /\ g.k = j.k + 1
    BY <1>0, <2>1 DEF NextConfig, Jobs
  <2> QED BY <1>0, <2>1, <2>2, NextTurn
<1>3. CASE ReadRoot(t)
  <2> DEFINE r == root[j.cfgs[j.k].prefix]
  <2>1. j.pc = "root" /\ (g = NextConfig(j) \/ g = [j EXCEPT !.cur = r, !.pc = "cas"])
    BY <1>1, <1>3 DEF ReadRoot, At
  <2>2. \/ g.pc = "root" /\ g.k = j.k + 1
        \/ g.pc = "cas" /\ g.k = j.k /\ g.tries = j.tries
    BY <1>0, <2>1 DEF NextConfig, Jobs
  <2> QED BY <1>0, <2>1, <2>2, NextTurn
<1>4. CASE CasMiss(t)
  <2>1. CASE g = IdleJob("halted")
    <3>1. j.pc = "cas" /\ g.pc = "idle"
      BY <1>4, <2>1 DEF CasMiss, At, IdleJob
    <3> QED BY <3>1, Stages, NextStage
  <2>2. CASE g = [j EXCEPT !.tries = @ + 1, !.cur = Nil, !.pc = "root"]
    <3>1. j.pc = "cas" /\ g.pc = "root" /\ g.k = j.k /\ g.tries = j.tries + 1
      BY <1>0, <1>4, <2>2 DEF CasMiss, At, Jobs
    <3> QED BY <1>0, <3>1, NextTurn
  <2> QED BY <1>1, <1>4, <2>1, <2>2 DEF CasMiss
<1>5. CASE ~(SkipConfig(t) \/ ReadRoot(t) \/ CasHit(t) \/ CasMiss(t))
  <2>1. \A pc : [j EXCEPT !.pc = pc].pc = pc
    BY <1>0 DEF Jobs
  <2>2. CASE Write(t)
    <3> DEFINE w == [j EXCEPT !.prev = IF j.new = Nil THEN index[j.target] ELSE @]
               v == [w EXCEPT !.pc = Branch(w.target)]
    <3>1. /\ v.pc \in {"tracked", "clear", "configs"}
          /\ IdleJob("noop").pc = "idle"
      BY <1>0 DEF Jobs, IdleJob, Branch
    <3>2. j.pc = "write" /\ (Set(t, IdleJob("noop")) \/ Set(t, v))
      BY <2>2 DEF Write, At
    <3> HIDE DEF v, w
    <3> QED BY <1>1, <3>1, <3>2, Stages, NextStage
  <2>3. CASE LastConfig(t)
    <3>1. j.pc = "root" /\ g.pc = "tracked"
      BY <1>1, <2>1, <2>3 DEF LastConfig, At
    <3> QED BY <3>1, Stages, NextStage
  <2>4. CASE Clear(t)
    <3>1. j.pc = "clear" /\ g.pc \in {"list", "load"}
      BY <1>1, <2>1, <2>4 DEF Clear, At
    <3> QED BY <3>1, Stages, NextStage
  <2>5. CASE Rebuild(t)
    <3>1. j.pc = "rebuild" /\ g.pc = "load"
      BY <1>1, <2>1, <2>5 DEF Rebuild, At
    <3> QED BY <3>1, Stages, NextStage
  <2>6. CASE Refresh(t)
    <3>1. j.pc = "refresh" /\ g.pc = "tracked"
      BY <1>1, <2>1, <2>6 DEF Refresh, At
    <3> QED BY <3>1, Stages, NextStage
  <2>7. CASE ReadPrevious(t)
    <3>1. j.pc = "read" /\ g.pc = "write"
      BY <1>0, <1>1, <2>7 DEF ReadPrevious, At, Jobs
    <3> QED BY <3>1, Stages, NextStage
  <2>8. CASE ReadConfigs(t)
    <3>1. j.pc = "configs" /\ g.pc = "root"
      BY <1>0, <1>1, <2>8 DEF ReadConfigs, At, Jobs
    <3> QED BY <3>1, Stages, NextStage
  <2>9. CASE List(t)
    <3>1. j.pc = "list" /\ g.pc = "rebuild"
      BY <1>0, <1>1, <2>9 DEF List, At, Jobs
    <3> QED BY <3>1, Stages, NextStage
  <2>10. CASE Load(t)
    <3>1. j.pc = "load" /\ g.pc = "refresh"
      BY <1>0, <1>1, <2>10 DEF Load, At, Jobs
    <3> QED BY <3>1, Stages, NextStage
  <2>11. ~Begin(t)
    BY DEF Begin
  <2> QED
    BY <1>5, <2>2, <2>3, <2>4, <2>5, <2>6, <2>7, <2>8, <2>9, <2>10, <2>11 DEF TrackerStep
<1> QED BY <1>2, <1>3, <1>4, <1>5

\* The engine's.
LEMMA WorkVersion ==
  ASSUME VTypeInv, NEW t \in Threads, VersionStep(t)
  PROVE  Less(Work(job'[t], ver'[t]), Work(job[t], ver[t]))
<1> DEFINE e == ver[t]
           f == ver'[t]
<1>0. /\ job[t].pc = "tracked" /\ job \in [Threads -> Jobs]
      /\ e \in [pc : VPCs, head : Versions, root : Tries(VPrefix) \cup {Nil},
                tries : 0..(MaxHeadRetries - 1)]
      /\ e.tries \in Nat /\ MaxHeadRetries \in Nat
  BY VersionEffect, VersionAssumption DEF At, VTypeInv, VTypeOK, TypeOK
<1>1. CASE job'[t].pc = "idle"
  BY <1>0, <1>1, Stages, NextStage
<1>2. ASSUME job' = job,
             \/ f.tries = e.tries + 1
             \/ f.tries = e.tries /\ Place[f.pc] < Place[e.pc]
      PROVE  Less(Work(job'[t], f), Work(job[t], e))
  <2>1. /\ Work(job[t], e) = <<1, 0, MaxHeadRetries - e.tries, Place[e.pc]>>
        /\ Work(job'[t], f) = <<1, 0, MaxHeadRetries - f.tries, Place[f.pc]>>
    BY <1>0, <1>2, Stages DEF Work
  <2>2. \/ MaxHeadRetries - f.tries < MaxHeadRetries - e.tries
        \/ f.tries = e.tries /\ Place[f.pc] < Place[e.pc]
    BY <1>0, <1>2
  <2> QED BY <2>1, <2>2, Lexical
<1>3. Place["off"] = 3 /\ Place["root"] = 2 /\ Place["cas"] = 1 /\ Place["branch"] = 0
  BY DEF Place
<1>4. \A v : SetVer(t, v) => f = v
  BY DEF SetVer, VTypeInv, VTypeOK
<1>5. \A out : Settle(t, out) => job'[t].pc = "idle"
  BY <1>0 DEF Settle, Set, IdleJob
<1>6. CASE Skip(t) \/ AdvanceBranch(t)
  BY <1>1, <1>5, <1>6 DEF Skip, AdvanceBranch
<1>7. CASE ReadHead(t)
  <2>1. job' = job /\ e.pc = "off" /\ f.pc = "root" /\ f.tries = e.tries
    BY <1>4, <1>7 DEF ReadHead, VAt, Emit, vars
  <2> QED BY <1>2, <1>3, <2>1
<1>8. CASE ReadTrackedRoot(t)
  <2> DEFINE v == [e EXCEPT !.root = FilteredRoot(root[VPrefix]), !.pc = "cas"]
  <2>1. v.pc = "cas" /\ v.tries = e.tries
    BY <1>0
  <2>2. e.pc = "root" /\ (job'[t].pc = "idle" \/ (job' = job /\ f = v))
    BY <1>4, <1>5, <1>8 DEF ReadTrackedRoot, VAt, Halt
  <2> HIDE DEF v
  <2> QED BY <1>1, <1>2, <1>3, <2>1, <2>2
<1>9. CASE HeadHit(t)
  <2>1. job' = job /\ e.pc = "cas" /\ f.pc = "branch" /\ f.tries = e.tries
    BY <1>0, <1>4, <1>9 DEF HeadHit, VAt, vars
  <2> QED BY <1>2, <1>3, <2>1
<1>10. CASE HeadMiss(t)
  <2>1. job'[t].pc = "idle" \/ (job' = job /\ f.tries = e.tries + 1)
    BY <1>4, <1>5, <1>10 DEF HeadMiss, Halt, Emit
  <2> QED BY <1>1, <1>2, <2>1
<1> QED
  BY <1>6, <1>7, <1>8, <1>9, <1>10 DEF VersionStep

\* Every cascade ends after a bounded number of its own steps, however often it is
\* overtaken: no retry loop of the tracker or of the engine starts over.
THEOREM EveryCascadeEnds == VSpec => CascadesEnd
<1> DEFINE Falls(t) ==
             ~At(t, "idle") /\ <<job[t], ver[t]>>' # <<job[t], ver[t]>>
               => Less(Work(job[t], ver[t])', Work(job[t], ver[t]))
<1>1. ASSUME VTypeInv, VTypeInv', VNext PROVE \A t \in Threads : Falls(t)
  <2>0. TypeInv /\ TypeInv' /\ job \in [Threads -> Jobs]
    BY <1>1 DEF VTypeInv, TypeInv, TypeOK
  <2>1. \A t \in Threads : Work(job[t], ver[t])' = Work(job'[t], ver'[t])
    BY DEF Work
  <2>2. ASSUME NEW u \in Threads, Track(u), NEW t \in Threads PROVE Falls(t)
    <3>1. CASE t = u
      BY <2>0, <2>1, <2>2, <3>1, WorkTracker DEF Track
    <3>2. CASE t # u
      <4>1. \E i : Set(u, i)
        BY <2>2 DEF Track, TrackerStep, Begin, ReadPrevious, Write, ReadConfigs, SkipConfig,
           ReadRoot, LastConfig, CasHit, CasMiss, Clear, List, Rebuild, Load, Refresh
      <4>2. job'[t] = job[t] /\ ver'[t] = ver[t]
        BY <2>0, <2>2, <3>2, <4>1 DEF Set, Track
      <4> QED BY <4>2
    <3> QED BY <3>1, <3>2
  <2>3. ASSUME NEW u \in Threads, VersionStep(u), NEW t \in Threads PROVE Falls(t)
    <3>1. CASE t = u
      BY <1>1, <2>1, <2>3, <3>1, WorkVersion
    <3>2. CASE t # u
      BY <1>1, <2>3, <3>2, VersionEffect
    <3> QED BY <3>1, <3>2
  <2>4. ASSUME VRestart, NEW t \in Threads, ~At(t, "idle") PROVE Falls(t)
    <3>1. job'[t].pc = "idle" /\ job[t].pc \in PCs \ {"idle"}
      BY <2>0, <2>4 DEF VRestart, Restart, IdleJob, Jobs, At
    <3>2. Stage[job'[t].pc] < Stage[job[t].pc]
      BY <3>1, Stages DEF PCs
    <3> QED BY <2>1, <3>2, NextStage
  <2> QED BY <1>1, <2>2, <2>3, <2>4 DEF VNext
<1>2. VTypeInv /\ VTypeInv' /\ [VNext]_allVars => [\A t \in Threads : Falls(t)]_allVars
  BY <1>1
<1> QED
  BY <1>2, VTypeInit, VTypeStep, PTL DEF VSpec, CascadesEnd
=============================================================================
