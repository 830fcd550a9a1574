------------------------------ MODULE RootTracker ------------------------------
(***************************************************************************)
(* The incremental trie root tracker of core/tree: a Phase 1 hook that     *)
(* keeps, for every enabled tracking config, the root of a trie over the   *)
(* bindings under the config's prefix.                                     *)
(*                                                                         *)
(* Threads write content paths and config entries; each write is followed, *)
(* on the writer's own thread and with no lock held, by the tracker's      *)
(* hook.  Every access of the hook to the location index or to its config  *)
(* cache is one action.                                                    *)
(*                                                                         *)
(* A trie is content addressed and its shape is canonical (module Trie),   *)
(* so a root hash is represented by the bindings it commits to: a function *)
(* from the paths under the prefix to their values, Nil where unbound.     *)
(***************************************************************************)
EXTENDS Naturals, FiniteSets

CONSTANTS
  Threads,       \* tasks that write
  Paths,         \* content paths
  Tagged,        \* the content paths only feedback-loop handlers write
  Prefixes,      \* prefixes a config may name
  Under,         \* Under[x]: the paths and config entries under prefix x
  NumConfigs,    \* names under system/tree/tracking-config/
  Hashes,        \* content hashes
  Nil,           \* unbound, or no stored root
  Scope,         \* Scope[t]: the paths and config entries thread t writes
  Choices,       \* Choices[p]: the values written at p besides Nil
  Deep,          \* the threads whose cascades may be at the index's depth limit
  MaxRetries,    \* MAX_ROOT_CAS_RETRIES
  Casts          \* bound: per scenario, the config entries bootstrap finds, how
                 \* often each thread writes and how often the peer crashes

ConfigIds == 1..NumConfigs
Configs   == [prefix : Prefixes, enabled : BOOLEAN]
Targets   == Paths \cup ConfigIds
Values    == Hashes \cup Configs \cup {Nil}

ASSUME TrackerAssumption ==
  /\ NumConfigs \in Nat
  /\ Tagged \subseteq Paths
  /\ Paths \cap ConfigIds = {}
  /\ Under \in [Prefixes -> SUBSET Targets]
  /\ Scope \in [Threads -> SUBSET Targets]
  /\ Choices \in [Targets -> SUBSET (Values \ {Nil})]
  /\ \A p \in Paths : Choices[p] \subseteq Hashes
  /\ \A c \in ConfigIds : Choices[c] \subseteq Configs
  /\ Deep \subseteq Threads
  /\ MaxRetries \in Nat \ {0}
  /\ \A s \in Casts : /\ s.configs \in [ConfigIds -> Configs \cup {Nil}]
                      /\ s.writes \in [Threads -> Nat]
                      /\ s.restarts \in Nat
  /\ Nil \notin Hashes \cup Configs \cup Paths
  /\ \A x \in Prefixes : Nil \notin [Under[x] -> Values]

ASSUME ThreadsFinite == IsFiniteSet(Threads)

VARIABLES
  index,     \* the bindings: target -> value or Nil
  root,      \* system/tree/root/{prefix}: Nil, or the bindings committed to
  cached,    \* cached_configs, by config entry
  job,       \* per thread, its write in progress
  lost,      \* history: <<prefix, path>> a halted cascade left out of the root,
             \* <<prefix, Nil>> if the index refused a config's build or clear
  writes,    \* per thread, writes begun (bounded by the cast)
  restarts,  \* crashes so far (bounded by the cast)
  cast       \* the scenario, fixed for a behaviour

vars == <<index, root, cached, job, lost, writes, restarts, cast>>

Tries(x)  == [Under[x] -> Values]
TrieOf(x) == [p \in Under[x] |-> index[p]]
Entries   == [c \in ConfigIds |-> index[c]]

\* trie_put (a value) and trie_remove (Nil) on a root, or on none.
TriePut(x, r, p, v) ==
  [q \in Under[x] |-> IF q = p THEN v ELSE IF r = Nil THEN Nil ELSE r[q]]

-----------------------------------------------------------------------------
(* A write in progress: target and new are the write, prev the previous     *)
(* binding its event reports, cfgs a copy of the configs, k the config in   *)
(* hand, cur the root read (or the trie built), tries the lost CAS races.   *)

PCs == {"idle", "read", "write", "configs", "root", "cas", "clear", "list",
        "rebuild", "load", "refresh", "tracked"}

NoConfigs == [c \in ConfigIds |-> Nil]

IdleJob(out) ==
  [pc |-> "idle", target |-> Nil, new |-> Nil, prev |-> Nil,
   cfgs |-> NoConfigs, k |-> 1, cur |-> Nil, tries |-> 0, out |-> out]

Job(p, v) ==
  [IdleJob("running") EXCEPT !.pc = IF v = Nil THEN "write" ELSE "read",
                             !.target = p, !.new = v]

IsOn(c) == c # Nil /\ c.enabled

\* bootstrap: build every enabled prefix, then fill the cache.
Built(x, entries) == \E c \in ConfigIds : IsOn(entries[c]) /\ entries[c].prefix = x

Init ==
  /\ cast \in Casts
  /\ index = [p \in Targets |-> IF p \in ConfigIds THEN cast.configs[p] ELSE Nil]
  /\ root = [x \in Prefixes |-> IF Built(x, cast.configs) THEN TrieOf(x) ELSE Nil]
  /\ cached = cast.configs
  /\ job = [t \in Threads |-> IdleJob("none")]
  /\ lost = {}
  /\ writes = [t \in Threads |-> 0]
  /\ restarts = 0

At(t, pc) == job[t].pc = pc

Set(t, j) == job' = [job EXCEPT ![t] = j]

Begin(t) ==
  /\ At(t, "idle")
  /\ writes[t] < cast.writes[t]
  /\ \E p \in Scope[t] : \E v \in Choices[p] \cup {Nil} : Set(t, Job(p, v))
  /\ writes' = [writes EXCEPT ![t] = @ + 1]
  /\ UNCHANGED <<index, root, cached, lost, restarts, cast>>

ReadPrevious(t) ==
  /\ At(t, "read")
  /\ Set(t, [job[t] EXCEPT !.prev = index[job[t].target], !.pc = "write"])
  /\ UNCHANGED <<index, root, cached, lost, writes, restarts, cast>>

\* Where the hook goes for this event: writes tagged by a feedback-loop handler
\* are ignored, and config entries have a branch of their own.
Branch(p) == IF p \in Tagged THEN "tracked"
             ELSE IF p \in ConfigIds THEN "clear" ELSE "configs"

\* The mutation, its no-op suppression and the dispatch of its event.
Write(t) ==
  /\ At(t, "write")
  /\ LET w == job[t]
         j == [w EXCEPT !.prev = IF w.new = Nil THEN index[w.target] ELSE @]
     IN  /\ index' = [index EXCEPT ![j.target] = j.new]
         /\ Set(t, IF j.prev = j.new THEN IdleJob("noop")
                   ELSE [j EXCEPT !.pc = Branch(j.target)])
  /\ UNCHANGED <<root, cached, lost, writes, restarts, cast>>

-----------------------------------------------------------------------------
(* on_tree_change for a content path.                                       *)

ReadConfigs(t) ==
  /\ At(t, "configs")
  /\ Set(t, [job[t] EXCEPT !.cfgs = cached, !.pc = "root"])
  /\ UNCHANGED <<index, root, cached, lost, writes, restarts, cast>>

\* The config in hand is enabled and its prefix covers the written path.
Applies(j, k) == IsOn(j.cfgs[k]) /\ j.target \in Under[j.cfgs[k].prefix]

NextConfig(j) == [j EXCEPT !.k = @ + 1, !.tries = 0, !.cur = Nil, !.pc = "root"]

\* The root this attempt of apply_event stores: the event applied to r.
Applied(j, r) == TriePut(j.cfgs[j.k].prefix, r, j.target, j.new)

SkipConfig(t) ==
  /\ At(t, "root")
  /\ job[t].k <= NumConfigs
  /\ ~Applies(job[t], job[t].k)
  /\ Set(t, NextConfig(job[t]))
  /\ UNCHANGED <<index, root, cached, lost, writes, restarts, cast>>

\* apply_event reads the root; the event may already be reflected in it.
ReadRoot(t) ==
  /\ At(t, "root")
  /\ job[t].k <= NumConfigs
  /\ Applies(job[t], job[t].k)
  /\ LET j == job[t]
         r == root[j.cfgs[j.k].prefix]
     IN  \/ /\ r = Applied(j, r)
            /\ Set(t, NextConfig(j))
         \/ /\ r # Applied(j, r)
            /\ Set(t, [j EXCEPT !.cur = r, !.pc = "cas"])
  /\ UNCHANGED <<index, root, cached, lost, writes, restarts, cast>>

\* After the last config the hook returns Ok.
LastConfig(t) ==
  /\ At(t, "root")
  /\ job[t].k = NumConfigs + 1
  /\ Set(t, [job[t] EXCEPT !.pc = "tracked"])
  /\ UNCHANGED <<index, root, cached, lost, writes, restarts, cast>>

\* Mutant: the root is stored with a plain set.
CasHitBlind(t) ==
  /\ At(t, "cas")
  /\ LET j == job[t]
         x == j.cfgs[j.k].prefix
     IN  /\ root' = [root EXCEPT ![x] = Applied(j, j.cur)]
         /\ lost' = lost \ {<<x, j.target>>}
         /\ Set(t, NextConfig(j))
  /\ UNCHANGED <<index, cached, writes, restarts, cast>>

\* compare_and_swap, or compare_and_create when there was no root.
CasHit(t) ==
  /\ At(t, "cas")
  /\ LET j == job[t]
         x == j.cfgs[j.k].prefix
     IN  /\ root[x] = j.cur
         /\ root' = [root EXCEPT ![x] = Applied(j, j.cur)]
         /\ lost' = lost \ {<<x, j.target>>}
         /\ Set(t, NextConfig(j))
  /\ UNCHANGED <<index, cached, writes, restarts, cast>>

\* A lost race (or a refusal at the cascade limit, reported the same way): read
\* again, until the attempts are used up and the cascade halts.
CasMiss(t) ==
  /\ At(t, "cas")
  /\ LET j == job[t]
         x == j.cfgs[j.k].prefix
     IN  /\ root[x] # j.cur \/ t \in Deep
         /\ \/ /\ j.tries + 1 < MaxRetries
               /\ Set(t, [j EXCEPT !.tries = @ + 1, !.cur = Nil, !.pc = "root"])
               /\ UNCHANGED lost
            \/ /\ j.tries + 1 = MaxRetries
               /\ Set(t, IdleJob("halted"))
               /\ lost' = lost \cup {<<j.cfgs[k].prefix, j.target>> :
                            k \in {i \in j.k..NumConfigs : Applies(j, i)}}
  /\ UNCHANGED <<index, root, cached, writes, restarts, cast>>

-----------------------------------------------------------------------------
(* on_tree_change for a config entry: handle_config_change, refresh_cache.  *)

\* Mutant: removing an enabled config leaves its root behind.
ClearsOnDisable(prev, new) ==
  /\ prev # Nil
  /\ new # Nil
  /\ new.prefix # prev.prefix \/ (prev.enabled /\ ~new.enabled)

Clears(prev, new) ==
  /\ prev # Nil
  /\ \/ new = Nil
     \/ new # Nil /\ new.prefix # prev.prefix
     \/ new # Nil /\ prev.enabled /\ ~new.enabled

\* Mutant: re-enabling a config builds nothing.
RebuildsNew(prev, new) ==
  /\ IsOn(new)
  /\ \/ prev = Nil
     \/ prev # Nil /\ prev.prefix # new.prefix

Rebuilds(prev, new) ==
  /\ IsOn(new)
  /\ \/ prev = Nil
     \/ prev # Nil /\ prev.prefix # new.prefix
     \/ prev # Nil /\ ~prev.enabled

\* remove_tracked_root, a plain remove.
Clear(t) ==
  /\ At(t, "clear")
  /\ LET j == job[t] IN
       /\ \/ /\ Clears(j.prev, j.new)
             /\ root' = [root EXCEPT ![j.prev.prefix] = Nil]
             /\ lost' = lost \ {<<j.prev.prefix, Nil>>}
          \/ /\ Clears(j.prev, j.new) /\ t \in Deep
             /\ lost' = lost \cup {<<j.prev.prefix, Nil>>}
             /\ UNCHANGED root
          \/ /\ ~Clears(j.prev, j.new)
             /\ UNCHANGED <<root, lost>>
       /\ Set(t, [j EXCEPT !.pc = IF Rebuilds(j.prev, j.new) THEN "list" ELSE "load"])
  /\ UNCHANGED <<index, cached, writes, restarts, cast>>

\* rebuild_prefix lists the bindings ...
List(t) ==
  /\ At(t, "list")
  /\ Set(t, [job[t] EXCEPT !.cur = TrieOf(job[t].new.prefix), !.pc = "rebuild"])
  /\ UNCHANGED <<index, root, cached, lost, writes, restarts, cast>>

\* ... and stores the root built from them with a plain set.
Rebuild(t) ==
  /\ At(t, "rebuild")
  /\ LET j == job[t] IN
       /\ \/ /\ root' = [root EXCEPT ![j.new.prefix] = j.cur]
             /\ lost' = {l \in lost : l[1] # j.new.prefix}
          \/ /\ t \in Deep
             /\ lost' = lost \cup {<<j.new.prefix, Nil>>}
             /\ UNCHANGED root
       /\ Set(t, [j EXCEPT !.pc = "load"])
  /\ UNCHANGED <<index, cached, writes, restarts, cast>>

Load(t) ==
  /\ At(t, "load")
  /\ Set(t, [job[t] EXCEPT !.cfgs = Entries, !.pc = "refresh"])
  /\ UNCHANGED <<index, root, cached, lost, writes, restarts, cast>>

Refresh(t) ==
  /\ At(t, "refresh")
  /\ cached' = job[t].cfgs
  /\ Set(t, [job[t] EXCEPT !.pc = "tracked"])
  /\ UNCHANGED <<index, root, lost, writes, restarts, cast>>

\* The tracker's hook returned Ok, and no later hook is modelled here.
Finish(t) ==
  /\ At(t, "tracked")
  /\ Set(t, IdleJob("complete"))
  /\ UNCHANGED <<index, root, cached, lost, writes, restarts, cast>>

\* The peer stops between two steps and comes up again on the same storage.
Restart ==
  /\ restarts < cast.restarts
  /\ restarts' = restarts + 1
  /\ root' = [x \in Prefixes |-> IF Built(x, Entries) THEN TrieOf(x) ELSE root[x]]
  /\ cached' = Entries
  /\ job' = [t \in Threads |-> IdleJob("none")]
  /\ lost' = {l \in lost : ~Built(l[1], Entries)}
  /\ UNCHANGED <<index, writes, cast>>

TrackerStep(t) ==
  \/ Begin(t) \/ ReadPrevious(t) \/ Write(t)
  \/ ReadConfigs(t) \/ SkipConfig(t) \/ ReadRoot(t) \/ LastConfig(t)
  \/ CasHit(t) \/ CasMiss(t)
  \/ Clear(t) \/ List(t) \/ Rebuild(t) \/ Load(t) \/ Refresh(t)

Next == (\E t \in Threads : TrackerStep(t) \/ Finish(t)) \/ Restart

Spec == Init /\ [][Next]_vars

-----------------------------------------------------------------------------
(* Properties.                                                              *)

\* What a hook may have read as a root, or built.
Roots == {Nil} \cup UNION {Tries(x) : x \in Prefixes}

Jobs ==
  [pc : PCs, target : Targets \cup {Nil}, new : Values, prev : Values,
   cfgs : [ConfigIds -> Configs \cup {Nil}], k : 1..(NumConfigs + 1),
   cur : Roots, tries : 0..(MaxRetries - 1),
   out : {"none", "running", "noop", "complete", "halted"}]

\* Every variable keeps its type.  Not by construction: apply_event counts its
\* attempts below MAX_ROOT_CAS_RETRIES, and a stored root is a trie of its prefix.
TypeOK ==
  /\ index \in [Targets -> Values]
  /\ \A x \in Prefixes : root[x] \in Tries(x) \cup {Nil}
  /\ cached \in [ConfigIds -> Configs \cup {Nil}]
  /\ job \in [Threads -> Jobs]
  /\ lost \subseteq Prefixes \X (Targets \cup {Nil})
  /\ cast \in Casts
  /\ \A t \in Threads : writes[t] \in 0..cast.writes[t]
  /\ restarts \in 0..cast.restarts

\* The threads of scenario s that write p.
Writers(s, p) == {t \in Threads : s.writes[t] > 0 /\ p \in Scope[t]}

\* The config entry is for prefix x.
Names(c, x) == c # Nil /\ c.prefix = x

\* In scenario s no thread writes a config entry that is or was for prefix x: the
\* entries of other prefixes may come and go.
ConfigsFixed(s, x) ==
  \A c \in ConfigIds : Writers(s, c) # {} =>
    ~Names(s.configs[c], x) /\ \A v \in Choices[c] : ~Names(v, x)

\* In scenario s a path has one writer at most, and a config entry has none.
OneWriter(s, p) ==
  /\ \A t, u \in Writers(s, p) : t = u
  /\ p \in ConfigIds => Writers(s, p) = {}

\* Scenario s leaves the configs of x alone, and no two threads write one path of x.
TrackedAlone(s, x) ==
  ConfigsFixed(s, x) /\ \A p \in Under[x] \ Tagged : OneWriter(s, p)

\* In scenario s one thread at most writes config entries and paths of x, and the
\* peer does not stop.
ConfiguredAlone(s, x) ==
  LET shared == ConfigIds \cup (Under[x] \ Tagged)
  IN  /\ s.restarts = 0
      /\ \A p, q \in shared : \A t \in Writers(s, p), u \in Writers(s, q) : t = u

\* In scenario s entry c is for prefix x at first, or may be written so.
MayName(s, c, x) ==
  \/ Names(s.configs[c], x)
  \/ Writers(s, c) # {} /\ \E v \in Choices[c] : Names(v, x)

\* In scenario s no two entries are ever for prefix x.
OneEntry(s, x) ==
  \A c, d \in ConfigIds : MayName(s, c, x) /\ MayName(s, d, x) => c = d

\* ConfiguredAlone and OneEntry, and no entry that lies under x is written.
RebuiltAlone(s, x) ==
  /\ ConfiguredAlone(s, x)
  /\ OneEntry(s, x)
  /\ \A c \in ConfigIds \cap Under[x] : Writers(s, c) = {}

Quiet == \A t \in Threads : At(t, "idle")

Enabled(x) == Built(x, Entries)

\* A write at p (or, with ConfigIds, at a config entry) is in progress.
Pending(p) == \E t \in Threads : ~At(t, "idle") /\ job[t].target = p

\* The stored root of an enabled prefix commits at every path to the binding of
\* the index, unless a write there is in progress.
CurrentAt(x) ==
  Enabled(x) /\ <<x, Nil>> \notin lost =>
    /\ root[x] # Nil
    /\ \A p \in Under[x] \ Tagged :
         Pending(p) \/ <<x, p>> \in lost \/ root[x][p] = index[p]

\* While no config changes, the stored root of an enabled prefix commits at every
\* path to the binding of the index as soon as the last write there returned,
\* whatever the other threads are doing, save at paths whose writer was told by a
\* halt that the root does not reflect it, and where the index refused the build
\* itself (and at the tagged paths, ignored by design).
RootCurrent ==
  (\A c \in ConfigIds : ~Pending(c)) => \A x \in Prefixes : CurrentAt(x)

\* A prefix with no enabled config has no root, unless the index refused to clear it.
ClearedAt(x) == Enabled(x) \/ <<x, Nil>> \in lost \/ root[x] = Nil

\* Once the cascades are over, a prefix with no enabled config has no root, unless
\* the index refused to clear it.
DisabledCleared == Quiet => \A x \in Prefixes : ClearedAt(x)

\* A step that moves the stored root of x moves it at one path only.
OnePathMoves(x) ==
  \A p, q \in Under[x] :
    root[x] # Nil /\ root'[x] # Nil /\ root'[x][p] # root[x][p]
      => root'[x][q] = root[x][q] \/ q = p

\* While no config changes and no crash intervenes, a step that moves a stored
\* root moves it at one path only: no cascade ever undoes what another one put in
\* the root.
NoLostUpdate ==
  [][restarts' = restarts => \A x \in Prefixes : OnePathMoves(x)]_vars

\* The writes of the threads besides t, thread and number, if u has n[u] of them.
ByOthers(n, t) == UNION {{u} \X (1..n[u]) : u \in Threads \ {t}}

\* How many writes the threads besides t began.
OthersWrites(t) == Cardinality(ByOthers(writes, t))

\* A write is given up only by a cascade at the depth limit, or after losing as
\* many races as it had attempts, and every lost race is another write's
\* progress: with more attempts than the others have writes, nobody halts.
HaltsForCause ==
  \A t \in Threads :
    job[t].out = "halted" => t \in Deep \/ OthersWrites(t) >= MaxRetries
=============================================================================
