# A verification project for entity-core (Rust)

entity-core is a peer that keeps a tree of bindings (absolute path -> content
hash) over a content-addressed entity store.  Every change of the tree runs a
cascade of synchronous hooks on the writer's own thread, which derive further
state from it (trie roots, versions, indexes, subscriptions), and is then
broadcast.  Peers dispatch requests to each other over pooled connections, and
continuations carry their results on.  This project models the core of that machine
in TLA+, checks it with
TLC on small instances, and proves with TLAPS most of the safety properties that the
runs check, for every value of the constants.

- [Inventory](#inventory) - the system's parts, their state, their hard behaviours
- [Modules](#modules) - what is modelled, and how it corresponds to the code
- [Runs](#runs) - what TLC checks, with which bounds
- [Proofs](#proofs) - what holds for every value of the constants
- [Findings](#findings) - where the code and its comments disagree
- [Plan](#plan) and [what is not modelled](#not-modelled)

`tlc -config emit.cfg MCNotifyingLocationIndex` checks a run;
`tlapm NotifyingLocationIndexProofs.tla` checks the proofs.  PROJECT.json lists the
runs, the source lines of every definition, the hazards and the theorems.

## Inventory

**Store (`core/store`).**  `ContentStore` maps hashes to entities, `LocationIndex`
maps paths to hashes; in memory each call is atomic under one lock.
`NotifyingLocationIndex` wraps an index: it refuses bad paths and writes at the
cascade limit, mutates, suppresses no-ops, counts the cascade in (a guard counts it
out), tests the accumulated depth of the chain, runs the hooks in registration
order and broadcasts.  It holds no lock from one of these steps to the next, hooks
write to the same index, and the counter is shared by all threads.
*Correct when:* the counter is exact however a cascade ends, the recursion is
bounded, an event reports the binding it replaced, and a call's result says what
happened to the binding.  `NotifyingContentStore` does the same for new entities.
`persist.rs`, `sqlite.rs`, `idb.rs` and `opfs.rs` are persistent back ends.

**Tree (`core/tree`).**  `trie.rs` is a content-addressed hash trie with buckets;
`root_tracker.rs` is the hook (position 6) that keeps a trie root per enabled
tracking config, by CAS loops on `system/tree/root/{prefix}`, and reacts to changes
of the configs; `lib.rs` is the request handler over the tree.
*Correct when:* the trie does not depend on the order of writes, and the stored root
commits to the bindings under its prefix, under concurrent writers, config changes,
refused writes and crashes.

**Revision (`extensions/revision`).**  `engine.rs` is the hook (position 7) that
emits a version for every write under an auto-versioned prefix: it reads the head and
the tracked root, filters excluded paths, and advances head by CAS and the active
branch by a plain set.  `lib.rs`, `merge.rs`, `dag.rs` are the handler: commit,
branch, merge, cherry-pick, revert.
*Correct when:* no completed write is missing from the head's version, history stays
linear under concurrency, excluded paths are never versioned, branch follows head.

**Other hooks on the cascade.**  Clock, history, query index, attestation and role
indexes, subscription matching (position 8), published root.  Each keeps state
derived from events it sees in its own order.

**Continuations (`extensions/continuation`).**  A forward continuation dispatches
the result it is advanced with, and ages by a compare-and-swap loop; a join collects
one result per slot, dispatches when it has all, and starts its next round.  A round
may have a deadline: an advance that touches an expired round, or that sweeps (at
most once a minute), fires it as it is or abandons it.  A join is advanced and reaped
under its path's mutex, held across the dispatch, and the dispatch may advance
another continuation on the same call stack; install takes no lock.
*Correct when:* a round holds results of one generation, counts are used up exactly,
and no advance waits for its own ancestor.

**Other asynchronous work.**  `extensions/subscription` delivers notifications through
sharded queues; `extensions/inbox` advances continuations; `extensions/compute`
re-evaluates expressions.  *Hard:* order of delivery, duplicates.

**Remote calls (`core/peer/src/remote.rs`).**  A pool of one connection per remote
peer; a per-peer dial gate, a reference-counted mutex that its last holder takes out
of the map; on each connection a table of pending requests (id -> oneshot sender) and
a reader task that routes answers, raises a flag when it ends and clears the table.
An explicit dial (`connect_and_pool`) passes the gate by.  Only the wait for the answer
has a deadline: dial, handshake, the writer's mutex and the write have none.
*Correct when:* one `get_or_connect` at a time dials, no caller is left to its deadline
by a reader that is over, nobody's request is resolved or dropped by somebody else's,
a request that was written ends, and one that was not is held up by the network alone.

**Liveness of a remote peer (`liveness.rs`, `keepalive.rs`, `connection_state.rs`).**
The pool and the registry of accepted connections are guarded by mutexes;
`system/peer/status` and `system/connection` are tree entities written after them, by
dispatches that fail, explicit dials, relay forwards, the accept loop, the network
handler and one keepalive loop per connection pooled with a dispatch context.
*Correct when:* only the connection that failed is evicted, a failing status has an
error or missed pings of the endpoint it names behind it, an episode of suspicion ends, a
working binding is believed connected, the connection record is closed with the binding.

**Other peer-level parts.**  `core/protocol` (handshake, dispatch, verification),
`core/capability` (grant chains, attenuation, revocation), transports and NAT
traversal, `extensions/network`, `relay`, `route`, `signaling`, `discovery`,
`registry`, `identity`, `quorum`, `role`.

**Pure parts.**  `core/ecf`, `hash`, `entity`, `wire`, `crypto`, `types`,
`extensions/type-system`, `content`, `encryption`: encodings, validation,
cryptography.  **Bindings and commands** are wrappers around a peer.

PROJECT.json lists all of them, and every hazard at its line.

## Modules

| Module | Models | State | Actions |
|---|---|---|---|
| `NotifyingLocationIndex` | `core/store/src/lib.rs`, the emit pathway | index, cascade counter, chain accumulators, a stack of calls per thread, last result, last broadcast | one per acquisition of a lock, plus what a hook may do |
| `NotifyingLocationIndexProofs` | theorems about it | | |
| `Trie` | `core/tree/src/trie.rs` | key hashes, the trie, the bindings | `TriePut`, `TrieRemove` |
| `RootTracker` | `core/tree/src/root_tracker.rs` | index, stored roots, config cache, a write in progress per thread | one per access of the hook to shared state, and `Restart` |
| `AutoVersion` | `extensions/revision/src/engine.rs`, composed with `RootTracker` in the hook order of `core/peer` | head, branch pointer, an emit in progress per thread | the tracker's, then the engine's |
| `AutoVersionProofs` | theorems about the two | | |
| `AutoVersionHaltProofs` | theorems on halts and on the end of cascades | | |
| `RemoteCall` | the promise of a dispatch to a remote peer (abstract) | each call, what was served | open, send, serve, succeed, fail |
| `RemoteDispatch` | `core/peer/src/remote.rs`: `get_or_connect`, `DialGuard`, `dispatch_raw`, the reader task; explicit dials; the relay's terminal hop | pool, gate map and references, pending tables, readers, frames in flight, each caller's place | one per acquisition of a lock or atomic access; the remote peer; the reader |
| `RemoteDispatchProofs` | theorems about it | | |
| `PeerLiveness` | `core/peer/src/`: `keepalive.rs`, `liveness.rs`, `connection_state.rs`, the pool of `remote.rs`, the accept side of `connection.rs`; close and release of `extensions/network`; the relay's dials and removals | pool, inbound registry, gate, status and connection entities, which connections work, callers, keepalive loops | one per pool access or tree write |
| `PeerLivenessProofs` | theorems about it | | |
| `Continuation` | `extensions/continuation/src/lib.rs`: advance, sweep, reap, install | joins, forwards, tracked paths, join locks, tasks with a parent | one per lock, read, write, dispatch or compare-and-swap |
| `ContinuationProofs` | theorems about it | | |

The `MC*` modules instantiate them for TLC.

**NotifyingLocationIndex.**  A thread's state is a stack of calls because a hook may
write and so start a nested call.  A call walks through `check` (path and depth
test), `read` (only `set`: the previous binding), `write` (the mutation, with the
compare of the CAS operations in the same step, and the no-op suppression),
`enter` (count in), `stamp` (read the counter back), `chain`, `hook`, and `leave`
or, after a panic, `unwind`.  A hook is any code behind `SyncTreeHook`: it returns,
halts, panics or writes.  `was` and `wrote` are history fields that record what the
mutation did, so that properties can compare it with what is reported.  The depth
test of the CAS operations reports a mismatch, as the code does.

**Trie.**  A node is stored under the hash of its content, so a link is the node
itself and two roots are equal exactly when the tries are.  `Init` chooses any
injective assignment of hashes to keys.
The operators are recursive over the trie and TLC's alone.

**RootTracker.**  A root hash stands for the bindings it commits to, which is sound
because of what `Trie` shows (the trie is a function of the bindings). A write of the
model is `set` or `remove` of the emit pathway followed by the hook. For a content path
the hook copies the cached configs and, for each one that applies, reads the root,
applies the event and stores it by CAS, at most `MaxRetries` times; for a config entry
it clears or rebuilds by plain sets and refreshes the cache.  `Tagged` are the paths of
handlers the feedback-loop guard ignores.  `Deep` are the threads whose cascades may
find the index at its cascade limit at any of the hook's own writes.  `lost` records
what a halt or a refusal reported as missing.

**AutoVersion.**  A version is its sequence of roots from the first one, since its
identity is its root and its parent.  `Track` is a step of the writer or of the
tracker's hook; when that hook returned, the engine reads head, then root, dedups,
moves head by CAS or retries, and sets the branch pointer.

**RemoteDispatch.**  Each caller makes one call.  The gate is represented by the set of
references to it (the map's, each caller's own, and the lock's for whoever waits or
holds), since `DialGuard::drop` decides by their number, in three steps: release the
lock, test the count and remove the entry under the map's lock, drop its own reference.
`ExplicitDial` is a dial that takes no gate and replaces what is pooled. Dial and write
are steps that may never be taken; the write is preceded by the writer's mutex
(`LockWriter`), and one that fails may have delivered its frame.  A caller's future may
be dropped while it waits for the gate (`CancelWait`), and while it writes or awaits
(`CancelCall`), which leaves its entry in the table.  A connection's own request ids
count up; a relayed frame keeps the id its author gave it, and every such id is
`AuthorId` here, the one that can collide.  The write may succeed on a dead connection
and fail on one whose reader has noticed nothing.  `RemoteServes` is the remote peer: it
serves in any order, or never.

**RemoteCall** is what the path promises, and `RemoteDispatch!ImplementsRemoteCall`
states that it is kept: a caller's `outcome` and place are mapped to `call` (`Shown`:
open until its frame is written, then sent, then ok or failed), `served` is the history
of what the remote peer served.  Only a call that is sent must end.  The mapping is the
identity on `served`, so "succeeds only if served" is about the remote peer and not
about the local tables.

**PeerLiveness.**  One remote peer.  An endpoint is an object (the code compares
`Arc`s), created once by a dial or an accept.  Evict, status write and record write are
separate steps of everyone who demotes; a dial writes the record, then connected, and
only then pools.  `SendRefused` is an error `send_execute` returns before any I/O (no
originating capability yet, an envelope that cannot be built: `remote.rs` 2894-2931):
its caller demotes for it like for any other, and the status says `transport-error`. The
network handler looks the peer's identity hash up first and touches the record only if
it found one (`network/src/lib.rs` 2211-2214, 2239), so a peer that is bound after a
fruitless lookup is evicted with its record left active; a relay forward has no dispatch
context, so its connection gets no loop, and when it fails it removes whatever is pooled
and leaves both entities alone.  `orphan` remembers the binding that went in one of
these two ways.  `up` is what the network knows and no component is told.  An exchange
on a working connection may be lost, at most `Losses` times.  Time is left out but for
one fact: the grace a loop sleeps before it looks is longer than the few instructions
between an eviction that has already happened and its status write (`GraceOver`); the
code rests on it (`keepalive.rs` 308-314). `evidence` records which dispatches and pings
ended badly, by endpoint.

**Continuation.**  A result is represented by the round it says it is from.  A task is
an advance; one made by another's dispatch has it as its `parent`, and the dispatch
returns after it.  A task reads a join, notes its path, looks at the clock and writes in
separate steps, all under the join's mutex; install takes no mutex and may come between
any two of them, so what it stores can be overwritten by the older join, and its own
note of the path is a step after its set.  An installed join may come with results
already in it. `armed` says that a join's round has a clock, `late` is the set of the
rounds, by path, install and number, whose deadline has passed; the sweep's own reading
of the time may be older, so a sweep may pass over one of them.  A forward is installed
by a plain set too, over one whose dispatches are still out, and their ageing takes what
is bound when they look. `fires`, `granted` and `charged` are histories: rounds fired by
each installed join, the executions a forward was last installed with, and the
dispatches since then together with those unfinished at that time.

## Runs

| Run | Checks | Shows |
|---|---|---|
| `emit` | `TypeOK`, `EventsAreReal`, `CompleteIsSettled`, `DepthCountsCascades`, `NestingBounded`, `OvershootBounded` | two threads writing paths of their own, hooks nested up to the limit that race compare operations and removals on a shared path, with chains, halts and panics |
| `emit_chain_result` | violation of `NotCommittedMeansUnchanged` | finding 1 |
| `version` | `VTypeOK`, `RootCurrent`, `DisabledCleared`, `HaltsForCause`, `Captured`, `NeverVersioned`, `BurstCaptured`, `NoLostUpdate`, `HeadExtends`, `CascadesEnd`, `EventuallyVersioned` | writers through both hooks: nested prefixes, an excluded and a tagged path, recurring values, a crash, the cascade limit, config changes |
| `tracker_config_race` | violation of `RootCurrent` | finding 2 |
| `version_branch` | violation of `BranchFollowsHead` | finding 3 |
| `trie_history` | `HistoryIndependent`, `LookupsAgree` | all histories of five keys, all hash assignments |
| `liveness` | `TypeOK`, `BindingWatched`, `FailureIsReal`, `UnboundIsClosed`, `OnlyTheFailedEvicted`, `EpisodeEscalates`, `BelievedConnected` | dispatches, dials, relay forwards, close and release, an accepted connection and keepalive loops on one peer |
| `liveness_husk` | violation of `EscalatesUnlessLive` | finding 4 |
| `dispatch` | `TypeOK`, `SingleFlight`, `GateInMap`, `NobodyWaitsInVain`, `DroppedForCause`, `ImplementsRemoteCall`, `HeldByTheNetwork` | two callers with two connections and explicit dials, three at the gate of an unreachable peer |
| `dispatch_relay` | violation of `ForwardedMeansProcessed` | finding 5 |
| `continuation` | `TypeOK`, `OneGeneration`, `FiresAsInstalled`, `AgedOncePerDispatch` | four advances on two tasks, nested and concurrent, of a forward and of a join, one of which is reinstalled |
| `continuation_wedge` | violation of `NeverWedged` | finding 6 |

**Bounds.**  Two threads are enough for a lost update, a stale read and a test that
another thread invalidates; three are used where attempts are counted and at the dial
gate, where a newcomer meets a holder that leaves and a waiter.  `DepthLimit` 2 (32 in
the code) is reached both by nesting and by two concurrent cascades, and can be
overshot.  Three calls per thread include a call nested in a hook and one after it. Two
values make a path return to an earlier value, so that the CAS loops meet the same root
twice.  `BucketSize` is the code's 3, so five keys overflow a bucket, which is split
into sub-nodes and inlined again when keys are removed.  That is one level of sub-nodes:
a collapse that carries on through several levels is not reached.  `MaxMissed` 2 has a
miss that is forgiven and one that is not.  Two executions, two installs (the join's
first one included) and four advances let a join fire, be reaped, be replaced while it
is read or fired, and a forward be replaced while it is dispatched; two tasks let one
nest in the other.  Deadlock is not checked in the runs whose calls and writes are
bounded: they stop when all are done.  (A deadlock among continuations is finding 6.)

**Casts.**  Where a full cast would be too large, `Casts` lists the sets of participants
that take part together; `Init` chooses one, and it stays fixed for the behaviour.
`version` has five: two writers and a crash over two tracked prefixes; one writer
overtaken by another with as many writes as it has attempts; three writers; a writer
beside one at the cascade limit; one thread that changes content and configs at the
limit (`Deep` is the set of threads whose cascades may find the index at its limit).
`liveness` has seven: a dispatch against explicit dials, two dispatches, a dispatch and
a dialer with an accepted connection, an operator against a dispatch or against a
dialer, and a relay forward against either.

**Writers per path.**  In the passing runs a path has one plain writer (`set`,
`remove`).  With two, `set` gives no promise: read and write are two steps, events of
one path may reach the hooks in the opposite order, and the root can keep the older
binding until the next write.

**Fairness.**  `version` assumes weak fairness of each thread that is in the middle of a
write: hooks run synchronously on the writer's thread, which the operating system keeps
scheduling and which never waits for another in these hooks. No thread has to start a
write, and no CAS is assumed to succeed.  `HaltsForCause` says that a cascade only halts
at the cascade limit or after losing each attempt to another's write, so a writer with
more attempts than the others have writes never does (`BurstCaptured`); `CascadesEnd` is
why the fairness is enough for the cascade to end. `liveness` assumes that straight-line
code between two awaits is finished (`Dial`, `Demote`, `Close`) and that a loop's sleeps and
pings end, as they are timers; nobody has to dial, send, accept or answer.  `dispatch`
assumes that a caller's own straight-line steps are taken and that the request deadline
(`remote.rs` 393) exists, and strong fairness of the gate and of the writer's mutex,
because a tokio mutex queues its waiters.  It assumes nothing of the remote peer, the
connection or the reader, and not that a dial or a write ever ends: the handshake's
reads (`remote.rs` 2066, 2118) and `writer.lock()`, `write_frame` (385-386) have no
deadline.  A remote peer that accepts and stays silent so holds a dial, and with it the
gate and everyone behind it, for ever; one that stops reading holds a write and the
writes behind it.  Therefore `RemoteCall` only promises an end to calls that are sent,
and `HeldByTheNetwork` says of the others that nothing but an unfinished dial or write
holds them up.

## Proofs

### The emit pathway

`NotifyingLocationIndexProofs` proves, for every set of threads that is finite, any
paths, hashes, chains, number of hooks, limit of at least 1 and any bound on calls:

- `TypeCorrect`: `Spec => []TypeOK`; the unsigned counter never goes below zero.
- `DepthExact`: `Spec => []DepthCountsCascades`.
- `RecursionBounded`: `Spec => []NestingBounded`.
- `OvershootLimited`: `Spec => []OvershootBounded`.
- `EventsReal`: `Spec => [](SetsAlone => EventsAreReal)`.
- `CompleteSettled`: `Spec => [](WritesAlone => CompleteIsSettled)`.

The first four follow from one inductive invariant, `Inv`, proved in `Invariance`.  The
counter's exactness is not inductive alone: that `Leave` removes exactly one
cascade needs that the innermost call holds a guard exactly in certain states, and
that a *waiting* call never changes.  `Inv` therefore adds: every call below the top
of a stack is running a hook (`OuterCallsRunHooks`) and is well formed
(`CallsGood`); stacks are no longer than the calls made (`StacksCounted`); a call
past its test is at most `DepthLimit` deep (`StacksBounded`); and the cascades plus
the calls between their test and their increment are at most `DepthLimit` plus one
per other thread (`EnteringBounded`).  The argument has three layers: what `Update`,
`Return`, `Unwind` and a new call do to a stack; how each changes the set of
cascades, by the cardinality theorems of finite sets; and one lemma per action.
`NestingBounded` rests on the counter covering the waiting calls of the thread
itself, so a thread that passes `depth < DepthLimit` has fewer than `DepthLimit`
calls below.  The assumptions are `ThreadsAssumption` and `ConstantsAssumption` of
the module, which TLC evaluates in every run.

The last two have a hypothesis on who writes where, because `set` reads and writes in
two steps and promises nothing to two writers of one path.  `SetsAlone`: where plain
`set` is used no other thread writes; removals and the compare operations, which
compare and write in one step, may meet on a path.  `WritesAlone`: a thread's paths are
its own and no hook writes them.  Both are conditions on the constants, satisfied by the
runs (`MCNotifyingLocationIndex!Alone`, evaluated by TLC).  `EventInv` says of every call
on every stack that what a `set` has read is still bound until it writes, and that from
the mutation on its event reports what was replaced.  `SettledInv` follows a thread's
outermost call: from the mutation to the return the binding stays its own, and with
`Complete` it is also the last one announced.  Hooks nested above it write other
paths, which is where the hypothesis enters.  Each step is first put into one of
seven shapes (`NextShape`: the innermost call moves, tries, writes, is refused, opens or
ends its cascade, begins), so the invariants are shown per shape and not per action.

### A remote call

`RemoteDispatchProofs` proves, for any finite set of callers and any connections, gates
and casts:

- `TypeCorrect`: `Spec => []TypeOK`.
- `OneDialAtATime`: `Spec => []SingleFlight` (of `get_or_connect`; explicit dials happen
  meanwhile), and `GateStays`: `Spec => []GateInMap`.
- `NobodyWaits`: `Spec => []NobodyWaitsInVain`.
- `SendersDropForCause`: without relays, `Spec => []DroppedForCause`.
- `ImplementsSafely`: without relays, `Spec => Promise!CallSafety`, the safety part of
  the refinement.

The invariants are layered.  `TypeInv` adds to the types that a caller on its way out of
the gate without an error has a connection.  `GateInv`: whoever has a reference to a
gate, short of dropping it, has the one in the map, and one caller holds it.  It is
inductive because a count of two can only be the map's reference and the leaver's own
(`ThreeMembers`: a third member of the set of references makes the count differ from
two), so the removal meets no waiter.  `TableInv`: a caller whose channel is open is in
its connection's table, and once the reader is over, only callers that have yet to test
the flag are; that is the two-sided argument of the comment in `dispatch_raw`. `CallInv`
is needed where callers could disturb one another: ids on one connection are distinct
and at most `seq` (`OwnIds`), so that removing "our" entry removes nobody else's
(`Alone`, `FailsAlone`), an answer that was routed was served (`AnswersServed`), and a
frame that left is that of a caller that awaits its answer or was told (`SentOrTold`),
so nothing is served before it is sent.  It fails with relays, whose ids are not the
connection's: finding 5. The refinement then has one lemma per action, each a step of
`RemoteCall` or a stutter. The assumptions are the four named ones of `RemoteDispatch`,
evaluated by TLC.

### Root tracking and versioning

`AutoVersionProofs` is about `VSpec`, the tracker and the engine composed, for any
threads, paths, prefixes, config entries, retry limit, casts and number of crashes:

- `TypeCorrect`: `VSpec => []VTypeOK`; `ExcludedNeverVersioned`: `VSpec =>
  []NeverVersioned`; `NoVersionOrphaned`: `VSpec => HeadExtends`, unconditionally.
- `PrefixCurrent`: for each prefix x, `VSpec => [](TrackedAlone(cast, x) =>
  CurrentAt(x))`.
- `RootsCurrent`: `RootCurrent`, when every prefix x has `TrackedAlone(cast, x)` or
  `RebuiltAlone(cast, x)`.
- `NoRootWithoutConfig`: `DisabledCleared`, when every x has `ConfigsFixed(cast, x)` or
  `ConfiguredAlone(cast, x)`.
- `EveryWriteVersioned`: `VSpec => [](VersionedAlone(cast) => Captured)`.
- `NoUpdateLost`: `NoLostUpdate`, when no config of a prefix is written.

`cast` is fixed by `Init`, so the hypotheses select scenarios.  `ConfigsFixed(s, x)`: no
thread writes a config entry that is or was for x; entries of other prefixes may be
created, disabled and moved meanwhile.  `TrackedAlone` adds one writer per path of x,
`VersionedAlone` the same for the paths that are versioned. `ConfiguredAlone(s, x)`: one
thread writes all the config entries and the paths of x, and the peer does not stop
(bootstrap visits enabled configs only); `RebuiltAlone` adds that no two entries are
ever for x, since disabling either clears the root.  The code needs them: finding 2 is a
root that stays behind when a config changes under a writer, and the tracker applies its
event's hash, not the index's binding, so two writers of one path can leave the older
one.  `NoUpdateLost` needs no hypothesis on writers.  Every scenario of the `version`
run satisfies `VersionedAlone`, and for each prefix `TrackedAlone` or `RebuiltAlone`
(`MCAutoVersion!Alone`, evaluated by TLC).

`VTypeInv` adds to the types what the pc of a write or an emit says of the rest of it
(an emit with a root in hand has it filtered; a CAS is about a config that applies).
`CfgInv(x)`: the index, the cache and every hook's copy of the configs agree on x with
what bootstrap found, and x has a root exactly if enabled.  `PathInv(x, p)`, one path at
a time: the writer of p past its mutation has the binding of the index in its event;
outside of such a write, and in it once the hook has passed x, the root has the
index's binding at p.  What others store in the root of x keeps its value at p: they
computed it from the root that their CAS compares with.  `CapInv(p)` relates root,
head and emits: the head has the binding of p when no write of p is in progress, and an
emit that will succeed was computed from a root that is not older than what head has
at p.  It is there that the order of the engine's two reads (head, then root) is used.
`ClearInv(x)` and `BuildInv(x)` are for the thread that reconfigures x: unless it has the
clear (the rebuild) still before it, the root is gone when no entry is enabled (is there
and fits the index when one is); the cache and the hook's copy of the configs are the
entries, because nobody else writes them; what the rebuild listed is still bound.

`AutoVersionHaltProofs` is about the contention of the two hooks, for the same `VSpec`:

- `NobodyHaltsInVain`: `VSpec => [](StaysTracked(cast) => HaltsForCause)`.
- `SmallBurstCaptured`: `VSpec => []BurstCaptured`.
- `EveryCascadeEnds`: `VSpec => CascadesEnd`, with no hypothesis.

The first two assume `MaxRetries <= MaxHeadRetries`; both are 64 in the code
(`root_tracker.rs:55`, `engine.rs:376`).  `ThreadsFinite` is the only further assumption
on the constants.  `StaysTracked`: the versioned prefix is enabled from the start, its
configs are left alone (the engine halts for want of a root), and no two entries are
ever for one prefix (a write would apply its event to that root twice, and could cost
another cascade two attempts).  `SmallBurst` is about a scenario whose
writers are not at the cascade limit, with no crash, and in which the threads besides
each writer have fewer writes than there are attempts.

A cascade that halts has lost all of its attempts, and the argument charges each of them
to a write of another thread.  `Past(t, x)` is the set of the writes, thread and number,
that the threads besides t began and that can no longer move the root of x: they are
over, or their hook is past x.  `RaceInv(x)`: the attempts t lost on x, and one more if
the root moved since t read it, are no more than the elements of `Past(t, x)`.  It is
inductive because a write moves the root of x once at most, and enters `Past(t, x)` in
the step that moves it; `NameInv` (the copies of the configs name x in one entry only,
and a write in progress is one of those begun) is what makes it once. `HeadInv` does the
same for the head, with the writes whose emit is past its CAS. Both sets are among the
writes begun, which gives `HaltsForCause`.  `HaltsForCause` alone is not inductive: it
says nothing of a cascade before its last attempt.  In a small burst there are too few
writes to lose every attempt, so `lost` and `missed` stay empty (`GivenUpInv`), and with
`CapInv` every write that returned is in the head's version. What counts is the others'
writes, not how many threads make them: in the second scenario of `version` one thread
overtakes another until that one halts.  Every scenario there satisfies `StaysTracked`,
and the three writers are a small burst.

`CascadesEnd` bounds a cascade's own steps: the stage, the configs left, the attempts
left and the place in the attempt go down in lexical order with each of its steps, and no
other thread's step, the overtaking ones included, changes them.  That a thread
does take its steps is the fairness, and stays with TLC.

### Liveness of a remote peer

`PeerLivenessProofs`, for any endpoints, callers, limit of missed pings and lost
exchanges: `TypeCorrect`, `PooledIsWatched` (`BindingWatched`), `RecordClosed`
(`UnboundIsClosed`), `FailuresAreReal` (`FailureIsReal`) and `FailedAloneEvicted`
(`OnlyTheFailedEvicted`), all of them of `Spec` without a hypothesis.

`TypeInv` knows that a dialed endpoint belongs to one caller, and has no loop,
until that caller starts it (`OneDialer`, `CallerOK`): a second loop would count pings past
the limit.  On top of it `BindingWatched` and `UnboundIsClosed` are inductive; the latter
excepts the binding in `orphan`, which only `RelayRemove` and an `Evict` without a hash set,
and the next binding clears.
`FailureIsReal` is not: `RealInv` adds what everybody between a failure and the status
that reports it knows (a caller that failed, a loop that counted its misses or that has
read a suspect status), which is the evidence it writes later.  It says that the dispatch
over the named endpoint ended in an error or that its pings were missed, not that its
connection is broken: a local refusal counts as an error in the code, and here.

### Continuations

`ContinuationProofs`, for any finite set of tasks and any joins, slots, forwards,
installs and advances: `TypeCorrect`, `OneRoundPerBoundary` (`OneGeneration`),
`NoExtraRound` (`FiresAsInstalled`), `AgedOnce` (`AgedOncePerDispatch`).

`TypeInv` says that a join's mutex is held by exactly the task that works on the
join, and that what a join or a task's copy of it received is of its round.
`FireInv` counts for the tree and for every copy a task works on, from the read to the
write: the copy is what is written back,
possibly over a join that was installed meanwhile, so rounds fired and
rounds left must add up for both, by the number of the install they come from.  Of two
copies of one join the mutex makes one.  `AgeInv` counts the
dispatches of a forward whose ageing is still in flight: those charged to it less those
in flight are what the remaining executions went down by since it was installed.  A
successful CAS ends one of them, a failed one leaves it in flight, and an install starts
over with those in flight, which will age the forward that made none of them.

### Only model-checked

- Liveness (`EventuallyVersioned`, `EpisodeEscalates`, `BelievedConnected`,
  `HeldByTheNetwork`, the liveness part of `ImplementsRemoteCall`): out of the prover's
  reach.
- `HistoryIndependent` and `LookupsAgree`: the trie's operators are recursive, and what
  they compute for every trie would need induction over data.

## Findings

1. **A chain rejection reports an uncommitted binding that was written**
   (`core/store/src/lib.rs:386`).  The accumulated depth is tested after the
   mutation, and answered with the constructor for "A pre-write rejection (binding
   did NOT commit)" (`:232`).
2. **Enabling a tracking config loses a concurrent write** (`root_tracker.rs:455`).
   A write between the rebuild's listing and the cache refresh is in neither, and
   the root stays behind the index when all cascades are over.
3. **The active branch can be left behind head** (`engine.rs:345`).  The pointer is
   moved by a plain set after the head's CAS, so two cascades can move it in the
   opposite order.
4. **A dead accepted connection keeps a peer suspect** (`keepalive.rs:358`).  The
   escalation stops at any registered endpoint, and the accept loop's teardown leaves
   dead ones registered, so an episode may never be escalated although nothing is live.
   `connection.rs:527-531` accepts the husk as harmless until the next dispatch; the
   escalation is a second reader of it.
5. **Relayed frames share request ids** (`relay_forwarder.rs:151`).  The terminal hop
   registers under the id the author chose; two frames with one id on one connection
   replace each other, and one answer is taken for both.
6. **A nested advance waits for its ancestor's join lock**
   (`continuation/src/lib.rs:502`).  The lock is held across the dispatch; an advance
   which that dispatch makes sweeps when the minute is over, and waits for ever.

## Plan

Done: emit pathway, trie, root tracker, auto-versioning, remote dispatch with its
abstract specification, peer liveness, continuations; proofs about all but the trie.
Next, in this order:

1. `AutoVersion`: the revision-config cache (read-through against invalidation) and
   the configs of several prefixes; then the handler's `commit` and `merge` with
   their plain sets of head, composed with the engine.
2. `RemoteDispatch` over inbound endpoints, composed with `PeerLiveness`, whose pool it
   shares; the backoff of live establishment.
3. `Continuation`: suspend, resume and abandon. A suspension is bound at a path made
   of its chain id with a plain set, so a second one of the chain replaces the first,
   and `resume` reads, then removes by path: two of them can dispatch one suspension
   twice, or one can remove a suspension it never read.
4. `NotifyingContentStore` and the journaled store (journal order, compaction, crash).
5. `SubscriptionEngine`: matching hook, limits, sharded delivery order.
6. The tree handler's CAS and its answers for halted cascades; published root.

## Not modelled

- *Store:* hook registration while writes run; the read-only queries of the index;
  tracing and the lists of consumer names in a result (only its outcome is kept);
  content removal under a live trie.
- *Tracker and engine:* the universal prefix, whose rebuild lists config and tagged
  entries that the incremental path ignores; two configs for one prefix; the
  revision-config cache.
- *Trie:* sub-nodes within sub-nodes, which the run's bounds do not reach.
- *Peers:* dispatch over an inbound endpoint in `RemoteDispatch`; the steps inside
  an explicit dial there (`PeerLiveness` has them); `write_retry_exhausted` and the
  establish backoff; `connected_at`, `failing_since` and the other times of the status
  entity; HTTP connections, which have no reader.
- *Continuations:* transforms, suspension at the depth brake, resume and abandon,
  forwards without a count, markers, a result for a slot the join does not expect; a
  join installed at a forward's path or a forward at a join's; the removal of an exhausted
  continuation's content after its binding, by which an identical one elsewhere, or
  installed between the two, is left bound to a missing entity.  That a join installed over
  one in work is overwritten, and that one noted before the sweep forgets its path stays
  untracked, happens in the model; no property forbids it, as the code promises
  nothing to such an install.
- The components PROJECT.json marks `not_modelled`, each with its reason.

The map covers a few per cent of the repository's lines.  Most of them are code a state
machine says nothing about: bindings for four languages, transports, codecs,
cryptography, type tables, request decoding and the inline tests of every file.  The
modelled files are covered where they change shared state.
