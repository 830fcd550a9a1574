--------------------------- MODULE RemoteDispatch ---------------------------
(***************************************************************************)
(* A dispatch to one remote peer, from the pool miss to the answer         *)
(* (core/peer/src/remote.rs): get_or_connect with its per-peer dial gate,  *)
(* the pooled RemoteConnection, dispatch_raw's registration in the demux   *)
(* table, and the reader task that routes answers and ends.                *)
(*                                                                         *)
(* The gate is an Arc<tokio Mutex> in the map "dialing", collected by the  *)
(* guard's Drop when its reference count says nobody else has it.  The     *)
(* demux table maps request ids to oneshot senders; dropping a sender      *)
(* fails its receiver.  Liveness entities are PeerLiveness's business.     *)
(***************************************************************************)
EXTENDS Naturals, FiniteSets

CONSTANTS
  Callers,    \* dispatches; each makes one call
  Relays,     \* those that are a relay's terminal hop (relay_forwarder.rs)
  Conns,      \* connections that dials may yet create
  Gates,      \* the gate mutexes
  Casts,      \* the sets of callers and connections that take part together
  NoConn, NoGate, NoCaller

ASSUME RelaysAreCallers == Relays \subseteq Callers
ASSUME CastAssumption == Casts \subseteq SUBSET (Callers \cup Conns)
ASSUME FiniteAssumption == IsFiniteSet(Callers)
ASSUME NobodyAssumption ==
  NoConn \notin Conns /\ NoGate \notin Gates /\ NoCaller \notin Callers

\* A connection's own ids count up from 1.  A relayed frame keeps the id its
\* author gave it; authors count from 1 as well.
AuthorId == 1

VARIABLES
  pool,       \* RemoteState.conns[peer]
  dialing,    \* RemoteState.dialing[peer]
  pc,         \* each caller's place
  gateOf,     \* the gate a caller has a reference to
  conn, id,   \* the connection and the request id of its call
  chan,       \* its oneshot channel
  outcome,    \* what the caller was told
  born,       \* connections that exist
  seq,        \* request_seq of a connection
  pending,    \* its demux table: the callers with a sender in it, each under its id
  reader,     \* its reader task: reading, flagged (reader_ended set), over
  inflight,   \* calls whose frame is on its way over the connection
  answers,    \* answers on their way back
  garbled,    \* history: calls whose answer could not be parsed
  served      \* history: calls the remote peer has served

gateVars == <<dialing, gateOf>>
callVars == <<conn, id, chan, outcome>>
connVars == <<born, seq, pending, reader, inflight, answers, garbled, served>>
vars == <<pool, pc, gateVars, callVars, connVars>>

Init ==
  /\ pool = NoConn /\ dialing = NoGate
  /\ \E cast \in Casts :
       /\ born = Conns \ cast
       /\ pc = [c \in Callers |-> IF c \in cast THEN "idle" ELSE "absent"]
  /\ gateOf = [c \in Callers |-> NoGate]
  /\ conn = [c \in Callers |-> NoConn] /\ id = [c \in Callers |-> AuthorId]
  /\ chan = [c \in Callers |-> "none"] /\ outcome = [c \in Callers |-> "none"]
  /\ seq = [k \in Conns |-> 0]
  /\ pending = [k \in Conns |-> {}]
  /\ reader = [k \in Conns |-> "reading"]
  /\ inflight = [k \in Conns |-> {}] /\ answers = [k \in Conns |-> {}]
  /\ garbled = {} /\ served = {}

Goto(c, l) == pc' = [pc EXCEPT ![c] = l]
Use(c, k) == conn' = [conn EXCEPT ![c] = k]
Tell(c, o) == outcome' = [outcome EXCEPT ![c] = o]

(***************************************************************************)
(* get_or_connect and the dial gate.                                       *)
(***************************************************************************)
Holding == {"check", "dial", "insert", "release"}

\* The references to gate g: the map's, every caller's own, and the lock's for
\* a caller that waits for it or holds it.
Refs(g) ==
  {r \in {<<NoCaller, "map">>} : dialing = g}
    \cup {<<c, "own">> : c \in {d \in Callers : gateOf[d] = g}}
    \cup {<<c, "lock">> : c \in {d \in Callers : gateOf[d] = g
                                              /\ pc[d] \in Holding \cup {"wait"}}}

StrongCount(g) == Cardinality(Refs(g))

\* The next gate and the next connection that are made: which of the free names
\* they get does not matter.
IsFresh(g) == Refs(g) = {} /\ g = CHOOSE h \in Gates : Refs(h) = {}
NextConn == {k \in Conns \ born : k = CHOOSE j \in Conns \ born : TRUE}

\* The pool first.
Get(c) ==
  /\ pc[c] = "idle"
  /\ IF pool # NoConn
     THEN Use(c, pool) /\ Goto(c, "register")
     ELSE UNCHANGED conn /\ Goto(c, "enter")
  /\ UNCHANGED <<pool, gateVars, id, chan, outcome, connVars>>

\* Mutant: dial_gate that inserts a gate of its own every time.
DialGateFresh(c) ==
  /\ pc[c] = "enter"
  /\ \E g \in Gates :
       /\ IsFresh(g)
       /\ dialing' = g /\ gateOf' = [gateOf EXCEPT ![c] = g]
  /\ Goto(c, "wait")
  /\ UNCHANGED <<pool, callVars, connVars>>

\* dial_gate: get or insert the gate, under the map's lock.
DialGate(c) ==
  /\ pc[c] = "enter"
  /\ \E g \in Gates :
       /\ IF dialing = NoGate THEN IsFresh(g) ELSE g = dialing
       /\ dialing' = g /\ gateOf' = [gateOf EXCEPT ![c] = g]
  /\ Goto(c, "wait")
  /\ UNCHANGED <<pool, callVars, connVars>>

\* lock_owned().await
Acquire(c) ==
  /\ pc[c] = "wait"
  /\ ~ \E d \in Callers : gateOf[d] = gateOf[c] /\ pc[d] \in Holding
  /\ Goto(c, "check")
  /\ UNCHANGED <<pool, gateVars, callVars, connVars>>

\* The caller's future is dropped while it waits: there is no guard yet, and
\* so no collection.
CancelWait(c) ==
  /\ pc[c] = "wait"
  /\ gateOf' = [gateOf EXCEPT ![c] = NoGate]
  /\ Tell(c, "failed") /\ Goto(c, "done")
  /\ UNCHANGED <<pool, dialing, conn, id, chan, connVars>>

\* The pool again, now that no one else is dialing.
DoubleCheck(c) ==
  /\ pc[c] = "check"
  /\ IF pool # NoConn
     THEN Use(c, pool) /\ Goto(c, "release")
     ELSE UNCHANGED conn /\ Goto(c, "dial")
  /\ UNCHANGED <<pool, gateVars, id, chan, outcome, connVars>>

\* Dial and handshake: a connection, or an error, or the future is dropped.
\* Nothing bounds how long it takes: the handshake's reads have no deadline.
Dial(c) ==
  /\ pc[c] = "dial"
  /\ \/ \E k \in NextConn :
          /\ born' = born \cup {k} /\ Use(c, k)
          /\ Goto(c, "insert") /\ UNCHANGED outcome
     \/ Tell(c, "failed") /\ Goto(c, "release") /\ UNCHANGED <<born, conn>>
  /\ UNCHANGED <<pool, gateVars, id, chan, seq, pending, reader, inflight,
                 answers, garbled, served>>

\* Mutant: the pool's entry from before the insertion is used.
InsertStale(c) ==
  /\ pc[c] = "insert"
  /\ pool' = IF pool = NoConn THEN conn[c] ELSE pool
  /\ Use(c, pool) /\ Goto(c, "release")
  /\ UNCHANGED <<gateVars, id, chan, outcome, connVars>>

\* insert_endpoint: what is already pooled stays.
Insert(c) ==
  /\ pc[c] = "insert"
  /\ pool' = IF pool = NoConn THEN conn[c] ELSE pool
  /\ Use(c, pool') /\ Goto(c, "release")
  /\ UNCHANGED <<gateVars, id, chan, outcome, connVars>>

\* connect_and_pool, an explicit dial of someone who makes no call here: it
\* passes the gate by, and rebind_endpoint pools its connection whatever is
\* pooled already.
ExplicitDial(k) ==
  /\ k \in NextConn
  /\ born' = born \cup {k} /\ pool' = k
  /\ UNCHANGED <<pc, gateVars, callVars, seq, pending, reader, inflight, answers,
                 garbled, served>>

\* Mutant: the lock of a dial that failed is not released.
ReleaseGateUnlessFailed(c) ==
  /\ pc[c] = "release" /\ outcome[c] = "none" /\ Goto(c, "collect")
  /\ UNCHANGED <<pool, gateVars, callVars, connVars>>

\* DialGuard::drop, in its three steps: release the lock; under the map's
\* lock, remove the entry if the count says we are the last; drop our own
\* reference, after the map's lock is released.
ReleaseGate(c) ==
  /\ pc[c] = "release" /\ Goto(c, "collect")
  /\ UNCHANGED <<pool, gateVars, callVars, connVars>>

\* Mutant: the entry is removed without a look at the count.
CollectGateAlways(c) ==
  /\ pc[c] = "collect"
  /\ dialing' = NoGate
  /\ Goto(c, "drop")
  /\ UNCHANGED <<pool, gateOf, callVars, connVars>>

CollectGate(c) ==
  /\ pc[c] = "collect"
  /\ dialing' = IF StrongCount(gateOf[c]) = 2 THEN NoGate ELSE dialing
  /\ Goto(c, "drop")
  /\ UNCHANGED <<pool, gateOf, callVars, connVars>>

DropGate(c) ==
  /\ pc[c] = "drop"
  /\ gateOf' = [gateOf EXCEPT ![c] = NoGate]
  /\ Goto(c, IF outcome[c] = "none" THEN "register" ELSE "done")
  /\ UNCHANGED <<pool, dialing, callVars, connVars>>

(***************************************************************************)
(* dispatch_raw.                                                           *)
(***************************************************************************)

\* Whoever is registered on connection k under id i: at most one.
Registered(k, i) == {d \in pending[k] : id[d] = i}

\* The channels of the callers in S lose their sender.
DropSenders(S) ==
  chan' = [c \in Callers |-> IF c \in S /\ chan[c] = "open" THEN "dropped" ELSE chan[c]]

\* pending.remove(&request_id): whoever is registered under the id goes.
RemoveEntry(k, i) == pending' = [pending EXCEPT ![k] = @ \ Registered(k, i)]

\* Mutant: the sequence number is read and not incremented.
RequestIdStuck(c) == IF c \in Relays THEN AuthorId ELSE seq[conn[c]]

\* next_request_id (or the relayed frame's own id), then pending.insert, which
\* replaces, and so drops, a sender registered under the same id.
RequestId(c) == IF c \in Relays THEN AuthorId ELSE seq[conn[c]] + 1

Register(c) ==
  LET k == conn[c]
      i == RequestId(c)
  IN /\ pc[c] = "register"
     /\ id' = [id EXCEPT ![c] = i]
     /\ seq' = IF c \in Relays THEN seq ELSE [seq EXCEPT ![k] = i]
     /\ pending' = [pending EXCEPT ![k] = (@ \ Registered(k, i)) \cup {c}]
     /\ chan' = [d \in Callers |->
                   IF d = c THEN "open"
                   ELSE IF d \in Registered(k, i) /\ chan[d] = "open" THEN "dropped"
                   ELSE chan[d]]
     /\ Goto(c, "test")
     /\ UNCHANGED <<pool, gateVars, conn, outcome, born, reader, inflight,
                    answers, garbled, served>>

\* The error exits: take our id out of the table, whoever's sender it holds,
\* and report.
FailCall(c) ==
  /\ RemoveEntry(conn[c], id[c])
  /\ DropSenders(Registered(conn[c], id[c]) \ {c})
  /\ Tell(c, "failed") /\ Goto(c, "failed")

\* Mutant: dispatch_raw does not look at reader_ended.
TestEndedNot(c) ==
  /\ pc[c] = "test"
  /\ Goto(c, "write")
  /\ UNCHANGED <<pool, gateVars, callVars, connVars>>

\* reader_ended is read after the registration, never before.
TestEnded(c) ==
  /\ pc[c] = "test"
  /\ IF reader[conn[c]] # "reading"
     THEN FailCall(c)
     ELSE Goto(c, "write") /\ UNCHANGED <<pending, chan, outcome>>
  /\ UNCHANGED <<pool, gateVars, conn, id, born, seq, reader, inflight,
                 answers, garbled, served>>

\* writer.lock().await: one frame at a time is written to a connection.
LockWriter(c) ==
  /\ pc[c] = "write"
  /\ ~ \E d \in Callers : conn[d] = conn[c] /\ pc[d] = "writing"
  /\ Goto(c, "writing")
  /\ UNCHANGED <<pool, gateVars, callVars, connVars>>

\* The frame of caller c reaches the connection.
FrameSent(c) == inflight' = [inflight EXCEPT ![conn[c]] = @ \cup {c}]

\* write_frame, which has no deadline.  The write half may take the bytes even
\* when no one will read them, and may fail before the reader has noticed
\* anything, or after the frame has left (the flush).
Write(c) ==
  /\ pc[c] = "writing"
  /\ \/ FrameSent(c) /\ Goto(c, "await") /\ UNCHANGED <<pending, chan, outcome>>
     \/ (FrameSent(c) \/ UNCHANGED inflight) /\ FailCall(c)
  /\ UNCHANGED <<pool, gateVars, conn, id, born, seq, reader, answers,
                 garbled, served>>

\* The receiver resolves, or the request deadline does.
Answered(c) ==
  /\ pc[c] = "await" /\ chan[c] = "answered"
  /\ Tell(c, "ok") /\ Goto(c, "done")
  /\ UNCHANGED <<pool, gateVars, conn, id, chan, connVars>>

SenderDropped(c) ==
  /\ pc[c] = "await" /\ chan[c] = "dropped"
  /\ FailCall(c)
  /\ UNCHANGED <<pool, gateVars, conn, id, born, seq, reader, inflight,
                 answers, garbled, served>>

\* Mutant: the deadline is only looked at once the reader is over.
TimedOutLate(c) ==
  /\ pc[c] = "await" /\ chan[c] = "open" /\ reader[conn[c]] = "over"
  /\ FailCall(c)
  /\ UNCHANGED <<pool, gateVars, conn, id, born, seq, reader, inflight,
                 answers, garbled, served>>

TimedOut(c) ==
  /\ pc[c] = "await" /\ chan[c] = "open"
  /\ FailCall(c)
  /\ UNCHANGED <<pool, gateVars, conn, id, born, seq, reader, inflight,
                 answers, garbled, served>>

\* The caller's future is dropped (a ping's own deadline, a caller that has
\* gone): its entry stays in the table.
CancelCall(c) ==
  /\ pc[c] \in {"write", "writing", "await"}
  /\ (pc[c] = "writing" /\ FrameSent(c)) \/ UNCHANGED inflight
  /\ Tell(c, "failed") /\ Goto(c, "done")
  /\ chan' = [chan EXCEPT ![c] = "none"]
  /\ UNCHANGED <<pool, gateVars, conn, id, born, seq, pending, reader, answers,
                 garbled, served>>

\* The caller evicts: a dispatch only the connection it failed on
\* (evict_outbound_if_bound), a relay whatever is pooled (pool.remove).
EvictFailed(c) ==
  /\ pc[c] = "failed"
  /\ pool' = IF c \in Relays \/ pool = conn[c] THEN NoConn ELSE pool
  /\ Goto(c, "done")
  /\ UNCHANGED <<gateVars, callVars, connVars>>

(***************************************************************************)
(* The remote peer and the connection's reader task.                       *)
(***************************************************************************)
RemoteServes(k) ==
  /\ \E c \in inflight[k] :
       /\ inflight' = [inflight EXCEPT ![k] = @ \ {c}]
       /\ answers' = [answers EXCEPT ![k] = @ \cup {c}]
       /\ served' = served \cup {c}
  /\ UNCHANGED <<pool, pc, gateVars, callVars, born, seq, pending, reader,
                 garbled>>

\* The reader pops the entry of the answer's id and sends on its channel; an
\* answer that does not parse drops the entry's sender instead, and one with
\* no entry is dropped.
ReaderRoutes(k) ==
  /\ reader[k] = "reading"
  /\ \E c \in answers[k], good \in BOOLEAN :
       LET w == Registered(k, id[c]) IN
       /\ answers' = [answers EXCEPT ![k] = @ \ {c}]
       /\ RemoveEntry(k, id[c])
       /\ IF good THEN chan' = [d \in Callers |-> IF d \in w /\ chan[d] = "open"
                                                  THEN "answered" ELSE chan[d]]
                  ELSE DropSenders(w)
       /\ garbled' = IF good THEN garbled ELSE garbled \cup w
  /\ UNCHANGED <<pool, pc, gateVars, conn, id, outcome, born, seq, reader,
                 inflight, served>>

\* read_frame fails: the flag is raised first, then the table is cleared.
ReaderEnds(k) ==
  /\ k \in {conn[c] : c \in Callers} /\ reader[k] = "reading"
  /\ reader' = [reader EXCEPT ![k] = "flagged"]
  /\ UNCHANGED <<pool, pc, gateVars, callVars, born, seq, pending, inflight,
                 answers, garbled, served>>

ReaderClears(k) ==
  /\ reader[k] = "flagged"
  /\ reader' = [reader EXCEPT ![k] = "over"]
  /\ DropSenders(pending[k])
  /\ pending' = [pending EXCEPT ![k] = {}]
  /\ UNCHANGED <<pool, pc, gateVars, conn, id, outcome, born, seq, inflight,
                 answers, garbled, served>>

(***************************************************************************)
(* The specification.                                                      *)
(***************************************************************************)
Step(c) ==
  \/ Get(c) \/ DialGate(c) \/ DoubleCheck(c) \/ Insert(c)
  \/ ReleaseGate(c) \/ CollectGate(c) \/ DropGate(c)
  \/ Register(c) \/ TestEnded(c)
  \/ Answered(c) \/ SenderDropped(c) \/ TimedOut(c) \/ EvictFailed(c)

\* What waits for the network with no deadline, and what waits for a mutex.
Io(c) == Dial(c) \/ Write(c)
Lock(c) == Acquire(c) \/ LockWriter(c)

Next ==
  \/ \E c \in Callers : Step(c) \/ Io(c) \/ Lock(c) \/ CancelWait(c) \/ CancelCall(c)
  \/ \E k \in Conns :
       \/ ExplicitDial(k)
       \/ RemoteServes(k) \/ ReaderRoutes(k) \/ ReaderEnds(k) \/ ReaderClears(k)

Spec == Init /\ [][Next]_vars

(***************************************************************************)
(* A task that can run does; the request deadline exists; and a tokio      *)
(* Mutex is fair, so whoever waits for the gate or for the writer gets it  *)
(* if it keeps being free.  Nothing is assumed of the remote peer, the     *)
(* connection or the reader, nor that a dial, a handshake or a write ever  *)
(* ends: none of them has a deadline.                                      *)
(***************************************************************************)
FairSpec == Spec /\ \A c \in Callers : WF_vars(Step(c)) /\ SF_vars(Lock(c))

(***************************************************************************)
(* Properties.                                                             *)
(***************************************************************************)

\* Places in which a caller has a connection.
OnConnection == {"register", "test", "write", "writing", "await", "failed"}

\* Type correctness; and whoever has come through get_or_connect without an
\* error has a connection, its own or the one it lost the pool's slot to.
TypeOK ==
  /\ pool \in Conns \cup {NoConn} /\ dialing \in Gates \cup {NoGate}
  /\ pc \in [Callers -> {"absent", "idle", "enter", "wait", "collect", "drop", "register",
                         "test", "write", "writing", "await", "failed", "done"} \cup Holding]
  /\ gateOf \in [Callers -> Gates \cup {NoGate}]
  /\ conn \in [Callers -> Conns \cup {NoConn}]
  /\ \A c \in Callers : pc[c] \in OnConnection => conn[c] \in Conns
  /\ id \in [Callers -> Nat]
  /\ chan \in [Callers -> {"none", "open", "answered", "dropped"}]
  /\ outcome \in [Callers -> {"none", "ok", "failed"}]
  /\ born \subseteq Conns /\ seq \in [Conns -> Nat]
  /\ pending \in [Conns -> SUBSET Callers]
  /\ reader \in [Conns -> {"reading", "flagged", "over"}]
  /\ inflight \in [Conns -> SUBSET Callers] /\ answers \in [Conns -> SUBSET Callers]
  /\ garbled \subseteq Callers /\ served \subseteq Callers

\* Section 10.3 obligation 5 (remote.rs 1040-1053): at most one of a peer's
\* get_or_connect calls is establishing, although the gate's map entry comes
\* and goes with its holders.  An explicit dial passes the gate by.
SingleFlight ==
  \A c, d \in Callers :
    pc[c] \in {"check", "dial", "insert"} /\ pc[d] \in {"check", "dial", "insert"}
      => c = d

\* DialGuard::drop (remote.rs 687-708) never removes the gate from under a
\* caller that waits for it or holds it, so a newcomer meets them there.
GateInMap ==
  \A c \in Callers :
    pc[c] \in {"wait", "check", "dial", "insert"} => dialing = gateOf[c]

\* remote.rs 373-378 and 2601-2613, "race-free in both directions": once the
\* reader is over, nobody is left whose channel could only be resolved by the
\* deadline, however registration, flag and clear interleave.
NobodyWaitsInVain ==
  \A c \in Callers :
    pc[c] \in {"write", "writing", "await"} /\ reader[conn[c]] = "over"
      => chan[c] # "open"

\* "reader task terminated before response" (remote.rs 399-404) is the truth: a
\* sender is dropped because the reader ended or the answer did not parse, and
\* never by another caller of the connection.
DroppedForCause ==
  \A c \in Callers :
    chan[c] = "dropped" => reader[conn[c]] # "reading" \/ c \in garbled

\* relay_forwarder.rs 152-153, of a relay's terminal hop: "Any EXECUTE_RESPONSE
\* ... means the bytes landed and were processed".  The answer has to be the
\* answer to THESE bytes for that.
ForwardedMeansProcessed == \A c \in Relays : outcome[c] = "ok" => c \in served

\* What has become of each call, as RemoteCall sees it.
Shown ==
  [c \in Callers |-> IF outcome[c] # "none" THEN outcome[c]
                     ELSE IF pc[c] \in {"absent", "idle"} THEN "idle"
                     ELSE IF pc[c] = "await" THEN "sent" ELSE "open"]

Promise == INSTANCE RemoteCall WITH call <- Shown

\* The whole path, from the pool miss to the answer, implements the promise of
\* RemoteCall: a call that succeeds was served, and every call whose request
\* was written ends, be the remote peer silent for ever.
ImplementsRemoteCall == Promise!CallSpec

\* Nobody waits on the pool, the gate (remote.rs 1049-1053), a guard's drop or the
\* writer's mutex for their own sake: a call that never gets its request out is
\* held up by a dial or by a write that never ends, its own or the one ahead of
\* it.
HeldByTheNetwork ==
  \A c \in Callers :
    <>[](Shown[c] = "open") => <>[](\E d \in Callers : pc[d] \in {"dial", "writing"})
=============================================================================
