---------------------------- MODULE PeerLiveness ----------------------------
(***************************************************************************)
(* What a peer believes of ONE remote peer, and who may change the belief: *)
(* the outbound pool and the registry of accepted connections              *)
(* (core/peer/src/remote.rs, RemoteState), the system/peer/status and      *)
(* system/connection entities (liveness.rs, connection_state.rs), the      *)
(* callers that dial, dispatch, forward, close and release, the accept     *)
(* loop, and one keepalive loop per pooled endpoint (keepalive.rs).        *)
(*                                                                         *)
(* The pool is guarded by a mutex, the entities are plain tree writes, and *)
(* no lock spans both: evicting a binding and writing the status it calls  *)
(* for are two steps, and so are writing "connected" and binding the       *)
(* connection it is about.  Those gaps are what the properties are for.    *)
(*                                                                         *)
(* Time is left out: a sleep is a state that is left some time later.  The *)
(* one timing fact the code rests on is kept, in GraceOver.                *)
(***************************************************************************)
EXTENDS Naturals, FiniteSets

CONSTANTS
  Outbound,    \* endpoints that a dial may yet create
  Inbound,     \* endpoints that an accepted connection may yet create
  Senders,     \* dispatches: get_or_connect, then send_execute
  Relays,      \* relay forwards: get_or_connect without a dispatch context
  Dialers,     \* explicit dials: connect_and_pool
  Closers,     \* the network handler's close and release-peer
  MaxMissed,   \* KeepaliveConfig.max_missed
  Losses,      \* how many exchanges may fail on a connection that is up
  Casts,       \* the sets of endpoints and callers that take part together
  NoEP,        \* no endpoint
  NoCaller     \* nobody

Endpoints == Outbound \cup Inbound
Callers == Senders \cup Relays \cup Dialers \cup Closers

ASSUME EndpointAssumption ==
  /\ Outbound \cap Inbound = {}
  /\ NoEP \notin Endpoints

ASSUME CallerAssumption ==
  /\ Dialers \cap (Senders \cup Relays \cup Closers) = {}
  /\ Closers \cap (Senders \cup Relays) = {}
  /\ Senders \cap Relays = {} /\ NoCaller \notin Callers

ASSUME CastAssumption == Casts \subseteq SUBSET (Endpoints \cup Callers)

ASSUME BoundAssumption == MaxMissed \in Nat \ {0} /\ Losses \in Nat

VARIABLES
  conns,       \* RemoteState.conns[peer]: the pooled endpoint
  inbound,     \* RemoteState.inbound[peer]: the reentry endpoint
  gate,        \* the caller that holds the peer's dial gate
  status,      \* the system/peer/status entity
  connection,  \* the status field of the system/connection entity
  born,        \* endpoints that have been created
  accepting,   \* inbound endpoints granted a capability, not yet registered
  up,          \* endpoints whose connection still works
  fresh,       \* endpoints with an exchange since their loop went to sleep
  pc, ep,      \* each caller's place and the endpoint it works on
  named,       \* the closers whose lookup found the peer's identity hash
  loop,        \* each outbound endpoint's keepalive loop
  missed,      \* that loop's missed counter
  prev,        \* the status a loop has read and is about to act on
  losses,      \* exchanges lost on connections that were up
  evidence,    \* history: how dispatches and pings ended badly on an endpoint
  orphan       \* history: the last binding, if its eviction closed no record

pool == <<conns, inbound, gate>>
entities == <<status, connection>>
network == <<born, accepting, up, losses>>
callers == <<pc, ep, named>>
loops == <<loop, missed, prev>>
history == <<evidence, orphan>>
vars == <<pool, entities, network, fresh, callers, loops, history>>

Reasons == {"transport-error", "keepalive-miss", "local-release", "absent"}

Statuses ==
  [status : {"absent", "connected", "suspect", "disconnected"},
   reason : Reasons, by : Endpoints \cup {NoEP}]

\* What is observed of an endpoint: send_execute over it returned an error, or
\* max_missed pings in a row were not answered.
Evidence == {"send-error", "keepalive-miss"}

NoStatus == [status |-> "absent", reason |-> "absent", by |-> NoEP]

(***************************************************************************)
(* PeerStatusData, with the fields the properties tell apart.  "by" is the *)
(* endpoint whose last_seen and last_error the entity carries.             *)
(***************************************************************************)
Connected == [status |-> "connected", reason |-> "absent", by |-> NoEP]
Suspect(e, r) == [status |-> "suspect", reason |-> r, by |-> e]
Disconnected(e, r) == [status |-> "disconnected", reason |-> r, by |-> e]

CallerPCs == {"absent", "idle", "gate", "check", "active", "connected", "bind", "spawn",
              "send", "failed", "evicted", "close", "released",
              "notify", "tell", "evict", "release", "record"}
LoopPCs == {"off", "none", "sleep", "ping", "recover", "recovering", "escalate",
            "suspecting", "grace", "unbound", "check", "read", "write",
            "demote", "demoted", "closing"}

Init ==
  /\ conns = NoEP /\ inbound = NoEP /\ gate = NoCaller
  /\ status = NoStatus /\ connection = "absent"
  /\ \E cast \in Casts :
       /\ born = Endpoints \ cast
       /\ pc = [c \in Callers |-> IF c \in cast THEN "idle" ELSE "absent"]
  /\ accepting = {} /\ up = {} /\ fresh = {} /\ losses = 0
  /\ ep = [c \in Callers |-> NoEP]
  /\ loop = [e \in Outbound |-> "off"] /\ missed = [e \in Outbound |-> 0]
  /\ prev = [e \in Outbound |-> NoStatus]
  /\ evidence = [e \in Endpoints |-> {}] /\ named = {} /\ orphan = NoEP

Goto(c, l) == pc' = [pc EXCEPT ![c] = l]

\* Where a dispatch returns to: close's own notification goes on to the eviction.
Home(c) == IF c \in Closers THEN "evict" ELSE "idle"

Done(c) == Goto(c, Home(c)) /\ ep' = [ep EXCEPT ![c] = NoEP] /\ UNCHANGED named

(***************************************************************************)
(* The pool operations.                                                    *)
(***************************************************************************)

\* Mutant: the peer's entries are removed, whatever they are.
EvictAny(e) == conns' = NoEP /\ inbound' = NoEP

\* evict_outbound_if_bound and evict_inbound_if_bound: only the endpoint
\* that failed is evicted, and only while it is the one bound.
EvictIfBound(e) ==
  /\ conns' = IF conns = e THEN NoEP ELSE conns
  /\ inbound' = IF inbound = e THEN NoEP ELSE inbound

WasBound(e) == conns = e \/ inbound = e

\* insert_endpoint keeps an endpoint that is already pooled.
InsertEndpoint(e) == conns' = IF conns = NoEP THEN e ELSE conns

\* rebind_endpoint replaces whatever is pooled.
RebindEndpoint(e) == conns' = e

\* mark_connection_closed: nothing to close when nothing was recorded.
MarkConnectionClosed ==
  connection' = IF connection = "absent" THEN connection ELSE "closed"

(***************************************************************************)
(* get_or_connect: the pool, then the gate, then the pool again.           *)
(***************************************************************************)
GetPooled(c) ==
  /\ \/ pc[c] = "idle" /\ c \in Senders \cup Relays
     \/ pc[c] = "tell"
  /\ IF conns # NoEP
     THEN ep' = [ep EXCEPT ![c] = conns] /\ Goto(c, "send")
     ELSE UNCHANGED ep /\ Goto(c, "gate")
  /\ UNCHANGED <<pool, entities, network, fresh, named, loops, history>>

DialGate(c) ==
  /\ pc[c] = "gate" /\ gate = NoCaller
  /\ gate' = c /\ Goto(c, "check")
  /\ UNCHANGED <<conns, inbound, entities, network, fresh, ep, named, loops, history>>

\* The double check after the gate finds what another caller pooled.
ReusePooled(c) ==
  /\ pc[c] = "check" /\ conns # NoEP
  /\ ep' = [ep EXCEPT ![c] = conns] /\ Goto(c, "send")
  /\ gate' = NoCaller
  /\ UNCHANGED <<conns, inbound, entities, network, fresh, named, loops, history>>

\* No transport address: the accepted connection, if there is one, or an error.
UseInbound(c) ==
  /\ pc[c] = "check" /\ conns = NoEP
  /\ gate' = NoCaller
  /\ IF inbound # NoEP
     THEN ep' = [ep EXCEPT ![c] = inbound] /\ Goto(c, "send")
     ELSE UNCHANGED ep /\ Goto(c, Home(c))
  /\ UNCHANGED <<conns, inbound, entities, network, fresh, named, loops, history>>

\* The dial, or its handshake, fails.
DialFails(c) ==
  /\ pc[c] = "check" /\ conns = NoEP
  /\ gate' = NoCaller /\ Goto(c, Home(c))
  /\ UNCHANGED <<conns, inbound, entities, network, fresh, ep, named, loops, history>>

\* Dial and handshake succeed; an explicit dial (connect_and_pool) has no gate.
DialSucceeds(c) ==
  /\ \/ pc[c] = "check" /\ conns = NoEP
     \/ pc[c] = "idle" /\ c \in Dialers
  /\ \E e \in Outbound \ born :
       /\ born' = born \cup {e} /\ up' = up \cup {e}
       /\ ep' = [ep EXCEPT ![c] = e]
  /\ Goto(c, "active")
  /\ UNCHANGED <<pool, entities, accepting, losses, fresh, named, loops, history>>

WriteConnectionActive(c) ==
  /\ pc[c] = "active"
  /\ connection' = "active" /\ Goto(c, "connected")
  /\ UNCHANGED <<pool, status, network, fresh, ep, named, loops, history>>

WriteConnectedStatus(c) ==
  /\ pc[c] = "connected"
  /\ status' = Connected /\ Goto(c, "bind")
  /\ UNCHANGED <<pool, connection, network, fresh, ep, named, loops, history>>

\* Only now is the connection pooled.  The loser of the slot is dropped (its
\* connection closes with it) and the winner is used instead.
Pool(c) ==
  /\ pc[c] = "bind"
  /\ IF c \in Dialers THEN RebindEndpoint(ep[c]) ELSE InsertEndpoint(ep[c])
  /\ IF conns' = ep[c]
     THEN Goto(c, "spawn") /\ UNCHANGED <<ep, up, gate>>
     ELSE /\ Goto(c, "send") /\ ep' = [ep EXCEPT ![c] = conns']
          /\ up' = up \ {ep[c]} /\ gate' = NoCaller
  /\ orphan' = NoEP
  /\ UNCHANGED <<inbound, entities, born, accepting, losses, fresh, named, loops, evidence>>

\* A relay forward has no dispatch context to hand to a loop: its connection is
\* pooled without one.
SpawnKeepalive(c) ==
  /\ pc[c] = "spawn"
  /\ loop' = [loop EXCEPT ![ep[c]] = IF c \in Relays THEN "none" ELSE "sleep"]
  /\ fresh' = fresh \ {ep[c]}
  /\ IF c \in Dialers
     THEN Done(c) /\ UNCHANGED gate
     ELSE Goto(c, "send") /\ gate' = NoCaller /\ UNCHANGED <<ep, named>>
  /\ UNCHANGED <<conns, inbound, entities, network, missed, prev, history>>

(***************************************************************************)
(* send_execute over the endpoint, and demote_peer_on_transport_error when *)
(* it fails: evict, write suspect, mark the connection closed.             *)
(***************************************************************************)
\* Only a dialed connection keeps last_activity_ms, which its loop compares with
\* the sleep it is in.
SendOk(c) ==
  /\ pc[c] = "send" /\ ep[c] \in up
  /\ fresh' = fresh \cup {e \in Outbound : e = ep[c] /\ loop[e] \in {"sleep", "grace"}}
  /\ Done(c)
  /\ UNCHANGED <<pool, entities, network, loops, history>>

\* An exchange fails: the connection is gone, or the answer is late.
Lose(e) ==
  IF e \in up THEN losses < Losses /\ losses' = losses + 1
  ELSE UNCHANGED losses

SendFails(c) ==
  /\ pc[c] = "send" /\ Lose(ep[c])
  /\ evidence' = [evidence EXCEPT ![ep[c]] = @ \cup {"send-error"}]
  /\ Goto(c, "failed")
  /\ UNCHANGED <<pool, entities, born, accepting, up, fresh, ep, named, loops, orphan>>

\* send_execute refuses before any I/O: an accepted connection has no originating
\* capability yet, or the envelope cannot be built.  To its caller it is an error
\* like any other.
SendRefused(c) ==
  /\ pc[c] = "send"
  /\ evidence' = [evidence EXCEPT ![ep[c]] = @ \cup {"send-error"}]
  /\ Goto(c, "failed")
  /\ UNCHANGED <<pool, entities, network, fresh, ep, named, loops, orphan>>

\* A relay forward that failed removes whatever is pooled for the peer, and
\* touches neither the status nor the record.
RelayRemove(c) ==
  /\ c \in Relays /\ pc[c] = "failed"
  /\ conns' = NoEP
  /\ orphan' = IF conns # NoEP THEN conns ELSE orphan
  /\ Done(c)
  /\ UNCHANGED <<inbound, gate, entities, network, fresh, loops, evidence>>

DemoteEvict(c) ==
  /\ c \notin Relays /\ pc[c] = "failed"
  /\ EvictIfBound(ep[c])
  /\ IF WasBound(ep[c])
     THEN Goto(c, "evicted") /\ UNCHANGED <<ep, named>>
     ELSE Done(c)
  /\ UNCHANGED <<gate, entities, network, fresh, loops, history>>

\* Mutant: the demotion forgets the connection's record.
DemoteStatusOnly(c) ==
  /\ pc[c] = "evicted"
  /\ status' = Suspect(ep[c], "transport-error")
  /\ Done(c)
  /\ UNCHANGED <<pool, connection, network, fresh, loops, history>>

DemoteStatus(c) ==
  /\ pc[c] = "evicted"
  /\ status' = Suspect(ep[c], "transport-error")
  /\ Goto(c, "close")
  /\ UNCHANGED <<pool, connection, network, fresh, ep, named, loops, history>>

DemoteClose(c) ==
  /\ pc[c] = "close"
  /\ MarkConnectionClosed
  /\ Done(c)
  /\ UNCHANGED <<pool, status, network, fresh, loops, history>>

(***************************************************************************)
(* The network handler.  close looks the peer's hash up, notifies the      *)
(* remote by a dispatch of its own when it is connected, evicts, and       *)
(* closes the record if the lookup found a hash; release-peer (shutdown)   *)
(* looks up, evicts, and writes disconnected under the same condition.     *)
(* Neither is a demotion.                                                  *)
(***************************************************************************)
\* The hash is the session's, if there is one that has it, or the pool's.
Lookup(c) ==
  /\ c \in Closers /\ pc[c] = "idle"
  /\ named' \in {named \cup {c}} \cup (IF conns = NoEP THEN {named} ELSE {})
  /\ Goto(c, "notify") \/ Goto(c, "release")
  /\ UNCHANGED <<pool, entities, network, fresh, ep, loops, history>>

Notify(c) ==
  /\ pc[c] = "notify"
  /\ Goto(c, IF conns # NoEP THEN "tell" ELSE "evict")
  /\ UNCHANGED <<pool, entities, network, fresh, ep, named, loops, history>>

Evict(c) ==
  /\ pc[c] \in {"evict", "release"}
  /\ conns' = NoEP
  /\ \/ c \in named /\ Goto(c, IF pc[c] = "evict" THEN "record" ELSE "released")
        /\ UNCHANGED orphan
     \/ c \notin named /\ Goto(c, "idle")
        /\ orphan' = IF conns # NoEP THEN conns ELSE orphan
  /\ named' = named \ {c}
  /\ UNCHANGED <<inbound, gate, entities, network, fresh, ep, loops, evidence>>

CloseRecord(c) ==
  /\ pc[c] = "record"
  /\ MarkConnectionClosed
  /\ Goto(c, "idle")
  /\ UNCHANGED <<pool, status, network, fresh, ep, named, loops, history>>

WriteReleased(c) ==
  /\ pc[c] = "released"
  /\ status' = Disconnected(NoEP, "local-release")
  /\ Goto(c, "record")
  /\ UNCHANGED <<pool, connection, network, fresh, ep, named, loops, history>>

(***************************************************************************)
(* The accept side.  The responder writes "connected" when it grants the   *)
(* capability and registers the endpoint later.  Its teardown leaves the   *)
(* endpoint registered: the husk fails the next dispatch at once.          *)
(***************************************************************************)
Accept(e) ==
  /\ e \in Inbound \ born
  /\ born' = born \cup {e} /\ accepting' = accepting \cup {e}
  /\ up' = up \cup {e}
  /\ status' = Connected
  /\ UNCHANGED <<pool, connection, losses, fresh, callers, loops, history>>

\* The authenticate response is written, or the write fails and the
\* connection is dropped without ever being registered.
RegisterInbound(e) ==
  /\ e \in accepting
  /\ accepting' = accepting \ {e}
  /\ \/ inbound' = e /\ UNCHANGED up
     \/ up' = up \ {e} /\ UNCHANGED inbound
  /\ UNCHANGED <<conns, gate, entities, born, losses, fresh, callers, loops, history>>

\* A connection dies.  Nothing is told of it: not the pool, not the registry.
ConnectionOver(e) ==
  /\ e \in up
  /\ up' = up \ {e}
  /\ UNCHANGED <<pool, entities, born, accepting, losses, fresh, callers, loops, history>>

(***************************************************************************)
(* keepalive_loop of endpoint e.                                           *)
(***************************************************************************)
LoopGoto(e, l) == loop' = [loop EXCEPT ![e] = l]

LiveBinding(e) == conns = e

\* Back to the interval's sleep: "fresh" starts over.
GoToSleep(e) == LoopGoto(e, "sleep") /\ fresh' = fresh \ {e}

\* The sleep ends: with the binding lost, the counter has no further use.
Wake(e) == fresh' = fresh \ {e}
WakeUnbound(e, l) ==
  ~LiveBinding(e) /\ LoopGoto(e, l) /\ missed' = [missed EXCEPT ![e] = 0]

\* Mutant: an unbound loop just returns.
TickReturns(e) ==
  /\ loop[e] = "sleep"
  /\ Wake(e)
  /\ \/ WakeUnbound(e, "off")
     \/ LiveBinding(e) /\ e \in fresh
        /\ LoopGoto(e, "recover") /\ missed' = [missed EXCEPT ![e] = 0]
     \/ LiveBinding(e) /\ e \notin fresh
        /\ LoopGoto(e, "ping") /\ UNCHANGED missed
  /\ UNCHANGED <<pool, entities, network, callers, prev, history>>

\* The interval is over: unbound, or an exchange makes the ping superfluous,
\* or the ping is due.
Tick(e) ==
  /\ loop[e] = "sleep"
  /\ Wake(e)
  /\ \/ WakeUnbound(e, "unbound")
     \/ LiveBinding(e) /\ e \in fresh
        /\ LoopGoto(e, "recover") /\ missed' = [missed EXCEPT ![e] = 0]
     \/ LiveBinding(e) /\ e \notin fresh
        /\ LoopGoto(e, "ping") /\ UNCHANGED missed
  /\ UNCHANGED <<pool, entities, network, callers, prev, history>>

PingAnswered(e) ==
  /\ loop[e] = "ping" /\ e \in up
  /\ missed' = [missed EXCEPT ![e] = 0] /\ LoopGoto(e, "recover")
  /\ UNCHANGED <<pool, entities, network, fresh, callers, prev, history>>

\* Mutant: one more missed ping than max_missed.
PingMissedLate(e) ==
  /\ loop[e] = "ping" /\ Lose(e)
  /\ missed' = [missed EXCEPT ![e] = @ + 1]
  /\ IF missed'[e] <= MaxMissed
     THEN GoToSleep(e) /\ UNCHANGED evidence
     ELSE /\ LoopGoto(e, "escalate") /\ UNCHANGED fresh
          /\ evidence' = [evidence EXCEPT ![e] = @ \cup {"keepalive-miss"}]
  /\ UNCHANGED <<pool, entities, born, accepting, up, callers, prev, orphan>>

PingMissed(e) ==
  /\ loop[e] = "ping" /\ Lose(e)
  /\ missed' = [missed EXCEPT ![e] = @ + 1]
  /\ IF missed'[e] < MaxMissed
     THEN GoToSleep(e) /\ UNCHANGED evidence
     ELSE /\ LoopGoto(e, "escalate") /\ UNCHANGED fresh
          /\ evidence' = [evidence EXCEPT ![e] = @ \cup {"keepalive-miss"}]
  /\ UNCHANGED <<pool, entities, born, accepting, up, callers, prev, orphan>>

\* Mutant: only a suspect peer is recovered.
RecoverSuspect(e) ==
  /\ loop[e] = "recover"
  /\ IF status.status # "suspect"
     THEN GoToSleep(e)
     ELSE LoopGoto(e, "recovering") /\ UNCHANGED fresh
  /\ UNCHANGED <<pool, entities, network, callers, missed, prev, history>>

\* recover_connected reads the status; only a status that is not "connected"
\* is written.
RecoverRead(e) ==
  /\ loop[e] = "recover"
  /\ IF status.status = "connected"
     THEN GoToSleep(e)
     ELSE LoopGoto(e, "recovering") /\ UNCHANGED fresh
  /\ UNCHANGED <<pool, entities, network, callers, missed, prev, history>>

RecoverWrite(e) ==
  /\ loop[e] = "recovering"
  /\ status' = Connected
  /\ GoToSleep(e)
  /\ UNCHANGED <<pool, connection, network, callers, missed, prev, history>>

\* max_missed pings in a row: suspect, if the binding is still ours.
Escalate(e) ==
  /\ loop[e] = "escalate"
  /\ LoopGoto(e, IF LiveBinding(e) THEN "suspecting" ELSE "unbound")
  /\ UNCHANGED <<pool, entities, network, fresh, callers, missed, prev, history>>

WriteSuspect(e) ==
  /\ loop[e] = "suspecting"
  /\ status' = Suspect(e, "keepalive-miss")
  /\ LoopGoto(e, "grace") /\ fresh' = fresh \ {e}
  /\ UNCHANGED <<pool, connection, network, callers, missed, prev, history>>

\* Mutant: the grace runs out and the loop ends without a demotion.
GraceGivesUp(e) ==
  /\ loop[e] = "grace"
  /\ Wake(e)
  /\ \/ WakeUnbound(e, "check")
     \/ LiveBinding(e) /\ e \in fresh
        /\ LoopGoto(e, "recover") /\ missed' = [missed EXCEPT ![e] = 0]
     \/ LiveBinding(e) /\ e \notin fresh
        /\ LoopGoto(e, "off") /\ UNCHANGED missed
  /\ UNCHANGED <<pool, entities, network, callers, prev, history>>

\* The grace after suspect: unbound meanwhile, recovered, or failed.
Grace(e) ==
  /\ loop[e] = "grace"
  /\ Wake(e)
  /\ \/ WakeUnbound(e, "check")
     \/ LiveBinding(e) /\ e \in fresh
        /\ LoopGoto(e, "recover") /\ missed' = [missed EXCEPT ![e] = 0]
     \/ LiveBinding(e) /\ e \notin fresh
        /\ LoopGoto(e, "demote") /\ UNCHANGED missed
  /\ UNCHANGED <<pool, entities, network, callers, prev, history>>

\* escalate_after_grace sleeps before it looks.  The sleep (timeout_ms) is
\* longer than the straight-line code between the eviction that made the loop
\* unbound and the status write that follows it, which began before the sleep.
GraceOver(e) ==
  /\ loop[e] = "unbound"
  /\ ~ \E c \in Callers : pc[c] = "evicted" /\ ep[c] = e
  /\ LoopGoto(e, "check")
  /\ UNCHANGED <<pool, entities, network, fresh, callers, missed, prev, history>>

\* An endpoint is bound at most once in its life, so a loop that has lost its
\* binding and does not escalate is over.
Return(e) ==
  /\ LoopGoto(e, "off")
  /\ missed' = [missed EXCEPT ![e] = 0] /\ fresh' = fresh \ {e}

StayIn(e, l) == LoopGoto(e, l) /\ UNCHANGED <<missed, fresh>>

\* escalate_unbound_suspect: any binding at all, and it is not ours to write.
EscalateCheck(e) ==
  /\ loop[e] = "check"
  /\ IF conns # NoEP \/ inbound # NoEP THEN Return(e) ELSE StayIn(e, "read")
  /\ UNCHANGED <<pool, entities, network, callers, prev, history>>

\* Mutant: whatever the status is, it is escalated.
EscalateAny(e) ==
  /\ loop[e] = "read"
  /\ StayIn(e, "write") /\ prev' = [prev EXCEPT ![e] = status]
  /\ UNCHANGED <<pool, entities, network, callers, history>>

EscalateRead(e) ==
  /\ loop[e] = "read"
  /\ IF status.status = "suspect"
     THEN StayIn(e, "write") /\ prev' = [prev EXCEPT ![e] = status]
     ELSE Return(e) /\ UNCHANGED prev
  /\ UNCHANGED <<pool, entities, network, callers, history>>

\* The reason and the snapshot of the write that opened the episode are kept.
EscalateWrite(e) ==
  /\ loop[e] = "write"
  /\ status' = Disconnected(prev[e].by, prev[e].reason)
  /\ prev' = [prev EXCEPT ![e] = NoStatus]
  /\ Return(e)
  /\ UNCHANGED <<pool, connection, network, callers, history>>

\* demote_peer_on_keepalive_miss: evict, write disconnected, close the record.
MissEvict(e) ==
  /\ loop[e] = "demote"
  /\ EvictIfBound(e)
  /\ IF WasBound(e) THEN StayIn(e, "demoted") ELSE Return(e)
  /\ UNCHANGED <<gate, entities, network, callers, prev, history>>

MissStatus(e) ==
  /\ loop[e] = "demoted"
  /\ status' = Disconnected(e, "keepalive-miss")
  /\ LoopGoto(e, "closing")
  /\ UNCHANGED <<pool, connection, network, fresh, callers, missed, prev, history>>

MissClose(e) ==
  /\ loop[e] = "closing"
  /\ MarkConnectionClosed
  /\ Return(e)
  /\ UNCHANGED <<pool, status, network, callers, prev, history>>

(***************************************************************************)
(* The specification.                                                      *)
(***************************************************************************)
Dial(c) ==
  \/ WriteConnectionActive(c) \/ WriteConnectedStatus(c)
  \/ Pool(c) \/ SpawnKeepalive(c)

Send(c) == SendOk(c) \/ SendFails(c) \/ SendRefused(c)

Demote(c) ==
  DemoteEvict(c) \/ DemoteStatus(c) \/ DemoteClose(c) \/ RelayRemove(c)

Close(c) == Notify(c) \/ Evict(c) \/ WriteReleased(c) \/ CloseRecord(c)

Connect(c) ==
  \/ GetPooled(c) \/ DialGate(c) \/ ReusePooled(c) \/ UseInbound(c)
  \/ DialFails(c) \/ DialSucceeds(c)

Keepalive(e) ==
  \/ Tick(e) \/ PingAnswered(e) \/ PingMissed(e)
  \/ RecoverRead(e) \/ RecoverWrite(e)
  \/ Escalate(e) \/ WriteSuspect(e) \/ Grace(e)
  \/ GraceOver(e) \/ EscalateCheck(e) \/ EscalateRead(e) \/ EscalateWrite(e)
  \/ MissEvict(e) \/ MissStatus(e) \/ MissClose(e)

Next ==
  \/ \E c \in Callers :
       Connect(c) \/ Dial(c) \/ Send(c) \/ Demote(c) \/ Lookup(c) \/ Close(c)
  \/ \E e \in Inbound : Accept(e) \/ RegisterInbound(e)
  \/ \E e \in Endpoints : ConnectionOver(e)
  \/ \E e \in Outbound : Keepalive(e)

Spec == Init /\ [][Next]_vars

(***************************************************************************)
(* Straight-line code is finished, and a loop's sleeps and pings end.      *)
(* Nothing says that anyone dials, sends, accepts or that a connection     *)
(* dies.                                                                   *)
(***************************************************************************)
FairSpec ==
  /\ Spec
  /\ \A c \in Callers : WF_vars(Dial(c)) /\ WF_vars(Demote(c)) /\ WF_vars(Close(c))
  /\ \A e \in Outbound : WF_vars(Keepalive(e))

(***************************************************************************)
(* Properties.                                                             *)
(***************************************************************************)

\* Type correctness of the pool, the two entities and everybody's place.
TypeOK ==
  /\ conns \in Outbound \cup {NoEP} /\ inbound \in Inbound \cup {NoEP}
  /\ gate \in (Callers \ Dialers) \cup {NoCaller}
  /\ status \in Statuses /\ connection \in {"absent", "active", "closed"}
  /\ born \subseteq Endpoints /\ accepting \subseteq Inbound
  /\ up \subseteq born /\ fresh \subseteq Outbound
  /\ pc \in [Callers -> CallerPCs] /\ ep \in [Callers -> Endpoints \cup {NoEP}]
  /\ loop \in [Outbound -> LoopPCs] /\ missed \in [Outbound -> 0..MaxMissed]
  /\ prev \in [Outbound -> Statuses]
  /\ losses \in 0..Losses
  /\ named \subseteq Closers
  /\ evidence \in [Endpoints -> SUBSET Evidence] /\ orphan \in Outbound \cup {NoEP}

\* keepalive.rs: one loop per pooled outbound connection, ended only by the
\* loss of the binding.  Whatever dials, failures and loops interleave, the
\* pooled endpoint has a loop that still looks at it, or is about to get one,
\* or was dialed by a relay forward, which has no context to run a loop in.
BindingWatched ==
  \A e \in Outbound :
    conns = e =>
      \/ loop[e] \in {"sleep", "ping", "recover", "recovering", "escalate",
                      "suspecting", "grace", "demote", "none"}
      \/ \E c \in Callers : pc[c] = "spawn" /\ ep[c] = e

\* What must have been observed for a status to give this reason.
Warrant(r) == IF r = "transport-error" THEN "send-error" ELSE r

\* A failing status is evidence (liveness.rs, keepalive.rs 328-347): a dispatch
\* over the very endpoint it names ended in an error, or that endpoint missed
\* its pings, as the reason says.  An eviction that is no failure (close,
\* release, a replaced binding, a relay's removal) never turns into one, and an
\* escalation never claims pings that were not sent.  It does not say that the
\* connection failed: what send_execute refuses itself (SendRefused) is reported
\* as a transport error too.
FailureIsReal ==
  status.status \in {"suspect", "disconnected"} /\ status.reason # "local-release"
    => status.by # NoEP /\ Warrant(status.reason) \in evidence[status.by]

\* The no-clobber guard of the pool (evict_outbound_if_bound): a binding is
\* lost to its own failure, to an explicit dial that replaces it, to the
\* operator, or to a relay forward that failed, and never to a dispatch or a
\* loop whose own connection is another one.
OnlyTheFailedEvicted ==
  [][\A e \in Outbound :
       conns = e /\ conns' # e =>
         \/ evidence[e] # {}
         \/ conns' # NoEP /\ \E c \in Dialers : ep[c] = conns'
         \/ \E c \in Closers : pc[c] \in {"evict", "release"} /\ pc'[c] # pc[c]
         \/ \E c \in Relays : pc[c] = "failed" /\ pc'[c] # pc[c]]_vars

\* The system/connection record is closed with the binding it describes: while
\* it says active there is a binding, or somebody is about to bind one, or the
\* one who evicted the last binding is about to close the record.  The two
\* evictions that leave the record alone are a relay's removal and a close whose
\* lookup found no hash, because the peer was bound only after it; nothing else
\* leaves an active record without a binding.
UnboundIsClosed ==
  connection = "active" =>
    \/ conns # NoEP
    \/ \E c \in Callers : pc[c] \in {"connected", "bind", "evicted", "close", "released",
                                     "record"}
    \/ \E e \in Outbound : loop[e] \in {"demoted", "closing"}
    \/ orphan # NoEP

\* The places in which a loop has still to find out that it is unbound.
Watching == {"sleep", "ping", "recover", "unbound"}

\* Section 5.4a: the transport-error demotion evicts the endpoint, but the
\* episode it opens is still escalated to disconnected, as long as the
\* endpoint's loop is watching and nothing is bound meanwhile.
EpisodeEscalates ==
  (\E e \in Outbound :
     /\ status = Suspect(e, "transport-error") /\ conns = NoEP /\ inbound = NoEP
     /\ loop[e] \in Watching)
  ~> (status.status # "suspect" \/ conns # NoEP \/ inbound # NoEP)

\* A late demotion write may still overwrite the "connected" of a connection
\* that is already bound (liveness.rs 182-208 against remote.rs 999-1010), but
\* not for good: the loop of a bound, working connection restores it.  (A relay's
\* connection has no loop.)
BelievedConnected ==
  (conns \in up /\ status.status # "connected")
  ~> (status.status = "connected" \/ conns \notin up \/ loop[conns] = "none")

\* keepalive.rs 354-357: "ANY live binding ... means the peer is back and
\* whoever bound it owns liveness".  So without a LIVE binding the episode is
\* escalated.  The accept loop's teardown leaves dead endpoints registered.
EscalatesUnlessLive ==
  (\E e \in Outbound :
     /\ status = Suspect(e, "transport-error") /\ conns = NoEP /\ inbound \notin up
     /\ loop[e] \in Watching)
  ~> (status.status # "suspect" \/ conns # NoEP \/ inbound \in up)
=============================================================================
