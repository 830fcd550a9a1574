-------------------------- MODULE PeerLivenessProofs --------------------------
(***************************************************************************)
(* Theorems about the liveness bookkeeping of a peer, for any number of    *)
(* endpoints and callers, any limit of missed pings and any lost           *)
(* exchanges.                                                              *)
(*                                                                         *)
(* Type correctness needs to know that a dialed endpoint belongs to the    *)
(* caller that dialed it until its keepalive loop is started: a second     *)
(* loop, or one started over an old counter, would count pings past the    *)
(* limit.  On top of it, BindingWatched and UnboundIsClosed are inductive  *)
(* as they stand; FailureIsReal needs what every caller and every loop     *)
(* between a failure and the status that reports it knows of the failure   *)
(* (Known), and OnlyTheFailedEvicted follows from the same.                *)
(***************************************************************************)
EXTENDS PeerLiveness, TLAPS

-----------------------------------------------------------------------------
(* Types.                                                                   *)

\* A caller that is about to bind the endpoint it dialed.
Dialing == {"active", "connected", "bind", "spawn"}

\* What the place of a caller says of its endpoint: a dialed endpoint has no loop
\* before its caller starts one.
CallerOK(c) ==
  /\ pc[c] \in {"gate", "check"} => c \notin Dialers
  /\ pc[c] \in {"notify", "tell", "evict", "release", "released", "record"} => c \in Closers
  /\ pc[c] \in Dialing => ep[c] \in Outbound \cap born /\ loop[ep[c]] = "off"
  /\ pc[c] \in {"send", "failed", "evicted"} => ep[c] \in Endpoints

\* No two callers work on one dialed endpoint.
OneDialer ==
  \A c, d \in Callers : pc[c] \in Dialing /\ pc[d] \in Dialing /\ ep[c] = ep[d] => c = d

\* A loop that goes on pinging is below the limit of missed pings.
LoopOK(e) ==
  /\ loop[e] # "off" => e \in born
  /\ loop[e] \in {"off", "sleep", "ping", "recover", "recovering"} => missed[e] < MaxMissed

TypeInv ==
  /\ TypeOK /\ OneDialer
  /\ \A c \in Callers : CallerOK(c)
  /\ \A e \in Outbound : LoopOK(e)

\* A step of caller c.
CallerStep(c) ==
  Connect(c) \/ Dial(c) \/ Send(c) \/ Demote(c) \/ Lookup(c) \/ Close(c)

\* Nothing is dialed, bound or recorded at first.
LEMMA TypeInit == Init => TypeInv
  BY EndpointAssumption, CallerAssumption, BoundAssumption, CastAssumption
     DEF Init, TypeInv, TypeOK, CallerOK, OneDialer, LoopOK, Dialing, Callers, Endpoints,
         CallerPCs, LoopPCs, Statuses, Reasons, Evidence, NoStatus

\* Every step of a caller keeps the types.
LEMMA TypeCaller ==
  ASSUME TypeInv, NEW c \in Callers, CallerStep(c) PROVE TypeInv'
<1> USE EndpointAssumption, CallerAssumption, BoundAssumption
    DEF pool, entities, network, callers, loops, history, TypeInv, TypeOK, CallerOK, OneDialer, LoopOK,
        Dialing, Callers, Endpoints, CallerPCs, LoopPCs, Statuses, Reasons, Evidence
<1>1. CASE GetPooled(c)
  BY <1>1 DEF GetPooled, Goto
<1>2. CASE DialGate(c)
  BY <1>2 DEF DialGate, Goto
<1>3. CASE ReusePooled(c)
  BY <1>3 DEF ReusePooled, Goto
<1>4. CASE UseInbound(c)
  BY <1>4 DEF UseInbound, Goto, Home
<1>5. CASE DialFails(c)
  BY <1>5 DEF DialFails, Goto, Home
<1>6. CASE DialSucceeds(c)
  BY <1>6 DEF DialSucceeds, Goto
<1>7. CASE WriteConnectionActive(c)
  BY <1>7 DEF WriteConnectionActive, Goto
<1>8. CASE WriteConnectedStatus(c)
  BY <1>8 DEF WriteConnectedStatus, Goto, Connected
<1>9. CASE Pool(c)
  BY <1>9 DEF Pool, Goto, RebindEndpoint, InsertEndpoint
<1>10. CASE SpawnKeepalive(c)
  BY <1>10 DEF SpawnKeepalive, Goto, Done, Home
<1>11. CASE SendOk(c)
  BY <1>11 DEF SendOk, Goto, Done, Home
<1>12. CASE SendFails(c)
  BY <1>12 DEF SendFails, Goto, Lose
<1>13. CASE SendRefused(c)
  BY <1>13 DEF SendRefused, Goto
<1>14. CASE RelayRemove(c)
  BY <1>14 DEF RelayRemove, Goto, Done, Home
<1>15. CASE DemoteEvict(c)
  BY <1>15 DEF DemoteEvict, Goto, Done, Home, EvictIfBound, WasBound
<1>16. CASE DemoteStatus(c)
  BY <1>16 DEF DemoteStatus, Goto, Suspect
<1>17. CASE DemoteClose(c)
  BY <1>17 DEF DemoteClose, Goto, Done, Home, MarkConnectionClosed
<1>18. CASE Lookup(c)
  BY <1>18 DEF Lookup, Goto
<1>19. CASE Notify(c)
  BY <1>19 DEF Notify, Goto
<1>20. CASE Evict(c)
  BY <1>20 DEF Evict, Goto
<1>21. CASE WriteReleased(c)
  BY <1>21 DEF WriteReleased, Goto, Disconnected
<1>22. CASE CloseRecord(c)
  BY <1>22 DEF CloseRecord, Goto, MarkConnectionClosed
<1> QED
  BY <1>1, <1>2, <1>3, <1>4, <1>5, <1>6, <1>7, <1>8, <1>9, <1>10, <1>11, <1>12,
     <1>13, <1>14, <1>15, <1>16, <1>17, <1>18, <1>19, <1>20, <1>21, <1>22
  DEF CallerStep, Connect, Dial, Send, Demote, Close

\* So does every step of a keepalive loop.
LEMMA TypeLoop ==
  ASSUME TypeInv, NEW e \in Outbound, Keepalive(e) PROVE TypeInv'
<1> USE EndpointAssumption, CallerAssumption, BoundAssumption
    DEF pool, entities, network, callers, loops, history, TypeInv, TypeOK, CallerOK, OneDialer, LoopOK,
        Dialing, Callers, Endpoints, LoopPCs, Statuses, Reasons, Evidence
<1>1. CASE Tick(e)
  BY <1>1 DEF Tick, Wake, WakeUnbound, LoopGoto, LiveBinding
<1>2. CASE PingAnswered(e)
  BY <1>2 DEF PingAnswered, LoopGoto
<1>3. CASE PingMissed(e)
  BY <1>3 DEF PingMissed, LoopGoto, GoToSleep, Lose
<1>4. CASE RecoverRead(e)
  BY <1>4 DEF RecoverRead, LoopGoto, GoToSleep
<1>5. CASE RecoverWrite(e)
  BY <1>5 DEF RecoverWrite, LoopGoto, GoToSleep, Connected
<1>6. CASE Escalate(e)
  BY <1>6 DEF Escalate, LoopGoto, LiveBinding
<1>7. CASE WriteSuspect(e)
  BY <1>7 DEF WriteSuspect, LoopGoto, Suspect
<1>8. CASE Grace(e)
  BY <1>8 DEF Grace, Wake, WakeUnbound, LoopGoto, LiveBinding
<1>9. CASE GraceOver(e)
  BY <1>9 DEF GraceOver, LoopGoto
<1>10. CASE EscalateCheck(e)
  BY <1>10 DEF EscalateCheck, LoopGoto, Return, StayIn
<1>11. CASE EscalateRead(e)
  BY <1>11 DEF EscalateRead, LoopGoto, Return, StayIn
<1>12. CASE EscalateWrite(e)
  BY <1>12 DEF EscalateWrite, LoopGoto, Return, Disconnected, NoStatus
<1>13. CASE MissEvict(e)
  BY <1>13 DEF MissEvict, LoopGoto, Return, StayIn, EvictIfBound, WasBound
<1>14. CASE MissStatus(e)
  BY <1>14 DEF MissStatus, LoopGoto, Disconnected
<1>15. CASE MissClose(e)
  BY <1>15 DEF MissClose, LoopGoto, Return, MarkConnectionClosed
<1> QED
  BY <1>1, <1>2, <1>3, <1>4, <1>5, <1>6, <1>7, <1>8, <1>9, <1>10, <1>11, <1>12, <1>13,
     <1>14, <1>15
  DEF Keepalive

\* So do the accept loop and the network.
LEMMA TypeNetwork ==
  ASSUME TypeInv, NEW e \in Endpoints,
         (e \in Inbound /\ (Accept(e) \/ RegisterInbound(e))) \/ ConnectionOver(e)
  PROVE  TypeInv'
<1> USE EndpointAssumption, CallerAssumption, BoundAssumption
    DEF pool, entities, network, callers, loops, history, TypeInv, TypeOK, CallerOK, OneDialer, LoopOK,
        Dialing, Callers, Endpoints, CallerPCs, LoopPCs, Statuses, Reasons, Evidence
<1>1. CASE Accept(e)
  BY <1>1 DEF Accept, Connected
<1>2. CASE RegisterInbound(e)
  BY <1>2 DEF RegisterInbound
<1>3. CASE ConnectionOver(e)
  BY <1>3 DEF ConnectionOver
<1> QED
  BY <1>1, <1>2, <1>3

\* The steps of the specification.
LEMMA Steps ==
  ASSUME [Next]_vars
  PROVE  \/ \E c \in Callers : CallerStep(c)
         \/ \E e \in Outbound : Keepalive(e)
         \/ \E e \in Endpoints :
              (e \in Inbound /\ (Accept(e) \/ RegisterInbound(e))) \/ ConnectionOver(e)
         \/ UNCHANGED vars
  BY DEF Next, CallerStep, Endpoints

\* The types are kept by every step.
LEMMA TypeStep == TypeInv /\ [Next]_vars => TypeInv'
<1> SUFFICES ASSUME TypeInv, [Next]_vars PROVE TypeInv'
  OBVIOUS
<1>1. CASE UNCHANGED vars
  BY <1>1 DEF vars, pool, entities, network, callers, loops, history, TypeInv, TypeOK, CallerOK,
     OneDialer, LoopOK
<1> QED
  BY <1>1, Steps, TypeCaller, TypeLoop, TypeNetwork

\* The pool, the entities, the callers and the loops keep their types; in
\* particular a loop never counts more missed pings than max_missed.
THEOREM TypeCorrect == Spec => []TypeOK
<1>1. TypeInv => TypeOK
  BY DEF TypeInv
<1> QED
  BY <1>1, TypeInit, TypeStep, PTL DEF Spec

-----------------------------------------------------------------------------
(* The pooled endpoint has a loop.                                          *)

\* A caller binds an endpoint only on its way to start the loop.
LEMMA WatchedCaller ==
  ASSUME TypeInv, BindingWatched, NEW c \in Callers, CallerStep(c) PROVE BindingWatched'
<1> USE EndpointAssumption, CallerAssumption, BoundAssumption
    DEF pool, entities, network, callers, loops, history, TypeInv, TypeOK, CallerOK, BindingWatched, Callers, Endpoints,
        Dialing
<1>1. CASE GetPooled(c)
  BY <1>1 DEF GetPooled, Goto
<1>2. CASE DialGate(c)
  BY <1>2 DEF DialGate, Goto
<1>3. CASE ReusePooled(c)
  BY <1>3 DEF ReusePooled, Goto
<1>4. CASE UseInbound(c)
  BY <1>4 DEF UseInbound, Goto, Home
<1>5. CASE DialFails(c)
  BY <1>5 DEF DialFails, Goto, Home
<1>6. CASE DialSucceeds(c)
  BY <1>6 DEF DialSucceeds, Goto
<1>7. CASE WriteConnectionActive(c)
  BY <1>7 DEF WriteConnectionActive, Goto
<1>8. CASE WriteConnectedStatus(c)
  BY <1>8 DEF WriteConnectedStatus, Goto, Connected
<1>9. CASE Pool(c)
  BY <1>9 DEF Pool, Goto, RebindEndpoint, InsertEndpoint
<1>10. CASE SpawnKeepalive(c)
  BY <1>10 DEF SpawnKeepalive, Goto, Done, Home
<1>11. CASE SendOk(c)
  BY <1>11 DEF SendOk, Goto, Done, Home
<1>12. CASE SendFails(c)
  BY <1>12 DEF SendFails, Goto, Lose
<1>13. CASE SendRefused(c)
  BY <1>13 DEF SendRefused, Goto
<1>14. CASE RelayRemove(c)
  BY <1>14 DEF RelayRemove, Goto, Done, Home
<1>15. CASE DemoteEvict(c)
  BY <1>15 DEF DemoteEvict, Goto, Done, Home, EvictIfBound, WasBound
<1>16. CASE DemoteStatus(c)
  BY <1>16 DEF DemoteStatus, Goto, Suspect
<1>17. CASE DemoteClose(c)
  BY <1>17 DEF DemoteClose, Goto, Done, Home, MarkConnectionClosed
<1>18. CASE Lookup(c)
  BY <1>18 DEF Lookup, Goto
<1>19. CASE Notify(c)
  BY <1>19 DEF Notify, Goto
<1>20. CASE Evict(c)
  BY <1>20 DEF Evict, Goto
<1>21. CASE WriteReleased(c)
  BY <1>21 DEF WriteReleased, Goto, Disconnected
<1>22. CASE CloseRecord(c)
  BY <1>22 DEF CloseRecord, Goto, MarkConnectionClosed
<1> QED
  BY <1>1, <1>2, <1>3, <1>4, <1>5, <1>6, <1>7, <1>8, <1>9, <1>10, <1>11, <1>12,
     <1>13, <1>14, <1>15, <1>16, <1>17, <1>18, <1>19, <1>20, <1>21, <1>22
  DEF CallerStep, Connect, Dial, Send, Demote, Close

\* A loop ends only when it finds itself unbound.
LEMMA WatchedLoop ==
  ASSUME TypeInv, BindingWatched, NEW e \in Outbound, Keepalive(e) PROVE BindingWatched'
<1> USE EndpointAssumption, CallerAssumption, BoundAssumption
    DEF pool, entities, network, callers, loops, history, TypeInv, TypeOK, CallerOK, BindingWatched, Callers, Endpoints,
        Dialing
<1>1. CASE Tick(e)
  BY <1>1 DEF Tick, Wake, WakeUnbound, LoopGoto, LiveBinding
<1>2. CASE PingAnswered(e)
  BY <1>2 DEF PingAnswered, LoopGoto
<1>3. CASE PingMissed(e)
  BY <1>3 DEF PingMissed, LoopGoto, GoToSleep, Lose
<1>4. CASE RecoverRead(e)
  BY <1>4 DEF RecoverRead, LoopGoto, GoToSleep
<1>5. CASE RecoverWrite(e)
  BY <1>5 DEF RecoverWrite, LoopGoto, GoToSleep, Connected
<1>6. CASE Escalate(e)
  BY <1>6 DEF Escalate, LoopGoto, LiveBinding
<1>7. CASE WriteSuspect(e)
  BY <1>7 DEF WriteSuspect, LoopGoto, Suspect
<1>8. CASE Grace(e)
  BY <1>8 DEF Grace, Wake, WakeUnbound, LoopGoto, LiveBinding
<1>9. CASE GraceOver(e)
  BY <1>9 DEF GraceOver, LoopGoto
<1>10. CASE EscalateCheck(e)
  BY <1>10 DEF EscalateCheck, LoopGoto, Return, StayIn
<1>11. CASE EscalateRead(e)
  BY <1>11 DEF EscalateRead, LoopGoto, Return, StayIn
<1>12. CASE EscalateWrite(e)
  BY <1>12 DEF EscalateWrite, LoopGoto, Return, Disconnected, NoStatus
<1>13. CASE MissEvict(e)
  BY <1>13 DEF MissEvict, LoopGoto, Return, StayIn, EvictIfBound, WasBound
<1>14. CASE MissStatus(e)
  BY <1>14 DEF MissStatus, LoopGoto, Disconnected
<1>15. CASE MissClose(e)
  BY <1>15 DEF MissClose, LoopGoto, Return, MarkConnectionClosed
<1> QED
  BY <1>1, <1>2, <1>3, <1>4, <1>5, <1>6, <1>7, <1>8, <1>9, <1>10, <1>11, <1>12, <1>13,
     <1>14, <1>15
  DEF Keepalive

\* One loop per pooled connection, ended only by the loss of the binding: whatever
\* dials, failures and evictions interleave, no pooled connection goes unwatched,
\* except one that a relay forward dialed.
THEOREM PooledIsWatched == Spec => []BindingWatched
<1>1. Init => BindingWatched
  BY EndpointAssumption DEF Init, BindingWatched, Endpoints
<1>2. ASSUME TypeInv, BindingWatched, [Next]_vars PROVE BindingWatched'
  <2>1. ASSUME NEW e \in Endpoints, Accept(e) \/ RegisterInbound(e) \/ ConnectionOver(e)
        PROVE  BindingWatched'
    BY <1>2, <2>1 DEF Accept, RegisterInbound, ConnectionOver, pool, callers, loops, history,
       BindingWatched
  <2>2. CASE UNCHANGED vars
    BY <1>2, <2>2 DEF vars, pool, callers, loops, history, BindingWatched
  <2> QED
    BY <1>2, <2>1, <2>2, Steps, WatchedCaller, WatchedLoop
<1> QED
  BY <1>1, <1>2, TypeInit, TypeStep, PTL DEF Spec

-----------------------------------------------------------------------------
(* The connection's record is closed.                                       *)

\* Whoever evicts the last binding goes on to close the record, or orphans it.
LEMMA ClosedCaller ==
  ASSUME TypeInv, UnboundIsClosed, NEW c \in Callers, CallerStep(c) PROVE UnboundIsClosed'
<1> USE EndpointAssumption, CallerAssumption, BoundAssumption
    DEF pool, entities, network, callers, loops, history, TypeInv, TypeOK, CallerOK, UnboundIsClosed, Callers, Endpoints,
        Dialing
<1>1. CASE GetPooled(c)
  BY <1>1 DEF GetPooled, Goto
<1>2. CASE DialGate(c)
  BY <1>2 DEF DialGate, Goto
<1>3. CASE ReusePooled(c)
  BY <1>3 DEF ReusePooled, Goto
<1>4. CASE UseInbound(c)
  BY <1>4 DEF UseInbound, Goto, Home
<1>5. CASE DialFails(c)
  BY <1>5 DEF DialFails, Goto, Home
<1>6. CASE DialSucceeds(c)
  BY <1>6 DEF DialSucceeds, Goto
<1>7. CASE WriteConnectionActive(c)
  BY <1>7 DEF WriteConnectionActive, Goto
<1>8. CASE WriteConnectedStatus(c)
  BY <1>8 DEF WriteConnectedStatus, Goto, Connected
<1>9. CASE Pool(c)
  BY <1>9 DEF Pool, Goto, RebindEndpoint, InsertEndpoint
<1>10. CASE SpawnKeepalive(c)
  BY <1>10 DEF SpawnKeepalive, Goto, Done, Home
<1>11. CASE SendOk(c)
  BY <1>11 DEF SendOk, Goto, Done, Home
<1>12. CASE SendFails(c)
  BY <1>12 DEF SendFails, Goto, Lose
<1>13. CASE SendRefused(c)
  BY <1>13 DEF SendRefused, Goto
<1>14. CASE RelayRemove(c)
  BY <1>14 DEF RelayRemove, Goto, Done, Home
<1>15. CASE DemoteEvict(c)
  BY <1>15 DEF DemoteEvict, Goto, Done, Home, EvictIfBound, WasBound
<1>16. CASE DemoteStatus(c)
  BY <1>16 DEF DemoteStatus, Goto, Suspect
<1>17. CASE DemoteClose(c)
  BY <1>17 DEF DemoteClose, Goto, Done, Home, MarkConnectionClosed
<1>18. CASE Lookup(c)
  BY <1>18 DEF Lookup, Goto
<1>19. CASE Notify(c)
  BY <1>19 DEF Notify, Goto
<1>20. CASE Evict(c)
  BY <1>20 DEF Evict, Goto
<1>21. CASE WriteReleased(c)
  BY <1>21 DEF WriteReleased, Goto, Disconnected
<1>22. CASE CloseRecord(c)
  BY <1>22 DEF CloseRecord, Goto, MarkConnectionClosed
<1> QED
  BY <1>1, <1>2, <1>3, <1>4, <1>5, <1>6, <1>7, <1>8, <1>9, <1>10, <1>11, <1>12,
     <1>13, <1>14, <1>15, <1>16, <1>17, <1>18, <1>19, <1>20, <1>21, <1>22
  DEF CallerStep, Connect, Dial, Send, Demote, Close

\* So does the loop that demotes its own endpoint.
LEMMA ClosedLoop ==
  ASSUME TypeInv, UnboundIsClosed, NEW e \in Outbound, Keepalive(e) PROVE UnboundIsClosed'
<1> USE EndpointAssumption, CallerAssumption, BoundAssumption
    DEF pool, entities, network, callers, loops, history, TypeInv, TypeOK, CallerOK, UnboundIsClosed, Callers, Endpoints,
        Dialing
<1>1. CASE Tick(e)
  BY <1>1 DEF Tick, Wake, WakeUnbound, LoopGoto, LiveBinding
<1>2. CASE PingAnswered(e)
  BY <1>2 DEF PingAnswered, LoopGoto
<1>3. CASE PingMissed(e)
  BY <1>3 DEF PingMissed, LoopGoto, GoToSleep, Lose
<1>4. CASE RecoverRead(e)
  BY <1>4 DEF RecoverRead, LoopGoto, GoToSleep
<1>5. CASE RecoverWrite(e)
  BY <1>5 DEF RecoverWrite, LoopGoto, GoToSleep, Connected
<1>6. CASE Escalate(e)
  BY <1>6 DEF Escalate, LoopGoto, LiveBinding
<1>7. CASE WriteSuspect(e)
  BY <1>7 DEF WriteSuspect, LoopGoto, Suspect
<1>8. CASE Grace(e)
  BY <1>8 DEF Grace, Wake, WakeUnbound, LoopGoto, LiveBinding
<1>9. CASE GraceOver(e)
  BY <1>9 DEF GraceOver, LoopGoto
<1>10. CASE EscalateCheck(e)
  BY <1>10 DEF EscalateCheck, LoopGoto, Return, StayIn
<1>11. CASE EscalateRead(e)
  BY <1>11 DEF EscalateRead, LoopGoto, Return, StayIn
<1>12. CASE EscalateWrite(e)
  BY <1>12 DEF EscalateWrite, LoopGoto, Return, Disconnected, NoStatus
<1>13. CASE MissEvict(e)
  BY <1>13 DEF MissEvict, LoopGoto, Return, StayIn, EvictIfBound, WasBound
<1>14. CASE MissStatus(e)
  BY <1>14 DEF MissStatus, LoopGoto, Disconnected
<1>15. CASE MissClose(e)
  BY <1>15 DEF MissClose, LoopGoto, Return, MarkConnectionClosed
<1> QED
  BY <1>1, <1>2, <1>3, <1>4, <1>5, <1>6, <1>7, <1>8, <1>9, <1>10, <1>11, <1>12, <1>13,
     <1>14, <1>15
  DEF Keepalive

\* While the connection's record says active there is a binding, or somebody is
\* about to bind one or to close the record, or the last binding was removed by a
\* relay forward or by a close whose lookup had found no hash.
THEOREM RecordClosed == Spec => []UnboundIsClosed
<1>1. Init => UnboundIsClosed
  BY DEF Init, UnboundIsClosed
<1>2. ASSUME TypeInv, UnboundIsClosed, [Next]_vars PROVE UnboundIsClosed'
  <2>1. ASSUME NEW e \in Endpoints, Accept(e) \/ RegisterInbound(e) \/ ConnectionOver(e)
        PROVE  UnboundIsClosed'
    BY <1>2, <2>1 DEF Accept, RegisterInbound, ConnectionOver, pool, entities, callers, loops, history,
       UnboundIsClosed
  <2>2. CASE UNCHANGED vars
    BY <1>2, <2>2 DEF vars, pool, entities, callers, loops, history, UnboundIsClosed
  <2> QED
    BY <1>2, <2>1, <2>2, Steps, ClosedCaller, ClosedLoop
<1> QED
  BY <1>1, <1>2, TypeInit, TypeStep, PTL DEF Spec

-----------------------------------------------------------------------------
(* A failing status is evidence.                                            *)

\* The status names an endpoint that failed in this way.
Real(s) == s.by \in Endpoints /\ Warrant(s.reason) \in evidence[s.by]

\* What happens between a failure and the status that reports it.
Known ==
  /\ \A c \in Callers :
       pc[c] \in {"failed", "evicted"} => "send-error" \in evidence[ep[c]]
  /\ \A e \in Outbound :
       /\ loop[e] \in {"escalate", "suspecting", "grace", "demote", "demoted"}
            => "keepalive-miss" \in evidence[e]
       /\ loop[e] = "write" => Real(prev[e])

RealInv ==
  /\ Known
  /\ status.status = "suspect" => Real(status)
  /\ status.status = "disconnected" /\ status.reason # "local-release" => Real(status)

\* A caller demotes the endpoint its own dispatch ended badly on.
LEMMA RealCaller ==
  ASSUME TypeInv, RealInv, NEW c \in Callers, CallerStep(c) PROVE RealInv'
<1> USE EndpointAssumption, CallerAssumption, BoundAssumption
    DEF pool, entities, network, callers, loops, history, TypeInv, TypeOK, CallerOK, RealInv, Known, Real, Warrant, Callers,
        Endpoints, Statuses, Dialing
<1>1. CASE GetPooled(c)
  BY <1>1 DEF GetPooled, Goto
<1>2. CASE DialGate(c)
  BY <1>2 DEF DialGate, Goto
<1>3. CASE ReusePooled(c)
  BY <1>3 DEF ReusePooled, Goto
<1>4. CASE UseInbound(c)
  BY <1>4 DEF UseInbound, Goto, Home
<1>5. CASE DialFails(c)
  BY <1>5 DEF DialFails, Goto, Home
<1>6. CASE DialSucceeds(c)
  BY <1>6 DEF DialSucceeds, Goto
<1>7. CASE WriteConnectionActive(c)
  BY <1>7 DEF WriteConnectionActive, Goto
<1>8. CASE WriteConnectedStatus(c)
  BY <1>8 DEF WriteConnectedStatus, Goto, Connected
<1>9. CASE Pool(c)
  BY <1>9 DEF Pool, Goto, RebindEndpoint, InsertEndpoint
<1>10. CASE SpawnKeepalive(c)
  BY <1>10 DEF SpawnKeepalive, Goto, Done, Home
<1>11. CASE SendOk(c)
  BY <1>11 DEF SendOk, Goto, Done, Home
<1>12. CASE SendFails(c)
  BY <1>12 DEF SendFails, Goto, Lose
<1>13. CASE SendRefused(c)
  BY <1>13 DEF SendRefused, Goto
<1>14. CASE RelayRemove(c)
  BY <1>14 DEF RelayRemove, Goto, Done, Home
<1>15. CASE DemoteEvict(c)
  BY <1>15 DEF DemoteEvict, Goto, Done, Home, EvictIfBound, WasBound
<1>16. CASE DemoteStatus(c)
  BY <1>16 DEF DemoteStatus, Goto, Suspect
<1>17. CASE DemoteClose(c)
  BY <1>17 DEF DemoteClose, Goto, Done, Home, MarkConnectionClosed
<1>18. CASE Lookup(c)
  BY <1>18 DEF Lookup, Goto
<1>19. CASE Notify(c)
  BY <1>19 DEF Notify, Goto
<1>20. CASE Evict(c)
  BY <1>20 DEF Evict, Goto
<1>21. CASE WriteReleased(c)
  BY <1>21 DEF WriteReleased, Goto, Disconnected
<1>22. CASE CloseRecord(c)
  BY <1>22 DEF CloseRecord, Goto, MarkConnectionClosed
<1> QED
  BY <1>1, <1>2, <1>3, <1>4, <1>5, <1>6, <1>7, <1>8, <1>9, <1>10, <1>11, <1>12,
     <1>13, <1>14, <1>15, <1>16, <1>17, <1>18, <1>19, <1>20, <1>21, <1>22
  DEF CallerStep, Connect, Dial, Send, Demote, Close

\* A loop reports its own missed pings, or the episode it found.
LEMMA RealLoop ==
  ASSUME TypeInv, RealInv, NEW e \in Outbound, Keepalive(e) PROVE RealInv'
<1> USE EndpointAssumption, CallerAssumption, BoundAssumption
    DEF pool, entities, network, callers, loops, history, TypeInv, TypeOK, CallerOK, RealInv, Known, Real, Warrant, Callers,
        Endpoints, Statuses, Dialing
<1>1. CASE Tick(e)
  BY <1>1 DEF Tick, Wake, WakeUnbound, LoopGoto, LiveBinding
<1>2. CASE PingAnswered(e)
  BY <1>2 DEF PingAnswered, LoopGoto
<1>3. CASE PingMissed(e)
  BY <1>3 DEF PingMissed, LoopGoto, GoToSleep, Lose
<1>4. CASE RecoverRead(e)
  BY <1>4 DEF RecoverRead, LoopGoto, GoToSleep
<1>5. CASE RecoverWrite(e)
  BY <1>5 DEF RecoverWrite, LoopGoto, GoToSleep, Connected
<1>6. CASE Escalate(e)
  BY <1>6 DEF Escalate, LoopGoto, LiveBinding
<1>7. CASE WriteSuspect(e)
  BY <1>7 DEF WriteSuspect, LoopGoto, Suspect
<1>8. CASE Grace(e)
  BY <1>8 DEF Grace, Wake, WakeUnbound, LoopGoto, LiveBinding
<1>9. CASE GraceOver(e)
  BY <1>9 DEF GraceOver, LoopGoto
<1>10. CASE EscalateCheck(e)
  BY <1>10 DEF EscalateCheck, LoopGoto, Return, StayIn
<1>11. CASE EscalateRead(e)
  BY <1>11 DEF EscalateRead, LoopGoto, Return, StayIn
<1>12. CASE EscalateWrite(e)
  BY <1>12 DEF EscalateWrite, LoopGoto, Return, Disconnected, NoStatus
<1>13. CASE MissEvict(e)
  BY <1>13 DEF MissEvict, LoopGoto, Return, StayIn, EvictIfBound, WasBound
<1>14. CASE MissStatus(e)
  BY <1>14 DEF MissStatus, LoopGoto, Disconnected
<1>15. CASE MissClose(e)
  BY <1>15 DEF MissClose, LoopGoto, Return, MarkConnectionClosed
<1> QED
  BY <1>1, <1>2, <1>3, <1>4, <1>5, <1>6, <1>7, <1>8, <1>9, <1>10, <1>11, <1>12, <1>13,
     <1>14, <1>15
  DEF Keepalive

\* Nothing has failed at first.
LEMMA RealInit == Init => RealInv
  BY DEF Init, RealInv, Known, NoStatus

\* Every step keeps it.
LEMMA RealStep == TypeInv /\ RealInv /\ [Next]_vars => RealInv'
<1> SUFFICES ASSUME TypeInv, RealInv, [Next]_vars PROVE RealInv'
  OBVIOUS
<1>1. ASSUME NEW e \in Endpoints, Accept(e) \/ RegisterInbound(e) \/ ConnectionOver(e)
      PROVE  RealInv'
  BY <1>1 DEF Accept, RegisterInbound, ConnectionOver, pool, entities, callers, loops, history,
     Connected, RealInv, Known, Real, Warrant
<1>2. CASE UNCHANGED vars
  BY <1>2 DEF vars, pool, entities, callers, loops, history, RealInv, Known, Real, Warrant
<1> QED
  BY <1>1, <1>2, Steps, RealCaller, RealLoop

\* A status that says a peer failed names an endpoint over which a dispatch ended
\* in an error, or which missed its pings, as its reason says: no close, release,
\* relay removal or replaced binding is ever taken for a failure, and no escalation
\* claims pings that were not sent.
THEOREM FailuresAreReal == Spec => []FailureIsReal
<1>1. RealInv => FailureIsReal
  BY EndpointAssumption DEF RealInv, Real, Warrant, FailureIsReal
<1> QED
  BY <1>1, TypeInit, TypeStep, RealInit, RealStep, PTL DEF Spec

\* A binding is lost to its own failure, to an explicit dial that replaces it, to the
\* operator or to a relay forward that failed, and never to the demotion of another
\* connection.
THEOREM FailedAloneEvicted == Spec => OnlyTheFailedEvicted
<1> DEFINE A(e) == conns = e /\ conns' # e =>
                     \/ evidence[e] # {}
                     \/ conns' # NoEP /\ \E c \in Dialers : ep[c] = conns'
                     \/ \E c \in Closers : pc[c] \in {"evict", "release"} /\ pc'[c] # pc[c]
                     \/ \E c \in Relays : pc[c] = "failed" /\ pc'[c] # pc[c]
<1>1. ASSUME TypeInv, RealInv, [Next]_vars PROVE [\A e \in Outbound : A(e)]_vars
  <2>1. CASE UNCHANGED conns
    BY <2>1
  <2>2. ASSUME NEW c \in Callers, Pool(c) PROVE \A e \in Outbound : A(e)
    BY <1>1, <2>2, EndpointAssumption
       DEF Pool, RebindEndpoint, InsertEndpoint, TypeInv, CallerOK, Dialing, Endpoints
  <2>3. ASSUME NEW c \in Callers, DemoteEvict(c) PROVE \A e \in Outbound : A(e)
    BY <1>1, <2>3 DEF DemoteEvict, EvictIfBound, RealInv, Known
  <2>4. ASSUME NEW c \in Callers, Evict(c) PROVE \A e \in Outbound : A(e)
    BY <1>1, <2>4 DEF Evict, Goto, TypeInv, TypeOK, CallerOK
  <2>5. ASSUME NEW c \in Callers, RelayRemove(c) PROVE \A e \in Outbound : A(e)
    BY <1>1, <2>5 DEF RelayRemove, Done, Home, Goto, TypeInv, TypeOK
  <2>6. ASSUME NEW o \in Outbound, MissEvict(o) PROVE \A e \in Outbound : A(e)
    BY <1>1, <2>6 DEF MissEvict, EvictIfBound, RealInv, Known
  <2>7. \/ UNCHANGED conns
        \/ \E c \in Callers : Pool(c) \/ DemoteEvict(c) \/ Evict(c) \/ RelayRemove(c)
        \/ \E o \in Outbound : MissEvict(o)
    BY <1>1 DEF Next, vars, pool, Connect, GetPooled, DialGate, ReusePooled, UseInbound,
       DialFails, DialSucceeds, Dial, WriteConnectionActive, WriteConnectedStatus,
       SpawnKeepalive, Send, SendOk, SendFails, SendRefused, Demote, DemoteStatus,
       DemoteClose, Lookup, Close, Notify, WriteReleased, CloseRecord,
       Accept, RegisterInbound, ConnectionOver, Keepalive, Tick, PingAnswered, PingMissed,
       RecoverRead, RecoverWrite, Escalate, WriteSuspect, Grace, GraceOver, EscalateCheck,
       EscalateRead, EscalateWrite, MissStatus, MissClose
  <2> QED
    BY <2>1, <2>2, <2>3, <2>4, <2>5, <2>6, <2>7
<1>2. TypeInv /\ RealInv /\ [Next]_vars => [\A e \in Outbound : A(e)]_vars
  BY <1>1
<1> QED
  BY <1>2, TypeInit, TypeStep, RealInit, RealStep, PTL DEF Spec, OnlyTheFailedEvicted
=============================================================================
