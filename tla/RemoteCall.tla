----------------------------- MODULE RemoteCall -----------------------------
(***************************************************************************)
(* What a dispatch to a remote peer promises its caller, whatever pool,    *)
(* gate, connection and reader it goes through: it succeeds only if the    *)
(* remote peer served THIS call; when it fails the remote peer may still   *)
(* have served it, or may serve it later; and once its request is sent it  *)
(* ends.  A call that is not sent yet may wait for ever.                   *)
(***************************************************************************)
CONSTANT Callers

VARIABLES
  call,    \* each caller's call: idle, open, sent, ok or failed
  served   \* the calls the remote peer has served

callVars == <<call, served>>

CallInit == call = [c \in Callers |-> "idle"] /\ served = {}

Open(c) ==
  /\ call[c] = "idle" /\ call' = [call EXCEPT ![c] = "open"]
  /\ UNCHANGED served

Send(c) ==
  /\ call[c] = "open" /\ call' = [call EXCEPT ![c] = "sent"]
  /\ UNCHANGED served

Serve(c) ==
  /\ call[c] \notin {"idle", "open"} /\ c \notin served
  /\ served' = served \cup {c}
  /\ UNCHANGED call

Succeed(c) ==
  /\ call[c] = "sent" /\ c \in served
  /\ call' = [call EXCEPT ![c] = "ok"]
  /\ UNCHANGED served

Fail(c) ==
  /\ call[c] \in {"open", "sent"} /\ call' = [call EXCEPT ![c] = "failed"]
  /\ UNCHANGED served

CallNext ==
  \E c \in Callers : Open(c) \/ Send(c) \/ Serve(c) \/ Succeed(c) \/ Fail(c)

CallSafety == CallInit /\ [][CallNext]_callVars

CallSpec ==
  /\ CallSafety
  /\ \A c \in Callers : WF_callVars(call[c] = "sent" /\ (Succeed(c) \/ Fail(c)))
=============================================================================
