-------------------------- MODULE MCRemoteDispatch --------------------------
(* Instances of RemoteDispatch for TLC. *)
EXTENDS RemoteDispatch

CONSTANTS c1, c2, c3, k1, k2

\* Two callers with connections to share and to replace, and three at the dial
\* gate of a peer that no dial reaches.
MCCasts == {{c1, c2, k1, k2}, {c1, c2, c3}}
=============================================================================
