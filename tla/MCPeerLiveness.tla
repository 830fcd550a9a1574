--------------------------- MODULE MCPeerLiveness ---------------------------
(* Instances of PeerLiveness for TLC. *)
EXTENDS PeerLiveness

CONSTANTS o1, o2, i1, s1, s2, d1, k1, r1

\* A dispatch against explicit dials; dispatches against each other; a dispatch
\* with an accepted connection; an operator against a dispatch and against a dial;
\* and a relay forward against a dispatch and against a dial.
MCCasts ==
  {{o1, o2, s1, d1}, {o1, s1, s2}, {o1, i1, s1, d1}, {o1, s1, k1}, {o1, i1, d1, k1},
   {o1, s1, r1}, {o1, d1, r1}}
=============================================================================
