-------------------------- MODULE MCGatewaySession --------------------------
(***************************************************************************)
(* Three calls, two at a time, over a life and a half of a session, with   *)
(* the shortest life and the smallest margin that SessionTimes allows.     *)
(***************************************************************************)
EXTENDS GatewaySession, TLC

CONSTANTS c1, c2, s1, s2

\* The calls and the sessions differ by name only.
MCSymmetry == Permutations(Calls) \cup Permutations(Sessions)
=============================================================================
