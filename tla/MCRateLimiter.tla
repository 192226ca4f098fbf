---------------------------- MODULE MCRateLimiter ----------------------------
(***************************************************************************)
(* Two clients, one with two requests at a time.                           *)
(***************************************************************************)
EXTENDS RateLimiter

CONSTANTS c1, c2, r1, r2, r3

MCClientOf == [r \in {r1, r2, r3} |-> IF r = r3 THEN c2 ELSE c1]
=============================================================================
