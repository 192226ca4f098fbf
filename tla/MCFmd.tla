------------------------------- MODULE MCFmd -------------------------------
(***************************************************************************)
(* Three requests for two permits and one render permit; hosts of no, one, *)
(* two addresses, one of them not public.                                  *)
(***************************************************************************)
EXTENDS Fmd, TLC

CONSTANTS q1, q2, q3, a1, a2, a3
=============================================================================
