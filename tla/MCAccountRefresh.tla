--------------------------- MODULE MCAccountRefresh ---------------------------
(* A small instance of AccountRefresh for TLC. *)
EXTENDS AccountRefresh, TLC

CONSTANTS a1, t1, t2
=============================================================================
