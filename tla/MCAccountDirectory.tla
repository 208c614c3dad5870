------------------------- MODULE MCAccountDirectory -------------------------
(* A small instance of AccountDirectory for TLC. *)
EXTENDS AccountDirectory, TLC

CONSTANTS t1, t2, r1, r2, basic, super, auto

MCDefaultWindows == [p \in Pool |-> {auto}]
Symmetric == Permutations({t1, t2}) \cup Permutations({r1, r2})
=============================================================================
