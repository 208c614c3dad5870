---------------------- MODULE MCAccountDirectoryReplica ----------------------
(* A small instance of AccountDirectory with its history variable, for TLC. *)
EXTENDS AccountDirectoryReplica

CONSTANTS t1, t2, r1, basic, super, auto

MCDefaultWindows == [p \in Pool |-> {auto}]
=============================================================================
