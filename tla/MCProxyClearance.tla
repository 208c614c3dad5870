--------------------------- MODULE MCProxyClearance ---------------------------
(* A small instance of ProxyClearance for TLC. *)
EXTENDS ProxyClearance, TLC

CONSTANTS p1, p2, r1, r2, grok

Pool    == [egress |-> "proxy_pool", clearance |-> "solver",
            nodes |-> <<p1, p2>>, resource |-> <<>>]
Single  == [egress |-> "single_proxy", clearance |-> "solver",
            nodes |-> <<p2>>, resource |-> <<p2>>]
Manual  == [egress |-> "direct", clearance |-> "manual", nodes |-> <<>>, resource |-> <<>>]
Off     == [egress |-> "single_proxy", clearance |-> "none",
            nodes |-> <<p1>>, resource |-> <<>>]

MCConfig   == {Pool, Single, Manual, Off}
Symmetric  == Permutations(Request)
=============================================================================
