------------------------------- MODULE MCRequests -------------------------------
(***************************************************************************)
(* Small instances of the two ways to the upstream, for TLC in one run:    *)
(* ChatRetry, two requests over two accounts; and GrokBuildPool, two       *)
(* requests over one entry or one request over two, and a server that      *)
(* rotates refresh tokens.  A behaviour is one of one component; the other *)
(* is parked.                                                              *)
(***************************************************************************)
EXTENDS ChatRetry, GrokBuildPool, TLC

CONSTANTS t1, t2, r1, r2, s1, s2, p1, p2, h1

VARIABLE which

BuildInit   == InitWith({s1}, BuildRequest) \/ InitWith({s1, s2}, {r1})
ChatParked  == Init /\ strategy = "quota" /\ trusted = {}
BuildParked == InitWith({s1}, BuildRequest)

MCInit ==
    \/ which = "chat" /\ Init /\ BuildParked
    \/ which = "build" /\ BuildInit /\ ChatParked

MCNext ==
    \/ which = "chat" /\ Next /\ UNCHANGED <<which, poolVars>>
    \/ which = "build" /\ PoolNext /\ UNCHANGED <<which, vars>>

MCSpec == MCInit /\ [][MCNext]_<<which, vars, poolVars>>
=============================================================================
