------------------------------ MODULE MCGptAccounts ------------------------------
(***************************************************************************)
(* A small instance of GptAccounts for TLC: two accounts, one with a login *)
(* of its own, two access tokens, one request for two images and one task  *)
(* of the administrator beside the leader's loops.                         *)
(***************************************************************************)
EXTENDS GptAccounts, TLC

CONSTANTS a1, a2, t1, t2, r1, k1

\* Two accounts with a token each, or one that has yet to log in.
MCInit ==
    /\ GptInit
    /\ \/ record = (a1 :> Fresh(t1) @@ a2 :> Fresh(t2))
       \/ record = (a1 :> Fresh(NoToken) @@ a2 :> Fresh(t1))

MCSpec == MCInit /\ [][GptNext]_gptVars /\ GptFairness
=============================================================================
