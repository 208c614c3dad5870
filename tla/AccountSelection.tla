-------------------------- MODULE AccountSelection --------------------------
(***************************************************************************)
(* Which account a request is given, and what its outcome does to the      *)
(* account: the two strategies of src/app/dataplane/account/selector.py    *)
(* and the feedback of feedback.py, over the accounts of one pool and one  *)
(* mode.  A model that names several pools or modes tries the next one     *)
(* when this one yields nothing.  AccountDirectory models how the columns  *)
(* are loaded and kept; here loading is an environment step.               *)
(*                                                                         *)
(* The scores that order candidates (health, recency, load) are left open: *)
(* any candidate may be the best one.                                      *)
(***************************************************************************)
EXTENDS Naturals, FiniteSets

CONSTANTS
    Token,           \* account tokens
    QuotaTotal,      \* remaining calls of a full quota window
    MaxInflight,     \* account.selection.max_inflight
    RandomMaxFails,  \* _RANDOM_MAX_FAILS
    MaxSwitches,     \* bound: how often the operator changes the strategy
    MaxSyncs         \* bound: how often a sync reloads an account

ASSUME SelectionAssumption ==
    /\ QuotaTotal \in Nat
    /\ MaxInflight \in Nat
    /\ RandomMaxFails \in Nat \ {0}
    /\ MaxSwitches \in Nat
    /\ MaxSyncs \in Nat

VARIABLES
    strategy,    \* "quota" or "random"
    switches,    \* changes of strategy so far
    syncs,       \* reloads so far
    listed,      \* accounts in mode_available
    trusted,     \* accounts with a real or estimated quota (source > 0)
    quota,       \* remaining calls
    cooling,     \* accounts whose cooling_until lies ahead
    fails,       \* fail_count, which nothing tells apart past RandomMaxFails
    inflight     \* leases held

columns       == <<listed, trusted, quota, cooling, fails>>
selectionVars == <<strategy, switches, syncs, columns, inflight>>

SelectionTypeOK ==
    /\ strategy \in {"quota", "random"}
    /\ switches \in 0..MaxSwitches
    /\ syncs \in 0..MaxSyncs
    /\ listed \subseteq Token
    /\ trusted \subseteq Token
    /\ quota \in [Token -> 0..QuotaTotal]
    /\ cooling \subseteq Token
    /\ fails \in [Token -> 0..RandomMaxFails]
    /\ inflight \in [Token -> Nat]

SelectionInit ==
    /\ strategy \in {"quota", "random"}
    /\ switches = 0
    /\ syncs = 0
    /\ listed = Token
    /\ trusted \in SUBSET Token
    /\ quota = [t \in Token |-> QuotaTotal]
    /\ cooling = {}
    /\ fails = [t \in Token |-> 0]
    /\ inflight = [t \in Token |-> 0]

-----------------------------------------------------------------------------
\* _quota_select: accounts with quota left; as soon as one of them is trusted,
\* and before the excluded ones are taken out, only the trusted ones.
QuotaCandidates(exclude) ==
    LET working == {t \in listed : quota[t] > 0}
    IN  (IF working \cap trusted # {} THEN working \cap trusted ELSE working) \ exclude

\* As RandomCandidates, but the account's load is not looked at.
RandomCandidatesAnyLoad(exclude) ==
    {t \in listed \ exclude : t \notin cooling /\ fails[t] < RandomMaxFails}

\* _random_select: accounts that are not cooling, not full and not failing.
RandomCandidates(exclude) ==
    {t \in listed \ exclude : /\ t \notin cooling
                              /\ inflight[t] < MaxInflight
                              /\ fails[t] < RandomMaxFails}

Candidates(exclude) ==
    IF strategy = "random" THEN RandomCandidates(exclude) ELSE QuotaCandidates(exclude)

\* increment_inflight and decrement_inflight.
Acquire(t) == inflight' = [inflight EXCEPT ![t] = @ + 1]
Release(t) == inflight' = [inflight EXCEPT ![t] = IF @ > 0 THEN @ - 1 ELSE 0]

-----------------------------------------------------------------------------
\* update_last_fail, for every outcome but a success.
CountFailure(t) ==
    fails' = [fails EXCEPT ![t] = IF @ < RandomMaxFails THEN @ + 1 ELSE @]

\* AccountDirectory.feedback, by the kind of outcome.
Success(t) ==
    /\ quota' = IF strategy = "quota" /\ quota[t] > 0
                THEN [quota EXCEPT ![t] = @ - 1] ELSE quota
    /\ UNCHANGED <<listed, trusted, cooling, fails>>

RateLimited(t) ==
    /\ CountFailure(t)
    /\ IF strategy = "random"
       THEN cooling' = cooling \cup {t} /\ UNCHANGED quota
       ELSE quota' = [quota EXCEPT ![t] = 0] /\ UNCHANGED cooling
    /\ UNCHANGED <<listed, trusted>>

Unauthorized(t) ==
    /\ CountFailure(t)
    /\ listed' = listed \ {t}
    /\ UNCHANGED <<trusted, quota, cooling>>

OtherFailure(t) ==
    /\ CountFailure(t)
    /\ UNCHANGED <<listed, trusted, quota, cooling>>

feedback(t, kind) ==
    \/ kind = "success" /\ Success(t)
    \/ kind = "rate_limited" /\ RateLimited(t)
    \/ kind = "unauthorized" /\ Unauthorized(t)
    \/ kind \in {"forbidden", "server_error"} /\ OtherFailure(t)

-----------------------------------------------------------------------------
\* What changes under a request's feet: a sync reloads an account's columns
\* (cooling and the in-flight count are not among them), the cooling time of an
\* account passes, its quota window ends, and the operator turns
\* account.refresh.enabled on or off.
Sync(t) ==
    /\ syncs < MaxSyncs
    /\ syncs' = syncs + 1
    /\ \E on \in BOOLEAN : listed' = IF on THEN listed \cup {t} ELSE listed \ {t}
    /\ \E on \in BOOLEAN : trusted' = IF on THEN trusted \cup {t} ELSE trusted \ {t}
    /\ \E q \in 0..QuotaTotal : quota' = [quota EXCEPT ![t] = q]
    /\ \E n \in 0..RandomMaxFails : fails' = [fails EXCEPT ![t] = n]
    /\ UNCHANGED <<strategy, switches, cooling, inflight>>

CoolingEnds(t) ==
    /\ t \in cooling
    /\ cooling' = cooling \ {t}
    /\ UNCHANGED <<strategy, switches, syncs, listed, trusted, quota, fails, inflight>>

\* The quota window of an account ends, and the next selection finds its quota
\* restored (_maybe_reset_windows).
WindowEnds(t) ==
    /\ quota[t] < QuotaTotal
    /\ quota' = [quota EXCEPT ![t] = QuotaTotal]
    /\ UNCHANGED <<strategy, switches, syncs, listed, trusted, cooling, fails,
                   inflight>>

reconcile_refresh_runtime ==
    /\ switches < MaxSwitches
    /\ switches' = switches + 1
    /\ strategy' = IF strategy = "quota" THEN "random" ELSE "quota"
    /\ UNCHANGED <<syncs, columns, inflight>>

Environment ==
    \/ \E t \in Token : Sync(t) \/ CoolingEnds(t) \/ WindowEnds(t)
    \/ reconcile_refresh_runtime
=============================================================================
