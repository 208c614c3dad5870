------------------------------ MODULE ChatRetry ------------------------------
(***************************************************************************)
(* The retry loop of a chat completion (src/app/products/openai/chat.py),  *)
(* many requests at a time over the accounts of AccountSelection.  A       *)
(* request reserves an account, reads the upstream's stream, passes text   *)
(* on to its client, and when an attempt fails decides by the error's      *)
(* class whether to try again.  A non-streaming request runs the same loop *)
(* without SendDone and ClientGone.                                        *)
(*                                                                         *)
(* The directory's lock is free whenever a coroutine asks for it, so       *)
(* reserve is one step with what precedes it, and the release and feedback *)
(* of the finally block are one step with the outcome they follow.         *)
(***************************************************************************)
EXTENDS AccountSelection

CONSTANTS
    Request,       \* chat requests
    NoToken,       \* no account reserved
    MaxRetries,    \* max_retries
    TransportMax,  \* transport_max_retries
    RetryCodes     \* the error classes retry.on_codes names

\* Upstream errors by what the loop tells apart: a Cloudflare challenge (a 403
\* with a marker), a network failure (502-504 with a marker), any other 403,
\* invalid credentials, 429, 401, any other 5xx, and errors that are none of
\* these, exceptions outside UpstreamError included.
ErrorClass == {"challenge", "transport", "forbidden", "invalid", "rate_limited",
               "unauthorized", "server", "fatal"}

ASSUME ChatAssumption ==
    /\ NoToken \notin Token
    /\ IsFiniteSet(Request)
    /\ MaxRetries \in Nat
    /\ TransportMax \in Nat
    /\ RetryCodes \subseteq {"rate_limited", "unauthorized", "server"}

VARIABLES
    pc,         \* where the request is
    attempt,    \* attempt, from 0
    transport,  \* transport_retry_count
    excluded,   \* excluded
    refreshed,  \* reserve_account has refreshed on demand in this attempt
    lease,      \* acct
    rejected,   \* accounts that failed the request for their own sake (history)
    broken,     \* attempts that ended in a transport failure (history)
    verdicts    \* feedback given, failures and successes (history)

requestVars == <<pc, attempt, transport, excluded, refreshed, lease>>
historyVars == <<rejected, broken, verdicts>>
vars        == <<selectionVars, requestVars, historyVars>>

Ended == {"done", "failed", "gone"}

TypeOK ==
    /\ SelectionTypeOK
    /\ pc \in [Request -> {"selecting", "refreshing", "open", "sent"} \cup Ended]
    /\ attempt \in [Request -> 0..MaxRetries]
    /\ transport \in [Request -> 0..TransportMax]
    /\ excluded \in [Request -> SUBSET Token]
    /\ refreshed \in [Request -> BOOLEAN]
    /\ lease \in [Request -> Token \cup {NoToken}]
    /\ rejected \in [Request -> SUBSET Token]
    /\ broken \in [Request -> Nat]
    /\ verdicts \in [Request -> [good : Nat, bad : Nat]]

Init ==
    /\ SelectionInit
    /\ pc = [r \in Request |-> "selecting"]
    /\ attempt = [r \in Request |-> 0]
    /\ transport = [r \in Request |-> 0]
    /\ excluded = [r \in Request |-> {}]
    /\ refreshed = [r \in Request |-> FALSE]
    /\ lease = [r \in Request |-> NoToken]
    /\ rejected = [r \in Request |-> {}]
    /\ broken = [r \in Request |-> 0]
    /\ verdicts = [r \in Request |-> [good |-> 0, bad |-> 0]]

-----------------------------------------------------------------------------
\* reserve_account, an account is there.
Reserve(r) ==
    /\ pc[r] = "selecting"
    /\ \E t \in Candidates(excluded[r]) :
         /\ lease' = [lease EXCEPT ![r] = t]
         /\ Acquire(t)
    /\ pc' = [pc EXCEPT ![r] = "open"]
    /\ UNCHANGED <<strategy, switches, syncs, columns, attempt, transport, excluded,
                   refreshed, historyVars>>

\* No account: under the quota strategy the quotas are refreshed on demand, once,
\* which suspends the request; otherwise it fails.
NoAccount(r) ==
    /\ pc[r] = "selecting"
    /\ Candidates(excluded[r]) = {}
    /\ pc' = [pc EXCEPT ![r] = IF strategy = "quota" /\ ~refreshed[r]
                               THEN "refreshing" ELSE "failed"]
    /\ UNCHANGED <<selectionVars, attempt, transport, excluded, refreshed, lease,
                   historyVars>>

\* As RefreshReturns, but the refresh is tried again and again.
RefreshReturnsForgetful(r) ==
    /\ pc[r] = "refreshing"
    /\ pc' = [pc EXCEPT ![r] = "selecting"]
    /\ UNCHANGED <<selectionVars, attempt, transport, excluded, refreshed, lease,
                   historyVars>>

RefreshReturns(r) ==
    /\ pc[r] = "refreshing"
    /\ pc' = [pc EXCEPT ![r] = "selecting"]
    /\ refreshed' = [refreshed EXCEPT ![r] = TRUE]
    /\ UNCHANGED <<selectionVars, attempt, transport, excluded, lease, historyVars>>

-----------------------------------------------------------------------------
\* The answer and [DONE] have reached the client; success is set when the
\* generator is resumed.
SendDone(r) ==
    /\ pc[r] = "open"
    /\ pc' = [pc EXCEPT ![r] = "sent"]
    /\ UNCHANGED <<selectionVars, attempt, transport, excluded, refreshed, lease,
                   historyVars>>

\* The finally block: release, then feedback.
Settle(r, kind) ==
    /\ Release(lease[r])
    /\ lease' = [lease EXCEPT ![r] = NoToken]
    /\ feedback(lease[r], kind)
    /\ verdicts' = IF kind = "success" THEN [verdicts EXCEPT ![r].good = @ + 1]
                                       ELSE [verdicts EXCEPT ![r].bad = @ + 1]
    /\ UNCHANGED <<strategy, switches, syncs>>

Complete(r) ==
    /\ pc[r] = "sent"
    /\ pc' = [pc EXCEPT ![r] = "done"]
    /\ Settle(r, "success")
    /\ UNCHANGED <<attempt, transport, excluded, refreshed, rejected, broken>>

\* As ClientGone, but without the finally block: the lease is never released.
ClientGoneLeaking(r) ==
    /\ pc[r] \notin Ended
    /\ pc' = [pc EXCEPT ![r] = "gone"]
    /\ lease' = [lease EXCEPT ![r] = NoToken]
    /\ UNCHANGED <<selectionVars, verdicts, attempt, transport, excluded, refreshed,
                   rejected, broken>>

\* As ClientGone, but an abandoned attempt counts as a success.
ClientGoneJudgedWell(r) ==
    /\ pc[r] \notin Ended
    /\ pc' = [pc EXCEPT ![r] = "gone"]
    /\ IF lease[r] # NoToken THEN Settle(r, "success")
                             ELSE UNCHANGED <<selectionVars, lease, verdicts>>
    /\ UNCHANGED <<attempt, transport, excluded, refreshed, rejected, broken>>

\* The client disconnects, and the generator is closed wherever it stands.  An
\* attempt under way counts as a server error of its account, even after [DONE].
ClientGone(r) ==
    /\ pc[r] \notin Ended
    /\ pc' = [pc EXCEPT ![r] = "gone"]
    /\ IF lease[r] # NoToken THEN Settle(r, "server_error")
                             ELSE UNCHANGED <<selectionVars, lease, verdicts>>
    /\ UNCHANGED <<attempt, transport, excluded, refreshed, rejected, broken>>

-----------------------------------------------------------------------------
\* _should_retry_same_account_upstream, _is_transient_transport_error and
\* _should_retry_upstream.
SameAccount(e) == e = "challenge"
Transient(e)   == e = "transport"
Retryable(e)   == Transient(e) \/ e \in {"forbidden", "invalid"} \/ e \in RetryCodes

\* As WillRetry, but transport failures are limited by max_retries alone.
WillRetryTransport(r, e) ==
    attempt[r] < MaxRetries /\ (SameAccount(e) \/ Retryable(e))

\* As WillRetry, but same-account retries are not limited at all.
WillRetryChallengeForever(r, e) ==
    \/ SameAccount(e)
    \/ /\ attempt[r] < MaxRetries
       /\ \/ Transient(e) /\ transport[r] < TransportMax
          \/ ~Transient(e) /\ Retryable(e)

\* The three branches of the except block that schedule another attempt.
WillRetry(r, e) ==
    /\ attempt[r] < MaxRetries
    /\ \/ SameAccount(e)
       \/ Transient(e) /\ transport[r] < TransportMax
       \/ ~Transient(e) /\ Retryable(e)

\* As KeepsAccount, but every failure keeps it.
KeepsAnyAccount(e) == e \in ErrorClass

\* _retry_same_account: the failure is not held against the account.
KeepsAccount(e) == SameAccount(e) \/ Transient(e)

\* feedback_kind_for_error.
FeedbackKind(e) ==
    IF e = "rate_limited" THEN "rate_limited"
    ELSE IF e \in {"unauthorized", "invalid"} THEN "unauthorized"
    ELSE IF e = "forbidden" THEN "forbidden"
    ELSE "server_error"

\* The attempt fails with an error of class e: before the response, with its
\* status, or while the stream is read, when part of it is already sent on.
Fail(r, e) ==
    /\ pc[r] = "open"
    /\ Settle(r, FeedbackKind(e))
    /\ IF WillRetry(r, e)
       THEN /\ pc' = [pc EXCEPT ![r] = "selecting"]
            /\ attempt' = [attempt EXCEPT ![r] = @ + 1]
            /\ refreshed' = [refreshed EXCEPT ![r] = FALSE]
            /\ transport' = [transport EXCEPT ![r] = IF Transient(e) THEN @ + 1 ELSE @]
            /\ excluded' = [excluded EXCEPT ![r] =
                              IF KeepsAccount(e) THEN @ ELSE @ \cup {lease[r]}]
       ELSE /\ pc' = [pc EXCEPT ![r] = "failed"]
            /\ UNCHANGED <<attempt, refreshed, transport, excluded>>
    /\ rejected' = [rejected EXCEPT ![r] =
                      IF SameAccount(e) \/ Transient(e) THEN @ ELSE @ \cup {lease[r]}]
    /\ broken' = [broken EXCEPT ![r] = IF Transient(e) THEN @ + 1 ELSE @]

-----------------------------------------------------------------------------
\* The steps the event loop and the upstream owe a request: every wait has a
\* timeout.
Progress(r) ==
    \/ Reserve(r)
    \/ NoAccount(r)
    \/ RefreshReturns(r)
    \/ SendDone(r)
    \/ Complete(r)
    \/ \E e \in ErrorClass : Fail(r, e)

Next ==
    \/ \E r \in Request : Progress(r) \/ ClientGone(r)
    \/ Environment /\ UNCHANGED <<requestVars, historyVars>>

Spec == Init /\ [][Next]_vars

FairSpec == Spec /\ \A r \in Request : WF_vars(Progress(r))

-----------------------------------------------------------------------------
\* The in-flight counts are the leases the requests hold, whichever way their
\* attempts end: answered, failed, retried or abandoned by the client.
LeasesAccounted ==
    \A t \in Token : inflight[t] = Cardinality({r \in Request : lease[r] = t})

\* As long as the random strategy rules, no account carries more requests than
\* account.selection.max_inflight, however they interleave.
LoadLimited ==
    strategy = "random" /\ switches = 0 => \A t \in Token : inflight[t] <= MaxInflight

\* An account that turned a request away for a reason of its own is not tried
\* again by that request, whatever syncs put it back into the index.
NoSecondChance ==
    [][\A r \in Request : lease'[r] # lease[r] => lease'[r] \notin rejected[r]]_vars

\* Network failures are retried at most transport_max_retries times per request,
\* wherever among the other retries they come.
TransportCapped == \A r \in Request : broken[r] <= TransportMax + 1

\* Every attempt that took an account is judged exactly once, and well only when
\* the client got its answer.
OneVerdictPerAttempt ==
    \A r \in Request :
        LET given == verdicts[r].good + verdicts[r].bad
        IN  /\ lease[r] # NoToken => given = attempt[r]
            /\ lease[r] = NoToken => given \in {attempt[r], attempt[r] + 1}
            /\ verdicts[r].good = IF pc[r] = "done" THEN 1 ELSE 0

\* Every request is answered or refused.
EveryRequestEnds == \A r \in Request : <>(pc[r] \in Ended)
=============================================================================
