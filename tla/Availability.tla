------------------------------ MODULE Availability ------------------------------
(***************************************************************************)
(* Which sources may serve a Grok Build model: the rows of                 *)
(* GrokBuildCooldownStore (src/app/maintainer/grok_build_cooldown.py) for  *)
(* one model.  Each operation is one transaction; every one but            *)
(* set_disabled first expires the rows that are due.  Results come in any  *)
(* order, also for a source that was disabled or blocked meanwhile.  What  *)
(* a body or a header says is the choice of its outcome here.              *)
(***************************************************************************)
EXTENDS Naturals, FiniteSetsExt

CONSTANTS
    Source,
    Backoff,       \* backoff_seconds
    MaxBackoff,    \* max_backoff_seconds
    FreeRecovery,  \* free_recovery_seconds
    RetryAfter,    \* what a Retry-After may say
    MaxTime        \* bound: the clock

ASSUME AvailabilityAssumption ==
    /\ Backoff \in Nat /\ MaxBackoff \in Nat /\ FreeRecovery \in Nat
    /\ RetryAfter \subseteq Nat /\ IsFiniteSet(RetryAfter) /\ MaxTime \in Nat

VARIABLES row, now
availabilityVars == <<row, now>>

Never == MaxTime + FreeRecovery + MaxBackoff + Max(RetryAfter \cup {0}) + 1  \* retry_at NULL
RowType == [state : {"ready", "cooldown", "blocked", "disabled"},
            retry : 0..Never, failures : 0..10]

AvailabilityTypeOK == row \in [Source -> RowType] /\ now \in 0..MaxTime

Ready == [state |-> "ready", retry |-> Never, failures |-> 0]
AvailabilityInit == row = [s \in Source |-> Ready] /\ now = 0

\* _expire_due
Due(r)  == r.state \in {"cooldown", "blocked"} /\ r.retry <= now
Expired == [s \in Source |-> IF Due(row[s]) THEN Ready ELSE row[s]]

\* parse_xai_rate_limit: what the answer says, or else the fallback of its kind; the
\* backoff doubles with each failure before it, ten times at most.
CalculatedBackoff(failures) == Min({MaxBackoff, Backoff * 2^failures})
Limited(r, free, delay) ==
    [state    |-> IF free THEN "blocked" ELSE "cooldown",
     retry    |-> now + delay,
     failures |-> Min({10, r.failures + 1})]

Delays(r, free) == RetryAfter \cup {IF free THEN FreeRecovery ELSE CalculatedBackoff(r.failures)}

\* mark_result: a success ends a cooldown, any other failure leaves it as it is; a
\* disabled source stays so.
JudgedAnew(r, outcome) ==
    CASE outcome = "success" -> {Ready}
      [] outcome = "limited" -> {Limited(r, FALSE, d) : d \in Delays(r, FALSE)}
      [] outcome = "free"    -> {Limited(r, TRUE, d) : d \in Delays(r, TRUE)}
      [] OTHER               -> {r}
Verdicts(r, outcome) == IF r.state = "disabled" THEN {r} ELSE JudgedAnew(r, outcome)

mark_result(s, outcome) ==
    /\ \E r \in Verdicts(Expired[s], outcome) : row' = [Expired EXCEPT ![s] = r]
    /\ UNCHANGED now

\* get and filter_candidates
filter_candidates == row' = Expired /\ UNCHANGED now

set_disabled(s, disabled) ==
    /\ row' = [row EXCEPT ![s] = [Ready EXCEPT !.state = IF disabled THEN "disabled" ELSE "ready"]]
    /\ UNCHANGED now

Pass == now < MaxTime /\ now' = now + 1 /\ UNCHANGED row

AvailabilityNext ==
    \/ \E s \in Source, o \in {"success", "limited", "free", "other"} : mark_result(s, o)
    \/ filter_candidates \/ Pass
    \/ \E s \in Source, d \in BOOLEAN : set_disabled(s, d)

AvailabilitySpec == AvailabilityInit /\ [][AvailabilityNext]_availabilityVars

-----------------------------------------------------------------------------
\* Results of requests that were under way come late and in any order.  What was
\* disabled stays out of use until it is enabled, and a source that is cooling down
\* is back before its date only after a success, and has a date to be back.
BackOnlyWhenDue ==
    [][\A s \in Source :
         /\ (row[s].state = "disabled" /\ row'[s].state # "disabled") => set_disabled(s, FALSE)
         /\ row[s].state \in {"cooldown", "blocked"} =>
               /\ row[s].retry < Never
               /\ row'[s].state = "ready" =>
                     Due(row[s]) \/ mark_result(s, "success") \/ set_disabled(s, FALSE)
      ]_availabilityVars
=============================================================================
