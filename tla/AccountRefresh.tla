----------------------------- MODULE AccountRefresh -----------------------------
(***************************************************************************)
(* What happens to an account row between a call and the next: the quota   *)
(* and failure records of AccountRefreshService, the console reset and     *)
(* recovery loops of the leader, and the operator's own changes            *)
(* (src/app/control/account/refresh.py, the backends' patch_accounts, and  *)
(* the loops of src/app/main.py).                                          *)
(*                                                                         *)
(* A record task reads the row, may wait for the usage API, and writes     *)
(* what it computed from the row it read; patch_accounts replaces the      *)
(* fields it is given whatever the row has become.  Tasks of all workers   *)
(* interleave at those waits.                                              *)
(*                                                                         *)
(* Two windows stand for the six modes: "console", kept by this program    *)
(* alone, and "auto", which the usage API reports.  Pools, and counters    *)
(* nothing below depends on, are left to AccountRepository.                *)
(***************************************************************************)
EXTENDS Naturals, FiniteSets

CONSTANTS
    Account,       \* account tokens
    Task,          \* fire-and-forget record tasks that may overlap
    Total,         \* queries in a full window (the console's 30)
    Low,           \* console remaining at which its window starts to run (20)
    Threshold,     \* console 429s that expire an account (3)
    Forget,        \* age at which the last console 429 is forgotten (12 h)
    Window,        \* window length (30 min)
    RecoverAfter,  \* age at which a console expiry is forgiven (1 h)
    MinUses,       \* uses an account must exceed to be forgiven (5)
    MaxTime,       \* bound on the clock
    LastCall,      \* bound: no record task starts after this time
    MaxTasks,      \* bound: record tasks over a behaviour
    MaxChanges     \* bound: operator changes over a behaviour

ASSUME RefreshAssumption ==
    /\ Account # {}
    /\ Total \in Nat \ {0} /\ Low \in Nat /\ Threshold \in Nat \ {0}
    /\ Forget \in Nat /\ Window \in Nat \ {0} /\ RecoverAfter \in Nat
    /\ MinUses \in Nat /\ MaxTime \in Nat /\ LastCall \in Nat /\ MaxTasks \in Nat
    /\ MaxChanges \in Nat

\* A time, or None where the code has NULL or an absent key.  The clock starts
\* at 1, so that 0 is free.
None == 0

Source == {"default", "real", "estimated"}
QuotaWindow == [remaining: 0..Total, reset: Nat, source: Source]

Status == {"active", "expired", "disabled"}
Reason == {"none", "console_429", "invalid_credentials", "operator"}

Row == [status: Status, reason: Reason, deleted: BOOLEAN, uses: Nat,
        count: Nat, last: Nat, expiredAt: Nat,
        console: QuotaWindow, auto: QuotaWindow]

Kind == {"use_console", "use_auto", "fail_console", "fail_auto", "refresh"}

VARIABLES
    row,       \* the account table
    task,      \* what each record task is doing, and the row it read
    selected,  \* the accounts the recovery loop has selected and not updated
    clock,     \* now_ms()
    started,   \* record tasks started so far
    changes,   \* operator changes so far
    limited,   \* history: console 429s recorded per account
    rejected   \* history: accounts expired for their credentials, not restored since

vars == <<row, task, selected, clock, started, changes, limited, rejected>>

DefaultWindow == [remaining |-> Total, reset |-> None, source |-> "default"]

NewRow == [status |-> "active", reason |-> "none", deleted |-> FALSE, uses |-> 0,
           count |-> 0, last |-> None, expiredAt |-> None,
           console |-> DefaultWindow, auto |-> DefaultWindow]

\* Task phases: "idle"; "waiting" for the usage API or the write lock with the
\* row it read in "seen"; "rejected": about to read the row again and expire
\* it; "expiring": with that second row read.
Idle == [phase |-> "idle", kind |-> "refresh", account |-> CHOOSE a \in Account : TRUE,
         seen |-> NewRow]

TypeOK ==
    /\ row \in [Account -> Row]
    /\ task \in [Task -> [phase: {"idle", "waiting", "rejected", "expiring"},
                          kind: Kind, account: Account, seen: Row]]
    /\ selected \in SUBSET Account
    /\ clock \in Nat /\ started \in Nat /\ changes \in Nat
    /\ limited \in [Account -> Nat]
    /\ rejected \in SUBSET Account

Init ==
    /\ row = [a \in Account |-> NewRow]
    /\ task = [t \in Task |-> Idle]
    /\ selected = {}
    /\ clock = 1
    /\ started = 0
    /\ changes = 0
    /\ limited = [a \in Account |-> 0]
    /\ rejected = {}

-----------------------------------------------------------------------------
Minus1(n)          == n - 1
Monus1(n)          == IF n = 0 THEN 0 ELSE n - 1
LesserOf(m, n)     == IF m < n THEN m ELSE n
Live(r)            == ~r.deleted
is_manageable(r)   == Live(r) /\ r.status = "active"
WindowExpired(w)   == w.reset # None /\ clock >= w.reset
Patched(a, new)    == row' = [row EXCEPT ![a] = new]
Finished(t)        == task' = [task EXCEPT ![t] = Idle]

\* A use is counted up to the number that recovery asks for.
Used(r) == [r EXCEPT !.uses = LesserOf(r.uses + 1, MinUses + 1)]

\* A mode of the local console quota after one more use: a window that ran out
\* starts afresh, and one that is low starts to run.
ConsoleAfterUse(w) ==
    IF WindowExpired(w)
    THEN [remaining |-> Monus1(Total), reset |-> None, source |-> "estimated"]
    ELSE [remaining |-> Monus1(w.remaining), source |-> "estimated",
          reset |-> IF w.reset = None /\ Monus1(w.remaining) <= Low
                    THEN clock + Window ELSE w.reset]

\* A mode whose usage the API did not report.
AutoAfterUse(w) == [w EXCEPT !.remaining = Monus1(@), !.source = "estimated"]

\* The conservative fallback of scheduled refreshes.
Fallback(w) ==
    IF w.source = "real" THEN AutoAfterUse(w)
    ELSE IF WindowExpired(w)
         THEN [remaining |-> Total, reset |-> clock + Window, source |-> "default"]
    ELSE w

\* A window as the usage API reports it.
Reported(n) == [remaining |-> n, reset |-> clock + Window, source |-> "real"]

-----------------------------------------------------------------------------
\* What a task keeps of the row it read: the console record and the failure
\* bookkeeping, or the auto window.
Seen(k, r) == IF k \in {"use_console", "fail_console"}
              THEN [NewRow EXCEPT !.console = r.console, !.count = r.count,
                                  !.last = r.last, !.expiredAt = r.expiredAt]
              ELSE [NewRow EXCEPT !.auto = r.auto]

\* A record task reads its row.  Uses stop at a deleted row, refreshes at one
\* that is not manageable; failures stop at none.
Start(t, a, k) ==
    /\ task[t].phase = "idle"
    /\ started < MaxTasks /\ clock <= LastCall
    /\ started' = started + 1
    /\ k \in {"use_console", "use_auto"} => Live(row[a])
    /\ k = "refresh" => is_manageable(row[a])
    /\ task' = [task EXCEPT ![t] = [phase |-> "waiting", kind |-> k, account |-> a,
                                    seen |-> Seen(k, row[a])]]
    /\ UNCHANGED <<row, selected, clock, changes, limited, rejected>>

\* The upstream rejects the account's credentials: the usage API when it is
\* asked, or the call whose failure is recorded.
CredentialsRejected(t) ==
    /\ task[t].phase = "waiting"
    /\ task[t].kind # "use_console"
    /\ task' = [task EXCEPT ![t] = [@ EXCEPT !.phase = "rejected", !.seen = NewRow]]
    /\ UNCHANGED <<row, selected, clock, started, changes, limited, rejected>>

\* mark_account_invalid_credentials reads the row again, ...
ReadForExpiry(t) ==
    /\ task[t].phase = "rejected"
    /\ task' = [task EXCEPT ![t].phase = "expiring", 
                            ![t].seen = Seen("fail_console", row[task[t].account])]
    /\ UNCHANGED <<row, selected, clock, started, changes, limited, rejected>>

\* ... and expires it, merging the bookkeeping (ext) of the row it read.
MarkInvalidCredentials(t) ==
    LET a == task[t].account
        seen == task[t].seen IN
    /\ task[t].phase = "expiring"
    /\ Patched(a, [row[a] EXCEPT !.status = "expired", !.reason = "invalid_credentials",
                                 !.expiredAt = clock,
                                 !.count = IF seen.count > 0 THEN seen.count ELSE @,
                                 !.last  = IF seen.last # None THEN seen.last ELSE @])
    /\ Finished(t)
    /\ rejected' = rejected \cup {a}
    /\ UNCHANGED <<selected, clock, started, changes, limited>>

\* _apply_single_mode: the called mode after a use, from the row read before.
ApplySingleMode(t) ==
    LET a == task[t].account
        seen == task[t].seen IN
    /\ task[t].phase = "waiting"
    /\ \/ /\ task[t].kind = "use_console"
          /\ Patched(a, [Used(row[a]) EXCEPT !.console = ConsoleAfterUse(seen.console)])
       \/ /\ task[t].kind = "use_auto"
          /\ \E w \in {AutoAfterUse(seen.auto)} \cup {Reported(n) : n \in 0..Total} :
                Patched(a, [Used(row[a]) EXCEPT !.auto = w])
    /\ Finished(t)
    /\ UNCHANGED <<selected, clock, started, changes, limited, rejected>>

\* record_failure_async on a 429 of the console: the window is emptied, the
\* count goes on from the one read, and the threshold expires the account.
Recent(r)       == r.last # None /\ clock - r.last <= Forget
StrikesCountedTwice(r) == (IF r.last # None /\ ~Recent(r) THEN 0 ELSE r.count) + 2
StrikesAfter(r) == (IF r.last # None /\ ~Recent(r) THEN 0 ELSE r.count) + 1
ExpiredUndated(r) == [r EXCEPT !.status = "expired", !.reason = "console_429"]
ExpiredFor429(r) == [r EXCEPT !.status = "expired", !.reason = "console_429",
                              !.expiredAt = clock]

RecordConsole429(t) ==
    LET a == task[t].account
        seen == task[t].seen
        n == StrikesAfter(seen)
        emptied == [remaining |-> 0, source |-> "estimated",
                    reset |-> IF seen.console.reset = None THEN clock + Window
                                                           ELSE seen.console.reset]
        merged == [row[a] EXCEPT !.console = emptied, !.count = n, !.last = clock,
                                 !.expiredAt = IF seen.expiredAt # None THEN seen.expiredAt
                                                                        ELSE @] IN
    /\ task[t].phase = "waiting" /\ task[t].kind = "fail_console"
    /\ Patched(a, IF n >= Threshold THEN ExpiredFor429(merged) ELSE merged)
    /\ limited' = [limited EXCEPT ![a] = @ + 1]
    /\ Finished(t)
    /\ UNCHANGED <<selected, clock, started, changes, rejected>>

\* ... on a 429 of another mode: the window is empty until it is due.
RecordAuto429(t) ==
    LET a == task[t].account
        w == task[t].seen.auto IN
    /\ task[t].phase = "waiting" /\ task[t].kind = "fail_auto"
    /\ Patched(a, [row[a] EXCEPT !.auto =
                     [remaining |-> 0, source |-> "estimated",
                      reset |-> IF w.reset # None /\ w.reset > clock THEN w.reset
                                                                     ELSE clock + Window]])
    /\ Finished(t)
    /\ UNCHANGED <<selected, clock, started, changes, limited, rejected>>

\* _refresh_one: the usage API answers for the mode, or for none of the modes
\* (a scheduled refresh then writes its fallback, a manual one writes nothing).
RefreshOne(t) ==
    LET a == task[t].account
        seen == task[t].seen IN
    /\ task[t].phase = "waiting" /\ task[t].kind = "refresh"
    /\ \E w \in {row[a].auto, Fallback(seen.auto)} \cup {Reported(n) : n \in 0..Total} :
          Patched(a, [row[a] EXCEPT !.auto = w])
    /\ Finished(t)
    /\ UNCHANGED <<selected, clock, started, changes, limited, rejected>>

-----------------------------------------------------------------------------
\* One statement empties every stale console window of the active accounts.
ResetDueDated(r) == is_manageable(r) /\ r.console.reset # None /\ r.console.reset < clock
ResetDue(r) ==
    /\ is_manageable(r)
    /\ \/ r.console.remaining = 0 /\ (r.console.reset = None \/ r.console.reset < clock)
       \/ r.console.reset # None /\ r.console.reset < clock

reset_expired_console_windows ==
    /\ \E a \in Account : ResetDue(row[a])
    /\ row' = [a \in Account |-> IF ResetDue(row[a])
                                 THEN [row[a] EXCEPT !.console = DefaultWindow]
                                 ELSE row[a]]
    /\ UNCHANGED <<task, selected, clock, started, changes, limited, rejected>>

\* recover_console_expired_accounts selects its rows, ...
RecoveryDue(r) ==
    /\ r.status = "expired" /\ Live(r)
    /\ r.reason = "console_429"
    /\ r.uses > MinUses
    /\ r.expiredAt # None /\ r.expiredAt + RecoverAfter <= clock

SelectForRecovery ==
    /\ selected = {}
    /\ selected' = {a \in Account : RecoveryDue(row[a])}
    /\ selected' # {}
    /\ UNCHANGED <<row, task, clock, started, changes, limited, rejected>>

\* ... and updates them by token alone, whatever has become of them.
RecoverSelected ==
    /\ selected # {}
    /\ row' = [a \in Account |->
                 IF a \in selected
                 THEN [row[a] EXCEPT !.status = "active", !.reason = "none", !.count = 0,
                                     !.last = None, !.expiredAt = None]
                 ELSE row[a]]
    /\ selected' = {}
    /\ UNCHANGED <<task, clock, started, changes, limited, rejected>>

\* The operator's changes.  A re-import revives the row with the windows,
\* counters and reason it had (SQLite), without its failure bookkeeping.
Disable(a) ==
    /\ Live(row[a])
    /\ Patched(a, [row[a] EXCEPT !.status = "disabled", !.reason = "operator"])
    /\ UNCHANGED <<task, selected, clock, started, limited, rejected>>

ClearFailures(a) ==
    /\ Live(row[a])
    /\ Patched(a, [row[a] EXCEPT !.status = "active", !.reason = "none", !.count = 0,
                                 !.last = None, !.expiredAt = None])
    /\ rejected' = rejected \ {a}
    /\ UNCHANGED <<task, selected, clock, started, limited>>

Delete(a) ==
    /\ Live(row[a])
    /\ Patched(a, [row[a] EXCEPT !.deleted = TRUE])
    /\ UNCHANGED <<task, selected, clock, started, limited, rejected>>

Import(a) ==
    /\ row[a].deleted
    /\ Patched(a, [row[a] EXCEPT !.status = "active", !.deleted = FALSE, !.count = 0,
                                 !.last = None, !.expiredAt = None])
    /\ rejected' = rejected \ {a}
    /\ UNCHANGED <<task, selected, clock, started, limited>>

\* Bound: a task that started is done by LastCall, so that what it sets falls due.
Tick ==
    /\ clock < MaxTime
    /\ clock < LastCall \/ \A t \in Task : task[t].phase = "idle"
    /\ clock' = clock + 1
    /\ UNCHANGED <<row, task, selected, started, changes, limited, rejected>>

TaskStep(t) ==
    \/ CredentialsRejected(t) \/ ReadForExpiry(t) \/ MarkInvalidCredentials(t)
    \/ ApplySingleMode(t) \/ RecordConsole429(t) \/ RecordAuto429(t) \/ RefreshOne(t)

Operator(a) ==
    /\ changes < MaxChanges
    /\ changes' = changes + 1
    /\ Disable(a) \/ ClearFailures(a) \/ Delete(a) \/ Import(a)

Next ==
    \/ \E t \in Task : TaskStep(t) \/ \E a \in Account, k \in Kind : Start(t, a, k)
    \/ reset_expired_console_windows
    \/ SelectForRecovery \/ RecoverSelected
    \/ \E a \in Account : Operator(a)
    \/ Tick

Spec == Init /\ [][Next]_vars

\* The leader's loops run every 30 s and every 10 min for as long as it lives,
\* time passes, and a record task is never cancelled.
Fairness ==
    /\ WF_vars(Tick)
    /\ WF_vars(reset_expired_console_windows)
    /\ WF_vars(SelectForRecovery) /\ WF_vars(RecoverSelected)
    /\ \A t \in Task : WF_vars(TaskStep(t))

FairSpec == Spec /\ Fairness

-----------------------------------------------------------------------------
\* An account is expired for console 429s only after that many of them were
\* recorded, however the read-modify-write of the counter interleaves.
ExpiredByRepeated429 ==
    \A a \in Account : row[a].reason = "console_429" => limited[a] >= Threshold

\* An active account whose console window is used up gets a fresh one, whatever
\* stale window a late record task writes over it.
ExhaustedWindowResets ==
    \A a \in Account :
        (is_manageable(row[a]) /\ row[a].console.remaining = 0)
            ~> (~is_manageable(row[a]) \/ row[a].console.remaining > 0)

\* An account expired by console 429s that has been used enough returns to
\* service after its cooldown, unless something else becomes of it.
ConsoleExpiryIsForgiven ==
    \A a \in Account :
        (/\ Live(row[a]) /\ row[a].status = "expired"
         /\ row[a].reason = "console_429" /\ row[a].uses > MinUses)
            ~> ~(Live(row[a]) /\ row[a].status = "expired" /\ row[a].reason = "console_429")

\* refresh.py:567: "Recover accounts expired only by repeated console 429 after
\* a cooldown."  An account whose credentials were rejected stays out of service
\* until the operator restores or re-imports it.
RejectedStaysOut ==
    \A a \in rejected : row[a].status # "active"

=============================================================================
