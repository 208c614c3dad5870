-------------------------- MODULE AccountRefreshProofs --------------------------
(***************************************************************************)
(* Type correctness of AccountRefresh, and that no account is expired for  *)
(* console 429s before that many were recorded: the count a task has read  *)
(* is at most the number recorded when it read it, and that number only    *)
(* grows.                                                                  *)
(***************************************************************************)
EXTENDS AccountRefresh, TLAPS

\* No count, in the table or read by a task, exceeds what was recorded.
CountsBehind ==
    /\ \A a \in Account : row[a].count <= limited[a]
    /\ \A t \in Task : task[t].seen.count <= limited[task[t].account]

IInv == TypeOK /\ CountsBehind /\ ExpiredByRepeated429

-----------------------------------------------------------------------------
\* The default window and the fresh row are well typed.
LEMMA NewRowType == DefaultWindow \in QuotaWindow /\ NewRow \in Row
BY RefreshAssumption DEF DefaultWindow, QuotaWindow, NewRow, Row, Source, Status, Reason, None

\* An idle task is well typed, and has read no count.
LEMMA IdleType ==
    /\ Idle \in [phase: {"idle", "waiting", "rejected", "expiring"},
                 kind: Kind, account: Account, seen: Row]
    /\ Idle.seen.count = 0
BY RefreshAssumption, NewRowType DEF Idle, Kind, NewRow

\* What a task keeps of a row is a row, with the row's count or none.
LEMMA SeenType ==
    ASSUME NEW k \in Kind, NEW r \in Row
    PROVE  Seen(k, r) \in Row /\ (Seen(k, r).count = r.count \/ Seen(k, r).count = 0)
BY NewRowType DEF Seen, Row, NewRow

\* The windows computed after a use, a report or a fallback are windows.
LEMMA WindowTypes ==
    ASSUME NEW w \in QuotaWindow, clock \in Nat
    PROVE  /\ ConsoleAfterUse(w) \in QuotaWindow
           /\ AutoAfterUse(w) \in QuotaWindow
           /\ Fallback(w) \in QuotaWindow
           /\ \A n \in 0..Total : Reported(n) \in QuotaWindow
<1>1. Monus1(Total) \in 0..Total /\ Monus1(w.remaining) \in 0..Total
  BY RefreshAssumption DEF Monus1, QuotaWindow
<1>2. AutoAfterUse(w) \in QuotaWindow
  BY <1>1 DEF AutoAfterUse, QuotaWindow, Source
<1>3. ConsoleAfterUse(w) \in QuotaWindow
  BY <1>1, RefreshAssumption DEF ConsoleAfterUse, QuotaWindow, Source, None
<1>4. Fallback(w) \in QuotaWindow
  BY <1>2, RefreshAssumption DEF Fallback, QuotaWindow, Source
<1>5. \A n \in 0..Total : Reported(n) \in QuotaWindow
  BY RefreshAssumption DEF Reported, QuotaWindow, Source
<1> QED BY <1>2, <1>3, <1>4, <1>5

\* A 429 counts one strike more than was read, or starts over with one.
LEMMA StrikesBound ==
    ASSUME NEW r \in Row
    PROVE  StrikesAfter(r) \in Nat /\ StrikesAfter(r) <= r.count + 1
BY DEF StrikesAfter, Row

-----------------------------------------------------------------------------
\* Patching one row with a row whose count and reason are covered keeps the
\* invariant, when the task that did it becomes idle and nothing else changes.
LEMMA PatchKeeps ==
    ASSUME IInv, NEW t \in Task, NEW a \in Account, NEW new \in Row,
           Patched(a, new), Finished(t), limited' \in [Account -> Nat],
           \A b \in Account : limited[b] <= limited'[b],
           new.count <= limited'[a],
           new.reason = "console_429" => limited'[a] >= Threshold,
           UNCHANGED <<selected, clock, started, changes>>,
           rejected' \in SUBSET Account
    PROVE  IInv'
<1>1. row' \in [Account -> Row] /\ row' = [row EXCEPT ![a] = new]
  BY DEF IInv, TypeOK, Patched
<1>2. task' \in [Task -> [phase: {"idle", "waiting", "rejected", "expiring"},
                         kind: Kind, account: Account, seen: Row]]
  BY IdleType DEF IInv, TypeOK, Finished
<1>3. TypeOK'
  BY <1>1, <1>2 DEF IInv, TypeOK
<1>4. ASSUME NEW b \in Account PROVE row'[b].count <= limited'[b]
  <2>1. CASE b = a BY <2>1, <1>1 DEF IInv, TypeOK
  <2>2. CASE b # a
    <3>1. row'[b] = row[b] BY <2>2, <1>1 DEF IInv, TypeOK
    <3>2. row[b].count \in Nat /\ limited[b] \in Nat /\ limited'[b] \in Nat
      BY DEF IInv, TypeOK, Row
    <3> QED BY <3>1, <3>2 DEF IInv, CountsBehind
  <2> QED BY <2>1, <2>2
<1>5. ASSUME NEW s \in Task PROVE task'[s].seen.count <= limited'[task'[s].account]
  <2>1. CASE s = t
    <3>1. task'[s] = Idle BY <2>1 DEF IInv, TypeOK, Finished
    <3> QED BY <3>1, IdleType
  <2>2. CASE s # t
    <3>1. task'[s] = task[s] BY <2>2 DEF IInv, TypeOK, Finished
    <3>2. task[s].account \in Account /\ task[s].seen.count \in Nat
      BY DEF IInv, TypeOK, Row
    <3>3. limited[task[s].account] \in Nat /\ limited'[task[s].account] \in Nat
      BY <3>2 DEF IInv, TypeOK
    <3> QED BY <3>1, <3>2, <3>3 DEF IInv, CountsBehind
  <2> QED BY <2>1, <2>2
<1>6. ASSUME NEW b \in Account, row'[b].reason = "console_429"
      PROVE  limited'[b] >= Threshold
  <2>1. CASE b = a BY <2>1, <1>1, <1>6 DEF IInv, TypeOK
  <2>2. CASE b # a
    <3>1. row'[b] = row[b] BY <2>2, <1>1 DEF IInv, TypeOK
    <3>2. limited[b] >= Threshold BY <3>1, <1>6 DEF IInv, ExpiredByRepeated429
    <3>3. limited[b] \in Nat /\ limited'[b] \in Nat BY DEF IInv, TypeOK
    <3> QED BY <3>2, <3>3, RefreshAssumption
  <2> QED BY <2>1, <2>2
<1> QED BY <1>3, <1>4, <1>5, <1>6 DEF IInv, CountsBehind, ExpiredByRepeated429

\* Replacing whole rows, tasks untouched, keeps the invariant when no count or
\* reason appears that was not there.
LEMMA TableKeeps ==
    ASSUME IInv, row' \in [Account -> Row],
           \A a \in Account : row'[a].count = row[a].count \/ row'[a].count = 0,
           \A a \in Account : row'[a].reason = row[a].reason \/ row'[a].reason # "console_429",
           UNCHANGED <<task, clock, started, limited>>,
           selected' \in SUBSET Account, changes' \in Nat, rejected' \in SUBSET Account
    PROVE  IInv'
<1>1. TypeOK' BY DEF IInv, TypeOK
<1>2. ASSUME NEW a \in Account PROVE row'[a].count <= limited'[a]
  <2>1. row[a].count <= limited[a] /\ limited[a] \in Nat /\ limited'[a] = limited[a]
    BY DEF IInv, TypeOK, CountsBehind
  <2> QED BY <2>1
<1>3. ASSUME NEW a \in Account, row'[a].reason = "console_429" PROVE limited'[a] >= Threshold
  BY <1>3 DEF IInv, ExpiredByRepeated429
<1> QED BY <1>1, <1>2, <1>3 DEF IInv, CountsBehind, ExpiredByRepeated429

\* A change of one task that has read at most the account's count keeps it too.
LEMMA TaskKeeps ==
    ASSUME IInv, NEW t \in Task,
           NEW new \in [phase: {"idle", "waiting", "rejected", "expiring"},
                        kind: Kind, account: Account, seen: Row],
           task' = [task EXCEPT ![t] = new], new.seen.count <= limited[new.account],
           UNCHANGED <<row, selected, clock, changes, limited, rejected>>, started' \in Nat
    PROVE  IInv'
<1>1. TypeOK' BY DEF IInv, TypeOK
<1>2. ASSUME NEW s \in Task PROVE task'[s].seen.count <= limited[task'[s].account]
  BY DEF IInv, TypeOK, CountsBehind
<1> QED BY <1>1, <1>2 DEF IInv, CountsBehind, ExpiredByRepeated429

-----------------------------------------------------------------------------
\* The steps of a record task, one lemma each.
LEMMA StartKeeps ==
    ASSUME IInv, NEW t \in Task, NEW a \in Account, NEW k \in Kind, Start(t, a, k)
    PROVE  IInv'
<1> DEFINE new == [phase |-> "waiting", kind |-> k, account |-> a, seen |-> Seen(k, row[a])]
<1>1. row[a] \in Row /\ started \in Nat BY DEF IInv, TypeOK
<1>2. Seen(k, row[a]) \in Row
      /\ (Seen(k, row[a]).count = row[a].count \/ Seen(k, row[a]).count = 0)
  BY <1>1, SeenType
<1>3. new \in [phase: {"idle", "waiting", "rejected", "expiring"},
               kind: Kind, account: Account, seen: Row]
  BY <1>2
<1>4. row[a].count <= limited[a] /\ limited[a] \in Nat
  BY DEF IInv, TypeOK, CountsBehind
<1>5. new.seen.count <= limited[new.account] BY <1>2, <1>4
<1>6. /\ task' = [task EXCEPT ![t] = new] /\ started' \in Nat
      /\ UNCHANGED <<row, selected, clock, changes, limited, rejected>>
  BY <1>1 DEF Start
<1> HIDE DEF new
<1> QED BY <1>3, <1>5, <1>6, TaskKeeps

LEMMA RejectedKeeps ==
    ASSUME IInv, NEW t \in Task, CredentialsRejected(t)
    PROVE  IInv'
<1> DEFINE new == [task[t] EXCEPT !.phase = "rejected", !.seen = NewRow]
<1>1. new \in [phase: {"idle", "waiting", "rejected", "expiring"},
               kind: Kind, account: Account, seen: Row]
  BY NewRowType DEF IInv, TypeOK
<1>2. new.seen.count = 0 /\ new.account \in Account /\ limited[new.account] \in Nat
  BY NewRowType DEF IInv, TypeOK, NewRow
<1>3. /\ task' = [task EXCEPT ![t] = new] /\ started' \in Nat
      /\ UNCHANGED <<row, selected, clock, changes, limited, rejected>>
  BY DEF CredentialsRejected, IInv, TypeOK
<1> HIDE DEF new
<1>4. new.seen.count <= limited[new.account] BY <1>2
<1> QED BY <1>1, <1>3, <1>4, TaskKeeps

LEMMA ReadKeeps ==
    ASSUME IInv, NEW t \in Task, ReadForExpiry(t)
    PROVE  IInv'
<1> DEFINE a == task[t].account
           seen == Seen("fail_console", row[a])
           new == [task[t] EXCEPT !.phase = "expiring", !.seen = seen]
<1>1. a \in Account /\ row[a] \in Row BY DEF IInv, TypeOK
<1>2. seen \in Row /\ (seen.count = row[a].count \/ seen.count = 0)
  BY <1>1, SeenType DEF Kind
<1>3. row[a].count <= limited[a] /\ limited[a] \in Nat
  BY <1>1 DEF IInv, TypeOK, CountsBehind
<1>4. task' = [task EXCEPT ![t].phase = "expiring", ![t].seen = seen]
  BY DEF ReadForExpiry
<1>5. UNCHANGED <<row, selected, clock, changes, limited, rejected>> /\ started' \in Nat
  BY DEF ReadForExpiry, IInv, TypeOK
<1> HIDE DEF seen
<1>6. new \in [phase: {"idle", "waiting", "rejected", "expiring"},
               kind: Kind, account: Account, seen: Row]
  BY <1>2 DEF IInv, TypeOK
<1>7. new.seen = seen /\ new.account = a BY DEF IInv, TypeOK
<1>8. new.seen.count <= limited[new.account] BY <1>2, <1>3, <1>7
<1>9. task' = [task EXCEPT ![t] = new] BY <1>4 DEF IInv, TypeOK
<1> HIDE DEF new
<1> QED BY <1>5, <1>6, <1>8, <1>9, TaskKeeps

LEMMA MarkKeeps ==
    ASSUME IInv, NEW t \in Task, MarkInvalidCredentials(t)
    PROVE  IInv'
<1> DEFINE a == task[t].account
           seen == task[t].seen
           new == [row[a] EXCEPT !.status = "expired", !.reason = "invalid_credentials",
                                 !.expiredAt = clock,
                                 !.count = IF seen.count > 0 THEN seen.count ELSE @,
                                 !.last  = IF seen.last # None THEN seen.last ELSE @]
<1>1. a \in Account /\ row[a] \in Row /\ seen \in Row /\ clock \in Nat
  BY DEF IInv, TypeOK
<1>2. /\ row[a].count <= limited[a] /\ seen.count <= limited[a] /\ limited[a] \in Nat
  BY <1>1 DEF IInv, TypeOK, CountsBehind
<1>3. /\ new \in Row /\ new.count <= limited[a] /\ new.reason # "console_429"
  BY <1>1, <1>2 DEF Row, Status, Reason
<1>4. /\ Patched(a, new) /\ Finished(t) /\ rejected' = rejected \cup {a}
      /\ UNCHANGED <<selected, clock, started, changes, limited>>
  BY DEF MarkInvalidCredentials
<1>5. limited' \in [Account -> Nat] /\ rejected' \in SUBSET Account
      /\ \A b \in Account : limited[b] <= limited'[b]
  BY <1>1, <1>4 DEF IInv, TypeOK
<1> HIDE DEF new, a, seen
<1> QED BY <1>1, <1>3, <1>4, <1>5, PatchKeeps

\* A use of the account: only a window and the use counter of the row change.
LEMMA WindowPatch ==
    ASSUME IInv, NEW t \in Task, NEW a \in Account, NEW new \in Row,
           new.count = row[a].count, new.reason = row[a].reason,
           Patched(a, new), Finished(t),
           UNCHANGED <<selected, clock, started, changes, limited, rejected>>
    PROVE  IInv'
<1>1. /\ limited' \in [Account -> Nat] /\ rejected' \in SUBSET Account
      /\ \A b \in Account : limited[b] <= limited'[b]
  BY DEF IInv, TypeOK
<1>2. new.count <= limited'[a] /\ (new.reason = "console_429" => limited'[a] >= Threshold)
  BY DEF IInv, CountsBehind, ExpiredByRepeated429
<1> QED BY <1>1, <1>2, PatchKeeps

LEMMA UseKeeps ==
    ASSUME IInv, NEW t \in Task, ApplySingleMode(t)
    PROVE  IInv'
<1> DEFINE a == task[t].account
           seen == task[t].seen
<1>1. a \in Account /\ row[a] \in Row /\ seen \in Row /\ clock \in Nat
  BY DEF IInv, TypeOK
<1>2. Used(row[a]) \in Row /\ Used(row[a]).count = row[a].count
      /\ Used(row[a]).reason = row[a].reason
  BY <1>1, RefreshAssumption DEF Used, Row, LesserOf
<1>3. seen.console \in QuotaWindow /\ seen.auto \in QuotaWindow BY <1>1 DEF Row
<1>4. PICK mode \in {"console", "auto"}, w \in QuotaWindow :
        Patched(a, IF mode = "console" THEN [Used(row[a]) EXCEPT !.console = w]
                                       ELSE [Used(row[a]) EXCEPT !.auto = w])
  <2>1. CASE Patched(a, [Used(row[a]) EXCEPT !.console = ConsoleAfterUse(seen.console)])
    BY <2>1, <1>1, <1>3, WindowTypes
  <2>2. CASE \E w \in {AutoAfterUse(seen.auto)} \cup {Reported(n) : n \in 0..Total} :
                Patched(a, [Used(row[a]) EXCEPT !.auto = w])
    <3>1. {AutoAfterUse(seen.auto)} \cup {Reported(n) : n \in 0..Total} \subseteq QuotaWindow
      BY <1>1, <1>3, WindowTypes
    <3> QED BY <2>2, <3>1
  <2> QED BY <2>1, <2>2 DEF ApplySingleMode
<1> DEFINE new == IF mode = "console" THEN [Used(row[a]) EXCEPT !.console = w]
                                      ELSE [Used(row[a]) EXCEPT !.auto = w]
<1>5. new \in Row /\ new.count = row[a].count /\ new.reason = row[a].reason
  BY <1>2, <1>4 DEF Row
<1>6. Finished(t) /\ UNCHANGED <<selected, clock, started, changes, limited, rejected>>
  BY DEF ApplySingleMode
<1> HIDE DEF new, a
<1> QED BY <1>1, <1>4, <1>5, <1>6, WindowPatch DEF new

LEMMA Auto429Keeps ==
    ASSUME IInv, NEW t \in Task, RecordAuto429(t)
    PROVE  IInv'
<1> DEFINE a == task[t].account
           w == task[t].seen.auto
           new == [row[a] EXCEPT !.auto =
                     [remaining |-> 0, source |-> "estimated",
                      reset |-> IF w.reset # None /\ w.reset > clock THEN w.reset
                                                                     ELSE clock + Window]]
<1>1. a \in Account /\ row[a] \in Row /\ w \in QuotaWindow /\ clock \in Nat
  BY DEF IInv, TypeOK, Row
<1>2. new \in Row /\ new.count = row[a].count /\ new.reason = row[a].reason
  BY <1>1, RefreshAssumption DEF Row, QuotaWindow, Source
<1>3. /\ Patched(a, new) /\ Finished(t)
      /\ UNCHANGED <<selected, clock, started, changes, limited, rejected>>
  BY DEF RecordAuto429
<1> HIDE DEF new, a
<1> QED BY <1>1, <1>2, <1>3, WindowPatch

LEMMA RefreshKeeps ==
    ASSUME IInv, NEW t \in Task, RefreshOne(t)
    PROVE  IInv'
<1> DEFINE a == task[t].account
           seen == task[t].seen
<1>1. a \in Account /\ row[a] \in Row /\ seen \in Row /\ clock \in Nat
      /\ row[a].auto \in QuotaWindow /\ seen.auto \in QuotaWindow
  BY DEF IInv, TypeOK, Row
<1>2. {row[a].auto, Fallback(seen.auto)} \cup {Reported(n) : n \in 0..Total} \subseteq QuotaWindow
  BY <1>1, WindowTypes
<1>3. PICK w \in QuotaWindow : Patched(a, [row[a] EXCEPT !.auto = w])
  BY <1>2 DEF RefreshOne
<1> DEFINE new == [row[a] EXCEPT !.auto = w]
<1>4. new \in Row /\ new.count = row[a].count /\ new.reason = row[a].reason
  BY <1>1 DEF Row
<1>5. Finished(t) /\ UNCHANGED <<selected, clock, started, changes, limited, rejected>>
  BY DEF RefreshOne
<1> HIDE DEF new, a
<1> QED BY <1>1, <1>3, <1>4, <1>5, WindowPatch DEF new

\* The step that counts: the new count is at most one above what was read, and
\* so at most what is recorded with this 429; an account is expired only when
\* the count reached the threshold.
LEMMA Console429Keeps ==
    ASSUME IInv, NEW t \in Task, RecordConsole429(t)
    PROVE  IInv'
<1> DEFINE a == task[t].account
           seen == task[t].seen
           n == StrikesAfter(seen)
           emptied == [remaining |-> 0, source |-> "estimated",
                       reset |-> IF seen.console.reset = None THEN clock + Window
                                                              ELSE seen.console.reset]
           merged == [row[a] EXCEPT !.console = emptied, !.count = n, !.last = clock,
                                    !.expiredAt = IF seen.expiredAt # None THEN seen.expiredAt
                                                                           ELSE @]
           new == IF n >= Threshold THEN ExpiredFor429(merged) ELSE merged
<1>1. a \in Account /\ row[a] \in Row /\ seen \in Row /\ clock \in Nat
  BY DEF IInv, TypeOK
<1>2. n \in Nat /\ n <= seen.count + 1 BY <1>1, StrikesBound
<1>3. emptied \in QuotaWindow BY <1>1, RefreshAssumption DEF QuotaWindow, Source, Row, None
<1>4. merged \in Row /\ merged.count = n /\ merged.reason = row[a].reason
  <2> HIDE DEF emptied, n
  <2> QED BY <1>1, <1>2, <1>3 DEF Row
<1>5. new \in Row /\ new.count = n
      /\ (new.reason = "console_429" => n >= Threshold \/ row[a].reason = "console_429")
  <2> HIDE DEF merged, n
  <2> QED BY <1>1, <1>4 DEF ExpiredFor429, Row, Status, Reason
<1>6. /\ Patched(a, new) /\ Finished(t) /\ limited' = [limited EXCEPT ![a] = @ + 1]
      /\ UNCHANGED <<selected, clock, started, changes, rejected>>
  BY DEF RecordConsole429
<1>7. limited \in [Account -> Nat] /\ seen.count \in Nat /\ seen.count <= limited[a]
  BY <1>1 DEF IInv, TypeOK, CountsBehind, Row
<1>8. /\ limited' \in [Account -> Nat] /\ limited'[a] = limited[a] + 1
      /\ \A b \in Account : limited[b] <= limited'[b]
  BY <1>1, <1>6, <1>7
<1>9. new.count <= limited'[a] BY <1>1, <1>2, <1>5, <1>7, <1>8
<1>10. new.reason = "console_429" => limited'[a] >= Threshold
  <2>1. row[a].reason = "console_429" => limited[a] >= Threshold
    BY <1>1 DEF IInv, ExpiredByRepeated429
  <2> QED BY <2>1, <1>1, <1>5, <1>7, <1>8, <1>9, <1>2, RefreshAssumption
<1>11. rejected' \in SUBSET Account BY <1>6 DEF IInv, TypeOK
<1> HIDE DEF new, a, n, seen
<1> QED BY <1>1, <1>5, <1>6, <1>8, <1>9, <1>10, <1>11, PatchKeeps

\* The operator's changes and the loops restart counts or leave them.
LEMMA OperatorKeeps ==
    ASSUME IInv, NEW a \in Account, Operator(a)
    PROVE  IInv'
<1>1. row[a] \in Row /\ changes' \in Nat BY DEF IInv, TypeOK, Operator
<1>2. PICK new \in Row :
        /\ Patched(a, new)
        /\ new.count = row[a].count \/ new.count = 0
        /\ new.reason = row[a].reason \/ new.reason # "console_429"
  <2>1. CASE Disable(a)
    <3> DEFINE new == [row[a] EXCEPT !.status = "disabled", !.reason = "operator"]
    <3>1. new \in Row /\ new.count = row[a].count /\ new.reason # "console_429"
      BY <1>1 DEF Row, Status, Reason
    <3>2. Patched(a, new) BY <2>1 DEF Disable
    <3> QED BY <3>1, <3>2
  <2>2. CASE ClearFailures(a)
    <3> DEFINE new == [row[a] EXCEPT !.status = "active", !.reason = "none", !.count = 0,
                                     !.last = None, !.expiredAt = None]
    <3>1. new \in Row /\ new.count = 0 /\ new.reason # "console_429"
      BY <1>1 DEF Row, Status, Reason, None
    <3>2. Patched(a, new) BY <2>2 DEF ClearFailures
    <3> QED BY <3>1, <3>2
  <2>3. CASE Delete(a)
    <3> DEFINE new == [row[a] EXCEPT !.deleted = TRUE]
    <3>1. new \in Row /\ new.count = row[a].count /\ new.reason = row[a].reason
      BY <1>1 DEF Row
    <3>2. Patched(a, new) BY <2>3 DEF Delete
    <3> QED BY <3>1, <3>2
  <2>4. CASE Import(a)
    <3> DEFINE new == [row[a] EXCEPT !.status = "active", !.deleted = FALSE, !.count = 0,
                                     !.last = None, !.expiredAt = None]
    <3>1. new \in Row /\ new.count = 0 /\ new.reason = row[a].reason
      BY <1>1 DEF Row, Status, None
    <3>2. Patched(a, new) BY <2>4 DEF Import
    <3> QED BY <3>1, <3>2
  <2> QED BY <2>1, <2>2, <2>3, <2>4 DEF Operator
<1>3. UNCHANGED <<task, clock, started, limited>> /\ selected' \in SUBSET Account
      /\ rejected' \in SUBSET Account
  BY DEF Operator, Disable, ClearFailures, Delete, Import, IInv, TypeOK
<1>4. /\ row' \in [Account -> Row]
      /\ \A b \in Account : row'[b].count = row[b].count \/ row'[b].count = 0
      /\ \A b \in Account : row'[b].reason = row[b].reason \/ row'[b].reason # "console_429"
  BY <1>2 DEF IInv, TypeOK, Patched
<1> QED BY <1>1, <1>3, <1>4, TableKeeps

LEMMA ResetKeeps ==
    ASSUME IInv, reset_expired_console_windows
    PROVE  IInv'
<1>1. ASSUME NEW a \in Account
      PROVE  /\ row'[a] \in Row /\ row'[a].count = row[a].count
             /\ row'[a].reason = row[a].reason
  BY NewRowType DEF reset_expired_console_windows, IInv, TypeOK, Row
<1>2. row' \in [Account -> Row] BY <1>1 DEF reset_expired_console_windows
<1>3. UNCHANGED <<task, clock, started, limited, selected, changes, rejected>>
  BY DEF reset_expired_console_windows
<1> QED BY <1>1, <1>2, <1>3, TableKeeps DEF IInv, TypeOK

LEMMA RecoverKeeps ==
    ASSUME IInv, RecoverSelected
    PROVE  IInv'
<1>1. ASSUME NEW a \in Account
      PROVE  /\ row'[a] \in Row /\ (row'[a].count = row[a].count \/ row'[a].count = 0)
             /\ (row'[a].reason = row[a].reason \/ row'[a].reason # "console_429")
  <2> DEFINE new == [row[a] EXCEPT !.status = "active", !.reason = "none", !.count = 0,
                                   !.last = None, !.expiredAt = None]
  <2>1. row[a] \in Row BY DEF IInv, TypeOK
  <2>2. new \in Row /\ new.count = 0 /\ new.reason # "console_429"
    BY <2>1 DEF Row, Status, Reason, None
  <2>3. row'[a] = IF a \in selected THEN new ELSE row[a] BY DEF RecoverSelected
  <2> QED BY <2>1, <2>2, <2>3
<1>2. row' \in [Account -> Row] BY <1>1 DEF RecoverSelected
<1>3. UNCHANGED <<task, clock, started, limited, changes, rejected>> /\ selected' = {}
  BY DEF RecoverSelected
<1> QED BY <1>1, <1>2, <1>3, TableKeeps DEF IInv, TypeOK

-----------------------------------------------------------------------------
LEMMA InitIInv == Init => IInv
BY IdleType, NewRowType, RefreshAssumption
   DEF Init, IInv, TypeOK, CountsBehind, ExpiredByRepeated429, NewRow

LEMMA StepIInv == IInv /\ [Next]_vars => IInv'
<1> SUFFICES ASSUME IInv, [Next]_vars PROVE IInv'
  OBVIOUS
<1>1. ASSUME NEW t \in Task, TaskStep(t) PROVE IInv'
  BY <1>1, RejectedKeeps, ReadKeeps, MarkKeeps, UseKeeps, Console429Keeps, Auto429Keeps,
     RefreshKeeps DEF TaskStep
<1>2. ASSUME NEW t \in Task, NEW a \in Account, NEW k \in Kind, Start(t, a, k) PROVE IInv'
  BY <1>2, StartKeeps
<1>3. CASE reset_expired_console_windows BY <1>3, ResetKeeps
<1>4. CASE SelectForRecovery
  BY <1>4 DEF SelectForRecovery, IInv, TypeOK, CountsBehind, ExpiredByRepeated429
<1>5. CASE RecoverSelected BY <1>5, RecoverKeeps
<1>6. ASSUME NEW a \in Account, Operator(a) PROVE IInv'
  BY <1>6, OperatorKeeps
<1>7. CASE Tick BY <1>7 DEF Tick, IInv, TypeOK, CountsBehind, ExpiredByRepeated429
<1>8. CASE UNCHANGED vars
  BY <1>8 DEF vars, IInv, TypeOK, CountsBehind, ExpiredByRepeated429
<1> QED BY <1>1, <1>2, <1>3, <1>4, <1>5, <1>6, <1>7, <1>8 DEF Next

THEOREM Invariant == Spec => []IInv
BY InitIInv, StepIInv, PTL DEF Spec

\* Every variable keeps its type: windows stay between empty and full.
THEOREM TypeCorrect == Spec => []TypeOK
BY Invariant, PTL DEF IInv

\* An account is expired for console 429s only after that many were recorded,
\* however many tasks record them at once (record_failure_async).
THEOREM ExpiryNeedsRepeated429 == Spec => []ExpiredByRepeated429
BY Invariant, PTL DEF IInv

=============================================================================
