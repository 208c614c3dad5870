--------------------------- MODULE ChatRetryProofs ---------------------------
(***************************************************************************)
(* TLAPS proofs about ChatRetry for any accounts, any finite number of     *)
(* requests, any limits and any number of syncs and strategy switches.     *)
(*                                                                         *)
(* A request has an account exactly while an attempt of it is open         *)
(* (LeaseWhileOpen); that, and what the retry loop knows about its own     *)
(* past (RejectedExcluded, BrokenCounted, VerdictsCounted), is what the    *)
(* properties add up to.                                                   *)
(***************************************************************************)
EXTENDS ChatRetry, FiniteSetTheorems, TLAPS

LeaseWhileOpen ==
    \A r \in Request : lease[r] # NoToken <=> pc[r] \in {"open", "sent"}

\* What failed the request for its own sake is excluded, or the request is over.
RejectedExcluded ==
    \A r \in Request : pc[r] \notin Ended => rejected[r] \subseteq excluded[r]

\* The transport failures so far are the transport retries, and perhaps one more
\* that ended the request.
BrokenCounted ==
    \A r \in Request :
        /\ pc[r] \notin Ended => broken[r] <= transport[r]
        /\ broken[r] <= transport[r] + 1

\* As many verdicts as attempts that are over.
VerdictsCounted ==
    \A r \in Request :
        LET given == verdicts[r].good + verdicts[r].bad
        IN  /\ pc[r] \notin Ended => given = attempt[r]
            /\ given \in {attempt[r], attempt[r] + 1}
            /\ verdicts[r].good = IF pc[r] = "done" THEN 1 ELSE 0

LoopInv == TypeOK /\ LeaseWhileOpen /\ RejectedExcluded /\ BrokenCounted /\ VerdictsCounted

-----------------------------------------------------------------------------
\* Steps that leave a request's own account of its past alone.
LoopUnchanged == UNCHANGED <<requestVars, historyVars>>

\* The steps of the loop, one by one.
LEMMA ChatCases ==
    ASSUME [Next]_vars
    PROVE  \/ \E r \in Request : \/ Reserve(r) \/ NoAccount(r) \/ RefreshReturns(r)
                                 \/ SendDone(r) \/ Complete(r)
                                 \/ ClientGone(r)
                                 \/ \E e \in ErrorClass : Fail(r, e)
           \/ Environment /\ LoopUnchanged
           \/ UNCHANGED vars
BY DEF Next, Progress, LoopUnchanged

\* Only listed accounts that are not excluded are candidates.
LEMMA CandidatesType ==
    ASSUME SelectionTypeOK, NEW S \in SUBSET Token
    PROVE  Candidates(S) \subseteq Token \ S
BY DEF SelectionTypeOK, Candidates, RandomCandidates, QuotaCandidates

\* Release and feedback keep the columns of the selection well typed.
LEMMA SettleTypes ==
    ASSUME TypeOK, NEW r \in Request, NEW kind, lease[r] # NoToken, Settle(r, kind)
    PROVE  /\ SelectionTypeOK'
           /\ lease' \in [Request -> Token \cup {NoToken}]
           /\ verdicts' \in [Request -> [good : Nat, bad : Nat]]
<1>. USE DEF TypeOK, SelectionTypeOK, Settle
<1>1. lease[r] \in Token
  OBVIOUS
<1>2. inflight' \in [Token -> Nat]
  BY <1>1 DEF Release
<1>3. /\ listed' \subseteq Token /\ trusted' \subseteq Token
      /\ quota' \in [Token -> 0..QuotaTotal]
      /\ cooling' \subseteq Token
      /\ fails' \in [Token -> 0..RandomMaxFails]
  BY <1>1, SelectionAssumption
     DEF feedback, Success, RateLimited, Unauthorized, OtherFailure, CountFailure
<1>4. verdicts' \in [Request -> [good : Nat, bad : Nat]]
  <2>1. /\ [verdicts[r] EXCEPT !.good = @ + 1] \in [good : Nat, bad : Nat]
        /\ [verdicts[r] EXCEPT !.bad = @ + 1] \in [good : Nat, bad : Nat]
    OBVIOUS
  <2>. QED  BY <2>1
<1>. QED  BY <1>2, <1>3, <1>4

\* What happens to the accounts meanwhile keeps their columns well typed.
LEMMA EnvironmentTypes ==
    ASSUME SelectionTypeOK, Environment
    PROVE  SelectionTypeOK'
<1>. USE SelectionAssumption DEF SelectionTypeOK
<1>1. ASSUME NEW t \in Token, Sync(t)
      PROVE  SelectionTypeOK'
  BY <1>1 DEF Sync
<1>2. ASSUME NEW t \in Token, CoolingEnds(t)
      PROVE  SelectionTypeOK'
  BY <1>2 DEF CoolingEnds
<1>3. ASSUME NEW t \in Token, WindowEnds(t)
      PROVE  SelectionTypeOK'
  BY <1>3 DEF WindowEnds
<1>4. CASE reconcile_refresh_runtime
  BY <1>4 DEF reconcile_refresh_runtime, columns
<1>. QED  BY <1>1, <1>2, <1>3, <1>4 DEF Environment

\* Every state of the loop is well typed after a step: in particular attempts and
\* transport retries stay within their limits.
LEMMA ChatTypeStep ==
    ASSUME TypeOK, LeaseWhileOpen, [Next]_vars
    PROVE  TypeOK'
<1>. USE DEF TypeOK, Ended
<1>1. ASSUME NEW r \in Request, Reserve(r)
      PROVE  TypeOK'
  <2>1. PICK t \in Candidates(excluded[r]) :
             lease' = [lease EXCEPT ![r] = t] /\ Acquire(t)
    BY <1>1 DEF Reserve
  <2>2. t \in Token
    BY CandidatesType
  <2>3. SelectionTypeOK'
    BY <1>1, <2>1, <2>2 DEF Reserve, Acquire, columns, SelectionTypeOK
  <2>. QED  BY <1>1, <2>1, <2>2, <2>3 DEF Reserve, historyVars
<1>2. ASSUME NEW r \in Request, NoAccount(r) \/ RefreshReturns(r)
      PROVE  TypeOK'
  BY <1>2 DEF NoAccount, RefreshReturns, selectionVars, columns, historyVars,
              SelectionTypeOK
<1>3. ASSUME NEW r \in Request, SendDone(r)
      PROVE  TypeOK'
  BY <1>3 DEF SendDone, selectionVars, historyVars, columns, SelectionTypeOK
<1>4. ASSUME NEW r \in Request, Complete(r)
      PROVE  TypeOK'
  BY <1>4, SettleTypes DEF Complete, LeaseWhileOpen
<1>5. ASSUME NEW r \in Request, ClientGone(r)
      PROVE  TypeOK'
  <2>1. CASE lease[r] # NoToken
    BY <1>5, <2>1, SettleTypes DEF ClientGone
  <2>2. CASE lease[r] = NoToken
    BY <1>5, <2>2 DEF ClientGone, selectionVars, columns, SelectionTypeOK
  <2>. QED  BY <2>1, <2>2
<1>6. ASSUME NEW r \in Request, NEW e \in ErrorClass, Fail(r, e)
      PROVE  TypeOK'
  <2>1. lease[r] \in Token
    BY <1>6 DEF Fail, LeaseWhileOpen
  <2>2. /\ SelectionTypeOK'
        /\ lease' \in [Request -> Token \cup {NoToken}]
        /\ verdicts' \in [Request -> [good : Nat, bad : Nat]]
    BY <1>6, <2>1, SettleTypes, ChatAssumption DEF Fail
  <2>3. /\ rejected' \in [Request -> SUBSET Token]
        /\ broken' \in [Request -> Nat]
    BY <1>6, <2>1 DEF Fail
  <2>4. CASE WillRetry(r, e)
    <3>1. attempt[r] + 1 \in 0..MaxRetries
      BY <2>4, ChatAssumption DEF WillRetry
    <3>2. Transient(e) => transport[r] + 1 \in 0..TransportMax
      BY <2>4, ChatAssumption DEF WillRetry, SameAccount, Transient
    <3>3. /\ attempt' \in [Request -> 0..MaxRetries]
          /\ transport' \in [Request -> 0..TransportMax]
      BY <1>6, <2>4, <3>1, <3>2 DEF Fail
    <3>4. /\ pc' = [pc EXCEPT ![r] = "selecting"]
          /\ excluded' \in [Request -> SUBSET Token]
      <4>1. excluded' = [excluded EXCEPT ![r] =
                           IF KeepsAccount(e) THEN @ ELSE @ \cup {lease[r]}]
        BY <1>6, <2>4 DEF Fail
      <4>. QED  BY <1>6, <2>1, <2>4, <4>1 DEF Fail
    <3>5. refreshed' = [refreshed EXCEPT ![r] = FALSE]
      BY <1>6, <2>4 DEF Fail
    <3>6. refreshed' \in [Request -> BOOLEAN]
      BY <3>5
    <3>. QED  BY <2>2, <2>3, <3>3, <3>4, <3>6
  <2>5. CASE ~WillRetry(r, e)
    <3>1. /\ pc' = [pc EXCEPT ![r] = "failed"]
          /\ UNCHANGED <<attempt, refreshed, transport, excluded>>
      BY <1>6, <2>5 DEF Fail
    <3>. QED  BY <2>2, <2>3, <3>1
  <2>. QED  BY <2>4, <2>5
<1>7. CASE Environment /\ LoopUnchanged
  BY <1>7, EnvironmentTypes DEF LoopUnchanged, requestVars, historyVars
<1>8. CASE UNCHANGED vars
  BY <1>8 DEF vars, selectionVars, columns, requestVars, historyVars, SelectionTypeOK
<1>. QED  BY <1>1, <1>2, <1>3, <1>4, <1>5, <1>6, <1>7, <1>8, ChatCases

-----------------------------------------------------------------------------
\* A request that has just started has no past.
LEMMA LoopInvInit ==
    ASSUME Init
    PROVE  LoopInv
<1>. USE SelectionAssumption, ChatAssumption DEF Init
<1>1. TypeOK
  <2>1. SelectionTypeOK
    BY DEF SelectionInit, SelectionTypeOK
  <2>. QED  BY <2>1 DEF TypeOK, Ended
<1>2. LeaseWhileOpen /\ RejectedExcluded
  BY DEF LeaseWhileOpen, RejectedExcluded
<1>3. BrokenCounted /\ VerdictsCounted
  BY DEF BrokenCounted, VerdictsCounted
<1>. QED  BY <1>1, <1>2, <1>3 DEF LoopInv

\* A request takes an account when it opens an attempt and gives it back when the
\* attempt ends, however it ends.
LEMMA LeaseStep ==
    ASSUME LoopInv, [Next]_vars
    PROVE  LeaseWhileOpen'
<1>. USE DEF LoopInv, TypeOK, LeaseWhileOpen, Ended
<1>1. ASSUME NEW r \in Request, Reserve(r)
      PROVE  LeaseWhileOpen'
  <2>1. PICK t \in Candidates(excluded[r]) : lease' = [lease EXCEPT ![r] = t]
    BY <1>1 DEF Reserve
  <2>2. t # NoToken
    BY CandidatesType, ChatAssumption
  <2>. QED  BY <1>1, <2>1, <2>2 DEF Reserve
<1>2. ASSUME NEW r \in Request, NoAccount(r) \/ RefreshReturns(r)
      PROVE  LeaseWhileOpen'
  BY <1>2 DEF NoAccount, RefreshReturns
<1>3. ASSUME NEW r \in Request, SendDone(r)
      PROVE  LeaseWhileOpen'
  BY <1>3 DEF SendDone, historyVars
<1>4. ASSUME NEW r \in Request, Complete(r)
      PROVE  LeaseWhileOpen'
  BY <1>4 DEF Complete, Settle
<1>5. ASSUME NEW r \in Request, ClientGone(r)
      PROVE  LeaseWhileOpen'
  BY <1>5 DEF ClientGone, Settle
<1>6. ASSUME NEW r \in Request, NEW e \in ErrorClass, Fail(r, e)
      PROVE  LeaseWhileOpen'
  <2>1. lease' = [lease EXCEPT ![r] = NoToken]
    BY <1>6 DEF Fail, Settle
  <2>2. \/ pc' = [pc EXCEPT ![r] = "selecting"]
        \/ pc' = [pc EXCEPT ![r] = "failed"]
    BY <1>6 DEF Fail
  <2>. QED  BY <2>1, <2>2
<1>7. CASE (Environment /\ LoopUnchanged) \/ UNCHANGED vars
  BY <1>7 DEF LoopUnchanged, vars, requestVars
<1>. QED  BY <1>1, <1>2, <1>3, <1>4, <1>5, <1>6, <1>7, ChatCases

\* An account that failed a request for its own sake is excluded with the retry.
LEMMA RejectedStep ==
    ASSUME LoopInv, [Next]_vars
    PROVE  RejectedExcluded'
<1>. USE DEF LoopInv, TypeOK, RejectedExcluded, Ended
<1>1. ASSUME NEW r \in Request, NEW e \in ErrorClass, Fail(r, e)
      PROVE  RejectedExcluded'
  <2>1. CASE WillRetry(r, e)
    BY <1>1, <2>1 DEF Fail, KeepsAccount
  <2>2. CASE ~WillRetry(r, e)
    BY <1>1, <2>2 DEF Fail
  <2>. QED  BY <2>1, <2>2
<1>2. ASSUME NEW r \in Request, Reserve(r) \/ NoAccount(r) \/ RefreshReturns(r)
      PROVE  RejectedExcluded'
  BY <1>2 DEF Reserve, NoAccount, RefreshReturns, historyVars
<1>3. ASSUME NEW r \in Request,
             SendDone(r) \/ Complete(r) \/ ClientGone(r)
      PROVE  RejectedExcluded'
  BY <1>3 DEF SendDone, Complete, ClientGone, historyVars
<1>4. CASE (Environment /\ LoopUnchanged) \/ UNCHANGED vars
  BY <1>4 DEF LoopUnchanged, vars, requestVars, historyVars
<1>. QED  BY <1>1, <1>2, <1>3, <1>4, ChatCases

\* A transport failure that is retried is counted; one that is not ends the request.
LEMMA BrokenStep ==
    ASSUME LoopInv, [Next]_vars
    PROVE  BrokenCounted'
<1>. USE DEF LoopInv, TypeOK, BrokenCounted, Ended
<1>1. ASSUME NEW r \in Request, NEW e \in ErrorClass, Fail(r, e)
      PROVE  BrokenCounted'
  <2>1. /\ pc[r] = "open"
        /\ broken' = [broken EXCEPT ![r] = IF Transient(e) THEN @ + 1 ELSE @]
    BY <1>1 DEF Fail
  <2>2. CASE WillRetry(r, e)
    <3>1. /\ pc' = [pc EXCEPT ![r] = "selecting"]
          /\ transport' = [transport EXCEPT ![r] = IF Transient(e) THEN @ + 1 ELSE @]
      BY <1>1, <2>2 DEF Fail
    <3>. QED  BY <2>1, <3>1, ChatAssumption
  <2>3. CASE ~WillRetry(r, e)
    <3>1. pc' = [pc EXCEPT ![r] = "failed"] /\ UNCHANGED transport
      BY <1>1, <2>3 DEF Fail
    <3>. QED  BY <2>1, <3>1, ChatAssumption
  <2>. QED  BY <2>2, <2>3
<1>2. ASSUME NEW r \in Request, Reserve(r) \/ NoAccount(r) \/ RefreshReturns(r)
      PROVE  BrokenCounted'
  BY <1>2 DEF Reserve, NoAccount, RefreshReturns, historyVars
<1>3. ASSUME NEW r \in Request,
             SendDone(r) \/ Complete(r) \/ ClientGone(r)
      PROVE  BrokenCounted'
  BY <1>3 DEF SendDone, Complete, ClientGone, historyVars
<1>4. CASE (Environment /\ LoopUnchanged) \/ UNCHANGED vars
  BY <1>4 DEF LoopUnchanged, vars, requestVars, historyVars
<1>. QED  BY <1>1, <1>2, <1>3, <1>4, ChatCases

\* The finally block gives one verdict, good for a success only.
LEMMA SettleVerdict ==
    ASSUME TypeOK, NEW r \in Request, NEW kind, Settle(r, kind)
    PROVE  \A q \in Request :
              /\ verdicts'[q].good = verdicts[q].good
                                     + (IF q = r /\ kind = "success" THEN 1 ELSE 0)
              /\ verdicts'[q].bad = verdicts[q].bad
                                    + (IF q = r /\ kind # "success" THEN 1 ELSE 0)
<1>. USE DEF TypeOK, Settle
<1>1. CASE kind = "success"
  <2>1. verdicts' = [verdicts EXCEPT ![r].good = @ + 1]
    BY <1>1
  <2>. QED  BY <1>1, <2>1
<1>2. CASE kind # "success"
  <2>1. verdicts' = [verdicts EXCEPT ![r].bad = @ + 1]
    BY <1>2
  <2>. QED  BY <1>2, <2>1
<1>. QED  BY <1>1, <1>2

\* Whatever ends an attempt gives its verdict, and nothing else does.
LEMMA VerdictsStep ==
    ASSUME LoopInv, [Next]_vars
    PROVE  VerdictsCounted'
<1>. USE DEF LoopInv, TypeOK, VerdictsCounted, Ended
<1>1. ASSUME NEW r \in Request, NEW e \in ErrorClass, Fail(r, e)
      PROVE  VerdictsCounted'
  <2>1. /\ pc[r] = "open"
        /\ Settle(r, FeedbackKind(e)) /\ FeedbackKind(e) # "success"
    BY <1>1 DEF Fail, FeedbackKind
  <2>2. \A q \in Request :
           /\ verdicts'[q].good = verdicts[q].good
           /\ verdicts'[q].bad = verdicts[q].bad + (IF q = r THEN 1 ELSE 0)
    BY <2>1, SettleVerdict
  <2>3. CASE WillRetry(r, e)
    <3>1. /\ pc' = [pc EXCEPT ![r] = "selecting"]
          /\ attempt' = [attempt EXCEPT ![r] = @ + 1]
      BY <1>1, <2>3 DEF Fail
    <3>. QED  BY <2>1, <2>2, <3>1, ChatAssumption
  <2>4. CASE ~WillRetry(r, e)
    <3>1. pc' = [pc EXCEPT ![r] = "failed"] /\ UNCHANGED attempt
      BY <1>1, <2>4 DEF Fail
    <3>. QED  BY <2>1, <2>2, <3>1, ChatAssumption
  <2>. QED  BY <2>3, <2>4
<1>2. ASSUME NEW r \in Request, Reserve(r) \/ NoAccount(r) \/ RefreshReturns(r)
      PROVE  VerdictsCounted'
  BY <1>2 DEF Reserve, NoAccount, RefreshReturns, historyVars
<1>3. ASSUME NEW r \in Request, SendDone(r)
      PROVE  VerdictsCounted'
  BY <1>3 DEF SendDone, historyVars
<1>4. ASSUME NEW r \in Request, Complete(r)
      PROVE  VerdictsCounted'
  <2>1. /\ pc[r] = "sent" /\ pc' = [pc EXCEPT ![r] = "done"]
        /\ UNCHANGED attempt
        /\ Settle(r, "success")
    BY <1>4 DEF Complete
  <2>2. \A q \in Request :
           /\ verdicts'[q].good = verdicts[q].good + (IF q = r THEN 1 ELSE 0)
           /\ verdicts'[q].bad = verdicts[q].bad
    BY <2>1, SettleVerdict
  <2>. QED  BY <2>1, <2>2, ChatAssumption
<1>5. ASSUME NEW r \in Request, ClientGone(r)
      PROVE  VerdictsCounted'
  <2>1. /\ pc[r] \notin Ended /\ pc' = [pc EXCEPT ![r] = "gone"]
        /\ UNCHANGED attempt
    BY <1>5 DEF ClientGone
  <2>2. CASE lease[r] # NoToken
    <3>1. \A q \in Request :
             /\ verdicts'[q].good = verdicts[q].good
             /\ verdicts'[q].bad = verdicts[q].bad + (IF q = r THEN 1 ELSE 0)
      BY <1>5, <2>2, SettleVerdict DEF ClientGone
    <3>. QED  BY <2>1, <3>1, ChatAssumption
  <2>3. CASE lease[r] = NoToken
    BY <1>5, <2>1, <2>3 DEF ClientGone
  <2>. QED  BY <2>2, <2>3
<1>6. CASE (Environment /\ LoopUnchanged) \/ UNCHANGED vars
  BY <1>6 DEF LoopUnchanged, vars, requestVars, historyVars
<1>. QED  BY <1>1, <1>2, <1>3, <1>4, <1>5, <1>6, ChatCases

\* LoopInv is an invariant.
LEMMA LoopInvariant == Spec => []LoopInv
<1>1. Init => LoopInv
  BY LoopInvInit
<1>2. LoopInv /\ [Next]_vars => LoopInv'
  <2>. SUFFICES ASSUME LoopInv, [Next]_vars
                PROVE  LoopInv'
    OBVIOUS
  <2>. QED  BY ChatTypeStep, LeaseStep, RejectedStep, BrokenStep, VerdictsStep DEF LoopInv
<1>. QED  BY <1>1, <1>2, PTL DEF Spec

-----------------------------------------------------------------------------
\* Every variable has its type; no request makes more than max_retries + 1
\* attempts or more than transport_max_retries transport retries.
THEOREM ChatTypeCorrect == Spec => []TypeOK
<1>1. LoopInv => TypeOK
  BY DEF LoopInv
<1>. QED  BY <1>1, LoopInvariant, PTL

\* Network failures are retried at most transport_max_retries times per request,
\* wherever among the other retries they come.
THEOREM TransportIsCapped == Spec => []TransportCapped
<1>1. LoopInv => TransportCapped
  BY ChatAssumption DEF LoopInv, TypeOK, BrokenCounted, TransportCapped
<1>. QED  BY <1>1, LoopInvariant, PTL

\* Every attempt that took an account is judged exactly once, and well only when
\* the client got its answer.
THEOREM VerdictsAreOne == Spec => []OneVerdictPerAttempt
<1>1. LoopInv => OneVerdictPerAttempt
  BY DEF LoopInv, LeaseWhileOpen, VerdictsCounted, OneVerdictPerAttempt, Ended
<1>. QED  BY <1>1, LoopInvariant, PTL

\* An account that turned a request away for a reason of its own is not tried
\* again by that request, whatever syncs put it back into the index.
THEOREM NoSecondChanceHolds == Spec => NoSecondChance
<1>1. LoopInv /\ [Next]_vars =>
         [\A r \in Request : lease'[r] # lease[r] => lease'[r] \notin rejected[r]]_vars
  <2>. SUFFICES ASSUME LoopInv, [Next]_vars, NEW q \in Request, lease'[q] # lease[q]
                PROVE  lease'[q] \notin rejected[q]
    OBVIOUS
  <2>. USE DEF LoopInv, TypeOK, RejectedExcluded, Ended
  <2>1. ASSUME NEW r \in Request, Reserve(r)
        PROVE  lease'[q] \notin rejected[q]
    <3>1. PICK t \in Candidates(excluded[r]) : lease' = [lease EXCEPT ![r] = t]
      BY <2>1 DEF Reserve
    <3>2. t \notin excluded[r] /\ rejected[r] \subseteq excluded[r]
      BY <2>1, CandidatesType DEF Reserve
    <3>. QED  BY <3>1, <3>2
  <2>2. ASSUME NEW r \in Request,
               Complete(r) \/ ClientGone(r) \/ \E e \in ErrorClass : Fail(r, e)
        PROVE  lease'[q] \notin rejected[q]
    <3>1. lease' = [lease EXCEPT ![r] = NoToken] \/ lease' = lease
      BY <2>2 DEF Complete, ClientGone, Fail, Settle
    <3>. QED  BY <3>1, ChatAssumption
  <2>3. ASSUME NEW r \in Request,
               NoAccount(r) \/ RefreshReturns(r) \/ SendDone(r)
        PROVE  lease' = lease
    BY <2>3 DEF NoAccount, RefreshReturns, SendDone, historyVars
  <2>4. ASSUME (Environment /\ LoopUnchanged) \/ UNCHANGED vars
        PROVE  lease' = lease
    BY <2>4 DEF LoopUnchanged, vars, requestVars
  <2>. QED  BY <2>1, <2>2, <2>3, <2>4, ChatCases
<1>. QED  BY <1>1, LoopInvariant, PTL DEF Spec, NoSecondChance

-----------------------------------------------------------------------------
\* The requests that hold an account.
Holders(t) == {r \in Request : lease[r] = t}

\* Holders are finitely many, so that they can be counted.
LEMMA HoldersCount ==
    ASSUME NEW t \in Token
    PROVE  /\ IsFiniteSet(Holders(t))
           /\ Cardinality(Holders(t)) \in Nat
  BY ChatAssumption, FS_Subset, FS_CardinalityType DEF Holders

\* A request that takes an account becomes one more of its holders.
LEMMA AcquireCounted ==
    ASSUME LoopInv, LeasesAccounted, NEW r \in Request, NEW t \in Token,
           lease[r] = NoToken, lease' = [lease EXCEPT ![r] = t], Acquire(t)
    PROVE  LeasesAccounted'
<1>. USE DEF LoopInv, TypeOK, SelectionTypeOK
<1>. SUFFICES ASSUME NEW u \in Token
              PROVE  inflight'[u] = Cardinality({q \in Request : lease'[q] = u})
  BY DEF LeasesAccounted
<1>1. inflight[u] = Cardinality(Holders(u))
  BY DEF LeasesAccounted, Holders
<1>2. CASE u = t
  <2>1. {q \in Request : lease'[q] = u} = Holders(u) \cup {r}
    BY <1>2 DEF Holders
  <2>2. r \notin Holders(u)
    BY ChatAssumption DEF Holders
  <2>3. Cardinality(Holders(u) \cup {r}) = Cardinality(Holders(u)) + 1
    BY <2>2, HoldersCount, FS_AddElement
  <2>4. inflight'[u] = inflight[u] + 1
    BY <1>2 DEF Acquire
  <2>. QED  BY <1>1, <2>1, <2>3, <2>4
<1>3. CASE u # t
  <2>1. {q \in Request : lease'[q] = u} = Holders(u)
    BY <1>3, ChatAssumption DEF Holders
  <2>2. inflight'[u] = inflight[u]
    BY <1>3 DEF Acquire
  <2>. QED  BY <1>1, <2>1, <2>2
<1>. QED  BY <1>2, <1>3

\* A request that gives its account back is one of its holders, so the count was
\* not zero, and the floor of decrement_inflight never comes into play.
LEMMA ReleaseCounted ==
    ASSUME LoopInv, LeasesAccounted, NEW r \in Request, lease[r] # NoToken,
           lease' = [lease EXCEPT ![r] = NoToken], Release(lease[r])
    PROVE  LeasesAccounted'
<1>. USE DEF LoopInv, TypeOK, SelectionTypeOK
<1>. SUFFICES ASSUME NEW u \in Token
              PROVE  inflight'[u] = Cardinality({q \in Request : lease'[q] = u})
  BY DEF LeasesAccounted
<1>1. inflight[u] = Cardinality(Holders(u))
  BY DEF LeasesAccounted, Holders
<1>2. CASE u = lease[r]
  <2>1. {q \in Request : lease'[q] = u} = Holders(u) \ {r}
    BY <1>2, ChatAssumption DEF Holders
  <2>2. r \in Holders(u)
    BY <1>2 DEF Holders
  <2>3. IsFiniteSet(Holders(u)) /\ Cardinality(Holders(u)) \in Nat
    BY HoldersCount
  <2>4. /\ IsFiniteSet(Holders(u) \ {r})
        /\ Cardinality(Holders(u) \ {r}) = Cardinality(Holders(u)) - 1
    BY <2>2, <2>3, FS_RemoveElement
  <2>5. Cardinality(Holders(u) \ {r}) \in Nat
    BY <2>4, FS_CardinalityType
  <2>6. inflight'[u] = IF inflight[u] > 0 THEN inflight[u] - 1 ELSE 0
    BY <1>2 DEF Release
  <2>7. inflight'[u] = Cardinality(Holders(u) \ {r})
    BY <1>1, <2>3, <2>4, <2>5, <2>6
  <2>. QED  BY <2>1, <2>7, Zenon
<1>3. CASE u # lease[r]
  <2>1. {q \in Request : lease'[q] = u} = Holders(u)
    BY <1>3, ChatAssumption DEF Holders
  <2>2. inflight'[u] = inflight[u]
    BY <1>3 DEF Release
  <2>. QED  BY <1>1, <2>1, <2>2
<1>. QED  BY <1>2, <1>3

\* The steps that end an attempt go through the finally block, when there is an
\* account to give back.
LEMMA EndsSettle ==
    ASSUME LoopInv, NEW r \in Request,
           Complete(r) \/ ClientGone(r) \/ \E e \in ErrorClass : Fail(r, e)
    PROVE  \/ lease[r] # NoToken /\ \E kind : Settle(r, kind)
           \/ UNCHANGED <<selectionVars, lease>>
<1>. USE DEF LoopInv, LeaseWhileOpen
<1>1. CASE Complete(r)
  BY <1>1, Zenon DEF Complete
<1>2. CASE ClientGone(r)
  BY <1>2, Zenon DEF ClientGone
<1>3. ASSUME NEW e \in ErrorClass, Fail(r, e)
      PROVE  lease[r] # NoToken /\ Settle(r, FeedbackKind(e))
  <2>1. pc[r] = "open" /\ Settle(r, FeedbackKind(e))
    BY <1>3, Zenon DEF Fail
  <2>. QED  BY <2>1
<1>. QED  BY <1>1, <1>2, <1>3, Zenon

\* The in-flight counts are the leases the requests hold, whichever way their
\* attempts end: answered, failed, retried or abandoned by the client.
THEOREM LeasesAreAccounted == Spec => []LeasesAccounted
<1>1. Init => LeasesAccounted
  <2>. SUFFICES ASSUME Init, NEW t \in Token
                PROVE  inflight[t] = Cardinality({r \in Request : lease[r] = t})
    BY DEF LeasesAccounted
  <2>1. {r \in Request : lease[r] = t} = {}
    BY ChatAssumption DEF Init
  <2>2. inflight[t] = 0
    BY DEF Init, SelectionInit
  <2>. QED  BY <2>1, <2>2, FS_EmptySet
<1>2. LoopInv /\ LeasesAccounted /\ [Next]_vars => LeasesAccounted'
  <2>. SUFFICES ASSUME LoopInv, LeasesAccounted, [Next]_vars
                PROVE  LeasesAccounted'
    OBVIOUS
  <2>1. ASSUME NEW r \in Request, Reserve(r)
        PROVE  LeasesAccounted'
    <3>1. PICK t \in Candidates(excluded[r]) :
               lease' = [lease EXCEPT ![r] = t] /\ Acquire(t)
      BY <2>1 DEF Reserve
    <3>2. t \in Token /\ lease[r] = NoToken
      BY <2>1, CandidatesType DEF Reserve, LoopInv, LeaseWhileOpen, TypeOK
    <3>. QED  BY <3>1, <3>2, AcquireCounted
  <2>2. ASSUME NEW r \in Request, NEW kind, lease[r] # NoToken, Settle(r, kind)
        PROVE  LeasesAccounted'
    BY <2>2, ReleaseCounted DEF Settle
  <2>3. ASSUME NEW r \in Request,
               Complete(r) \/ ClientGone(r) \/ \E e \in ErrorClass : Fail(r, e)
        PROVE  LeasesAccounted'
    <3>1. CASE UNCHANGED <<selectionVars, lease>>
      BY <3>1 DEF selectionVars, LeasesAccounted
    <3>. QED  BY <2>2, <2>3, <3>1, EndsSettle
  <2>4. ASSUME NEW r \in Request,
               NoAccount(r) \/ RefreshReturns(r) \/ SendDone(r)
        PROVE  LeasesAccounted'
    BY <2>4 DEF NoAccount, RefreshReturns, SendDone, historyVars,
                selectionVars, LeasesAccounted
  <2>5. CASE Environment /\ LoopUnchanged
    BY <2>5 DEF Environment, Sync, CoolingEnds, WindowEnds, reconcile_refresh_runtime,
                LoopUnchanged, requestVars, LeasesAccounted
  <2>6. CASE UNCHANGED vars
    BY <2>6 DEF vars, selectionVars, requestVars, LeasesAccounted
  <2>. QED  BY <2>1, <2>3, <2>4, <2>5, <2>6, ChatCases
<1>. QED  BY <1>1, <1>2, LoopInvariant, PTL DEF Spec

\* As long as the random strategy rules, no account carries more requests than
\* account.selection.max_inflight, however they interleave.
THEOREM LoadIsLimited == Spec => []LoadLimited
<1>1. Init => LoadLimited
  BY SelectionAssumption DEF Init, SelectionInit, LoadLimited
<1>2. LoopInv /\ LoadLimited /\ [Next]_vars => LoadLimited'
  <2>. SUFFICES ASSUME LoopInv, LoadLimited, [Next]_vars
                PROVE  LoadLimited'
    OBVIOUS
  <2>. USE SelectionAssumption DEF LoopInv, TypeOK, SelectionTypeOK, LoadLimited
  <2>1. ASSUME NEW r \in Request, Reserve(r)
        PROVE  LoadLimited'
    <3>1. PICK t \in Candidates(excluded[r]) : Acquire(t)
      BY <2>1 DEF Reserve
    <3>2. t \in Token
      BY CandidatesType
    <3>3. strategy = "random" => inflight[t] < MaxInflight
      BY DEF Candidates, RandomCandidates
    <3>. QED  BY <2>1, <3>1, <3>2, <3>3 DEF Reserve, Acquire
  <2>2. ASSUME NEW r \in Request, NEW kind, Settle(r, kind), lease[r] # NoToken
        PROVE  LoadLimited'
    <3>1. lease[r] \in Token
      BY <2>2
    <3>. QED  BY <2>2, <3>1 DEF Settle, Release
  <2>3. ASSUME NEW r \in Request,
               Complete(r) \/ ClientGone(r) \/ \E e \in ErrorClass : Fail(r, e)
        PROVE  LoadLimited'
    <3>1. CASE UNCHANGED <<selectionVars, lease>>
      BY <3>1 DEF selectionVars
    <3>. QED  BY <2>2, <2>3, <3>1, EndsSettle
  <2>4. ASSUME NEW r \in Request,
               NoAccount(r) \/ RefreshReturns(r) \/ SendDone(r)
        PROVE  LoadLimited'
    BY <2>4 DEF NoAccount, RefreshReturns, SendDone, selectionVars
  <2>5. CASE Environment /\ LoopUnchanged
    BY <2>5 DEF Environment, Sync, CoolingEnds, WindowEnds, reconcile_refresh_runtime
  <2>6. CASE UNCHANGED vars
    BY <2>6 DEF vars, selectionVars
  <2>. QED  BY <2>1, <2>3, <2>4, <2>5, <2>6, ChatCases
<1>. QED  BY <1>1, <1>2, LoopInvariant, PTL DEF Spec
=============================================================================
