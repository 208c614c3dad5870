---------------------------- MODULE SessionProofs ----------------------------
(*****************************************************************************)
(* TLAPS proofs about what answers a client over a while: ImagineSession,    *)
(* StreamEvents and GptAccounts, for any sessions, runs, upstream texts,     *)
(* accounts, requests and bounds.                                            *)
(*                                                                           *)
(* A session that was stopped judges no account because the run that would   *)
(* is the one that is awaited (SessionInv). A stream has one ending          *)
(* because what its guard has seen is what was announced (EndingInv), and    *)
(* its blocks open and close in turn because what an attempt remembers of    *)
(* them, how many there were and whether one is open, is what it has sent    *)
(* (BlocksInv). A ChatGPT account is active only while it is added           *)
(* (GptInv).                                                                 *)
(*****************************************************************************)
EXTENDS ImagineSession, StreamEvents, GptAccounts, FiniteSetTheorems,
        SequenceTheorems, TLAPS

-----------------------------------------------------------------------------
(*****************************************************************************)
(* Imagine sessions.                                                         *)
(*****************************************************************************)

\* The event is set while the handler stops a run, and a run that is to follow fits.
StopWhileStopping ==
    /\ stop <=> handler \in {"start", "stop", "leave"}
    /\ handler = "start" => last < MaxRuns

\* Only the last run may be under way, the ones before it are over, and the ones to
\* come have not begun.
InTurn ==
    \A i \in Run : /\ i < last => Over(i)
                   /\ i = last => run[i].pc # "none"
                   /\ i > last => run[i].pc = "none"

\* A run that is cancelled is under way, and the event is set.
CancelledWhileStopping ==
    \A i \in Run : run[i].cancelled => stop /\ run[i].pc \notin {"none", "over", "raised"}

\* A run holds an account while an attempt is open.
LeaseWhileOpen ==
    \A i \in Run : run[i].account # NoAccount
                      <=> run[i].pc \in {"connecting", "round", "telling"}

SessionInv == /\ SessionTypeOK /\ StopWhileStopping /\ InTurn /\ CancelledWhileStopping
        /\ LeaseWhileOpen /\ StopBlamesNobody

-----------------------------------------------------------------------------
LEMMA NoRunType == NoRun \in RunState
BY SessionAssumption DEF SessionAssumption, NoRun, RunState, NoSlots

LEMMA InitHolds == SessionInit => SessionInv
<1> SUFFICES ASSUME SessionInit PROVE SessionInv OBVIOUS
<1>1. \A i \in Run : /\ i > 0 /\ run[i].pc = "none" /\ run[i].account = NoAccount
                      /\ ~run[i].cancelled
  BY SessionAssumption DEF SessionAssumption, SessionInit, NoRun, Run
<1>2. SessionTypeOK
  <2>1. run \in [Run -> RunState] BY NoRunType DEF SessionInit
  <2>2. last \in 0..MaxRuns /\ spent \in 0..Quota
    BY SessionAssumption DEF SessionAssumption, SessionInit
  <2> QED BY <2>1, <2>2 DEF SessionInit, SessionTypeOK
<1>3. StopWhileStopping /\ InTurn /\ CancelledWhileStopping /\ LeaseWhileOpen
  BY <1>1 DEF SessionInit, StopWhileStopping, InTurn, CancelledWhileStopping,
      LeaseWhileOpen, Run
<1>4. StopBlamesNobody
  BY <1>1, SessionAssumption DEF SessionAssumption, SessionInit, StopBlamesNobody
<1> QED BY <1>2, <1>3, <1>4 DEF SessionInv

\* The handler's own steps.
LEMMA ReceiveHolds ==
    ASSUME SessionInv, NEW why \in {"start", "stop", "leave"}, Receive(why)
    PROVE  SessionInv'
<1>1. \A i \in Run : run'[i] = run[i] \/ (i = last /\ ~Over(i)
                                          /\ run'[i] = [run[i] EXCEPT !.cancelled = TRUE])
  BY DEF Receive, SessionInv, SessionTypeOK
<1>2. run' \in [Run -> RunState]
  <2>1. \A i \in Run : run[i] \in RunState BY DEF SessionInv, SessionTypeOK
  <2>2. \A i \in Run : run'[i] \in RunState
    <3>1. \A r \in RunState : [r EXCEPT !.cancelled = TRUE] \in RunState BY DEF RunState
    <3> QED BY <1>1, <2>1, <3>1
  <2> QED BY <2>2 DEF Receive, Over
<1>3. \A i \in Run : run'[i].pc = run[i].pc /\ run'[i].account = run[i].account
  BY <1>1 DEF SessionInv, SessionTypeOK, RunState
<1>4. spent' \in 0..Quota
  BY SessionAssumption DEF SessionAssumption, Receive, Consumed, SessionInv, SessionTypeOK
<1>5. SessionTypeOK' BY <1>2, <1>4 DEF Receive, SessionInv, SessionTypeOK
<1>6. StopWhileStopping' BY DEF Receive, StopWhileStopping, SessionInv
<1>7. InTurn' BY <1>3 DEF Receive, InTurn, Over, SessionInv
<1>8. CancelledWhileStopping'
  BY <1>1, <1>3 DEF Receive, CancelledWhileStopping, Over, InTurn, SessionInv
<1>9. LeaseWhileOpen' /\ StopBlamesNobody'
  BY <1>3 DEF Receive, LeaseWhileOpen, StopBlamesNobody, SessionInv
<1> QED BY <1>5, <1>6, <1>7, <1>8, <1>9 DEF SessionInv

LEMMA StopReturnsHolds == ASSUME SessionInv, StopReturns PROVE SessionInv'
<1>0. stop' = FALSE /\ handler' \in {"receive", "ended"} /\ UNCHANGED <<spent, inflight, verdicts>>
  BY DEF StopReturns
<1>1. \A i \in Run : i # last => run[i].pc \in {"none", "over", "raised"}
  BY DEF SessionInv, InTurn, Over, Run, SessionTypeOK
<1>2. \A i \in Run : run[i].pc \in {"none", "over", "raised"}
  BY <1>1 DEF StopReturns, Awaited, Over
<1>3. \A i \in Run : ~run[i].cancelled BY <1>2 DEF SessionInv, CancelledWhileStopping
<1>4. CASE UNCHANGED <<run, last>>
  <2>1. SessionTypeOK' BY <1>0, <1>4 DEF SessionInv, SessionTypeOK
  <2>2. StopWhileStopping' BY <1>0 DEF StopWhileStopping
  <2>3. InTurn' /\ CancelledWhileStopping' /\ LeaseWhileOpen'
    BY <1>3, <1>4 DEF SessionInv, InTurn, Over, CancelledWhileStopping, LeaseWhileOpen
  <2>4. StopBlamesNobody' BY <1>0, <1>4 DEF SessionInv, StopBlamesNobody
  <2> QED BY <2>1, <2>2, <2>3, <2>4 DEF SessionInv
<1>5. CASE /\ handler = "start" /\ handler' = "receive" /\ last' = last + 1
           /\ run' = [run EXCEPT ![last + 1].pc = "greeting"]
  <2>1. last + 1 \in Run /\ last \in Nat
    BY <1>5, SessionAssumption DEF SessionInv, StopWhileStopping, SessionTypeOK, SessionAssumption, Run
  <2>2. run' \in [Run -> RunState]
    <3>1. run[last + 1] \in RunState BY <2>1 DEF SessionInv, SessionTypeOK
    <3>2. [run[last + 1] EXCEPT !.pc = "greeting"] \in RunState BY <3>1 DEF RunState
    <3> QED BY <1>5, <2>1, <3>2 DEF SessionInv, SessionTypeOK
  <2>3. \A i \in Run : /\ run'[i].account = run[i].account
                       /\ run'[i].cancelled = run[i].cancelled
                       /\ run'[i].pc = IF i = last + 1 THEN "greeting" ELSE run[i].pc
    BY <1>5, <2>1 DEF SessionInv, SessionTypeOK, RunState
  <2>4. run[last + 1].pc = "none" BY <2>1 DEF SessionInv, InTurn, Run
  <2>5. SessionTypeOK'
    <3>1. last' \in 0..MaxRuns BY <1>5, <2>1 DEF Run
    <3> QED BY <1>0, <2>2, <3>1 DEF SessionInv, SessionTypeOK
  <2>6. StopWhileStopping' BY <1>0 DEF StopWhileStopping
  <2>7. InTurn'
    BY <1>2, <1>5, <2>1, <2>3
       DEF SessionInv, InTurn, Over, Run, SessionTypeOK
  <2>8. CancelledWhileStopping' BY <1>3, <2>3 DEF CancelledWhileStopping
  <2>9. LeaseWhileOpen' BY <2>1, <2>3, <2>4 DEF SessionInv, LeaseWhileOpen
  <2>10. StopBlamesNobody'
    BY <1>2, <1>5, <2>3 DEF StopReturns, SessionInv, StopBlamesNobody
  <2> QED BY <2>5, <2>6, <2>7, <2>8, <2>9, <2>10 DEF SessionInv
<1> QED BY <1>4, <1>5 DEF StopReturns

-----------------------------------------------------------------------------
\* A run goes on without touching leases and verdicts: it stays under way or ends when
\* it holds no account, and it does not become cancelled.
LEMMA GoesOn ==
    ASSUME SessionInv, NEW i \in Run, NEW r \in RunState, Becomes(i, r),
           UNCHANGED <<session, inflight, verdicts>>,
           run[i].pc \notin {"none", "over", "raised"}, r.pc # "none",
           r.account = run[i].account,
           r.account # NoAccount <=> r.pc \in {"connecting", "round", "telling"},
           r.cancelled => run[i].cancelled /\ r.pc \notin {"over", "raised"}
    PROVE  SessionInv'
<1>1. run' = [run EXCEPT ![i] = r] /\ run' \in [Run -> RunState]
  BY DEF Becomes, SessionInv, SessionTypeOK
<1>2. i = last BY DEF SessionInv, StopBlamesNobody
<1>3. SessionTypeOK' /\ StopWhileStopping'
  BY <1>1 DEF session, SessionInv, SessionTypeOK, StopWhileStopping
<1>4. InTurn' BY <1>1, <1>2 DEF session, SessionInv, InTurn, Over, SessionTypeOK
<1>5. CancelledWhileStopping' BY <1>1 DEF session, SessionInv, CancelledWhileStopping, SessionTypeOK
<1>6. LeaseWhileOpen' BY <1>1 DEF SessionInv, LeaseWhileOpen, SessionTypeOK
<1>7. \A a \in Account : (\E j \in Run : run'[j].account = a) <=> \E j \in Run : run[j].account = a
  BY <1>1 DEF SessionInv, SessionTypeOK
<1>8. StopBlamesNobody'
  BY <1>1, <1>2, <1>7 DEF session, SessionInv, StopBlamesNobody, SessionTypeOK
<1> QED BY <1>3, <1>4, <1>5, <1>6, <1>8 DEF SessionInv

\* An attempt is settled: the one lease there is goes back, and a stopped one is not
\* judged.
LEMMA SettleHolds ==
    ASSUME SessionInv, NEW i \in Run, NEW outcome \in {"shown", "failed", "stopped"},
           NEW then \in RunState, Settle(i, outcome, then), UNCHANGED session,
           run[i].pc \in {"connecting", "round", "telling"},
           then.pc \in {"choosing", "ending", "over"},
           outcome = "stopped" => run[i].cancelled
    PROVE  SessionInv'
<1> DEFINE r == [then EXCEPT !.account = NoAccount, !.slot = NoSlots, !.collected = 0,
                             !.cancelled = FALSE]
<1>1. r \in RunState /\ r.pc = then.pc /\ r.account = NoAccount /\ r.cancelled = FALSE
  BY DEF RunState, NoSlots
<1>2. run' = [run EXCEPT ![i] = r] /\ run' \in [Run -> RunState]
  BY <1>1 DEF Settle, Becomes, SessionInv, SessionTypeOK
<1>3. i = last BY DEF SessionInv, StopBlamesNobody
<1>4. run[i].account \in Account /\ inflight[run[i].account] = 1
  BY DEF SessionInv, LeaseWhileOpen, SessionTypeOK, RunState, StopBlamesNobody
<1>5. inflight' = [inflight EXCEPT ![run[i].account] = 0] /\ inflight' \in [Account -> Nat]
  BY <1>4 DEF Settle, SessionInv, SessionTypeOK
<1>6. verdicts' \subseteq {<<"shown", "well">>, <<"failed", "ill">>}
  <2>1. CASE stop BY <2>1 DEF Settle, Judged, SessionInv, StopBlamesNobody
  <2>2. CASE ~stop
    <3>1. outcome # "stopped" BY <2>2 DEF SessionInv, CancelledWhileStopping
    <3> QED BY <2>2, <3>1 DEF Settle, Judged, SessionInv, StopBlamesNobody
  <2> QED BY <2>1, <2>2
<1>7. SessionTypeOK' BY <1>2, <1>5, <1>6 DEF session, SessionInv, SessionTypeOK
<1>8. StopWhileStopping' BY DEF session, SessionInv, StopWhileStopping
<1>9. InTurn' BY <1>1, <1>2, <1>3 DEF session, SessionInv, InTurn, Over, SessionTypeOK
<1>10. CancelledWhileStopping'
  BY <1>1, <1>2 DEF session, SessionInv, CancelledWhileStopping, SessionTypeOK
<1>11. LeaseWhileOpen' BY <1>1, <1>2 DEF SessionInv, LeaseWhileOpen, SessionTypeOK
<1>12. \A j \in Run : j # i => run[j].account = NoAccount
  BY <1>3 DEF SessionInv, LeaseWhileOpen, StopBlamesNobody
<1>13. \A j \in Run : run'[j].account = NoAccount
  BY <1>1, <1>2, <1>12 DEF SessionInv, SessionTypeOK
<1>14. \A a \in Account : inflight'[a] = 0
  BY <1>4, <1>5, <1>12, SessionAssumption
     DEF SessionAssumption, SessionInv, SessionTypeOK, StopBlamesNobody
<1>15. StopBlamesNobody'
  <2>1. \A j \in Run : run'[j].pc \notin {"none", "over", "raised"} => j = last'
    BY <1>2, <1>3 DEF session, SessionInv, StopBlamesNobody, SessionTypeOK
  <2>2. \A a \in Account : ~ \E j \in Run : run'[j].account = a
    BY <1>13, SessionAssumption DEF SessionAssumption
  <2> QED BY <1>6, <1>14, <2>1, <2>2 DEF StopBlamesNobody
<1> QED BY <1>7, <1>8, <1>9, <1>10, <1>11, <1>15 DEF SessionInv

-----------------------------------------------------------------------------
\* A run that waits where a step finds it is not cancelled, unless it is choosing.
LEMMA FailHolds ==
    ASSUME SessionInv, NEW i \in Run, Fail(i), run[i].pc \in {"connecting", "round"},
           ~run[i].cancelled
    PROVE  SessionInv'
<1>1. CASE /\ run[i].attempt < MaxAttempts
           /\ Settle(i, "failed", [run[i] EXCEPT !.pc = "choosing", !.attempt = @ + 1,
                                                 !.excluded = @ \cup {run[i].account}])
           /\ UNCHANGED session
  <2> DEFINE r == [run[i] EXCEPT !.pc = "choosing", !.attempt = @ + 1,
                                 !.excluded = @ \cup {run[i].account}]
  <2>1. run[i].account \in Account BY DEF SessionInv, LeaseWhileOpen, SessionTypeOK, RunState
  <2>2. r \in RunState /\ r.pc = "choosing"
    <3>1. run[i] \in RunState BY DEF SessionInv, SessionTypeOK
    <3>2. run[i].attempt + 1 \in 1..MaxAttempts
      <4>1. run[i].attempt < MaxAttempts BY <1>1
      <4>2. run[i].attempt \in 1..MaxAttempts BY <3>1 DEF RunState
      <4> QED BY <4>1, <4>2, SessionAssumption DEF SessionAssumption
    <3>3. run[i].excluded \cup {run[i].account} \in SUBSET Account BY <2>1, <3>1 DEF RunState
    <3> QED BY <3>1, <3>2, <3>3 DEF RunState
  <2> QED BY <1>1, <2>2, SettleHolds
<1>2. CASE /\ Becomes(i, [run[i] EXCEPT !.pc = "telling", !.shown = FALSE])
           /\ UNCHANGED <<session, inflight, verdicts>>
  <2> DEFINE r == [run[i] EXCEPT !.pc = "telling", !.shown = FALSE]
  <2>1. r \in RunState /\ r.pc = "telling" /\ r.account = run[i].account
           /\ r.cancelled = run[i].cancelled /\ r.account # NoAccount
    BY DEF SessionInv, SessionTypeOK, RunState, LeaseWhileOpen
  <2> QED BY <1>2, <2>1, GoesOn
<1> QED BY <1>1, <1>2 DEF Fail, session

\* What a round brings is written into the run before the round is over.
LEMMA RoundOverHolds ==
    ASSUME SessionInv, NEW i \in Run, NEW r \in RunState, NEW closed \in BOOLEAN,
           RoundOver(i, r, closed), run[i].pc = "round", ~run[i].cancelled,
           r.pc = "round", r.account = run[i].account, r.cancelled = run[i].cancelled
    PROVE  SessionInv'
<1>1. r.account # NoAccount BY DEF SessionInv, LeaseWhileOpen
<1>2. CASE r.collected < Count
  <2> DEFINE q == IF closed THEN [r EXCEPT !.pc = "connecting"]
                            ELSE [r EXCEPT !.slot = NoSlots]
  <2>1. q \in RunState /\ q.pc \in {"connecting", "round"} /\ q.account = r.account
           /\ q.cancelled = r.cancelled
    BY DEF RunState, NoSlots
  <2> QED BY <1>1, <1>2, <2>1, GoesOn DEF RoundOver
<1>3. CASE ~(r.collected < Count) /\ r.shown
  <2> DEFINE q == [r EXCEPT !.pc = "telling"]
  <2>1. q \in RunState /\ q.pc = "telling" /\ q.account = r.account
           /\ q.cancelled = r.cancelled
    BY DEF RunState
  <2> QED BY <1>1, <1>3, <2>1, GoesOn DEF RoundOver
<1>4. CASE ~(r.collected < Count) /\ ~r.shown
  BY <1>4, FailHolds DEF RoundOver
<1> QED BY <1>2, <1>3, <1>4

LEMMA StepHolds == ASSUME SessionInv, SessionNext PROVE SessionInv'
<1> USE DEF WaitsAt
<1>1. ASSUME NEW why \in {"start", "stop", "leave"}, Receive(why) PROVE SessionInv'
  BY <1>1, ReceiveHolds
<1>2. CASE StopReturns BY <1>2, StopReturnsHolds
<1>3. ASSUME NEW i \in Run, Greet(i) PROVE SessionInv'
  <2> DEFINE r == [run[i] EXCEPT !.pc = "choosing"]
  <2>1. r \in RunState /\ r.pc = "choosing" /\ r.account = run[i].account
           /\ r.cancelled = run[i].cancelled /\ r.account = NoAccount
    BY <1>3 DEF Greet, SessionInv, SessionTypeOK, RunState, LeaseWhileOpen
  <2> QED BY <1>3, <2>1, GoesOn DEF Greet
<1>4. ASSUME NEW i \in Run, Acquire(i) PROVE SessionInv'
  <2>1. ASSUME NEW a \in Account,
               inflight' = [inflight EXCEPT ![a] = @ + 1],
               Becomes(i, [run[i] EXCEPT !.pc = "connecting", !.account = a,
                                         !.collected = 0, !.shown = FALSE])
        PROVE  SessionInv'
    <3> DEFINE r == [run[i] EXCEPT !.pc = "connecting", !.account = a,
                                   !.collected = 0, !.shown = FALSE]
    <3>0. run[i].pc = "choosing" /\ i = last /\ UNCHANGED <<session, verdicts>>
      BY <1>4 DEF Acquire, SessionInv, StopBlamesNobody
    <3>1. r \in RunState /\ r.pc = "connecting" /\ r.account = a
             /\ r.cancelled = run[i].cancelled
      BY DEF SessionInv, SessionTypeOK, RunState
    <3>2. run' = [run EXCEPT ![i] = r] /\ run' \in [Run -> RunState]
      BY <2>1, <3>1 DEF Becomes, SessionInv, SessionTypeOK
    <3>3. \A j \in Run : run[j].account = NoAccount
      BY <3>0 DEF SessionInv, LeaseWhileOpen, StopBlamesNobody
    <3>4. \A b \in Account : inflight[b] = 0
      BY <3>3, SessionAssumption DEF SessionAssumption, SessionInv, StopBlamesNobody
    <3>5. \A b \in Account : inflight'[b] = IF b = a THEN 1 ELSE 0
      BY <2>1, <3>4 DEF SessionInv, SessionTypeOK
    <3>6. inflight' \in [Account -> Nat] BY <2>1 DEF SessionInv, SessionTypeOK
    <3>7. SessionTypeOK' BY <3>0, <3>2, <3>6 DEF session, SessionInv, SessionTypeOK
    <3>8. StopWhileStopping' BY <3>0 DEF session, SessionInv, StopWhileStopping
    <3>9. InTurn' BY <3>0, <3>1, <3>2 DEF session, SessionInv, InTurn, Over, SessionTypeOK
    <3>10. CancelledWhileStopping'
      BY <3>0, <3>1, <3>2 DEF session, SessionInv, CancelledWhileStopping, SessionTypeOK
    <3>11. LeaseWhileOpen'
      BY <3>0, <3>1, <3>2, SessionAssumption DEF SessionAssumption, SessionInv, LeaseWhileOpen, SessionTypeOK
    <3>12. \A b \in Account : (\E j \in Run : run'[j].account = b) <=> b = a
      BY <3>1, <3>2, <3>3, SessionAssumption DEF SessionAssumption, SessionInv, SessionTypeOK
    <3>13. StopBlamesNobody'
      BY <3>0, <3>1, <3>2, <3>5, <3>12 DEF session, SessionInv, StopBlamesNobody, SessionTypeOK
    <3> QED BY <3>7, <3>8, <3>9, <3>10, <3>11, <3>13 DEF SessionInv
  <2>2. CASE Becomes(i, [run[i] EXCEPT !.pc = "ending"]) /\ UNCHANGED inflight
    <3> DEFINE r == [run[i] EXCEPT !.pc = "ending"]
    <3>1. r \in RunState /\ r.pc = "ending" /\ r.account = run[i].account
             /\ r.cancelled = run[i].cancelled /\ r.account = NoAccount
      BY <1>4 DEF Acquire, SessionInv, SessionTypeOK, RunState, LeaseWhileOpen
    <3> QED BY <1>4, <2>2, <3>1, GoesOn DEF Acquire
  <2> QED BY <1>4, <2>1, <2>2 DEF Acquire
<1>5. ASSUME NEW i \in Run, Told(i) PROVE SessionInv'
  <2> DEFINE r == [run[i] EXCEPT !.pc = "over"]
  <2>1. r \in RunState /\ r.pc = "over" BY DEF SessionInv, SessionTypeOK, RunState
  <2> QED BY <1>5, <2>1, SettleHolds DEF Told
<1>6. ASSUME NEW i \in Run, Raise(i) PROVE SessionInv'
  <2> DEFINE r == [run[i] EXCEPT !.pc = "ending"]
  <2>1. r \in RunState /\ r.pc = "ending" BY DEF SessionInv, SessionTypeOK, RunState
  <2> QED BY <1>6, <2>1, SettleHolds DEF Raise
<1>7. ASSUME NEW i \in Run, Interrupted(i) PROVE SessionInv'
  <2>1. CASE run[i].pc = "greeting"
    <3> DEFINE r == [run[i] EXCEPT !.pc = "raised", !.cancelled = FALSE]
    <3>1. r \in RunState /\ r.pc = "raised" /\ r.account = run[i].account
             /\ r.cancelled = FALSE /\ r.account = NoAccount
      BY <2>1 DEF SessionInv, SessionTypeOK, RunState, LeaseWhileOpen
    <3> QED BY <1>7, <2>1, <3>1, GoesOn DEF Interrupted, session
  <2>2. CASE run[i].pc \in {"connecting", "round", "telling"}
    <3> DEFINE r == [run[i] EXCEPT !.pc = "ending"]
    <3>1. r \in RunState /\ r.pc = "ending" BY DEF SessionInv, SessionTypeOK, RunState
    <3> QED BY <1>7, <2>2, <3>1, SettleHolds DEF Interrupted
  <2>3. CASE run[i].pc = "ending"
    <3> DEFINE r == [run[i] EXCEPT !.cancelled = FALSE]
    <3>1. r \in RunState /\ r.pc = "ending" /\ r.account = run[i].account
             /\ r.cancelled = FALSE /\ r.account = NoAccount
      BY <2>3 DEF SessionInv, SessionTypeOK, RunState, LeaseWhileOpen
    <3> QED BY <1>7, <2>3, <3>1, GoesOn DEF Interrupted, session
  <2> QED BY <1>7, <2>1, <2>2, <2>3 DEF Interrupted
<1>8. ASSUME NEW i \in Run, Finish(i) PROVE SessionInv'
  <2> DEFINE r == [run[i] EXCEPT !.pc = "over"]
  <2>1. r \in RunState /\ r.pc = "over" /\ r.account = run[i].account
           /\ r.cancelled = run[i].cancelled /\ r.account = NoAccount
    BY <1>8 DEF Finish, SessionInv, SessionTypeOK, RunState, LeaseWhileOpen
  <2> QED BY <1>8, <2>1, GoesOn DEF Finish
<1>9. ASSUME NEW i \in Run, Connect(i) PROVE SessionInv'
  <2> DEFINE r == [run[i] EXCEPT !.pc = "round", !.slot = NoSlots]
  <2>1. r \in RunState /\ r.pc = "round" /\ r.account = run[i].account
           /\ r.cancelled = run[i].cancelled /\ r.account # NoAccount
    BY <1>9 DEF Connect, SessionInv, SessionTypeOK, RunState, LeaseWhileOpen, NoSlots
  <2> QED BY <1>9, <2>1, GoesOn DEF Connect
<1>10. ASSUME NEW i \in Run, ConnectFails(i) \/ ServerFails(i) PROVE SessionInv'
  BY <1>10, FailHolds DEF ConnectFails, ServerFails
<1>11. ASSUME NEW i \in Run, NEW s \in Slot, StartStage(i, s) \/ Preview(i, s) PROVE SessionInv'
  <2>1. PICK to \in {"started", "image"} : Becomes(i, [run[i] EXCEPT !.slot[s] = to])
    BY <1>11 DEF StartStage, Preview, Frame
  <2> DEFINE r == [run[i] EXCEPT !.slot[s] = to]
  <2>2. r \in RunState /\ r.pc = "round" /\ r.account = run[i].account
           /\ r.cancelled = run[i].cancelled /\ r.account # NoAccount
    BY <1>11 DEF StartStage, Preview, Frame, SessionInv, SessionTypeOK, RunState, LeaseWhileOpen
  <2> QED BY <1>11, <2>1, <2>2, GoesOn DEF StartStage, Preview, Frame
<1>12. ASSUME NEW i \in Run, NEW s \in Slot, Completed(i, s) PROVE SessionInv'
  <2> DEFINE r(got) == [run[i] EXCEPT !.slot[s] = "done", !.collected = @ + got,
                                      !.shown = @ \/ (got = 1 /\ run[i].slot[s] = "image")]
  <2>1. run[i] \in RunState /\ run[i].pc = "round" /\ ~run[i].cancelled
          /\ run[i].account # NoAccount
    BY <1>12 DEF Completed, SessionInv, SessionTypeOK, LeaseWhileOpen
  <2>2. ASSUME NEW got \in {0, 1}, NEW closed \in BOOLEAN,
               RoundOver(i, r(got), closed)
                 \/ (Becomes(i, r(got)) /\ UNCHANGED <<session, inflight, verdicts>>)
        PROVE  SessionInv'
    <3> DEFINE q == r(got)
    <3>1. [run[i].slot EXCEPT ![s] = "done"] \in [Slot -> {"", "started", "image", "done"}]
      BY <2>1 DEF RunState
    <3>2. run[i].collected + got \in Nat
      <4>1. run[i].collected \in Nat BY <2>1 DEF RunState
      <4> QED BY <4>1
    <3>3. (run[i].shown \/ (got = 1 /\ run[i].slot[s] = "image")) \in BOOLEAN OBVIOUS
    <3>4. q \in RunState BY <2>1, <3>1, <3>2, <3>3 DEF RunState
    <3>5. q.pc = "round" /\ q.account = run[i].account /\ q.cancelled = run[i].cancelled
      BY <2>1 DEF RunState
    <3>6. RoundOver(i, q, closed)
            \/ (Becomes(i, q) /\ UNCHANGED <<session, inflight, verdicts>>)
      BY <2>2
    <3> HIDE DEF q
    <3> QED BY <2>1, <3>4, <3>5, <3>6, RoundOverHolds, GoesOn
  <2>3. \E got \in {0, 1}, closed \in BOOLEAN :
          RoundOver(i, r(got), closed)
            \/ (Becomes(i, r(got)) /\ UNCHANGED <<session, inflight, verdicts>>)
    BY <1>12 DEF Completed
  <2> HIDE DEF r
  <2> QED BY <2>2, <2>3
<1>13. ASSUME NEW i \in Run, NEW closed \in BOOLEAN, Broken(i, closed) PROVE SessionInv'
  <2> DEFINE got == Cardinality(Unfinished(i, "image"))
             r   == [run[i] EXCEPT !.collected = @ + got, !.shown = @ \/ got > 0]
  <2>1. got \in Nat
    <3>1. IsFiniteSet(Unfinished(i, "image"))
      BY SessionAssumption, FS_Subset DEF SessionAssumption, Unfinished
    <3> QED BY <3>1, FS_CardinalityType
  <2>2. run[i].pc = "round" /\ ~run[i].cancelled BY <1>13 DEF Broken
  <2> HIDE DEF got
  <2>3. r \in RunState /\ r.pc = "round" /\ r.account = run[i].account
           /\ r.cancelled = run[i].cancelled
    <3>1. run[i] \in RunState BY DEF SessionInv, SessionTypeOK
    <3>2. run[i].collected + got \in Nat
      <4>1. run[i].collected \in Nat BY <3>1 DEF RunState
      <4> QED BY <2>1, <4>1
    <3>3. (run[i].shown \/ got > 0) \in BOOLEAN OBVIOUS
    <3> QED BY <2>2, <3>1, <3>2, <3>3 DEF RunState
  <2>4. Fail(i) \/ RoundOver(i, r, closed) BY <1>13 DEF Broken, got
  <2> HIDE DEF r
  <2> QED BY <2>2, <2>3, <2>4, FailHolds, RoundOverHolds
<1> QED
  BY <1>1, <1>2, <1>3, <1>4, <1>5, <1>6, <1>7, <1>8, <1>9, <1>10, <1>11, <1>12, <1>13
     DEF SessionNext

LEMMA InvHolds == SessionSpec => []SessionInv
<1>1. SessionInv /\ UNCHANGED sessionVars => SessionInv'
  BY DEF SessionInv, sessionVars, session, SessionTypeOK, StopWhileStopping, InTurn, Over,
      CancelledWhileStopping, LeaseWhileOpen, StopBlamesNobody
<1> QED BY <1>1, InitHolds, StepHolds, PTL DEF SessionSpec

\* Every reachable state of a socket's session is well typed, for any accounts, slots,
\* quotas and numbers of runs.
THEOREM SessionTypeCorrect == SessionSpec => []SessionTypeOK
BY InvHolds, PTL DEF SessionInv

\* Wherever a run is cancelled, its account is given back and is not blamed for it, and
\* the next run begins only when the last one has ended (_stop_run and the finally of
\* _run, imagine.py).
THEOREM StoppedRunsBlameNobody == SessionSpec => []StopBlamesNobody
BY InvHolds, PTL DEF SessionInv

-----------------------------------------------------------------------------
(*****************************************************************************)
(* Streamed responses.                                                       *)
(*****************************************************************************)

\* Where in the outbox q an ending is complete, when the client's last chunk was the head
\* of one or not.
EndsAt(q, head) ==
    {n \in 1..Len(q) : \/ q[n] \in {"terminal", "error"}
                       \/ q[n] = "tail" /\ (IF n = 1 THEN head ELSE q[n - 1] = "head")}

\* The last chunk that was sent, or taken, is the head of an ending.
HeadLast(q, head) == IF q = <<>> THEN head ELSE q[Len(q)] = "head"

Announced == client.endings > 0 \/ EndsAt(outbox, client.head) # {}

AtMostOne ==
    /\ client.endings <= 1
    /\ client.endings = 1 => EndsAt(outbox, client.head) = {}
    /\ \A m, n \in EndsAt(outbox, client.head) : m = n

OutboxShape ==
    /\ api \in {"responses", "messages", "build"}
    /\ producer \in {"reserving", "open", "ending", "settling", "done"}
    /\ api = "build" => producer \in {"open", "done"}
    /\ outbox \in Seq(Chunk)
    /\ guarded \in [seen : BOOLEAN, head : BOOLEAN]
    /\ client \in [phase : {"here", "gone", "ended"}, head : BOOLEAN, endings : Nat]
    /\ client.phase # "here" => producer = "done"
    /\ client.phase = "ended" => client.endings > 0

\* The guard has seen what was announced, until it adds an ending where there was none.
GuardSees ==
    client.phase = "here" =>
        /\ producer # "done" =>
               /\ guarded.seen <=> Announced
               /\ guarded.head <=> HeadLast(outbox, client.head)
        /\ producer \in {"settling", "done"} => Announced
        /\ api # "build" /\ producer \in {"reserving", "open", "ending"} => ~guarded.seen

EndingInv == OutboxShape /\ GuardSees /\ (api # "messages" => AtMostOne)

LEMMA AppendEnds ==
    ASSUME NEW q \in Seq(Chunk), NEW head \in BOOLEAN, NEW c \in Chunk
    PROVE  /\ Append(q, c) \in Seq(Chunk) /\ Append(q, c) # <<>>
           /\ HeadLast(Append(q, c), head) <=> c = "head"
           /\ EndsAt(q, head) \subseteq 1..Len(q)
           /\ EndsAt(Append(q, c), head) =
                 EndsAt(q, head) \cup
                   (IF c \in {"terminal", "error"} \/ (c = "tail" /\ HeadLast(q, head))
                    THEN {Len(q) + 1} ELSE {})
<1> DEFINE p == Append(q, c)
<1>1. /\ p \in Seq(Chunk) /\ Len(p) = Len(q) + 1 /\ Len(q) \in Nat
      /\ p[Len(q) + 1] = c /\ \A n \in 1..Len(q) : p[n] = q[n]
  OBVIOUS
<1>2. p # <<>> BY <1>1
<1>3. q = <<>> <=> Len(q) = 0 BY <1>1
<1> HIDE DEF p
<1>4. \A n \in 1..Len(q) : n \in EndsAt(p, head) <=> n \in EndsAt(q, head)
  BY <1>1 DEF EndsAt
<1>5. Len(q) + 1 \in EndsAt(p, head)
          <=> c \in {"terminal", "error"} \/ (c = "tail" /\ HeadLast(q, head))
  BY <1>1, <1>3 DEF EndsAt, HeadLast
<1>6. EndsAt(p, head) \subseteq 1..Len(q) + 1 /\ EndsAt(q, head) \subseteq 1..Len(q)
  BY <1>1 DEF EndsAt
<1>7. EndsAt(p, head) = EndsAt(q, head) \cup
          (IF c \in {"terminal", "error"} \/ (c = "tail" /\ HeadLast(q, head))
           THEN {Len(q) + 1} ELSE {})
  BY <1>1, <1>4, <1>5, <1>6
<1>8. HeadLast(p, head) <=> c = "head" BY <1>1, <1>2 DEF HeadLast
<1> QED BY <1>1, <1>2, <1>6, <1>7, <1>8 DEF p

LEMMA TailEnds ==
    ASSUME NEW q \in Seq(Chunk), q # <<>>, NEW head \in BOOLEAN
    PROVE  /\ Tail(q) \in Seq(Chunk) /\ Head(q) = q[1] /\ Head(q) \in Chunk
           /\ HeadLast(Tail(q), Head(q) = "head") = HeadLast(q, head)
           /\ 1 \in EndsAt(q, head)
                  <=> Head(q) \in {"terminal", "error"} \/ (Head(q) = "tail" /\ head)
           /\ \A n : n \in EndsAt(Tail(q), Head(q) = "head") => n + 1 \in EndsAt(q, head)
           /\ \A n \in EndsAt(q, head) : n # 1 => n - 1 \in EndsAt(Tail(q), Head(q) = "head")
           /\ EndsAt(Tail(q), Head(q) = "head") \subseteq Nat \ {0}
           /\ EndsAt(q, head) \subseteq Nat \ {0}
<1> DEFINE p == Tail(q)
<1>1. /\ p \in Seq(Chunk) /\ Len(q) \in Nat \ {0} /\ Len(p) = Len(q) - 1
      /\ \A n \in 1..Len(p) : p[n] = q[n + 1]
      /\ Head(q) = q[1] /\ q[1] \in Chunk
  BY HeadTailProperties
<1>2. p = <<>> <=> Len(p) = 0 BY <1>1
<1> HIDE DEF p
<1>3. HeadLast(p, q[1] = "head") = HeadLast(q, head)
  <2>1. CASE p = <<>>
    <3>1. Len(p) = 0 BY <1>2, <2>1
    <3>2. Len(q) = 1 BY <1>1, <3>1
    <3> QED BY <2>1, <3>2 DEF HeadLast
  <2>2. CASE p # <<>>
    <3>1. Len(p) \in 1..Len(p) /\ p[Len(p)] = q[Len(q)] BY <1>1, <1>2, <2>2
    <3> QED BY <2>2, <3>1 DEF HeadLast
  <2> QED BY <2>1, <2>2
<1>4. 1 \in EndsAt(q, head) <=> q[1] \in {"terminal", "error"} \/ (q[1] = "tail" /\ head)
  BY <1>1 DEF EndsAt
<1>5. ASSUME NEW n \in 1..Len(p)
      PROVE  n \in EndsAt(p, q[1] = "head") <=> n + 1 \in EndsAt(q, head)
  <2>1. n + 1 \in 1..Len(q) /\ p[n] = q[n + 1] /\ n + 1 # 1 /\ (n + 1) - 1 = n BY <1>1
  <2>2. n # 1 => n - 1 \in 1..Len(p) /\ p[n - 1] = q[n] BY <1>1
  <2> QED BY <2>1, <2>2 DEF EndsAt
<1>6. EndsAt(p, q[1] = "head") \subseteq 1..Len(p) /\ EndsAt(q, head) \subseteq 1..Len(q)
  BY DEF EndsAt
<1>7. \A n : n \in EndsAt(p, q[1] = "head") => n + 1 \in EndsAt(q, head) BY <1>5, <1>6
<1>8. ASSUME NEW n \in EndsAt(q, head), n # 1 PROVE n - 1 \in EndsAt(p, q[1] = "head")
  <2>1. n - 1 \in 1..Len(p) /\ (n - 1) + 1 = n BY <1>1, <1>6, <1>8
  <2> QED BY <1>5, <2>1
<1> QED BY <1>1, <1>3, <1>4, <1>6, <1>7, <1>8 DEF p

\* What the generator sends goes through the guard.
LEMMA EmitKeeps ==
    ASSUME EndingInv, producer \notin {"done", "settling"}, NEW c \in Chunk \ {"error"},
           Emit(c),
           UNCHANGED <<api, client>>, producer' \in {"reserving", "open", "ending", "settling"},
           api = "build" => producer' = "open",
           guarded.seen => ~Sees(c),
           producer' = "settling" => Sees(c),
           api # "build" /\ producer' # "settling" => ~Sees(c)
    PROVE  EndingInv'
<1>1. /\ outbox \in Seq(Chunk) /\ guarded \in [seen : BOOLEAN, head : BOOLEAN]
      /\ client \in [phase : {"here", "gone", "ended"}, head : BOOLEAN, endings : Nat]
      /\ client.phase = "here"
  BY DEF EndingInv, OutboxShape
<1>2. /\ outbox' = Append(outbox, c) /\ guarded' = [seen |-> guarded.seen \/ Sees(c), head |-> c = "head"]
  BY DEF Emit
<1>3. guarded' \in [seen : BOOLEAN, head : BOOLEAN] BY <1>1, <1>2 DEF Sees
<1>4. /\ outbox' \in Seq(Chunk) /\ (HeadLast(outbox', client.head) <=> c = "head")
      /\ EndsAt(outbox, client.head) \subseteq 1..Len(outbox)
      /\ EndsAt(outbox', client.head) =
            EndsAt(outbox, client.head) \cup (IF Sees(c) THEN {Len(outbox) + 1} ELSE {})
  BY <1>1, <1>2, AppendEnds DEF Sees, EndingInv, GuardSees
<1>5. Announced' <=> Announced \/ Sees(c) BY <1>4 DEF Announced
<1>6. OutboxShape' BY <1>3, <1>4 DEF EndingInv, OutboxShape
<1>7. GuardSees'
  <2>1. guarded'.seen <=> guarded.seen \/ Sees(c) BY <1>2
  <2>2. guarded'.head <=> c = "head" BY <1>2
  <2>3. producer' # "done" =>
            (guarded'.seen <=> Announced') /\ (guarded'.head <=> HeadLast(outbox', client'.head))
    BY <1>1, <1>4, <1>5, <2>1, <2>2 DEF EndingInv, GuardSees
  <2>4. producer' = "settling" => Announced' BY <1>5
  <2>5. api # "build" /\ producer' # "settling" => ~guarded'.seen
    BY <1>1, <2>1 DEF EndingInv, OutboxShape, GuardSees
  <2> QED BY <2>3, <2>4, <2>5 DEF GuardSees
<1>8. api # "messages" => AtMostOne'
  <2>1. Sees(c) => ~Announced BY <1>1 DEF EndingInv, GuardSees
  <2>2. CASE Sees(c)
    BY <1>1, <1>4, <2>1, <2>2 DEF Announced, AtMostOne
  <2>3. CASE ~Sees(c) BY <1>4, <2>3 DEF EndingInv, AtMostOne
  <2> QED BY <2>2, <2>3
<1> QED BY <1>6, <1>7, <1>8 DEF EndingInv

\* The generator is over: the guard adds what is missing.
LEMMA EndsKeep ==
    ASSUME EndingInv, producer # "done", NEW raised \in BOOLEAN, EndsStream(raised),
           UNCHANGED <<api, client>>,
           api = "messages" /\ ~raised => producer = "settling"
    PROVE  EndingInv'
<1>1. /\ outbox \in Seq(Chunk) /\ guarded \in [seen : BOOLEAN, head : BOOLEAN]
      /\ client \in [phase : {"here", "gone", "ended"}, head : BOOLEAN, endings : Nat]
      /\ client.phase = "here"
  BY DEF EndingInv, OutboxShape
<1>2. producer' = "done" /\ outbox' = outbox \o Adds(raised) /\ UNCHANGED guarded
  BY DEF EndsStream
<1>3. ASSUME Adds(raised) = <<>> PROVE EndingInv'
  <2>1. outbox' = outbox BY <1>1, <1>2, <1>3, ConcatEmptySeq
  <2>2. Announced' = Announced BY <2>1 DEF Announced
  <2>3. Announced
    <3>1. api = "messages" => producer = "settling" BY <1>3 DEF Adds
    <3>2. api # "messages" => guarded.seen BY <1>3 DEF Adds
    <3> QED BY <1>1, <3>1, <3>2 DEF EndingInv, GuardSees
  <2> QED BY <1>2, <2>1, <2>2, <2>3 DEF EndingInv, OutboxShape, GuardSees, AtMostOne
<1>4. ASSUME NEW c \in {"terminal", "error"}, Adds(raised) = <<c>>,
             api # "messages" => ~guarded.seen
      PROVE  EndingInv'
  <2>1. outbox' = Append(outbox, c) BY <1>1, <1>2, <1>4 DEF Chunk
  <2>2. /\ outbox' \in Seq(Chunk) /\ EndsAt(outbox, client.head) \subseteq 1..Len(outbox)
        /\ EndsAt(outbox', client.head) = EndsAt(outbox, client.head) \cup {Len(outbox) + 1}
    BY <1>1, <2>1, AppendEnds DEF Chunk
  <2>3. Announced' BY <2>2 DEF Announced
  <2>4. api # "messages" => ~Announced BY <1>1, <1>4 DEF EndingInv, GuardSees
  <2>5. api # "messages" => AtMostOne' BY <1>1, <2>2, <2>4 DEF Announced, AtMostOne
  <2> QED BY <1>2, <2>2, <2>3, <2>5 DEF EndingInv, OutboxShape, GuardSees
<1>5. \/ Adds(raised) = <<>>
      \/ Adds(raised) = <<"terminal">> /\ api # "messages" /\ ~guarded.seen
      \/ Adds(raised) = <<"error">> /\ api = "messages"
  BY DEF Adds
<1> QED BY <1>3, <1>4, <1>5

\* The generator goes on without a word.
LEMMA SilentKeeps ==
    ASSUME EndingInv, producer # "done", UNCHANGED <<api, outbox, guarded, client>>,
           producer' \in {"reserving", "open", "ending"},
           producer # "settling", api # "build"
    PROVE  EndingInv'
<1>1. Announced' = Announced BY DEF Announced
<1>2. AtMostOne' = AtMostOne BY DEF AtMostOne
<1> QED BY <1>1, <1>2 DEF EndingInv, OutboxShape, GuardSees

LEMMA TakeKeeps == ASSUME EndingInv, Take PROVE EndingInv'
<1>1. /\ outbox \in Seq(Chunk) /\ outbox # <<>> /\ client.phase = "here"
      /\ client \in [phase : {"here", "gone", "ended"}, head : BOOLEAN, endings : Nat]
      /\ outbox' = Tail(outbox) /\ UNCHANGED <<api, producer, guarded>>
  BY DEF EndingInv, OutboxShape, Take
<1> DEFINE c == Head(outbox)
           first == 1 \in EndsAt(outbox, client.head)
           n == client.endings + (IF first THEN 1 ELSE 0)
<1>2. /\ Tail(outbox) \in Seq(Chunk)
      /\ HeadLast(Tail(outbox), c = "head") = HeadLast(outbox, client.head)
      /\ first <=> IsEnding(c)
      /\ \A k : k \in EndsAt(Tail(outbox), c = "head") => k + 1 \in EndsAt(outbox, client.head)
      /\ \A k \in EndsAt(outbox, client.head) :
            k # 1 => k - 1 \in EndsAt(Tail(outbox), c = "head")
      /\ EndsAt(Tail(outbox), c = "head") \subseteq Nat \ {0}
      /\ EndsAt(outbox, client.head) \subseteq Nat \ {0}
  BY <1>1, TailEnds DEF IsEnding
<1>3. client' = [client EXCEPT !.head = (c = "head"), !.endings = n]
  BY <1>2 DEF Take
<1>4. n \in Nat /\ (first => n = client.endings + 1) /\ (~first => n = client.endings)
  BY <1>1
<1> DEFINE S == EndsAt(outbox, client.head)
           T == EndsAt(Tail(outbox), c = "head")
<1> HIDE DEF c, n
<1>5. /\ client' \in [phase : {"here", "gone", "ended"}, head : BOOLEAN, endings : Nat]
      /\ client'.phase = "here" /\ (client'.head <=> c = "head") /\ client'.endings = n
  BY <1>1, <1>3, <1>4
<1>6. EndsAt(outbox', client'.head) = T
  BY <1>1, <1>3, <1>5
<1>7. HeadLast(outbox', client'.head) = HeadLast(outbox, client.head)
  BY <1>1, <1>2, <1>3, <1>5
<1>8. Announced' <=> Announced
  <2>1. ASSUME Announced PROVE Announced'
    <3>1. CASE client.endings > 0 BY <1>1, <1>4, <1>5, <3>1 DEF Announced
    <3>2. CASE first BY <1>1, <1>4, <1>5, <3>2 DEF Announced
    <3>3. CASE ~first /\ \E k : k \in S BY <1>2, <1>6, <3>3 DEF Announced
    <3> QED BY <2>1, <3>1, <3>2, <3>3 DEF Announced
  <2>2. ASSUME Announced' PROVE Announced
    <3>1. CASE client'.endings > 0 BY <1>1, <1>4, <1>5, <3>1 DEF Announced
    <3>2. CASE \E k : k \in T BY <1>2, <3>2 DEF Announced
    <3> QED BY <1>6, <2>2, <3>1, <3>2 DEF Announced
  <2> QED BY <2>1, <2>2
<1>9. OutboxShape' BY <1>1, <1>2, <1>5 DEF EndingInv, OutboxShape
<1>10. GuardSees' BY <1>1, <1>5, <1>7, <1>8 DEF EndingInv, GuardSees
<1>11. ASSUME AtMostOne PROVE AtMostOne'
  <2>1. CASE first
    <3>1. client.endings = 0 /\ \A k \in S : k = 1
      BY <1>1, <1>11, <2>1 DEF AtMostOne
    <3>2. T = {}
      <4> SUFFICES ASSUME NEW k \in T PROVE FALSE OBVIOUS
      <4>1. k + 1 \in S /\ k \in Nat \ {0} BY <1>2
      <4> QED BY <3>1, <4>1
    <3> QED BY <1>4, <1>5, <1>6, <2>1, <3>1, <3>2 DEF AtMostOne
  <2>2. CASE ~first
    <3>1. \A j, k \in T : j = k
      <4> SUFFICES ASSUME NEW j \in T, NEW k \in T PROVE j = k OBVIOUS
      <4>1. j + 1 \in S /\ k + 1 \in S /\ j \in Nat /\ k \in Nat BY <1>2
      <4>2. j + 1 = k + 1 BY <1>11, <4>1 DEF AtMostOne
      <4> QED BY <4>1, <4>2
    <3>2. S = {} => T = {} BY <1>2
    <3> QED BY <1>4, <1>5, <1>6, <1>11, <2>2, <3>1, <3>2 DEF AtMostOne
  <2> QED BY <2>1, <2>2
<1> QED BY <1>1, <1>9, <1>10, <1>11 DEF EndingInv

LEMMA ClientKeeps == ASSUME EndingInv, StreamOver \/ Leave PROVE EndingInv'
<1>1. /\ client \in [phase : {"here", "gone", "ended"}, head : BOOLEAN, endings : Nat]
      /\ UNCHANGED <<api, guarded>> /\ client.phase = "here"
  BY DEF EndingInv, OutboxShape, StreamOver, Leave
<1>2. CASE StreamOver
  <2>1. /\ producer = "done" /\ outbox = <<>> /\ UNCHANGED <<outbox, producer>>
        /\ client' = [client EXCEPT !.phase = "ended"]
    BY <1>2 DEF StreamOver, Drained
  <2>2. EndsAt(outbox, client.head) = {} BY <2>1, EmptySeq DEF EndsAt
  <2>3. /\ client' \in [phase : {"here", "gone", "ended"}, head : BOOLEAN, endings : Nat]
        /\ client'.phase = "ended" /\ client'.endings = client.endings
        /\ client'.head = client.head
    BY <1>1, <2>1
  <2>4. client.endings > 0 BY <1>1, <2>1, <2>2 DEF EndingInv, GuardSees, Announced
  <2> QED BY <1>1, <2>1, <2>3, <2>4 DEF EndingInv, OutboxShape, GuardSees, AtMostOne
<1>3. CASE Leave
  <2>1. /\ producer' = "done" /\ outbox' = <<>> /\ client' = [client EXCEPT !.phase = "gone"]
    BY <1>3 DEF Leave
  <2>2. outbox' \in Seq(Chunk) /\ EndsAt(outbox', client'.head) = {}
    BY <2>1, EmptySeq DEF EndsAt
  <2>3. /\ client' \in [phase : {"here", "gone", "ended"}, head : BOOLEAN, endings : Nat]
        /\ client'.phase = "gone" /\ client'.endings = client.endings
    BY <1>1, <2>1
  <2> QED BY <1>1, <2>1, <2>2, <2>3 DEF EndingInv, OutboxShape, GuardSees, AtMostOne
<1> QED BY <1>2, <1>3

LEMMA EndingInvHolds == StreamSpec => []EndingInv
<1>1. ASSUME StreamInit PROVE EndingInv
  <2>1. /\ outbox = <<>> /\ outbox \in Seq(Chunk) /\ EndsAt(outbox, client.head) = {}
        /\ ~HeadLast(outbox, FALSE)
    BY <1>1, EmptySeq DEF StreamInit, EndsAt, HeadLast
  <2>2. /\ api \in {"responses", "messages", "build"} /\ producer \in {"open", "reserving"}
        /\ api = "build" => producer = "open"
        /\ guarded = [seen |-> FALSE, head |-> FALSE]
        /\ client = [phase |-> "here", head |-> FALSE, endings |-> 0]
    BY <1>1 DEF StreamInit
  <2>3. OutboxShape BY <2>1, <2>2 DEF OutboxShape
  <2>4. ~Announced /\ AtMostOne
    <3>1. client.endings = 0 BY <2>2
    <3> QED BY <2>1, <3>1 DEF Announced, AtMostOne
  <2>5. GuardSees BY <2>1, <2>2, <2>4 DEF GuardSees
  <2> QED BY <2>3, <2>4, <2>5 DEF EndingInv
<1>2. EndingInv /\ [StreamNext]_streamVars => EndingInv'
  <2> SUFFICES ASSUME EndingInv, [StreamNext]_streamVars PROVE EndingInv' OBVIOUS
  <2>1. CASE UNCHANGED streamVars
    BY <2>1 DEF streamVars, EndingInv, OutboxShape, GuardSees, AtMostOne, Announced
  <2>2. CASE Reserve \/ Think \/ NativeCalls \/ \E c \in Chunks(sent) : Text(c) \/ TextCalls(c)
    <3>1. /\ Emit("event") /\ UNCHANGED <<api, client>> /\ producer \in {"reserving", "open"}
          /\ producer' \in {"open", "ending"} /\ api # "build"
      BY <2>2 DEF EndingInv, OutboxShape, Reserve, Think, NativeCalls, Text, TextCalls, Writes
    <3>2. "event" \in Chunk \ {"error"} /\ ~Sees("event") BY DEF Chunk, Sees
    <3> QED BY <3>1, <3>2, EmitKeeps
  <2>3. CASE KeepText \/ UpstreamStops \/ Retry
    <3>1. /\ UNCHANGED <<api, outbox, guarded, client>> /\ producer = "open" /\ api # "build"
          /\ producer' \in {"reserving", "open", "ending"}
      BY <2>3 DEF KeepText, UpstreamStops, Retry, Writes
    <3> QED BY <3>1, SilentKeeps
  <2>4. CASE Complete
    <3>1. /\ Emit("terminal") /\ UNCHANGED <<api, client>> /\ producer = "ending"
          /\ producer' = "settling"
      BY <2>4 DEF Complete
    <3>2. "terminal" \in Chunk \ {"error"} /\ Sees("terminal") BY DEF Chunk, Sees
    <3>3. api # "build" BY <3>1 DEF EndingInv, OutboxShape
    <3>4. ~guarded.seen BY <3>1, <3>3 DEF EndingInv, OutboxShape, GuardSees
    <3> QED BY <3>1, <3>2, <3>3, <3>4, EmitKeeps
  <2>5. CASE NoneAvailable \/ AttemptRaises
    BY <2>5, EndsKeep DEF NoneAvailable, AttemptRaises
  <2>6. CASE SettleAttempt BY <2>6, EndsKeep DEF SettleAttempt
  <2>7. CASE EndOfStream BY <2>7, EndsKeep DEF EndOfStream
  <2>8. ASSUME NEW c \in {"event", "terminal", "head", "tail"}, PassOn(c) PROVE EndingInv'
    <3>1. /\ Emit(c) /\ UNCHANGED <<api, client>> /\ producer = "open" /\ producer' = "open"
          /\ api = "build" /\ (guarded.seen => c = "event")
      BY <2>8 DEF PassOn
    <3>2. c \in Chunk \ {"error"} /\ (guarded.seen => ~Sees(c))
      BY <3>1 DEF Chunk, Sees
    <3> QED BY <3>1, <3>2, EmitKeeps
  <2> QED BY <2>1, <2>2, <2>3, <2>4, <2>5, <2>6, <2>7, <2>8, TakeKeeps, ClientKeeps
          DEF StreamNext
<1> QED BY <1>1, <1>2, PTL DEF StreamSpec

\* A client that stays is told of the end, and by the Responses endpoint and in what Grok
\* Build wrote only once, wherever the upstream, a retry or a cleanup fails and however an
\* ending is cut into chunks.
THEOREM OneEndingHolds == StreamSpec => []OneEnding
<1>1. EndingInv => OneEnding BY DEF EndingInv, OutboxShape, AtMostOne, OneEnding
<1> QED BY <1>1, EndingInvHolds, PTL

-----------------------------------------------------------------------------
\* What an attempt y has sent by the messages endpoint: its blocks are numbered in turn,
\* at most the last is open, and text is collected for an open block only.
IsOpen(y) == y.think = "open" \/ y.text

Tidy(y) ==
    /\ ~(y.think = "open" /\ y.text)
    /\ IsOpen(y) => Len(y.blocks) = y.next + 1
    /\ ~IsOpen(y) => Len(y.blocks) = y.next
    /\ \A k \in 1..Len(y.blocks) :
          y.blocks[k].index = k - 1 /\ (y.blocks[k].open => k = Len(y.blocks) /\ IsOpen(y))
    /\ y.pending => IsOpen(y)

\* Unless its thought came after text, for then the thought stays open beside it.
Fine(y) ==
    /\ y \in Attempt
    /\ y.late => y.think # "no"
    /\ api = "messages" /\ ~y.late =>
          /\ Tidy(y)
          /\ y.text \/ y.held # "nothing" => y.fed

EventsInTurn(y) == api = "messages" /\ ~y.late

\* The blocks of y when the one of index n is closed.
Shut(y, n) == [k \in DOMAIN y.blocks |-> IF y.blocks[k].index = n
                                         THEN [y.blocks[k] EXCEPT !.open = FALSE]
                                         ELSE y.blocks[k]]

\* What the tidiness of an attempt does not depend on.
Alike(y, z) == /\ z.think = y.think /\ z.text = y.text /\ z.next = y.next
               /\ z.blocks = y.blocks

LEMMA AlikeTidy ==
    ASSUME NEW y, NEW z, Tidy(y), Alike(y, z), z.pending => y.pending \/ IsOpen(y)
    PROVE  Tidy(z)
  BY DEF Tidy, Alike, IsOpen

LEMMA AddedTidy ==
    ASSUME NEW y \in Attempt, NEW z \in Attempt, Tidy(y), ~IsOpen(y), NEW stays \in BOOLEAN,
           NEW what, z.blocks = Append(y.blocks, [what |-> what, index |-> y.next, open |-> stays]),
           IsOpen(z) <=> stays, ~(z.think = "open" /\ z.text),
           z.next = IF stays THEN y.next ELSE y.next + 1, z.pending => IsOpen(z)
    PROVE  Tidy(z)
<1> DEFINE b == [what |-> what, index |-> y.next, open |-> stays]
           q == y.blocks
           p == z.blocks
<1>1. b.index = y.next /\ b.open = stays /\ y.next \in Nat /\ q \in Seq(Block)
  BY DEF Attempt
<1> HIDE DEF b
<1>2. p = Append(q, b) BY DEF b
<1>3. Len(q) = y.next BY DEF Tidy
<1> HIDE DEF q, p
<1>4. Len(p) = Len(q) + 1 /\ p[Len(p)] = b /\ \A k \in 1..Len(q) : p[k] = q[k]
  BY <1>1, <1>2
<1>5. \A k \in 1..Len(q) : q[k].index = k - 1 /\ ~q[k].open BY DEF Tidy, q
<1>6. \A k \in 1..Len(p) : p[k].index = k - 1 /\ (p[k].open => k = Len(p) /\ IsOpen(z))
  <2> SUFFICES ASSUME NEW k \in 1..Len(p)
               PROVE  p[k].index = k - 1 /\ (p[k].open => k = Len(p) /\ IsOpen(z))
    OBVIOUS
  <2>1. Len(q) \in Nat BY <1>1
  <2>2. CASE k \in 1..Len(q) BY <1>4, <1>5, <2>2
  <2>3. CASE k = Len(p)
    <3>1. p[k] = b /\ k - 1 = y.next BY <1>1, <1>3, <1>4, <2>3
    <3> QED BY <1>1, <2>3, <3>1
  <2> QED BY <1>4, <2>1, <2>2, <2>3
<1>7. (IsOpen(z) => Len(p) = z.next + 1) /\ (~IsOpen(z) => Len(p) = z.next)
  BY <1>1, <1>3, <1>4
<1> QED BY <1>6, <1>7 DEF Tidy, p

LEMMA ClosedTidy ==
    ASSUME NEW y \in Attempt, NEW z \in Attempt, Tidy(y), IsOpen(y),
           z.blocks = Shut(y, y.next), ~IsOpen(z), z.next = y.next + 1, ~z.pending
    PROVE  Tidy(z)
<1> DEFINE q == y.blocks
           p == z.blocks
<1>1. /\ q \in Seq(Block) /\ y.next \in Nat /\ Len(q) = y.next + 1 /\ DOMAIN q = 1..Len(q)
      /\ \A k \in 1..Len(q) : q[k] \in Block /\ q[k].index = k - 1 /\ (q[k].open => k = Len(q))
  BY DEF Attempt, Tidy
<1>2. p \in Seq(Block) BY DEF Attempt
<1>3. /\ DOMAIN p = 1..Len(q)
      /\ \A k \in 1..Len(q) : p[k] = IF q[k].index = y.next THEN [q[k] EXCEPT !.open = FALSE]
                                                            ELSE q[k]
  BY <1>1 DEF Shut
<1> HIDE DEF q, p
<1>4. Len(p) = Len(q) BY <1>1, <1>2, <1>3, LenProperties
<1>5. ASSUME NEW k \in 1..Len(q) PROVE p[k].index = k - 1 /\ ~p[k].open
  <2>1. CASE q[k].index = y.next
    <3>1. k = Len(q) /\ q[k] \in Block BY <1>1, <2>1
    <3>2. p[k] = [q[k] EXCEPT !.open = FALSE] BY <1>3, <2>1
    <3> QED BY <1>1, <3>1, <3>2 DEF Block
  <2>2. CASE q[k].index # y.next
    <3>1. k # Len(q) BY <1>1, <2>2
    <3> QED BY <1>1, <1>3, <2>2, <3>1
  <2> QED BY <2>1, <2>2
<1> QED BY <1>1, <1>4, <1>5 DEF Tidy, IsOpen, p

-----------------------------------------------------------------------------
(* What an attempt does to what it has sent. *)

LEMMA OpenedTyped ==
    ASSUME NEW y \in Attempt, NEW what \in {"think", "text", "tool"}, NEW stays \in BOOLEAN
    PROVE  /\ Opened(y, what, stays) \in Attempt
           /\ Opened(y, what, stays) =
                 [y EXCEPT !.blocks = Append(y.blocks,
                              [what |-> what, index |-> BlockIndex(y, what), open |-> stays])]
<1>1. BlockIndex(y, what) \in Nat BY DEF BlockIndex, Attempt
<1>2. [what |-> what, index |-> BlockIndex(y, what), open |-> stays] \in Block
  BY <1>1 DEF Block
<1> DEFINE p == Append(y.blocks, [what |-> what, index |-> BlockIndex(y, what), open |-> stays])
<1>3. p \in Seq(Block) BY <1>2 DEF Attempt
<1>4. Opened(y, what, stays) = [y EXCEPT !.blocks = p] BY DEF Opened
<1> HIDE DEF p
<1>5. [y EXCEPT !.blocks = p] \in Attempt BY <1>3 DEF Attempt
<1> QED BY <1>4, <1>5 DEF p

LEMMA ClosedTyped ==
    ASSUME NEW y \in Attempt, NEW what
    PROVE  /\ Closed(y, what) \in Attempt
           /\ Closed(y, what).blocks = Shut(y, BlockIndex(y, what))
           /\ Closed(y, what).next = y.next + 1 /\ Closed(y, what).pending = FALSE
           /\ \A f \in {"think", "text", "held", "native", "calls", "fed", "late", "lost"} :
                 Closed(y, what)[f] = y[f]
<1> DEFINE p == [k \in DOMAIN y.blocks |-> IF y.blocks[k].index = BlockIndex(y, what)
                                           THEN [y.blocks[k] EXCEPT !.open = FALSE]
                                           ELSE y.blocks[k]]
           z == [y EXCEPT !.blocks = p, !.pending = FALSE]
           n == y.next + 1
<1>1. y.blocks \in Seq(Block) /\ Len(y.blocks) \in Nat /\ DOMAIN y.blocks = 1..Len(y.blocks)
  BY DEF Attempt
<1>2. \A k \in 1..Len(y.blocks) : p[k] \in Block
  <2> SUFFICES ASSUME NEW k \in 1..Len(y.blocks) PROVE p[k] \in Block OBVIOUS
  <2>1. y.blocks[k] \in Block BY <1>1
  <2>2. \A b \in Block : [b EXCEPT !.open = FALSE] \in Block BY DEF Block
  <2> QED BY <1>1, <2>1, <2>2
<1>3. p \in [1..Len(y.blocks) -> Block] BY <1>1, <1>2
<1>4. p \in Seq(Block) BY <1>1, <1>3
<1>5. Closed(y, what) = [z EXCEPT !.next = z.next + 1] BY DEF Closed, ClosedInPlace
<1> HIDE DEF p
<1>6. z \in Attempt /\ z.next = y.next /\ n \in Nat
  <2>1. n \in Nat BY DEF Attempt
  <2>2. z \in Attempt BY <1>4 DEF Attempt
  <2>3. z.next = y.next BY DEF Attempt
  <2> QED BY <2>1, <2>2, <2>3
<1> HIDE DEF n
<1>7. Closed(y, what) = [y EXCEPT !.blocks = p, !.pending = FALSE, !.next = n]
  BY <1>5, <1>6 DEF n, Attempt
<1> HIDE DEF z
<1>8. Closed(y, what) \in Attempt BY <1>4, <1>6, <1>7 DEF Attempt
<1>9. /\ Closed(y, what).blocks = p /\ Closed(y, what).next = n
      /\ Closed(y, what).pending = FALSE
      /\ \A f \in {"think", "text", "held", "native", "calls", "fed", "late", "lost"} :
            Closed(y, what)[f] = y[f]
  BY <1>7 DEF Attempt
<1> QED BY <1>8, <1>9 DEF p, n, Shut

LEMMA EndThoughtFine ==
    ASSUME NEW y, Fine(y)
    PROVE  /\ Fine(EndThought(y)) /\ (EventsInTurn(y) => EndThought(y).think # "open")
           /\ \A f \in {"text", "held", "native", "calls", "fed", "late", "lost"} :
                 EndThought(y)[f] = y[f]
<1> DEFINE z == EndThought(y)
           c == Closed(y, "think")
           p == Shut(y, BlockIndex(y, "think"))
<1>1. y \in Attempt BY DEF Fine
<1>2. CASE y.think # "open"
  <2>1. z = y BY <1>2 DEF EndThought
  <2> QED BY <1>2, <2>1
<1>3. CASE y.think = "open"
  <2>0. EventsInTurn(y) => BlockIndex(y, "think") = y.next BY DEF BlockIndex, EventsInTurn
  <2>1. z = [c EXCEPT !.think = "closed"] BY <1>3 DEF EndThought
  <2>2. /\ c \in Attempt /\ c.next = y.next + 1 /\ c.pending = FALSE
        /\ \A f \in {"think", "text", "held", "native", "calls", "fed", "late", "lost"} :
              c[f] = y[f]
        /\ c.blocks = p
    <3>1. c \in Attempt BY <1>1, ClosedTyped
    <3>2. c.next = y.next + 1 /\ c.pending = FALSE BY <1>1, ClosedTyped
    <3>3. \A f \in {"think", "text", "held", "native", "calls", "fed", "late", "lost"} :
              c[f] = y[f]
      BY <1>1, ClosedTyped
    <3>4. c.blocks = p BY <1>1, ClosedTyped
    <3> QED BY <3>1, <3>2, <3>3, <3>4
  <2> HIDE DEF c, z
  <2>3. /\ z \in Attempt /\ z.think = "closed" /\ z.next = y.next + 1 /\ z.pending = FALSE
        /\ z.blocks = c.blocks
        /\ \A f \in {"text", "held", "native", "calls", "fed", "late", "lost"} : z[f] = y[f]
    BY <2>1, <2>2 DEF Attempt
  <2>4. z.text = y.text /\ z.fed = y.fed /\ z.held = y.held /\ z.late = y.late BY <2>3
  <2>5. ASSUME EventsInTurn(y) PROVE Tidy(z)
    <3>1. Tidy(y) /\ IsOpen(y) /\ ~y.text BY <1>3, <2>5 DEF Fine, EventsInTurn, IsOpen, Tidy
    <3>2. ~IsOpen(z) BY <2>3, <2>4, <3>1 DEF IsOpen
    <3> QED BY <1>1, <2>0, <2>2, <2>3, <2>5, <3>1, <3>2, ClosedTidy
  <2>6. Fine(z) BY <2>3, <2>4, <2>5 DEF Fine, EventsInTurn
  <2> QED BY <2>3, <2>6 DEF z
<1> QED BY <1>2, <1>3

LEMMA EndTextFine ==
    ASSUME NEW y, Fine(y)
    PROVE  /\ Fine(EndText(y)) /\ EndText(y).text = FALSE
           /\ \A f \in {"think", "held", "native", "calls", "fed", "late", "lost"} :
                 EndText(y)[f] = y[f]
<1> DEFINE z == EndText(y)
           c == Closed(y, "text")
           p == Shut(y, BlockIndex(y, "text"))
<1>1. y \in Attempt /\ y.text \in BOOLEAN BY DEF Fine, Attempt
<1>2. CASE ~y.text
  <2>1. z = y BY <1>2 DEF EndText
  <2> QED BY <1>1, <1>2, <2>1
<1>3. CASE y.text
  <2>0. EventsInTurn(y) => BlockIndex(y, "text") = y.next BY DEF BlockIndex, EventsInTurn
  <2>1. z = [c EXCEPT !.text = FALSE] BY <1>3 DEF EndText
  <2>2. /\ c \in Attempt /\ c.next = y.next + 1 /\ c.pending = FALSE
        /\ \A f \in {"think", "text", "held", "native", "calls", "fed", "late", "lost"} :
              c[f] = y[f]
        /\ c.blocks = p
    <3>1. c \in Attempt BY <1>1, ClosedTyped
    <3>2. c.next = y.next + 1 /\ c.pending = FALSE BY <1>1, ClosedTyped
    <3>3. \A f \in {"think", "text", "held", "native", "calls", "fed", "late", "lost"} :
              c[f] = y[f]
      BY <1>1, ClosedTyped
    <3>4. c.blocks = p BY <1>1, ClosedTyped
    <3> QED BY <3>1, <3>2, <3>3, <3>4
  <2> HIDE DEF c, z
  <2>3. /\ z \in Attempt /\ z.text = FALSE /\ z.next = y.next + 1 /\ z.pending = FALSE
        /\ z.blocks = c.blocks
        /\ \A f \in {"think", "held", "native", "calls", "fed", "late", "lost"} : z[f] = y[f]
    BY <2>1, <2>2 DEF Attempt
  <2>4. z.think = y.think /\ z.fed = y.fed /\ z.held = y.held /\ z.late = y.late BY <2>3
  <2>5. ASSUME EventsInTurn(y) PROVE Tidy(z)
    <3>1. Tidy(y) /\ IsOpen(y) /\ y.think # "open"
      BY <1>3, <2>5 DEF Fine, EventsInTurn, IsOpen, Tidy
    <3>2. ~IsOpen(z) BY <2>3, <2>4, <3>1 DEF IsOpen
    <3> QED BY <1>1, <2>0, <2>2, <2>3, <2>5, <3>1, <3>2, ClosedTidy
  <2>6. Fine(z) BY <2>3, <2>4, <2>5 DEF Fine, EventsInTurn
  <2> QED BY <2>3, <2>6 DEF z
<1> QED BY <1>1, <1>2, <1>3

LEMMA CollectedFine ==
    ASSUME NEW y, Fine(y), NEW waits \in BOOLEAN, EventsInTurn(y) => IsOpen(y)
    PROVE  /\ Fine(Collected(y, waits))
           /\ \A f \in {"think", "text", "held", "native", "calls", "fed", "late", "lost"} :
                 Collected(y, waits)[f] = y[f]
<1> DEFINE p == api = "messages" /\ waits
           z == [y EXCEPT !.pending = p]
<1>1. y \in Attempt /\ Collected(y, waits) = z BY DEF Fine, Collected
<1>2. p \in BOOLEAN OBVIOUS
<1> HIDE DEF p
<1>3. /\ z \in Attempt /\ Alike(y, z)
      /\ \A f \in {"think", "text", "held", "native", "calls", "fed", "late", "lost"} :
            z[f] = y[f]
  BY <1>1, <1>2 DEF Attempt, Alike
<1> HIDE DEF z
<1>4. z.text = y.text /\ z.fed = y.fed /\ z.held = y.held /\ z.late = y.late /\ z.think = y.think
  BY <1>3
<1>5. EventsInTurn(y) => Tidy(z) BY <1>3, AlikeTidy DEF Fine, EventsInTurn
<1>6. Fine(z) BY <1>3, <1>4, <1>5 DEF Fine, EventsInTurn
<1> QED BY <1>1, <1>3, <1>6

\* A thought that begins after text has begun makes the attempt late.
LEMMA ThinksFine ==
    ASSUME NEW y, Fine(y), y.think # "closed", NEW waits \in BOOLEAN
    PROVE  LET z == Collected(Thinks(y), waits) IN
           /\ Fine(z) /\ z.think = "open" /\ (z.late => y.late \/ y.fed) /\ (y.late => z.late)
           /\ (y.think = "no" /\ y.fed => z.late)
           /\ \A f \in {"text", "held", "native", "calls", "fed", "lost"} : z[f] = y[f]
<1> DEFINE t == Thinks(y)
<1>0. y \in Attempt BY DEF Fine
<1>1. /\ Fine(t) /\ t.think = "open" /\ (t.late => y.late \/ y.fed) /\ (y.late => t.late)
      /\ (y.think = "no" /\ y.fed => t.late)
      /\ \A f \in {"text", "held", "native", "calls", "fed", "lost"} : t[f] = y[f]
  <2>1. CASE y.think # "no"
    <3>1. t = y /\ y.think = "open" BY <1>0, <2>1 DEF Thinks, Attempt
    <3> QED BY <3>1
  <2>2. CASE y.think = "no"
    <3> DEFINE o == Opened(y, "think", TRUE)
    <3>1. t = [o EXCEPT !.think = "open", !.late = y.fed] BY <2>2 DEF Thinks
    <3>2. /\ o \in Attempt
          /\ o = [y EXCEPT !.blocks = Append(y.blocks, [what |-> "think",
                               index |-> BlockIndex(y, "think"), open |-> TRUE])]
      BY <1>0, OpenedTyped
    <3>3. y.fed \in BOOLEAN /\ ~y.late BY <1>0, <2>2 DEF Attempt, Fine
    <3> DEFINE p == Append(y.blocks, [what |-> "think", index |-> BlockIndex(y, "think"),
                                      open |-> TRUE])
    <3>4. o.blocks = p /\ o = [y EXCEPT !.blocks = p] BY <1>0, <3>2 DEF Attempt
    <3> HIDE DEF o, p, t
    <3>5. /\ t \in Attempt /\ t.think = "open" /\ t.late = y.fed /\ t.blocks = p
          /\ t.next = y.next /\ t.pending = y.pending
          /\ \A f \in {"text", "held", "native", "calls", "fed", "lost"} : t[f] = y[f]
      BY <1>0, <3>1, <3>2, <3>3, <3>4 DEF Attempt
    <3>6. t.text = y.text /\ t.fed = y.fed /\ t.held = y.held BY <3>5
    <3>7. ASSUME EventsInTurn(t) PROVE Tidy(t)
      <4>1. EventsInTurn(y) /\ ~y.fed BY <3>3, <3>5, <3>7 DEF EventsInTurn
      <4>2. Tidy(y) /\ ~y.text BY <4>1 DEF Fine, EventsInTurn
      <4>3. ~IsOpen(y) /\ ~y.pending BY <2>2, <4>2 DEF IsOpen, Tidy
      <4>4. IsOpen(t) /\ ~(t.think = "open" /\ t.text) BY <3>5, <3>6, <4>2 DEF IsOpen
      <4>5. p = Append(y.blocks, [what |-> "think", index |-> y.next, open |-> TRUE])
        BY <4>1 DEF p, BlockIndex, EventsInTurn
      <4> QED BY <1>0, <3>5, <4>2, <4>3, <4>4, <4>5, AddedTidy
    <3>8. EventsInTurn(t) => (t.text \/ t.held # "nothing" => t.fed) /\ ~t.fed
      BY <3>3, <3>5, <3>6 DEF Fine, EventsInTurn
    <3>9. Fine(t) BY <3>5, <3>7, <3>8 DEF Fine, EventsInTurn
    <3> QED BY <3>3, <3>5, <3>9
  <2> QED BY <2>1, <2>2
<1>2. IsOpen(t) BY <1>1 DEF IsOpen
<1> HIDE DEF t
<1>3. /\ Fine(Collected(t, waits))
      /\ \A f \in {"think", "text", "held", "native", "calls", "fed", "late", "lost"} :
            Collected(t, waits)[f] = t[f]
  BY <1>1, <1>2, CollectedFine
<1> QED BY <1>1, <1>3 DEF t

LEMMA SaysFine ==
    ASSUME NEW y, Fine(y), EventsInTurn(y) => y.fed /\ y.think # "open", NEW waits \in BOOLEAN
    PROVE  /\ Fine(Says(y)) /\ Fine(Collected(Says(y), waits))
           /\ \A f \in {"think", "held", "native", "calls", "fed", "late", "lost"} :
                 Says(y)[f] = y[f] /\ Collected(Says(y), waits)[f] = y[f]
<1> DEFINE t == Says(y)
<1>0. y \in Attempt BY DEF Fine
<1>1. /\ Fine(t) /\ t.text
      /\ \A f \in {"think", "held", "native", "calls", "fed", "late", "lost"} : t[f] = y[f]
  <2>1. CASE y.text BY <2>1 DEF Says
  <2>2. CASE ~y.text
    <3> DEFINE o == Opened(y, "text", TRUE)
               p == Append(y.blocks, [what |-> "text", index |-> BlockIndex(y, "text"),
                                      open |-> TRUE])
    <3>1. t = [o EXCEPT !.text = TRUE] BY <2>2 DEF Says
    <3>2. o \in Attempt /\ o = [y EXCEPT !.blocks = p] BY <1>0, OpenedTyped
    <3>3. o.blocks = p BY <1>0, <3>2 DEF Attempt
    <3> HIDE DEF o, p, t
    <3>4. /\ t \in Attempt /\ t.text /\ t.blocks = p
          /\ t.next = y.next /\ t.pending = y.pending
          /\ \A f \in {"think", "held", "native", "calls", "fed", "late", "lost"} : t[f] = y[f]
      BY <1>0, <3>1, <3>2, <3>3 DEF Attempt
    <3>5. t.think = y.think /\ t.fed = y.fed /\ t.held = y.held /\ t.late = y.late BY <3>4
    <3>6. ASSUME EventsInTurn(t) PROVE Tidy(t)
      <4>1. EventsInTurn(y) BY <3>5, <3>6 DEF EventsInTurn
      <4>2. Tidy(y) /\ y.think # "open" BY <4>1 DEF Fine, EventsInTurn
      <4>3. ~IsOpen(y) /\ ~y.pending BY <2>2, <4>2 DEF IsOpen, Tidy
      <4>4. IsOpen(t) /\ ~(t.think = "open" /\ t.text) BY <3>4, <3>5, <4>2 DEF IsOpen
      <4>5. p = Append(y.blocks, [what |-> "text", index |-> y.next, open |-> TRUE])
        BY <4>1 DEF p, BlockIndex, EventsInTurn
      <4> QED BY <1>0, <3>4, <4>2, <4>3, <4>4, <4>5, AddedTidy
    <3>7. Fine(t) BY <3>4, <3>5, <3>6 DEF Fine, EventsInTurn
    <3> QED BY <3>4, <3>7
  <2> QED BY <2>1, <2>2
<1>2. IsOpen(t) BY <1>1 DEF IsOpen
<1> HIDE DEF t
<1>3. /\ Fine(Collected(t, waits))
      /\ \A f \in {"think", "text", "held", "native", "calls", "fed", "late", "lost"} :
            Collected(t, waits)[f] = t[f]
  BY <1>1, <1>2, CollectedFine
<1> QED BY <1>1, <1>3 DEF t

LEMMA CallsFine ==
    ASSUME NEW y, Fine(y), EventsInTurn(y) => ~IsOpen(y)
    PROVE  /\ Fine(Calls(y)) /\ Calls(y).calls = TRUE
           /\ \A f \in {"think", "text", "held", "native", "fed", "late", "lost"} :
                 Calls(y)[f] = y[f]
<1> DEFINE t == Calls(y)
           o == Opened(y, "tool", FALSE)
           p == Append(y.blocks, [what |-> "tool", index |-> BlockIndex(y, "tool"),
                                  open |-> FALSE])
           n == o.next + 1
<1>0. y \in Attempt BY DEF Fine
<1>1. t = [o EXCEPT !.next = n, !.calls = TRUE] BY DEF Calls
<1>2. o \in Attempt /\ o = [y EXCEPT !.blocks = p] BY <1>0, OpenedTyped
<1>3. o.blocks = p /\ o.next = y.next /\ y.next \in Nat
  <2> HIDE DEF p
  <2> QED BY <1>0, <1>2 DEF Attempt
<1> HIDE DEF o, p, t
<1>8. n \in Nat /\ n = y.next + 1 BY <1>3
<1> HIDE DEF n
<1>4. /\ t \in Attempt /\ t.calls = TRUE /\ t.blocks = p
      /\ t.next = n /\ t.pending = y.pending
      /\ \A f \in {"think", "text", "held", "native", "fed", "late", "lost"} : t[f] = y[f]
  BY <1>0, <1>1, <1>2, <1>3, <1>8 DEF Attempt
<1>5. t.think = y.think /\ t.text = y.text /\ t.fed = y.fed /\ t.held = y.held /\ t.late = y.late
  BY <1>4
<1>6. ASSUME EventsInTurn(t) PROVE Tidy(t)
  <2>1. EventsInTurn(y) BY <1>5, <1>6 DEF EventsInTurn
  <2>2. Tidy(y) /\ ~IsOpen(y) /\ ~y.pending BY <2>1 DEF Fine, EventsInTurn, Tidy
  <2>3. ~IsOpen(t) /\ ~(t.think = "open" /\ t.text) BY <1>5, <2>2 DEF IsOpen
  <2>4. p = Append(y.blocks, [what |-> "tool", index |-> y.next, open |-> FALSE])
    BY <2>1 DEF p, BlockIndex, EventsInTurn
  <2> QED BY <1>0, <1>4, <1>8, <2>2, <2>3, <2>4, AddedTidy
<1>7. Fine(t) BY <1>4, <1>5, <1>6 DEF Fine, EventsInTurn
<1> QED BY <1>4, <1>7 DEF t

-----------------------------------------------------------------------------
(* The invariant. *)

BlocksInv ==
    /\ producer \in {"reserving", "open", "ending", "settling", "done"}
    /\ api = "build" => producer \in {"open", "done"}
    /\ Fine(sent)
    /\ adapter = "chat" => ~sent.late
    /\ producer = "open" => ~sent.calls
    /\ EventsInTurn(sent) /\ sent.fed => sent.think # "open"
    /\ EventsInTurn(sent) /\ (sent.calls \/ producer = "settling") => ~IsOpen(sent)

LEMMA FrameFine ==
    ASSUME NEW y, Fine(y), NEW z \in Attempt, Alike(y, z), z.pending = y.pending,
           z.late = y.late, y.fed => z.fed, z.held # "nothing" => z.fed
    PROVE  Fine(z)
  BY AlikeTidy DEF Fine, EventsInTurn, Alike

\* A step that leaves what the client asked for.
LEMMA AfterStep ==
    ASSUME UNCHANGED <<api, adapter>>, Fine(sent'),
           producer' \in {"reserving", "open", "ending", "settling", "done"},
           api = "build" => producer' \in {"open", "done"},
           adapter = "chat" => ~sent'.late,
           producer' = "open" => ~sent'.calls,
           EventsInTurn(sent') /\ sent'.fed => sent'.think # "open",
           EventsInTurn(sent') /\ (sent'.calls \/ producer' = "settling") => ~IsOpen(sent')
    PROVE  BlocksInv'
<1>1. Fine(sent)' BY DEF Fine, Tidy, IsOpen
<1> QED BY <1>1 DEF BlocksInv, EventsInTurn, IsOpen

LEMMA FreshFine ==
    /\ Fine(FreshAttempt) /\ ~FreshAttempt.late /\ ~FreshAttempt.calls /\ ~FreshAttempt.fed
    /\ ~IsOpen(FreshAttempt)
<1> DEFINE none == <<>>
           y == [think |-> "no", text |-> FALSE, next |-> 0, blocks |-> none,
                 pending |-> FALSE, held |-> "nothing", native |-> FALSE, calls |-> FALSE,
                 fed |-> FALSE, late |-> FALSE, lost |-> 0]
<1>1. none \in Seq(Block) /\ Len(none) = 0 BY EmptySeq
<1>2. FreshAttempt = y BY DEF FreshAttempt
<1> HIDE DEF none
<1>3. y \in Attempt BY <1>1 DEF Attempt
<1>4. Tidy(y) /\ ~IsOpen(y) BY <1>1 DEF Tidy, IsOpen
<1> QED BY <1>2, <1>3, <1>4 DEF Fine

LEMMA ThinkKeeps == ASSUME BlocksInv, Think PROVE BlocksInv'
<1>1. PICK waits \in BOOLEAN : sent' = Collected(Thinks(sent), waits) BY DEF Think
<1>2. /\ producer = "open" /\ api # "build" /\ UNCHANGED <<api, adapter, producer>>
      /\ sent.think # "closed" /\ (adapter = "console" \/ ~sent.fed)
  BY DEF Think, Writes, MayThink
<1> DEFINE z == Collected(Thinks(sent), waits)
<1>3. /\ Fine(z) /\ z.think = "open" /\ (z.late => sent.late \/ sent.fed)
      /\ (sent.late => z.late) /\ (sent.think = "no" /\ sent.fed => z.late)
      /\ \A f \in {"text", "held", "native", "calls", "fed", "lost"} : z[f] = sent[f]
  BY <1>2, ThinksFine DEF BlocksInv
<1>4. z.calls = sent.calls /\ z.fed = sent.fed BY <1>3
<1>5. sent' = z BY <1>1
<1>6. sent.think \in {"no", "open", "closed"} /\ sent.late \in BOOLEAN
  BY DEF BlocksInv, Fine, Attempt
<1> HIDE DEF z
<1>7. ~(EventsInTurn(z) /\ z.fed) BY <1>2, <1>3, <1>4, <1>6 DEF BlocksInv, EventsInTurn
<1> QED BY <1>2, <1>3, <1>4, <1>5, <1>7, AfterStep DEF BlocksInv

\* The chunk of text ends the thought before anything else is sent of it.
LEMMA EndsThought ==
    ASSUME BlocksInv, producer = "open", NEW x \in Attempt, Alike(sent, x),
           x.pending = sent.pending, x.late = sent.late, x.calls = sent.calls, x.fed
    PROVE  LET y == EndThought(x) IN
           /\ Fine(y) /\ (EventsInTurn(y) => y.think # "open") /\ (y.late <=> sent.late)
           /\ ~y.calls /\ y.fed
<1>1. Fine(x) BY FrameFine DEF BlocksInv
<1> DEFINE y == EndThought(x)
<1>2. /\ Fine(y) /\ (EventsInTurn(x) => y.think # "open")
      /\ \A f \in {"text", "held", "native", "calls", "fed", "late", "lost"} : y[f] = x[f]
  BY <1>1, EndThoughtFine
<1>3. y.calls = x.calls /\ y.fed = x.fed /\ y.late = x.late BY <1>2
<1> HIDE DEF y
<1>4. EventsInTurn(y) => EventsInTurn(x) BY <1>3 DEF EventsInTurn
<1> QED BY <1>2, <1>3, <1>4 DEF BlocksInv, y

LEMMA TextKeeps == ASSUME BlocksInv, NEW c, Text(c) PROVE BlocksInv'
<1> DEFINE held == HeldAfter(sent, c)
           x == [sent EXCEPT !.fed = TRUE, !.held = held]
           y == EndThought(x)
<1>0. sent \in Attempt BY DEF BlocksInv, Fine
<1>1. held \in {"nothing", "partial", "block"} BY DEF HeldAfter
<1>2. /\ producer = "open" /\ api # "build" /\ UNCHANGED <<api, adapter, producer>>
      /\ \E waits \in BOOLEAN :
            sent' = IF Safe(sent, c) > 0 THEN Collected(Says(y), waits) ELSE y
  BY DEF Text, Writes
<1> HIDE DEF held
<1>3. /\ x \in Attempt /\ Alike(sent, x) /\ x.pending = sent.pending /\ x.late = sent.late
      /\ x.calls = sent.calls /\ x.fed
  BY <1>0, <1>1 DEF Attempt, Alike
<1> HIDE DEF x
<1>4. /\ Fine(y) /\ (EventsInTurn(y) => y.think # "open") /\ (y.late <=> sent.late)
      /\ ~y.calls /\ y.fed
  BY <1>2, <1>3, EndsThought
<1> HIDE DEF y
<1>5. PICK waits \in BOOLEAN : sent' \in {Collected(Says(y), waits), y} BY <1>2
<1>6. /\ Fine(Collected(Says(y), waits))
      /\ \A f \in {"think", "held", "native", "calls", "fed", "late", "lost"} :
            Collected(Says(y), waits)[f] = y[f]
  BY <1>4, SaysFine
<1>7. /\ Fine(sent') /\ sent'.think = y.think /\ sent'.late = y.late /\ sent'.calls = y.calls
  BY <1>4, <1>5, <1>6
<1>8. EventsInTurn(sent') => EventsInTurn(y) BY <1>7 DEF EventsInTurn
<1> QED BY <1>2, <1>4, <1>7, <1>8, AfterStep DEF BlocksInv

\* Before tool calls are sent, what is open is closed, by the messages endpoint.
LEMMA BeforeCallsFine ==
    ASSUME NEW y, Fine(y)
    PROVE  /\ Fine(BeforeCalls(y)) /\ (EventsInTurn(y) => ~IsOpen(BeforeCalls(y)))
           /\ BeforeCalls(y).late = y.late /\ BeforeCalls(y).fed = y.fed
<1> DEFINE e == EndThought(y)
           z == EndText(e)
<1>1. /\ Fine(e) /\ (EventsInTurn(y) => e.think # "open") /\ e.late = y.late /\ e.fed = y.fed
  BY EndThoughtFine
<1> HIDE DEF e
<1>2. /\ Fine(z) /\ z.text = FALSE /\ z.think = e.think /\ z.late = e.late /\ z.fed = e.fed
  BY <1>1, EndTextFine
<1>3. BeforeCalls(y) = IF api = "messages" THEN z ELSE y BY DEF BeforeCalls, e
<1> HIDE DEF z
<1> QED BY <1>1, <1>2, <1>3 DEF EventsInTurn, IsOpen

\* An attempt that ends in calls, of which the sieve may have made none.
LEMMA CallsKeep ==
    ASSUME BlocksInv, NEW y, Fine(y), y.late <=> sent.late, EventsInTurn(y) => ~IsOpen(y),
           sent' \in {Calls(y), [y EXCEPT !.calls = TRUE]}, api # "build",
           producer' = "ending", UNCHANGED <<api, adapter>>
    PROVE  BlocksInv'
<1>0. y \in Attempt BY DEF Fine
<1>1. /\ Fine(sent') /\ sent'.late = y.late /\ sent'.think = y.think /\ sent'.text = y.text
  <2>1. CASE sent' = Calls(y) BY <2>1, CallsFine
  <2>2. CASE sent' = [y EXCEPT !.calls = TRUE]
    <3> DEFINE z == [y EXCEPT !.calls = TRUE]
    <3>1. /\ z \in Attempt /\ Alike(y, z) /\ z.pending = y.pending /\ z.late = y.late
          /\ z.fed = y.fed /\ z.held = y.held
      BY <1>0 DEF Attempt, Alike
    <3> HIDE DEF z
    <3>2. EventsInTurn(y) /\ y.held # "nothing" => y.fed BY DEF Fine, EventsInTurn
    <3>3. Fine(z) BY <3>1, AlikeTidy DEF Fine, EventsInTurn, Alike
    <3> QED BY <2>2, <3>1, <3>3 DEF Alike, z
  <2> QED BY <2>1, <2>2
<1>2. EventsInTurn(sent') => ~IsOpen(sent') /\ sent'.think # "open" BY <1>1 DEF EventsInTurn, IsOpen
<1> QED BY <1>1, <1>2, AfterStep DEF BlocksInv

LEMMA TextCallsKeep == ASSUME BlocksInv, NEW c, TextCalls(c) PROVE BlocksInv'
<1> DEFINE lost == sent.lost + Safe(sent, c)
           x == [sent EXCEPT !.fed = TRUE, !.held = "nothing", !.lost = lost]
           e == EndThought(x)
           y == BeforeCalls(e)
<1>0. sent \in Attempt /\ lost \in Nat BY DEF BlocksInv, Fine, Attempt, Safe
<1>1. /\ producer = "open" /\ api # "build" /\ UNCHANGED <<api, adapter>> /\ producer' = "ending"
      /\ sent' \in {Calls(y), [y EXCEPT !.calls = TRUE]}
  BY DEF TextCalls, Writes
<1> HIDE DEF lost
<1>2. /\ x \in Attempt /\ Alike(sent, x) /\ x.pending = sent.pending /\ x.late = sent.late
      /\ x.calls = sent.calls /\ x.fed
  BY <1>0 DEF Attempt, Alike
<1> HIDE DEF x
<1>3. Fine(e) /\ (e.late <=> sent.late) BY <1>1, <1>2, EndsThought
<1> HIDE DEF e
<1>4. Fine(y) /\ (EventsInTurn(e) => ~IsOpen(y)) /\ y.late = e.late BY <1>3, BeforeCallsFine
<1> HIDE DEF y
<1>5. EventsInTurn(y) => EventsInTurn(e) BY <1>4 DEF EventsInTurn
<1> QED BY <1>1, <1>3, <1>4, <1>5, CallsKeep

LEMMA NativeCallsKeep == ASSUME BlocksInv, NativeCalls PROVE BlocksInv'
<1> DEFINE y == BeforeCalls(sent)
<1>1. /\ producer = "open" /\ api # "build" /\ UNCHANGED <<api, adapter>> /\ producer' = "ending"
      /\ sent' = Calls(y)
  BY DEF NativeCalls, Writes
<1>2. Fine(y) /\ (EventsInTurn(sent) => ~IsOpen(y)) /\ y.late = sent.late
  BY BeforeCallsFine DEF BlocksInv
<1> HIDE DEF y
<1>3. EventsInTurn(y) => EventsInTurn(sent) BY <1>2 DEF EventsInTurn
<1> QED BY <1>1, <1>2, <1>3, CallsKeep

LEMMA StopKeeps == ASSUME BlocksInv, UpstreamStops PROVE BlocksInv'
<1>1. PICK y \in LastThought(sent) :
         \/ sent' = Flushed(y)
         \/ /\ y.held = "block"
            /\ sent' = Calls(IF api = "messages" THEN EndText(Flushed(y)) ELSE Flushed(y))
  BY DEF UpstreamStops
<1>2. /\ producer = "open" /\ api # "build" /\ UNCHANGED <<api, adapter>> /\ producer' = "ending"
  BY DEF UpstreamStops
<1>3. /\ Fine(y) /\ ~y.calls /\ (adapter = "chat" => ~y.late)
      /\ (EventsInTurn(y) /\ y.fed => y.think # "open")
  <2>1. CASE y = sent BY <1>2, <2>1 DEF BlocksInv
  <2>2. ASSUME NEW waits \in BOOLEAN, y = Collected(Thinks(sent), waits), adapter = "summary",
               sent.think # "closed"
        PROVE  /\ Fine(y) /\ ~y.calls /\ (adapter = "chat" => ~y.late)
               /\ (EventsInTurn(y) /\ y.fed => y.think # "open")
    <3>1. /\ Fine(y) /\ y.think = "open" /\ (sent.late => y.late)
          /\ (sent.think = "no" /\ sent.fed => y.late)
          /\ \A f \in {"text", "held", "native", "calls", "fed", "lost"} : y[f] = sent[f]
      BY <2>2, ThinksFine DEF BlocksInv
    <3>2. y.calls = sent.calls /\ y.fed = sent.fed BY <3>1
    <3>3. sent.think \in {"no", "open", "closed"} /\ sent.late \in BOOLEAN
      BY DEF BlocksInv, Fine, Attempt
    <3>4. ~(EventsInTurn(y) /\ y.fed) BY <2>2, <3>1, <3>2, <3>3 DEF BlocksInv, EventsInTurn
    <3> QED BY <1>2, <2>2, <3>1, <3>2, <3>4 DEF BlocksInv
  <2> QED BY <2>1, <2>2 DEF LastThought
<1> DEFINE lost == y.lost + IF y.held = "partial" THEN 1 ELSE 0
           x == [y EXCEPT !.held = "nothing", !.lost = lost]
<1>4. y \in Attempt /\ lost \in Nat BY <1>3 DEF Fine, Attempt
<1>5. Flushed(y) = x BY DEF Flushed
<1> HIDE DEF lost
<1>6. /\ x \in Attempt /\ Alike(y, x) /\ x.pending = y.pending /\ x.late = y.late
      /\ x.calls = y.calls /\ x.fed = y.fed /\ x.held = "nothing"
  BY <1>4 DEF Attempt, Alike
<1> HIDE DEF x
<1>7. Fine(x) BY <1>3, <1>6, FrameFine
<1>8. x.think = y.think /\ (EventsInTurn(x) => EventsInTurn(y)) BY <1>6 DEF Alike, EventsInTurn
<1>9. CASE sent' = x BY <1>2, <1>3, <1>6, <1>7, <1>8, <1>9, AfterStep
<1>10. CASE y.held = "block" /\ sent' = Calls(IF api = "messages" THEN EndText(x) ELSE x)
  <2> DEFINE z == IF api = "messages" THEN EndText(x) ELSE x
  <2>1. Fine(z) /\ z.late = x.late /\ z.think = x.think /\ (api = "messages" => ~z.text)
    BY <1>7, EndTextFine
  <2> HIDE DEF z
  <2>2. EventsInTurn(z) => EventsInTurn(y) BY <1>6, <2>1 DEF EventsInTurn
  <2>3. EventsInTurn(y) => y.fed /\ y.think # "open" BY <1>3, <1>10 DEF Fine, EventsInTurn
  <2>4. EventsInTurn(z) => ~IsOpen(z) BY <1>8, <2>1, <2>2, <2>3 DEF IsOpen, EventsInTurn
  <2>5. sent' = Calls(z) BY <1>10 DEF z
  <2>6. /\ Fine(sent') /\ sent'.late = z.late /\ sent'.think = z.think /\ sent'.text = z.text
    BY <2>1, <2>4, <2>5, CallsFine
  <2>7. EventsInTurn(sent') => ~IsOpen(sent') /\ sent'.think # "open"
    BY <2>4, <2>6 DEF EventsInTurn, IsOpen
  <2> QED BY <1>2, <1>3, <1>6, <2>1, <2>6, <2>7, AfterStep
<1> QED BY <1>1, <1>5, <1>9, <1>10

LEMMA CompleteKeeps == ASSUME BlocksInv, Complete PROVE BlocksInv'
<1>1. /\ producer = "ending" /\ producer' = "settling" /\ UNCHANGED <<api, adapter>>
      /\ sent' = (IF sent.calls THEN sent ELSE Finale(sent)) /\ api # "build"
  BY DEF Complete, BlocksInv
<1>2. CASE sent.calls BY <1>1, <1>2, AfterStep DEF BlocksInv
<1>3. CASE ~sent.calls /\ api = "messages"
  <2> DEFINE z == BeforeCalls(sent)
  <2>1. sent' = z BY <1>1, <1>3 DEF Finale, BeforeCalls
  <2>2. Fine(z) /\ (EventsInTurn(sent) => ~IsOpen(z)) /\ z.late = sent.late
    BY BeforeCallsFine DEF BlocksInv
  <2> HIDE DEF z
  <2>3. EventsInTurn(z) => ~IsOpen(z) /\ z.think # "open" BY <2>2 DEF EventsInTurn, IsOpen
  <2> QED BY <1>1, <2>1, <2>2, <2>3, AfterStep DEF BlocksInv
<1>4. CASE ~sent.calls /\ api # "messages"
  <2> DEFINE s == IF sent.native THEN Says(sent) ELSE sent
             z == EndText(s)
  <2>1. sent' = z BY <1>1, <1>4 DEF Finale
  <2>2. Fine(s) /\ s.late = sent.late
    <3>1. Fine(Says(sent)) /\ Says(sent).late = sent.late
      BY <1>4, SaysFine DEF BlocksInv, EventsInTurn
    <3> QED BY <3>1 DEF BlocksInv
  <2> HIDE DEF s
  <2>3. Fine(z) /\ z.late = s.late BY <2>2, EndTextFine
  <2> HIDE DEF z
  <2>4. ~EventsInTurn(z) BY <1>4 DEF EventsInTurn
  <2> QED BY <1>1, <2>1, <2>2, <2>3, <2>4, AfterStep DEF BlocksInv
<1> QED BY <1>2, <1>3, <1>4

LEMMA BlocksInvHolds == StreamSpec => []BlocksInv
<1>1. ASSUME StreamInit PROVE BlocksInv
  <2>1. /\ sent = FreshAttempt /\ producer \in {"open", "reserving"}
        /\ api = "build" => producer = "open"
    BY <1>1 DEF StreamInit
  <2> QED BY <2>1, FreshFine DEF BlocksInv
<1>2. BlocksInv /\ [StreamNext]_streamVars => BlocksInv'
  <2> SUFFICES ASSUME BlocksInv, [StreamNext]_streamVars PROVE BlocksInv' OBVIOUS
  <2>1. ASSUME UNCHANGED <<api, adapter, sent>>, producer' \in {producer, "done"} PROVE BlocksInv'
    BY <2>1, AfterStep DEF BlocksInv
  <2>2. CASE UNCHANGED streamVars BY <2>1, <2>2 DEF streamVars
  <2>3. CASE Reserve
    <3>1. /\ UNCHANGED <<api, adapter>> /\ sent' = FreshAttempt /\ producer' = "open"
          /\ api # "build"
      BY <2>3 DEF Reserve, BlocksInv
    <3> QED BY <3>1, FreshFine, AfterStep
  <2>4. CASE KeepText
    <3> DEFINE z == [sent EXCEPT !.native = TRUE, !.fed = TRUE]
    <3>1. /\ UNCHANGED <<api, adapter, producer>> /\ sent' = z /\ api = "responses"
          /\ producer = "open"
      BY <2>4 DEF KeepText, Writes
    <3>2. /\ z \in Attempt /\ z.late = sent.late /\ z.think = sent.think /\ z.calls = sent.calls
      BY DEF BlocksInv, Fine, Attempt
    <3> HIDE DEF z
    <3>3. Fine(z) /\ ~EventsInTurn(z) BY <3>1, <3>2 DEF BlocksInv, Fine, EventsInTurn
    <3> QED BY <3>1, <3>2, <3>3, AfterStep DEF BlocksInv
  <2>5. CASE Retry
    <3>1. /\ UNCHANGED <<api, adapter, sent>> /\ producer = "open" /\ producer' = "reserving"
          /\ api # "build"
      BY <2>5 DEF Retry
    <3> QED BY <3>1, AfterStep DEF BlocksInv
  <2>6. CASE NoneAvailable \/ SettleAttempt \/ AttemptRaises \/ EndOfStream
    BY <2>1, <2>6 DEF NoneAvailable, SettleAttempt, AttemptRaises, EndOfStream, EndsStream
  <2>7. CASE (\E c \in {"event", "terminal", "head", "tail"} : PassOn(c)) \/ Take \/ StreamOver
             \/ Leave
    BY <2>1, <2>7 DEF PassOn, Take, StreamOver, Leave
  <2> QED BY <2>2, <2>3, <2>4, <2>5, <2>6, <2>7, ThinkKeeps, TextKeeps, TextCallsKeep,
             NativeCallsKeep, StopKeeps, CompleteKeeps
          DEF StreamNext
<1> QED BY <1>1, <1>2, PTL DEF StreamSpec

\* The messages endpoint opens one block at a time, numbers them without a gap and closes
\* each with all of its text, whatever chunks, tags, calls and retries come, unless the
\* first thought of the attempt came after text; and from grok.com's detailed adapter it
\* never does.
THEOREM BlocksInTurnHolds == StreamSpec => []BlocksInTurn
<1>1. ASSUME BlocksInv PROVE BlocksInTurn
  <2> SUFFICES ASSUME api = "messages", adapter = "chat" \/ ~sent.late
               PROVE  /\ \A k \in DOMAIN sent.blocks :
                            /\ sent.blocks[k].index = k - 1
                            /\ sent.blocks[k].open => k = Len(sent.blocks)
                      /\ producer = "settling" =>
                            /\ ~sent.pending
                            /\ \A k \in DOMAIN sent.blocks : ~sent.blocks[k].open
    BY DEF BlocksInTurn
  <2>1. EventsInTurn(sent) /\ Tidy(sent) BY <1>1 DEF BlocksInv, EventsInTurn, Fine
  <2>2. DOMAIN sent.blocks = 1..Len(sent.blocks) BY <1>1 DEF BlocksInv, Fine, Attempt
  <2>3. producer = "settling" => ~IsOpen(sent) BY <1>1, <2>1 DEF BlocksInv
  <2> QED BY <2>1, <2>2, <2>3 DEF Tidy
<1> QED BY <1>1, BlocksInvHolds, PTL

-----------------------------------------------------------------------------
CountersTyped ==
    /\ tools \in {"none", "local", "native"} /\ adapter \in {"chat", "summary", "console"}
    /\ attempt \in 0..MaxRetries /\ leased \in BOOLEAN /\ heard \in 0..MaxEvents

\* The types of the generator, what it has sent and the outbox: attempts and what the
\* upstream says in one stay within their limits.
THEOREM StreamTypes == StreamSpec => []StreamTypeOK
<1>1. StreamInit => CountersTyped
  <2>1. 0 \in 0..MaxRetries /\ 0 \in 0..MaxEvents BY StreamAssumption
  <2>2. StreamInit => /\ attempt = 0 /\ leased = FALSE /\ heard = 0
                      /\ tools \in {"none", "local", "native"}
                      /\ adapter \in {"chat", "summary", "console"}
    BY DEF StreamInit
  <2> QED BY <2>1, <2>2 DEF CountersTyped
<1>2. CountersTyped /\ [StreamNext]_streamVars => CountersTyped'
  <2> SUFFICES ASSUME CountersTyped, [StreamNext]_streamVars PROVE CountersTyped' OBVIOUS
  <2>1. UNCHANGED <<tools, adapter>>
    BY DEF StreamNext, Reserve, NoneAvailable, Think, KeepText, NativeCalls, UpstreamStops,
           Complete, Text, TextCalls, SettleAttempt, Retry, AttemptRaises, EndOfStream, PassOn,
           Take, StreamOver, Leave, streamVars
  <2>2. attempt' = attempt \/ (attempt < MaxRetries /\ attempt' = attempt + 1)
    BY DEF StreamNext, Reserve, NoneAvailable, Think, KeepText, NativeCalls, UpstreamStops,
           Complete, Text, TextCalls, SettleAttempt, Retry, AttemptRaises, EndOfStream, PassOn,
           Take, StreamOver, Leave, streamVars
  <2>3. leased' = leased \/ leased' \in BOOLEAN
    BY DEF StreamNext, Reserve, NoneAvailable, Think, KeepText, NativeCalls, UpstreamStops,
           Complete, Text, TextCalls, SettleAttempt, Retry, AttemptRaises, EndOfStream, PassOn,
           Take, StreamOver, Leave, EndsStream, streamVars
  <2>4. heard' = heard \/ heard' = 0 \/ (heard < MaxEvents /\ heard' = heard + 1)
    BY DEF StreamNext, Reserve, NoneAvailable, Think, KeepText, NativeCalls, UpstreamStops,
           Complete, Text, TextCalls, SettleAttempt, Retry, AttemptRaises, EndOfStream, PassOn,
           Take, StreamOver, Leave, EndsStream, Writes, Hears, streamVars
  <2> QED BY <2>1, <2>2, <2>3, <2>4, StreamAssumption DEF CountersTyped
<1>3. CountersTyped /\ EndingInv /\ BlocksInv => StreamTypeOK
  BY DEF CountersTyped, EndingInv, OutboxShape, BlocksInv, Fine, StreamTypeOK
<1> QED BY <1>1, <1>2, <1>3, EndingInvHolds, BlocksInvHolds, PTL DEF StreamSpec

-----------------------------------------------------------------------------
(*****************************************************************************)
(* The accounts of ChatGPT.                                                  *)
(*****************************************************************************)

\* A patch reaches only a record that is there; what it writes is a record, and it leaves
\* the account inactive that was inactive.
GptInv ==
    /\ record = [a \in DOMAIN record |-> record[a]]
    /\ \A a \in DOMAIN record : record[a] \in Record
    /\ valid \subseteq Token
    /\ DOMAIN task = Task
    /\ ActiveOnlyWhileAdded

\* The additions under way go on, or are given up to halfAdded.
AddsKept ==
    /\ DOMAIN task' = Task /\ valid' \subseteq Token
    /\ halfAdded \subseteq halfAdded'
    /\ \A k \in Task : task[k].op = "add" =>
           task'[k] = task[k] \/ task[k].account \in halfAdded'

LEMMA RecordsKept == ASSUME GptInv, AddsKept,
                            record' = [a \in DOMAIN record |-> record'[a]],
                            \A a \in DOMAIN record : /\ record'[a] \in Record
                                                     /\ record'[a].active => record[a].active
                     PROVE  GptInv'
<1>1. DOMAIN record' = DOMAIN record
  OBVIOUS
<1>2. ActiveOnlyWhileAdded'
  <2> SUFFICES ASSUME NEW a \in DOMAIN record, record'[a].active,
                      a \notin halfAdded'
               PROVE  \E k \in Task : task'[k].op = "add" /\ task'[k].account = a
    BY <1>1 DEF ActiveOnlyWhileAdded
  <2>1. PICK k \in Task : task[k].op = "add" /\ task[k].account = a
    BY DEF GptInv, ActiveOnlyWhileAdded, AddsKept
  <2> QED
    BY <2>1 DEF AddsKept
<1> QED
  BY <1>1, <1>2 DEF GptInv, AddsKept

LEMMA PatchKeeps == ASSUME GptInv, AddsKept, NEW a, NEW rec, Patch(a, rec),
                           a \in DOMAIN record => rec \in Record /\ (rec.active => record[a].active)
                    PROVE  GptInv'
<1>1. /\ record' = [b \in DOMAIN record |-> record'[b]]
      /\ \A b \in DOMAIN record : record'[b] = IF b = a THEN rec ELSE record[b]
  BY DEF Patch
<1> QED
  BY <1>1, RecordsKept DEF GptInv

LEMMA SameRecords == ASSUME GptInv, AddsKept, record' = record PROVE GptInv'
  BY RecordsKept DEF GptInv

-----------------------------------------------------------------------------
\* What the patches write.
LEMMA FailureTypes == Failures \subseteq Status
  BY DEF Failures, Status

LEMMA PatchTypes ==
    ASSUME NEW rec \in Record, NEW t \in Token \cup {NoToken}, NEW e \in Failures
    PROVE  /\ Succeeded(rec, t) \in Record /\ Succeeded(rec, t).active = rec.active
           /\ Failed(rec, e) \in Record /\ Failed(rec, e).active = rec.active
           /\ LoginFailed(rec) \in Record /\ LoginFailed(rec).active = rec.active
<1>1. Succeeded(rec, t) \in Record /\ Succeeded(rec, t).active = rec.active
  BY DEF Succeeded, Record, Status
<1>2. e \in Status /\ CoolsDown(e) \in BOOLEAN /\ (e = "timeout") \in BOOLEAN
      /\ (rec.cooling \/ CoolsDown(e)) \in BOOLEAN
  BY FailureTypes DEF CoolsDown
<1>3. Failed(rec, e) \in Record /\ Failed(rec, e).active = rec.active
  <2> HIDE DEF Status
  <2>1. ASSUME NEW c \in BOOLEAN, NEW d \in BOOLEAN, NEW m \in BOOLEAN, NEW f \in Status
        PROVE  LET q == [rec EXCEPT !.status = f, !.cooling = c, !.recent = d, !.marked = m]
               IN  q \in Record /\ q.active = rec.active
    BY DEF Record
  <2> QED
    BY <1>2, <2>1 DEF Failed
<1>4. LoginFailed(rec) \in Record /\ LoginFailed(rec).active = rec.active
  BY DEF LoginFailed, Record, Status
<1> QED
  BY <1>1, <1>3, <1>4

LEMMA TestedTypes ==
    ASSUME NEW rec \in Record, NEW t \in Token \cup {NoToken}, NEW e \in Failures \cup {"ok"}
    PROVE  Tested(rec, t, e) \in Record /\ Tested(rec, t, e).active = rec.active
<1>1. [rec EXCEPT !.token = t] \in Record /\ [rec EXCEPT !.token = t].active = rec.active
  BY DEF Record
<1>2. CASE e = "ok"
  BY <1>2, PatchTypes DEF Tested, Failures
<1>3. CASE e # "ok"
  BY <1>1, <1>3, PatchTypes DEF Tested
<1> QED
  BY <1>2, <1>3

-----------------------------------------------------------------------------
\* The image requests.
LEMMA SameTasks == ASSUME GptInv, task' = task, halfAdded' = halfAdded, valid' = valid
                   PROVE  AddsKept
  BY DEF GptInv, AddsKept

LEMMA TaskEnds == ASSUME GptInv, NEW k \in Task, task' = [task EXCEPT ![k] = NoJob],
                         task[k].op # "add", halfAdded' = halfAdded, valid' = valid
                  PROVE  AddsKept
<1>1. /\ DOMAIN task' = Task
      /\ \A j \in Task : j # k => task'[j] = task[j]
  BY DEF GptInv
<1> QED
  BY <1>1 DEF GptInv, AddsKept

LEMMA ImageKeeps == ASSUME GptInv, NEW r \in Request, ImageStep(r) PROVE GptInv'
<1>1. CASE List(r) \/ Listed(r) \/ Ask(r) \/ Stop(r)
  BY <1>1, SameRecords, SameTasks DEF List, Listed, Ask, Stop
<1>2. CASE LoginForList(r)
  <2>1. PICK a \in image[r].logins :
          \/ \E t \in valid :
                Patch(a, [record[a] EXCEPT !.token = t, !.status = "available", !.waited = TRUE])
          \/ Patch(a, LoginFailed(record[a]))
    BY <1>2 DEF LoginForList
  <2>2. AddsKept
    BY <1>2, SameTasks DEF LoginForList
  <2>3. CASE Patch(a, LoginFailed(record[a]))
    BY <2>2, <2>3, PatchKeeps, PatchTypes DEF GptInv, Failures
  <2>4. ASSUME NEW t \in valid,
               Patch(a, [record[a] EXCEPT !.token = t, !.status = "available", !.waited = TRUE])
        PROVE  GptInv'
    <3> DEFINE rec == [record[a] EXCEPT !.token = t, !.status = "available", !.waited = TRUE]
    <3>1. a \in DOMAIN record => rec \in Record /\ rec.active = record[a].active
      BY DEF GptInv, Record, Status
    <3>2. Patch(a, rec)
      BY <2>4
    <3> HIDE DEF rec
    <3> QED
      BY <2>2, <3>1, <3>2, PatchKeeps
  <2> QED
    BY <2>1, <2>3, <2>4
<1>3. CASE Generate(r)
  <2> DEFINE a == Chosen(r)[1]
  <2>1. AddsKept
    BY <1>3, SameTasks DEF Generate
  <2>2. CASE a \in DOMAIN record
    <3>1. Patch(a, Succeeded(record[a], record[a].token))
      BY <1>3, <2>2 DEF Generate
    <3>2. record[a] \in Record /\ record[a].token \in Token \cup {NoToken}
      BY <2>2 DEF GptInv, Record
    <3>3. /\ Succeeded(record[a], record[a].token) \in Record
          /\ Succeeded(record[a], record[a].token).active = record[a].active
      BY <3>2, PatchTypes DEF Failures
    <3> HIDE DEF a
    <3> QED
      BY <2>1, <3>1, <3>3, PatchKeeps
  <2>3. CASE a \notin DOMAIN record
    BY <1>3, <2>1, <2>3, SameRecords DEF Generate
  <2> QED
    BY <2>2, <2>3
<1>4. CASE AttemptFails(r)
  <2> DEFINE a == Chosen(r)[1]
  <2>1. AddsKept
    BY <1>4, SameTasks DEF AttemptFails
  <2>2. PICK e \in Failures : \/ a \in DOMAIN record /\ Patch(a, Failed(record[a], e))
                              \/ UNCHANGED record
    BY <1>4 DEF AttemptFails
  <2> HIDE DEF a
  <2>3. CASE a \in DOMAIN record /\ Patch(a, Failed(record[a], e))
    <3>1. Failed(record[a], e) \in Record /\ Failed(record[a], e).active = record[a].active
      BY <2>3, PatchTypes, NoToken \in Token \cup {NoToken} DEF GptInv
    <3> QED
      BY <2>1, <2>3, <3>1, PatchKeeps
  <2> QED
    BY <2>1, <2>2, <2>3, SameRecords
<1> QED
  BY <1>1, <1>2, <1>3, <1>4 DEF ImageStep

-----------------------------------------------------------------------------
\* The administrator's operations.
LEMMA AddKeeps == ASSUME GptInv, NEW k \in Task, NEW a \in GptAccount,
                         NEW t \in Token \cup {NoToken}, Add(k, a, t)
                  PROVE  GptInv'
<1>1. /\ DOMAIN record' = DOMAIN record \cup {a}
      /\ \A b \in DOMAIN record' : record'[b] = IF b = a THEN Upserted(t) ELSE record[b]
      /\ record' = [b \in DOMAIN record' |-> record'[b]]
  BY DEF Add
<1>2. /\ DOMAIN task' = Task
      /\ task'[k] = [op |-> "add", account |-> a, token |-> t]
      /\ \A j \in Task : j # k => task'[j] = task[j]
      /\ task[k].op = "none" /\ halfAdded' = halfAdded /\ valid' = valid
  BY DEF Add, GptInv
<1>3. Upserted(t) \in Record
  BY DEF Upserted, Fresh, Record, Status
<1>4. ActiveOnlyWhileAdded'
  <2> SUFFICES ASSUME NEW b \in DOMAIN record', record'[b].active, b \notin halfAdded'
               PROVE  \E j \in Task : task'[j].op = "add" /\ task'[j].account = b
    BY DEF ActiveOnlyWhileAdded
  <2>1. CASE b = a
    BY <1>2, <2>1
  <2>2. CASE b # a
    <3>1. PICK j \in Task : task[j].op = "add" /\ task[j].account = b
      BY <1>1, <1>2, <2>2 DEF GptInv, ActiveOnlyWhileAdded
    <3> QED
      BY <1>2, <3>1
  <2> QED
    BY <2>1, <2>2
<1> QED
  BY <1>1, <1>2, <1>3, <1>4 DEF GptInv

LEMMA AddDisablesKeeps == ASSUME GptInv, NEW k \in Task, AddDisables(k) PROVE GptInv'
<1> DEFINE a == task[k].account
<1>1. /\ record' = [b \in DOMAIN record |-> record'[b]]
      /\ \A b \in DOMAIN record :
            record'[b] = IF b = a THEN Disabled(record[a]) ELSE record[b]
      /\ halfAdded' = halfAdded \ {a} /\ valid' = valid
      /\ DOMAIN task' = Task
      /\ \A j \in Task : j # k => task'[j] = task[j]
  BY DEF AddDisables, Patch, GptInv
<1>2. a \in DOMAIN record => Disabled(record[a]) \in Record /\ ~Disabled(record[a]).active
  BY DEF Disabled, GptInv, Record
<1> HIDE DEF a
<1>3. ActiveOnlyWhileAdded'
  <2> SUFFICES ASSUME NEW b \in DOMAIN record, record'[b].active, b \notin halfAdded'
               PROVE  \E j \in Task : task'[j].op = "add" /\ task'[j].account = b
    BY <1>1 DEF ActiveOnlyWhileAdded
  <2>1. b # a
    BY <1>1, <1>2
  <2>2. PICK j \in Task : task[j].op = "add" /\ task[j].account = b
    BY <1>1, <2>1 DEF GptInv, ActiveOnlyWhileAdded
  <2>3. j # k
    BY <2>1, <2>2 DEF a
  <2> QED
    BY <1>1, <2>2, <2>3
<1>4. \A b \in DOMAIN record : record'[b] \in Record
  BY <1>1, <1>2 DEF GptInv
<1>5. DOMAIN record' = DOMAIN record
  BY <1>1
<1> QED
  BY <1>1, <1>3, <1>4, <1>5 DEF GptInv

LEMMA AddBreaksOffKeeps == ASSUME GptInv, NEW k \in Task, AddBreaksOff(k) PROVE GptInv'
<1>1. /\ DOMAIN task' = Task
      /\ \A j \in Task : j # k => task'[j] = task[j]
      /\ halfAdded' = halfAdded \cup {task[k].account} /\ valid' = valid /\ record' = record
  BY DEF AddBreaksOff, GptInv
<1>2. AddsKept
  BY <1>1 DEF AddsKept, GptInv
<1> QED
  BY <1>1, <1>2, SameRecords

LEMMA BeginKeeps == ASSUME GptInv, NEW k \in Task, NEW a, NEW op, Begin(k, op, a)
                    PROVE  GptInv'
<1>1. /\ DOMAIN task' = Task
      /\ \A j \in Task : j # k => task'[j] = task[j]
      /\ task[k].op = "none" /\ halfAdded' = halfAdded /\ valid' = valid /\ record' = record
  BY DEF Begin, GptInv
<1>2. AddsKept
  BY <1>1 DEF AddsKept, GptInv
<1> QED
  BY <1>1, <1>2, SameRecords

LEMMA TestKeeps == ASSUME GptInv, NEW k \in Task, TestEnds(k) PROVE GptInv'
<1> DEFINE a == task[k].account
<1>1. AddsKept
  BY TaskEnds DEF TestEnds
<1>2. a \in DOMAIN record => record[a] \in Record /\ record[a].token \in Token \cup {NoToken}
  BY DEF GptInv, Record
<1>3. \/ \E e \in Failures \cup {"ok"} : Patch(a, Tested(record[a], record[a].token, e))
      \/ \E t \in valid, e \in Failures \cup {"ok"} : Patch(a, Tested(record[a], t, e))
      \/ Patch(a, LoginFailed(record[a]))
      \/ Patch(a, [record[a] EXCEPT !.status = "login_required", !.recent = FALSE, !.marked = FALSE])
  BY DEF TestEnds
<1> HIDE DEF a
<1>4. ASSUME NEW t, a \in DOMAIN record => t \in Token \cup {NoToken},
             NEW e \in Failures \cup {"ok"}, Patch(a, Tested(record[a], t, e))
      PROVE  GptInv'
  <2>1. a \in DOMAIN record => /\ Tested(record[a], t, e) \in Record
                               /\ Tested(record[a], t, e).active = record[a].active
    BY <1>2, <1>4, TestedTypes
  <2> QED
    BY <1>1, <1>4, <2>1, PatchKeeps
<1>5. CASE Patch(a, LoginFailed(record[a]))
  <2>1. a \in DOMAIN record => /\ LoginFailed(record[a]) \in Record
                               /\ LoginFailed(record[a]).active = record[a].active
    BY <1>2, PatchTypes DEF Failures
  <2> QED
    BY <1>1, <1>5, <2>1, PatchKeeps
<1>6. CASE Patch(a, [record[a] EXCEPT !.status = "login_required", !.recent = FALSE,
                                      !.marked = FALSE])
  <2> DEFINE rec == [record[a] EXCEPT !.status = "login_required", !.recent = FALSE,
                                      !.marked = FALSE]
  <2>1. a \in DOMAIN record => rec \in Record /\ rec.active = record[a].active
    BY <1>2 DEF Record, Status
  <2>2. Patch(a, rec)
    BY <1>6
  <2> HIDE DEF rec
  <2> QED
    BY <1>1, <2>1, <2>2, PatchKeeps
<1> QED
  BY <1>2, <1>3, <1>4, <1>5, <1>6 DEF GptInv

LEMMA LoginKeeps == ASSUME GptInv, NEW k \in Task, LoginEnds(k) PROVE GptInv'
<1> DEFINE a == task[k].account
<1>1. AddsKept
  BY TaskEnds DEF LoginEnds
<1>2. ASSUME NEW t \in valid,
             Patch(a, Disabled([record[a] EXCEPT !.token = t, !.status = "available"]))
      PROVE  GptInv'
  <2> DEFINE rec == Disabled([record[a] EXCEPT !.token = t, !.status = "available"])
  <2>1. ASSUME a \in DOMAIN record PROVE rec \in Record /\ rec.active = FALSE
    <3>1. record[a] \in Record /\ t \in Token
      BY <2>1 DEF GptInv
    <3> HIDE DEF a
    <3> QED
      BY <3>1 DEF Disabled, Record, Status
  <2>2. Patch(a, rec)
    BY <1>2
  <2> HIDE DEF rec, a
  <2> QED
    BY <1>1, <2>1, <2>2, PatchKeeps
<1> QED
  BY <1>1, <1>2, SameRecords DEF LoginEnds

LEMMA DeleteTickKeep == ASSUME GptInv, NEW a, Delete(a) \/ Tick(a) PROVE GptInv'
<1> DEFINE rec == IF Delete(a) THEN [record[a] EXCEPT !.deleted = TRUE]
                  ELSE [record[a] EXCEPT !.cooling = FALSE, !.recent = FALSE, !.waited = FALSE]
<1>1. AddsKept
  BY SameTasks DEF Delete, Tick
<1>2. a \in DOMAIN record => rec \in Record /\ rec.active = record[a].active
  BY DEF GptInv, Record
<1>3. Patch(a, rec)
  BY DEF Delete, Tick, Patch
<1> HIDE DEF rec
<1> QED
  BY <1>1, <1>2, <1>3, PatchKeeps

-----------------------------------------------------------------------------
\* The loops of the leader.
LEMMA LoopsKeep == ASSUME GptInv, Loops PROVE GptInv'
<1>1. AddsKept
  BY SameTasks DEF Loops, ListStale, RefreshRemote, FindTimedOut, Repair
<1>2. CASE ListStale \/ FindTimedOut
  BY <1>1, <1>2, SameRecords DEF ListStale, FindTimedOut
<1>3. CASE RefreshRemote
  <2>1. PICK x \in loop :
          \/ Patch(x[1], [record[x[1]] EXCEPT !.status = "available"])
          \/ Patch(x[1], [record[x[1]] EXCEPT !.status = "invalid", !.recent = FALSE,
                                              !.marked = FALSE])
          \/ Patch(x[1], [record[x[1]] EXCEPT !.recent = FALSE])
    BY <1>3 DEF RefreshRemote
  <2> DEFINE a    == x[1]
             ok   == [record[a] EXCEPT !.status = "available"]
             bad  == [record[a] EXCEPT !.status = "invalid", !.recent = FALSE, !.marked = FALSE]
             none == [record[a] EXCEPT !.recent = FALSE]
  <2>2. ASSUME a \in DOMAIN record
        PROVE  /\ ok \in Record /\ ok.active = record[a].active
               /\ bad \in Record /\ bad.active = record[a].active
               /\ none \in Record /\ none.active = record[a].active
    <3>1. record[a] \in Record
      BY <2>2 DEF GptInv
    <3> HIDE DEF a
    <3>2. ok \in Record /\ ok.active = record[a].active
      BY <3>1 DEF Record, Status
    <3>3. bad \in Record /\ bad.active = record[a].active
      BY <3>1 DEF Record, Status
    <3>4. none \in Record /\ none.active = record[a].active
      BY <3>1 DEF Record
    <3> QED
      BY <3>2, <3>3, <3>4
  <2>3. Patch(a, ok) \/ Patch(a, bad) \/ Patch(a, none)
    BY <2>1
  <2> HIDE DEF ok, bad, none, a
  <2> QED
    BY <1>1, <2>2, <2>3, PatchKeeps
<1>4. CASE Repair
  <2>1. ASSUME NEW a \in DOMAIN record
        PROVE  record'[a] \in Record /\ record'[a].active = record[a].active
    <3>1. record[a] \in Record
      BY DEF GptInv
    <3>2. ASSUME NEW s \in {"available", "login_required"}
          PROVE  LET q == [record[a] EXCEPT !.status = s, !.cooling = FALSE, !.recent = FALSE,
                                            !.marked = FALSE]
                 IN  q \in Record /\ q.active = record[a].active
      BY <3>1 DEF Record, Status
    <3> QED
      BY <1>4, <3>1, <3>2 DEF Repair
  <2>2. record' = [a \in DOMAIN record |-> record'[a]]
    BY <1>4 DEF Repair
  <2> QED
    BY <1>1, <2>1, <2>2, RecordsKept
<1> QED
  BY <1>2, <1>3, <1>4 DEF Loops

-----------------------------------------------------------------------------
LEMMA GptInitInv == GptInit => GptInv
<1> SUFFICES ASSUME GptInit PROVE GptInv
  OBVIOUS
<1>1. PICK S \in SUBSET GptAccount : \E t \in [S -> Token \cup {NoToken}] :
          record = [a \in S |-> Fresh(t[a])]
  BY DEF GptInit
<1>2. PICK t \in [S -> Token \cup {NoToken}] : record = [a \in S |-> Fresh(t[a])]
  BY <1>1
<1>3. \A u \in Token \cup {NoToken} : Fresh(u) \in Record /\ ~Fresh(u).active
  BY DEF Fresh, Record, Status
<1>4. DOMAIN record = S /\ \A a \in S : record[a] \in Record /\ ~record[a].active
  BY <1>2, <1>3
<1>5. record = [a \in DOMAIN record |-> record[a]]
  BY <1>2
<1> QED
  BY <1>4, <1>5 DEF GptInit, GptInv, ActiveOnlyWhileAdded

LEMMA GptStepInv == GptInv /\ [GptNext]_gptVars => GptInv'
<1> SUFFICES ASSUME GptInv, [GptNext]_gptVars PROVE GptInv'
  OBVIOUS
<1>1. CASE \E r \in Request : ImageStep(r)
  BY <1>1, ImageKeeps
<1>2. ASSUME NEW k \in Task,
             \/ TaskStep(k) \/ AddBreaksOff(k)
             \/ \E a \in GptAccount, t \in Token \cup {NoToken} : Add(k, a, t)
             \/ \E a \in GptAccount, op \in {"test", "login"} : Begin(k, op, a)
      PROVE  GptInv'
  BY <1>2, AddKeeps, AddDisablesKeeps, AddBreaksOffKeeps, BeginKeeps, TestKeeps, LoginKeeps
     DEF TaskStep
<1>3. CASE Loops
  BY <1>3, LoopsKeep
<1>4. CASE \E a \in GptAccount : Delete(a) \/ Tick(a)
  BY <1>4, DeleteTickKeep
<1>5. CASE \E t \in Token : Revoke(t)
  <2>1. AddsKept
    BY <1>5 DEF Revoke, GptInv, AddsKept
  <2> QED
    BY <1>5, <2>1, SameRecords DEF Revoke
<1>6. CASE UNCHANGED gptVars
  BY <1>6, SameTasks, SameRecords DEF gptVars
<1> QED
  BY <1>1, <1>2, <1>3, <1>4, <1>5, <1>6 DEF GptNext

\* Whatever tests, logins, refreshes, repairs and image requests are under way at the same
\* time, a record of a ChatGPT account is active, and so among those the Grok pool takes its
\* accounts from, only while it is being added or because its addition broke off
\* (add_gpt_accounts upserts the record and then disables it in a patch of its own).
THEOREM ActiveOnlyWhileAddedHolds == GptSpec => []ActiveOnlyWhileAdded
<1>1. GptInv => ActiveOnlyWhileAdded
  BY DEF GptInv
<1> QED
  BY <1>1, GptInitInv, GptStepInv, PTL DEF GptSpec
=============================================================================
