----------------------------- MODULE ImagineSession -----------------------------
(***************************************************************************)
(* A web socket of the Web UI that draws images (products/web/webui/       *)
(* imagine.py): the handler reads messages, and a task of its own runs     *)
(* what was started last.  A run reserves an account, has the upstream     *)
(* draw rounds of images over a web socket of its own (dataplane/reverse/  *)
(* transport/imagine_ws.py) until it has as many as were asked for, and    *)
(* tries another account when that fails.  To stop it the handler sets an  *)
(* event, cancels the task, waits for it and clears the event.             *)
(*                                                                         *)
(* Which accounts others leave, and what the upstream sends, is open.      *)
(* Progress reports are left out.                                          *)
(***************************************************************************)
EXTENDS Naturals, FiniteSets

CONSTANTS
    Account, NoAccount,
    Slot,         \* images the upstream draws in a round
    Count,        \* images asked for
    Quota,        \* the user's images of a day, or 0 for no limit
    MaxAttempts,  \* image.max_retries + 1
    MaxRuns       \* bound: runs started

Run == 1..MaxRuns

ASSUME SessionAssumption ==
    /\ IsFiniteSet(Account) /\ NoAccount \notin Account /\ IsFiniteSet(Slot)
    /\ Count \in Nat \ {0} /\ Quota \in Nat /\ MaxAttempts \in Nat \ {0}
    /\ MaxRuns \in Nat

VARIABLES
    handler,   \* "receive", "ended", or what it stops the last run for
    stop,      \* stop_event
    spent,     \* the day's images counted against the user
    run,       \* the runs
    last,      \* run_task: the run started last
    inflight,  \* the directory's in-flight counts, as far as this socket's
    verdicts   \* what became of attempts, and how their accounts were judged

session     == <<handler, stop, spent, last>>
sessionVars == <<handler, stop, spent, run, last, inflight, verdicts>>

\* A slot is unknown, started, has an image, or is done.
RunState == [pc : {"none", "greeting", "choosing", "connecting", "round", "telling",
                   "ending", "over", "raised"},
             account : Account \cup {NoAccount}, excluded : SUBSET Account,
             attempt : 1..MaxAttempts, cancelled : BOOLEAN,
             slot : [Slot -> {"", "started", "image", "done"}],
             collected : Nat, shown : BOOLEAN]

SessionTypeOK ==
    /\ handler \in {"receive", "start", "stop", "leave", "ended"} /\ stop \in BOOLEAN
    /\ spent \in 0..Quota /\ run \in [Run -> RunState] /\ last \in 0..MaxRuns
    /\ inflight \in [Account -> Nat]
    /\ verdicts \subseteq {"shown", "failed", "stopped"} \X {"well", "ill"}

NoSlots == [s \in Slot |-> ""]
NoRun   == [pc |-> "none", account |-> NoAccount, excluded |-> {}, attempt |-> 1,
            cancelled |-> FALSE, slot |-> NoSlots, collected |-> 0,
            shown |-> FALSE]

SessionInit ==
    /\ handler = "receive" /\ stop = FALSE /\ spent = 0
    /\ run = [i \in Run |-> NoRun] /\ last = 0
    /\ inflight = [a \in Account |-> 0] /\ verdicts = {}

Over(i) == run[i].pc \in {"over", "raised"}

-----------------------------------------------------------------------------
\* A message is received, or the client has left.  consume_user_quota counts the
\* images of a run that is started before the one there is gets stopped.
Consumed(n) == IF Quota = 0 THEN spent' = spent
               ELSE spent + n <= Quota /\ spent' = spent + n

\* _stop_run, in two steps: set the event and cancel the last run, ...
Receive(why) ==
    /\ handler = "receive" /\ handler' = why /\ stop' = TRUE
    /\ IF why = "start" THEN last < MaxRuns /\ Consumed(Count) ELSE spent' = spent
    /\ run' = [i \in Run |-> IF i = last /\ ~Over(i) THEN [run[i] EXCEPT !.cancelled = TRUE]
                             ELSE run[i]]
    /\ UNCHANGED <<last, inflight, verdicts>>

\* ... and once it has ended, clear the event and go on.  A run that was cancelled
\* before it was under way ends the handler with it.
Unawaited(i) == TRUE
Awaited(i) == Over(i)
StopReturns ==
    /\ handler \in {"start", "stop", "leave"} /\ \A i \in Run : i = last => Awaited(i)
    /\ stop' = FALSE
    /\ IF handler = "leave" \/ \E i \in Run : i = last /\ run[i].pc = "raised"
       THEN handler' = "ended" /\ UNCHANGED <<run, last>>
       ELSE /\ handler' = "receive"
            /\ IF handler = "start"
               THEN last' = last + 1 /\ run' = [run EXCEPT ![last + 1].pc = "greeting"]
               ELSE UNCHANGED <<run, last>>
    /\ UNCHANGED <<spent, inflight, verdicts>>

-----------------------------------------------------------------------------
\* A run goes on where it waited, unless it has been cancelled there.
WaitsAt(i, pc) == run[i].pc = pc /\ (pc = "choosing" \/ ~run[i].cancelled)
Becomes(i, r) == run' = [run EXCEPT ![i] = r]

Greet(i) ==
    /\ WaitsAt(i, "greeting") /\ Becomes(i, [run[i] EXCEPT !.pc = "choosing"])
    /\ UNCHANGED <<session, inflight, verdicts>>

Acquire(i) ==
    /\ WaitsAt(i, "choosing")
    /\ \/ \E a \in Account \ run[i].excluded :
             /\ inflight' = [inflight EXCEPT ![a] = @ + 1]
             /\ Becomes(i, [run[i] EXCEPT !.pc = "connecting", !.account = a,
                                          !.collected = 0, !.shown = FALSE])
       \/ Becomes(i, [run[i] EXCEPT !.pc = "ending"]) /\ UNCHANGED inflight
    /\ UNCHANGED <<session, verdicts>>

\* The finally of an attempt: the lease is returned, and the account judged unless
\* the event is set.
Judged(outcome) ==
    IF stop THEN verdicts
    ELSE verdicts \cup {<<outcome, IF outcome = "shown" THEN "well" ELSE "ill">>}
Settle(i, outcome, then) ==
    /\ inflight' = [inflight EXCEPT ![run[i].account] = @ - 1]
    /\ verdicts' = Judged(outcome)
    /\ Becomes(i, [then EXCEPT !.account = NoAccount, !.slot = NoSlots, !.collected = 0,
                               !.cancelled = FALSE])

\* An error of the upstream, or a stream without an image, is retried on another
\* account, or told to the client, who may stop the run while it is.
Fail(i) ==
    /\ \/ /\ run[i].attempt < MaxAttempts
          /\ Settle(i, "failed", [run[i] EXCEPT !.pc = "choosing", !.attempt = @ + 1,
                                                !.excluded = @ \cup {run[i].account}])
       \/ /\ Becomes(i, [run[i] EXCEPT !.pc = "telling", !.shown = FALSE])
          /\ UNCHANGED <<inflight, verdicts>>
    /\ UNCHANGED session

Told(i) ==
    /\ WaitsAt(i, "telling")
    /\ Settle(i, IF run[i].shown THEN "shown" ELSE "failed", [run[i] EXCEPT !.pc = "over"])
    /\ UNCHANGED session

\* An exception is judged before it is told.
Raise(i) ==
    /\ WaitsAt(i, "connecting") /\ Settle(i, "failed", [run[i] EXCEPT !.pc = "ending"])
    /\ UNCHANGED session

Interrupted(i) ==
    /\ run[i].cancelled
    /\ \/ /\ run[i].pc = "greeting"
          /\ Becomes(i, [run[i] EXCEPT !.pc = "raised", !.cancelled = FALSE])
          /\ UNCHANGED <<inflight, verdicts>>
       \/ /\ run[i].pc \in {"connecting", "round", "telling"}
          /\ Settle(i, "stopped", [run[i] EXCEPT !.pc = "ending"])
       \/ /\ run[i].pc = "ending" /\ Becomes(i, [run[i] EXCEPT !.cancelled = FALSE])
          /\ UNCHANGED <<inflight, verdicts>>
    /\ UNCHANGED session

Finish(i) ==
    /\ WaitsAt(i, "ending") /\ Becomes(i, [run[i] EXCEPT !.pc = "over"])
    /\ UNCHANGED <<session, inflight, verdicts>>

-----------------------------------------------------------------------------
\* stream_images: a connection carries rounds until the server closes it.
Connect(i) ==
    /\ WaitsAt(i, "connecting")
    /\ Becomes(i, [run[i] EXCEPT !.pc = "round", !.slot = NoSlots])
    /\ UNCHANGED <<session, inflight, verdicts>>

ConnectFails(i) == WaitsAt(i, "connecting") /\ Fail(i)
ServerFails(i)  == WaitsAt(i, "round") /\ Fail(i)

Frame(i, s, from, to) ==
    /\ WaitsAt(i, "round") /\ run[i].slot[s] \in from
    /\ Becomes(i, [run[i] EXCEPT !.slot[s] = to])
    /\ UNCHANGED <<session, inflight, verdicts>>
StartStage(i, s) == Frame(i, s, {""}, "started")
Preview(i, s)    == Frame(i, s, {"started"}, "image")

\* The round is over: the stream is, or another round follows here or on a new
\* connection, however many have brought nothing.
RoundOver(i, r, closed) ==
    IF r.collected < Count
    THEN /\ Becomes(i, IF closed THEN [r EXCEPT !.pc = "connecting"]
                       ELSE [r EXCEPT !.slot = NoSlots])
         /\ UNCHANGED <<session, inflight, verdicts>>
    ELSE IF r.shown
    THEN /\ Becomes(i, [r EXCEPT !.pc = "telling"])
         /\ UNCHANGED <<session, inflight, verdicts>>
    ELSE Fail(i)

\* A completed slot, unless moderated, counts, and shows what its previews brought.
Completed(i, s) ==
    /\ WaitsAt(i, "round") /\ run[i].slot[s] \in {"started", "image"}
    /\ \E got \in {0, 1}, closed \in BOOLEAN :
          LET r == [run[i] EXCEPT !.slot[s] = "done", !.collected = @ + got,
                                  !.shown = @ \/ (got = 1 /\ run[i].slot[s] = "image")]
              all == \A t \in Slot : r.slot[t] \in {"", "done"}
          IN  /\ closed => all
              /\ IF all \/ r.collected >= Count THEN RoundOver(i, r, closed)
                 ELSE /\ Becomes(i, r)
                      /\ UNCHANGED <<session, inflight, verdicts>>

\* The server closes, or is silent for too long: slots with an image are final as they
\* are, and one without is an error after a time-out.
Unfinished(i, state) == {s \in Slot : run[i].slot[s] = state}
Broken(i, closed) ==
    /\ WaitsAt(i, "round")
    /\ LET got == Cardinality(Unfinished(i, "image"))
           r   == [run[i] EXCEPT !.collected = @ + got, !.shown = @ \/ got > 0]
       IN  IF ~closed /\ Unfinished(i, "started") # {} THEN Fail(i) ELSE RoundOver(i, r, closed)

SessionNext ==
    \/ \E why \in {"start", "stop", "leave"} : Receive(why)
    \/ StopReturns
    \/ \E i \in Run :
          \/ Greet(i) \/ Acquire(i) \/ Told(i) \/ Raise(i) \/ Interrupted(i) \/ Finish(i)
          \/ Connect(i) \/ ConnectFails(i) \/ ServerFails(i)
          \/ \E s \in Slot : StartStage(i, s) \/ Preview(i, s) \/ Completed(i, s)
          \/ \E closed \in BOOLEAN : Broken(i, closed)

SessionSpec == SessionInit /\ [][SessionNext]_sessionVars

-----------------------------------------------------------------------------
\* A run that its client stops blames no account: accounts are judged ill only for
\* attempts that failed and well only for those that showed an image, one run is under
\* way at a time, and the in-flight counts are the leases it holds, wherever it is
\* cancelled.
StopBlamesNobody ==
    /\ verdicts \subseteq {<<"shown", "well">>, <<"failed", "ill">>}
    /\ \A i \in Run : run[i].pc \notin {"none", "over", "raised"} => i = last
    /\ \A a \in Account : inflight[a] = IF \E i \in Run : run[i].account = a THEN 1 ELSE 0
=============================================================================
