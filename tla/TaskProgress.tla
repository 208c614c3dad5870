------------------------------ MODULE TaskProgress ------------------------------
(***************************************************************************)
(* A batch operation of the administrator that runs in the background:     *)
(* its items under a semaphore, its cancellation, and the pages that watch *)
(* its progress over SSE (src/app/platform/runtime/task.py,                *)
(* src/app/products/web/admin/batch.py).  What an item does to its account *)
(* is the business of the other modules.                                   *)
(***************************************************************************)
EXTENDS Naturals, Sequences, FiniteSets

CONSTANTS
    Item,          \* the tokens of the batch
    Viewer,        \* the pages that watch it
    Concurrency,   \* slots of the semaphore
    QueueSize      \* events a viewer's queue holds (200 in the code)

ASSUME TaskAssumption ==
    /\ IsFiniteSet(Item) /\ Item # {}
    /\ Concurrency \in Nat \ {0} /\ QueueSize \in Nat \ {0}

VARIABLES
    item,      \* the items
    batch,     \* the AsyncTask
    viewer     \* the SSE streams

taskVars == <<item, batch, viewer>>

\* An event carries the number of items processed; the final one says so.
Event  == [processed : 0..Cardinality(Item), final : BOOLEAN]
NoEvent == [processed |-> 0, final |-> FALSE]

ViewerState ==
    [phase : {"away", "attached", "following", "pinging", "ended", "left"},
     queue : Seq(Event), shown : Event]

TaskTypeOK ==
    /\ item \in [Item -> {"waiting", "running", "ok", "failed", "skipped"}]
    /\ batch.status \in {"running", "counting", "done", "error", "cancelled"}
    /\ batch.processed \in 0..Cardinality(Item) /\ batch.cancelled \in BOOLEAN
    /\ batch.kept \in BOOLEAN
    /\ viewer \in [Viewer -> ViewerState]
    /\ \A v \in Viewer : Len(viewer[v].queue) <= QueueSize

TaskInit ==
    /\ item = [i \in Item |-> "waiting"]
    /\ batch = [status |-> "running", processed |-> 0, cancelled |-> FALSE, kept |-> TRUE]
    /\ viewer = [v \in Viewer |-> [phase |-> "away", queue |-> <<>>, shown |-> NoEvent]]

Over == batch.status \in {"done", "error", "cancelled"}

-----------------------------------------------------------------------------
\* _publish: every attached queue that has room gets the event.
Attached(v) == viewer[v].phase \in {"attached", "following", "pinging"}
Published(e) ==
    [v \in Viewer |-> IF Attached(v) /\ Len(viewer[v].queue) < QueueSize
                      THEN [viewer[v] EXCEPT !.queue = Append(@, e)] ELSE viewer[v]]

\* _one: nothing starts in a cancelled batch, not even with a slot it has waited for.
UnderWay == {i \in Item : item[i] = "running"}
StartItem(i) ==
    /\ item[i] = "waiting" /\ batch.status = "running"
    /\ Cardinality(UnderWay) < Concurrency
    /\ item' = [item EXCEPT ![i] = IF batch.cancelled THEN "skipped" ELSE "running"]
    /\ UNCHANGED <<batch, viewer>>

EndItem(i, result) ==
    /\ item[i] = "running"
    /\ item' = [item EXCEPT ![i] = result]
    /\ batch' = [batch EXCEPT !.processed = @ + 1]
    /\ viewer' = Published([processed |-> batch.processed + 1, final |-> FALSE])

\* After the last item the failed ones are looked up, where the repository is asked.
Gathered ==
    /\ batch.status = "running"
    /\ \A i \in Item : item[i] \notin {"waiting", "running"}
    /\ batch' = [batch EXCEPT !.status = "counting"]
    /\ UNCHANGED <<item, viewer>>

Finished(status) ==
    /\ batch' = [batch EXCEPT !.status = status]
    /\ viewer' = Published([processed |-> batch.processed, final |-> TRUE])
    /\ UNCHANGED item

\* finish or finish_cancelled; fail_task when the repository raised.
OutcomeAnyway == {"done", "cancelled"}
Outcome == {IF batch.cancelled THEN "cancelled" ELSE "done"}
Finish ==
    /\ batch.status = "counting"
    /\ \E s \in Outcome \cup
                (IF \E i \in Item : item[i] = "failed" THEN {"error"} ELSE {}) : Finished(s)

Cancel ==
    /\ batch.kept /\ ~batch.cancelled
    /\ batch' = [batch EXCEPT !.cancelled = TRUE]
    /\ UNCHANGED <<item, viewer>>

\* expire_task, 300 s after the end.
Expire ==
    /\ Over /\ batch.kept
    /\ batch' = [batch EXCEPT !.kept = FALSE]
    /\ UNCHANGED <<item, viewer>>

-----------------------------------------------------------------------------
\* batch_stream.
Views(v, changes) == /\ viewer' = [viewer EXCEPT ![v] = changes]
                     /\ UNCHANGED <<item, batch>>

Attach(v) ==
    /\ viewer[v].phase = "away" /\ batch.kept
    /\ Views(v, [phase |-> "attached", queue |-> <<>>,
                 shown |-> [processed |-> batch.processed, final |-> FALSE]])

\* After the snapshot, and after each ping, the final event is asked for.
ShownFinal(v) == [viewer[v] EXCEPT !.phase = "ended",
                      !.shown = [processed |-> batch.processed, final |-> TRUE]]
AsksOnce(v)  == Over /\ viewer[v].phase = "attached"
Asks(v)      == Over
AskFinal(v) ==
    /\ viewer[v].phase \in {"attached", "pinging"}
    /\ Views(v, IF Asks(v) THEN ShownFinal(v) ELSE [viewer[v] EXCEPT !.phase = "following"])

Receive(v) ==
    /\ viewer[v].phase = "following" /\ viewer[v].queue # <<>>
    /\ LET e == Head(viewer[v].queue)
       IN  Views(v, [phase |-> IF e.final THEN "ended" ELSE "following",
                     queue |-> Tail(viewer[v].queue), shown |-> e])

\* Fifteen seconds without an event.
Ping(v) ==
    /\ viewer[v].phase = "following" /\ viewer[v].queue = <<>>
    /\ Views(v, [viewer[v] EXCEPT !.phase = "pinging"])

Leave(v) ==
    /\ Attached(v)
    /\ Views(v, [viewer[v] EXCEPT !.phase = "left", !.queue = <<>>])

TaskNext ==
    \/ \E i \in Item : StartItem(i) \/ \E result \in {"ok", "failed"} : EndItem(i, result)
    \/ Gathered \/ Finish \/ Cancel \/ Expire
    \/ \E v \in Viewer : Attach(v) \/ AskFinal(v) \/ Receive(v) \/ Ping(v) \/ Leave(v)

TaskSpec == TaskInit /\ [][TaskNext]_taskVars

\* The event loop runs what is ready; the upstream answers or times out, and a page
\* that stays reads what it is sent.
ItemsStep == \/ \E i \in Item : StartItem(i) \/ \E result \in {"ok", "failed"} : EndItem(i, result)
             \/ Gathered \/ Finish
ViewerStep(v) == AskFinal(v) \/ Receive(v) \/ Ping(v)

-----------------------------------------------------------------------------
\* A page that stays is told of the end, whichever events a full queue has dropped.
EveryViewerIsTold == \A v \in Viewer : Attached(v) ~> viewer[v].phase \in {"ended", "left"}

\* What a page shows agrees with the batch: no number it never reached, none after
\* the final one, and a batch reported done has processed every item.
ReportsAreTrue ==
    /\ \A v \in Viewer :
           /\ viewer[v].shown.processed <= batch.processed
           /\ viewer[v].shown.final =>
                  viewer[v].phase = "ended" /\ viewer[v].shown.processed = batch.processed
    /\ batch.status = "done" => batch.processed = Cardinality(Item)
=============================================================================
