------------------------------- MODULE UsageWriter -------------------------------
(***************************************************************************)
(* The writer of Grok Build usage events                                   *)
(* (src/app/maintainer/grok_build_usage.py): publishers put events in a    *)
(* bounded queue without blocking, a task writes them to SQLite in         *)
(* batches, others wait for a flush or stop the writer.  A write that      *)
(* fails ends the task.  What an event adds up to is left out.             *)
(***************************************************************************)
EXTENDS Naturals, Sequences, FiniteSets, SequencesExt

CONSTANTS
    Event,         \* usage events; each is published once at most
    Flusher,       \* callers of flush_usage
    Capacity,      \* of the queue
    BatchSize      \* events written in one transaction

ASSUME WriterAssumption ==
    IsFiniteSet(Event) /\ Capacity \in Nat \ {0} /\ BatchSize \in Nat \ {0}

VARIABLES
    queue,     \* the queue
    writing,   \* the events of the write that is under way, none if <<>>
    idle,      \* the idle event
    writer,    \* "running", "stopping", or why the task has ended
    written,   \* the events SQLite has
    lost,      \* the events of a failed write, those dropped by a stop, or left behind
    refused,   \* the events publish has refused
    flusher    \* what each caller waits for

writerVars == <<queue, writing, idle, writer, written, lost, refused, flusher>>

WriterTypeOK ==
    /\ queue \in BoundedSeq(Event, Capacity) /\ writing \in BoundedSeq(Event, BatchSize)
    /\ idle \in BOOLEAN /\ writer \in {"running", "stopping", "ended", "failed"}
    /\ written \subseteq Event /\ lost \subseteq Event /\ refused \subseteq Event
    /\ flusher \in [Flusher -> [phase : {"idle", "waiting", "returned"},
                                accepted : SUBSET Event]]

WriterInit ==
    /\ queue = <<>> /\ writing = <<>> /\ idle = TRUE /\ writer = "running"
    /\ written = {} /\ lost = {} /\ refused = {}
    /\ flusher = [f \in Flusher |-> [phase |-> "idle", accepted |-> {}]]

Ended    == writer \in {"ended", "failed"}
Accepted == ToSet(queue) \cup ToSet(writing) \cup written \cup lost
Unseen   == Event \ (Accepted \cup refused)

\* publish: refused once the writer stops, and by a full queue.
Publish(e) ==
    /\ e \in Unseen
    /\ IF writer = "running" /\ Len(queue) < Capacity
       THEN queue' = Append(queue, e) /\ idle' = FALSE /\ UNCHANGED refused
       ELSE refused' = refused \cup {e} /\ UNCHANGED <<queue, idle>>
    /\ UNCHANGED <<writing, writer, written, lost, flusher>>

\* _run: a batch is taken and written in a thread.
TakeBatch ==
    /\ ~Ended /\ writing = <<>> /\ queue # <<>>
    /\ LET n == IF Len(queue) < BatchSize THEN Len(queue) ELSE BatchSize
       IN  writing' = SubSeq(queue, 1, n) /\ queue' = SubSeq(queue, n + 1, Len(queue))
    /\ UNCHANGED <<idle, writer, written, lost, refused, flusher>>

\* A write ends: idle is set, and every flush that waits returns, when nothing was
\* published meanwhile.  A failure leaves the queue to nobody.
IdleAfterEach == TRUE
IdleAtTheEnd  == queue = <<>> /\ writer # "running"
IdleAfter     == queue = <<>>
Returned      == [f \in Flusher |-> IF flusher[f].phase = "waiting"
                                    THEN [flusher[f] EXCEPT !.phase = "returned"]
                                    ELSE flusher[f]]
EndWrite(succeeds) ==
    /\ writing # <<>>
    /\ writing' = <<>>
    /\ IF IdleAfter THEN idle' = TRUE /\ flusher' = Returned
                    ELSE UNCHANGED <<idle, flusher>>
    /\ IF succeeds THEN written' = written \cup ToSet(writing) /\ UNCHANGED <<writer, lost>>
                   ELSE lost' = lost \cup ToSet(writing) /\ writer' = "failed" /\ UNCHANGED written
    /\ UNCHANGED <<queue, refused>>

Leaves ==
    /\ writer = "stopping" /\ writing = <<>> /\ queue = <<>>
    /\ writer' = "ended"
    /\ UNCHANGED <<queue, writing, idle, written, lost, refused, flusher>>

\* flush, and what it waits for.
Flush(f) ==
    /\ flusher[f].phase = "idle"
    /\ flusher' = [flusher EXCEPT ![f] = [phase |-> IF idle THEN "returned" ELSE "waiting",
                                           accepted |-> Accepted]]
    /\ UNCHANGED <<queue, writing, idle, writer, written, lost, refused>>

\* stop, with a flush or by dropping what is queued; idle is not set for that.
Stop(flush) ==
    /\ writer = "running" /\ writer' = "stopping"
    /\ IF flush THEN UNCHANGED <<queue, lost>>
                ELSE queue' = <<>> /\ lost' = lost \cup ToSet(queue)
    /\ UNCHANGED <<writing, idle, written, refused, flusher>>

WriterNext ==
    \/ \E e \in Event : Publish(e)
    \/ TakeBatch \/ Leaves \/ \E ok \in BOOLEAN : EndWrite(ok)
    \/ \E f \in Flusher : Flush(f)
    \/ \E flush \in BOOLEAN : Stop(flush)

WriterSpec == WriterInit /\ [][WriterNext]_writerVars

-----------------------------------------------------------------------------
\* A flush that returns has seen what was accepted before it written, unless a
\* write failed or a stop dropped it: idle is never set with something on its way.
FlushedIsWritten ==
    \A f \in Flusher : flusher[f].phase = "returned" =>
        flusher[f].accepted \subseteq written \cup lost
=============================================================================
