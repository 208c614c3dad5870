------------------------------ MODULE StreamEvents ------------------------------
(***************************************************************************)
(* What the client of a streamed answer is sent: the Responses endpoint    *)
(* (src/app/products/openai/responses.py), the Anthropic messages endpoint *)
(* (src/app/products/anthropic/messages.py), and Responses streams that    *)
(* Grok Build writes itself and that are passed on.  An adapter turns what *)
(* the upstream sends into thinking, text, tool calls and a stop; ToolSieve*)
(* looks for tool calls in the text of models that have no others; each    *)
(* attempt opens and closes its blocks anew; and a producer task feeds the *)
(* connection through a queue, that is never empty for long.               *)
(*                                                                         *)
(* A chunk of text is one piece of text or two.  A tool block's opening    *)
(* tag comes in one chunk.  Images and references are text.  Which account *)
(* an attempt has, and how it is judged, is ChatRetry's.                   *)
(***************************************************************************)
EXTENDS Naturals, Sequences

CONSTANTS
    MaxRetries,  \* max_retries
    MaxEvents    \* bound: what the upstream sends in one attempt

ASSUME StreamAssumption == MaxRetries \in Nat /\ MaxEvents \in Nat

VARIABLES
    api,      \* "responses", "messages", or "build" for a stream passed on
    tools,    \* "local" tools go through the sieve, "native" ones come as events
    adapter,  \* what reads the upstream: see MayThink
    producer, \* where the generator is
    attempt,  \* the attempts before this one
    leased,   \* the attempt has an account
    sent,     \* what the attempt has sent
    heard,    \* what the upstream has sent in it
    guarded,  \* what _guard_response_stream has seen
    outbox,   \* what is produced and not yet taken
    client    \* the client, and the endings it was sent

streamVars == <<api, tools, adapter, producer, attempt, leased, sent, heard, guarded, outbox,
                client>>

\* "head" and "tail" are the two parts of an ending cut in two.
Chunk == {"event", "terminal", "head", "tail", "error"}
Block == [what : {"think", "text", "tool"}, index : Nat, open : BOOLEAN]
Attempt == [think : {"no", "open", "closed"}, text : BOOLEAN, next : Nat, blocks : Seq(Block),
            pending : BOOLEAN, held : {"nothing", "partial", "block"}, native : BOOLEAN,
            calls : BOOLEAN, fed : BOOLEAN, late : BOOLEAN, lost : Nat]

StreamTypeOK ==
    /\ api \in {"responses", "messages", "build"} /\ tools \in {"none", "local", "native"}
    /\ adapter \in {"chat", "summary", "console"}
    /\ producer \in {"reserving", "open", "ending", "settling", "done"}
    /\ attempt \in 0..MaxRetries /\ leased \in BOOLEAN /\ sent \in Attempt
    /\ heard \in 0..MaxEvents /\ guarded \in [seen : BOOLEAN, head : BOOLEAN]
    /\ outbox \in Seq(Chunk)
    /\ client \in [phase : {"here", "gone", "ended"}, head : BOOLEAN, endings : Nat]

FreshAttempt == [think |-> "no", text |-> FALSE, next |-> 0, blocks |-> <<>>, pending |-> FALSE,
                 held |-> "nothing", native |-> FALSE, calls |-> FALSE, fed |-> FALSE,
                 late |-> FALSE, lost |-> 0]

StreamInit ==
    /\ api \in {"responses", "messages", "build"} /\ tools \in {"none", "local", "native"}
    /\ adapter \in {"chat", "summary", "console"}
    /\ api = "build" => tools = "none" /\ adapter = "console"
    /\ producer = IF api = "build" THEN "open" ELSE "reserving"
    /\ attempt = 0 /\ leased = FALSE /\ sent = FreshAttempt /\ heard = 0
    /\ guarded = [seen |-> FALSE, head |-> FALSE] /\ outbox = <<>>
    /\ client = [phase |-> "here", head |-> FALSE, endings |-> 0]

-----------------------------------------------------------------------------
\* The guard passes on what it sees, and looks for an ending in it, also in one
\* that began in the chunk before.
SeesWhole(c) == c = "terminal"
Sees(c)      == c = "terminal" \/ (c = "tail" /\ guarded.head)

Emit(c) == /\ outbox' = Append(outbox, c)
           /\ guarded' = [seen |-> guarded.seen \/ Sees(c), head |-> c = "head"]

\* The generator has ended or raised: the guard adds an ending where there was none,
\* the messages endpoint an error where one was raised.
AddsAlways(raised) == IF api = "messages" /\ ~raised THEN <<>> ELSE <<"terminal">>
Adds(raised) ==
    IF api = "messages" THEN (IF raised THEN <<"error">> ELSE <<>>)
                        ELSE (IF guarded.seen THEN <<>> ELSE <<"terminal">>)
EndsStream(raised) ==
    /\ producer' = "done" /\ outbox' = outbox \o Adds(raised) /\ leased' = FALSE
    /\ UNCHANGED guarded

Hears == heard < MaxEvents /\ heard' = heard + 1

-----------------------------------------------------------------------------
\* Blocks.  The messages endpoint numbers them as it opens them; the other one puts
\* its reasoning first and its message after it.
BlockIndex(y, what) ==
    IF api = "messages" THEN y.next
    ELSE IF what = "think" \/ y.think = "no" THEN 0 ELSE 1
Opened(y, what, stays) ==
    [y EXCEPT !.blocks = Append(@, [what |-> what, index |-> BlockIndex(y, what), open |-> stays])]
ClosedInPlace(y, what) ==
    [y EXCEPT !.blocks = [k \in DOMAIN y.blocks |->
                              IF y.blocks[k].index = BlockIndex(y, what)
                              THEN [y.blocks[k] EXCEPT !.open = FALSE] ELSE y.blocks[k]],
              !.pending = FALSE]
Closed(y, what) == [ClosedInPlace(y, what) EXCEPT !.next = @ + 1]

EndThought(y) == IF y.think = "open" THEN [Closed(y, "think") EXCEPT !.think = "closed"] ELSE y
EndText(y)    == IF y.text THEN [Closed(y, "text") EXCEPT !.text = FALSE] ELSE y

\* The messages endpoint collects small deltas of a block, and flushes them before
\* it closes the block.
Collected(y, waits) == [y EXCEPT !.pending = api = "messages" /\ waits]
Thinks(y) ==
    IF y.think = "no" THEN [Opened(y, "think", TRUE) EXCEPT !.think = "open", !.late = y.fed]
                      ELSE y
Says(y) == IF y.text THEN y ELSE [Opened(y, "text", TRUE) EXCEPT !.text = TRUE]

\* Tool calls come after what is open, and end the answer.
BeforeCalls(y) == IF api = "messages" THEN EndText(EndThought(y)) ELSE y
Calls(y)       == [Opened(y, "tool", FALSE) EXCEPT !.next = @ + 1, !.calls = TRUE]

-----------------------------------------------------------------------------
\* ToolSieve.feed: a chunk that may be the beginning of a tag is held back, a block
\* is held until it is complete.
Chunks(y) == IF tools # "local" THEN {"plain"}
             ELSE IF y.held = "block" THEN {"plain", "closes"}
             ELSE {"plain", "partial", "opens", "whole"}
Completes(c) == c \in {"whole", "closes"}
HeldAfter(y, c) == IF Completes(c) THEN "nothing"
                   ELSE IF y.held = "block" \/ c = "opens" THEN "block"
                   ELSE IF c = "partial" THEN "partial" ELSE "nothing"
Safe(y, c) == IF y.held = "block" THEN 0
              ELSE (IF y.held = "partial" THEN 1 ELSE 0) + (IF c = "partial" THEN 0 ELSE 1)

-----------------------------------------------------------------------------
Reserve ==
    /\ producer = "reserving" /\ producer' = "open" /\ leased' = TRUE
    /\ sent' = FreshAttempt /\ heard' = 0 /\ Emit("event")
    /\ UNCHANGED <<api, tools, adapter, attempt, client>>

NoneAvailable ==
    /\ producer = "reserving" /\ EndsStream(TRUE)
    /\ UNCHANGED <<api, tools, adapter, attempt, sent, heard, client>>

Writes == producer = "open" /\ api # "build" /\ Hears

\* grok.com's adapters, "chat" in detail and "summary", drop what is thought after the
\* text has begun, but the summary's last lines come when the upstream stops.  Console's and
\* Grok Build's give them as they come.
MayThink(y) == y.think # "closed" /\ (adapter = "console" \/ ~y.fed)
LastThought(y) ==
    IF adapter = "summary" /\ y.think # "closed"
    THEN {y} \cup {Collected(Thinks(y), waits) : waits \in BOOLEAN} ELSE {y}

Think ==
    /\ Writes /\ MayThink(sent)
    /\ \E waits \in BOOLEAN : sent' = Collected(Thinks(sent), waits)
    /\ Emit("event")
    /\ UNCHANGED <<api, tools, adapter, producer, attempt, leased, client>>

\* With native tools the Responses endpoint keeps its text to the end.
KeepText ==
    /\ Writes /\ api = "responses" /\ tools = "native"
    /\ sent' = [sent EXCEPT !.native = TRUE, !.fed = TRUE]
    /\ UNCHANGED <<api, tools, adapter, producer, attempt, leased, guarded, outbox, client>>

Text(c) ==
    LET y == EndThought([sent EXCEPT !.fed = TRUE, !.held = HeldAfter(sent, c)])
    IN  /\ Writes /\ ~(api = "responses" /\ tools = "native") /\ ~Completes(c)
        /\ \E waits \in BOOLEAN :
              sent' = IF Safe(sent, c) > 0 THEN Collected(Says(y), waits) ELSE y
        /\ Emit("event")
        /\ UNCHANGED <<api, tools, adapter, producer, attempt, leased, client>>

\* The text before a block in the chunk that completes it is given back with the
\* calls, and not sent.  A block of unknown tools ends the answer without a call.
TextCalls(c) ==
    LET y == BeforeCalls(EndThought([sent EXCEPT !.fed = TRUE, !.held = "nothing",
                                              !.lost = @ + Safe(sent, c)]))
    IN  /\ Writes /\ tools = "local" /\ Completes(c)
        /\ sent' \in {Calls(y), [y EXCEPT !.calls = TRUE]} /\ producer' = "ending"
        /\ Emit("event")
        /\ UNCHANGED <<api, tools, adapter, attempt, leased, client>>

NativeCalls ==
    /\ Writes /\ tools = "native" /\ adapter = "console"
    /\ sent' = Calls(BeforeCalls(sent)) /\ producer' = "ending"
    /\ Emit("event")
    /\ UNCHANGED <<api, tools, adapter, attempt, leased, client>>

\* The upstream stops.  The sieve makes what it can of a block that was not closed,
\* and drops what only might have been the beginning of one.
Flushed(y) == [y EXCEPT !.held = "nothing", !.lost = @ + IF y.held = "partial" THEN 1 ELSE 0]
UpstreamStops ==
    /\ producer = "open" /\ api # "build" /\ producer' = "ending"
    /\ \E y \in LastThought(sent) :
          \/ sent' = Flushed(y)
          \/ /\ y.held = "block"
             /\ sent' = Calls(IF api = "messages" THEN EndText(Flushed(y)) ELSE Flushed(y))
    /\ UNCHANGED <<api, tools, adapter, attempt, leased, heard, guarded, outbox, client>>

Finale(y) == IF api = "messages" THEN EndText(EndThought(y))
                                 ELSE EndText(IF y.native THEN Says(y) ELSE y)
Complete ==
    /\ producer = "ending" /\ producer' = "settling"
    /\ sent' = (IF sent.calls THEN sent ELSE Finale(sent))
    /\ Emit("terminal")
    /\ UNCHANGED <<api, tools, adapter, attempt, leased, heard, client>>

\* Release and feedback, which may raise though everything was sent.
SettleAttempt ==
    /\ producer = "settling" /\ \E raised \in BOOLEAN : EndsStream(raised)
    /\ UNCHANGED <<api, tools, adapter, attempt, sent, heard, client>>

\* An error of the upstream is retried, with all that was sent of this attempt.
Retry ==
    /\ producer = "open" /\ api # "build" /\ attempt < MaxRetries
    /\ producer' = "reserving" /\ attempt' = attempt + 1 /\ leased' = FALSE
    /\ UNCHANGED <<api, tools, adapter, sent, heard, guarded, outbox, client>>

AttemptRaises ==
    /\ producer = "open" /\ EndsStream(TRUE)
    /\ UNCHANGED <<api, tools, adapter, attempt, sent, heard, client>>

\* What Grok Build writes has one ending, if it gets that far.
PassOn(c) ==
    /\ producer = "open" /\ api = "build" /\ Hears
    /\ guarded.head <=> c = "tail"
    /\ guarded.seen => c = "event"
    /\ Emit(c)
    /\ UNCHANGED <<api, tools, adapter, producer, attempt, leased, sent, client>>

EndOfStream ==
    /\ producer = "open" /\ api = "build" /\ ~guarded.head /\ EndsStream(FALSE)
    /\ UNCHANGED <<api, tools, adapter, attempt, sent, heard, client>>

-----------------------------------------------------------------------------
\* _sse_with_heartbeat: the response takes from the outbox, and pings when nothing
\* comes.  It is over when the producer is and nothing is left.
IsEnding(c) == c \in {"terminal", "error"} \/ (c = "tail" /\ client.head)
Take ==
    /\ client.phase = "here" /\ outbox # <<>>
    /\ LET c == Head(outbox)
       IN  client' = [client EXCEPT !.head = c = "head",
                                    !.endings = @ + IF IsEnding(c) THEN 1 ELSE 0]
    /\ outbox' = Tail(outbox)
    /\ UNCHANGED <<api, tools, adapter, producer, attempt, leased, sent, heard, guarded>>

ProducerDone == producer = "done"
Drained      == producer = "done" /\ outbox = <<>>
StreamOver ==
    /\ client.phase = "here" /\ Drained
    /\ client' = [client EXCEPT !.phase = "ended"]
    /\ UNCHANGED <<api, tools, adapter, producer, attempt, leased, sent, heard, guarded, outbox>>

\* The client leaves: the producer is cancelled, and closes the generator.
Leave ==
    /\ client.phase = "here" /\ client' = [client EXCEPT !.phase = "gone"]
    /\ producer' = "done" /\ leased' = FALSE /\ outbox' = <<>>
    /\ UNCHANGED <<api, tools, adapter, attempt, sent, heard, guarded>>

StreamNext ==
    \/ Reserve \/ NoneAvailable \/ Think \/ KeepText \/ NativeCalls \/ UpstreamStops \/ Complete
    \/ \E c \in Chunks(sent) : Text(c) \/ TextCalls(c)
    \/ SettleAttempt \/ Retry \/ AttemptRaises \/ EndOfStream
    \/ \E c \in {"event", "terminal", "head", "tail"} : PassOn(c)
    \/ Take \/ StreamOver \/ Leave

StreamSpec == StreamInit /\ [][StreamNext]_streamVars

-----------------------------------------------------------------------------
\* A client that stays is told how its stream ended, and where the guard is told
\* once: not by the model's ending and again by the error of a cleanup after it,
\* however the ending was cut into chunks.
OneEnding ==
    /\ client.phase = "ended" => client.endings > 0
    /\ api # "messages" => client.endings <= 1

\* Of one attempt's blocks the messages endpoint opens one at a time, numbers them
\* without a gap, and closes each with all of its text; unless its first
\* thought comes after text, as it may from all adapters but grok.com's in detail mode.
BlocksInTurn ==
    (api = "messages" /\ (adapter = "chat" \/ ~sent.late)) =>
        /\ \A k \in DOMAIN sent.blocks :
              sent.blocks[k].index = k - 1 /\ (sent.blocks[k].open => k = Len(sent.blocks))
        /\ producer = "settling" =>
              ~sent.pending /\ \A k \in DOMAIN sent.blocks : ~sent.blocks[k].open

\* Text that the sieve gives back is sent (src/app/products/openai/_tool_sieve.py:14
\* sends safe_text before the calls, :69 calls it safe to forward immediately).
SafeTextIsSent == producer = "settling" => sent.lost = 0
=============================================================================
