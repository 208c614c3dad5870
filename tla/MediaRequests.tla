------------------------------ MODULE MediaRequests ------------------------------
(***************************************************************************)
(* Image and video requests on Grok accounts: image generation over the    *)
(* web socket, the lite models' batches of parallel runs and image edits   *)
(* (src/app/products/openai/images.py), video completions and video jobs   *)
(* (src/app/products/openai/video.py).  Each run of a request reserves an  *)
(* account of the directory they all share, works on it, and settles it.   *)
(*                                                                         *)
(* The directory is abstracted to the in-flight counts and to the accounts *)
(* feedback has put out; AccountSelection has its columns.  Its lock is    *)
(* never contended, so a run's release and feedback are one step with the  *)
(* outcome they follow.  Progress reports are left out.                    *)
(***************************************************************************)
EXTENDS Naturals, FiniteSets

CONSTANTS
    Account, Nobody,
    MediaRequest,  \* media requests
    Kinds,         \* the kinds of request that are made
    Index,         \* the runs of a batch, 1..n
    MaxAttempts,   \* max_retries + 1 of an image run
    Segments,      \* segments of a video
    MaxImages,     \* bound: images an attempt delivers
    MaxReturns     \* bound: accounts that come back over a behaviour

Kind == {"stream", "whole", "lite", "lite_stream", "edit", "edit_stream",
         "video", "video_stream", "video_job"}

ASSUME MediaAssumption ==
    /\ IsFiniteSet(Account) /\ Nobody \notin Account /\ IsFiniteSet(MediaRequest)
    /\ Kinds \subseteq Kind
    /\ IsFiniteSet(Index) /\ 1 \in Index
    /\ MaxAttempts \in Nat \ {0} /\ Segments \in Nat \ {0}
    /\ MaxImages \in Nat \ {0} /\ MaxReturns \in Nat

VARIABLES
    leases,    \* the directory's in-flight counts
    out,       \* accounts that cannot be reserved: limited or expired
    request,   \* the requests
    run,       \* the runs of each request
    videoJobs, \* _VIDEO_JOBS
    returns    \* the bounded counter

mediaVars == <<leases, out, request, run, videoJobs, returns>>

Streams == {"stream", "lite_stream", "edit_stream", "video_stream"}
Batches == {"lite", "lite_stream"}
Edits   == {"edit", "edit_stream"}
Videos  == {"video", "video_stream", "video_job"}
\* Runs that outlive the client of their request.
Detached == {"video_stream", "video_job"}

\* How an attempt fails: the account is limited or barred from the mode, its
\* credentials are rejected, the upstream has a passing failure, a failure no
\* other account would mend, or the request itself is found invalid.
Failure == {"limited", "unauthorized", "upstream", "fatal", "invalid"}

RequestState == [kind : Kind, phase : {"idle", "running", "draining", "done", "failed", "gone"},
                 sent : Nat]
RunState == [phase : {"none", "reserving", "working", "ok", "failed", "cancelled"},
             account : Account \cup {Nobody}, excluded : SUBSET Account,
             attempt : Nat, made : Nat]

MediaTypeOK ==
    /\ leases \in [Account -> Nat] /\ out \subseteq Account
    /\ request \in [MediaRequest -> RequestState]
    /\ run \in [MediaRequest \X Index -> RunState]
    /\ videoJobs \subseteq MediaRequest /\ returns \in Nat

NoRun == [phase |-> "none", account |-> Nobody, excluded |-> {}, attempt |-> 0,
          made |-> 0]

MediaInit ==
    /\ leases = [a \in Account |-> 0] /\ out = {}
    /\ request = [r \in MediaRequest |-> [kind |-> "whole", phase |-> "idle", sent |-> 0]]
    /\ run = [x \in MediaRequest \X Index |-> NoRun]
    /\ videoJobs = {} /\ returns = 0

KindOf(x)  == request[x[1]].kind
RunsOf(r)  == {r} \X Index
Active(x)  == run[x].phase \in {"reserving", "working"}
AtRest(r)  == \A x \in RunsOf(r) : ~Active(x)
Fruitful(r) == {x \in RunsOf(r) : run[x].phase = "ok"}

-----------------------------------------------------------------------------
\* create_video keeps its job, which goes on by itself, for the client to ask after.
JobsAfter(r, kind) == IF kind = "video_job" THEN videoJobs \cup {r} ELSE videoJobs

\* A request starts its runs: a batch all of them, any other just one.
Start(r, kind) ==
    /\ request[r].phase = "idle" /\ kind \in Kinds
    /\ request' = [request EXCEPT ![r] = [@ EXCEPT !.kind = kind, !.phase = "running"]]
    /\ run' = [x \in MediaRequest \X Index |->
                 IF x[1] = r /\ (kind \in Batches \/ x[2] = 1)
                 THEN [NoRun EXCEPT !.phase = "reserving"] ELSE run[x]]
    /\ videoJobs' = JobsAfter(r, kind)
    /\ UNCHANGED <<leases, out, returns>>

Available(x) == Account \ (out \cup run[x].excluded)

ReserveRun(x) ==
    /\ run[x].phase = "reserving"
    /\ \E a \in Available(x) :
          /\ run' = [run EXCEPT ![x] = [@ EXCEPT !.phase = "working", !.account = a,
                                                 !.made = 0]]
          /\ leases' = [leases EXCEPT ![a] = @ + 1]
    /\ UNCHANGED <<out, request, videoJobs, returns>>

NoneAvailable(x) ==
    /\ run[x].phase = "reserving" /\ Available(x) = {}
    /\ run' = [run EXCEPT ![x].phase = "failed"]
    /\ UNCHANGED <<leases, out, request, videoJobs, returns>>

-----------------------------------------------------------------------------
\* One more image or video segment is there.  A web-socket stream sends it on
\* at once, the others keep it until the request is answered.
Worth(x) == IF KindOf(x) \in Videos THEN Segments
            ELSE IF KindOf(x) \in Batches THEN 1 ELSE MaxImages

SentOn(x) == request' = IF KindOf(x) = "stream"
                        THEN [request EXCEPT ![x[1]].sent = @ + 1] ELSE request

Make(x) ==
    /\ run[x].phase = "working" /\ run[x].made < Worth(x)
    /\ run' = [run EXCEPT ![x].made = @ + 1]
    /\ SentOn(x)
    /\ UNCHANGED <<leases, out, videoJobs, returns>>

\* Release and feedback.  A failure that is the account's own puts it out; for
\* an image any 403 counts as a limit, for a video it does not.
Freed(a)    == leases' = [leases EXCEPT ![a] = @ - 1]
Blamed(x, f) == out' = IF f \in {"limited", "unauthorized"} THEN out \cup {run[x].account}
                                                            ELSE out

\* An image run needs one image at least, a video all of its segments.
VideoWhole(x) == run[x].made = Segments
Enough(x)     == IF KindOf(x) \in Videos THEN VideoWhole(x) ELSE run[x].made > 0

Succeed(x) ==
    /\ run[x].phase = "working" /\ Enough(x)
    /\ run' = [run EXCEPT ![x] = [@ EXCEPT !.phase = "ok", !.account = Nobody]]
    /\ Freed(run[x].account)
    /\ UNCHANGED <<out, request, videoJobs, returns>>

\* The failures another attempt may mend; a video has one attempt.
RetriesVideosToo(x, f) ==
    /\ f \in {"limited", "unauthorized", "upstream"}
    /\ run[x].attempt + 1 < MaxAttempts
RunRetries(x, f) ==
    /\ KindOf(x) \notin Videos
    /\ f \in {"limited", "unauthorized", "upstream"}
    /\ run[x].attempt + 1 < MaxAttempts

ExcludedWhenBlamed(x, f) ==
    run[x].excluded \cup (IF f = "upstream" THEN {} ELSE {run[x].account})
ExcludedAfter(x, f) == run[x].excluded \cup {run[x].account}

\* Only an edit finds its request invalid.
Raised(kind) == IF kind \in Edits THEN Failure ELSE Failure \ {"invalid"}

FailRun(x, f) ==
    /\ run[x].phase = "working" /\ f \in Raised(KindOf(x))
    /\ run' = [run EXCEPT ![x] =
                 IF RunRetries(x, f)
                 THEN [@ EXCEPT !.phase = "reserving", !.account = Nobody,
                                !.excluded = ExcludedAfter(x, f),
                                !.attempt = run[x].attempt + 1]
                 ELSE [@ EXCEPT !.phase = "failed", !.account = Nobody]]
    /\ Freed(run[x].account)
    /\ Blamed(x, f)
    /\ UNCHANGED <<request, videoJobs, returns>>

-----------------------------------------------------------------------------
\* All runs of a request are over: it answers with what they made, or fails if
\* that is nothing.
MadeBy(X) == Cardinality(UNION {{x} \X (1..run[x].made) : x \in X})

Answers(r) == Fruitful(r) # {}

StatusAfter(r) == IF Answers(r) THEN "done" ELSE "failed"

Answer(r) ==
    /\ request[r].phase = "running" /\ AtRest(r)
    /\ request' = [request EXCEPT ![r] =
                     [@ EXCEPT !.phase = StatusAfter(r),
                               !.sent = IF request[r].sent = 0 /\ Answers(r)
                                        THEN MadeBy(Fruitful(r)) ELSE request[r].sent]]
    /\ UNCHANGED <<leases, out, run, videoJobs, returns>>

\* The client of a stream leaves.  A web-socket stream is closed where it stands;
\* a batch or an edit cancels its runs and waits for them; a video runs on.
Cancelled(x) ==
    run' = [run EXCEPT ![x] = [@ EXCEPT !.phase = "cancelled", !.account = Nobody]]

StillHeld(x)   == UNCHANGED leases
FreedIfHeld(x) == IF run[x].phase = "working" THEN Freed(run[x].account)
                                              ELSE UNCHANGED leases

MediaClientGone(r) ==
    /\ request[r].phase = "running" /\ request[r].kind \in Streams
    /\ request' = [request EXCEPT ![r].phase =
                     IF @ = "running" /\ request[r].kind \in {"lite_stream", "edit_stream"}
                     THEN "draining" ELSE "gone"]
    /\ IF request[r].kind = "stream" /\ Active(<<r, 1>>)
       THEN Cancelled(<<r, 1>>) /\ FreedIfHeld(<<r, 1>>)
       ELSE UNCHANGED <<run, leases>>
    /\ UNCHANGED <<out, videoJobs, returns>>

CancelRun(x) ==
    /\ request[x[1]].phase = "draining" /\ Active(x)
    /\ Cancelled(x)
    /\ FreedIfHeld(x)
    /\ UNCHANGED <<out, request, videoJobs, returns>>

NoWaiting(r) == TRUE
AllWell(r)   == \A x \in RunsOf(r) : run[x].phase \in {"none", "ok"}
Drained(r)   == AtRest(r)

Drain(r) ==
    /\ request[r].phase = "draining" /\ Drained(r)
    /\ request' = [request EXCEPT ![r].phase = "gone"]
    /\ UNCHANGED <<leases, out, run, videoJobs, returns>>

\* A video job is dropped an hour after it was created, whatever it is doing.
ExpireJob(r) ==
    /\ r \in videoJobs
    /\ videoJobs' = videoJobs \ {r}
    /\ UNCHANGED <<leases, out, request, run, returns>>

\* A limit resets, an expired account is restored.
ComeBack(a) ==
    /\ a \in out /\ returns < MaxReturns
    /\ out' = out \ {a} /\ returns' = returns + 1
    /\ UNCHANGED <<leases, request, run, videoJobs>>

RunStep(x) ==
    \/ ReserveRun(x) \/ NoneAvailable(x) \/ Make(x) \/ Succeed(x)
    \/ \E f \in Failure : FailRun(x, f)

MediaNext ==
    \/ \E x \in MediaRequest \X Index : RunStep(x) \/ CancelRun(x)
    \/ \E r \in MediaRequest :
          \/ \E kind \in Kinds : Start(r, kind)
          \/ Answer(r) \/ MediaClientGone(r) \/ Drain(r) \/ ExpireJob(r)
    \/ \E a \in Account : ComeBack(a)

MediaSpec == MediaInit /\ [][MediaNext]_mediaVars

\* The upstream answers or the request times out; the event loop runs what can run.
MediaFairness ==
    /\ \A x \in MediaRequest \X Index : WF_mediaVars(RunStep(x)) /\ WF_mediaVars(CancelRun(x))
    /\ \A r \in MediaRequest : WF_mediaVars(Answer(r)) /\ WF_mediaVars(Drain(r))

MediaFairSpec == MediaSpec /\ MediaFairness

-----------------------------------------------------------------------------
\* The in-flight counts are the runs at work, however runs end and however many
\* run beside each other: no account is kept busy by a run that is over.
LeasesHeld ==
    \A a \in Account :
        leases[a] = Cardinality({x \in MediaRequest \X Index : run[x].account = a})

\* A request that is over left no run behind, but for a video's.
NoStrayRun ==
    \A r \in MediaRequest :
        request[r].phase \in {"done", "failed", "gone"} /\ request[r].kind \notin Detached
            => AtRest(r)

\* Every request ends, and every run.
RequestsEnd ==
    \A r \in MediaRequest : request[r].phase # "idle"
                          ~> request[r].phase \in {"done", "failed", "gone"} /\ AtRest(r)
=============================================================================
