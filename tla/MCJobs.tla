--------------------------------- MODULE MCJobs ---------------------------------
(***************************************************************************)
(* Small instances of the components that carry a piece of work to its     *)
(* end, for TLC in one run: MediaRequests, TaskProgress, MaintainerJob,    *)
(* and ChatRetry with one request and more retries than in MCRequests.     *)
(* A behaviour is one of one component; the others are parked.             *)
(***************************************************************************)
EXTENDS ChatRetry, MediaRequests, TaskProgress, MaintainerJob, TLC

CONSTANTS a1, a2, a3, r1, i1, i2, i3, v1, w1, w2

VARIABLE which

\* A parked component stays in its initial state.
ChatParked == Init /\ strategy = "quota" /\ trusted = {}

MCInit ==
    \/ /\ which = "media" /\ MediaInit
       /\ TaskInit /\ JobInit /\ ChatParked
    \/ /\ which = "task" /\ TaskInit
       /\ MediaInit /\ JobInit /\ ChatParked
    \/ /\ which = "job" /\ JobInit
       /\ MediaInit /\ TaskInit /\ ChatParked
    \/ /\ which = "chat" /\ Init
       /\ MediaInit /\ TaskInit /\ JobInit

MCNext ==
    \/ /\ which = "media" /\ MediaNext
       /\ UNCHANGED <<which, taskVars, jobVars, vars>>
    \/ /\ which = "task" /\ TaskNext
       /\ UNCHANGED <<which, mediaVars, jobVars, vars>>
    \/ /\ which = "job" /\ JobNext
       /\ UNCHANGED <<which, mediaVars, taskVars, vars>>
    \/ /\ which = "chat" /\ Next
       /\ UNCHANGED <<which, mediaVars, taskVars, jobVars>>

\* The fairness the modules state, each in its behaviours.
MCFairness ==
    /\ \A x \in {r1} \X {1, 2} :
          /\ WF_mediaVars(which = "media" /\ RunStep(x))
          /\ WF_mediaVars(which = "media" /\ CancelRun(x))
    /\ WF_mediaVars(which = "media" /\ Answer(r1))
    /\ WF_mediaVars(which = "media" /\ Drain(r1))
    /\ WF_taskVars(which = "task" /\ ItemsStep)
    /\ WF_taskVars(which = "task" /\ ViewerStep(v1))
    /\ WF_jobVars(which = "job" /\ Watch)
    /\ WF_jobVars(which = "job" /\ Tick)
    /\ WF_jobVars(which = "job" /\ GptEnds)
    /\ \A w \in {w1, w2} :
          /\ WF_jobVars(which = "job" /\ BatchStep(w))
          /\ WF_jobVars(which = "job" /\ job = "solo" /\ RoundEnds(w))
          /\ WF_jobVars(which = "job" /\ GptStep(w))
    /\ WF_vars(which = "chat" /\ Progress(r1))

MCSpec ==
    MCInit /\ [][MCNext]_<<which, mediaVars, taskVars, jobVars, vars>> /\ MCFairness

-----------------------------------------------------------------------------
\* EveryRequestEnds, of ChatRetry, in its behaviours.
EveryChatEnds == which = "chat" => EveryRequestEnds
=============================================================================
