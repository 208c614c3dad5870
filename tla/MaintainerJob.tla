------------------------------ MODULE MaintainerJob ------------------------------
(***************************************************************************)
(* The registration job an administrator runs from the maintainer page     *)
(* (src/app/products/web/admin/maintainer.py) and the batches it drives    *)
(* (run_batch and run_batch_parallel in src/app/maintainer/runner.py,      *)
(* run_gpt_batch_parallel in src/app/maintainer/gpt.py).                   *)
(*                                                                         *)
(* A batch runs in a thread of the server.  With one worker the thread     *)
(* does the rounds itself ("solo"); with more it spawns a process for each *)
(* and watches them ("pool"); accounts of the other vendor are registered  *)
(* by a thread pool ("gpt").  The administrator pauses and stops the job   *)
(* through two events shared with the workers.                             *)
(*                                                                         *)
(* What a round does on the web is left out: it ends with a token in the   *)
(* worker's output file, or it fails.  A token is named by its worker and  *)
(* its round.  A progress event reaches the watching thread at once.       *)
(***************************************************************************)
EXTENDS Naturals, FiniteSets

CONSTANTS
    Worker,        \* worker numbers
    Count,         \* rounds asked of each worker, of all of them for "gpt"
    EnvRetries,    \* rounds the environment may add (registration_env_retry_limit)
    Attempts,      \* attempts at one account (registration_attempts_per_account)
    IdleTimeout,   \* silence after which a worker process is terminated
    PipeCapacity,  \* tokens the result queue's pipe holds unread
    MaxJobs,       \* bound: jobs over a behaviour
    MaxCommands,   \* bound: pauses, resumes and stops over a behaviour
    MaxCrashes     \* bound: worker processes killed from outside

ASSUME JobAssumption ==
    /\ IsFiniteSet(Worker) /\ Worker # {}
    /\ Count \in Nat \ {0} /\ Attempts \in Nat \ {0} /\ IdleTimeout \in Nat \ {0}
    /\ EnvRetries \in Nat /\ PipeCapacity \in Nat
    /\ MaxJobs \in Nat /\ MaxCommands \in Nat /\ MaxCrashes \in Nat

VARIABLES
    job,        \* what the background task runs: "none", "solo", "pool" or "gpt"
    status,     \* what the page shows
    paused,     \* the pause event is cleared
    stop,       \* the stop event is set
    at,         \* where each worker is
    round,      \* rounds it has begun in this job, attempts at an account for "gpt"
    extra,      \* rounds added to its share by environment retries
    collected,  \* the tokens it holds in memory
    file,       \* the tokens in its output file
    silent,     \* how long since its last progress event
    results,    \* results sent to the parent: tokens, or an error
    torn,       \* a terminated worker left half a result in the pipe
    finished,   \* the workers the parent has seen end
    submitted,  \* rounds submitted to the thread pool
    delivered,  \* the tokens handed to push_sso_to_api
    jobs, commands, crashes   \* the bounded counters

control == <<job, status, paused, stop>>
workers == <<at, round, extra, collected, file, silent>>
parent  == <<results, torn, finished, submitted, delivered>>
bounds  == <<jobs, commands, crashes>>
jobVars    == <<control, workers, parent, bounds>>

SsoToken == Worker \X (1..Count + EnvRetries)
Result == [worker : Worker, tokens : SUBSET SsoToken, error : BOOLEAN]
Alive  == {"boot", "loop", "cleared", "round", "saved", "rest", "exit", "stuck"}

JobTypeOK ==
    /\ job \in {"none", "solo", "pool", "gpt"}
    /\ status \in {"idle", "running", "paused", "stopping", "completed", "stopped", "failed"}
    /\ paused \in BOOLEAN /\ stop \in BOOLEAN /\ torn \in BOOLEAN
    /\ at \in [Worker -> Alive \cup {"none", "gone"}]
    /\ round \in [Worker -> 0..Count + EnvRetries + Attempts]
    /\ extra \in [Worker -> 0..EnvRetries]
    /\ collected \in [Worker -> SUBSET SsoToken]
    /\ file \in [Worker -> SUBSET SsoToken]
    /\ silent \in [Worker -> 0..IdleTimeout]
    /\ results \in SUBSET Result
    /\ finished \in SUBSET Worker
    /\ submitted \in 0..Count
    /\ delivered \in SUBSET SsoToken
    /\ jobs \in Nat /\ commands \in Nat /\ crashes \in Nat

JobInit ==
    /\ job = "none" /\ status = "idle" /\ paused = FALSE /\ stop = FALSE
    /\ at = [w \in Worker |-> "none"]
    /\ round = [w \in Worker |-> 0] /\ extra = [w \in Worker |-> 0]
    /\ collected = [w \in Worker |-> {}] /\ file = [w \in Worker |-> {}]
    /\ silent = [w \in Worker |-> 0]
    /\ results = {} /\ torn = FALSE /\ finished = {} /\ submitted = 0 /\ delivered = {}
    /\ jobs = 0 /\ commands = 0 /\ crashes = 0

Goes(w, from, to) == at[w] = from /\ at' = [at EXCEPT ![w] = to]
Running(w)        == at[w] \in Alive
Team              == {w \in Worker : at[w] # "none"}
Share(w)          == Count + extra[w]

\* Every progress event is a sign of life.
Reports(w) == silent' = [silent EXCEPT ![w] = 0]

-----------------------------------------------------------------------------
\* The administrator.  A job starts when the last one is over, with both events
\* reset; the batch spawns its workers.
Run(kind, W) ==
    /\ job = "none" /\ jobs < MaxJobs
    /\ kind = "solo" <=> (kind # "gpt" /\ Cardinality(W) = 1)
    /\ job' = kind /\ status' = "running" /\ paused' = FALSE /\ stop' = FALSE
    /\ at' = [w \in Worker |-> IF w \in W THEN (IF kind = "gpt" THEN "loop" ELSE "boot")
                                          ELSE "none"]
    /\ round' = [w \in Worker |-> 0] /\ extra' = [w \in Worker |-> 0]
    /\ collected' = [w \in Worker |-> {}] /\ file' = [w \in Worker |-> {}]
    /\ silent' = [w \in Worker |-> 0]
    /\ results' = {} /\ torn' = FALSE /\ finished' = {} /\ submitted' = 0 /\ delivered' = {}
    /\ jobs' = jobs + 1
    /\ UNCHANGED <<commands, crashes>>

Command(shown) ==
    /\ job # "none" /\ commands < MaxCommands
    /\ status' = shown /\ commands' = commands + 1
    /\ UNCHANGED <<job, workers, parent, jobs, crashes>>

maintainer_pause  == Command("paused")   /\ paused' = TRUE  /\ UNCHANGED stop
maintainer_resume == Command("running")  /\ paused' = FALSE /\ UNCHANGED stop
maintainer_stop   == Command("stopping") /\ paused' = FALSE /\ stop' = TRUE

-----------------------------------------------------------------------------
\* run_batch, of the thread or of a worker process.
Batch == job \in {"solo", "pool"}

\* Nothing starts while the batch is paused, unless it is stopped.
StartBrowser(w) ==
    /\ Batch /\ at[w] = "boot"
    /\ \/ stop /\ Goes(w, "boot", "exit")
       \/ ~stop /\ ~paused /\ Goes(w, "boot", "loop")
    /\ Reports(w)
    /\ UNCHANGED <<control, round, extra, collected, file, parent, bounds>>

CheckEvents(w) ==
    /\ Batch /\ at[w] = "loop"
    /\ \/ (stop \/ round[w] >= Share(w)) /\ Goes(w, "loop", "exit")
       \/ ~stop /\ ~paused /\ round[w] < Share(w) /\ Goes(w, "loop", "cleared")
    /\ UNCHANGED <<control, round, extra, collected, file, silent, parent, bounds>>

\* A stop that comes after the check does not keep this round from starting.
BeginRound(w) ==
    /\ Batch /\ Goes(w, "cleared", "round")
    /\ round' = [round EXCEPT ![w] = @ + 1]
    /\ Reports(w)
    /\ UNCHANGED <<control, extra, collected, file, parent, bounds>>

\* run_single_registration ends by appending the token to the output file, ...
AppendToFile(w) ==
    /\ Batch /\ Goes(w, "round", "saved")
    /\ file' = [file EXCEPT ![w] = @ \cup {<<w, round[w]>>}]
    /\ UNCHANGED <<control, round, extra, collected, silent, parent, bounds>>

\* ... and the batch then adds it to what it has collected.
RoundDone(w) ==
    /\ Batch /\ Goes(w, "saved", "rest")
    /\ collected' = [collected EXCEPT ![w] = @ \cup {<<w, round[w]>>}]
    /\ Reports(w)
    /\ UNCHANGED <<control, round, extra, file, parent, bounds>>

\* A round that the environment blocked adds a round, a few times.
MayRetryUnbounded(w) == ~stop
MayRetry(w)          == extra[w] < EnvRetries /\ ~stop

RoundFailed(w) ==
    /\ Batch /\ Goes(w, "round", "rest")
    /\ \/ UNCHANGED extra
       \/ MayRetry(w) /\ extra' = [extra EXCEPT ![w] = @ + 1]
    /\ Reports(w)
    /\ UNCHANGED <<control, round, collected, file, parent, bounds>>

ResetBrowser(w) ==
    /\ Batch /\ Goes(w, "rest", "loop")
    /\ UNCHANGED <<control, round, extra, collected, file, silent, parent, bounds>>

\* What is unread in the pipe; a result that does not fit leaves the worker in
\* the queue's feeder thread, which its exit waits for.
Unread  == UNION {r.tokens : r \in results}
Fits(S) == Cardinality(Unread) + Cardinality(S) <= PipeCapacity

Send(w, S, failed) ==
    IF Fits(S)
    THEN /\ results' = results \cup {[worker |-> w, tokens |-> S, error |-> failed]}
         /\ at' = [at EXCEPT ![w] = "gone"]
    ELSE /\ at' = [at EXCEPT ![w] = "stuck"]
         /\ UNCHANGED results

\* _worker_entry: the process hands its tokens to the parent and ends.
SendResult(w) ==
    /\ job = "pool" /\ at[w] = "exit"
    /\ Send(w, collected[w], FALSE)
    /\ Reports(w)
    /\ UNCHANGED <<control, round, extra, collected, file, torn, finished, submitted,
                   delivered, bounds>>

\* The browser cannot be started, or restarted for the next round, ...
BrowserFails(w) == at[w] = "boot" \/ (at[w] = "rest" /\ round[w] < Share(w) /\ ~stop)

\* ... so the process reports the error, and none of the tokens it had collected.
WorkerRaises(w) ==
    /\ job = "pool" /\ BrowserFails(w)
    /\ Send(w, {}, TRUE)
    /\ Reports(w)
    /\ UNCHANGED <<control, round, extra, collected, file, torn, finished, submitted,
                   delivered, bounds>>

\* The system kills the process: it sends nothing.
WorkerKilled(w) ==
    /\ job = "pool" /\ Running(w) /\ at[w] # "stuck" /\ crashes < MaxCrashes
    /\ at' = [at EXCEPT ![w] = "gone"]
    /\ crashes' = crashes + 1
    /\ UNCHANGED <<control, round, extra, collected, file, silent, parent, jobs, commands>>

-----------------------------------------------------------------------------
\* run_batch_parallel watches its processes: one that has ended is noted, one
\* that has been silent too long is terminated, whatever keeps it silent.
Reap(w) ==
    /\ job = "pool" /\ at[w] = "gone" /\ w \notin finished
    /\ finished' = finished \cup {w}
    /\ UNCHANGED <<control, workers, results, torn, submitted, delivered, bounds>>

IdleUnlessStopping(w) == silent[w] >= IdleTimeout /\ ~stop
Idle(w)               == silent[w] >= IdleTimeout

TerminateIdle(w) ==
    /\ job = "pool" /\ Running(w) /\ Idle(w)
    /\ at' = [at EXCEPT ![w] = "gone"]
    /\ finished' = finished \cup {w}
    /\ torn' = (torn \/ at[w] = "stuck")
    /\ UNCHANGED <<control, round, extra, collected, file, silent, results, submitted,
                   delivered, bounds>>

\* When all have ended it reads the results, which blocks on half a message.
\* An error, or a worker without a result, makes it read the output files.
Reported  == {w \in Team : \E r \in results : r.worker = w /\ r.error}
Errors    == {w \in Team : ~\E r \in results : r.worker = w /\ ~r.error}
Recovered == IF Errors = {} THEN {} ELSE UNION {file[w] : w \in Team}

\* authorize_registered_sso_for_grok_build, for the tokens just pushed: when it is
\* required and fails it raises, and the job has failed with its tokens delivered.
AuthorizationFails(tokens) == job # "gpt" /\ tokens # {} /\ status' = "failed"

JobEnds(tokens) ==
    /\ job' = "none"
    /\ \/ status' = IF stop THEN "stopped" ELSE IF tokens # {} THEN "completed" ELSE "failed"
       \/ AuthorizationFails(tokens)
    /\ paused' = FALSE /\ stop' = FALSE

AllEnded == finished = Team

CollectResults ==
    /\ job = "pool" /\ AllEnded /\ ~torn
    /\ delivered' = Unread \cup Recovered
    /\ JobEnds(delivered')
    /\ UNCHANGED <<workers, results, torn, finished, submitted, bounds>>

\* The single worker pushes what it has collected, also when it raises; then
\* the job has failed.
SoloEnds(w) ==
    /\ job = "solo"
    /\ \/ at[w] = "exit" /\ JobEnds(collected[w])
       \/ BrowserFails(w) /\ job' = "none" /\ status' = "failed"
                          /\ paused' = FALSE /\ stop' = FALSE
    /\ at' = [at EXCEPT ![w] = "gone"]
    /\ delivered' = collected[w]
    /\ UNCHANGED <<round, extra, collected, file, silent, results, torn, finished,
                   submitted, bounds>>

-----------------------------------------------------------------------------
\* run_gpt_batch_parallel: a thread takes an account of the batch while neither
\* event says no, ...
SubmitRound(w) ==
    /\ job = "gpt" /\ Goes(w, "loop", "round")
    /\ submitted < Count /\ ~stop /\ ~paused
    /\ submitted' = submitted + 1
    /\ round' = [round EXCEPT ![w] = 0]
    /\ UNCHANGED <<control, extra, collected, file, silent, results, torn, finished,
                   delivered, bounds>>

\* ... and run_single_gpt_registration tries a few addresses for it, saving the
\* account itself when one is registered.
AttemptFailed(w) ==
    /\ job = "gpt" /\ at[w] = "round"
    /\ round' = [round EXCEPT ![w] = @ + 1]
    /\ at' = [at EXCEPT ![w] = IF round'[w] = Attempts THEN "loop" ELSE "round"]
    /\ UNCHANGED <<control, extra, collected, file, silent, parent, bounds>>

AccountSaved(w) ==
    /\ job = "gpt" /\ Goes(w, "round", "loop")
    /\ \E n \in 1..submitted :
          /\ \A v \in Worker : <<v, n>> \notin delivered
          /\ delivered' = delivered \cup {<<w, n>>}
    /\ UNCHANGED <<control, round, extra, collected, file, silent, results, torn, finished,
                   submitted, bounds>>

GptEnds ==
    /\ job = "gpt" /\ \A w \in Team : at[w] = "loop"
    /\ stop \/ submitted = Count
    /\ JobEnds(delivered)
    /\ at' = [w \in Worker |-> IF w \in Team THEN "gone" ELSE "none"]
    /\ UNCHANGED <<round, extra, collected, file, silent, parent, bounds>>

-----------------------------------------------------------------------------
\* Time passes for the processes that say nothing.
Tick ==
    /\ job = "pool" /\ \E w \in Team : Running(w) /\ silent[w] < IdleTimeout
    /\ silent' = [w \in Worker |-> IF Running(w) /\ silent[w] < IdleTimeout
                                   THEN silent[w] + 1 ELSE silent[w]]
    /\ UNCHANGED <<control, at, round, extra, collected, file, parent, bounds>>

\* A round may hang; everything else a worker does it does in the end.
RoundEnds(w) == AppendToFile(w) \/ RoundFailed(w)
BatchStep(w) == StartBrowser(w) \/ CheckEvents(w) \/ BeginRound(w) \/ RoundDone(w)
                    \/ ResetBrowser(w) \/ SendResult(w) \/ SoloEnds(w)
GptStep(w)   == AttemptFailed(w) \/ AccountSaved(w)
Watch        == (\E w \in Worker : Reap(w) \/ TerminateIdle(w)) \/ CollectResults

JobNext ==
    \/ \E kind \in {"solo", "pool", "gpt"}, W \in SUBSET Worker \ {{}} : Run(kind, W)
    \/ maintainer_pause \/ maintainer_resume \/ maintainer_stop
    \/ \E w \in Worker : RoundEnds(w) \/ BatchStep(w) \/ WorkerRaises(w) \/ WorkerKilled(w)
    \/ \E w \in Worker : SubmitRound(w) \/ GptStep(w)
    \/ Watch \/ GptEnds \/ Tick

JobSpec == JobInit /\ [][JobNext]_jobVars

\* The parent polls, time passes, and outside a round a worker waits for nothing
\* but the events.  In the thread and in the thread pool nobody watches a round,
\* so there rounds are taken to end: every wait in them has a timeout.
JobFairness ==
    /\ WF_jobVars(Watch) /\ WF_jobVars(Tick) /\ WF_jobVars(GptEnds)
    /\ \A w \in Worker : /\ WF_jobVars(BatchStep(w))
                         /\ WF_jobVars(job = "solo" /\ RoundEnds(w))
                         /\ WF_jobVars(GptStep(w))

JobFairSpec == JobSpec /\ JobFairness

-----------------------------------------------------------------------------
\* Every token that reached an output file is handed to the account pool when
\* the job ends, whichever workers were killed, timed out or raised.
NoTokenLost ==
    (job = "none" /\ jobs > 0) =>
        \A w \in Worker : file[w] \subseteq delivered

\* A stopped job ends, even when a worker hangs in a round.
StoppedJobEnds == stop ~> job = "none"
=============================================================================
