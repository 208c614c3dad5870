------------------------------ MODULE JobProofs ------------------------------
(*****************************************************************************)
(* TLAPS proofs about the three components that carry a piece of work to     *)
(* its end: MaintainerJob, MediaRequests and TaskProgress, for any           *)
(* workers, accounts, requests, items, viewers and bounds.                   *)
(*                                                                           *)
(* A token is not lost because a worker's process holds in memory what its   *)
(* file holds (JobInv); the in-flight counts are the runs that hold an       *)
(* account, counted again at each step (MediaInv); a page is told the        *)
(* truth because every event on its way is true of the batch and stays       *)
(* true (TaskInv).                                                           *)
(*****************************************************************************)
EXTENDS MaintainerJob, MediaRequests, TaskProgress, FiniteSetTheorems, TLAPS

-----------------------------------------------------------------------------
(*****************************************************************************)
(* The registration job.                                                     *)
(*****************************************************************************)

Written    == Worker \X Nat
ResultKind == [worker : Worker, tokens : SUBSET Written, error : BOOLEAN]

JobShape ==
    /\ at \in [Worker -> Alive \cup {"none", "gone"}]
    /\ round \in [Worker -> Nat]
    /\ file \in [Worker -> SUBSET Written]
    /\ collected \in [Worker -> SUBSET Written]
    /\ results \in SUBSET ResultKind

\* What a worker's process holds of its file.
Saving(w) == IF at[w] = "saved" THEN {<<w, round[w]>>} ELSE {}

InMemory(w) == Batch /\ Running(w) => file[w] \subseteq collected[w] \cup Saving(w)

\* Nobody writes who is not of the job, and a thread of "gpt" writes no file.
NoFile(w) == at[w] = "none" \/ job = "gpt" => file[w] = {}

\* A result comes from a process that has ended, and without an error it is its file.
ResultWhole(r) == at[r.worker] = "gone" /\ (~r.error => file[r.worker] \subseteq r.tokens)

FilesDelivered == job = "none" => \A w \in Worker : file[w] \subseteq delivered

JobInv ==
    /\ JobShape
    /\ \A w \in Worker : InMemory(w) /\ NoFile(w)
    /\ \A r \in results : ResultWhole(r)
    /\ job = "solo" => \A v, w \in Team : v = w
    /\ FilesDelivered

-----------------------------------------------------------------------------
\* A step that changes neither files nor results, and ends no job, keeps the invariant
\* if a worker that goes on has what it had.
LEMMA JobGoesOn ==
    ASSUME JobInv, UNCHANGED <<job, file, results, delivered>>,
           at' \in [Worker -> Alive \cup {"none", "gone"}],
           round' \in [Worker -> Nat], collected' \in [Worker -> SUBSET Written],
           \A w \in Worker : at[w] = "none" <=> at'[w] = "none",
           \A w \in Worker : at[w] = "gone" => at'[w] = "gone",
           \A w \in Worker : InMemory(w)'
    PROVE  JobInv'
<1>1. JobShape' BY DEF JobInv, JobShape
<1>2. \A w \in Worker : NoFile(w)' BY DEF JobInv, NoFile
<1>3. \A r \in results : ResultWhole(r)'
  BY DEF JobInv, JobShape, ResultWhole, ResultKind
<1>4. Team' = Team BY DEF Team
<1>5. FilesDelivered' BY DEF JobInv, FilesDelivered
<1> QED BY <1>1, <1>2, <1>3, <1>4, <1>5 DEF JobInv

\* One worker moves from one place to another, its round and its tokens as they were.
LEMMA WorkerMovesOn ==
    ASSUME JobInv, NEW w \in Worker, NEW to \in Alive \cup {"gone"}, to # "saved",
           Running(w), at[w] # "saved" \/ to = "gone", at' = [at EXCEPT ![w] = to],
           UNCHANGED <<job, file, results, delivered, collected>>,
           round' \in [Worker -> Nat], \A v \in Worker : v # w => round'[v] = round[v]
    PROVE  JobInv'
<1>1. at' \in [Worker -> Alive \cup {"none", "gone"}] BY DEF JobInv, JobShape
<1>2. at[w] # "none" /\ at[w] # "gone" /\ to # "none" BY DEF Running, Alive
<1>3. \A v \in Worker : v # w => at'[v] = at[v] BY DEF JobInv, JobShape
<1>4. at'[w] = to BY DEF JobInv, JobShape
<1>5. ASSUME NEW v \in Worker PROVE InMemory(v)'
  <2>0. InMemory(v) BY DEF JobInv
  <2>1. CASE v = w
    BY <1>4, <2>0, <2>1 DEF InMemory, Saving, Batch, Running, Alive
  <2>2. CASE v # w
    BY <1>3, <2>0, <2>2 DEF InMemory, Saving, Batch, Running
  <2> QED BY <2>1, <2>2
<1>6. collected' \in [Worker -> SUBSET Written] BY DEF JobInv, JobShape
<1> QED BY <1>1, <1>2, <1>3, <1>4, <1>5, <1>6, JobGoesOn

\* No worker moves.
LEMMA NobodyMoves ==
    JobInv /\ UNCHANGED <<job, at, round, collected, file, results, delivered>> => JobInv'
<1> SUFFICES ASSUME JobInv, UNCHANGED <<job, at, round, collected, file, results, delivered>>
             PROVE  JobInv'
  OBVIOUS
<1>1. \A w \in Worker : InMemory(w)' BY DEF JobInv, InMemory, Saving, Batch, Running
<1> QED BY <1>1, JobGoesOn DEF JobInv, JobShape

LEMMA RunKeeps ==
    ASSUME JobInv, NEW kind \in {"solo", "pool", "gpt"}, NEW W \in SUBSET Worker \ {{}},
           Run(kind, W)
    PROVE  JobInv'
<1>1. /\ job' = kind /\ results' = {}
      /\ at' = [w \in Worker |-> IF w \in W THEN (IF kind = "gpt" THEN "loop" ELSE "boot")
                                            ELSE "none"]
      /\ round' = [w \in Worker |-> 0] /\ collected' = [w \in Worker |-> {}]
      /\ file' = [w \in Worker |-> {}]
  BY DEF Run
<1>2. JobShape' BY <1>1 DEF JobShape, Alive
<1>3. \A w \in Worker : InMemory(w)' /\ NoFile(w)' BY <1>1 DEF InMemory, NoFile
<1>4. kind = "solo" => \A v, w \in Team' : v = w
  <2> SUFFICES ASSUME kind = "solo", NEW v \in Team', NEW w \in Team' PROVE v = w OBVIOUS
  <2>1. Cardinality(W) = 1 BY DEF Run
  <2>2. IsFiniteSet(W) BY JobAssumption, FS_Subset
  <2>3. PICK u : W = {u} BY <2>1, <2>2, FS_Singleton
  <2>4. v \in W /\ w \in W BY <1>1 DEF Team
  <2> QED BY <2>3, <2>4
<1>5. FilesDelivered' BY <1>1 DEF FilesDelivered
<1> QED BY <1>1, <1>2, <1>3, <1>4, <1>5 DEF JobInv

LEMMA AppendKeeps == ASSUME JobInv, NEW w \in Worker, AppendToFile(w) PROVE JobInv'
<1> DEFINE t == <<w, round[w]>>
<1>1. /\ at[w] = "round" /\ at' = [at EXCEPT ![w] = "saved"]
      /\ file' = [file EXCEPT ![w] = @ \cup {t}] /\ job \in {"solo", "pool"}
      /\ UNCHANGED <<job, round, collected, results, delivered>>
  BY DEF AppendToFile, Goes, Batch, control, parent
<1>2. t \in Written BY DEF JobInv, JobShape, Written
<1>3. /\ at'[w] = "saved" /\ file'[w] = file[w] \cup {t}
      /\ \A v \in Worker : v # w => at'[v] = at[v] /\ file'[v] = file[v]
  BY <1>1 DEF JobInv, JobShape
<1>4. JobShape' BY <1>1, <1>2 DEF JobInv, JobShape, Alive
<1>5. ASSUME NEW v \in Worker PROVE InMemory(v)' /\ NoFile(v)'
  <2>0. InMemory(v) /\ NoFile(v) BY DEF JobInv
  <2>1. CASE v = w
    <3>1. file[w] \subseteq collected[w]
      BY <1>1, <2>0, <2>1 DEF InMemory, Saving, Batch, Running, Alive
    <3> QED BY <1>1, <1>3, <2>1, <3>1 DEF InMemory, NoFile, Saving
  <2>2. CASE v # w
    BY <1>1, <1>3, <2>0, <2>2 DEF InMemory, NoFile, Saving, Batch, Running
  <2> QED BY <2>1, <2>2
<1>6. ASSUME NEW r \in results PROVE ResultWhole(r)'
  <2>1. ResultWhole(r) /\ r.worker \in Worker BY DEF JobInv, JobShape, ResultKind
  <2>2. r.worker # w BY <1>1, <2>1 DEF ResultWhole
  <2> QED BY <1>3, <2>1, <2>2 DEF ResultWhole
<1>7. Team' = Team
  <2>1. \A v \in Worker : at'[v] # "none" <=> at[v] # "none" BY <1>1, <1>3
  <2> QED BY <2>1 DEF Team
<1>8. FilesDelivered' BY <1>1 DEF FilesDelivered
<1> QED BY <1>1, <1>4, <1>5, <1>6, <1>7, <1>8 DEF JobInv

LEMMA RoundDoneKeeps == ASSUME JobInv, NEW w \in Worker, RoundDone(w) PROVE JobInv'
<1>1. /\ at[w] = "saved" /\ at' = [at EXCEPT ![w] = "rest"]
      /\ collected' = [collected EXCEPT ![w] = @ \cup {<<w, round[w]>>}]
      /\ Batch /\ UNCHANGED <<job, round, file, results, delivered>>
  BY DEF RoundDone, Goes, control, parent
<1>2. /\ at'[w] = "rest" /\ collected'[w] = collected[w] \cup {<<w, round[w]>>}
      /\ \A v \in Worker : v # w => at'[v] = at[v] /\ collected'[v] = collected[v]
  BY <1>1 DEF JobInv, JobShape
<1>3. /\ at' \in [Worker -> Alive \cup {"none", "gone"}]
      /\ collected' \in [Worker -> SUBSET Written] /\ round' \in [Worker -> Nat]
  BY <1>1 DEF JobInv, JobShape, Written, Alive
<1>4. ASSUME NEW v \in Worker PROVE InMemory(v)'
  <2>0. InMemory(v) BY DEF JobInv
  <2>1. CASE v = w
    <3>1. file[w] \subseteq collected[w] \cup {<<w, round[w]>>}
      BY <1>1, <2>0, <2>1 DEF InMemory, Saving, Running, Alive
    <3> QED BY <1>1, <1>2, <2>1, <3>1 DEF InMemory
  <2>2. CASE v # w
    BY <1>1, <1>2, <2>0, <2>2 DEF InMemory, Saving, Batch, Running
  <2> QED BY <2>1, <2>2
<1> QED BY <1>1, <1>2, <1>3, <1>4, JobGoesOn

\* A process that ends sends a result, or waits for room with nothing sent.
LEMMA SendKeeps ==
    ASSUME JobInv, job = "pool", NEW w \in Worker, Running(w), at[w] # "saved",
           NEW S \in SUBSET Written, NEW failed \in BOOLEAN, failed \/ S = collected[w],
           Send(w, S, failed),
           UNCHANGED <<job, round, collected, file, delivered>>
    PROVE  JobInv'
<1>1. CASE ~Fits(S)
  <2>1. at' = [at EXCEPT ![w] = "stuck"] /\ results' = results BY <1>1 DEF Send
  <2> QED BY <2>1, WorkerMovesOn DEF JobInv, JobShape, Alive
<1>2. CASE Fits(S)
  <2> DEFINE n == [worker |-> w, tokens |-> S, error |-> failed]
  <2>1. results' = results \cup {n} /\ at' = [at EXCEPT ![w] = "gone"] BY <1>2 DEF Send
  <2>2. n \in ResultKind /\ n.worker = w /\ n.tokens = S /\ n.error = failed BY DEF ResultKind
  <2> HIDE DEF n
  <2>3. at'[w] = "gone" /\ \A v \in Worker : v # w => at'[v] = at[v]
    BY <2>1 DEF JobInv, JobShape
  <2>4. JobShape' BY <2>1, <2>2 DEF JobInv, JobShape
  <2>5. ASSUME NEW v \in Worker PROVE InMemory(v)' /\ NoFile(v)'
    <3>0. InMemory(v) /\ NoFile(v) BY DEF JobInv
    <3>1. CASE v = w BY <2>3, <3>0, <3>1 DEF InMemory, NoFile, Running, Alive
    <3>2. CASE v # w BY <2>3, <3>0, <3>2 DEF InMemory, NoFile, Saving, Batch, Running
    <3> QED BY <3>1, <3>2
  <2>6. ASSUME NEW r \in results' PROVE ResultWhole(r)'
    <3>1. CASE r = n
      <4>1. file[w] \subseteq collected[w] BY DEF JobInv, InMemory, Batch, Saving
      <4> QED BY <2>2, <2>3, <3>1, <4>1 DEF ResultWhole
    <3>2. CASE r \in results
      <4>1. ResultWhole(r) /\ r.worker \in Worker BY <3>2 DEF JobInv, JobShape, ResultKind
      <4> QED BY <2>3, <4>1 DEF ResultWhole
    <3> QED BY <2>1, <3>1, <3>2
  <2>7. FilesDelivered' BY DEF FilesDelivered
  <2> QED BY <2>4, <2>5, <2>6, <2>7 DEF JobInv
<1> QED BY <1>1, <1>2

\* The parent reads the results, and the files unless every worker has sent all it had.
LEMMA CollectKeeps == ASSUME JobInv, CollectResults PROVE JobInv'
<1>1. /\ job = "pool" /\ job' = "none" /\ delivered' = Unread \cup Recovered
      /\ UNCHANGED <<at, round, collected, file, results>>
  BY DEF CollectResults, JobEnds, workers
<1>2. ASSUME NEW w \in Worker PROVE file[w] \subseteq delivered'
  <2>1. CASE w \notin Team
    BY <2>1 DEF JobInv, NoFile, Team
  <2>2. CASE w \in Team /\ Errors = {}
    <3>1. PICK r \in results : r.worker = w /\ ~r.error BY <2>2 DEF Errors
    <3>2. file[w] \subseteq r.tokens BY <3>1 DEF JobInv, ResultWhole
    <3>3. r.tokens \subseteq Unread BY DEF Unread
    <3> QED BY <1>1, <3>2, <3>3
  <2>3. CASE w \in Team /\ Errors # {}
    <3>1. Recovered = UNION {file[v] : v \in Team} BY <2>3 DEF Recovered
    <3>2. file[w] \subseteq UNION {file[v] : v \in Team} BY <2>3
    <3> QED BY <1>1, <3>1, <3>2
  <2> QED BY <2>1, <2>2, <2>3
<1>3. FilesDelivered' BY <1>1, <1>2 DEF FilesDelivered
<1>4. JobShape' BY <1>1 DEF JobInv, JobShape
<1>5. \A w \in Worker : InMemory(w)' /\ NoFile(w)'
  BY <1>1 DEF JobInv, InMemory, NoFile, Batch
<1>6. \A r \in results' : ResultWhole(r)' BY <1>1 DEF JobInv, ResultWhole
<1> QED BY <1>1, <1>3, <1>4, <1>5, <1>6 DEF JobInv

LEMMA SoloKeeps == ASSUME JobInv, NEW w \in Worker, SoloEnds(w) PROVE JobInv'
<1>1. /\ job = "solo" /\ job' = "none" /\ delivered' = collected[w]
      /\ at[w] \in {"exit", "boot", "rest"} /\ at' = [at EXCEPT ![w] = "gone"]
      /\ UNCHANGED <<round, collected, file, results>>
  BY DEF SoloEnds, JobEnds, BrowserFails
<1>2. ASSUME NEW v \in Worker PROVE file[v] \subseteq delivered'
  <2>1. CASE v = w
    BY <1>1, <2>1 DEF JobInv, InMemory, Batch, Running, Alive, Saving
  <2>2. CASE v # w
    <3>1. v \notin Team BY <1>1, <2>2 DEF JobInv, Team
    <3> QED BY <3>1 DEF JobInv, NoFile, Team
  <2> QED BY <2>1, <2>2
<1>3. FilesDelivered' BY <1>1, <1>2 DEF FilesDelivered
<1>4. JobShape' BY <1>1 DEF JobInv, JobShape
<1>5. at'[w] = "gone" /\ \A v \in Worker : v # w => at'[v] = at[v]
  BY <1>1 DEF JobInv, JobShape
<1>6. \A v \in Worker : InMemory(v)' /\ NoFile(v)'
  BY <1>1, <1>5 DEF JobInv, InMemory, NoFile, Batch
<1>7. \A r \in results' : ResultWhole(r)'
  BY <1>1, <1>5 DEF JobInv, JobShape, ResultKind, ResultWhole
<1> QED BY <1>1, <1>3, <1>4, <1>6, <1>7 DEF JobInv

\* In a thread pool no file is written, and none was.
LEMMA GptKeeps ==
    ASSUME JobInv, job = "gpt", job' \in {"gpt", "none"},
           at' \in [Worker -> Alive \cup {"none", "gone"}], round' \in [Worker -> Nat],
           \A w \in Worker : at[w] = "gone" => at'[w] = "gone",
           UNCHANGED <<collected, file, results>>
    PROVE  JobInv'
<1>1. \A w \in Worker : file[w] = {} BY DEF JobInv, NoFile
<1>2. JobShape' BY DEF JobInv, JobShape
<1>3. \A w \in Worker : InMemory(w)' /\ NoFile(w)' BY <1>1 DEF InMemory, NoFile, Batch
<1>4. \A r \in results' : ResultWhole(r)'
  BY DEF JobInv, JobShape, ResultKind, ResultWhole
<1>5. FilesDelivered' BY <1>1 DEF FilesDelivered
<1> QED BY <1>2, <1>3, <1>4, <1>5 DEF JobInv

-----------------------------------------------------------------------------
LEMMA BatchKeeps ==
    ASSUME JobInv, NEW w \in Worker,
           StartBrowser(w) \/ CheckEvents(w) \/ BeginRound(w) \/ RoundFailed(w) \/ ResetBrowser(w)
    PROVE  JobInv'
<1>1. UNCHANGED <<job, collected, file, results, delivered>>
  BY DEF StartBrowser, CheckEvents, BeginRound, RoundFailed, ResetBrowser, control, parent
<1>2. PICK to \in {"exit", "loop", "cleared", "round", "rest"} : at' = [at EXCEPT ![w] = to]
  BY DEF StartBrowser, CheckEvents, BeginRound, RoundFailed, ResetBrowser, Goes
<1>3. Running(w) /\ at[w] # "saved"
  BY DEF StartBrowser, CheckEvents, BeginRound, RoundFailed, ResetBrowser, Goes, Running, Alive
<1>4. round' \in [Worker -> Nat] /\ \A v \in Worker : v # w => round'[v] = round[v]
  BY DEF StartBrowser, CheckEvents, BeginRound, RoundFailed, ResetBrowser, JobInv, JobShape
<1>5. to \in Alive /\ to # "saved" BY DEF Alive
<1> QED BY <1>1, <1>2, <1>3, <1>4, <1>5, WorkerMovesOn

LEMMA EndedKeeps ==
    ASSUME JobInv, NEW w \in Worker, WorkerKilled(w) \/ TerminateIdle(w)
    PROVE  JobInv'
<1>1. /\ Running(w) /\ at' = [at EXCEPT ![w] = "gone"]
      /\ UNCHANGED <<job, round, collected, file, results, delivered>>
  BY DEF WorkerKilled, TerminateIdle, control, parent
<1>2. round' \in [Worker -> Nat] /\ \A v \in Worker : v # w => round'[v] = round[v]
  BY <1>1 DEF JobInv, JobShape
<1> QED BY <1>1, <1>2, WorkerMovesOn

LEMMA ReportKeeps ==
    ASSUME JobInv, NEW w \in Worker, SendResult(w) \/ WorkerRaises(w)
    PROVE  JobInv'
<1>1. /\ job = "pool" /\ Running(w) /\ at[w] # "saved"
      /\ UNCHANGED <<job, round, collected, file, delivered>>
  BY DEF SendResult, WorkerRaises, BrowserFails, Running, Alive, control
<1>2. collected[w] \in SUBSET Written BY DEF JobInv, JobShape
<1>3. Send(w, collected[w], FALSE) \/ Send(w, {}, TRUE) BY DEF SendResult, WorkerRaises
<1>4. CASE Send(w, collected[w], FALSE) BY <1>1, <1>2, <1>4, SendKeeps
<1>5. CASE Send(w, {}, TRUE) BY <1>1, <1>5, SendKeeps
<1> QED BY <1>3, <1>4, <1>5

LEMMA ThreadKeeps ==
    ASSUME JobInv, NEW w \in Worker, SubmitRound(w) \/ GptStep(w)
    PROVE  JobInv'
<1>1. job = "gpt" /\ job' = "gpt" /\ UNCHANGED <<collected, file, results>>
  BY DEF SubmitRound, GptStep, AttemptFailed, AccountSaved, control, parent
<1>2. /\ at[w] # "gone" /\ round' \in [Worker -> Nat]
      /\ \E to \in {"round", "loop"} : at' = [at EXCEPT ![w] = to]
  <2>1. CASE SubmitRound(w) BY <2>1 DEF SubmitRound, Goes, JobInv, JobShape
  <2>2. CASE AttemptFailed(w)
    <3>1. at[w] = "round" /\ round' \in [Worker -> Nat]
      BY <2>2 DEF AttemptFailed, JobInv, JobShape
    <3>2. CASE round'[w] = Attempts
      BY <2>2, <3>1, <3>2 DEF AttemptFailed
    <3>3. CASE round'[w] # Attempts
      BY <2>2, <3>1, <3>3 DEF AttemptFailed
    <3> QED BY <3>1, <3>2, <3>3
  <2>3. CASE AccountSaved(w) BY <2>3 DEF AccountSaved, Goes, JobInv, JobShape
  <2> QED BY <2>1, <2>2, <2>3 DEF GptStep
<1>3. /\ at' \in [Worker -> Alive \cup {"none", "gone"}]
      /\ \A v \in Worker : at[v] = "gone" => at'[v] = "gone"
  BY <1>2 DEF JobInv, JobShape, Alive
<1> QED BY <1>1, <1>2, <1>3, GptKeeps

LEMMA GptEndsKeeps == ASSUME JobInv, GptEnds PROVE JobInv'
<1>1. /\ job = "gpt" /\ job' = "none" /\ UNCHANGED <<round, collected, file, results>>
      /\ at' = [w \in Worker |-> IF w \in Team THEN "gone" ELSE "none"]
  BY DEF GptEnds, JobEnds, parent
<1>2. /\ at' \in [Worker -> Alive \cup {"none", "gone"}]
      /\ \A v \in Worker : at[v] = "gone" => at'[v] = "gone"
  BY <1>1 DEF Team
<1>3. round' \in [Worker -> Nat] BY <1>1 DEF JobInv, JobShape
<1> QED BY <1>1, <1>2, <1>3, GptKeeps

LEMMA JobInvHolds == JobSpec => []JobInv
<1>1. JobInit => JobInv
  BY DEF JobInit, JobInv, JobShape, InMemory, NoFile, FilesDelivered, Batch, Alive
<1>2. JobInv /\ [JobNext]_jobVars => JobInv'
  <2> SUFFICES ASSUME JobInv, [JobNext]_jobVars PROVE JobInv' OBVIOUS
  <2>1. ASSUME maintainer_pause \/ maintainer_resume \/ maintainer_stop \/ Tick
        PROVE  JobInv'
    BY <2>1, NobodyMoves DEF maintainer_pause, maintainer_resume, maintainer_stop, Command,
       Tick, workers, parent, control
  <2>2. ASSUME NEW w \in Worker, Reap(w) PROVE JobInv'
    BY <2>2, NobodyMoves DEF Reap, control, workers
  <2>3. CASE UNCHANGED jobVars
    BY <2>3, NobodyMoves DEF jobVars, control, workers, parent
  <2>4. ASSUME NEW w \in Worker, RoundEnds(w) \/ BatchStep(w) PROVE JobInv'
    BY <2>4, BatchKeeps, AppendKeeps, RoundDoneKeeps, ReportKeeps, SoloKeeps
       DEF RoundEnds, BatchStep
  <2>5. ASSUME Watch PROVE JobInv'
    BY <2>2, <2>5, EndedKeeps, CollectKeeps DEF Watch
  <2> QED BY <2>1, <2>3, <2>4, <2>5, RunKeeps, ReportKeeps, EndedKeeps, ThreadKeeps,
             GptEndsKeeps DEF JobNext
<1> QED BY <1>1, <1>2, PTL DEF JobSpec

-----------------------------------------------------------------------------
\* NoTokenLost: for any number of workers and rounds, every token in an output file is
\* handed to the account pool when the job ends: the results of the workers have it, or
\* some worker has sent none, and then the files are read.
THEOREM NoTokenLostHolds == JobSpec => []NoTokenLost
<1>1. JobInv => NoTokenLost
  BY DEF JobInv, FilesDelivered, NoTokenLost
<1> QED BY <1>1, JobInvHolds, PTL

-----------------------------------------------------------------------------
(*****************************************************************************)
(* Image and video requests.                                                 *)
(*****************************************************************************)

Runs == MediaRequest \X Index
HeldRuns(a) == {x \in Runs : run[x].account = a}

MediaTyped ==
    /\ out \subseteq Account
    /\ request \in [MediaRequest -> RequestState]
    /\ run \in [Runs -> RunState]
    /\ videoJobs \subseteq MediaRequest /\ returns \in Nat

\* A run has an account while it works, and then only.
RunHolds(x) == run[x].phase = "working" <=> run[x].account # Nobody

RunBounded(x) == run[x].made <= Segments + MaxImages

\* A request has no runs before it starts, then one, or a batch of them; and none
\* that is active once it is over.
RunBelongs(x) ==
    /\ request[x[1]].phase = "idle" => run[x].phase = "none"
    /\ run[x].phase # "none" => x[2] = 1 \/ request[x[1]].kind \in Batches
    /\ request[x[1]].phase \in {"done", "failed", "gone"} /\ request[x[1]].kind \notin Detached
           => ~Active(x)

LeasesFit == leases = [a \in Account |-> Cardinality(HeldRuns(a))]

MediaInv ==
    /\ MediaTyped
    /\ \A x \in Runs : RunHolds(x) /\ RunBounded(x) /\ RunBelongs(x)
    /\ LeasesFit

-----------------------------------------------------------------------------
LEMMA RunsFinite == \A a : IsFiniteSet(HeldRuns(a))
<1>1. IsFiniteSet(Runs) BY MediaAssumption, FS_Product DEF Runs
<1>2. \A a : HeldRuns(a) \in SUBSET Runs BY DEF HeldRuns
<1> QED BY <1>1, <1>2, FS_Subset

LEMMA RunOf ==
    ASSUME NEW x \in Runs
    PROVE  x[1] \in MediaRequest /\ x[2] \in Index /\ x \in RunsOf(x[1])
BY DEF Runs, RunsOf

LEMMA RunsOfRequest ==
    ASSUME NEW r \in MediaRequest, NEW x \in RunsOf(r)
    PROVE  x \in Runs /\ x[1] = r /\ x = <<r, x[2]>>
BY DEF Runs, RunsOf

\* The counts follow a run that takes an account, one that gives it back, and steps
\* in which neither happens.
LEMMA TakenIsCounted ==
    ASSUME MediaTyped, LeasesFit, NEW x \in Runs, NEW a \in Account,
           run' = [run EXCEPT ![x] = run'[x]], run[x].account # a, run'[x].account = a,
           run[x].account \notin Account,
           leases' = [leases EXCEPT ![a] = @ + 1]
    PROVE  LeasesFit'
<1>1. HeldRuns(a)' = HeldRuns(a) \cup {x} /\ x \notin HeldRuns(a)
  BY DEF HeldRuns, MediaTyped
<1>2. \A b \in Account : b # a => HeldRuns(b)' = HeldRuns(b)
  BY DEF HeldRuns, MediaTyped
<1>3. Cardinality(HeldRuns(a) \cup {x}) = Cardinality(HeldRuns(a)) + 1
  BY <1>1, RunsFinite, FS_AddElement
<1> QED BY <1>1, <1>2, <1>3 DEF LeasesFit

LEMMA FreedIsCounted ==
    ASSUME MediaTyped, LeasesFit, NEW x \in Runs,
           run' = [run EXCEPT ![x] = run'[x]], run[x].account \in Account,
           run'[x].account \notin Account, Freed(run[x].account)
    PROVE  LeasesFit'
<1> DEFINE a == run[x].account
<1>1. HeldRuns(a) \ {x} = {y \in Runs : run'[y].account = a} /\ x \in HeldRuns(a)
  BY DEF HeldRuns, MediaTyped
<1>2. \A b \in Account : b # a => {y \in Runs : run'[y].account = b} = HeldRuns(b)
  BY DEF HeldRuns, MediaTyped
<1>3. Cardinality(HeldRuns(a) \ {x}) = Cardinality(HeldRuns(a)) - 1
  BY <1>1, RunsFinite, FS_RemoveElement
<1>4. leases' = [leases EXCEPT ![a] = @ - 1] BY DEF Freed
<1>5. \A b : HeldRuns(b)' = {y \in Runs : run'[y].account = b} BY DEF HeldRuns
<1>6. a \in Account OBVIOUS
<1> HIDE DEF a
<1>7. leases' = [b \in Account |-> Cardinality({y \in Runs : run'[y].account = b})]
  BY <1>1, <1>2, <1>3, <1>4, <1>6 DEF LeasesFit
<1> QED BY <1>5, <1>7 DEF LeasesFit

LEMMA SameIsCounted ==
    ASSUME LeasesFit, \A x \in Runs : run'[x].account = run[x].account, leases' = leases
    PROVE  LeasesFit'
<1>1. \A a : HeldRuns(a)' = HeldRuns(a) BY DEF HeldRuns
<1> QED BY <1>1 DEF LeasesFit

\* The images of a request are counted, for they are finitely many.
LEMMA MadeCounted ==
    ASSUME MediaInv, NEW X \in SUBSET Runs
    PROVE  MadeBy(X) \in Nat
<1> DEFINE N == Segments + MaxImages
           all == Runs \X (1..N)
           made == UNION {{x} \X (1..run[x].made) : x \in X}
<1>1. N \in Nat BY MediaAssumption
<1>2. IsFiniteSet(Runs) BY MediaAssumption, FS_Product DEF Runs
<1>3. IsFiniteSet(1..N) BY <1>1, FS_Interval
<1>4. IsFiniteSet(all) BY <1>2, <1>3, FS_Product
<1>5. \A x \in X : {x} \X (1..run[x].made) \subseteq all
  <2> SUFFICES ASSUME NEW x \in X PROVE {x} \X (1..run[x].made) \subseteq all OBVIOUS
  <2>1. run[x].made \in Nat /\ run[x].made <= N
    BY DEF MediaInv, MediaTyped, RunBounded, RunState
  <2>2. 1..run[x].made \subseteq 1..N BY <1>1, <2>1
  <2> QED BY <2>2
<1>6. made \subseteq all
  <2> HIDE DEF all
  <2> QED BY <1>5
<1> HIDE DEF made, all
<1>7. IsFiniteSet(made) BY <1>4, <1>6, FS_Subset
<1>8. Cardinality(made) \in Nat BY <1>7, FS_CardinalityType
<1> QED BY <1>8 DEF MadeBy, made

-----------------------------------------------------------------------------
LEMMA RunKnown ==
    ASSUME MediaInv, NEW x \in Runs
    PROVE  /\ run[x] \in RunState /\ RunHolds(x) /\ RunBounded(x) /\ RunBelongs(x)
           /\ x[1] \in MediaRequest /\ request[x[1]] \in RequestState
           /\ run[x].account # Nobody => run[x].account \in Account
BY RunOf DEF MediaInv, MediaTyped, RunState

\* A step of a run that was active, its request being what it was.
LEMMA ActiveStep ==
    ASSUME MediaInv, NEW x \in Runs, Active(x),
           run' = [run EXCEPT ![x] = run'[x]], run'[x] \in RunState,
           run'[x].phase = "working" <=> run'[x].account # Nobody,
           run'[x].made <= Segments + MaxImages,
           request' \in [MediaRequest -> RequestState],
           \A r \in MediaRequest : /\ request'[r].kind = request[r].kind
                                   /\ request'[r].phase = request[r].phase,
           out' \subseteq Account, LeasesFit', videoJobs' = videoJobs, returns' = returns
    PROVE  MediaInv'
<1>1. MediaTyped' BY DEF MediaInv, MediaTyped
<1>2. ASSUME NEW y \in Runs PROVE RunHolds(y)' /\ RunBounded(y)' /\ RunBelongs(y)'
  <2>0. RunHolds(y) /\ RunBounded(y) /\ RunBelongs(y) /\ y[1] \in MediaRequest
    BY RunKnown
  <2>1. CASE y = x
    BY <2>0, <2>1 DEF RunHolds, RunBounded, RunBelongs, Active
  <2>2. CASE y # x
    <3>1. run'[y] = run[y] BY <2>2 DEF MediaInv, MediaTyped
    <3> QED BY <2>0, <3>1 DEF RunHolds, RunBounded, RunBelongs, Active
  <2> QED BY <2>1, <2>2
<1> QED BY <1>1, <1>2 DEF MediaInv

LEMMA ReserveKeeps == ASSUME MediaInv, NEW x \in Runs, ReserveRun(x) PROVE MediaInv'
<1>0. /\ run[x] \in RunState /\ RunHolds(x) /\ RunBounded(x) /\ Active(x)
      /\ run[x].phase = "reserving"
  BY RunKnown DEF ReserveRun, Active
<1>1. PICK a \in Available(x) :
          /\ run' = [run EXCEPT ![x] = [run[x] EXCEPT !.phase = "working", !.account = a, !.made = 0]]
          /\ leases' = [leases EXCEPT ![a] = @ + 1]
  BY DEF ReserveRun
<1>2. a \in Account /\ a # Nobody BY MediaAssumption DEF Available
<1>3. run'[x] = [run[x] EXCEPT !.phase = "working", !.account = a, !.made = 0]
      /\ run' = [run EXCEPT ![x] = run'[x]]
  BY <1>1 DEF MediaInv, MediaTyped
<1>4. run'[x] \in RunState /\ run'[x].phase = "working" /\ run'[x].account = a /\ run'[x].made = 0
  <2> DEFINE s == [run[x] EXCEPT !.phase = "working", !.account = a, !.made = 0]
  <2>1. s \in RunState /\ s.phase = "working" /\ s.account = a /\ s.made = 0
    BY <1>0, <1>2 DEF RunState
  <2> HIDE DEF s
  <2> QED BY <1>3, <2>1 DEF s
<1>5. run[x].account = Nobody BY <1>0 DEF RunHolds
<1>6. LeasesFit'
  BY <1>1, <1>2, <1>3, <1>4, <1>5, TakenIsCounted, MediaAssumption DEF MediaInv
<1>7. 0 <= Segments + MaxImages BY MediaAssumption
<1>8. UNCHANGED <<out, request, videoJobs, returns>> BY DEF ReserveRun
<1> QED BY <1>0, <1>2, <1>3, <1>4, <1>6, <1>7, <1>8, ActiveStep DEF MediaInv, MediaTyped

LEMMA NoneAvailableKeeps == ASSUME MediaInv, NEW x \in Runs, NoneAvailable(x) PROVE MediaInv'
<1>0. /\ run[x] \in RunState /\ RunHolds(x) /\ RunBounded(x) /\ Active(x)
      /\ run[x].phase = "reserving"
  BY RunKnown DEF NoneAvailable, Active
<1>1. run'[x] = [run[x] EXCEPT !.phase = "failed"] /\ run' = [run EXCEPT ![x] = run'[x]]
  BY DEF NoneAvailable, MediaInv, MediaTyped
<1>2. /\ run'[x] \in RunState /\ run'[x].phase = "failed"
      /\ run'[x].account = run[x].account /\ run'[x].made = run[x].made
  BY <1>0, <1>1 DEF RunState
<1>3. UNCHANGED <<leases, out, request, videoJobs, returns>> BY DEF NoneAvailable
<1>4. LeasesFit'
  <2>1. \A y \in Runs : run'[y].account = run[y].account
    BY <1>1, <1>2 DEF MediaInv, MediaTyped
  <2> QED BY <1>3, <2>1, SameIsCounted DEF MediaInv
<1> QED
  BY <1>0, <1>1, <1>2, <1>3, <1>4, ActiveStep DEF MediaInv, MediaTyped, RunHolds, RunBounded

LEMMA MakeKeeps == ASSUME MediaInv, NEW x \in Runs, Make(x) PROVE MediaInv'
<1>0. /\ run[x] \in RunState /\ RunHolds(x) /\ Active(x) /\ run[x].phase = "working"
      /\ run[x].made < Worth(x)
  BY RunKnown DEF Make, Active
<1>1. run'[x] = [run[x] EXCEPT !.made = run[x].made + 1] /\ run' = [run EXCEPT ![x] = run'[x]]
  BY DEF Make, MediaInv, MediaTyped
<1>2. /\ run'[x] \in RunState /\ run'[x].phase = run[x].phase
      /\ run'[x].account = run[x].account /\ run'[x].made = run[x].made + 1
  BY <1>0, <1>1 DEF RunState
<1>3. Worth(x) <= Segments + MaxImages /\ Worth(x) \in Nat BY MediaAssumption DEF Worth
<1>4. run'[x].made <= Segments + MaxImages
  <2>1. run[x].made \in Nat BY <1>0 DEF RunState
  <2> QED BY <1>0, <1>2, <1>3, <2>1, MediaAssumption
<1>5. /\ request' \in [MediaRequest -> RequestState]
      /\ \A r \in MediaRequest : /\ request'[r].kind = request[r].kind
                                 /\ request'[r].phase = request[r].phase
  <2>1. request \in [MediaRequest -> RequestState] BY DEF MediaInv, MediaTyped
  <2>2. CASE request' = [request EXCEPT ![x[1]].sent = @ + 1]
    BY <2>1, <2>2, RunOf DEF RequestState
  <2>3. CASE request' = request BY <2>1, <2>3
  <2> QED BY <2>2, <2>3 DEF Make, SentOn
<1>6. UNCHANGED <<leases, out, videoJobs, returns>> BY DEF Make
<1>7. LeasesFit'
  <2>1. \A y \in Runs : run'[y].account = run[y].account
    BY <1>1, <1>2 DEF MediaInv, MediaTyped
  <2> QED BY <1>6, <2>1, SameIsCounted DEF MediaInv
<1> QED
  BY <1>0, <1>1, <1>2, <1>4, <1>5, <1>6, <1>7, ActiveStep DEF MediaInv, MediaTyped, RunHolds

LEMMA SucceedKeeps == ASSUME MediaInv, NEW x \in Runs, Succeed(x) PROVE MediaInv'
<1>0. /\ run[x] \in RunState /\ RunHolds(x) /\ RunBounded(x) /\ Active(x)
      /\ run[x].phase = "working" /\ (run[x].account # Nobody => run[x].account \in Account)
  BY RunKnown DEF Succeed, Active
<1>1. run'[x] = [run[x] EXCEPT !.phase = "ok", !.account = Nobody]
      /\ run' = [run EXCEPT ![x] = run'[x]]
  BY DEF Succeed, MediaInv, MediaTyped
<1>2. /\ run'[x] \in RunState /\ run'[x].phase = "ok"
      /\ run'[x].account = Nobody /\ run'[x].made = run[x].made
  BY <1>0, <1>1 DEF RunState
<1>3. UNCHANGED <<out, request, videoJobs, returns>> /\ Freed(run[x].account) BY DEF Succeed
<1>4. LeasesFit'
  BY <1>0, <1>1, <1>2, <1>3, FreedIsCounted, MediaAssumption DEF MediaInv, RunHolds
<1> QED BY <1>0, <1>1, <1>2, <1>3, <1>4, ActiveStep DEF MediaInv, MediaTyped, RunBounded

LEMMA FailKeeps ==
    ASSUME MediaInv, NEW x \in Runs, NEW f \in Failure, FailRun(x, f) PROVE MediaInv'
<1>0. /\ run[x] \in RunState /\ RunHolds(x) /\ RunBounded(x) /\ Active(x)
      /\ run[x].phase = "working" /\ (run[x].account # Nobody => run[x].account \in Account)
  BY RunKnown DEF FailRun, Active
<1>1. run[x].account \in Account BY <1>0 DEF RunHolds
<1>2. /\ run' = [run EXCEPT ![x] = run'[x]]
      /\ run'[x] = IF RunRetries(x, f)
                   THEN [run[x] EXCEPT !.phase = "reserving", !.account = Nobody,
                                       !.excluded = ExcludedAfter(x, f),
                                       !.attempt = run[x].attempt + 1]
                   ELSE [run[x] EXCEPT !.phase = "failed", !.account = Nobody]
  BY DEF FailRun, MediaInv, MediaTyped
<1>3. ExcludedAfter(x, f) \in SUBSET Account BY <1>0, <1>1 DEF ExcludedAfter, RunState
<1>4. /\ run'[x] \in RunState /\ run'[x].phase # "working"
      /\ run'[x].account = Nobody /\ run'[x].made = run[x].made
  <2> DEFINE e == ExcludedAfter(x, f)
             n == run[x].attempt + 1
             s == [run[x] EXCEPT !.phase = "reserving", !.account = Nobody,
                                 !.excluded = e, !.attempt = n]
             t == [run[x] EXCEPT !.phase = "failed", !.account = Nobody]
  <2>1. e \in SUBSET Account /\ n \in Nat BY <1>0, <1>3 DEF RunState
  <2> HIDE DEF e, n
  <2>2. /\ s \in RunState /\ s.phase = "reserving" /\ s.account = Nobody
        /\ s.made = run[x].made
    BY <1>0, <2>1 DEF RunState
  <2>3. t \in RunState /\ t.phase = "failed" /\ t.account = Nobody /\ t.made = run[x].made
    BY <1>0 DEF RunState
  <2>4. run'[x] = s \/ run'[x] = t BY <1>2 DEF e, n
  <2> HIDE DEF s, t
  <2> QED BY <2>2, <2>3, <2>4
<1>5. UNCHANGED <<request, videoJobs, returns>> /\ Freed(run[x].account) BY DEF FailRun
<1>6. out' \subseteq Account BY <1>1 DEF FailRun, Blamed, MediaInv, MediaTyped
<1>7. LeasesFit'
  BY <1>1, <1>2, <1>4, <1>5, FreedIsCounted, MediaAssumption DEF MediaInv
<1> QED BY <1>0, <1>2, <1>4, <1>5, <1>6, <1>7, ActiveStep DEF MediaInv, MediaTyped, RunBounded

\* A run that is cancelled gives its account back.
LEMMA CancelledFits ==
    ASSUME MediaInv, NEW x \in Runs, Cancelled(x), FreedIfHeld(x)
    PROVE  /\ LeasesFit' /\ run' = [run EXCEPT ![x] = run'[x]] /\ run'[x] \in RunState
           /\ run'[x].phase = "cancelled" /\ run'[x].account = Nobody
           /\ run'[x].made = run[x].made
<1>0. /\ run[x] \in RunState /\ RunHolds(x)
      /\ (run[x].account # Nobody => run[x].account \in Account)
  BY RunKnown
<1>1. run'[x] = [run[x] EXCEPT !.phase = "cancelled", !.account = Nobody]
      /\ run' = [run EXCEPT ![x] = run'[x]]
  BY DEF Cancelled, MediaInv, MediaTyped
<1>2. /\ run'[x] \in RunState /\ run'[x].phase = "cancelled"
      /\ run'[x].account = Nobody /\ run'[x].made = run[x].made
  BY <1>0, <1>1 DEF RunState
<1>3. CASE run[x].phase = "working"
  <2>1. run[x].account \in Account /\ Freed(run[x].account)
    BY <1>0, <1>3 DEF RunHolds, FreedIfHeld
  <2>2. LeasesFit' BY <1>1, <1>2, <2>1, FreedIsCounted, MediaAssumption DEF MediaInv
  <2> QED BY <1>1, <1>2, <2>2
<1>4. CASE run[x].phase # "working"
  <2>1. run[x].account = Nobody /\ leases' = leases BY <1>0, <1>4 DEF RunHolds, FreedIfHeld
  <2>2. \A y \in Runs : run'[y].account = run[y].account
    BY <1>1, <1>2, <2>1 DEF MediaInv, MediaTyped
  <2>3. LeasesFit' BY <2>1, <2>2, SameIsCounted DEF MediaInv
  <2> QED BY <1>1, <1>2, <2>3
<1> QED BY <1>3, <1>4

LEMMA CancelKeeps == ASSUME MediaInv, NEW x \in Runs, CancelRun(x) PROVE MediaInv'
<1>0. RunBounded(x) /\ Active(x) BY RunKnown DEF CancelRun
<1>1. /\ LeasesFit' /\ run' = [run EXCEPT ![x] = run'[x]] /\ run'[x] \in RunState
      /\ run'[x].phase = "cancelled" /\ run'[x].account = Nobody
      /\ run'[x].made = run[x].made
  BY CancelledFits DEF CancelRun
<1>2. UNCHANGED <<out, request, videoJobs, returns>> BY DEF CancelRun
<1> QED BY <1>0, <1>1, <1>2, ActiveStep DEF MediaInv, MediaTyped, RunBounded

-----------------------------------------------------------------------------
\* A request whose runs are none before it starts has none that holds an account then.
LEMMA StartKeeps ==
    ASSUME MediaInv, NEW r \in MediaRequest, NEW kind \in Kinds, Start(r, kind)
    PROVE  MediaInv'
<1> DEFINE begun == [NoRun EXCEPT !.phase = "reserving"]
<1>1. request[r] \in RequestState /\ request[r].phase = "idle" /\ kind \in Kind
  BY MediaAssumption DEF Start, MediaInv, MediaTyped
<1>2. /\ request'[r] = [request[r] EXCEPT !.kind = kind, !.phase = "running"]
      /\ \A q \in MediaRequest : q # r => request'[q] = request[q]
      /\ request' = [request EXCEPT ![r] = request'[r]]
  BY DEF Start, MediaInv, MediaTyped
<1>3. request'[r] \in RequestState /\ request'[r].kind = kind /\ request'[r].phase = "running"
  BY <1>1, <1>2 DEF RequestState
<1>4. run' = [x \in Runs |-> IF x[1] = r /\ (kind \in Batches \/ x[2] = 1) THEN begun ELSE run[x]]
  BY DEF Start, Runs
<1>5. begun \in RunState /\ begun.phase = "reserving" /\ begun.account = Nobody /\ begun.made = 0
  BY DEF NoRun, RunState
<1> HIDE DEF begun
<1>6. MediaTyped'
  <2>1. run' \in [Runs -> RunState] BY <1>4, <1>5 DEF MediaInv, MediaTyped
  <2>2. request' \in [MediaRequest -> RequestState] BY <1>2, <1>3 DEF MediaInv, MediaTyped
  <2>3. videoJobs' \subseteq MediaRequest BY DEF Start, JobsAfter, MediaInv, MediaTyped
  <2> QED BY <2>1, <2>2, <2>3 DEF Start, MediaInv, MediaTyped
<1>7. ASSUME NEW x \in Runs
      PROVE  /\ RunHolds(x)' /\ RunBounded(x)' /\ RunBelongs(x)'
             /\ run'[x].account = run[x].account
  <2>0. RunHolds(x) /\ RunBounded(x) /\ RunBelongs(x) /\ x[1] \in MediaRequest
    BY RunKnown
  <2>1. CASE x[1] = r /\ (kind \in Batches \/ x[2] = 1)
    <3>1. run'[x] = begun BY <1>4, <2>1
    <3>2. run[x].phase = "none" BY <1>1, <2>0, <2>1 DEF RunBelongs
    <3>3. 0 <= Segments + MaxImages BY MediaAssumption
    <3> QED BY <1>3, <1>5, <2>0, <2>1, <3>1, <3>2, <3>3
            DEF RunHolds, RunBounded, RunBelongs, Active
  <2>2. CASE x[1] = r /\ ~(kind \in Batches \/ x[2] = 1)
    <3>1. run'[x] = run[x] BY <1>4, <2>2
    <3>2. run[x].phase = "none" BY <1>1, <2>0, <2>2 DEF RunBelongs
    <3> QED BY <1>3, <2>0, <2>2, <3>1, <3>2 DEF RunHolds, RunBounded, RunBelongs, Active
  <2>3. CASE x[1] # r
    <3>1. run'[x] = run[x] /\ request'[x[1]] = request[x[1]] BY <1>2, <1>4, <2>0, <2>3
    <3> QED BY <2>0, <3>1 DEF RunHolds, RunBounded, RunBelongs, Active
  <2> QED BY <2>1, <2>2, <2>3
<1>8. LeasesFit' BY <1>7, SameIsCounted DEF Start, MediaInv
<1> QED BY <1>6, <1>7, <1>8 DEF MediaInv

\* A request that ends, or is to end, has no run left that is active, or waits for it.
LEMMA RequestEnds ==
    ASSUME MediaInv, NEW r \in MediaRequest, request' = [request EXCEPT ![r] = request'[r]],
           request'[r] \in RequestState, request[r].phase # "idle",
           request'[r].phase # "idle", request'[r].kind = request[r].kind,
           request'[r].phase \in {"done", "failed", "gone"} /\ request'[r].kind \notin Detached
               => AtRest(r),
           UNCHANGED <<leases, out, run, videoJobs, returns>>
    PROVE  MediaInv'
<1>1. MediaTyped' BY DEF MediaInv, MediaTyped
<1>2. ASSUME NEW x \in Runs PROVE RunHolds(x)' /\ RunBounded(x)' /\ RunBelongs(x)'
  <2>0. /\ RunHolds(x) /\ RunBounded(x) /\ RunBelongs(x) /\ x[1] \in MediaRequest
        /\ x \in RunsOf(x[1])
    BY RunKnown, RunOf
  <2>1. CASE x[1] = r
    BY <2>0, <2>1 DEF RunHolds, RunBounded, RunBelongs, Active, AtRest
  <2>2. CASE x[1] # r
    <3>1. request'[x[1]] = request[x[1]] BY <2>0, <2>2 DEF MediaInv, MediaTyped
    <3> QED BY <2>0, <3>1 DEF RunHolds, RunBounded, RunBelongs, Active
  <2> QED BY <2>1, <2>2
<1>3. LeasesFit' BY SameIsCounted DEF MediaInv
<1> QED BY <1>1, <1>2, <1>3 DEF MediaInv

LEMMA AnswerKeeps == ASSUME MediaInv, NEW r \in MediaRequest, Answer(r) PROVE MediaInv'
<1> DEFINE n == IF request[r].sent = 0 /\ Answers(r) THEN MadeBy(Fruitful(r)) ELSE request[r].sent
<1>1. request[r] \in RequestState BY DEF MediaInv, MediaTyped
<1>2. n \in Nat
  <2>1. Fruitful(r) \in SUBSET Runs BY DEF Fruitful, RunsOf, Runs
  <2>2. MadeBy(Fruitful(r)) \in Nat BY <2>1, MadeCounted
  <2> QED BY <1>1, <2>2 DEF RequestState
<1>3. request'[r] = [request[r] EXCEPT !.phase = StatusAfter(r), !.sent = n]
      /\ request' = [request EXCEPT ![r] = request'[r]]
  BY DEF Answer, MediaInv, MediaTyped
<1> HIDE DEF n
<1>4. StatusAfter(r) \in {"done", "failed"} BY DEF StatusAfter
<1>5. /\ request'[r] \in RequestState /\ request'[r].phase # "idle"
      /\ request'[r].kind = request[r].kind
  BY <1>1, <1>2, <1>3, <1>4 DEF RequestState
<1> QED BY <1>3, <1>5, RequestEnds DEF Answer

LEMMA DrainKeeps == ASSUME MediaInv, NEW r \in MediaRequest, Drain(r) PROVE MediaInv'
<1>1. request[r] \in RequestState BY DEF MediaInv, MediaTyped
<1>2. request'[r] = [request[r] EXCEPT !.phase = "gone"]
      /\ request' = [request EXCEPT ![r] = request'[r]]
  BY DEF Drain, MediaInv, MediaTyped
<1>3. /\ request'[r] \in RequestState /\ request'[r].phase = "gone"
      /\ request'[r].kind = request[r].kind
  BY <1>1, <1>2 DEF RequestState
<1> QED BY <1>2, <1>3, RequestEnds DEF Drain, Drained

LEMMA ClientGoneKeeps ==
    ASSUME MediaInv, NEW r \in MediaRequest, MediaClientGone(r) PROVE MediaInv'
<1> DEFINE x == <<r, 1>>
           p == IF request[r].kind \in {"lite_stream", "edit_stream"} THEN "draining" ELSE "gone"
<1>0. x \in Runs /\ x[1] = r /\ x[2] = 1 BY MediaAssumption DEF Runs
<1>1. /\ request[r] \in RequestState /\ request[r].phase = "running"
      /\ request[r].kind \in Streams
  BY DEF MediaClientGone, MediaInv, MediaTyped
<1>2. /\ request'[r] = [request[r] EXCEPT !.phase = p]
      /\ request' = [request EXCEPT ![r] = request'[r]]
      /\ \A q \in MediaRequest : q # r => request'[q] = request[q]
  BY <1>1 DEF MediaClientGone, MediaInv, MediaTyped
<1>3. /\ request'[r] \in RequestState /\ request'[r].phase = p
      /\ request'[r].kind = request[r].kind /\ p \in {"draining", "gone"}
  BY <1>1, <1>2 DEF RequestState
<1>4. UNCHANGED <<out, videoJobs, returns>> BY DEF MediaClientGone
<1>5. p = "gone" /\ request[r].kind \notin Detached => request[r].kind = "stream"
  BY <1>1 DEF Streams, Detached
<1>6. CASE request[r].kind = "stream" /\ Active(x)
  <2>1. /\ LeasesFit' /\ run' = [run EXCEPT ![x] = run'[x]] /\ run'[x] \in RunState
        /\ run'[x].phase = "cancelled" /\ run'[x].account = Nobody
        /\ run'[x].made = run[x].made
    BY <1>0, <1>6, CancelledFits DEF MediaClientGone
  <2> HIDE DEF x, p
  <2>2. MediaTyped' BY <1>2, <1>3, <1>4, <2>1 DEF MediaInv, MediaTyped
  <2>3. ASSUME NEW y \in Runs PROVE RunHolds(y)' /\ RunBounded(y)' /\ RunBelongs(y)'
    <3>0. RunHolds(y) /\ RunBounded(y) /\ RunBelongs(y) /\ y[1] \in MediaRequest
      BY RunKnown
    <3>1. CASE y = x
      BY <1>0, <1>3, <2>1, <3>0, <3>1 DEF RunHolds, RunBounded, RunBelongs, Active
    <3>2. CASE y # x /\ y[1] = r
      <4>1. run'[y] = run[y] BY <2>1, <3>2 DEF MediaInv, MediaTyped
      <4>2. y[2] # 1 BY <3>2 DEF x, Runs
      <4>3. run[y].phase = "none" BY <1>6, <3>0, <3>2, <4>2 DEF RunBelongs, Batches
      <4> QED BY <1>3, <3>0, <3>2, <4>1, <4>3 DEF RunHolds, RunBounded, RunBelongs, Active
    <3>3. CASE y[1] # r
      <4>1. y # x BY <1>0, <3>3
      <4>2. run'[y] = run[y] /\ request'[y[1]] = request[y[1]]
        BY <1>2, <2>1, <3>0, <3>3, <4>1 DEF MediaInv, MediaTyped
      <4> QED BY <3>0, <4>2 DEF RunHolds, RunBounded, RunBelongs, Active
    <3> QED BY <3>1, <3>2, <3>3
  <2> QED BY <2>1, <2>2, <2>3 DEF MediaInv
<1>7. CASE ~(request[r].kind = "stream" /\ Active(x))
  <2>1. UNCHANGED <<leases, run>> BY <1>7 DEF MediaClientGone
  <2>2. request'[r].phase \in {"done", "failed", "gone"} /\ request'[r].kind \notin Detached
            => AtRest(r)
    <3> SUFFICES ASSUME request[r].kind = "stream" PROVE AtRest(r) BY <1>3, <1>5
    <3>1. ASSUME NEW y \in RunsOf(r) PROVE ~Active(y)
      <4>0. y \in Runs /\ y[1] = r /\ y = <<r, y[2]>> BY <3>1, RunsOfRequest
      <4>1. RunBelongs(y) BY <4>0, RunKnown
      <4>2. CASE y[2] = 1 BY <1>7, <4>0, <4>2
      <4>3. CASE y[2] # 1 BY <4>0, <4>1, <4>3 DEF RunBelongs, Batches, Active
      <4> QED BY <4>2, <4>3
    <3> QED BY <3>1 DEF AtRest
  <2>3. request[r].phase # "idle" /\ request'[r].phase # "idle" BY <1>1, <1>3
  <2> HIDE DEF x, p
  <2> QED BY <1>2, <1>3, <1>4, <2>1, <2>2, <2>3, RequestEnds
<1> QED BY <1>6, <1>7

LEMMA DirectoryKeeps ==
    ASSUME MediaInv, UNCHANGED <<leases, request, run>>, out' \subseteq Account,
           videoJobs' \subseteq MediaRequest, returns' \in Nat
    PROVE  MediaInv'
<1>1. LeasesFit' BY SameIsCounted DEF MediaInv
<1> QED BY <1>1 DEF MediaInv, MediaTyped, RunHolds, RunBounded, RunBelongs, Active

LEMMA MediaInvHolds == MediaSpec => []MediaInv
<1>1. MediaInit => MediaInv
  <2> SUFFICES ASSUME MediaInit PROVE MediaInv OBVIOUS
  <2>1. NoRun \in RunState /\ NoRun.phase = "none" /\ NoRun.account = Nobody /\ NoRun.made = 0
    BY DEF NoRun, RunState
  <2>2. MediaTyped
    <3>1. [kind |-> "whole", phase |-> "idle", sent |-> 0] \in RequestState
      BY DEF RequestState, Kind
    <3> QED BY <2>1, <3>1 DEF MediaInit, MediaTyped, Runs
  <2>3. \A x \in Runs : run[x] = NoRun BY DEF MediaInit, Runs
  <2>4. 0 <= Segments + MaxImages BY MediaAssumption
  <2>5. \A x \in Runs : RunHolds(x) /\ RunBounded(x) /\ RunBelongs(x)
    BY <2>1, <2>3, <2>4 DEF RunHolds, RunBounded, RunBelongs, Active
  <2>6. \A a \in Account : HeldRuns(a) = {}
    BY <2>1, <2>3, MediaAssumption DEF HeldRuns
  <2>7. LeasesFit BY <2>6, FS_EmptySet DEF MediaInit, LeasesFit
  <2> QED BY <2>2, <2>5, <2>7 DEF MediaInv
<1>2. MediaInv /\ [MediaNext]_mediaVars => MediaInv'
  <2> SUFFICES ASSUME MediaInv, [MediaNext]_mediaVars PROVE MediaInv' OBVIOUS
  <2>1. ASSUME NEW x \in Runs, RunStep(x) \/ CancelRun(x) PROVE MediaInv'
    BY <2>1, ReserveKeeps, NoneAvailableKeeps, MakeKeeps, SucceedKeeps, FailKeeps, CancelKeeps
       DEF RunStep
  <2>2. ASSUME NEW r \in MediaRequest, ExpireJob(r) PROVE MediaInv'
    BY <2>2, DirectoryKeeps DEF ExpireJob, MediaInv, MediaTyped
  <2>3. ASSUME NEW a \in Account, ComeBack(a) PROVE MediaInv'
    BY <2>3, DirectoryKeeps DEF ComeBack, MediaInv, MediaTyped
  <2>4. CASE UNCHANGED mediaVars
    BY <2>4, DirectoryKeeps DEF mediaVars, MediaInv, MediaTyped
  <2> QED BY <2>1, <2>2, <2>3, <2>4, StartKeeps, AnswerKeeps, ClientGoneKeeps, DrainKeeps
          DEF MediaNext, Runs
<1> QED BY <1>1, <1>2, PTL DEF MediaSpec

-----------------------------------------------------------------------------
\* LeasesHeld: for any number of accounts, requests and runs, the in-flight count of an
\* account is the number of runs that work on it, however runs succeed, fail, try another
\* account, or are cancelled with their client.
THEOREM LeasesHeldHolds == MediaSpec => []LeasesHeld
<1>1. MediaInv => LeasesHeld
  BY DEF MediaInv, LeasesFit, HeldRuns, Runs, LeasesHeld
<1> QED BY <1>1, MediaInvHolds, PTL

\* NoStrayRun: a request that was answered, failed or was left by its client has no run
\* that still works, unless it is a video's.
THEOREM NoStrayRunHolds == MediaSpec => []NoStrayRun
<1>1. MediaInv => NoStrayRun
  <2> SUFFICES ASSUME MediaInv, NEW r \in MediaRequest,
                      request[r].phase \in {"done", "failed", "gone"},
                      request[r].kind \notin Detached, NEW x \in RunsOf(r)
               PROVE  ~Active(x)
    BY DEF NoStrayRun, AtRest
  <2>1. x \in Runs /\ x[1] = r BY RunsOfRequest
  <2>2. RunBelongs(x) BY <2>1, RunKnown
  <2> QED BY <2>1, <2>2 DEF RunBelongs
<1> QED BY <1>1, MediaInvHolds, PTL

\* The state of the media requests has its types.
THEOREM MediaTypes == MediaSpec => []MediaTypeOK
<1>1. MediaInv => MediaTypeOK
  <2> SUFFICES ASSUME MediaInv PROVE MediaTypeOK OBVIOUS
  <2>1. \A a \in Account : Cardinality(HeldRuns(a)) \in Nat BY RunsFinite, FS_CardinalityType
  <2>2. leases \in [Account -> Nat] BY <2>1 DEF MediaInv, LeasesFit
  <2> QED BY <2>2 DEF MediaInv, MediaTyped, MediaTypeOK, Runs
<1> QED BY <1>1, MediaInvHolds, PTL

-----------------------------------------------------------------------------
(*****************************************************************************)
(* Batches and the pages that watch them.                                    *)
(*****************************************************************************)

\* What is said to a page is true of the batch b: an event carries no more than b has
\* processed, and a final one is of a batch that is over.
BatchState == [status : {"running", "counting", "done", "error", "cancelled"},
               processed : Nat, cancelled : BOOLEAN, kept : BOOLEAN]
Closed(b)  == b.status \in {"done", "error", "cancelled"}

TrueOf(e, b) == /\ e \in Event /\ e.processed <= b.processed
                /\ e.final => Closed(b) /\ e.processed = b.processed

PageOf(x, b) ==
    /\ x \in ViewerState
    /\ Len(x.queue) <= QueueSize
    /\ \A n \in 1..Len(x.queue) : TrueOf(x.queue[n], b)
    /\ TrueOf(x.shown, b)
    /\ x.shown.final => x.phase = "ended"

\* The batch counts what it has processed, and skips an item only when it is cancelled.
Processed == {i \in Item : item[i] \in {"ok", "failed"}}

ItemsCounted ==
    /\ item \in [Item -> {"waiting", "running", "ok", "failed", "skipped"}]
    /\ batch \in BatchState
    /\ batch.processed = Cardinality(Processed)
    /\ batch.status # "running" => \A i \in Item : item[i] \notin {"waiting", "running"}
    /\ ~batch.cancelled => \A i \in Item : item[i] # "skipped"
    /\ batch.status = "done" => batch.processed = Cardinality(Item)

TaskInv ==
    /\ ItemsCounted
    /\ DOMAIN viewer = Viewer /\ viewer = [v \in Viewer |-> viewer[v]]
    /\ \A v \in Viewer : PageOf(viewer[v], batch)

\* The batch goes on from b to c.
GoesOn(b, c) == /\ b \in BatchState /\ c \in BatchState
                /\ b.processed <= c.processed
                /\ Closed(b) => Closed(c) /\ c.processed = b.processed

LEMMA ProcessedBounded ==
    ASSUME TaskInv
    PROVE  /\ IsFiniteSet(Item) /\ Cardinality(Item) \in Nat
           /\ IsFiniteSet(Processed) /\ batch.processed \in 0..Cardinality(Item)
<1>1. IsFiniteSet(Item) /\ Cardinality(Item) \in Nat BY TaskAssumption, FS_CardinalityType
<1>2. Processed \subseteq Item BY DEF Processed
<1>3. IsFiniteSet(Processed) /\ Cardinality(Processed) <= Cardinality(Item)
  BY <1>1, <1>2, FS_Subset
<1> QED BY <1>1, <1>3, FS_CardinalityType DEF TaskInv, ItemsCounted

LEMMA ItemsInNat == Cardinality(Item) \in Nat
  BY TaskAssumption, FS_CardinalityType

\* What was true stays true.
LEMMA PageKept ==
    ASSUME NEW b, NEW c, GoesOn(b, c), NEW x, PageOf(x, b)
    PROVE  PageOf(x, c)
<1>1. \A e : TrueOf(e, b) => TrueOf(e, c)
  BY ItemsInNat DEF TrueOf, Event, GoesOn, BatchState
<1> QED BY <1>1 DEF PageOf

LEMMA AppendTrue ==
    ASSUME NEW b, NEW x, PageOf(x, b), NEW e, TrueOf(e, b), Len(x.queue) < QueueSize
    PROVE  PageOf([x EXCEPT !.queue = Append(x.queue, e)], b)
<1> DEFINE q == Append(x.queue, e)
           y == [x EXCEPT !.queue = q]
<1>1. x \in ViewerState /\ e \in Event /\ x.queue \in Seq(Event)
  BY DEF PageOf, TrueOf, ViewerState
<1>2. q \in Seq(Event) /\ Len(q) = Len(x.queue) + 1 /\ Len(x.queue) \in Nat BY <1>1
<1>3. \A n \in 1..Len(q) : q[n] = IF n = Len(q) THEN e ELSE x.queue[n] BY <1>1, <1>2
<1>4. \A n \in 1..Len(q) : TrueOf(q[n], b) BY <1>2, <1>3 DEF PageOf
<1>5. Len(q) <= QueueSize BY <1>2, TaskAssumption
<1> HIDE DEF q
<1>6. y \in ViewerState /\ y.queue = q /\ y.shown = x.shown /\ y.phase = x.phase
  BY <1>1, <1>2 DEF ViewerState
<1>7. PageOf(y, b) BY <1>4, <1>5, <1>6 DEF PageOf
<1> QED BY <1>7 DEF q

LEMMA PublishedTrue ==
    ASSUME TaskInv, NEW e, TrueOf(e, batch'), GoesOn(batch, batch'), viewer' = Published(e)
    PROVE  /\ DOMAIN viewer' = Viewer /\ viewer' = [v \in Viewer |-> viewer'[v]]
           /\ \A v \in Viewer : PageOf(viewer'[v], batch')
<1>1. DOMAIN viewer' = Viewer /\ viewer' = [v \in Viewer |-> viewer'[v]] BY DEF Published
<1>2. ASSUME NEW v \in Viewer PROVE PageOf(viewer'[v], batch')
  <2>1. PageOf(viewer[v], batch') BY PageKept DEF TaskInv
  <2>2. viewer'[v] = IF Attached(v) /\ Len(viewer[v].queue) < QueueSize
                     THEN [viewer[v] EXCEPT !.queue = Append(viewer[v].queue, e)]
                     ELSE viewer[v]
    BY DEF Published
  <2>3. CASE Attached(v) /\ Len(viewer[v].queue) < QueueSize
    BY <2>1, <2>2, <2>3, AppendTrue
  <2>4. CASE ~(Attached(v) /\ Len(viewer[v].queue) < QueueSize) BY <2>1, <2>2, <2>4
  <2> QED BY <2>3, <2>4
<1> QED BY <1>1, <1>2

\* A step of a page alone.
LEMMA PageStep ==
    ASSUME TaskInv, NEW v \in Viewer, NEW x, PageOf(x, batch),
           viewer' = [viewer EXCEPT ![v] = x], UNCHANGED <<item, batch>>
    PROVE  TaskInv'
<1>1. ItemsCounted' BY DEF TaskInv, ItemsCounted, Processed
<1>2. \A u \in Viewer : viewer'[u] = IF u = v THEN x ELSE viewer[u] BY DEF TaskInv
<1>3. DOMAIN viewer' = Viewer /\ viewer' = [u \in Viewer |-> viewer'[u]] BY DEF TaskInv
<1>4. \A u \in Viewer : PageOf(viewer'[u], batch') BY <1>2 DEF TaskInv
<1> QED BY <1>1, <1>3, <1>4 DEF TaskInv

LEMMA TaskInvInit == TaskInit => TaskInv
<1> SUFFICES ASSUME TaskInit PROVE TaskInv OBVIOUS
<1>1. Processed = {} /\ Cardinality({}) = 0 BY FS_EmptySet DEF TaskInit, Processed
<1>2. ItemsCounted BY <1>1 DEF TaskInit, ItemsCounted, BatchState
<1>3. ASSUME NEW v \in Viewer PROVE PageOf(viewer[v], batch)
  <2>1. viewer[v] = [phase |-> "away", queue |-> <<>>, shown |-> NoEvent] BY DEF TaskInit
  <2>2. NoEvent \in Event BY ItemsInNat DEF NoEvent, Event
  <2>3. viewer[v] \in ViewerState BY <2>1, <2>2 DEF ViewerState
  <2>4. TrueOf(NoEvent, batch) BY <2>2 DEF TrueOf, NoEvent, TaskInit
  <2> QED BY <2>1, <2>3, <2>4, TaskAssumption DEF PageOf, NoEvent
<1> QED BY <1>2, <1>3 DEF TaskInv, TaskInit

\* A step of the batch: it goes on, and what it publishes is true.
LEMMA EndItemKeeps ==
    ASSUME TaskInv, NEW i \in Item, NEW result \in {"ok", "failed"}, EndItem(i, result)
    PROVE  TaskInv'
<1>1. /\ item[i] = "running" /\ item' = [item EXCEPT ![i] = result]
      /\ batch' = [batch EXCEPT !.processed = batch.processed + 1]
      /\ viewer' = Published([processed |-> batch.processed + 1, final |-> FALSE])
  BY DEF EndItem
<1>2. batch.status = "running" /\ batch \in BatchState BY <1>1 DEF TaskInv, ItemsCounted
<1>3. item' \in [Item -> {"waiting", "running", "ok", "failed", "skipped"}]
  BY <1>1 DEF TaskInv, ItemsCounted
<1>4. Processed' = Processed \cup {i} /\ i \notin Processed
  BY <1>1, <1>3 DEF Processed, TaskInv, ItemsCounted
<1>5. Cardinality(Processed') = Cardinality(Processed) + 1
  BY <1>4, ProcessedBounded, FS_AddElement
<1>6. /\ batch' \in BatchState /\ batch'.status = "running"
      /\ batch'.cancelled = batch.cancelled /\ batch'.processed = batch.processed + 1
  BY <1>1, <1>2 DEF BatchState
<1>7. ItemsCounted'
  <2>1. batch'.processed = Cardinality(Processed') BY <1>5, <1>6 DEF TaskInv, ItemsCounted
  <2>2. ~batch'.cancelled => \A j \in Item : item'[j] # "skipped"
    BY <1>1, <1>6 DEF TaskInv, ItemsCounted
  <2> QED BY <1>3, <1>6, <2>1, <2>2 DEF ItemsCounted
<1>8. GoesOn(batch, batch') BY <1>2, <1>6 DEF GoesOn, Closed, BatchState
<1>9. batch'.processed <= Cardinality(Item)
  <2>1. Processed' \subseteq Item BY DEF Processed
  <2> QED BY <2>1, ProcessedBounded, FS_Subset, <1>7 DEF ItemsCounted
<1>10. TrueOf([processed |-> batch.processed + 1, final |-> FALSE], batch')
  BY <1>6, <1>9, ItemsInNat DEF TrueOf, Event, BatchState
<1> QED BY <1>1, <1>7, <1>8, <1>10, PublishedTrue DEF TaskInv

LEMMA FinishedKeeps ==
    ASSUME TaskInv, batch.status = "counting",
           NEW s \in {"done", "error", "cancelled"}, s = "done" => ~batch.cancelled, Finished(s)
    PROVE  TaskInv'
<1>1. /\ UNCHANGED item /\ batch' = [batch EXCEPT !.status = s]
      /\ viewer' = Published([processed |-> batch.processed, final |-> TRUE])
  BY DEF Finished
<1>2. /\ batch \in BatchState /\ batch' \in BatchState /\ batch'.status = s
      /\ batch'.cancelled = batch.cancelled /\ batch'.processed = batch.processed
  BY <1>1 DEF TaskInv, ItemsCounted, BatchState
<1>3. s = "done" => Processed = Item BY DEF Processed, TaskInv, ItemsCounted
<1>4. ItemsCounted' BY <1>1, <1>2, <1>3 DEF TaskInv, ItemsCounted, Processed
<1>5. GoesOn(batch, batch') BY <1>2 DEF GoesOn, Closed, BatchState
<1>6. TrueOf([processed |-> batch.processed, final |-> TRUE], batch')
  BY <1>2, ProcessedBounded DEF TrueOf, Event, Closed
<1> QED BY <1>1, <1>4, <1>5, <1>6, PublishedTrue DEF TaskInv

\* The other steps of the batch tell the pages nothing.
LEMMA QuietBatch ==
    ASSUME TaskInv, UNCHANGED viewer, GoesOn(batch, batch'), ItemsCounted'
    PROVE  TaskInv'
  BY PageKept DEF TaskInv

LEMMA BatchStepKeeps ==
    ASSUME TaskInv, (\E i \in Item : StartItem(i)) \/ Gathered \/ Cancel \/ Expire
    PROVE  TaskInv'
<1>0. batch \in BatchState BY DEF TaskInv, ItemsCounted
<1>1. ASSUME NEW i \in Item, StartItem(i) PROVE TaskInv'
  <2>1. /\ item[i] = "waiting" /\ batch.status = "running" /\ UNCHANGED <<batch, viewer>>
        /\ item' = [item EXCEPT ![i] = IF batch.cancelled THEN "skipped" ELSE "running"]
    BY <1>1 DEF StartItem
  <2>2. item' \in [Item -> {"waiting", "running", "ok", "failed", "skipped"}]
    BY <2>1 DEF TaskInv, ItemsCounted
  <2>3. Processed' = Processed BY <2>1, <2>2 DEF Processed, TaskInv, ItemsCounted
  <2>4. ~batch.cancelled => \A j \in Item : item'[j] # "skipped"
    BY <2>1 DEF TaskInv, ItemsCounted
  <2>5. ItemsCounted' BY <2>1, <2>2, <2>3, <2>4 DEF TaskInv, ItemsCounted
  <2> QED BY <1>0, <2>1, <2>5, QuietBatch DEF GoesOn, BatchState
<1>2. CASE Gathered
  <2>1. /\ batch' \in BatchState /\ batch'.status = "counting" /\ batch.status = "running"
        /\ batch'.processed = batch.processed /\ batch'.cancelled = batch.cancelled
        /\ UNCHANGED <<item, viewer>>
        /\ \A i \in Item : item[i] \notin {"waiting", "running"}
    BY <1>0, <1>2 DEF Gathered, BatchState
  <2>2. ItemsCounted' BY <2>1 DEF TaskInv, ItemsCounted, Processed
  <2>3. GoesOn(batch, batch') BY <1>0, <2>1 DEF GoesOn, Closed, BatchState
  <2> QED BY <2>1, <2>2, <2>3, QuietBatch
<1>3. CASE Cancel \/ Expire
  <2>1. /\ batch' \in BatchState /\ batch'.status = batch.status
        /\ batch'.processed = batch.processed /\ (~batch'.cancelled => ~batch.cancelled)
        /\ UNCHANGED <<item, viewer>>
    <3>1. CASE Cancel BY <1>0, <1>3, <3>1 DEF Cancel, BatchState
    <3>2. CASE Expire BY <1>0, <1>3, <3>2 DEF Expire, BatchState
    <3> QED BY <1>3, <3>1, <3>2
  <2>2. ItemsCounted' BY <2>1 DEF TaskInv, ItemsCounted, Processed
  <2>3. GoesOn(batch, batch') BY <1>0, <2>1 DEF GoesOn, Closed, BatchState
  <2> QED BY <2>1, <2>2, <2>3, QuietBatch
<1> QED BY <1>1, <1>2, <1>3

LEMMA PageKeeps ==
    ASSUME TaskInv, NEW v \in Viewer,
           Attach(v) \/ AskFinal(v) \/ Receive(v) \/ Ping(v) \/ Leave(v)
    PROVE  TaskInv'
<1> DEFINE x == viewer[v]
<1>0. /\ PageOf(x, batch) /\ batch \in BatchState /\ x \in ViewerState
      /\ batch.processed \in 0..Cardinality(Item)
  BY ProcessedBounded DEF TaskInv, ItemsCounted, PageOf
<1> HIDE DEF x
<1>1. CASE Attach(v)
  <2> DEFINE e == [processed |-> batch.processed, final |-> FALSE]
             y == [phase |-> "attached", queue |-> <<>>, shown |-> e]
  <2>1. e \in Event /\ TrueOf(e, batch) BY <1>0 DEF Event, TrueOf, BatchState
  <2>2. e.final = FALSE OBVIOUS
  <2> HIDE DEF e
  <2>3. PageOf(y, batch) BY <2>1, <2>2, TaskAssumption DEF PageOf, ViewerState
  <2>4. Views(v, y) BY <1>1 DEF Attach, e
  <2> HIDE DEF y
  <2> QED BY <2>3, <2>4, PageStep DEF Views
<1>2. CASE AskFinal(v)
  <2>1. CASE Over
    <3> DEFINE e == [processed |-> batch.processed, final |-> TRUE]
               y == [x EXCEPT !.phase = "ended", !.shown = e]
    <3>1. e \in Event /\ TrueOf(e, batch)
      BY <1>0, <2>1 DEF Event, TrueOf, BatchState, Over, Closed
    <3>2. Views(v, y) BY <1>2, <2>1 DEF AskFinal, Asks, ShownFinal, x
    <3> HIDE DEF e
    <3>3. PageOf(y, batch) BY <1>0, <3>1 DEF PageOf, ViewerState
    <3> HIDE DEF y
    <3> QED BY <3>2, <3>3, PageStep DEF Views
  <2>2. CASE ~Over
    <3> DEFINE y == [x EXCEPT !.phase = "following"]
    <3>1. Views(v, y) /\ x.phase # "ended" BY <1>2, <2>2 DEF AskFinal, Asks, x
    <3>2. PageOf(y, batch) BY <1>0, <3>1 DEF PageOf, ViewerState
    <3> HIDE DEF y
    <3> QED BY <3>1, <3>2, PageStep DEF Views
  <2> QED BY <2>1, <2>2
<1>3. CASE Receive(v)
  <2> DEFINE e == Head(x.queue)
             q == Tail(x.queue)
             y == [phase |-> IF e.final THEN "ended" ELSE "following", queue |-> q, shown |-> e]
  <2>1. Views(v, y) /\ x.queue # <<>> BY <1>3 DEF Receive, x
  <2>2. x.queue \in Seq(Event) BY <1>0 DEF ViewerState
  <2>3. /\ Len(x.queue) \in Nat \ {0} /\ e = x.queue[1] /\ q \in Seq(Event)
        /\ Len(q) = Len(x.queue) - 1 /\ \A n \in 1..Len(q) : q[n] = x.queue[n + 1]
    BY <2>1, <2>2
  <2>4. TrueOf(e, batch) /\ Len(q) <= QueueSize BY <1>0, <2>3, TaskAssumption DEF PageOf
  <2>5. \A n \in 1..Len(q) : TrueOf(q[n], batch) BY <1>0, <2>3 DEF PageOf
  <2>6. e \in Event BY <2>4 DEF TrueOf
  <2> HIDE DEF e, q
  <2>7. y \in ViewerState BY <2>3, <2>6 DEF ViewerState
  <2>8. PageOf(y, batch) BY <2>4, <2>5, <2>7 DEF PageOf
  <2> HIDE DEF y
  <2> QED BY <2>1, <2>8, PageStep DEF Views
<1>4. CASE Ping(v)
  <2> DEFINE y == [x EXCEPT !.phase = "pinging"]
  <2>1. Views(v, y) /\ x.phase # "ended" BY <1>4 DEF Ping, x
  <2>2. PageOf(y, batch) BY <1>0, <2>1 DEF PageOf, ViewerState
  <2> HIDE DEF y
  <2> QED BY <2>1, <2>2, PageStep DEF Views
<1>5. CASE Leave(v)
  <2> DEFINE none == <<>>
             y == [x EXCEPT !.phase = "left", !.queue = none]
  <2>0. none \in Seq(Event) /\ Len(none) = 0 OBVIOUS
  <2>1. Views(v, y) /\ x.phase # "ended" BY <1>5 DEF Leave, Attached, x
  <2> HIDE DEF none
  <2>2. y \in ViewerState /\ y.phase = "left" /\ y.queue = none /\ y.shown = x.shown
    BY <1>0, <2>0 DEF ViewerState
  <2> HIDE DEF y
  <2>3. PageOf(y, batch) BY <1>0, <2>0, <2>1, <2>2, TaskAssumption DEF PageOf
  <2> QED BY <2>1, <2>3, PageStep DEF Views
<1> QED BY <1>1, <1>2, <1>3, <1>4, <1>5

LEMMA TaskInvHolds == TaskSpec => []TaskInv
<1>1. TaskInv /\ [TaskNext]_taskVars => TaskInv'
  <2> SUFFICES ASSUME TaskInv, [TaskNext]_taskVars PROVE TaskInv' OBVIOUS
  <2>1. CASE \E i \in Item : StartItem(i) \/ \E result \in {"ok", "failed"} : EndItem(i, result)
    BY <2>1, BatchStepKeeps, EndItemKeeps
  <2>2. CASE Gathered \/ Cancel \/ Expire BY <2>2, BatchStepKeeps
  <2>3. CASE Finish
    BY <2>3, FinishedKeeps DEF Finish, Outcome
  <2>4. CASE \E v \in Viewer : Attach(v) \/ AskFinal(v) \/ Receive(v) \/ Ping(v) \/ Leave(v)
    BY <2>4, PageKeeps
  <2>5. CASE UNCHANGED taskVars
    BY <2>5 DEF taskVars, TaskInv, ItemsCounted, Processed
  <2> QED BY <2>1, <2>2, <2>3, <2>4, <2>5 DEF TaskNext
<1> QED BY <1>1, TaskInvInit, PTL DEF TaskSpec

\* The types of a batch, its items and its pages.
THEOREM TaskTypes == TaskSpec => []TaskTypeOK
<1>1. TaskInv => TaskTypeOK
  <2> SUFFICES ASSUME TaskInv PROVE TaskTypeOK OBVIOUS
  <2>1. batch.processed \in 0..Cardinality(Item) BY ProcessedBounded
  <2>2. viewer \in [Viewer -> ViewerState] BY DEF TaskInv, PageOf
  <2> QED BY <2>1, <2>2 DEF TaskTypeOK, TaskInv, ItemsCounted, BatchState, PageOf
<1> QED BY <1>1, TaskInvHolds, PTL

\* A page is never shown a number the batch has not reached, nor anything after the final
\* event, and a batch reported done has processed every item.
THEOREM ReportsAreTrueHolds == TaskSpec => []ReportsAreTrue
<1>1. TaskInv => ReportsAreTrue
  BY DEF TaskInv, ItemsCounted, PageOf, TrueOf, ReportsAreTrue
<1> QED BY <1>1, TaskInvHolds, PTL
=============================================================================
