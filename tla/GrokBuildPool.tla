------------------------------ MODULE GrokBuildPool ------------------------------
(***************************************************************************)
(* The pool of Grok Build OAuth credentials, a file shared by all server   *)
(* processes, and those who use it: requests that refresh a credential in  *)
(* passing (src/app/dataplane/reverse/protocol/grok_build.py), refreshes   *)
(* by the scheduled loop and by the administrator's jobs, authorisations,  *)
(* deletions (src/app/maintainer/grok_build_oauth.py,                      *)
(* src/app/products/web/admin/grok_build_accounts.py).                     *)
(*                                                                         *)
(* The authorization server is external.  It may answer a refresh with the *)
(* same refresh token or with a new one; a new one kills the old.  A pool  *)
(* file of one bare credential, and what a token or a payload contains,    *)
(* are left out.                                                           *)
(***************************************************************************)
EXTENDS Naturals, FiniteSets

CONSTANTS
    Source,        \* pool entries (source_id)
    Process,       \* server processes
    BuildRequest,  \* requests to Grok Build
    Thread,        \* threads that run refresh and authorisation jobs
    NoSource,      \* no entry selected
    Answers,       \* what the server answers a refresh with: the "same" token, a "new" one
    MaxTokens,     \* bound: refresh tokens issued per entry
    MaxJobs,       \* bound: jobs over a behaviour
    MaxChanges,    \* bound: deletions and expiries over a behaviour
    MaxCrashes     \* bound: process crashes over a behaviour

ASSUME PoolAssumption ==
    /\ IsFiniteSet(Source) /\ Source # {} /\ NoSource \notin Source
    /\ Answers \subseteq {"same", "new"}
    /\ Process # {}
    /\ MaxTokens \in Nat \ {0} /\ MaxJobs \in Nat /\ MaxChanges \in Nat /\ MaxCrashes \in Nat

VARIABLES
    pool,      \* the entries on file, a function on a subset of Source
    issued,    \* server: refresh tokens issued for each entry
    live,      \* server: those it still accepts
    req,       \* the requests
    credential,\* _credential_lock of each process: the request that holds it, if any
    thread,    \* the job threads
    entryLock, \* pool_entry_refresh_lock of each entry: the thread that holds it, if any
    job,       \* the job each thread runs, as kept in memory
    stored,    \* the job each thread runs, as kept on disk
    orphaned,  \* history: entries whose rotated token was lost with its receiver
    jobs, changes, crashes   \* the bounded counters

server   == <<issued, live>>
requests == <<req, credential>>
threads  == <<thread, entryLock, job, stored>>
counters == <<jobs, changes, crashes>>
poolVars     == <<pool, server, requests, threads, orphaned, counters>>

Number     == 0..MaxTokens
Entry      == [token : Number \ {0}, fresh : BOOLEAN]
Entries    == UNION {[S -> Entry] : S \in SUBSET Source}
NoEntry    == [token |-> 0, fresh |-> FALSE]

\* A request has its key once a credential was got for it; "target" is the entry
\* it is refreshing, as it was "seen", and "answer" the server's (0: none yet).
ReqPhase   == {"idle", "select", "refreshing", "posting", "streaming", "done", "gone"}
RequestState == [phase : ReqPhase, process : Process, key : Source \cup {NoSource},
                 target : Source \cup {NoSource},
                 seen : Entry \cup {NoEntry}, answer : Number,
                 forced : {"no", "asked", "spent"}, attempt : Nat, attempts : Nat,
                 counted : Nat]
ThreadState  == [phase : {"idle", "refreshing"}, source : Source, seen : Entry \cup {NoEntry},
                 answer : Number]
JobState     == [status : {"none", "running", "completed"}, kind : {"convert", "refresh"},
                 process : Process, todo : SUBSET Source, total : Nat, succeeded : Nat,
                 failed : Nat, skipped : Nat]

PoolTypeOK ==
    /\ pool \in Entries
    /\ issued \in [Source -> Number]
    /\ live \in [Source -> SUBSET (Number \ {0})]
    /\ req \in [BuildRequest -> RequestState]
    /\ credential \in [Process -> SUBSET BuildRequest]
    /\ thread \in [Thread -> ThreadState]
    /\ entryLock \in [Source -> SUBSET Thread]
    /\ job \in [Thread -> JobState] /\ stored \in [Thread -> JobState]
    /\ orphaned \subseteq Source
    /\ jobs \in Nat /\ changes \in Nat /\ crashes \in Nat

Anyone == CHOOSE p \in Process : TRUE
Idle   == [phase |-> "idle", process |-> Anyone, key |-> NoSource,
           target |-> NoSource, seen |-> NoEntry, answer |-> 0, forced |-> "no",
           attempt |-> 0, attempts |-> 0, counted |-> 0]
Rest   == [phase |-> "idle", source |-> CHOOSE s \in Source : TRUE, seen |-> NoEntry,
           answer |-> 0]
NoJob  == [status |-> "none", kind |-> "refresh", process |-> Anyone, todo |-> {},
           total |-> 0, succeeded |-> 0, failed |-> 0, skipped |-> 0]

\* S: the entries there are at first; the server authorises no others.
\* R: the requests that are to come.
InitWith(S, R) ==
    /\ pool = [s \in S |-> [token |-> 1, fresh |-> TRUE]]
    /\ issued = [s \in Source |-> IF s \in S THEN 1 ELSE MaxTokens]
    /\ live = [s \in Source |-> IF s \in S THEN {1} ELSE {}]
    /\ req = [r \in BuildRequest |-> IF r \in R THEN Idle ELSE [Idle EXCEPT !.phase = "gone"]]
    /\ credential = [p \in Process |-> {}]
    /\ thread = [h \in Thread |-> Rest] /\ entryLock = [s \in Source |-> {}]
    /\ job = [h \in Thread |-> NoJob] /\ stored = [h \in Thread |-> NoJob]
    /\ orphaned = {}
    /\ jobs = 0 /\ changes = 0 /\ crashes = 0

PoolInit == InitWith(Source, BuildRequest)

-----------------------------------------------------------------------------
\* The pool file, rewritten as a whole under its lock.
Saved(s, e)  == pool' = [x \in DOMAIN pool \cup {s} |-> IF x = s THEN e ELSE pool[x]]
Removed(S)   == pool' = [x \in DOMAIN pool \ S |-> pool[x]]
Exists(s)    == s \in DOMAIN pool
AlwaysPut(s) == TRUE
MayPut(s)    == Exists(s)

\* An entry after the server answered its refresh with a token.
RefreshedBlank(e, token)   == [e EXCEPT !.token = 0, !.fresh = TRUE]
RefreshedInTime(e, token)  == [e EXCEPT !.fresh = TRUE]
Refreshed(e, token)        == [e EXCEPT !.token = token, !.fresh = TRUE]

\* The server accepts a live token and answers with it or with a new one.
AnswersTo(s, token) ==
    (IF "same" \in Answers THEN {token} ELSE {})
        \cup (IF "new" \in Answers /\ issued[s] < MaxTokens THEN {issued[s] + 1} ELSE {})

Exchange(s, token, answer) ==
    /\ token \in live[s] /\ answer \in AnswersTo(s, token)
    /\ issued' = [issued EXCEPT ![s] = IF answer > @ THEN answer ELSE @]
    /\ live'   = [live EXCEPT ![s] = (@ \ {token}) \cup {answer}]

-----------------------------------------------------------------------------
\* A request of a process: post_responses.
Start(r, p) ==
    /\ req[r].phase = "idle"
    /\ req' = [req EXCEPT ![r] = [Idle EXCEPT !.phase = "select", !.process = p,
                                  !.attempts = IF DOMAIN pool = {} THEN 1
                                               ELSE Cardinality(DOMAIN pool)]]
    /\ UNCHANGED <<pool, server, credential, threads, orphaned, counters>>

\* A logical request is counted when it is over, if a credential was got for it.
OverUnlessStreamed(r) ==
    req' = [req EXCEPT ![r] = [Idle EXCEPT !.phase = "done", !.key = req[r].key,
                                  !.counted = req[r].counted
                                      + (IF req[r].phase = "posting" THEN 1 ELSE 0)]]
Over(r) ==
    req' = [req EXCEPT ![r] = [Idle EXCEPT !.phase = "done", !.key = req[r].key,
                                  !.counted = req[r].counted
                                                 + (IF req[r].key # NoSource THEN 1 ELSE 0)]]

\* _credential: one request of a process at a time loads an entry, the one it
\* has tried, while that is there, or any other, ...
Selecting(r)  == req[r].phase = "select" /\ credential[req[r].process] = {}
Loadable(r) == IF req[r].key \in DOMAIN pool THEN {req[r].key} ELSE DOMAIN pool
Unlocked(r) == credential' = [credential EXCEPT ![req[r].process] = {}]

LoadFresh(r) ==
    /\ Selecting(r) /\ req[r].forced # "asked"
    /\ \E s \in Loadable(r) :
          /\ pool[s].fresh
          /\ req' = [req EXCEPT ![r].phase = "posting", ![r].key = s]
    /\ UNCHANGED <<pool, server, credential, threads, orphaned, counters>>

NoCredential(r) ==
    /\ Selecting(r) /\ DOMAIN pool = {}
    /\ Over(r)
    /\ UNCHANGED <<pool, server, credential, threads, orphaned, counters>>

\* ... and keeps the lock while it refreshes one that is due or was refused.
LoadDue(r) ==
    /\ Selecting(r)
    /\ \E s \in Loadable(r) :
          /\ req[r].forced = "asked" \/ ~pool[s].fresh
          /\ req' = [req EXCEPT ![r].phase = "refreshing", ![r].target = s,
                                ![r].seen = pool[s]]
    /\ credential' = [credential EXCEPT ![req[r].process] = {r}]
    /\ UNCHANGED <<pool, server, threads, orphaned, counters>>

ExchangeForRequest(r) ==
    /\ req[r].phase = "refreshing" /\ req[r].answer = 0
    /\ \E answer \in Number \ {0} :
          /\ Exchange(req[r].target, req[r].seen.token, answer)
          /\ req' = [req EXCEPT ![r].answer = answer]
    /\ UNCHANGED <<pool, credential, threads, orphaned, counters>>

\* _save_document puts the refreshed entry into the file, if there is one of
\* that name, whatever it has become.
SaveForRequest(r) ==
    LET s == req[r].target IN
    /\ req[r].phase = "refreshing" /\ req[r].answer # 0
    /\ IF MayPut(s) THEN Saved(s, Refreshed(req[r].seen, req[r].answer)) ELSE UNCHANGED pool
    /\ req' = [req EXCEPT ![r].phase = "posting", ![r].key = s,
                          ![r].target = NoSource, ![r].seen = NoEntry, ![r].answer = 0,
                          ![r].forced = IF @ = "asked" THEN "spent" ELSE @]
    /\ Unlocked(r)
    /\ UNCHANGED <<server, threads, orphaned, counters>>

\* A token the server has given out and nobody received.
LostWith(holder, s) == IF holder.answer \notin {0, holder.seen.token} THEN {s} ELSE {}

\* The server refuses the token, or its answer does not arrive.
RefreshFailsForRequest(r) ==
    /\ req[r].phase = "refreshing"
    /\ Over(r)
    /\ Unlocked(r)
    /\ orphaned' = orphaned \cup LostWith(req[r], req[r].target)
    /\ UNCHANGED <<pool, server, threads, counters>>

\* The upstream's answers: a first 401 of an attempt forces a refresh; after it
\* 401, 403 and 429 go on with another entry, as often as there were entries.
Refused(r) ==
    /\ req[r].phase = "posting" /\ req[r].forced = "no"
    /\ req' = [req EXCEPT ![r].phase = "select", ![r].forced = "asked"]
    /\ UNCHANGED <<pool, server, credential, threads, orphaned, counters>>

NextEntry(r) ==
    /\ req[r].phase = "posting" /\ req[r].attempt + 1 < req[r].attempts
    /\ req' = [req EXCEPT ![r].phase = "select", ![r].key = NoSource, ![r].forced = "no",
                          ![r].attempt = @ + 1]
    /\ UNCHANGED <<pool, server, credential, threads, orphaned, counters>>

\* A stream is counted by its own end, however it comes.
StreamBegins(r) ==
    /\ req[r].phase = "posting"
    /\ req' = [req EXCEPT ![r].phase = "streaming"]
    /\ UNCHANGED <<pool, server, credential, threads, orphaned, counters>>

\* The last answer, whole or in error.
Answered(r) ==
    /\ req[r].phase \in {"posting", "streaming"}
    /\ Over(r)
    /\ UNCHANGED <<pool, server, credential, threads, orphaned, counters>>

\* The client leaves before the answer, or before it reads any of a stream: the
\* request ends uncounted.
CallerGone(r) ==
    /\ req[r].phase \in {"select", "refreshing", "posting"}
    /\ req' = [req EXCEPT ![r] = [Idle EXCEPT !.phase = "gone"]]
    /\ IF req[r].phase = "refreshing" THEN Unlocked(r) ELSE UNCHANGED credential
    /\ orphaned' = IF req[r].phase = "refreshing"
                   THEN orphaned \cup LostWith(req[r], req[r].target) ELSE orphaned
    /\ UNCHANGED <<pool, server, threads, counters>>

-----------------------------------------------------------------------------
\* The administrator's jobs, one thread each; the scheduled refresh is a job
\* that nobody looks up.  A job is stored after each of its changes.
StartJob(h, kind, S, p) ==
    /\ job[h].status # "running" /\ jobs < MaxJobs
    /\ LET new == [NoJob EXCEPT !.status = "running", !.kind = kind, !.process = p,
                                !.todo = S, !.total = Cardinality(S)] IN
       job' = [job EXCEPT ![h] = new] /\ stored' = [stored EXCEPT ![h] = new]
    /\ jobs' = jobs + 1
    /\ UNCHANGED <<pool, server, requests, thread, entryLock, orphaned, changes, crashes>>

Working(h, kind) == /\ job[h].status = "running" /\ job[h].kind = kind
                    /\ stored[h] = job[h] /\ thread[h].phase = "idle"

Tally(h, s, outcome) ==
    job' = [job EXCEPT ![h].todo = @ \ {s}, ![h][outcome] = @ + 1]

\* refresh_pool_credential: the entry is read under its lock, ...
EntryMissing(h) ==
    /\ Working(h, "refresh")
    /\ \E s \in job[h].todo \ DOMAIN pool : entryLock[s] = {} /\ Tally(h, s, "failed")
    /\ UNCHANGED <<pool, server, requests, thread, entryLock, stored, orphaned, counters>>

ReadEntry(h) ==
    /\ Working(h, "refresh")
    /\ \E s \in job[h].todo \cap DOMAIN pool :
          /\ entryLock[s] = {}
          /\ entryLock' = [entryLock EXCEPT ![s] = {h}]
          /\ thread' = [thread EXCEPT ![h] = [phase |-> "refreshing", source |-> s,
                                              seen |-> pool[s], answer |-> 0]]
    /\ UNCHANGED <<pool, server, requests, job, stored, orphaned, counters>>

ExchangeForThread(h) ==
    /\ thread[h].phase = "refreshing" /\ thread[h].answer = 0
    /\ \E answer \in Number \ {0} :
          /\ Exchange(thread[h].source, thread[h].seen.token, answer)
          /\ thread' = [thread EXCEPT ![h].answer = answer]
    /\ UNCHANGED <<pool, requests, entryLock, job, stored, orphaned, counters>>

Released(h) == /\ thread' = [thread EXCEPT ![h] = Rest]
               /\ entryLock' = [entryLock EXCEPT ![thread[h].source] = {}]

\* ... and saved if it still has the refresh token that was read.
SaveForThread(h) ==
    LET s == thread[h].source
        unchanged == Exists(s) /\ pool[s].token = thread[h].seen.token IN
    /\ thread[h].phase = "refreshing" /\ thread[h].answer # 0
    /\ IF unchanged THEN Saved(s, Refreshed(thread[h].seen, thread[h].answer))
                    ELSE UNCHANGED pool
    /\ Tally(h, s, IF unchanged THEN "succeeded" ELSE "skipped")
    /\ Released(h)
    /\ UNCHANGED <<server, requests, stored, orphaned, counters>>

RefreshFailsForThread(h) ==
    /\ thread[h].phase = "refreshing"
    /\ Tally(h, thread[h].source, "failed")
    /\ Released(h)
    /\ orphaned' = orphaned \cup LostWith(thread[h], thread[h].source)
    /\ UNCHANGED <<pool, server, requests, stored, counters>>

\* authorize_sso_account: a new grant, saved under the account's name whatever is
\* there.
Authorize(h) ==
    /\ Working(h, "convert")
    /\ \E s \in job[h].todo :
          \/ /\ issued[s] < MaxTokens
             /\ issued' = [issued EXCEPT ![s] = @ + 1]
             /\ live'   = [live EXCEPT ![s] = @ \cup {issued'[s]}]
             /\ Saved(s, [token |-> issued'[s], fresh |-> TRUE])
             /\ orphaned' = orphaned \ {s}
             /\ Tally(h, s, "succeeded")
          \/ /\ Tally(h, s, "failed")
             /\ UNCHANGED <<pool, server, orphaned>>
    /\ UNCHANGED <<requests, thread, entryLock, stored, counters>>

CompleteJob(h) ==
    /\ \E kind \in {"convert", "refresh"} : Working(h, kind)
    /\ job[h].todo = {}
    /\ job' = [job EXCEPT ![h].status = "completed"]
    /\ UNCHANGED <<pool, server, requests, thread, entryLock, stored, orphaned, counters>>

PersistJob(h) ==
    /\ stored[h] # job[h] /\ job[h].status # "none"
    /\ stored' = [stored EXCEPT ![h] = job[h]]
    /\ UNCHANGED <<pool, server, requests, thread, entryLock, job, orphaned, counters>>

-----------------------------------------------------------------------------
\* The administrator deletes entries; time makes one due.
Delete(S) ==
    /\ S # {} /\ S \subseteq DOMAIN pool /\ changes < MaxChanges
    /\ Removed(S)
    /\ changes' = changes + 1
    /\ UNCHANGED <<server, requests, threads, orphaned, jobs, crashes>>

Age(s) ==
    /\ s \in DOMAIN pool /\ pool[s].fresh /\ changes < MaxChanges
    /\ Saved(s, [pool[s] EXCEPT !.fresh = FALSE])
    /\ changes' = changes + 1
    /\ UNCHANGED <<server, requests, threads, orphaned, jobs, crashes>>

\* A process dies: its requests, its locks and its jobs' memory are gone.
Crash(p) ==
    LET mine  == {r \in BuildRequest : req[r].process = p /\ req[r].phase \notin {"idle", "done"}}
        hands == {h \in Thread : job[h].process = p /\ job[h].status = "running"} IN
    /\ crashes < MaxCrashes
    /\ req' = [r \in BuildRequest |-> IF r \in mine THEN [Idle EXCEPT !.phase = "gone"]
                                                   ELSE req[r]]
    /\ credential' = [credential EXCEPT ![p] = {}]
    /\ thread' = [h \in Thread |-> IF h \in hands THEN Rest ELSE thread[h]]
    /\ entryLock' = [s \in Source |-> entryLock[s] \ hands]
    /\ job' = [h \in Thread |-> IF h \in hands THEN NoJob ELSE job[h]]
    /\ orphaned' = orphaned
           \cup (UNION {LostWith(req[r], req[r].target) : r \in {x \in mine : req[x].phase = "refreshing"}})
           \cup (UNION {LostWith(thread[h], thread[h].source) : h \in hands})
    /\ crashes' = crashes + 1
    /\ UNCHANGED <<pool, server, stored, jobs, changes>>

RequestStep(r) ==
    \/ LoadFresh(r) \/ NoCredential(r) \/ LoadDue(r)
    \/ ExchangeForRequest(r) \/ SaveForRequest(r) \/ RefreshFailsForRequest(r)
    \/ Refused(r) \/ NextEntry(r) \/ StreamBegins(r) \/ Answered(r) \/ CallerGone(r)

ThreadStep(h) ==
    \/ EntryMissing(h) \/ ReadEntry(h) \/ ExchangeForThread(h) \/ SaveForThread(h)
    \/ RefreshFailsForThread(h) \/ Authorize(h) \/ CompleteJob(h) \/ PersistJob(h)

PoolNext ==
    \/ \E r \in BuildRequest : RequestStep(r) \/ \E p \in Process : Start(r, p)
    \/ \E h \in Thread :
          \/ ThreadStep(h)
          \/ \E kind \in {"convert", "refresh"}, S \in SUBSET Source, p \in Process :
                StartJob(h, kind, S, p)
    \/ \E S \in SUBSET Source : Delete(S)
    \/ \E s \in Source : Age(s)
    \/ \E p \in Process : Crash(p)

PoolSpec == PoolInit /\ [][PoolNext]_poolVars

-----------------------------------------------------------------------------
\* The refresh token on file is one the server accepts, or its successor is on
\* its way into the file: concurrent refreshes, authorisations and deletions
\* never leave a dead token behind, unless its receiver was lost with it.
StoredTokenLive ==
    \A s \in DOMAIN pool :
        \/ pool[s].token \in live[s]
        \/ s \in orphaned
        \/ \E r \in BuildRequest : /\ req[r].phase = "refreshing" /\ req[r].target = s
                                   /\ req[r].seen.token = pool[s].token /\ req[r].answer \in live[s]
        \/ \E h \in Thread : /\ thread[h].phase = "refreshing" /\ thread[h].source = s
                             /\ thread[h].seen.token = pool[s].token
                             /\ thread[h].answer \in live[s]

\* A deleted entry comes back only by a new authorisation, not by a refresh that
\* was under way when it was deleted.
DeletedStaysDeleted ==
    [][\A s \in DOMAIN pool' \ DOMAIN pool : pool'[s].token \notin 0..issued[s]]_poolVars

\* A request that got a credential and was answered is counted exactly once,
\* whatever it tried on the way; none is counted twice.
CountedOnce ==
    \A r \in BuildRequest :
        /\ req[r].counted <= 1
        /\ (req[r].phase = "done" /\ req[r].key # NoSource) => req[r].counted = 1

=============================================================================
