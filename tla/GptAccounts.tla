------------------------------- MODULE GptAccounts -------------------------------
(***************************************************************************)
(* The ChatGPT accounts that generate GPT images.  They are records of the *)
(* account repository, kept disabled there, with a capability status of    *)
(* their own.  Image requests list them, try some in turn and write what   *)
(* happened (src/app/products/openai/gpt_image.py); the administrator      *)
(* adds, logs in, tests, refreshes and deletes them, and two loops of the  *)
(* leader repair and refresh them                                          *)
(* (src/app/products/web/admin/gpt_accounts.py, src/app/main.py).          *)
(*                                                                         *)
(* ChatGPT is external.  Times are flags that a Tick clears.  Edits and    *)
(* generations run the same loop.                                          *)
(***************************************************************************)
EXTENDS Naturals, FiniteSets, SequencesExt

CONSTANTS
    GptAccount,    \* records
    WithLogin,     \* those with credentials to log in with
    Token, NoToken,\* access tokens
    Request,       \* image requests
    Task,          \* administrators' operations at a time
    Wanted,        \* n of a request
    MaxPerImage,   \* gpt_image.max_account_attempts_per_image
    MaxFaults,     \* bound: failures that are not the token's over a behaviour
    MaxTasks       \* bound: administrators' operations over a behaviour

ASSUME GptAssumption ==
    /\ IsFiniteSet(GptAccount) /\ WithLogin \subseteq GptAccount
    /\ NoToken \notin Token
    /\ Wanted \in Nat \ {0} /\ MaxPerImage \in Nat \ {0}
    /\ MaxFaults \in Nat /\ MaxTasks \in Nat

VARIABLES
    record,    \* the records there are
    valid,     \* ChatGPT: the tokens it accepts
    image,     \* the image requests
    task,      \* the administrators' operations
    loop,      \* the remote refresh: records to do, as they were listed
    repair,    \* the timeout repair: records found due
    faults, tasks,  \* the bounded counters
    halfAdded  \* history: records whose addition broke off

gptVars == <<record, valid, image, task, loop, repair, faults, tasks, halfAdded>>

Status == {"unchecked", "available", "login_required", "login_failed", "invalid",
           "rate_limited", "timeout", "failed"}
\* "cooling": cooldown_until is ahead; "recent": the last failure is one of
\* generation and recent; "marked": a timeout is on record; "waited": too early to
\* log in again.
Record == [active : BOOLEAN, deleted : BOOLEAN, token : Token \cup {NoToken},
           status : Status, cooling : BOOLEAN, recent : BOOLEAN, marked : BOOLEAN,
           waited : BOOLEAN]
Image  == [phase : {"idle", "listing", "trying", "drawing", "done", "failed"},
           logins : SUBSET GptAccount, listed : SUBSET (GptAccount \X Token),
           accounts : Seq(GptAccount \X Token), next : Nat, attempt : Nat, images : Nat]
Job    == [op : {"none", "add", "test", "login"}, account : GptAccount, token : Token \cup {NoToken}]

GptTypeOK ==
    /\ DOMAIN record \subseteq GptAccount /\ \A a \in DOMAIN record : record[a] \in Record
    /\ valid \subseteq Token
    /\ image \in [Request -> Image] /\ task \in [Task -> Job]
    /\ loop \subseteq GptAccount \X Token /\ repair \subseteq GptAccount
    /\ faults \in 0..MaxFaults /\ tasks \in 0..MaxTasks
    /\ halfAdded \subseteq GptAccount

Fresh(t) == [active |-> FALSE, deleted |-> FALSE, token |-> t,
             status |-> IF t = NoToken THEN "login_required" ELSE "unchecked",
             cooling |-> FALSE, recent |-> FALSE, marked |-> FALSE, waited |-> FALSE]
NoImage  == [phase |-> "idle", logins |-> {}, listed |-> {}, accounts |-> <<>>, next |-> 0,
             attempt |-> 0, images |-> 0]
NoJob    == [op |-> "none", account |-> CHOOSE a \in GptAccount : TRUE, token |-> NoToken]

GptInit ==
    /\ \E S \in SUBSET GptAccount :
          \E t \in [S -> Token \cup {NoToken}] :
             /\ \A a \in S : t[a] = NoToken => a \in WithLogin
             /\ record = [a \in S |-> Fresh(t[a])]
    /\ valid = Token
    /\ image = [r \in Request |-> NoImage] /\ task = [k \in Task |-> NoJob]
    /\ loop = {} /\ repair = {} /\ faults = 0 /\ tasks = 0 /\ halfAdded = {}

-----------------------------------------------------------------------------
\* What patches do to a record; a patch reaches deleted records too.
Patch(a, rec) == record' = [record EXCEPT ![a] = rec]
Present == {a \in DOMAIN record : ~record[a].deleted}

\* _patch_account_success: the status and the cooldown are cleared, the last
\* failure is not.
Succeeded(rec, t) == [rec EXCEPT !.status = "available", !.token = t, !.cooling = FALSE]

\* _patch_account_failure, by what the upstream's answer amounts to.
CoolsDown(e) == e \in {"rate_limited", "timeout"}
Failures == {"invalid", "rate_limited", "timeout", "failed"}
Failed(rec, e) ==
    [rec EXCEPT !.status = e,
                !.cooling = @ \/ CoolsDown(e),
                !.recent  = CoolsDown(e),
                !.marked  = e = "timeout"]

LoginFailed(rec) == [rec EXCEPT !.status = "login_failed", !.waited = TRUE,
                                !.recent = FALSE, !.marked = FALSE]

\* A request to ChatGPT.  Any may break: over the time, at a limit, or otherwise.
\* One that shows a token which is not valid is rejected.
Breaks(e)      == e \in {"rate_limited", "timeout", "failed"} /\ faults < MaxFaults
Rejects(t, e)  == t \notin valid /\ e = "invalid"
Required(t)    == t \in valid
Delivers(t, e) == Required(t) /\ e = "ok"
Answer(t, e)   == Rejects(t, e) \/ Delivers(t, e) \/ Breaks(e)

\* While an image is awaited, requests that fail are made again: of a token that was
\* revoked meanwhile nothing is heard but that there is no image.
Missing(t, e) == Breaks(e) \/ (t \notin valid /\ e = "failed")
Counted(e)    == faults' = IF Breaks(e) THEN faults + 1 ELSE faults

-----------------------------------------------------------------------------
\* _account_from_record and _record_blocked_access_token.
Usable(rec)  == rec.status \notin {"invalid", "login_failed"} /\ ~rec.cooling /\ ~rec.recent
Offers(a)    == record[a].token # NoToken /\ Usable(record[a])
Blocked      == {record[a].token : a \in {x \in Present : ~Offers(x)}}
NeedsLogin(a) == record[a].token = NoToken /\ a \in WithLogin /\ ~record[a].waited

\* _gpt_image_accounts lists the records and logs in to those without a token, ...
List(r) ==
    /\ image[r].phase = "idle"
    /\ image' = [image EXCEPT
         ![r].phase = "listing",
         ![r].logins = {a \in Present : NeedsLogin(a)},
         ![r].listed = {<<a, record[a].token>> :
                           a \in {x \in Present : Offers(x) /\ record[x].token \notin Blocked}}]
    /\ UNCHANGED <<record, valid, task, loop, repair, faults, tasks, halfAdded>>

LoginForList(r) ==
    /\ image[r].phase = "listing"
    /\ \E a \in image[r].logins :
          \/ \E t \in valid :
                /\ Patch(a, [record[a] EXCEPT !.token = t, !.status = "available", !.waited = TRUE])
                /\ image' = [image EXCEPT ![r].logins = @ \ {a},
                                           ![r].listed = @ \cup {<<a, t>>}]
                /\ UNCHANGED faults
          \/ /\ faults < MaxFaults
             /\ Patch(a, LoginFailed(record[a]))
             /\ image' = [image EXCEPT ![r].logins = @ \ {a}]
             /\ faults' = faults + 1
    /\ UNCHANGED <<valid, task, loop, repair, tasks, halfAdded>>

\* ... and takes each token once.
Distinct(L) == {S \in SUBSET L :
                   /\ {x[2] : x \in S} = {x[2] : x \in L}
                   /\ \A x, y \in S : x[2] = y[2] => x = y}

Listed(r) ==
    /\ image[r].phase = "listing" /\ image[r].logins = {}
    /\ \E S \in Distinct(image[r].listed) : \E s \in SetToSeqs(S) :
          image' = [image EXCEPT ![r].phase = IF s = <<>> THEN "failed" ELSE "trying",
                                 ![r].accounts = s, ![r].listed = {}]
    /\ UNCHANGED <<record, valid, task, loop, repair, faults, tasks, halfAdded>>

-----------------------------------------------------------------------------
\* _run_generation and _run_edit: the accounts in turn, a few for each image.
Chosen(r)   == image[r].accounts[(image[r].next % Len(image[r].accounts)) + 1]
Attempts(r) == IF MaxPerImage < Len(image[r].accounts)
               THEN MaxPerImage ELSE Len(image[r].accounts)

\* What is left of a request that is over.
Result(n) == [NoImage EXCEPT !.phase = IF n > 0 THEN "done" ELSE "failed"]

\* The requirements are met, the references of an edit uploaded, and the prompt is
\* accepted; then the answer is awaited.
Asked(i) == [i EXCEPT !.phase = "drawing"]
Ask(r) ==
    /\ image[r].phase = "trying" /\ image[r].attempt < Attempts(r)
    /\ Required(Chosen(r)[2])
    /\ image' = [image EXCEPT ![r] = Asked(@)]
    /\ UNCHANGED <<record, valid, task, loop, repair, faults, tasks, halfAdded>>

Generate(r) ==
    /\ image[r].phase = "drawing"
    /\ LET a == Chosen(r)[1]
           t == Chosen(r)[2]
           n == image[r].images + 1 IN
       /\ Delivers(t, "ok")
       /\ IF a \in DOMAIN record THEN Patch(a, Succeeded(record[a], record[a].token))
                                 ELSE UNCHANGED record
       /\ image' = [image EXCEPT
            ![r] = IF n = Wanted THEN Result(n)
                   ELSE [image[r] EXCEPT !.images = n, !.next = image[r].next + 1,
                                         !.attempt = 0, !.phase = "trying"]]
    /\ UNCHANGED <<valid, task, loop, repair, faults, tasks, halfAdded>>

\* A failed attempt is written to the record, but for a Cloudflare 524.
AttemptFails(r) ==
    /\ \/ image[r].phase = "trying" /\ image[r].attempt < Attempts(r)
       \/ image[r].phase = "drawing"
    /\ LET a == Chosen(r)[1]
           t == Chosen(r)[2] IN
       /\ \E e \in Failures :
             /\ IF image[r].phase = "trying" THEN Rejects(t, e) \/ Breaks(e) ELSE Missing(t, e)
             /\ Counted(e)
             /\ \/ a \in DOMAIN record /\ Patch(a, Failed(record[a], e))
                \/ e = "timeout" /\ UNCHANGED record
       /\ image' = [image EXCEPT ![r].phase = "trying", ![r].next = @ + 1,
                                 ![r].attempt = @ + 1]
    /\ UNCHANGED <<valid, task, loop, repair, tasks, halfAdded>>

\* No attempt is left for this image, or no time for any.
Stop(r) ==
    /\ image[r].phase = "trying"
    /\ image' = [image EXCEPT ![r] = Result(image[r].images)]
    /\ UNCHANGED <<record, valid, task, loop, repair, faults, tasks, halfAdded>>

-----------------------------------------------------------------------------
\* add_gpt_accounts, finish_gpt_account_oauth and login_gpt_account of a new
\* account: the record is upserted, active, and then patched to be disabled.
Upserted(t) == [Fresh(t) EXCEPT !.active = TRUE]

Add(k, a, t) ==
    /\ task[k].op = "none" /\ tasks < MaxTasks
    /\ t = NoToken => a \in WithLogin
    /\ record' = [x \in DOMAIN record \cup {a} |-> IF x = a THEN Upserted(t) ELSE record[x]]
    /\ task' = [task EXCEPT ![k] = [op |-> "add", account |-> a, token |-> t]]
    /\ tasks' = tasks + 1
    /\ UNCHANGED <<valid, image, loop, repair, faults, halfAdded>>

Forgotten(rec) == rec
Disabled(rec)  == [rec EXCEPT !.active = FALSE]

AddDisables(k) ==
    /\ task[k].op = "add"
    /\ LET a == task[k].account IN
       /\ Patch(a, Disabled(record[a]))
       /\ halfAdded' = halfAdded \ {a}
    /\ task' = [task EXCEPT ![k] = NoJob]
    /\ UNCHANGED <<valid, image, loop, repair, faults, tasks>>

AddBreaksOff(k) ==
    /\ task[k].op = "add" /\ faults < MaxFaults
    /\ halfAdded' = halfAdded \cup {task[k].account}
    /\ task' = [task EXCEPT ![k] = NoJob]
    /\ faults' = faults + 1
    /\ UNCHANGED <<record, valid, image, loop, repair, tasks>>

\* test_gpt_account_record and login_gpt_account read the record, wait for
\* ChatGPT, and patch what is then there.
Begin(k, op, a) ==
    /\ task[k].op = "none" /\ tasks < MaxTasks
    /\ a \in Present
    /\ op = "login" => a \in WithLogin
    /\ task' = [task EXCEPT ![k] = [op |-> op, account |-> a, token |-> record[a].token]]
    /\ tasks' = tasks + 1
    /\ UNCHANGED <<record, valid, image, loop, repair, faults, halfAdded>>

Tested(rec, t, e) == IF e = "ok" THEN Succeeded(rec, t) ELSE Failed([rec EXCEPT !.token = t], e)

\* With a token the test leaves the record's as it is; without one it logs in first.
TestEnds(k) ==
    /\ task[k].op = "test"
    /\ LET a == task[k].account IN
       \/ /\ task[k].token # NoToken
          /\ \E e \in Failures \cup {"ok"} :
                /\ Answer(task[k].token, e) /\ Counted(e)
                /\ Patch(a, Tested(record[a], record[a].token, e))
       \/ /\ task[k].token = NoToken /\ a \in WithLogin
          /\ \/ \E t \in valid, e \in Failures \cup {"ok"} :
                   Answer(t, e) /\ Counted(e) /\ Patch(a, Tested(record[a], t, e))
             \/ Patch(a, LoginFailed(record[a])) /\ faults < MaxFaults /\ faults' = faults + 1
       \/ /\ task[k].token = NoToken /\ a \notin WithLogin
          /\ Patch(a, [record[a] EXCEPT !.status = "login_required", !.recent = FALSE,
                                        !.marked = FALSE])
          /\ UNCHANGED faults
    /\ task' = [task EXCEPT ![k] = NoJob]
    /\ UNCHANGED <<valid, image, loop, repair, tasks, halfAdded>>

LoginEnds(k) ==
    /\ task[k].op = "login"
    /\ \/ \E t \in valid :
             Patch(task[k].account,
                   Disabled([record[task[k].account] EXCEPT !.token = t, !.status = "available"]))
       \/ UNCHANGED record
    /\ task' = [task EXCEPT ![k] = NoJob]
    /\ UNCHANGED <<valid, image, loop, repair, faults, tasks, halfAdded>>

Delete(a) ==
    /\ a \in Present /\ tasks < MaxTasks
    /\ record' = [record EXCEPT ![a].deleted = TRUE]
    /\ tasks' = tasks + 1
    /\ UNCHANGED <<valid, image, task, loop, repair, faults, halfAdded>>

-----------------------------------------------------------------------------
\* refresh_stale_gpt_account_remote_details: the records with a token, whatever
\* their status, are listed and refreshed one by one.
WorthRefreshUnchecked(a) == record[a].token # NoToken /\ record[a].status = "unchecked"
WorthRefresh(a)          == record[a].token # NoToken

ListStale ==
    /\ loop = {}
    /\ loop' = {<<a, record[a].token>> : a \in {x \in Present : WorthRefresh(x)}}
    /\ loop' # {}
    /\ UNCHANGED <<record, valid, image, task, repair, faults, tasks, halfAdded>>

RefreshRemote ==
    /\ \E x \in loop :
          /\ loop' = loop \ {x}
          /\ \/ /\ Answer(x[2], "ok")
                /\ Patch(x[1], [record[x[1]] EXCEPT !.status = "available"])
                /\ UNCHANGED faults
             \/ /\ Answer(x[2], "invalid")
                /\ Patch(x[1], [record[x[1]] EXCEPT !.status = "invalid", !.recent = FALSE,
                                                    !.marked = FALSE])
                /\ UNCHANGED faults
             \/ /\ faults < MaxFaults /\ faults' = faults + 1
                /\ Patch(x[1], [record[x[1]] EXCEPT !.recent = FALSE])
    /\ UNCHANGED <<valid, image, task, repair, tasks, halfAdded>>

\* repair_timed_out_gpt_image_accounts: those due when they were listed are
\* cleared, whatever they have become.
RepairDue(a) == /\ ~record[a].cooling /\ ~record[a].recent
                /\ record[a].status = "timeout" \/ record[a].marked

FindTimedOut ==
    /\ repair = {}
    /\ repair' = {a \in Present : RepairDue(a)}
    /\ repair' # {}
    /\ UNCHANGED <<record, valid, image, task, loop, faults, tasks, halfAdded>>

Repair ==
    /\ repair # {}
    /\ record' = [a \in DOMAIN record |->
         IF a \in repair
         THEN [record[a] EXCEPT !.status = IF record[a].token # NoToken THEN "available"
                                                                       ELSE "login_required",
                                !.cooling = FALSE, !.recent = FALSE, !.marked = FALSE]
         ELSE record[a]]
    /\ repair' = {}
    /\ UNCHANGED <<valid, image, task, loop, faults, tasks, halfAdded>>

\* Time passes for a record; ChatGPT revokes a token.
Tick(a) ==
    /\ a \in DOMAIN record
    /\ record[a].cooling \/ record[a].recent \/ record[a].waited
    /\ Patch(a, [record[a] EXCEPT !.cooling = FALSE, !.recent = FALSE, !.waited = FALSE])
    /\ UNCHANGED <<valid, image, task, loop, repair, faults, tasks, halfAdded>>

Revoke(t) ==
    /\ t \in valid /\ faults < MaxFaults
    /\ valid' = valid \ {t} /\ faults' = faults + 1
    /\ UNCHANGED <<record, image, task, loop, repair, tasks, halfAdded>>

ImageStep(r) == List(r) \/ LoginForList(r) \/ Listed(r) \/ Ask(r) \/ Generate(r)
                    \/ AttemptFails(r) \/ Stop(r)
TaskStep(k)  == AddDisables(k) \/ TestEnds(k) \/ LoginEnds(k)
Loops        == ListStale \/ RefreshRemote \/ FindTimedOut \/ Repair

GptNext ==
    \/ \E r \in Request : ImageStep(r)
    \/ \E k \in Task :
          \/ TaskStep(k) \/ AddBreaksOff(k)
          \/ \E a \in GptAccount, t \in Token \cup {NoToken} : Add(k, a, t)
          \/ \E a \in GptAccount, op \in {"test", "login"} : Begin(k, op, a)
    \/ Loops
    \/ \E a \in GptAccount : Delete(a) \/ Tick(a)
    \/ \E t \in Token : Revoke(t)

GptSpec == GptInit /\ [][GptNext]_gptVars

\* Requests and tasks have timeouts; the leader's loops run for ever.
GptFairness ==
    /\ \A r \in Request : WF_gptVars(ImageStep(r))
    /\ \A k \in Task : WF_gptVars(TaskStep(k))
    /\ WF_gptVars(ListStale) /\ WF_gptVars(RefreshRemote)
    /\ \A a \in GptAccount : WF_gptVars(Tick(a))

GptFairSpec == GptSpec /\ GptFairness

-----------------------------------------------------------------------------
\* Only an addition that is under way or broke off leaves a record active: no test,
\* login, refresh or repair lets one into the pool of Grok accounts.
ActiveOnlyWhileAdded ==
    \A a \in DOMAIN record : record[a].active =>
        a \in halfAdded \/ \E k \in Task : task[k].op = "add" /\ task[k].account = a

\* A token that works does not stay shut out: whatever stale answers were written
\* to its record, it becomes usable again, or it is replaced, revoked or deleted.
GoodTokenReturns ==
    \A a \in GptAccount, t \in Token :
        (a \in Present /\ record[a].token = t)
            ~> (a \notin Present \/ record[a].token # t \/ t \notin valid \/ Usable(record[a]))
=============================================================================
