-------------------------------- MODULE Workers --------------------------------
(***************************************************************************)
(* The server's worker processes: start-up (src/app/main.py), the move of  *)
(* the accounts of an old SQLite file to a database backend                *)
(* (src/app/platform/startup/migration.py), the configuration each keeps a *)
(* copy of (src/app/platform/config/snapshot.py), the election of the      *)
(* leader, and the refresh scheduler that only a leader runs               *)
(* (src/app/control/account/runtime.py, scheduler.py).                     *)
(*                                                                         *)
(* Left out: the file-locking fallback of Windows, and the TOML file as    *)
(* the configuration's store, whose writers replace it without a lock.     *)
(***************************************************************************)
EXTENDS Naturals, FiniteSets

CONSTANTS
    WebWorker,
    OldAccount,    \* the accounts of the old file
    PageOf,        \* the page of list_accounts each is on: pages are filled in order
    Pages,         \* pages of the old file
    Gone,          \* the accounts that were deleted there
    MaxUpdates,    \* bound: configuration updates over a behaviour
    MaxStarts      \* bound: starts of a worker over a behaviour

ASSUME WorkersAssumption ==
    /\ WebWorker # {} /\ Gone \subseteq OldAccount
    /\ Pages \in Nat \ {0} /\ PageOf \in [OldAccount -> 1..Pages]
    /\ \A a \in OldAccount : \A p \in 1..PageOf[a] : \E b \in OldAccount : PageOf[b] = p
    /\ MaxUpdates \in Nat /\ MaxStarts \in Nat

VARIABLES
    store,     \* the configuration backend: account.refresh.enabled and the version
    worker,    \* the processes
    old,       \* accounts.db: whether the file is there, and its accounts
    migrated,  \* accounts.db.migrated: its accounts
    target,    \* the database backend's accounts
    updates, starts  \* the bounded counters

workersVars == <<store, worker, old, migrated, target, updates, starts>>

None     == 0   \* ConfigSnapshot._version of a copy that is to be loaded again
Versions == 1..MaxUpdates + 1
Config   == [enabled : BOOLEAN, version : Versions \cup {None}]
Copied   == [uses : 0..Cardinality(WebWorker), patched : BOOLEAN, deleted : BOOLEAN]
Targets  == UNION {[S -> Copied] : S \in SUBSET OldAccount}

\* "loading" is the version a load has read before it reads the data; "loops" the
\* refresh loops, "dying" those that were cancelled and have not noticed yet.
WorkerState ==
    [phase : {"down", "boot", "check", "open", "upsert", "patch", "delete", "rename",
              "booted", "elect", "up", "closing"},
     config : Config, loading : Versions \cup {None}, page : 1..Pages + 1,
     leader : BOOLEAN, strategy : {"quota", "random"},
     loops : {"off", "waiting", "refreshing"}, dying : BOOLEAN]

WorkersTypeOK ==
    /\ store \in [enabled : BOOLEAN, version : Versions]
    /\ worker \in [WebWorker -> WorkerState]
    /\ old \in [exists : BOOLEAN, accounts : SUBSET OldAccount]
    /\ migrated \subseteq OldAccount
    /\ target \in Targets
    /\ updates \in 0..MaxUpdates /\ starts \in 0..MaxStarts

Down == [phase |-> "down", config |-> [enabled |-> FALSE, version |-> None],
         loading |-> None, page |-> 1, leader |-> FALSE, strategy |-> "quota",
         loops |-> "off", dying |-> FALSE]

WorkersInit ==
    /\ store \in [enabled : BOOLEAN, version : {1}]
    /\ worker = [w \in WebWorker |-> Down]
    /\ old = [exists |-> TRUE, accounts |-> OldAccount]
    /\ migrated = {} /\ target = <<>>
    /\ updates = 0 /\ starts = 0

WorkerBecomes(w, changes) == worker' = [worker EXCEPT ![w] = changes]
files  == <<old, migrated, target>>

Boot(w) ==
    /\ worker[w].phase = "down" /\ starts < MaxStarts
    /\ starts' = starts + 1
    /\ WorkerBecomes(w, [Down EXCEPT !.phase = "boot"])
    /\ UNCHANGED <<store, files, updates>>

-----------------------------------------------------------------------------
\* reconcile_refresh_runtime: the strategy follows the worker's configuration, and
\* the leader's scheduler is started or stopped; stop() cancels its loops.
SchedulesAny(s) == s.phase # "down"
Schedules(s)    == s.leader
Reconciled(s, enabled) ==
    LET running == s.loops # "off"
        t == [s EXCEPT !.strategy = IF enabled THEN "quota" ELSE "random"]
    IN  IF ~Schedules(s) \/ enabled = running THEN t
        ELSE IF enabled THEN [t EXCEPT !.loops = "waiting"]
        ELSE [t EXCEPT !.loops = "off", !.dying = @ \/ s.loops = "refreshing"]

\* What follows a load: the next step of the start-up; a request's reconciliation,
\* or nothing in a background loop.
AfterLoad(s) ==
    CASE s.phase = "boot"   -> {[s EXCEPT !.phase = "check"]}
      [] s.phase = "booted" -> {[s EXCEPT !.phase = "elect"]}
      [] OTHER              -> {s, Reconciled(s, s.config.enabled)}

\* load: under the lock the version is read, and the data after it.
BeginLoad(w) ==
    /\ worker[w].phase \in {"boot", "booted", "up"} /\ worker[w].loading = None
    /\ IF worker[w].config.version = store.version
       THEN \E s \in AfterLoad(worker[w]) : WorkerBecomes(w, s)
       ELSE WorkerBecomes(w, [worker[w] EXCEPT !.loading = store.version])
    /\ UNCHANGED <<store, files, updates, starts>>

EndLoad(w) ==
    /\ worker[w].loading # None
    /\ \E s \in AfterLoad([worker[w] EXCEPT
                 !.config = [enabled |-> store.enabled, version |-> worker[w].loading],
                 !.loading = None]) : WorkerBecomes(w, s)
    /\ UNCHANGED <<store, files, updates, starts>>

\* POST /admin/api/config: the backend changes, the copy is marked to be loaded
\* again; the load and the reconciliation follow.
MarkedNew(s) == [s EXCEPT !.config.version = store.version + 1]
Marked(s)    == [s EXCEPT !.config.version = None]

Update(w, enabled) ==
    /\ worker[w].phase = "up" /\ worker[w].loading = None
    /\ updates < MaxUpdates /\ updates' = updates + 1
    /\ store' = [enabled |-> enabled, version |-> store.version + 1]
    /\ WorkerBecomes(w, Marked(worker[w]))
    /\ UNCHANGED <<files, starts>>

-----------------------------------------------------------------------------
\* _migrate_accounts and _copy_accounts.  The source is opened by its path for
\* every page; opened where no file is, it becomes an empty one.
Check(w) ==
    /\ worker[w].phase = "check"
    /\ WorkerBecomes(w, [worker[w] EXCEPT !.phase = IF old.exists /\ DOMAIN target = {}
                                              THEN "open" ELSE "booted"])
    /\ UNCHANGED <<store, files, updates, starts>>

Open(w) ==
    /\ worker[w].phase = "open"
    /\ old' = IF old.exists THEN old ELSE [exists |-> TRUE, accounts |-> {}]
    /\ WorkerBecomes(w, [worker[w] EXCEPT !.phase = "upsert", !.page = 1])
    /\ UNCHANGED <<store, migrated, target, updates, starts>>

OnPage(w) == {a \in old.accounts : PageOf[a] = worker[w].page}
Renames(w) == [worker[w] EXCEPT !.phase = "rename"]

\* A page is read and written as new accounts; on a file that is gone the read fails.
UpsertPage(w) ==
    /\ worker[w].phase = "upsert"
    /\ IF ~old.exists
       THEN /\ WorkerBecomes(w, Down)
            /\ old' = [exists |-> TRUE, accounts |-> {}]
            /\ UNCHANGED target
       ELSE /\ target' = [a \in DOMAIN target \cup OnPage(w) |->
                              IF a \in OnPage(w)
                              THEN [uses |-> 0, patched |-> FALSE, deleted |-> FALSE]
                              ELSE target[a]]
            /\ WorkerBecomes(w, IF OnPage(w) = {} THEN Renames(w)
                          ELSE [worker[w] EXCEPT !.phase = "patch"])
            /\ UNCHANGED old
    /\ UNCHANGED <<store, migrated, updates, starts>>

ThisPage(w) == {a \in DOMAIN target : PageOf[a] = worker[w].page}

\* Status and windows are set; the usage counts are added to what is there.
PatchPage(w) ==
    /\ worker[w].phase = "patch"
    /\ target' = [a \in DOMAIN target |->
                      IF a \in ThisPage(w)
                      THEN [target[a] EXCEPT !.uses = @ + 1, !.patched = TRUE]
                      ELSE target[a]]
    /\ WorkerBecomes(w, [worker[w] EXCEPT !.phase = "delete"])
    /\ UNCHANGED <<store, old, migrated, updates, starts>>

NextPageRenames(w) == Renames(w)
NextPage(w) == IF worker[w].page >= Pages THEN Renames(w)
               ELSE [worker[w] EXCEPT !.phase = "upsert", !.page = @ + 1]

DeletePage(w) ==
    /\ worker[w].phase = "delete"
    /\ target' = [a \in DOMAIN target |-> IF a \in ThisPage(w) \cap Gone
                                          THEN [target[a] EXCEPT !.deleted = TRUE]
                                          ELSE target[a]]
    /\ WorkerBecomes(w, NextPage(w))
    /\ UNCHANGED <<store, old, migrated, updates, starts>>

\* The file is renamed over an older .migrated; a file that is gone ends the start.
Rename(w) ==
    /\ worker[w].phase = "rename"
    /\ IF old.exists
       THEN /\ migrated' = old.accounts /\ old' = [exists |-> FALSE, accounts |-> {}]
            /\ WorkerBecomes(w, [worker[w] EXCEPT !.phase = "booted"])
       ELSE WorkerBecomes(w, Down) /\ UNCHANGED <<old, migrated>>
    /\ UNCHANGED <<store, target, updates, starts>>

-----------------------------------------------------------------------------
\* _try_acquire_scheduler_lock, once per start, and the reconciliation.
LockTaken == \E v \in WebWorker : worker[v].leader
Elect(w) ==
    /\ worker[w].phase = "elect"
    /\ LET s == [worker[w] EXCEPT !.leader = ~LockTaken, !.phase = "up"]
       IN  WorkerBecomes(w, Reconciled(s, s.config.enabled))
    /\ UNCHANGED <<store, files, updates, starts>>

\* A scheduler's loops: an interval ends and a refresh begins or ends; a cancelled
\* loop is gone when the cancellation reaches it.
LoopTick(w) ==
    /\ \/ /\ worker[w].loops = "waiting"
          /\ WorkerBecomes(w, [worker[w] EXCEPT !.loops = "refreshing"])
       \/ /\ worker[w].loops = "refreshing"
          /\ WorkerBecomes(w, [worker[w] EXCEPT !.loops = "waiting"])
       \/ worker[w].dying /\ WorkerBecomes(w, [worker[w] EXCEPT !.dying = FALSE])
    /\ UNCHANGED <<store, files, updates, starts>>

\* The shutdown stops the scheduler and frees the lock, and waits no longer.
Released(s) == [s EXCEPT !.phase = "closing", !.leader = FALSE, !.loops = "off",
                         !.dying = @ \/ s.loops = "refreshing"]
Shutdown(w) ==
    /\ worker[w].phase = "up" /\ WorkerBecomes(w, Released(worker[w]))
    /\ UNCHANGED <<store, files, updates, starts>>

\* A process ends or is killed; the system frees its lock.
Exit(w) ==
    /\ worker[w].phase # "down" /\ WorkerBecomes(w, Down)
    /\ UNCHANGED <<store, files, updates, starts>>

WorkersNext ==
    \E w \in WebWorker :
        \/ Boot(w) \/ BeginLoad(w) \/ EndLoad(w)
        \/ \E enabled \in BOOLEAN : Update(w, enabled)
        \/ Check(w) \/ Open(w) \/ UpsertPage(w) \/ PatchPage(w) \/ DeletePage(w) \/ Rename(w)
        \/ Elect(w) \/ LoopTick(w) \/ Shutdown(w) \/ Exit(w)

WorkersSpec == WorkersInit /\ [][WorkersNext]_workersVars

-----------------------------------------------------------------------------
\* However the workers start, stop, die and reload their configuration, the loops
\* that refresh accounts run in one of them at most, and there by its own strategy.
OneScheduler ==
    /\ Cardinality({w \in WebWorker : worker[w].loops # "off"}) <= 1
    /\ \A w \in WebWorker : worker[w].loops # "off" =>
           worker[w].leader /\ worker[w].strategy = "quota"

\* A copy that bears the backend's version has the backend's data: the load that
\* follows a change is never skipped for good.
CopiesAreHonest ==
    \A w \in WebWorker :
        worker[w].config.version = store.version => worker[w].config.enabled = store.enabled

\* Once the old file is out of the way, every account is in the new backend, though
\* starts race and break off: no restart finds neither the file nor the accounts.
NoAccountLeftBehind ==
    ~old.exists => DOMAIN target = OldAccount
=============================================================================
