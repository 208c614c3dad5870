-------------------------- MODULE AccountDirectory --------------------------
(***************************************************************************)
(* One worker process's AccountDirectory (src/app/dataplane/account): the  *)
(* in-memory AccountRuntimeTable, the leases its requests hold, and the    *)
(* revision scan that keeps the table in step with the repository while    *)
(* this and other processes write to it.                                   *)
(*                                                                         *)
(* The event loop runs one coroutine at a time and the directory's lock is *)
(* never held across a suspension, so reserve, the release-and-feedback of *)
(* a finished request, and the application of a fetched page are one       *)
(* action each.  The scan itself is not: the revision and the rows are     *)
(* read by two statements, each with its own snapshot of the database, and *)
(* the page is applied when the coroutine resumes, so other processes and  *)
(* this worker's requests run in between.  (SQLite answers within the call *)
(* and MySQL reads both from one snapshot: they do less, never more.)      *)
(*                                                                         *)
(* Slot indexes are dense and idx_by_token never forgets a token, so a     *)
(* slot is named by its token.  Which eligible account the strategies pick *)
(* (quota, cooling, health) is not decided here: reserve takes any.        *)
(***************************************************************************)
EXTENDS AccountRepository, FiniteSets

CONSTANTS
    Request,        \* in-flight client requests
    NoToken,        \* no account reserved
    BatchLimit,     \* apply_changes' batch_limit, 5000 in the code
    MaxCrashes      \* bound: how often the worker dies

\* Fewer requests run at once than the uint16 in-flight column can count.
InflightCap == 65535

ASSUME DirectoryAssumption ==
    /\ IsFiniteSet(Token)
    /\ NoToken \notin Token
    /\ IsFiniteSet(Request)
    /\ Cardinality(Request) <= InflightCap
    /\ BatchLimit \in Nat \ {0}
    /\ MaxCrashes \in Nat

VARIABLES
    phase,          \* "down", "booting" or "up": the worker's lifecycle
    slots,          \* tokens that have a slot (idx_by_token)
    col,            \* the slot's pool, status and window columns
    inflight,       \* inflight_by_idx
    mode_available, \* (pool, mode) -> slots selectable for it
    size,           \* table.size
    revision,       \* table.revision
    lease,          \* the token each request has reserved
    scan,           \* apply_changes: "idle", "scanning" or "fetched"
    pageRevision,   \* changeset.revision
    page,           \* the rows of the fetched changeset
    crashes         \* deaths so far

tableVars == <<slots, col, inflight, mode_available, size, revision>>
scanVars  == <<scan, pageRevision, page>>
dirVars   == <<phase, tableVars, lease, scanVars, crashes>>
vars      == <<repoVars, dirVars>>

SlotStatus   == Status \cup {"deleted"}
Slot         == [pool: Pool, status: SlotStatus, windows: SUBSET Mode]
EmptyPage    == [t \in {} |-> NoRow]
EmptyIndex   == [k \in Pool \X Mode |-> {}]
NoSlot       == [pool |-> NoRow.pool, status |-> "deleted", windows |-> {}]

TypeOK ==
    /\ RepoTypeOK
    /\ phase \in {"down", "booting", "up"}
    /\ slots \subseteq Token
    /\ col \in [Token -> Slot]
    /\ inflight \in [Token -> 0..InflightCap]
    /\ mode_available \in [Pool \X Mode -> SUBSET Token]
    /\ size \in Nat
    /\ revision \in Nat
    /\ lease \in [Request -> Token \cup {NoToken}]
    /\ scan \in {"idle", "scanning", "fetched"}
    /\ pageRevision \in Nat
    /\ DOMAIN page \subseteq Token
    /\ page \in [DOMAIN page -> Row]
    /\ crashes \in Nat

Init ==
    /\ RepoInit
    /\ phase = "down"
    /\ slots = {}
    /\ col = [t \in Token |-> NoSlot]
    /\ inflight = [t \in Token |-> 0]
    /\ mode_available = EmptyIndex
    /\ size = 0
    /\ revision = 0
    /\ lease = [r \in Request |-> NoToken]
    /\ scan = "idle"
    /\ pageRevision = 0
    /\ page = EmptyPage
    /\ crashes = 0

-----------------------------------------------------------------------------
\* The columns a live row is loaded into.
SlotOf(row) == [pool |-> row.pool, status |-> row.status, windows |-> row.windows]

\* _add_to_indexes: the keys a slot is listed under.
Indexed(slot, pool, mode) ==
    /\ slot.status = "active"
    /\ slot.pool = pool
    /\ mode \in slot.windows

-----------------------------------------------------------------------------
\* bootstrap, first statement of runtime_snapshot: the revision is read.
BootReadRevision ==
    /\ phase = "down"
    /\ phase' = "booting"
    /\ revision' = repoRevision
    /\ UNCHANGED <<repoVars, slots, col, inflight, mode_available, size, lease,
                   scanVars, crashes>>

\* Second statement: the live rows are read; they are built into a fresh table
\* that replaces the directory's.
BootLoadRows ==
    /\ phase = "booting"
    /\ phase' = "up"
    /\ slots' = {t \in Token : Live(rows[t])}
    /\ col' = [t \in Token |-> IF Live(rows[t]) THEN SlotOf(rows[t]) ELSE NoSlot]
    /\ inflight' = [t \in Token |-> 0]
    /\ mode_available' = [k \in Pool \X Mode |->
                            {t \in Token : /\ Live(rows[t])
                                           /\ Indexed(SlotOf(rows[t]), k[1], k[2])}]
    /\ size' = Cardinality({t \in Token : Live(rows[t])})
    /\ UNCHANGED <<repoVars, revision, lease, scanVars, crashes>>

\* The process dies: its table and its requests are gone.
Crash ==
    /\ phase # "down"
    /\ crashes < MaxCrashes
    /\ crashes' = crashes + 1
    /\ phase' = "down"
    /\ slots' = {}
    /\ col' = [t \in Token |-> NoSlot]
    /\ inflight' = [t \in Token |-> 0]
    /\ mode_available' = EmptyIndex
    /\ size' = 0
    /\ revision' = 0
    /\ lease' = [r \in Request |-> NoToken]
    /\ scan' = "idle"
    /\ pageRevision' = 0
    /\ page' = EmptyPage
    /\ UNCHANGED repoVars

-----------------------------------------------------------------------------
\* scan_changes, first statement: the repository's revision.
ScanReadRevision ==
    /\ phase = "up"
    /\ scan = "idle"
    /\ scan' = "scanning"
    /\ pageRevision' = repoRevision
    /\ UNCHANGED <<repoVars, phase, tableVars, lease, page, crashes>>

\* As ChangedSince, but leaving out soft-deleted rows, as the snapshot does.
LiveChangedSince(since) == {t \in Token : Live(rows[t]) /\ rows[t].revision > since}

\* As ChangedSince, but one revision off.
ChangedWellAfter(since) == {t \in Token : rows[t].revision > since + 1}

ChangedSince(since) == {t \in Token : rows[t].revision > since}

\* ORDER BY revision LIMIT: at most BatchLimit of the changed rows, the oldest
\* first, rows of one revision in any order.
IsPage(P, changed) ==
    /\ P \subseteq changed
    /\ \/ P = changed /\ Cardinality(changed) <= BatchLimit
       \/ Cardinality(P) = BatchLimit
    /\ \A t \in P, u \in changed \ P : rows[t].revision <= rows[u].revision

\* Second statement: one page of the rows past table.revision.
ScanReadRows ==
    /\ scan = "scanning"
    /\ scan' = "fetched"
    /\ \E P \in SUBSET Token :
         /\ IsPage(P, ChangedSince(revision))
         /\ page' = [t \in P |-> rows[t]]
    /\ UNCHANGED <<repoVars, phase, tableVars, lease, pageRevision, crashes>>

\* As ScanFail, but the failed call keeps the sync lock.
ScanFailHoldingLock ==
    /\ scan = "scanning"
    /\ scan' = "stuck"
    /\ pageRevision' = 0
    /\ UNCHANGED <<repoVars, phase, tableVars, lease, page, crashes>>

\* The repository call raised: the sync loop logs it and tries again later.
ScanFail ==
    /\ scan = "scanning"
    /\ scan' = "idle"
    /\ pageRevision' = 0
    /\ UNCHANGED <<repoVars, phase, tableVars, lease, page, crashes>>

\* The two kinds of rows in a page: live ones are loaded into a slot, deleted
\* ones drop the slot they have.
Loaded  == {t \in DOMAIN page : Live(page[t])}
Dropped == {t \in DOMAIN page : ~Live(page[t]) /\ t \in slots}

\* As Reindexed, but the slot is looked for under its new pool.
ReindexedUnderNewPool(k) ==
    {t \in mode_available[k] : ~(t \in Loaded \cup Dropped /\ page[t].pool = k[1])}
    \cup {t \in Loaded : Indexed(SlotOf(page[t]), k[1], k[2])}

\* As Reindexed, but a dropped slot stays listed.
ReindexedLoadedOnly(k) ==
    {t \in mode_available[k] : ~(t \in Loaded /\ col[t].pool = k[1])}
    \cup {t \in Loaded : Indexed(SlotOf(page[t]), k[1], k[2])}

\* _remove_from_indexes under the slot's old pool, then _add_to_indexes.
Reindexed(k) ==
    {t \in mode_available[k] : ~(t \in Loaded \cup Dropped /\ col[t].pool = k[1])}
    \cup {t \in Loaded : Indexed(SlotOf(page[t]), k[1], k[2])}

\* As CarriedInflight, but _update_slot resets the count too.
ResetInflight(t) == IF t \in Loaded THEN 0 ELSE inflight[t]

\* _update_slot leaves the in-flight count alone, _append_slot starts it at 0.
CarriedInflight(t) == IF t \in Loaded \ slots THEN 0 ELSE inflight[t]

\* As Resized, without the clamp.
ResizedUnclamped == size - Cardinality(Dropped) + Cardinality(Loaded \ slots)

\* table.size is decremented, not below zero, for every dropped slot, and
\* incremented by _append_slot alone.
Resized ==
    (IF size >= Cardinality(Dropped) THEN size - Cardinality(Dropped) ELSE 0)
    + Cardinality(Loaded \ slots)

\* apply_changes, one page: deleted rows first, then _update_slot for a token
\* that has a slot and _append_slot for one that has not.
ApplyPage ==
    /\ scan = "fetched"
    /\ slots' = slots \cup Loaded
    /\ col' = [t \in Token |-> IF t \in Loaded THEN SlotOf(page[t])
                               ELSE IF t \in Dropped
                                    THEN [col[t] EXCEPT !.status = "deleted"]
                               ELSE col[t]]
    /\ inflight' = [t \in Token |-> CarriedInflight(t)]
    /\ mode_available' = [k \in Pool \X Mode |-> Reindexed(k)]
    /\ size' = Resized
    /\ revision' = IF pageRevision > revision THEN pageRevision ELSE revision
    /\ scan' = "idle"
    /\ pageRevision' = 0
    /\ page' = EmptyPage
    /\ UNCHANGED <<repoVars, phase, lease, crashes>>

\* sync_if_changed runs one scan at a time (_sync_lock).  A full page makes it
\* scan again at once and any other page at the next tick of the sync loop; the
\* next scan starts from table.revision either way.
sync_if_changed == ScanReadRevision \/ ScanReadRows \/ ScanFail \/ ApplyPage

-----------------------------------------------------------------------------
\* Every account of the pool that is listed for some mode (_pool_union).
PoolUnion(p) == UNION {mode_available[<<p, m>>] : m \in Mode}

TakeLease(r, t) ==
    /\ lease' = [lease EXCEPT ![r] = t]
    /\ inflight' = [inflight EXCEPT ![t] = IF @ < InflightCap THEN @ + 1 ELSE @]
    /\ UNCHANGED <<repoVars, phase, slots, col, mode_available, size, revision,
                   scanVars, crashes>>

\* reserve: an account listed for (pool, mode) under the quota strategy.
reserve(r, p, m, exclude) ==
    /\ phase = "up"
    /\ lease[r] = NoToken
    /\ \E t \in mode_available[<<p, m>>] \ exclude : TakeLease(r, t)

\* reserve under the random strategy, and reserve_any: any listed account of
\* the pool.
reserve_any(r, p, exclude) ==
    /\ phase = "up"
    /\ lease[r] = NoToken
    /\ \E t \in PoolUnion(p) \ exclude : TakeLease(r, t)

\* apply_status_change to EXPIRED, the only status feedback sets.  The slot may
\* by now be marked deleted, or reloaded from a newer row.
ExpireSlot(t) ==
    /\ col' = [col EXCEPT ![t].status = "expired"]
    /\ mode_available' = [k \in Pool \X Mode |->
                            IF k[1] = col[t].pool THEN mode_available[k] \ {t}
                                                  ELSE mode_available[k]]

\* The finally block of a request: release, then feedback.
Finish(r, kind) ==
    /\ lease[r] # NoToken
    /\ lease' = [lease EXCEPT ![r] = NoToken]
    /\ inflight' = [inflight EXCEPT ![lease[r]] = IF @ > 0 THEN @ - 1 ELSE 0]
    /\ IF kind = "unauthorized" THEN ExpireSlot(lease[r])
                                ELSE UNCHANGED <<col, mode_available>>
    /\ UNCHANGED <<repoVars, phase, slots, size, revision, scanVars, crashes>>

-----------------------------------------------------------------------------
Write == RepoNext /\ UNCHANGED dirVars

Boot == BootReadRevision \/ BootLoadRows

Next ==
    \/ Write
    \/ Boot
    \/ Crash
    \/ sync_if_changed
    \/ \E r \in Request, p \in Pool, m \in Mode, exclude \in SUBSET Token :
          reserve(r, p, m, exclude)
    \/ \E r \in Request, p \in Pool, exclude \in SUBSET Token :
          reserve_any(r, p, exclude)
    \/ \E r \in Request, kind \in {"unauthorized", "other"} : Finish(r, kind)

Spec == Init /\ [][Next]_vars

\* The worker is restarted when it dies, and the sync loop keeps running; a
\* repository that fails every single call is not assumed away, so reading the
\* rows needs strong fairness against ScanFail.
Fairness ==
    /\ WF_vars(Boot)
    /\ WF_vars(ScanReadRevision)
    /\ SF_vars(ScanReadRows)
    /\ WF_vars(ApplyPage)

FairSpec == Spec /\ Fairness

-----------------------------------------------------------------------------
\* The table agrees with the repository about t, except that a 401 may have
\* expired the slot locally.
Mirrored(t) ==
    IF Live(rows[t])
    THEN /\ t \in slots
         /\ col[t].pool = rows[t].pool
         /\ col[t].windows = rows[t].windows
         /\ col[t].status \in {rows[t].status, "expired"}
    ELSE t \in slots => col[t].status \in {"deleted", "expired"}

\* table.revision is a promise: every row the repository stamped at or below it
\* has been applied to the table (apply_changes, "sync changes since
\* table.revision").  A row lost between two pages, or a revision read after
\* the rows, would break it and never be fetched again.
MirrorsUpToRevision ==
    phase = "up" => \A t \in Token : rows[t].revision <= revision => Mirrored(t)

\* mode_available lists exactly the active slots with a window for the mode,
\* under the pool they are in now, whatever order of feedback, pool changes,
\* deletions and re-additions led here (table.py: "set of idx with a supported
\* quota window and status == ACTIVE").
IndexExact ==
    \A p \in Pool, m \in Mode :
        mode_available[<<p, m>>] = {t \in slots : Indexed(col[t], p, m)}

\* inflight_by_idx counts the leases requests hold on the slot: deleting,
\* reloading and re-adding an account between reserve and release loses none.
InflightCountsLeases ==
    \A t \in Token : inflight[t] = Cardinality({r \in Request : lease[r] = t})

\* reserve looks only at the index; still the account it hands out is live,
\* active and has a window in the repository itself, unless its row changed
\* after the revision the table stands at.
GrantFollowsRepository(r) ==
    lease[r] = NoToken /\ lease'[r] # NoToken =>
        LET row == rows[lease'[r]]
        IN  row.revision <= revision =>
                Live(row) /\ row.status = "active" /\ row.windows # {}
GrantsFollowRepository == [][\A r \in Request : GrantFollowsRepository(r)]_vars

\* Once writers and crashes stop, the table comes to mirror the repository and
\* stays so (main.py: "Keeps each worker's in-memory table eventually
\* consistent with the repo").
EventuallyMirrored == <>[](phase = "up" /\ \A t \in Token : Mirrored(t))
=============================================================================
