------------------------------- MODULE MediaCache -------------------------------
(***************************************************************************)
(* The local media cache (src/app/platform/storage/media_cache.py): files  *)
(* of one media type, the SQLite index that counts them, and the limit on  *)
(* their size.  All worker processes share files and index, under a file   *)
(* lock; each reads the limit from its own copy of the configuration, and  *)
(* without a limit it neither locks nor indexes.  A file appears whole, by *)
(* a rename; the index changes when the connection commits.                *)
(***************************************************************************)
EXTENDS Naturals, FiniteSets, FiniteSetsExt, Functions

CONSTANTS
    Process, NoProcess,
    File,          \* file names
    Size,          \* what a file may measure
    Limits,        \* what cache.local.<type>_max_mb may be set to; 0 is no limit
    MaxClock,      \* bound: files indexed as new
    MaxFaults      \* bound: crashes and files that cannot be removed
    
ASSUME CacheAssumption ==
    /\ NoProcess \notin Process
    /\ IsFiniteSet(File) /\ Size \subseteq Nat \ {0} /\ IsFiniteSet(Size)
    /\ Limits \subseteq Nat /\ Limits # {}
    /\ MaxClock \in Nat /\ MaxFaults \in Nat

VARIABLES
    disk,      \* the files: their sizes
    index,     \* the committed rows of local_media_files
    limit,     \* the limit as each process knows it
    guard,     \* who holds the lock, and what for
    clock, faults,  \* the bounded counters
    stray,     \* history: files nobody has indexed, through no limit or a crash
    stuck      \* history: files that could not be removed in this operation

cacheVars == <<disk, index, limit, guard, clock, faults, stray, stuck>>

Files == UNION {[S -> Size] : S \in SUBSET File}
RowT  == [size : Size, created : 0..MaxClock]
Indexes == UNION {[S -> RowT] : S \in SUBSET File}

\* An operation's connection sees "rows"; "kept" is the file it has just saved.
NoGuard == [process |-> NoProcess, op |-> "none", kept |-> {}, rows |-> <<>>,
            trim |-> FALSE, passed |-> {}]

CacheTypeOK ==
    /\ disk \in Files /\ index \in Indexes
    /\ limit \in [Process -> Limits]
    /\ guard.process \in Process \cup {NoProcess}
    /\ guard.op \in {"none", "save", "reconcile", "delete"}
    /\ guard.kept \subseteq File /\ guard.passed \subseteq File
    /\ guard.rows \in Indexes /\ guard.trim \in BOOLEAN
    /\ clock \in 0..MaxClock /\ faults \in 0..MaxFaults
    /\ stray \subseteq File /\ stuck \subseteq File

CacheInit ==
    /\ disk = <<>> /\ index = <<>>
    /\ \E n \in Limits : limit = [p \in Process |-> n]
    /\ guard = NoGuard /\ clock = 0 /\ faults = 0 /\ stray = {} /\ stuck = {}

Usage(rows)   == MapThenSumSet(LAMBDA f : rows[f].size, DOMAIN rows)
Target(p)     == (limit[p] * 6) \div 10
Put(f, n, fn) == [x \in DOMAIN fn \cup {f} |-> IF x = f THEN n ELSE fn[x]]
Free          == guard.process = NoProcess
Newest(rows)  == {f \in DOMAIN rows : \A x \in DOMAIN rows : rows[x].created <= rows[f].created}

-----------------------------------------------------------------------------
\* _save without a limit: the file is written if there is none.
SaveUnlimited(p, f, n) ==
    /\ limit[p] = 0 /\ f \notin DOMAIN disk
    /\ disk' = Put(f, n, disk)
    /\ stray' = stray \cup {f}
    /\ UNCHANGED <<index, limit, guard, clock, faults, stuck>>

\* _save with one: the file is written, or found, and its row put into the
\* transaction; trimming is due above the limit.
OverLimit(rows, p)     == Usage(rows) > limit[p]

RowLeftOut(f, n, created) == guard.rows
RowAdded(f, n, created) == Put(f, [size |-> n, created |-> created], index)

Locked(p, op, kept, rows) ==
    guard' = [process |-> p, op |-> op, kept |-> kept, rows |-> rows,
              trim |-> OverLimit(rows, p), passed |-> {}]

SaveNew(p, f, n) ==
    /\ Free /\ limit[p] > 0 /\ f \notin DOMAIN disk /\ clock < MaxClock
    /\ disk' = Put(f, n, disk)
    /\ clock' = clock + 1
    /\ Locked(p, "save", {f}, RowAdded(f, n, clock'))
    /\ stuck' = {}
    /\ UNCHANGED <<index, limit, faults, stray>>

SaveAgain(p, f) ==
    /\ Free /\ limit[p] > 0 /\ f \in DOMAIN disk
    /\ \E date \in 0..clock :
          /\ f \in DOMAIN index => date = index[f].created
          /\ Locked(p, "save", {f}, RowAdded(f, disk[f], date))
    /\ stuck' = {}
    /\ UNCHANGED <<disk, index, limit, clock, faults, stray>>

\* reconcile: rows for the files that are there, dated by their last change, which
\* for an indexed file is the date of its row.
Reconcile(p) ==
    /\ Free /\ limit[p] > 0
    /\ \E date \in 0..clock :
          Locked(p, "reconcile", {},
                 [f \in DOMAIN disk |-> [size |-> disk[f],
                      created |-> IF f \in DOMAIN index THEN index[f].created ELSE date]])
    /\ stuck' = {}
    /\ UNCHANGED <<disk, index, limit, clock, faults, stray>>

-----------------------------------------------------------------------------
\* _enforce_limit_locked: oldest first, down to the low watermark, but neither
\* the file just saved nor the newest.
UnprotectedSave == Newest(guard.rows)
Protected       == guard.kept \cup Newest(guard.rows)

Trimming == /\ guard.trim /\ Usage(guard.rows) > Target(guard.process)
Removable == (DOMAIN guard.rows) \ (Protected \cup guard.passed)
Oldest == {f \in Removable : \A x \in Removable : guard.rows[f].created <= guard.rows[x].created}

Evict ==
    /\ ~Free /\ Trimming
    /\ \E f \in Oldest :
          /\ disk' = Restrict(disk, DOMAIN disk \ {f})
          /\ guard' = [guard EXCEPT !.rows = Restrict(@, DOMAIN @ \ {f})]
    /\ UNCHANGED <<index, limit, clock, faults, stray, stuck>>

\* A file that cannot be removed stays, with its row, and the next is tried.
EvictFails ==
    /\ ~Free /\ Trimming /\ faults < MaxFaults
    /\ \E f \in Oldest \cap DOMAIN disk :
          /\ guard' = [guard EXCEPT !.passed = @ \cup {f}]
          /\ stuck' = stuck \cup {f}
    /\ faults' = faults + 1
    /\ UNCHANGED <<disk, index, limit, clock, stray>>

NeverWaits    == TRUE
TrimmedEnough == ~Trimming \/ Removable = {}

Commit ==
    /\ guard.op \in {"save", "reconcile"} /\ TrimmedEnough
    /\ index' = guard.rows
    /\ guard' = NoGuard
    /\ stray' = IF guard.op = "reconcile" THEN stray \ DOMAIN guard.rows
                                          ELSE stray \ guard.kept
    /\ UNCHANGED <<disk, limit, clock, faults, stuck>>

-----------------------------------------------------------------------------
\* delete and clear: the files go first, then their rows.
DeleteFiles(p, F) ==
    /\ Free /\ F # {} /\ F \subseteq File
    /\ disk' = Restrict(disk, DOMAIN disk \ F)
    /\ guard' = [NoGuard EXCEPT !.process = p, !.op = "delete", !.kept = F]
    /\ stray' = stray \ F
    /\ UNCHANGED <<index, limit, clock, faults, stuck>>

DeleteRows ==
    /\ guard.op = "delete"
    /\ index' = Restrict(index, DOMAIN index \ guard.kept)
    /\ guard' = NoGuard
    /\ UNCHANGED <<disk, limit, clock, faults, stray, stuck>>

\* The holder dies: files stay as they are, the transaction is gone.
Crash ==
    /\ ~Free /\ faults < MaxFaults
    /\ faults' = faults + 1
    /\ guard' = NoGuard
    /\ stray' = stray \cup (DOMAIN disk \ DOMAIN index)
    /\ UNCHANGED <<disk, index, limit, clock, stuck>>

\* The limit is changed in one process, which reconciles; the others learn of it.
SetLimit(p, n) ==
    /\ guard.process # p /\ n # limit[p]
    /\ limit' = [limit EXCEPT ![p] = n]
    /\ UNCHANGED <<disk, index, guard, clock, faults, stray, stuck>>

CacheNext ==
    \/ \E p \in Process, f \in File :
          \/ \E n \in Size : SaveUnlimited(p, f, n) \/ SaveNew(p, f, n)
          \/ SaveAgain(p, f)
    \/ \E p \in Process : Reconcile(p)
    \/ Evict \/ EvictFails \/ Commit
    \/ \E p \in Process, F \in SUBSET File : DeleteFiles(p, F)
    \/ DeleteRows \/ Crash
    \/ \E p \in Process, n \in Limits : SetLimit(p, n)

CacheSpec == CacheInit /\ [][CacheNext]_cacheVars

-----------------------------------------------------------------------------
\* A file that is counted by nobody was saved without a limit or in an operation
\* that crashed, since the last reconcile: saving, trimming and deleting keep the
\* index complete.
NothingUncounted == Free => DOMAIN disk \ DOMAIN index \subseteq stray

\* A save ends with its file in place, and so does a reconcile with the newest.
SavedStays ==
    [][Free' /\ guard.op = "save" /\ faults' = faults => guard.kept \subseteq DOMAIN disk']_cacheVars
=============================================================================
