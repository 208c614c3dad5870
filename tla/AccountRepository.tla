-------------------------- MODULE AccountRepository --------------------------
(***************************************************************************)
(* The control-plane account store (src/app/control/account/repository.py) *)
(* as its SQLite, PostgreSQL and MySQL backends implement it: one table of *)
(* account rows and one revision counter.  A write transaction bumps the   *)
(* revision first, which locks out every other write, and stamps the rows  *)
(* it touches with the new value, so it is one action here.  The backends  *)
(* do not agree on everything; where they differ the action says so.       *)
(*                                                                         *)
(* A row keeps what the runtime directory distinguishes: its pool, its     *)
(* status, whether it is soft-deleted, and the modes for which it has a    *)
(* quota window.  A row with revision 0 does not exist yet.                *)
(***************************************************************************)
EXTENDS Naturals

CONSTANTS
    Backend,         \* "sqlite", "postgresql" or "mysql"
    Token,           \* account tokens, the primary key
    Pool,            \* "basic", "super", "heavy"
    Mode,            \* the quota modes
    DefaultWindows,  \* default_quota_set: the windows a new row of a pool gets
    MaxRevision      \* bound: no write may pass this revision

ASSUME RepositoryAssumption ==
    /\ Backend \in {"sqlite", "postgresql", "mysql"}
    /\ Pool # {}
    /\ DefaultWindows \in [Pool -> SUBSET Mode]
    /\ MaxRevision \in Nat

VARIABLES
    rows,            \* the account table, one record per token
    repoRevision     \* the revision row of account_meta

repoVars == <<rows, repoRevision>>

\* AccountStatus without COOLING, which no caller in src/ ever persists.
Status == {"active", "expired", "disabled"}

Row == [pool: Pool, status: Status, deleted: BOOLEAN,
        windows: SUBSET Mode, revision: Nat]

NoRow == [pool |-> CHOOSE p \in Pool : TRUE, status |-> "active",
          deleted |-> FALSE, windows |-> {}, revision |-> 0]

Exists(row) == row.revision > 0
Live(row)   == Exists(row) /\ ~row.deleted

RepoTypeOK ==
    /\ rows \in [Token -> Row]
    /\ repoRevision \in Nat

RepoInit ==
    /\ rows = [t \in Token |-> NoRow]
    /\ repoRevision = 0

\* _bump_revision, once per write (twice in SQLite's replace_pool).
BumpRevision(n) ==
    /\ repoRevision + n <= MaxRevision
    /\ repoRevision' = repoRevision + n

-----------------------------------------------------------------------------
\* INSERT ... ON CONFLICT DO UPDATE: a conflicting row comes back to life,
\* active and in the new pool.  Only SQLite keeps the quota windows it had.
KeepsWindows(row) == Exists(row) /\ Backend = "sqlite"

Upserted(row, p, rev) ==
    [pool |-> p, status |-> "active", deleted |-> FALSE, revision |-> rev,
     windows |-> IF KeepsWindows(row) THEN row.windows ELSE DefaultWindows[p]]

SoftDeleted(row, rev) == [row EXCEPT !.deleted = TRUE, !.revision = rev]

upsert_accounts(S, p) ==
    /\ BumpRevision(1)
    /\ rows' = [t \in Token |-> IF t \in S THEN Upserted(rows[t], p, repoRevision')
                                           ELSE rows[t]]

\* The rows of S become those of new, soft-deleted ones included; a token that
\* has no row is skipped, but the revision has been bumped.
PatchRows(S, new) ==
    /\ BumpRevision(1)
    /\ rows' = [t \in Token |-> IF t \in S /\ Exists(rows[t])
                                THEN [new[t] EXCEPT !.revision = repoRevision']
                                ELSE rows[t]]

\* patch_accounts by what its callers set: the status (admin enable/disable,
\* invalid credentials, console threshold, clear_failures), the quota windows
\* with the pool inferred from them (refresh), or counters and tags only.
patch_status(S, s) ==
    PatchRows(S, [t \in Token |-> [rows[t] EXCEPT !.status = s]])
patch_quota(S, p, W) ==
    PatchRows(S, [t \in Token |-> [rows[t] EXCEPT !.pool = p, !.windows = W]])
patch_usage(S) == PatchRows(S, rows)

delete_accounts(S) ==
    /\ BumpRevision(1)
    /\ rows' = [t \in Token |-> IF t \in S /\ Live(rows[t])
                                THEN SoftDeleted(rows[t], repoRevision')
                                ELSE rows[t]]

\* SQLite, one transaction and two revisions: the live rows of the pool are
\* soft-deleted under the first and the replacements upserted under the second.
replace_pool(p, S) ==
    /\ Backend = "sqlite"
    /\ BumpRevision(2)
    /\ rows' = [t \in Token |->
                  IF t \in S THEN Upserted(rows[t], p, repoRevision')
                  ELSE IF Live(rows[t]) /\ rows[t].pool = p
                       THEN SoftDeleted(rows[t], repoRevision + 1)
                  ELSE rows[t]]

\* PostgreSQL and MySQL, the first of two transactions: the live rows of the
\* pool are soft-deleted.  The second is upsert_accounts, if the process lives
\* and there is anything to upsert.
replace_pool_delete(p) ==
    /\ Backend # "sqlite"
    /\ BumpRevision(1)
    /\ rows' = [t \in Token |-> IF Live(rows[t]) /\ rows[t].pool = p
                                THEN SoftDeleted(rows[t], repoRevision')
                                ELSE rows[t]]

\* The console loop rewrites the console window of the active rows whose window
\* has passed.  It bumps no revision when it counts none; but PostgreSQL and
\* MySQL count before they lock, so there the update may find none left.
reset_expired_console_windows(S) ==
    /\ S # {} \/ Backend # "sqlite"
    /\ \A t \in S : Live(rows[t]) /\ rows[t].status = "active"
    /\ PatchRows(S, rows)

\* Rows expired by repeated console 429s return to service.  They are selected
\* before the write locks, and another process may have changed or deleted them
\* by the time they are updated: any row may be among them.
recover_console_expired_accounts(S) ==
    /\ S # {}
    /\ \A t \in S : Exists(rows[t])
    /\ PatchRows(S, [t \in Token |-> [rows[t] EXCEPT !.status = "active"]])

\* A process starts and seeds the revision row: left alone when it is there,
\* except that MySQL's upsert sets it back to 0.
initialize ==
    /\ repoRevision' = IF Backend = "mysql" THEN 0 ELSE repoRevision
    /\ UNCHANGED rows

RepoNext ==
    \/ initialize
    \/ \E p \in Pool : replace_pool_delete(p)
    \/ \E S \in SUBSET Token :
          \/ \E p \in Pool : S # {} /\ upsert_accounts(S, p)
          \/ \E s \in Status : S # {} /\ patch_status(S, s)
          \/ \E p \in Pool, W \in SUBSET Mode : S # {} /\ patch_quota(S, p, W)
          \/ S # {} /\ patch_usage(S)
          \/ S # {} /\ delete_accounts(S)
          \/ \E p \in Pool : replace_pool(p, S)
          \/ reset_expired_console_windows(S)
          \/ recover_console_expired_accounts(S)

=============================================================================
