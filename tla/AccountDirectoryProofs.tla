----------------------- MODULE AccountDirectoryProofs ------------------------
(*****************************************************************************)
(* TLAPS proofs about AccountDirectory for every set of tokens, pools,       *)
(* modes and requests, every number of writes and every number of crashes.   *)
(*                                                                           *)
(* Core holds on every backend: a worker that is not up holds nothing, the   *)
(* index is exact and leases sit on slots. IInv adds what the properties     *)
(* about revisions rest on: no revision runs ahead of the repository's,      *)
(* and a fetched page holds every row between the table's revision and the   *)
(* page's. It needs a repository that never takes its revision back.         *)
(*                                                                           *)
(* Last comes the refinement: where one page holds the whole change and      *)
(* the revision is never taken back, the directory implements                *)
(* AccountReplica. It needs, beside IInv, how the versions a worker has      *)
(* loaded relate to those of the repository and of a fetched page            *)
(* (VersionInv).                                                             *)
(*****************************************************************************)
EXTENDS AccountDirectoryReplica, FiniteSetTheorems, TLAPS

\* One page always suffices: the accounts fit into batch_limit.
OnePage == Cardinality(Token) <= BatchLimit

\* The revision survives the start of another process.
RevisionKept == Backend # "mysql"

RevisionsBounded ==
    /\ \A t \in Token : rows[t].revision <= repoRevision
    /\ revision <= repoRevision
    /\ pageRevision <= repoRevision

DownIsEmpty ==
    /\ phase # "up" => /\ scan = "idle"
                       /\ slots = {}
                       /\ mode_available = EmptyIndex
                       /\ lease = [r \in Request |-> NoToken]
                       /\ inflight = [t \in Token |-> 0]
    /\ scan # "fetched" => page = EmptyPage

LeasesOnSlots == \A r \in Request : lease[r] # NoToken => lease[r] \in slots

PageCovers ==
    scan = "fetched" =>
        /\ \A t \in DOMAIN page : rows[t].revision > revision
        /\ \A t \in Token :
             revision < rows[t].revision /\ rows[t].revision <= pageRevision
                => t \in DOMAIN page /\ page[t] = rows[t]

Core == TypeOK /\ DownIsEmpty /\ IndexExact /\ LeasesOnSlots

IInv == Core /\ RevisionsBounded /\ PageCovers /\ MirrorsUpToRevision

-----------------------------------------------------------------------------
\* The rows SQL writes are rows, stamped with the revision of the write.
LEMMA SoftDeletedRow ==
    ASSUME NEW row \in Row, NEW n \in Nat
    PROVE  SoftDeleted(row, n) \in Row /\ SoftDeleted(row, n).revision = n
<1>1. [row EXCEPT !.deleted = TRUE] \in Row
  BY DEF Row
<1>2. [[row EXCEPT !.deleted = TRUE] EXCEPT !.revision = n] \in Row
  BY <1>1 DEF Row
<1>. QED  BY <1>2 DEF SoftDeleted, Row

\* So are the rows an upsert writes, whichever windows it keeps.
LEMMA UpsertedRow ==
    ASSUME NEW row \in Row, NEW p \in Pool, NEW n \in Nat
    PROVE  Upserted(row, p, n) \in Row /\ Upserted(row, p, n).revision = n
<1>1. DefaultWindows[p] \in SUBSET Mode
  BY RepositoryAssumption
<1>2. (IF KeepsWindows(row) THEN row.windows ELSE DefaultWindows[p]) \in SUBSET Mode
  BY <1>1 DEF Row
<1>. QED  BY <1>2 DEF Upserted, Row, Status

\* Every row that changes is stamped between the old and the new revision.
Fresh ==
    /\ RepoTypeOK'
    /\ repoRevision' >= repoRevision
    /\ \A t \in Token : \/ rows'[t] = rows[t]
                        \/ /\ rows'[t].revision > repoRevision
                           /\ rows'[t].revision <= repoRevision'

\* What every repository write does but the start of a process: it stamps the
\* rows it changes with revisions not above the last one issued.
LEMMA WriteStampsFresh ==
    ASSUME RepoTypeOK, RepoNext
    PROVE  Fresh \/ initialize
<1>. USE DEF RepoTypeOK
<1>. SUFFICES ASSUME ~initialize
              PROVE  Fresh
  OBVIOUS
<1>0. ASSUME NEW p \in Pool, replace_pool_delete(p)
      PROVE  Fresh
  <2>1. repoRevision' = repoRevision + 1
    BY <1>0 DEF replace_pool_delete, BumpRevision
  <2>. QED  BY <1>0, <2>1, SoftDeletedRow DEF replace_pool_delete, Fresh
<1>. SUFFICES ASSUME NEW S \in SUBSET Token,
                     \/ \E p \in Pool : S # {} /\ upsert_accounts(S, p)
                     \/ \E s \in Status : S # {} /\ patch_status(S, s)
                     \/ \E p \in Pool, W \in SUBSET Mode : S # {} /\ patch_quota(S, p, W)
                     \/ S # {} /\ patch_usage(S)
                     \/ S # {} /\ delete_accounts(S)
                     \/ \E p \in Pool : replace_pool(p, S)
                     \/ reset_expired_console_windows(S)
                     \/ recover_console_expired_accounts(S)
              PROVE  Fresh
  BY <1>0 DEF RepoNext
<1>1. ASSUME NEW new \in [Token -> Row], PatchRows(S, new)
      PROVE  Fresh
  <2>1. repoRevision' = repoRevision + 1
    BY <1>1 DEF PatchRows, BumpRevision
  <2>2. \A t \in Token : /\ [new[t] EXCEPT !.revision = repoRevision'] \in Row
                         /\ [new[t] EXCEPT !.revision = repoRevision'].revision
                              = repoRevision'
    BY <2>1 DEF Row
  <2>. QED  BY <1>1, <2>1, <2>2 DEF PatchRows, Fresh
<1>2. ASSUME NEW p \in Pool, upsert_accounts(S, p)
      PROVE  Fresh
  <2>1. repoRevision' = repoRevision + 1
    BY <1>2 DEF upsert_accounts, BumpRevision
  <2>. QED  BY <1>2, <2>1, UpsertedRow DEF upsert_accounts, Fresh
<1>3. ASSUME NEW s \in Status, patch_status(S, s)
      PROVE  Fresh
  <2>1. [t \in Token |-> [rows[t] EXCEPT !.status = s]] \in [Token -> Row]
    BY DEF Row
  <2>. QED  BY <2>1, <1>1, <1>3 DEF patch_status
<1>4. ASSUME NEW p \in Pool, NEW W \in SUBSET Mode, patch_quota(S, p, W)
      PROVE  Fresh
  <2>1. ASSUME NEW t \in Token
        PROVE  [rows[t] EXCEPT !.pool = p, !.windows = W] \in Row
    <3>1. [rows[t] EXCEPT !.pool = p] \in Row
      BY DEF Row
    <3>2. [[rows[t] EXCEPT !.pool = p] EXCEPT !.windows = W] \in Row
      BY <3>1 DEF Row
    <3>. QED  BY <3>2
  <2>2. [t \in Token |-> [rows[t] EXCEPT !.pool = p, !.windows = W]] \in [Token -> Row]
    BY <2>1
  <2>. QED  BY <2>2, <1>1, <1>4 DEF patch_quota
<1>5. ASSUME patch_usage(S)
      PROVE  Fresh
  BY <1>5, <1>1 DEF patch_usage
<1>6. ASSUME delete_accounts(S)
      PROVE  Fresh
  <2>1. repoRevision' = repoRevision + 1
    BY <1>6 DEF delete_accounts, BumpRevision
  <2>. QED  BY <1>6, <2>1, SoftDeletedRow DEF delete_accounts, Fresh
<1>7. ASSUME NEW p \in Pool, replace_pool(p, S)
      PROVE  Fresh
  <2>1. repoRevision' = repoRevision + 2
    BY <1>7 DEF replace_pool, BumpRevision
  <2>2. \A t \in Token : /\ SoftDeleted(rows[t], repoRevision + 1) \in Row
                         /\ SoftDeleted(rows[t], repoRevision + 1).revision
                              = repoRevision + 1
    BY SoftDeletedRow
  <2>3. \A t \in Token : /\ Upserted(rows[t], p, repoRevision') \in Row
                         /\ Upserted(rows[t], p, repoRevision').revision = repoRevision'
    BY <2>1, UpsertedRow
  <2>. QED  BY <1>7, <2>1, <2>2, <2>3 DEF replace_pool, Fresh
<1>8. ASSUME reset_expired_console_windows(S)
      PROVE  Fresh
  BY <1>8, <1>1 DEF reset_expired_console_windows
<1>9. ASSUME recover_console_expired_accounts(S)
      PROVE  Fresh
  <2>1. [t \in Token |-> [rows[t] EXCEPT !.status = "active"]] \in [Token -> Row]
    BY DEF Row, Status
  <2>. QED  BY <2>1, <1>1, <1>9 DEF recover_console_expired_accounts
<1>. QED
  BY <1>2, <1>3, <1>4, <1>5, <1>6, <1>7, <1>8, <1>9

\* Rows stay rows on every backend.
LEMMA WriteTypes ==
    ASSUME RepoTypeOK, RepoNext
    PROVE  RepoTypeOK'
<1>1. CASE Fresh
  BY <1>1 DEF Fresh
<1>2. CASE initialize
  BY <1>2 DEF initialize, RepoTypeOK
<1>. QED  BY <1>1, <1>2, WriteStampsFresh

\* Where the revision is kept, a process that starts changes nothing.
LEMMA KeptWrite ==
    ASSUME RevisionKept, RepoTypeOK, RepoNext
    PROVE  Fresh
<1>1. CASE initialize
  BY <1>1 DEF initialize, RevisionKept, Fresh, RepoTypeOK
<1>. QED  BY <1>1, WriteStampsFresh

-----------------------------------------------------------------------------
\* Either reservation, whatever strategy chose the account.
Grant ==
    \E r \in Request, t \in Token :
        /\ phase = "up"
        /\ lease[r] = NoToken
        /\ \E k \in Pool \X Mode : t \in mode_available[k]
        /\ TakeLease(r, t)

\* The steps of Next, one by one.
LEMMA NextCases ==
    ASSUME TypeOK, Next
    PROVE  \/ Write \/ BootReadRevision \/ BootLoadRows \/ Crash
           \/ ScanReadRevision \/ ScanReadRows \/ ScanFail \/ ApplyPage
           \/ Grant
           \/ \E r \in Request, kind \in {"unauthorized", "other"} : Finish(r, kind)
<1>1. ASSUME NEW r \in Request, NEW p \in Pool, NEW m \in Mode,
             NEW exclude \in SUBSET Token, reserve(r, p, m, exclude)
      PROVE  Grant
  <2>1. PICK t \in mode_available[<<p, m>>] \ exclude : TakeLease(r, t)
    BY <1>1 DEF reserve
  <2>2. <<p, m>> \in Pool \X Mode /\ t \in Token
    BY <2>1 DEF TypeOK
  <2>. QED  BY <1>1, <2>1, <2>2 DEF reserve, Grant
<1>2. ASSUME NEW r \in Request, NEW p \in Pool,
             NEW exclude \in SUBSET Token, reserve_any(r, p, exclude)
      PROVE  Grant
  <2>1. PICK t \in PoolUnion(p) \ exclude : TakeLease(r, t)
    BY <1>2 DEF reserve_any
  <2>2. PICK m \in Mode : t \in mode_available[<<p, m>>]
    BY <2>1 DEF PoolUnion
  <2>3. <<p, m>> \in Pool \X Mode /\ t \in Token
    BY <2>2 DEF TypeOK
  <2>. QED  BY <1>2, <2>1, <2>2, <2>3 DEF reserve_any, Grant
<1>. QED  BY <1>1, <1>2 DEF Next, Boot, sync_if_changed

-----------------------------------------------------------------------------
\* Sets of accounts can be counted.
LEMMA FiniteTokens ==
    ASSUME NEW S \in SUBSET Token
    PROVE  IsFiniteSet(S) /\ Cardinality(S) \in Nat
BY DirectoryAssumption, FS_Subset, FS_CardinalityType

\* The columns of a row are columns of a slot.
LEMMA SlotOfRow ==
    ASSUME NEW row \in Row
    PROVE  SlotOf(row) \in Slot
BY DEF SlotOf, Slot, Row, SlotStatus

\* The placeholders are of the right type.
LEMMA NoRowIsRow == NoRow \in Row /\ NoSlot \in Slot
BY RepositoryAssumption DEF NoRow, NoSlot, Row, Slot, Status, SlotStatus

\* The largest value of the in-flight column is a positive number.
LEMMA InflightCapIsNat == InflightCap \in Nat /\ InflightCap > 0
BY DEF InflightCap

\* An empty table, and no row, are of the right type.
LEMMA TypeInit == Init => TypeOK
<1>. SUFFICES ASSUME Init PROVE TypeOK
  OBVIOUS
<1>1. InflightCap \in Nat
  BY DEF InflightCap
<1>2. EmptyPage \in [{} -> Row] /\ DOMAIN EmptyPage = {}
  BY DEF EmptyPage
<1>. QED
  BY <1>1, <1>2, NoRowIsRow, DirectoryAssumption
  DEF Init, RepoInit, TypeOK, RepoTypeOK, EmptyIndex

\* Every step keeps every variable in its type.
LEMMA TypeStep ==
    ASSUME TypeOK, [Next]_vars
    PROVE  TypeOK'
<1>. USE DEF TypeOK
<1>0. InflightCap \in Nat
  BY InflightCapIsNat
<1>e. EmptyPage \in [{} -> Row] /\ DOMAIN EmptyPage = {}
  BY DEF EmptyPage
<1>1. CASE Write
  BY <1>1, WriteTypes DEF Write, dirVars, tableVars, scanVars
<1>2. CASE BootReadRevision
  BY <1>2 DEF BootReadRevision, repoVars, scanVars, RepoTypeOK
<1>3. CASE BootLoadRows
  <2>1. col' \in [Token -> Slot]
    BY <1>3, SlotOfRow, NoRowIsRow DEF BootLoadRows, RepoTypeOK
  <2>2. size' \in Nat
    BY <1>3, FiniteTokens DEF BootLoadRows
  <2>3. mode_available' \in [Pool \X Mode -> SUBSET Token]
    BY <1>3 DEF BootLoadRows
  <2>. QED
    BY <1>0, <1>3, <2>1, <2>2, <2>3
    DEF BootLoadRows, repoVars, scanVars, RepoTypeOK
<1>4. CASE Crash
  BY <1>0, <1>e, <1>4, NoRowIsRow, DirectoryAssumption
  DEF Crash, repoVars, RepoTypeOK, EmptyIndex
<1>5. CASE ScanReadRevision
  BY <1>5 DEF ScanReadRevision, repoVars, tableVars, RepoTypeOK
<1>6. CASE ScanReadRows
  <2>1. PICK P \in SUBSET Token : page' = [t \in P |-> rows[t]]
    BY <1>6 DEF ScanReadRows
  <2>2. DOMAIN page' \subseteq Token /\ page' \in [DOMAIN page' -> Row]
    BY <2>1 DEF RepoTypeOK
  <2>. QED
    BY <1>6, <2>2 DEF ScanReadRows, repoVars, tableVars, RepoTypeOK
<1>7. CASE ScanFail
  BY <1>7 DEF ScanFail, repoVars, tableVars, RepoTypeOK
<1>8. CASE ApplyPage
  <2>1. Loaded \in SUBSET Token /\ Dropped \in SUBSET Token
    BY DEF Loaded, Dropped
  <2>2. col' \in [Token -> Slot]
    <3>1. ASSUME NEW t \in Token
          PROVE  [col[t] EXCEPT !.status = "deleted"] \in Slot
      BY DEF Slot, SlotStatus
    <3>2. \A t \in Loaded : SlotOf(page[t]) \in Slot
      BY SlotOfRow DEF Loaded
    <3>. QED  BY <1>8, <3>1, <3>2 DEF ApplyPage
  <2>3. inflight' \in [Token -> 0..InflightCap]
    BY <1>0, <1>8 DEF ApplyPage, CarriedInflight
  <2>4. mode_available' \in [Pool \X Mode -> SUBSET Token]
    BY <1>8, <2>1 DEF ApplyPage, Reindexed
  <2>5. size' \in Nat
    <3>1. Cardinality(Dropped) \in Nat /\ Cardinality(Loaded \ slots) \in Nat
      BY <2>1, FiniteTokens
    <3>. QED  BY <1>8, <3>1 DEF ApplyPage, Resized
  <2>. QED
    BY <1>e, <1>8, <2>1, <2>2, <2>3, <2>4, <2>5 DEF ApplyPage, repoVars, RepoTypeOK
<1>9. CASE Grant
  BY <1>0, <1>9 DEF Grant, TakeLease, repoVars, scanVars, RepoTypeOK
<1>10. ASSUME NEW r \in Request, NEW kind \in {"unauthorized", "other"},
              Finish(r, kind)
       PROVE  TypeOK'
  <2>1. lease[r] \in Token
    BY <1>10 DEF Finish
  <2>2. col' \in [Token -> Slot] /\ mode_available' \in [Pool \X Mode -> SUBSET Token]
    <3>1. CASE kind = "unauthorized"
      <4>1. [col[lease[r]] EXCEPT !.status = "expired"] \in Slot
        BY <2>1 DEF Slot, SlotStatus, Status
      <4>2. col' = [col EXCEPT ![lease[r]] = [col[lease[r]] EXCEPT !.status = "expired"]]
        BY <1>10, <3>1 DEF Finish, ExpireSlot
      <4>3. mode_available' \in [Pool \X Mode -> SUBSET Token]
        BY <1>10, <3>1 DEF Finish, ExpireSlot
      <4>. QED  BY <2>1, <4>1, <4>2, <4>3
    <3>2. CASE kind = "other"
      BY <1>10, <3>2 DEF Finish
    <3>. QED  BY <3>1, <3>2
  <2>3. inflight' \in [Token -> 0..InflightCap]
    BY <1>0, <1>10, <2>1 DEF Finish
  <2>. QED
    BY <1>10, <2>2, <2>3 DEF Finish, repoVars, scanVars, RepoTypeOK
<1>11. CASE UNCHANGED vars
  BY <1>11 DEF vars, repoVars, dirVars, tableVars, scanVars, RepoTypeOK
<1>. QED
  BY NextCases, <1>1, <1>2, <1>3, <1>4, <1>5, <1>6, <1>7, <1>8, <1>9, <1>10, <1>11

\* Every variable stays in its type: in particular the in-flight counts stay
\* inside their uint16 column and table.size, which drifts, never below zero.
THEOREM TypeCorrect == Spec => []TypeOK
BY TypeInit, TypeStep, PTL DEF Spec

-----------------------------------------------------------------------------
\* The index.  A slot leaves its old pool's buckets before it enters the new
\* one's, so whatever the page says the index stays exact.
LEMMA IndexStep ==
    ASSUME TypeOK, IndexExact, [Next]_vars
    PROVE  IndexExact'
<1>. SUFFICES ASSUME NEW p \in Pool, NEW m \in Mode
              PROVE  mode_available'[<<p, m>>] = {t \in slots' : Indexed(col'[t], p, m)}
  BY DEF IndexExact, Indexed
<1>. DEFINE k == <<p, m>>
<1>k. k \in Pool \X Mode /\ k[1] = p /\ k[2] = m
  OBVIOUS
<1>i. mode_available[k] = {t \in slots : Indexed(col[t], p, m)}
  BY DEF IndexExact
<1>1. CASE UNCHANGED <<slots, col, mode_available>>
  BY <1>1, <1>i
<1>2. CASE BootLoadRows
  BY <1>2, <1>k DEF BootLoadRows
<1>3. CASE Crash
  BY <1>3, <1>k DEF Crash, EmptyIndex
<1>4. CASE ApplyPage
  <2>1. mode_available'[k] = Reindexed(k)
    BY <1>4, <1>k DEF ApplyPage
  <2>2. slots' = slots \cup Loaded /\ Loaded \subseteq Token /\ slots \subseteq Token
    BY <1>4 DEF ApplyPage, Loaded, TypeOK
  <2>3. ASSUME NEW t \in Loaded
        PROVE  t \in Reindexed(k) <=> Indexed(col'[t], p, m)
    <3>1. col'[t] = SlotOf(page[t])
      BY <1>4, <2>2 DEF ApplyPage
    <3>2. ASSUME t \in mode_available[k]
          PROVE  col[t].pool = p
      BY <3>2, <1>i DEF Indexed
    <3>. QED  BY <1>k, <3>1, <3>2 DEF Reindexed
  <2>4. ASSUME NEW t \in Dropped
        PROVE  t \notin Reindexed(k) /\ ~Indexed(col'[t], p, m)
    <3>1. t \in Token /\ t \notin Loaded
      BY DEF Dropped, Loaded, TypeOK
    <3>2. col[t] \in Slot
      BY <3>1 DEF TypeOK
    <3>3. [col[t] EXCEPT !.status = "deleted"].status = "deleted"
      BY <3>2 DEF Slot
    <3>4. col'[t].status = "deleted"
      BY <1>4, <3>1, <3>3 DEF ApplyPage
    <3>5. t \in mode_available[k] => col[t].pool = p
      BY <1>i DEF Indexed
    <3>. QED  BY <1>k, <3>1, <3>4, <3>5 DEF Reindexed, Indexed
  <2>5. ASSUME NEW t \in Token, t \notin Loaded, t \notin Dropped
        PROVE  /\ t \in Reindexed(k) <=> t \in mode_available[k]
               /\ col'[t] = col[t]
    BY <1>4, <2>5 DEF ApplyPage, Reindexed
  <2>6. Reindexed(k) \subseteq Token
    BY <1>k, <2>2 DEF Reindexed, TypeOK
  <2>. QED  BY <1>i, <2>1, <2>2, <2>3, <2>4, <2>5, <2>6 DEF Dropped
<1>5. ASSUME NEW r \in Request, NEW kind \in {"unauthorized", "other"},
             Finish(r, kind), ~UNCHANGED <<slots, col, mode_available>>
      PROVE  mode_available'[<<p, m>>] = {t \in slots' : Indexed(col'[t], p, m)}
  <2>. DEFINE u == lease[r]
  <2>1. u \in Token /\ slots' = slots /\ ExpireSlot(u)
    BY <1>5 DEF Finish, TypeOK
  <2>2. [col[u] EXCEPT !.status = "expired"].status = "expired"
    BY <2>1 DEF TypeOK, Slot
  <2>3. /\ col'[u].status = "expired"
        /\ \A t \in Token \ {u} : col'[t] = col[t]
    BY <2>1, <2>2 DEF ExpireSlot, TypeOK
  <2>4. mode_available'[k] = IF p = col[u].pool THEN mode_available[k] \ {u}
                                                ELSE mode_available[k]
    BY <1>k, <2>1 DEF ExpireSlot
  <2>5. mode_available'[k] = mode_available[k] \ {u}
    BY <1>i, <2>4 DEF Indexed
  <2>. QED  BY <1>i, <2>1, <2>3, <2>5 DEF Indexed, TypeOK
<1>6. CASE Write
  BY <1>1, <1>6 DEF Write, dirVars, tableVars
<1>7. CASE UNCHANGED vars
  BY <1>1, <1>7 DEF vars, dirVars, tableVars
<1>8. CASE BootReadRevision \/ ScanReadRevision \/ ScanReadRows \/ ScanFail \/ Grant
  BY <1>1, <1>8
  DEF BootReadRevision, ScanReadRevision, ScanReadRows, ScanFail, Grant, TakeLease,
      tableVars
<1>. QED  BY NextCases, <1>1, <1>2, <1>3, <1>4, <1>5, <1>6, <1>7, <1>8

\* The empty index is exact.
LEMMA IndexInit == Init => IndexExact
BY DEF Init, IndexExact, EmptyIndex

\* The availability index never goes stale, whatever order of pages, pool
\* changes, deletions, re-additions and 401s led here.
THEOREM IndexIsExact == Spec => []IndexExact
<1>1. Init => TypeOK /\ IndexExact
  BY TypeInit, IndexInit
<1>2. TypeOK /\ IndexExact /\ [Next]_vars => (TypeOK /\ IndexExact)'
  BY TypeStep, IndexStep
<1>. QED  BY <1>1, <1>2, PTL DEF Spec

-----------------------------------------------------------------------------
\* A worker that has not started holds nothing.
LEMMA CoreInit == Init => RevisionsBounded /\ DownIsEmpty /\ LeasesOnSlots
<1>. SUFFICES ASSUME Init PROVE RevisionsBounded /\ DownIsEmpty /\ LeasesOnSlots
  OBVIOUS
<1>1. \A t \in Token : rows[t].revision = 0
  BY DEF Init, RepoInit, NoRow
<1>. QED
  BY <1>1 DEF Init, RepoInit, RevisionsBounded, DownIsEmpty, LeasesOnSlots

\* Revisions are read from the repository, whose own revision only grows.
LEMMA BoundsStep ==
    ASSUME RevisionKept, TypeOK, RevisionsBounded, [Next]_vars
    PROVE  RevisionsBounded'
<1>. USE DEF RevisionsBounded
<1>1. CASE UNCHANGED repoVars
  <2>1. rows' = rows /\ repoRevision' = repoRevision
    BY <1>1 DEF repoVars
  <2>2. CASE UNCHANGED <<revision, pageRevision>>
    BY <2>1, <2>2
  <2>3. CASE BootReadRevision
    BY <2>1, <2>3 DEF BootReadRevision, scanVars, TypeOK, RepoTypeOK
  <2>4. CASE Crash
    BY <2>1, <2>4 DEF Crash, TypeOK, RepoTypeOK
  <2>5. CASE ScanReadRevision
    BY <2>1, <2>5 DEF ScanReadRevision, tableVars, TypeOK, RepoTypeOK
  <2>6. CASE ScanFail
    BY <2>1, <2>6 DEF ScanFail, tableVars, TypeOK, RepoTypeOK
  <2>7. CASE ApplyPage
    BY <2>1, <2>7 DEF ApplyPage, TypeOK, RepoTypeOK
  <2>8. CASE Write \/ UNCHANGED vars
    BY <2>2, <2>8 DEF Write, vars, dirVars, tableVars, scanVars
  <2>9. CASE BootLoadRows \/ ScanReadRows \/ Grant
    BY <2>2, <2>9 DEF BootLoadRows, ScanReadRows, Grant, TakeLease, tableVars, scanVars
  <2>10. ASSUME NEW r \in Request, NEW kind \in {"unauthorized", "other"}, Finish(r, kind)
         PROVE  UNCHANGED <<revision, pageRevision>>
    BY <2>10 DEF Finish, scanVars
  <2>. QED
    BY NextCases, <2>2, <2>3, <2>4, <2>5, <2>6, <2>7, <2>8, <2>9, <2>10
<1>2. CASE Write
  <2>1. Fresh /\ revision' = revision /\ pageRevision' = pageRevision
    BY <1>2, KeptWrite DEF TypeOK, Write, dirVars, tableVars, scanVars
  <2>2. ASSUME NEW t \in Token
        PROVE  rows'[t].revision <= repoRevision'
    <3>1. rows[t].revision \in Nat /\ repoRevision \in Nat /\ repoRevision' \in Nat
      BY <2>1 DEF Fresh, TypeOK, RepoTypeOK, Row
    <3>2. repoRevision' >= repoRevision /\ rows[t].revision <= repoRevision
      BY <2>1 DEF Fresh
    <3>3. rows'[t] = rows[t] \/ rows'[t].revision <= repoRevision'
      BY <2>1 DEF Fresh
    <3>. QED  BY <3>1, <3>2, <3>3
  <2>. QED  BY <2>1, <2>2 DEF Fresh, TypeOK, RepoTypeOK
<1>3. Write \/ UNCHANGED repoVars
  BY NextCases
  DEF vars, BootReadRevision, BootLoadRows, Crash, ScanReadRevision, ScanReadRows,
      ScanFail, ApplyPage, Grant, TakeLease, Finish
<1>. QED  BY <1>1, <1>2, <1>3

\* Nothing survives a crash, and nothing runs before the table is loaded.
LEMMA DownStep ==
    ASSUME TypeOK, DownIsEmpty, [Next]_vars
    PROVE  DownIsEmpty'
<1>. USE DEF DownIsEmpty
<1>1. CASE UNCHANGED dirVars
  BY <1>1 DEF dirVars, tableVars, scanVars
<1>2. CASE BootReadRevision
  BY <1>2 DEF BootReadRevision, scanVars
<1>3. CASE BootLoadRows
  BY <1>3 DEF BootLoadRows, scanVars
<1>4. CASE Crash
  BY <1>4 DEF Crash
<1>5. CASE ScanReadRevision \/ ScanReadRows \/ ScanFail
  BY <1>5 DEF ScanReadRevision, ScanReadRows, ScanFail, tableVars
<1>6. CASE ApplyPage
  BY <1>6 DEF ApplyPage
<1>7. CASE Grant
  BY <1>7 DEF Grant, TakeLease, scanVars
<1>8. ASSUME NEW r \in Request, NEW kind \in {"unauthorized", "other"}, Finish(r, kind)
      PROVE  DownIsEmpty'
  <2>1. phase = "up"
    BY <1>8 DEF Finish
  <2>. QED  BY <1>8, <2>1 DEF Finish, scanVars
<1>. QED
  BY NextCases, <1>1, <1>2, <1>3, <1>4, <1>5, <1>6, <1>7, <1>8 DEF Write, vars

\* Only listed accounts are leased, and a slot is never given up.
LEMMA LeasesOnSlotsStep ==
    ASSUME TypeOK, DownIsEmpty, IndexExact, LeasesOnSlots, [Next]_vars
    PROVE  LeasesOnSlots'
<1>. USE DEF LeasesOnSlots
<1>1. CASE UNCHANGED <<lease, slots>>
  BY <1>1
<1>2. CASE BootLoadRows
  BY <1>2 DEF BootLoadRows, DownIsEmpty
<1>3. CASE Crash
  BY <1>3 DEF Crash
<1>4. CASE ApplyPage
  BY <1>4 DEF ApplyPage
<1>5. CASE Grant
  <2>1. PICK r \in Request, t \in Token :
             /\ \E k \in Pool \X Mode : t \in mode_available[k]
             /\ TakeLease(r, t)
    BY <1>5 DEF Grant
  <2>2. t \in slots
    BY <2>1 DEF IndexExact
  <2>. QED  BY <2>1, <2>2 DEF TakeLease, TypeOK
<1>6. ASSUME NEW r \in Request, NEW kind \in {"unauthorized", "other"}, Finish(r, kind)
      PROVE  LeasesOnSlots'
  BY <1>6 DEF Finish, TypeOK
<1>7. Write \/ UNCHANGED vars => UNCHANGED <<lease, slots>>
  BY DEF Write, vars, dirVars, tableVars
<1>8. BootReadRevision \/ ScanReadRevision \/ ScanReadRows \/ ScanFail
         => UNCHANGED <<lease, slots>>
  BY DEF BootReadRevision, ScanReadRevision, ScanReadRows, ScanFail, tableVars
<1>. QED  BY NextCases, <1>1, <1>2, <1>3, <1>4, <1>5, <1>6, <1>7, <1>8

\* A worker that is not up holds no slot, lease or page, and a lease is always
\* on an account that has a slot: releasing it finds its count.
THEOREM CoreInvariant == Spec => []Core
<1>1. Init => Core
  BY TypeInit, IndexInit, CoreInit DEF Core
<1>2. Core /\ [Next]_vars => Core'
  BY TypeStep, IndexStep, DownStep, LeasesOnSlotsStep DEF Core
<1>. QED  BY <1>1, <1>2, PTL DEF Spec

-----------------------------------------------------------------------------
\* The requests that hold a lease on t.
Holders(t) == {r \in Request : lease[r] = t}

\* Requests can be counted, and the column holds their number.
LEMMA FiniteHolders ==
    ASSUME NEW S \in SUBSET Request
    PROVE  /\ IsFiniteSet(S)
           /\ Cardinality(S) \in Nat
           /\ Cardinality(S) <= InflightCap
<1>1. /\ Cardinality(S) \in Nat /\ Cardinality(Request) \in Nat
      /\ IsFiniteSet(S) /\ Cardinality(S) <= Cardinality(Request)
  BY DirectoryAssumption, FS_Subset, FS_CardinalityType
<1>. QED  BY <1>1, InflightCapIsNat, DirectoryAssumption

\* Nobody holds a lease before the worker starts.
LEMMA InflightInit == Init => InflightCountsLeases
<1>. SUFFICES ASSUME Init, NEW t \in Token
              PROVE  inflight[t] = Cardinality({r \in Request : lease[r] = t})
  BY DEF InflightCountsLeases
<1>1. {r \in Request : lease[r] = t} = {} /\ inflight[t] = 0
  BY DirectoryAssumption DEF Init
<1>. QED  BY <1>1, FS_EmptySet

\* Each grant adds one holder and one to the count, each release takes one of
\* both; a page resets a count only for a slot nobody could hold.
LEMMA InflightStep ==
    ASSUME Core, InflightCountsLeases, [Next]_vars
    PROVE  InflightCountsLeases'
<1>. SUFFICES ASSUME NEW t \in Token
              PROVE  inflight'[t] = Cardinality(Holders(t)')
  BY DEF InflightCountsLeases, Holders
<1>. USE DEF Core
<1>0. inflight[t] = Cardinality(Holders(t))
  BY DEF InflightCountsLeases, Holders
<1>1. CASE UNCHANGED <<lease, inflight>>
  BY <1>0, <1>1 DEF Holders
<1>2. CASE BootLoadRows \/ Crash
  <2>1. lease' = [r \in Request |-> NoToken] /\ inflight'[t] = 0
    BY <1>2 DEF BootLoadRows, Crash, DownIsEmpty
  <2>2. Holders(t)' = {}
    BY <2>1, DirectoryAssumption DEF Holders
  <2>. QED  BY <2>1, <2>2, FS_EmptySet
<1>3. CASE ApplyPage
  <2>1. Holders(t)' = Holders(t) /\ inflight'[t] = CarriedInflight(t)
    BY <1>3 DEF ApplyPage, Holders
  <2>2. CASE t \in slots
    BY <1>0, <2>1, <2>2 DEF CarriedInflight
  <2>3. CASE t \notin slots
    <3>1. Holders(t) = {}
      BY <2>3, DirectoryAssumption DEF Holders, LeasesOnSlots
    <3>2. CarriedInflight(t) = 0
      BY <1>0, <3>1, FS_EmptySet DEF CarriedInflight
    <3>. QED  BY <2>1, <3>1, <3>2, FS_EmptySet
  <2>. QED  BY <2>2, <2>3
<1>4. CASE Grant
  <2>1. PICK r \in Request, u \in Token : lease[r] = NoToken /\ TakeLease(r, u)
    BY <1>4 DEF Grant
  <2>2. CASE t # u
    <3>1. Holders(t)' = Holders(t)
      BY <2>1, <2>2, DirectoryAssumption DEF TakeLease, Holders, TypeOK
    <3>2. inflight'[t] = inflight[t]
      BY <2>1, <2>2 DEF TakeLease, TypeOK
    <3>. QED  BY <1>0, <3>1, <3>2
  <2>3. CASE t = u
    <3>1. Holders(t)' = Holders(t) \cup {r} /\ r \notin Holders(t)
      BY <2>1, <2>3, DirectoryAssumption DEF TakeLease, Holders, TypeOK
    <3>2. /\ Cardinality(Holders(t)') = Cardinality(Holders(t)) + 1
          /\ Cardinality(Holders(t)) \in Nat
          /\ Cardinality(Holders(t)') <= InflightCap
      <4>1. Holders(t) \in SUBSET Request /\ Holders(t) \cup {r} \in SUBSET Request
        BY DEF Holders
      <4>2. IsFiniteSet(Holders(t)) /\ Cardinality(Holders(t)) \in Nat
        BY <4>1, FiniteHolders
      <4>3. Cardinality(Holders(t) \cup {r}) <= InflightCap
        BY <4>1, FiniteHolders
      <4>4. Cardinality(Holders(t) \cup {r}) = Cardinality(Holders(t)) + 1
        BY <3>1, <4>2, FS_AddElement
      <4>. QED  BY <3>1, <4>2, <4>3, <4>4
    <3>3. inflight[t] < InflightCap
      BY <1>0, <3>2, InflightCapIsNat
    <3>4. inflight'[t] = inflight[t] + 1
      BY <2>1, <2>3, <3>3 DEF TakeLease, TypeOK
    <3>. QED  BY <1>0, <3>2, <3>4
  <2>. QED  BY <2>2, <2>3
<1>5. ASSUME NEW r \in Request, NEW kind \in {"unauthorized", "other"}, Finish(r, kind)
      PROVE  inflight'[t] = Cardinality(Holders(t)')
  <2>0. lease[r] \in Token
    BY <1>5 DEF Finish, TypeOK
  <2>1. /\ lease' = [lease EXCEPT ![r] = NoToken]
        /\ inflight' = [inflight EXCEPT ![lease[r]] = IF @ > 0 THEN @ - 1 ELSE 0]
    BY <1>5 DEF Finish
  <2>2. CASE t # lease[r]
    <3>1. Holders(t)' = Holders(t)
      BY <2>1, <2>2, DirectoryAssumption DEF Holders, TypeOK
    <3>2. inflight'[t] = inflight[t]
      BY <2>0, <2>1, <2>2 DEF TypeOK
    <3>. QED  BY <1>0, <3>1, <3>2
  <2>3. CASE t = lease[r]
    <3>1. Holders(t)' = Holders(t) \ {r} /\ r \in Holders(t)
      BY <2>1, <2>3, DirectoryAssumption DEF Holders, TypeOK
    <3>2. IsFiniteSet(Holders(t)) /\ Cardinality(Holders(t)) \in Nat
      BY FiniteHolders DEF Holders
    <3>3. Cardinality(Holders(t) \ {r}) = Cardinality(Holders(t)) - 1
      BY <3>1, <3>2, FS_RemoveElement
    <3>4. Cardinality(Holders(t)) # 0
      BY <3>1, <3>2, FS_EmptySet
    <3>5. inflight'[t] = inflight[t] - 1
      BY <1>0, <2>1, <2>3, <3>2, <3>4 DEF TypeOK
    <3>. QED  BY <1>0, <3>1, <3>3, <3>5
  <2>. QED  BY <2>2, <2>3
<1>6. Write \/ UNCHANGED vars => UNCHANGED <<lease, inflight>>
  BY DEF Write, vars, dirVars, tableVars
<1>7. BootReadRevision \/ ScanReadRevision \/ ScanReadRows \/ ScanFail
         => UNCHANGED <<lease, inflight>>
  BY DEF BootReadRevision, ScanReadRevision, ScanReadRows, ScanFail, tableVars
<1>. QED  BY NextCases, <1>1, <1>2, <1>3, <1>4, <1>5, <1>6, <1>7

\* However many requests run, and whatever is deleted, reloaded or re-added
\* while they do, the in-flight column counts exactly the leases held.
THEOREM InflightIsExact == Spec => []InflightCountsLeases
<1>1. Init => Core /\ InflightCountsLeases
  BY TypeInit, IndexInit, CoreInit, InflightInit DEF Core
<1>2. Core /\ InflightCountsLeases /\ [Next]_vars => (Core /\ InflightCountsLeases)'
  BY TypeStep, IndexStep, DownStep, LeasesOnSlotsStep, InflightStep DEF Core
<1>. QED  BY <1>1, <1>2, PTL DEF Spec

-----------------------------------------------------------------------------
\* The mark is honest.  A row is in the fetched page exactly when the table has
\* to learn it, because its revision lies between the table's and the page's.
LEMMA PageCoversStep ==
    ASSUME OnePage, RevisionKept, Core, RevisionsBounded, PageCovers, [Next]_vars
    PROVE  PageCovers'
<1>. USE DEF Core
<1>1. CASE UNCHANGED <<repoVars, scanVars, revision>>
  BY <1>1 DEF PageCovers, repoVars, scanVars
<1>2. CASE Write
  <2>1. Fresh /\ UNCHANGED <<scan, page, pageRevision, revision>>
    BY <1>2, KeptWrite DEF TypeOK, Write, dirVars, tableVars, scanVars
  <2>. SUFFICES ASSUME scan = "fetched"
                PROVE  /\ \A t \in DOMAIN page : rows'[t].revision > revision
                       /\ \A t \in Token :
                            revision < rows'[t].revision /\ rows'[t].revision <= pageRevision
                               => t \in DOMAIN page /\ page[t] = rows'[t]
    BY <2>1 DEF PageCovers
  <2>2. repoRevision \in Nat /\ revision \in Nat /\ pageRevision \in Nat
    BY DEF TypeOK, RepoTypeOK
  <2>3. \A t \in Token : rows'[t].revision \in Nat
    BY <2>1 DEF Fresh, RepoTypeOK, Row
  <2>4. ASSUME NEW t \in Token, rows'[t] # rows[t]
        PROVE  rows'[t].revision > revision /\ ~(rows'[t].revision <= pageRevision)
    <3>1. rows'[t].revision > repoRevision
      BY <2>1, <2>4 DEF Fresh
    <3>. QED  BY <2>2, <2>3, <3>1 DEF RevisionsBounded
  <2>. QED  BY <2>4 DEF PageCovers, TypeOK
<1>3. CASE BootReadRevision \/ Crash \/ ScanReadRevision \/ ScanFail \/ ApplyPage
  <2>1. scan' # "fetched"
    BY <1>3 DEF BootReadRevision, Crash, ScanReadRevision, ScanFail, ApplyPage,
                scanVars, DownIsEmpty
  <2>. QED  BY <2>1 DEF PageCovers
<1>4. CASE ScanReadRows
  <2>1. PICK P \in SUBSET Token :
             IsPage(P, ChangedSince(revision)) /\ page' = [t \in P |-> rows[t]]
    BY <1>4 DEF ScanReadRows
  <2>2. P = ChangedSince(revision)
    <3>1. P \subseteq ChangedSince(revision) /\ ChangedSince(revision) \subseteq Token
      BY <2>1 DEF IsPage, ChangedSince
    <3>2. ASSUME Cardinality(P) = BatchLimit
          PROVE  P = Token
      <4>1. /\ IsFiniteSet(Token) /\ Cardinality(Token) \in Nat
            /\ Cardinality(P) \in Nat /\ Cardinality(P) <= Cardinality(Token)
            /\ Cardinality(Token) = Cardinality(P) => Token = P
        BY DirectoryAssumption, FiniteTokens, FS_Subset, FS_CardinalityType
      <4>. QED  BY <3>2, <4>1 DEF OnePage
    <3>. QED  BY <2>1, <3>1, <3>2 DEF IsPage
  <2>3. UNCHANGED <<rows, revision, pageRevision>>
    BY <1>4 DEF ScanReadRows, repoVars, tableVars
  <2>. QED  BY <2>1, <2>2, <2>3 DEF PageCovers, ChangedSince
<1>5. BootLoadRows \/ Grant \/ UNCHANGED vars => UNCHANGED <<repoVars, scanVars, revision>>
  BY DEF BootLoadRows, Grant, TakeLease, vars, dirVars, tableVars
<1>6. ASSUME NEW r \in Request, NEW kind \in {"unauthorized", "other"}, Finish(r, kind)
      PROVE  UNCHANGED <<repoVars, scanVars, revision>>
  BY <1>6 DEF Finish
<1>. QED  BY NextCases, <1>1, <1>2, <1>3, <1>4, <1>5, <1>6

\* What the table has mirrored it keeps, and the page adds the rest.
LEMMA MirrorsStep ==
    ASSUME RevisionKept, Core, RevisionsBounded, PageCovers, MirrorsUpToRevision,
           [Next]_vars
    PROVE  MirrorsUpToRevision'
<1>. USE DEF Core
<1>. SUFFICES ASSUME phase' = "up", NEW t \in Token, rows'[t].revision <= revision'
              PROVE  Mirrored(t)'
  BY DEF MirrorsUpToRevision
<1>0. ASSUME phase = "up", rows[t].revision <= revision
      PROVE  Mirrored(t)
  BY <1>0 DEF MirrorsUpToRevision
<1>n. /\ repoRevision \in Nat /\ revision \in Nat /\ pageRevision \in Nat
      /\ rows[t] \in Row /\ rows[t].revision \in Nat
  BY DEF TypeOK, RepoTypeOK, Row
<1>1. CASE UNCHANGED <<rows, phase, slots, col, revision>>
  BY <1>0, <1>1 DEF Mirrored
<1>2. CASE Write
  <2>1. Fresh /\ UNCHANGED <<phase, slots, col, revision>>
    BY <1>2, KeptWrite DEF TypeOK, Write, dirVars, tableVars
  <2>2. rows'[t] = rows[t]
    <3>1. rows'[t].revision \in Nat
      BY <2>1 DEF Fresh, RepoTypeOK, Row
    <3>2. revision <= repoRevision
      BY DEF RevisionsBounded
    <3>3. ~(rows'[t].revision > repoRevision)
      BY <1>n, <2>1, <3>1, <3>2
    <3>. QED  BY <2>1, <3>3 DEF Fresh
  <2>. QED  BY <1>0, <2>1, <2>2 DEF Mirrored
<1>3. CASE BootReadRevision \/ Crash
  BY <1>3 DEF BootReadRevision, Crash
<1>4. CASE BootLoadRows
  BY <1>4 DEF BootLoadRows, repoVars, Mirrored, SlotOf
<1>5. CASE ApplyPage
  <2>1. /\ rows' = rows
        /\ slots' = slots \cup Loaded
        /\ col'[t] = IF t \in Loaded THEN SlotOf(page[t])
                     ELSE IF t \in Dropped THEN [col[t] EXCEPT !.status = "deleted"]
                     ELSE col[t]
        /\ revision' = IF pageRevision > revision THEN pageRevision ELSE revision
        /\ scan = "fetched"
    BY <1>5 DEF ApplyPage, repoVars
  <2>2. CASE rows[t].revision <= revision
    <3>1. t \notin DOMAIN page
      BY <1>n, <2>1, <2>2 DEF PageCovers
    <3>2. phase = "up"
      BY <2>1 DEF DownIsEmpty
    <3>. QED  BY <1>0, <2>1, <2>2, <3>1, <3>2 DEF Loaded, Dropped, Mirrored
  <2>3. CASE ~(rows[t].revision <= revision)
    <3>1. t \in DOMAIN page /\ page[t] = rows[t]
      BY <1>n, <2>1, <2>3 DEF PageCovers
    <3>2. CASE Live(rows[t])
      BY <2>1, <3>1, <3>2 DEF Loaded, Mirrored, SlotOf
    <3>3. CASE ~Live(rows[t])
      <4>1. t \notin Loaded /\ (t \in Dropped <=> t \in slots)
        BY <3>1, <3>3 DEF Loaded, Dropped
      <4>2. [col[t] EXCEPT !.status = "deleted"].status = "deleted"
        BY DEF TypeOK, Slot
      <4>. QED  BY <2>1, <3>3, <4>1, <4>2 DEF Mirrored
    <3>. QED  BY <3>2, <3>3
  <2>. QED  BY <2>2, <2>3
<1>6. ASSUME NEW r \in Request, NEW kind \in {"unauthorized", "other"}, Finish(r, kind)
      PROVE  Mirrored(t)'
  <2>1. UNCHANGED <<rows, phase, slots, revision>> /\ lease[r] \in Token
    BY <1>6 DEF Finish, TypeOK, repoVars
  <2>2. CASE UNCHANGED col
    BY <1>1, <2>1, <2>2
  <2>3. CASE ExpireSlot(lease[r])
    <3>1. col[lease[r]] \in Slot
      BY <2>1 DEF TypeOK
    <3>2. /\ [col[lease[r]] EXCEPT !.status = "expired"].status = "expired"
          /\ [col[lease[r]] EXCEPT !.status = "expired"].pool = col[lease[r]].pool
          /\ [col[lease[r]] EXCEPT !.status = "expired"].windows = col[lease[r]].windows
      BY <3>1 DEF Slot
    <3>3. /\ col'[t] = col[t] \/ col'[t].status = "expired"
          /\ col'[t].pool = col[t].pool
          /\ col'[t].windows = col[t].windows
      BY <2>1, <2>3, <3>2 DEF ExpireSlot, TypeOK
    <3>. QED  BY <1>0, <2>1, <3>3 DEF Mirrored
  <2>. QED  BY <1>6, <2>2, <2>3 DEF Finish
<1>7. UNCHANGED vars => UNCHANGED <<rows, phase, slots, col, revision>>
  BY DEF vars, repoVars, dirVars, tableVars
<1>8. ScanReadRevision \/ ScanReadRows \/ ScanFail \/ Grant
         => UNCHANGED <<rows, phase, slots, col, revision>>
  BY DEF ScanReadRevision, ScanReadRows, ScanFail, Grant, TakeLease, repoVars, tableVars
<1>. QED  BY NextCases, <1>1, <1>2, <1>3, <1>4, <1>5, <1>6, <1>7, <1>8

\* The strengthening of the mark's honesty that every step preserves.
LEMMA IInvInductive ==
    ASSUME OnePage, RevisionKept
    PROVE  /\ Init => IInv
           /\ IInv /\ [Next]_vars => IInv'
<1>1. Init => IInv
  BY TypeInit, IndexInit, CoreInit DEF Core, IInv, Init, PageCovers, MirrorsUpToRevision
<1>2. IInv /\ [Next]_vars => IInv'
  BY TypeStep, IndexStep, BoundsStep, DownStep, LeasesOnSlotsStep,
     PageCoversStep, MirrorsStep DEF Core, IInv
<1>. QED  BY <1>1, <1>2

\* While one page holds every account and the repository never takes its
\* revision back, a worker's table has everything the
\* repository stamped up to table.revision: nothing is skipped for good.
THEOREM MarkIsHonest ==
    ASSUME OnePage, RevisionKept
    PROVE  Spec => []MirrorsUpToRevision
<1>1. Init => IInv
  BY IInvInductive
<1>2. IInv /\ [Next]_vars => IInv'
  BY IInvInductive
<1>3. IInv => MirrorsUpToRevision
  BY DEF IInv
<1>. QED  BY <1>1, <1>2, <1>3, PTL DEF Spec

\* A listed slot is active, so if its row is mirrored the row is too.
LEMMA GrantStep ==
    ASSUME IInv, [Next]_vars, NEW r \in Request
    PROVE  GrantFollowsRepository(r)
<1>. USE DEF IInv, Core
<1>. SUFFICES ASSUME lease[r] = NoToken, lease'[r] # NoToken,
                     rows[lease'[r]].revision <= revision
              PROVE  /\ Live(rows[lease'[r]])
                     /\ rows[lease'[r]].status = "active"
                     /\ rows[lease'[r]].windows # {}
  BY DEF GrantFollowsRepository
<1>1. Grant
  <2>1. lease' # lease
    OBVIOUS
  <2>2. ~Write /\ ~UNCHANGED vars
    BY <2>1 DEF Write, vars, dirVars
  <2>3. ~BootReadRevision /\ ~BootLoadRows /\ ~ScanReadRevision /\ ~ScanReadRows
        /\ ~ScanFail /\ ~ApplyPage
    BY <2>1 DEF BootReadRevision, BootLoadRows, ScanReadRevision, ScanReadRows,
                ScanFail, ApplyPage
  <2>4. ~Crash
    BY DEF Crash
  <2>5. \A q \in Request, kind \in {"unauthorized", "other"} : ~Finish(q, kind)
    BY DEF Finish, TypeOK
  <2>. QED  BY NextCases, <2>2, <2>3, <2>4, <2>5
<1>2. PICK q \in Request, t \in Token :
           /\ phase = "up"
           /\ \E k \in Pool \X Mode : t \in mode_available[k]
           /\ TakeLease(q, t)
  BY <1>1 DEF Grant
<1>3. lease'[r] = t
  BY <1>2 DEF TakeLease, TypeOK
<1>4. PICK p \in Pool, m \in Mode : t \in mode_available[<<p, m>>]
  BY <1>2
<1>5. t \in slots /\ col[t].status = "active" /\ m \in col[t].windows
  BY <1>4 DEF IndexExact, Indexed
<1>6. Mirrored(t)
  BY <1>2, <1>3 DEF MirrorsUpToRevision
<1>. QED  BY <1>3, <1>5, <1>6 DEF Mirrored

\* Reservation never consults the repository and still agrees with it: an
\* account is handed out deleted, expired, disabled or without any window only
\* if its row changed after table.revision.
THEOREM GrantsAreCurrent ==
    ASSUME OnePage, RevisionKept
    PROVE  Spec => GrantsFollowRepository
<1>1. Init => IInv
  BY IInvInductive
<1>2. IInv /\ [Next]_vars => IInv'
  BY IInvInductive
<1>3. IInv /\ [Next]_vars => [\A r \in Request : GrantFollowsRepository(r)]_vars
  BY GrantStep
<1>. QED  BY <1>1, <1>2, <1>3, PTL DEF Spec, GrantsFollowRepository

-----------------------------------------------------------------------------
(*****************************************************************************)
(* AccountDirectory implements AccountReplica.                               *)
(*****************************************************************************)

\* A worker that is not up has loaded nothing.
DownLoadsNothing == phase # "up" => loaded = [t \in Token |-> 0]

\* No slot is ahead of its row, nor of a page about to be applied.
LoadedBehind ==
    \A t \in Token :
        /\ loaded[t] <= rows[t].revision
        /\ scan = "fetched" /\ t \in DOMAIN page =>
               loaded[t] <= page[t].revision /\ page[t].revision <= rows[t].revision

\* At the mark nothing older is missing.
MarkLoaded ==
    phase = "up" =>
        \A t \in Token : rows[t].revision <= revision => loaded[t] = rows[t].revision

VersionInv ==
    /\ loaded \in [Token -> Nat]
    /\ DownLoadsNothing
    /\ LoadedBehind
    /\ MarkLoaded

ReplicaInv == IInv /\ VersionInv

\* The mark of the abstract replica.
ReplicaMark == IF phase = "up" THEN revision ELSE 0

-----------------------------------------------------------------------------
\* The kinds of steps that matter to the replica: a write of the repository, a
\* boot that loads the rows, the application of a page, the loss of everything,
\* and steps that load nothing.
Quiet ==
    /\ UNCHANGED <<repoVars, phase, revision>>
    /\ loaded' = loaded
    /\ \/ scan' # "fetched"
       \/ UNCHANGED <<scan, page>>
       \/ scan' = "fetched" /\ \A t \in DOMAIN page' : page'[t] = rows[t]

\* What RecordLoads records, step by step.
LEMMA ReplicaCases ==
    ASSUME Core, VersionInv, [HistoryNext]_historyVars
    PROVE  \/ Quiet
           \/ Write /\ loaded' = loaded
           \/ BootReadRevision /\ loaded' = loaded
           \/ BootLoadRows /\ loaded' = [t \in Token |-> rows[t].revision]
           \/ Crash /\ loaded' = [t \in Token |-> 0]
           \/ /\ ApplyPage
              /\ loaded' = [t \in Token |-> IF t \in DOMAIN page THEN page[t].revision
                                            ELSE loaded[t]]
<1>. USE DEF Core, VersionInv
<1>1. CASE UNCHANGED historyVars
  BY <1>1 DEF historyVars, vars, dirVars, tableVars, scanVars, Quiet
<1>. SUFFICES ASSUME Next, RecordLoads
              PROVE  \/ Quiet
                     \/ Write /\ loaded' = loaded
                     \/ BootReadRevision /\ loaded' = loaded
                     \/ BootLoadRows /\ loaded' = [t \in Token |-> rows[t].revision]
                     \/ Crash /\ loaded' = [t \in Token |-> 0]
                     \/ /\ ApplyPage
                        /\ loaded' = [t \in Token |->
                                        IF t \in DOMAIN page THEN page[t].revision
                                        ELSE loaded[t]]
  BY <1>1 DEF HistoryNext
<1>2. ASSUME phase' = phase, ~(scan = "fetched" /\ scan' = "idle")
      PROVE  loaded' = loaded
  BY <1>2 DEF RecordLoads, DownLoadsNothing, TypeOK
<1>3. CASE Write
  BY <1>2, <1>3 DEF Write, dirVars, scanVars
<1>4. CASE BootReadRevision
  BY <1>4 DEF BootReadRevision, scanVars, RecordLoads, DownIsEmpty, DownLoadsNothing
<1>5. CASE BootLoadRows
  BY <1>5 DEF BootLoadRows, RecordLoads
<1>6. CASE Crash
  BY <1>6 DEF Crash, RecordLoads
<1>7. CASE ScanReadRevision
  BY <1>2, <1>7 DEF ScanReadRevision, tableVars, Quiet
<1>8. CASE ScanReadRows
  <2>1. PICK P \in SUBSET Token : page' = [t \in P |-> rows[t]]
    BY <1>8 DEF ScanReadRows
  <2>. QED  BY <1>2, <1>8, <2>1 DEF ScanReadRows, tableVars, Quiet
<1>9. CASE ScanFail
  BY <1>2, <1>9 DEF ScanFail, tableVars, Quiet
<1>10. CASE ApplyPage
  <2>1. phase = "up" /\ phase' = "up"
    BY <1>10 DEF ApplyPage, DownIsEmpty
  <2>. QED  BY <1>10, <2>1 DEF ApplyPage, RecordLoads
<1>11. CASE Grant
  BY <1>2, <1>11 DEF Grant, TakeLease, scanVars, Quiet
<1>12. ASSUME NEW r \in Request, NEW kind, Finish(r, kind)
       PROVE  Quiet
  BY <1>2, <1>12 DEF Finish, scanVars, Quiet
<1>. QED
  BY <1>3, <1>4, <1>5, <1>6, <1>7, <1>8, <1>9, <1>10, <1>11, <1>12, NextCases

\* Nothing is loaded, and no version issued, when the worker and the store start.
LEMMA VersionInit == HistoryInit => VersionInv
BY DEF HistoryInit, Init, RepoInit, NoRow, VersionInv, DownLoadsNothing, LoadedBehind,
       MarkLoaded

\* Each kind of step keeps the versions in order.
LEMMA VersionStep ==
    ASSUME RevisionKept, ReplicaInv, [HistoryNext]_historyVars
    PROVE  VersionInv'
<1>. USE DEF ReplicaInv, IInv, Core, VersionInv
<1>0. /\ \A t \in Token : rows[t] \in Row /\ rows[t].revision \in Nat
      /\ revision \in Nat /\ repoRevision \in Nat /\ pageRevision \in Nat
      /\ \A t \in DOMAIN page : t \in Token /\ page[t].revision \in Nat
  BY DEF TypeOK, RepoTypeOK, Row
<1>1. CASE Quiet
  <2>. USE <1>1 DEF Quiet, repoVars
  <2>1. LoadedBehind'
    BY <1>0 DEF LoadedBehind
  <2>. QED  BY <2>1 DEF DownLoadsNothing, MarkLoaded
<1>2. CASE Write /\ loaded' = loaded
  <2>1. Fresh
    BY <1>2, KeptWrite DEF Write, TypeOK
  <2>2. UNCHANGED <<phase, revision, scan, page>>
    BY <1>2 DEF Write, dirVars, tableVars, scanVars
  <2>3. \A t \in Token : /\ rows'[t].revision \in Nat
                         /\ rows[t].revision <= rows'[t].revision
                         /\ \/ rows'[t] = rows[t]
                            \/ rows'[t].revision > revision
    BY <1>0, <2>1 DEF Fresh, RevisionsBounded, RepoTypeOK, Row
  <2>4. LoadedBehind'
    BY <1>0, <1>2, <2>2, <2>3 DEF LoadedBehind
  <2>5. MarkLoaded'
    BY <1>0, <1>2, <2>2, <2>3 DEF MarkLoaded
  <2>. QED  BY <1>2, <2>2, <2>4, <2>5 DEF DownLoadsNothing
<1>3. CASE BootReadRevision /\ loaded' = loaded
  BY <1>3 DEF BootReadRevision, repoVars, scanVars, DownLoadsNothing, LoadedBehind,
              MarkLoaded
<1>4. CASE BootLoadRows /\ loaded' = [t \in Token |-> rows[t].revision]
  <2>1. scan' # "fetched"
    BY <1>4 DEF BootLoadRows, scanVars, DownIsEmpty
  <2>. QED
    BY <1>0, <1>4, <2>1 DEF BootLoadRows, repoVars, DownLoadsNothing, LoadedBehind,
                            MarkLoaded
<1>5. CASE Crash /\ loaded' = [t \in Token |-> 0]
  BY <1>0, <1>5 DEF Crash, repoVars, DownLoadsNothing, LoadedBehind, MarkLoaded
<1>6. CASE /\ ApplyPage
           /\ loaded' = [t \in Token |-> IF t \in DOMAIN page THEN page[t].revision
                                         ELSE loaded[t]]
  <2>. USE <1>6 DEF ApplyPage, repoVars
  <2>1. phase = "up" /\ phase' = "up" /\ scan' # "fetched" /\ rows' = rows
    BY DEF DownIsEmpty
  <2>2. loaded' \in [Token -> Nat]
    BY <1>0
  <2>3. LoadedBehind'
    BY <2>1 DEF LoadedBehind
  <2>4. MarkLoaded'
    <3>. SUFFICES ASSUME NEW t \in Token, rows[t].revision <= revision'
                  PROVE  loaded'[t] = rows[t].revision
      BY <2>1 DEF MarkLoaded
    <3>1. CASE rows[t].revision <= revision
      BY <1>0, <2>1, <3>1 DEF MarkLoaded, PageCovers
    <3>2. CASE revision < rows[t].revision /\ rows[t].revision <= pageRevision
      BY <3>2 DEF PageCovers
    <3>. QED  BY <1>0, <3>1, <3>2
  <2>. QED  BY <2>1, <2>2, <2>3, <2>4 DEF DownLoadsNothing
<1>. QED  BY <1>1, <1>2, <1>3, <1>4, <1>5, <1>6, ReplicaCases

\* The invariant of the refinement is inductive.
LEMMA ReplicaInvInductive ==
    ASSUME OnePage, RevisionKept
    PROVE  /\ HistoryInit => ReplicaInv
           /\ ReplicaInv /\ [HistoryNext]_historyVars => ReplicaInv'
<1>1. HistoryInit => ReplicaInv
  BY IInvInductive, VersionInit DEF HistoryInit, ReplicaInv
<1>2. ASSUME ReplicaInv, [HistoryNext]_historyVars
      PROVE  ReplicaInv'
  <2>1. [Next]_vars
    BY <1>2 DEF HistoryNext, historyVars
  <2>. QED  BY <1>2, <2>1, IInvInductive, VersionStep DEF ReplicaInv
<1>. QED  BY <1>1, <1>2

-----------------------------------------------------------------------------
\* An empty worker and an empty store are an empty replica.
LEMMA ReplicaInit == HistoryInit => Replica!Init
BY DEF HistoryInit, Init, RepoInit, NoRow, Replica!Init, Replica!Nothing

\* A write publishes, a boot and a page catch up, a crash loses, the rest the
\* replica does not see.
LEMMA ReplicaStep ==
    ASSUME RevisionKept, ReplicaInv, ReplicaInv', [HistoryNext]_historyVars
    PROVE  [Replica!Next]_(Replica!vars)
<1>. USE DEF ReplicaInv, IInv, Core, VersionInv
<1>. DEFINE source == [t \in Token |-> rows[t].revision]
<1>0. /\ \A t \in Token : rows[t].revision \in Nat
      /\ revision \in Nat /\ repoRevision \in Nat /\ pageRevision \in Nat
      /\ \A t \in Token : loaded[t] \in Nat
  BY DEF TypeOK, RepoTypeOK, Row
<1>1. ASSUME UNCHANGED <<source, repoRevision, loaded, ReplicaMark>>
      PROVE  [Replica!Next]_(Replica!vars)
  BY <1>1 DEF Replica!vars, ReplicaMark
<1>2. CASE Quiet
  BY <1>1, <1>2 DEF Quiet, repoVars, ReplicaMark
<1>3. CASE Write /\ loaded' = loaded
  <2>1. Fresh
    BY <1>3, KeptWrite DEF Write, TypeOK
  <2>2. UNCHANGED ReplicaMark
    BY <1>3 DEF Write, dirVars, tableVars, ReplicaMark
  <2>3. CASE repoRevision' = repoRevision
    <3>1. \A t \in Token : rows'[t] = rows[t]
      BY <1>0, <2>1, <2>3 DEF Fresh, RepoTypeOK, Row
    <3>. QED  BY <1>1, <1>3, <2>2, <2>3, <3>1
  <2>4. CASE repoRevision' > repoRevision
    <3>1. \A t \in Token : \/ rows'[t].revision = rows[t].revision
                           \/ rows'[t].revision \in (repoRevision + 1)..repoRevision'
      BY <1>0, <2>1 DEF Fresh, RepoTypeOK, Row
    <3>2. Replica!Publish
      BY <1>3, <2>2, <2>4, <3>1 DEF Replica!Publish, ReplicaMark
    <3>. QED  BY <3>2 DEF Replica!Next
  <2>. QED  BY <1>0, <2>1, <2>3, <2>4 DEF Fresh, RepoTypeOK
<1>4. CASE BootReadRevision /\ loaded' = loaded
  BY <1>1, <1>4 DEF BootReadRevision, repoVars, ReplicaMark
<1>5. ASSUME \/ BootLoadRows
             \/ ApplyPage,
             \A t \in Token : loaded[t] <= loaded'[t]
      PROVE  [Replica!Next]_(Replica!vars)
  <2>1. rows' = rows /\ repoRevision' = repoRevision /\ phase' = "up"
    BY <1>5 DEF BootLoadRows, ApplyPage, repoVars, DownIsEmpty
  <2>2. /\ ReplicaMark \in Nat /\ ReplicaMark' = revision'
        /\ ReplicaMark <= revision'
    BY <1>0, <1>5, <2>1 DEF BootLoadRows, ApplyPage, ReplicaMark
  <2>3. revision' \in Nat /\ revision' <= repoRevision
    BY <2>1 DEF TypeOK, RevisionsBounded
  <2>4. ReplicaMark' \in ReplicaMark..repoRevision
    BY <1>0, <2>2, <2>3
  <2>5. \A t \in Token : /\ loaded'[t] \in loaded[t]..rows[t].revision
                         /\ rows[t].revision <= ReplicaMark'
                              => loaded'[t] = rows[t].revision
    BY <1>0, <1>5, <2>1, <2>2 DEF LoadedBehind, MarkLoaded
  <2>6. Replica!CatchUp
    BY <2>1, <2>4, <2>5 DEF Replica!CatchUp, ReplicaMark
  <2>. QED  BY <2>6 DEF Replica!Next
<1>6. CASE BootLoadRows /\ loaded' = [t \in Token |-> rows[t].revision]
  BY <1>5, <1>6 DEF LoadedBehind
<1>7. CASE Crash /\ loaded' = [t \in Token |-> 0]
  <2>1. Replica!Lose
    BY <1>7 DEF Crash, repoVars, Replica!Lose, Replica!Nothing
  <2>. QED  BY <2>1 DEF Replica!Next
<1>8. CASE /\ ApplyPage
           /\ loaded' = [t \in Token |-> IF t \in DOMAIN page THEN page[t].revision
                                         ELSE loaded[t]]
  <2>1. scan = "fetched"
    BY <1>8 DEF ApplyPage
  <2>. QED  BY <1>0, <1>5, <1>8, <2>1 DEF LoadedBehind
<1>. QED  BY <1>2, <1>3, <1>4, <1>6, <1>7, <1>8, ReplicaCases

\* The worker's directory (bootstrap, apply_changes) is a copy of the repository
\* that only moves forward and whose mark is honest, whatever writers, crashes
\* and failing scans do.
THEOREM DirectoryIsReplica ==
    ASSUME OnePage, RevisionKept
    PROVE  HistorySpec => ImplementsReplica
<1>1. HistoryInit => ReplicaInv
  BY ReplicaInvInductive
<1>2. ReplicaInv /\ [HistoryNext]_historyVars => ReplicaInv'
  BY ReplicaInvInductive
<1>3. HistoryInit => Replica!Init
  BY ReplicaInit
<1>4. ReplicaInv /\ ReplicaInv' /\ [HistoryNext]_historyVars
        => [Replica!Next]_(Replica!vars)
  BY ReplicaStep
<1>. QED  BY <1>1, <1>2, <1>3, <1>4, PTL DEF HistorySpec, ImplementsReplica, Replica!Spec
=============================================================================
