----------------------------- MODULE RedisRepository -----------------------------
(***************************************************************************)
(* The accounts in Redis (src/app/control/account/backends/redis.py), and  *)
(* a worker that mirrors them (src/app/dataplane/account/sync.py).  There  *)
(* are no transactions: a write takes a revision, and then writes each row *)
(* and puts its token into the log of revisions, one command at a time; a  *)
(* reader takes the revision, then the log, then each row.  Writers and    *)
(* the worker are coroutines of any processes.                             *)
(*                                                                         *)
(* What a write reads of a row before it writes it matters to counters,    *)
(* tags and ext, which are left out, and to the pool a deletion leaves:    *)
(* the read and the write of a row are one step here.                      *)
(***************************************************************************)
EXTENDS Naturals, Sequences, FiniteSets

CONSTANTS
    Token, Pool, Writer,
    Limit,     \* how many log entries a scan returns
    MaxWrites  \* bound: revisions taken

RedisAssumption == IsFiniteSet(Token) /\ Limit \in Nat \ {0} /\ MaxWrites \in Nat

VARIABLES
    revision,  \* accounts:revision
    row,       \* the rows, on the tokens that ever had one
    log,       \* the scores of the revision log, 0 for a token that is not there
    members,   \* the set of tokens of each pool
    writer,    \* what each writer is at
    scan,      \* the worker's scan
    mark,      \* table.revision
    copy       \* the worker's table, on the tokens that have a live slot

written   == <<revision, row, log, members>>
mirror    == <<scan, mark, copy>>
redisVars == <<written, writer, mirror>>

Row  == [pool : Pool, status : {"active", "expired"}, used : BOOLEAN, deleted : BOOLEAN]
Rows == UNION {[T -> Row] : T \in SUBSET Token}
New(p) == [pool |-> p, status |-> "active", used |-> FALSE, deleted |-> FALSE]

\* A write has parts, each with a revision of its own: its operation, the tokens
\* it has yet to write, and for a patch or an upsert what becomes of them.
Part  == [op : {"upsert", "patch", "delete", "reset", "recover"}, todo : SUBSET Token, to : Row]
Quiet == [parts |-> <<>>, rev |-> 0, logs |-> {}]
Ready == [phase |-> "ready", boots |-> FALSE, rev |-> 0, todo |-> {}, got |-> <<>>, more |-> FALSE]

RedisTypeOK ==
    /\ revision \in 0..MaxWrites /\ row \in Rows /\ copy \in Rows
    /\ log \in [Token -> 0..MaxWrites] /\ members \in [Pool -> SUBSET Token]
    /\ \A w \in Writer : /\ writer[w].parts \in Seq(Part) /\ Len(writer[w].parts) <= 2
                         /\ writer[w].rev \in 0..MaxWrites /\ writer[w].logs \subseteq Token
    /\ scan.phase \in {"ready", "more", "revision", "rows"} /\ scan.todo \subseteq Token
    /\ scan.rev \in 0..MaxWrites /\ mark \in 0..MaxWrites

\* Some accounts are there, and the worker has loaded them.
RedisInit ==
    /\ revision = 0 /\ log = [t \in Token |-> 0]
    /\ \E p \in Pool, T \in SUBSET Token :
          /\ row = [t \in T |-> New(p)]
          /\ members = [q \in Pool |-> IF q = p THEN T ELSE {}]
    /\ writer = [w \in Writer |-> Quiet] /\ scan = Ready
    /\ mark = 0 /\ copy = row

-----------------------------------------------------------------------------
\* A write is called: with tokens of its caller's, with the members of a pool, or
\* with the rows found to be due, a while before they are written.
Call(w, parts) ==
    /\ writer[w] = Quiet /\ revision + Len(parts) <= MaxWrites
    /\ writer' = [writer EXCEPT ![w].parts = parts]
    /\ UNCHANGED <<written, mirror>>

To(op, T, to) == [op |-> op, todo |-> T, to |-> to]
Any == CHOOSE r \in Row : TRUE

upsert_accounts(w, T, p)  == Call(w, <<To("upsert", T, New(p))>>)
patch_accounts(w, T, to)  == Call(w, <<To("patch", T, to)>>)
delete_accounts(w, T)     == Call(w, <<To("delete", T, Any)>>)
replace_pool(w, T, p)     ==
    Call(w, <<To("delete", members[p], Any), To("upsert", T, New(p))>>)

Exhausted == {t \in DOMAIN row : row[t].status = "active" /\ row[t].used /\ ~row[t].deleted}
Expired   == {t \in DOMAIN row : row[t].status = "expired" /\ ~row[t].deleted}
reset_expired_console_windows(w)    == Call(w, <<To("reset", Exhausted, Any)>>)
recover_console_expired_accounts(w) == Call(w, <<To("recover", Expired, Any)>>)

\* _bump_revision, unless there is nothing to write.
Now(w)  == Head(writer[w].parts)
Next(w) == [writer EXCEPT ![w] = [Quiet EXCEPT !.parts = Tail(writer[w].parts)]]
Bump(w) ==
    /\ writer[w].parts # <<>> /\ writer[w].rev = 0
    /\ \/ /\ Now(w).todo = {} /\ writer' = Next(w) /\ UNCHANGED revision
       \/ /\ Now(w).todo # {} /\ revision' = revision + 1
          /\ writer' = [writer EXCEPT ![w].rev = revision + 1]
    /\ UNCHANGED <<row, log, members, mirror>>

\* The row a part writes over the one there is.
Over(part, t) ==
    CASE part.op = "upsert"  -> part.to
      [] part.op = "patch"   -> [part.to EXCEPT !.deleted = row[t].deleted]
      [] part.op = "delete"  -> [row[t] EXCEPT !.deleted = TRUE]
      [] part.op = "reset"   -> [row[t] EXCEPT !.used = FALSE]
      [] part.op = "recover" -> [row[t] EXCEPT !.status = "active"]

Applies(part, t) == /\ part.op # "upsert" => t \in DOMAIN row
                    /\ part.op = "delete" => ~row[t].deleted

\* hset, and sadd or srem: a patch moves no account from one pool's set to another.
PutRow(w, t) ==
    /\ writer[w].rev > 0 /\ writer[w].logs = {} /\ t \in Now(w).todo
    /\ IF Applies(Now(w), t)
       THEN /\ row' = [u \in DOMAIN row \cup {t} |-> IF u = t THEN Over(Now(w), t) ELSE row[u]]
            /\ members' = CASE Now(w).op = "upsert" -> [members EXCEPT ![Now(w).to.pool] = @ \cup {t}]
                            [] Now(w).op = "delete" -> [members EXCEPT ![row[t].pool] = @ \ {t}]
                            [] OTHER                -> members
            /\ writer' = [writer EXCEPT ![w].logs = {t}]
       ELSE /\ writer' = [writer EXCEPT ![w].parts[1].todo = @ \ {t}]
            /\ UNCHANGED <<row, members>>
    /\ UNCHANGED <<revision, log, mirror>>

\* zadd
PutLog(w, t) ==
    /\ t \in writer[w].logs /\ log' = [log EXCEPT ![t] = writer[w].rev]
    /\ writer' = [writer EXCEPT ![w].logs = {}, ![w].parts[1].todo = @ \ {t}]
    /\ UNCHANGED <<revision, row, members, mirror>>

Return(w) ==
    /\ writer[w].rev > 0 /\ Now(w).todo = {} /\ writer' = Next(w)
    /\ UNCHANGED <<written, mirror>>

-----------------------------------------------------------------------------
\* runtime_snapshot (the worker starts anew) and scan_changes: the revision first,
Begin(boots) ==
    /\ boots \/ scan.phase \in {"ready", "more"}
    /\ scan' = [Ready EXCEPT !.phase = "revision", !.boots = boots, !.rev = revision]
    /\ UNCHANGED <<written, writer, mark, copy>>

\* then the keys, or the tokens in the log after the mark, the oldest of them,
Changed   == {t \in Token : log[t] > mark}
Oldest(S) == /\ S \subseteq Changed /\ Cardinality(S) <= Limit
             /\ S # Changed => Cardinality(S) = Limit
             /\ \A t \in S, u \in Changed \ S : log[t] <= log[u]
List ==
    /\ scan.phase = "revision"
    /\ \E S \in SUBSET Token :
          /\ IF scan.boots THEN S = DOMAIN row ELSE Oldest(S)
          /\ scan' = [scan EXCEPT !.phase = "rows", !.todo = S,
                                  !.more = ~scan.boots /\ Cardinality(S) = Limit]
    /\ UNCHANGED <<written, writer, mark, copy>>

\* and then each row.
ReadRow(t) ==
    /\ scan.phase = "rows" /\ t \in scan.todo
    /\ scan' = [scan EXCEPT !.todo = @ \ {t},
                            !.got = [u \in DOMAIN @ \cup {t} |-> IF u = t THEN row[t] ELSE @[u]]]
    /\ UNCHANGED <<written, writer, mark, copy>>

\* bootstrap and apply_changes: what was read goes into the table, and the page's
\* revision with it; a full page is followed by the next.
Table(old) == LET all == [t \in DOMAIN old \cup DOMAIN scan.got |->
                            IF t \in DOMAIN scan.got THEN scan.got[t] ELSE old[t]]
              IN  [t \in {u \in DOMAIN all : ~all[u].deleted} |-> all[t]]
Apply ==
    /\ scan.phase = "rows" /\ scan.todo = {}
    /\ copy' = Table(IF scan.boots THEN <<>> ELSE copy)
    /\ mark' = IF scan.boots \/ scan.rev > mark THEN scan.rev ELSE mark
    /\ scan' = IF scan.more THEN [Ready EXCEPT !.phase = "more"] ELSE Ready
    /\ UNCHANGED <<written, writer>>

RedisNext ==
    \/ \E w \in Writer :
          \/ \E T \in SUBSET Token \ {{}} :
                \/ \E p \in Pool : upsert_accounts(w, T, p) \/ replace_pool(w, T, p)
                \/ \E to \in Row : patch_accounts(w, T, to)
                \/ delete_accounts(w, T)
          \/ reset_expired_console_windows(w) \/ recover_console_expired_accounts(w)
          \/ Bump(w) \/ Return(w)
          \/ \E t \in Token : PutRow(w, t) \/ PutLog(w, t)
    \/ \E boots \in BOOLEAN : Begin(boots)
    \/ List \/ Apply \/ \E t \in Token : ReadRow(t)

RedisSpec == RedisInit /\ [][RedisNext]_redisVars

-----------------------------------------------------------------------------
\* A worker that has caught up with the revision mirrors the rows, once no write
\* is under way (src/app/main.py:160: the sync loop "keeps each worker's in-memory
\* table eventually consistent with the repo"): it will not scan further back.
CaughtUpMirrors ==
    (mark = revision /\ scan = Ready /\ \A w \in Writer : writer[w] = Quiet) =>
        copy = [t \in {u \in DOMAIN row : ~row[u].deleted} |-> row[t]]
=============================================================================
