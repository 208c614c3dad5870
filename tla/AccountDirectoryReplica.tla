----------------------- MODULE AccountDirectoryReplica -----------------------
(***************************************************************************)
(* AccountDirectory implements AccountReplica.  The table does not store   *)
(* which version of a row a slot was loaded from; the history variable     *)
(* loaded records it, and constrains nothing.                              *)
(***************************************************************************)
EXTENDS AccountDirectory

VARIABLE loaded   \* the revision of the row last applied for each token

historyVars == <<vars, loaded>>

HistoryInit == Init /\ loaded = [t \in Token |-> 0]

RecordLoads ==
    loaded' =
        [t \in Token |->
            IF phase' = "down" THEN 0
            ELSE IF phase = "booting" /\ phase' = "up" THEN rows[t].revision
            ELSE IF scan = "fetched" /\ scan' = "idle" /\ t \in DOMAIN page
                 THEN page[t].revision
            ELSE loaded[t]]

HistoryNext == Next /\ RecordLoads

HistorySpec == HistoryInit /\ [][HistoryNext]_historyVars /\ Fairness

Replica == INSTANCE AccountReplica WITH
    source <- [t \in Token |-> rows[t].revision],
    clock  <- repoRevision,
    copy   <- loaded,
    mark   <- IF phase = "up" THEN revision ELSE 0

\* Every step of the worker and of the writers is a step of the abstract
\* replica or none at all: the mark never claims a row that was not applied,
\* and no page ever takes a slot back to an older row.
ImplementsReplica == Replica!Spec
=============================================================================
