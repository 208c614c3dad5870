---------------------------- MODULE AccountReplica ----------------------------
(***************************************************************************)
(* What a worker's account directory promises, without slots, pages or     *)
(* indexes: a copy of versioned accounts that falls behind their source,   *)
(* catches up, never goes back to an older version while the worker lives, *)
(* and whose mark is honest: at the mark, nothing older is missing.        *)
(***************************************************************************)
EXTENDS Naturals

CONSTANT Token

VARIABLES
    source,   \* the version of each account at its source, 0 for none
    clock,    \* the latest version issued
    copy,     \* the version of each account the copy holds
    mark      \* the copy holds everything issued up to here

vars == <<source, clock, copy, mark>>

Nothing == [t \in Token |-> 0]

Init ==
    /\ source = Nothing
    /\ clock = 0
    /\ copy = Nothing
    /\ mark = 0

\* Some accounts get versions nobody has seen.
Publish ==
    /\ clock' > clock
    /\ \A t \in Token :
         source'[t] = source[t] \/ source'[t] \in (clock + 1)..clock'
    /\ UNCHANGED <<copy, mark>>

\* The copy moves forward and its new mark is honest.
CatchUp ==
    /\ mark' \in mark..clock
    /\ \A t \in Token :
         /\ copy'[t] \in copy[t]..source[t]
         /\ source[t] <= mark' => copy'[t] = source[t]
    /\ UNCHANGED <<source, clock>>

\* The copy is lost and starts again from nothing.
Lose ==
    /\ copy' = Nothing
    /\ mark' = 0
    /\ UNCHANGED <<source, clock>>

Next == Publish \/ CatchUp \/ Lose

Spec == Init /\ [][Next]_vars
=============================================================================
