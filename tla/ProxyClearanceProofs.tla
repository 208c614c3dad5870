------------------------ MODULE ProxyClearanceProofs ------------------------
(***************************************************************************)
(* TLAPS proofs about ProxyClearance for every set of proxies, hosts,      *)
(* configurations and requests, and every number of reloads and rounds.    *)
(*                                                                         *)
(* NobodyWaitsInVain is not inductive: a waiter is safe because the event  *)
(* it took from the table belonged to a running fetch of that key          *)
(* (EventsOwned), which holds although fetches remove one another's event. *)
(* GuardHolds rests on the converse (FetchesRegistered), which holds until *)
(* a reload drops an event.  The cursor is bounded because each request    *)
(* that has ended advanced it at most once (CursorCounts).                 *)
(***************************************************************************)
EXTENDS ProxyClearance, FiniteSetTheorems, TLAPS

Types ==
    /\ config \in Config
    /\ cursor \in Nat
    /\ bundles \in [Key -> {"none", "valid", "invalid"}]
    /\ events \in [Key -> Coroutine \cup {NoOne}]
    /\ pc \in [Coroutine -> {"idle", "waiting", "woken", "fetching", "refreshing",
                             "granted", "ended"}]
    /\ key \in [Coroutine -> Key]
    /\ owner \in [Coroutine -> Coroutine \cup {NoOne}]
    /\ round \in {"resting", "warming", "refreshing"}
    /\ todo \subseteq Key
    /\ reloads \in Nat
    /\ rounds \in Nat
    /\ dropped \in BOOLEAN

Ended == {r \in Request : pc[r] = "ended"}

CursorCounts == cursor <= Cardinality(Ended)

EventsOwned ==
    \A k \in Key :
        events[k] # NoOne => pc[events[k]] = "fetching" /\ key[events[k]] = k

WaitersServed ==
    \A c \in Coroutine :
        pc[c] = "waiting" => /\ owner[c] \in Coroutine
                             /\ pc[owner[c]] = "fetching"
                             /\ key[owner[c]] = key[c]

FetchesRegistered ==
    ~dropped => \A c \in Coroutine : pc[c] = "fetching" => events[key[c]] = c

Flights == EventsOwned /\ WaitersServed /\ FetchesRegistered

IInv == Types /\ CursorCounts /\ Flights

-----------------------------------------------------------------------------
\* _pick_proxy_url picks a configured proxy, or none.
LEMMA PickType ==
    ASSUME NEW c \in Config, NEW n \in Nat, NEW resource \in BOOLEAN
    PROVE  Pick(c, n, resource) \in Proxy \cup {Direct}
<1>. DEFINE list == IF resource /\ c.resource # <<>> THEN c.resource ELSE c.nodes
<1>1. list \in Seq(Proxy)
  BY ProxyAssumption DEF ConfigType
<1>. HIDE DEF list
<1>2. ASSUME list # <<>>
      PROVE  list[(n % Len(list)) + 1] \in Proxy /\ list[1] \in Proxy
  <2>1. Len(list) \in Nat /\ Len(list) > 0
    BY <1>1, <1>2
  <2>2. (n % Len(list)) + 1 \in 1..Len(list)
    BY <2>1
  <2>. QED  BY <1>1, <2>1, <2>2
<1>. QED  BY <1>2 DEF Pick, list

\* A round visits keys of configured nodes only.
LEMMA NodeKeysType ==
    ASSUME config \in Config
    PROVE  NodeKeys \subseteq Key
<1>1. config.nodes \in Seq(Proxy)
  BY ProxyAssumption DEF ConfigType
<1>2. Elements(config.nodes) \subseteq Proxy
  BY <1>1 DEF Elements
<1>. QED  BY <1>2, ProxyAssumption DEF NodeKeys, Key

\* The scheduler is a coroutine and no request, and NoOne is neither.
LEMMA CoroutinesApart ==
    /\ Scheduler \in Coroutine
    /\ Scheduler \notin Request
    /\ NoOne \notin Coroutine
    /\ Request \subseteq Coroutine
BY ProxyAssumption DEF Coroutine

\* No step takes back the end of a request, so a cursor that stays or starts
\* over stays within what has ended.
LEMMA EndedStay ==
    ASSUME Types, Types', CursorCounts,
           \A r \in Request : pc[r] = "ended" => pc'[r] = "ended",
           cursor' <= cursor
    PROVE  CursorCounts'
<1>1. Ended \subseteq Ended'
  BY DEF Ended
<1>2. IsFiniteSet(Request) /\ Ended' \subseteq Request
  BY ProxyAssumption DEF Ended
<1>3. IsFiniteSet(Ended')
  BY <1>2, FS_Subset
<1>4. IsFiniteSet(Ended) /\ Cardinality(Ended) <= Cardinality(Ended')
  BY <1>1, <1>3, FS_Subset
<1>5. Cardinality(Ended) \in Nat /\ Cardinality(Ended') \in Nat
  BY <1>3, <1>4, FS_CardinalityType
<1>. QED  BY <1>4, <1>5 DEF CursorCounts, Types

\* The end of one more request makes room for one more advance.
LEMMA EndedGrow ==
    ASSUME Types, Types', CursorCounts, NEW r \in Request, pc[r] # "ended",
           pc' = [pc EXCEPT ![r] = "ended"], cursor' <= cursor + 1
    PROVE  CursorCounts'
<1>1. Ended' = Ended \cup {r} /\ r \notin Ended
  BY CoroutinesApart DEF Ended, Types
<1>2. IsFiniteSet(Request) /\ Ended \subseteq Request
  BY ProxyAssumption DEF Ended
<1>3. IsFiniteSet(Ended)
  BY <1>2, FS_Subset
<1>4. Cardinality(Ended') = Cardinality(Ended) + 1
  BY <1>1, <1>3, FS_AddElement
<1>5. Cardinality(Ended) \in Nat
  BY <1>3, FS_CardinalityType
<1>. QED  BY <1>4, <1>5 DEF CursorCounts, Types

\* A coroutine that is not fetching moves, neither to fetch nor to wait: nobody
\* else's fetch is touched.
LEMMA BystanderKeeps ==
    ASSUME Types, Flights, NEW c \in Coroutine, pc[c] # "fetching",
           NEW next \in {"idle", "refreshing", "granted", "ended"},
           pc' = [pc EXCEPT ![c] = next],
           NEW k \in Key, key' = [key EXCEPT ![c] = k],
           UNCHANGED <<events, owner, dropped>>
    PROVE  Flights'
<1>1. EventsOwned'
  BY DEF Types, Flights, EventsOwned
<1>2. WaitersServed'
  BY DEF Types, Flights, WaitersServed
<1>3. FetchesRegistered'
  BY DEF Types, Flights, FetchesRegistered
<1>. QED  BY <1>1, <1>2, <1>3 DEF Flights

\* A coroutine that was not fetching looks for a bundle: if it waits, then for
\* the fetch whose event it found; if it fetches, then under an event of its own.
LEMMA PassKeeps ==
    ASSUME Types, Flights, NEW c \in Coroutine, pc[c] # "fetching",
           NEW k \in Key, GetOrBuild(c, k) \/ Pass(c, k), dropped' = dropped
    PROVE  Flights'
<1>1. Resumed(c) \in {"idle", "refreshing", "granted", "ended"}
  BY DEF Resumed
<1>2. CASE /\ pc' = [pc EXCEPT ![c] = Resumed(c)]
           /\ key' = [key EXCEPT ![c] = k]
           /\ UNCHANGED <<events, owner>>
  BY <1>1, <1>2, BystanderKeeps
<1>3. CASE /\ key' = [key EXCEPT ![c] = k]
           /\ events[k] # NoOne
           /\ pc' = [pc EXCEPT ![c] = "waiting"]
           /\ owner' = [owner EXCEPT ![c] = events[k]]
           /\ UNCHANGED events
  <2>1. /\ events[k] \in Coroutine
        /\ pc[events[k]] = "fetching"
        /\ key[events[k]] = k
    BY <1>3 DEF Types, Flights, EventsOwned
  <2>2. EventsOwned'
    BY <1>3 DEF Types, Flights, EventsOwned
  <2>3. WaitersServed'
    BY <1>3, <2>1 DEF Types, Flights, WaitersServed
  <2>4. FetchesRegistered'
    BY <1>3 DEF Types, Flights, FetchesRegistered
  <2>. QED  BY <2>2, <2>3, <2>4 DEF Flights
<1>4. CASE /\ key' = [key EXCEPT ![c] = k]
           /\ events[k] = NoOne
           /\ pc' = [pc EXCEPT ![c] = "fetching"]
           /\ events' = [events EXCEPT ![k] = c]
           /\ UNCHANGED owner
  <2>1. EventsOwned'
    BY <1>4, CoroutinesApart DEF Types, Flights, EventsOwned
  <2>2. WaitersServed'
    BY <1>4 DEF Types, Flights, WaitersServed
  <2>3. FetchesRegistered'
    BY <1>4, CoroutinesApart DEF Types, Flights, FetchesRegistered
  <2>. QED  BY <2>1, <2>2, <2>3 DEF Flights
<1>. QED  BY <1>2, <1>3, <1>4 DEF GetOrBuild, Pass

\* A fetch ends, answered or not: it wakes exactly those that wait for it.
LEMMA LeaveKeeps ==
    ASSUME Types, Flights, NEW c \in Coroutine, pc[c] = "fetching",
           NEW next \in {"idle", "granted", "ended"}, LeaveFetch(c, next),
           UNCHANGED <<key, owner, dropped>>
    PROVE  Flights'
<1>. USE DEF Types, Flights, LeaveFetch
<1>1. EventsOwned'
  <2>. SUFFICES ASSUME NEW k \in Key, events'[k] # NoOne
                PROVE  pc'[events'[k]] = "fetching" /\ key[events'[k]] = k
    BY DEF EventsOwned
  <2>1. k # key[c] /\ events'[k] = events[k]
    OBVIOUS
  <2>2. /\ events[k] \in Coroutine
        /\ pc[events[k]] = "fetching"
        /\ key[events[k]] = k
    BY <2>1 DEF EventsOwned
  <2>. QED  BY <2>1, <2>2
<1>2. WaitersServed'
  <2>. SUFFICES ASSUME NEW d \in Coroutine, pc'[d] = "waiting"
                PROVE  /\ owner[d] \in Coroutine
                       /\ pc'[owner[d]] = "fetching"
                       /\ key[owner[d]] = key[d]
    BY DEF WaitersServed
  <2>1. pc[d] = "waiting" /\ owner[d] # c
    OBVIOUS
  <2>. QED  BY <2>1 DEF WaitersServed
<1>3. FetchesRegistered'
  <2>. SUFFICES ASSUME ~dropped, NEW d \in Coroutine, pc'[d] = "fetching"
                PROVE  events'[key[d]] = d
    BY DEF FetchesRegistered
  <2>1. d # c /\ pc[d] = "fetching"
    OBVIOUS
  <2>2. events[key[d]] = d /\ events[key[c]] = c
    BY <2>1 DEF FetchesRegistered
  <2>. QED  BY <2>1, <2>2
<1>. QED  BY <1>1, <1>2, <1>3

-----------------------------------------------------------------------------
\* Each step keeps the types, one action at a time.
LEMMA TypesKept ==
    ASSUME Types, [Next]_vars
    PROVE  Types'
<1>. USE DEF Types
<1>0. \A c \in Coroutine : Resumed(c) \in {"idle", "granted"}
  BY DEF Resumed
<1>1. ASSUME NEW c \in Config, load(c)
      PROVE  Types'
  BY <1>1 DEF load, callerVars, roundVars
<1>2. ASSUME NEW c \in Coroutine, NEW k \in Key, GetOrBuild(c, k) \/ Pass(c, k)
      PROVE  /\ bundles' \in [Key -> {"none", "valid", "invalid"}]
             /\ events' \in [Key -> Coroutine \cup {NoOne}]
             /\ pc' \in [Coroutine -> {"idle", "waiting", "woken", "fetching",
                                       "refreshing", "granted", "ended"}]
             /\ key' \in [Coroutine -> Key]
             /\ owner' \in [Coroutine -> Coroutine \cup {NoOne}]
  BY <1>0, <1>2 DEF GetOrBuild, Pass
<1>3. ASSUME NEW r \in Request, NEW resource \in BOOLEAN, NEW host \in Host,
             acquire(r, resource, host)
      PROVE  Types'
  <2>1. <<Pick(config, cursor, resource), host>> \in Key
    BY PickType DEF Key
  <2>. QED  BY <1>2, <1>3, <2>1, CoroutinesApart DEF acquire, roundVars
<1>4. ASSUME NEW r \in Request, NEW kind, feedback(r, kind)
      PROVE  Types'
  BY <1>4, CoroutinesApart DEF feedback, Advanced, roundVars
<1>5. ASSUME NEW c \in Coroutine, Retry(c)
      PROVE  Types'
  BY <1>2, <1>5 DEF Retry, roundVars
<1>6. ASSUME NEW c \in Coroutine, FetchEnds(c)
      PROVE  Types'
  BY <1>0, <1>6 DEF FetchEnds, LeaveFetch, roundVars
<1>7. ASSUME NEW c \in Coroutine, Abort(c)
      PROVE  Types'
  BY <1>7 DEF Abort, LeaveFetch
<1>8. ASSUME NEW kind \in {"warming", "refreshing"}, BeginRound(kind)
      PROVE  Types'
  BY <1>8, NodeKeysType DEF BeginRound, directoryVars, callerVars
<1>9. CASE WarmNext
  BY <1>2, <1>9, CoroutinesApart DEF WarmNext
<1>10. CASE RefreshNext
  BY <1>10, CoroutinesApart DEF RefreshNext
<1>11. CASE RefreshEnds
  BY <1>11, CoroutinesApart DEF RefreshEnds, roundVars
<1>12. CASE EndRound
  BY <1>12 DEF EndRound, directoryVars, callerVars
<1>13. CASE UNCHANGED vars
  BY <1>13 DEF vars, directoryVars, callerVars, roundVars
<1>14. ASSUME NEW r \in Request, endUnjudged(r)
       PROVE  Types'
  BY <1>14, CoroutinesApart DEF endUnjudged, directoryVars, roundVars
<1>. QED
  BY <1>1, <1>3, <1>4, <1>5, <1>6, <1>7, <1>8, <1>9, <1>10, <1>11, <1>12, <1>13, <1>14
     DEF Next

\* The cursor never runs ahead of the requests that have ended.
LEMMA CursorKept ==
    ASSUME Types, CursorCounts, [Next]_vars
    PROVE  CursorCounts'
<1>1. Types'
  BY TypesKept
<1>2. ASSUME NEW r \in Request, NEW kind, feedback(r, kind)
      PROVE  CursorCounts'
  <2>1. cursor' <= cursor + 1
    BY <1>2 DEF feedback, Advanced, Types
  <2>. QED  BY <1>1, <1>2, <2>1, EndedGrow DEF feedback
<1>. SUFFICES ASSUME ~\E r \in Request, kind \in Failed \cup {"success"} : feedback(r, kind)
              PROVE  /\ \A r \in Request : pc[r] = "ended" => pc'[r] = "ended"
                     /\ cursor' <= cursor
  BY <1>1, <1>2, EndedStay
<1>. USE CoroutinesApart DEF Types
<1>3. CASE \E c \in Config : load(c)
  BY <1>3 DEF load, callerVars
<1>4. ASSUME NEW c \in Coroutine, NEW k \in Key, pc[c] # "ended",
             GetOrBuild(c, k) \/ Pass(c, k)
      PROVE  \A r \in Request : pc[r] = "ended" => pc'[r] = "ended"
  BY <1>4 DEF GetOrBuild, Pass
<1>5. ASSUME NEW r \in Request, NEW resource \in BOOLEAN, NEW host \in Host,
             acquire(r, resource, host)
      PROVE  /\ \A q \in Request : pc[q] = "ended" => pc'[q] = "ended"
             /\ cursor' <= cursor
  <2>1. <<Pick(config, cursor, resource), host>> \in Key
    BY PickType DEF Key
  <2>. QED  BY <1>4, <1>5, <2>1 DEF acquire
<1>6. CASE \E c \in Coroutine : Retry(c)
  BY <1>4, <1>6 DEF Retry
<1>7. CASE \E c \in Coroutine : FetchEnds(c)
  BY <1>7 DEF FetchEnds, LeaveFetch
<1>8. CASE \E c \in Coroutine : Abort(c)
  BY <1>8 DEF Abort, LeaveFetch
<1>9. CASE \E kind \in {"warming", "refreshing"} : BeginRound(kind)
  BY <1>9 DEF BeginRound, directoryVars, callerVars
<1>10. CASE WarmNext
  BY <1>4, <1>10 DEF WarmNext
<1>11. CASE RefreshNext
  BY <1>11 DEF RefreshNext
<1>12. CASE RefreshEnds
  BY <1>12 DEF RefreshEnds
<1>13. CASE EndRound
  BY <1>13 DEF EndRound, directoryVars, callerVars
<1>14. CASE UNCHANGED vars
  BY <1>14 DEF vars, directoryVars, callerVars
<1>15. CASE \E r \in Request : endUnjudged(r)
  BY <1>15 DEF endUnjudged, directoryVars
<1>. QED
  BY <1>3, <1>5, <1>6, <1>7, <1>8, <1>9, <1>10, <1>11, <1>12, <1>13, <1>14, <1>15 DEF Next

\* Fetches, events and waiters stay matched. A reload may drop events, never
\* make one up; every other step is a bystander's, a pass or the end of a fetch.
LEMMA FlightsKept ==
    ASSUME Types, Flights, [Next]_vars
    PROVE  Flights'
<1>. USE CoroutinesApart DEF Types
<1>1. ASSUME NEW c \in Config, load(c)
      PROVE  Flights'
  <2>. USE DEF load, callerVars
  <2>1. EventsOwned'
    BY <1>1 DEF Flights, EventsOwned
  <2>2. WaitersServed'
    BY <1>1 DEF Flights, WaitersServed
  <2>3. FetchesRegistered'
    <3>. SUFFICES ASSUME ~dropped', NEW d \in Coroutine, pc[d] = "fetching"
                  PROVE  events'[key[d]] = d
      BY <1>1 DEF FetchesRegistered
    <3>1. ~dropped /\ \A k \in Key : events'[k] = events[k]
      BY <1>1
    <3>. QED  BY <3>1 DEF Flights, FetchesRegistered
  <2>. QED  BY <2>1, <2>2, <2>3 DEF Flights
<1>2. ASSUME NEW r \in Request, NEW resource \in BOOLEAN, NEW host \in Host,
             acquire(r, resource, host)
      PROVE  Flights'
  <2>1. <<Pick(config, cursor, resource), host>> \in Key
    BY PickType DEF Key
  <2>2. pc[r] # "fetching" /\ dropped' = dropped
    BY <1>2 DEF acquire
  <2>. QED  BY <1>2, <2>1, <2>2, PassKeeps DEF acquire
<1>3. ASSUME NEW r \in Request, NEW kind, feedback(r, kind)
      PROVE  Flights'
  <2>1. key' = [key EXCEPT ![r] = key[r]]
    BY <1>3 DEF feedback
  <2>. QED  BY <1>3, <2>1, BystanderKeeps DEF feedback
<1>4. ASSUME NEW c \in Coroutine, Retry(c)
      PROVE  Flights'
  <2>1. key[c] \in Key /\ pc[c] # "fetching" /\ dropped' = dropped
    BY <1>4 DEF Retry
  <2>. QED  BY <1>4, <2>1, PassKeeps DEF Retry
<1>5. ASSUME NEW c \in Coroutine, FetchEnds(c)
      PROVE  Flights'
  <2>1. Resumed(c) \in {"idle", "granted", "ended"}
    BY DEF Resumed
  <2>. QED  BY <1>5, <2>1, LeaveKeeps DEF FetchEnds
<1>6. ASSUME NEW c \in Coroutine, Abort(c)
      PROVE  Flights'
  <2>. DEFINE next == IF c = Scheduler THEN "idle" ELSE "ended"
  <2>1. next \in {"idle", "ended"}
    OBVIOUS
  <2>2. UNCHANGED <<key, owner, dropped>>
    BY <1>6 DEF Abort
  <2>3. CASE pc[c] = "fetching"
    <3>1. LeaveFetch(c, next)
      BY <1>6, <2>3 DEF Abort
    <3>. HIDE DEF next
    <3>. QED  BY <2>1, <2>2, <2>3, <3>1, LeaveKeeps
  <2>4. CASE pc[c] # "fetching"
    <3>1. pc' = [pc EXCEPT ![c] = next] /\ events' = events
      BY <1>6, <2>4 DEF Abort
    <3>2. key[c] \in Key /\ key' = [key EXCEPT ![c] = key[c]]
      BY <2>2
    <3>. HIDE DEF next
    <3>. QED  BY <2>1, <2>2, <2>4, <3>1, <3>2, BystanderKeeps
  <2>. QED  BY <2>3, <2>4
<1>7. ASSUME NEW kind, BeginRound(kind)
      PROVE  Flights'
  BY <1>7 DEF BeginRound, directoryVars, callerVars, Flights, EventsOwned,
              WaitersServed, FetchesRegistered
<1>8. CASE WarmNext
  <2>1. PICK k \in todo : GetOrBuild(Scheduler, k)
    BY <1>8 DEF WarmNext
  <2>2. k \in Key /\ pc[Scheduler] # "fetching" /\ dropped' = dropped
    BY <1>8 DEF WarmNext
  <2>. QED  BY <2>1, <2>2, PassKeeps
<1>9. CASE RefreshNext
  <2>1. PICK k \in todo : key' = [key EXCEPT ![Scheduler] = k]
    BY <1>9 DEF RefreshNext
  <2>2. k \in Key /\ pc[Scheduler] = "idle" /\ UNCHANGED <<events, owner, dropped>>
    BY <1>9 DEF RefreshNext
  <2>3. PICK next \in {"idle", "refreshing"} : pc' = [pc EXCEPT ![Scheduler] = next]
    BY <1>9 DEF RefreshNext
  <2>. QED  BY <2>1, <2>2, <2>3, BystanderKeeps
<1>10. CASE RefreshEnds
  <2>1. key' = [key EXCEPT ![Scheduler] = key[Scheduler]]
    BY <1>10 DEF RefreshEnds
  <2>. QED  BY <1>10, <2>1, BystanderKeeps DEF RefreshEnds
<1>11. CASE EndRound
  BY <1>11 DEF EndRound, directoryVars, callerVars, Flights, EventsOwned,
               WaitersServed, FetchesRegistered
<1>12. CASE UNCHANGED vars
  BY <1>12 DEF vars, directoryVars, callerVars, Flights, EventsOwned,
               WaitersServed, FetchesRegistered
<1>13. ASSUME NEW r \in Request, endUnjudged(r)
       PROVE  Flights'
  <2>1. key' = [key EXCEPT ![r] = key[r]]
    BY <1>13 DEF endUnjudged
  <2>. QED  BY <1>13, <2>1, BystanderKeeps DEF endUnjudged, directoryVars
<1>. QED
  BY <1>1, <1>2, <1>3, <1>4, <1>5, <1>6, <1>7, <1>8, <1>9, <1>10, <1>11, <1>12, <1>13
     DEF Next

\* The invariant the theorems rest on: it starts true and no step breaks it.
LEMMA IInvInductive ==
    /\ Init => IInv
    /\ IInv /\ [Next]_vars => IInv'
<1>1. ASSUME Init
      PROVE  IInv
  <2>. USE <1>1 DEF Init
  <2>1. <<Direct, DefaultHost>> \in Key
    BY ProxyAssumption DEF Key
  <2>2. Types
    BY <2>1 DEF Types
  <2>3. Ended = {}
    BY CoroutinesApart DEF Ended
  <2>4. CursorCounts
    BY <2>3, FS_EmptySet DEF CursorCounts
  <2>5. Flights
    BY DEF Flights, EventsOwned, WaitersServed, FetchesRegistered
  <2>. QED  BY <2>2, <2>4, <2>5 DEF IInv
<1>2. ASSUME IInv, [Next]_vars
      PROVE  IInv'
  BY <1>2, TypesKept, CursorKept, FlightsKept DEF IInv
<1>. QED  BY <1>1, <1>2

-----------------------------------------------------------------------------
\* Every reachable state of the proxy directory is well typed; in particular the
\* pool's cursor advances at most once for each request (feedback).
THEOREM ProxyTypeCorrect == Spec => []TypeOK
<1>1. IInv => TypeOK
  <2>. SUFFICES ASSUME IInv
                PROVE  cursor <= Cardinality(Request) /\ Cardinality(Request) \in Nat
    BY DEF IInv, Types, TypeOK
  <2>1. IsFiniteSet(Request) /\ Ended \subseteq Request
    BY ProxyAssumption DEF Ended
  <2>2. IsFiniteSet(Ended) /\ Cardinality(Ended) <= Cardinality(Request)
    BY <2>1, FS_Subset
  <2>3. Cardinality(Ended) \in Nat /\ Cardinality(Request) \in Nat
    BY <2>1, <2>2, FS_CardinalityType
  <2>. QED  BY <2>2, <2>3 DEF IInv, CursorCounts, Types
<1>. QED  BY <1>1, IInvInductive, PTL DEF Spec

\* Nobody waits for an event that no running fetch of its key will set
\* (_get_or_build_bundle), whatever reloads, cancellations and other fetches do.
THEOREM WaitersAreServed == Spec => []NobodyWaitsInVain
<1>1. IInv => NobodyWaitsInVain
  BY DEF IInv, Flights, WaitersServed, NobodyWaitsInVain
<1>. QED  BY <1>1, IInvInductive, PTL DEF Spec

\* The single-flight guard of _get_or_build_bundle holds among requests and the
\* warm-up until a reload drops the event of a running fetch.
THEOREM SingleFlightUntilDropped == Spec => []GuardHolds
<1>1. IInv => GuardHolds
  BY DEF IInv, Flights, FetchesRegistered, GuardHolds
<1>. QED  BY <1>1, IInvInductive, PTL DEF Spec
=============================================================================
