---------------------------- MODULE ProxyClearance ----------------------------
(***************************************************************************)
(* The proxy directory of a worker (src/app/control/proxy): which egress   *)
(* proxy a request leaves by, and the Cloudflare clearance bundle kept for *)
(* each proxy and host.  A bundle is fetched from a solver service, which  *)
(* takes seconds; requests for the same bundle wait for the one that       *)
(* fetches it, while operators reload the configuration, upstreams reject  *)
(* bundles, clients disconnect and the scheduler refreshes in the          *)
(* background.                                                             *)
(*                                                                         *)
(* No block under the directory's lock suspends, so a coroutine's step     *)
(* runs from one wait, for an event or for the solver, to the next.        *)
(*                                                                         *)
(* A request acquires one lease and gives feedback on it once or never.  An event   *)
(* is named by the coroutine that created it, which has at most one that   *)
(* is not set.                                                             *)
(***************************************************************************)
EXTENDS Naturals, FiniteSets, Sequences

CONSTANTS
    Proxy,        \* proxy URLs
    Direct,       \* the affinity key of no proxy
    Host,         \* clearance hosts
    DefaultHost,  \* grok.com
    Config,       \* the configurations an operator may load
    Request,      \* requests, each a coroutine
    Scheduler,    \* the coroutine of ProxyClearanceScheduler
    NoOne,        \* no coroutine
    MaxReloads,   \* bound: how often the configuration changes
    MaxRounds     \* bound: how often the scheduler warms up or refreshes

ConfigType ==
    [egress: {"direct", "single_proxy", "proxy_pool"},
     clearance: {"none", "manual", "solver"},
     nodes: Seq(Proxy), resource: Seq(Proxy)]

ASSUME ProxyAssumption ==
    /\ Direct \notin Proxy
    /\ DefaultHost \in Host
    /\ Config # {} /\ Config \subseteq ConfigType
    /\ \A c \in Config : c.egress = "direct" => c.nodes = <<>> /\ c.resource = <<>>
    /\ Scheduler \notin Request
    /\ NoOne \notin Request \cup {Scheduler}
    /\ IsFiniteSet(Request)
    /\ MaxReloads \in Nat
    /\ MaxRounds \in Nat

Key       == (Proxy \cup {Direct}) \X Host
Coroutine == Request \cup {Scheduler}

VARIABLES
    config,    \* the loaded configuration
    cursor,    \* _pool_cursor
    bundles,   \* _bundles: "none", "valid" or "invalid"
    events,    \* _refresh_events: whose fetch a key's event stands for
    pc,        \* where a coroutine is suspended
    key,       \* the key it acquires, and the lease it gets
    owner,     \* whose event it waits for
    round,     \* what the scheduler is doing
    todo,      \* the keys its round has still to visit
    reloads,   \* configuration changes so far
    rounds,    \* rounds of the scheduler so far
    dropped    \* a reload has dropped the event of a running fetch (history)

directoryVars == <<config, cursor, bundles, events>>
callerVars    == <<pc, key, owner>>
roundVars     == <<round, todo, rounds>>
vars          == <<directoryVars, callerVars, roundVars, reloads, dropped>>

TypeOK ==
    /\ config \in Config
    /\ cursor \in 0..Cardinality(Request)
    /\ bundles \in [Key -> {"none", "valid", "invalid"}]
    /\ events \in [Key -> Coroutine \cup {NoOne}]
    /\ pc \in [Coroutine -> {"idle", "waiting", "woken", "fetching", "refreshing",
                             "granted", "ended"}]
    /\ key \in [Coroutine -> Key]
    /\ owner \in [Coroutine -> Coroutine \cup {NoOne}]
    /\ round \in {"resting", "warming", "refreshing"}
    /\ todo \subseteq Key
    /\ reloads \in Nat
    /\ rounds \in Nat
    /\ dropped \in BOOLEAN

\* The directory has been created and has loaded its first configuration.
Init ==
    /\ config \in Config
    /\ cursor = 0
    /\ bundles = [k \in Key |-> "none"]
    /\ events = [k \in Key |-> NoOne]
    /\ pc = [c \in Coroutine |-> "idle"]
    /\ key = [c \in Coroutine |-> <<Direct, DefaultHost>>]
    /\ owner = [c \in Coroutine |-> NoOne]
    /\ round = "resting"
    /\ todo = {}
    /\ reloads = 0
    /\ rounds = 0
    /\ dropped = FALSE

-----------------------------------------------------------------------------
\* Configuration.
Elements(s) == {s[i] : i \in DOMAIN s}

\* valid_affinities.
Affinities(c) ==
    LET urls == Elements(c.nodes) \cup Elements(c.resource)
    IN  IF urls = {} THEN {Direct} ELSE urls

\* load, when the configuration has changed, perhaps only in what Config leaves
\* out (the solver's address, cookies): bundles and events of proxies that are
\* gone are forgotten, the other bundles are kept but invalid.
load(c) ==
    /\ reloads < MaxReloads
    /\ reloads' = reloads + 1
    /\ config' = c
    /\ cursor' = 0
    /\ bundles' = [k \in Key |-> IF k[1] \in Affinities(c) /\ bundles[k] # "none"
                                 THEN "invalid" ELSE "none"]
    /\ events' = [k \in Key |-> IF k[1] \in Affinities(c) THEN events[k] ELSE NoOne]
    /\ dropped' = (dropped \/ \E k \in Key : events'[k] # events[k])
    /\ UNCHANGED <<callerVars, roundVars>>

\* _pick_proxy_url: the sticky node of the pool, or the only proxy.
Pick(c, n, resource) ==
    LET list == IF resource /\ c.resource # <<>> THEN c.resource ELSE c.nodes
    IN  IF list = <<>> THEN Direct
        ELSE IF c.egress = "proxy_pool" THEN list[(n % Len(list)) + 1]
        ELSE list[1]

-----------------------------------------------------------------------------
\* The coroutine goes on with its request, or to the next key of its round.
Resumed(c) == IF c = Scheduler THEN "idle" ELSE "granted"

\* A pass of the loop of _get_or_build_bundle for key k: the bundle is there,
\* or somebody is fetching it, or this coroutine has to.  The manual provider
\* builds the bundle without suspending, unless the live configuration has
\* moved on.
Pass(c, k) ==
    /\ key' = [key EXCEPT ![c] = k]
    /\ \/ /\ bundles[k] = "valid"
          /\ pc' = [pc EXCEPT ![c] = Resumed(c)]
          /\ UNCHANGED <<bundles, events, owner>>
       \/ /\ bundles[k] # "valid" /\ events[k] # NoOne
          /\ pc' = [pc EXCEPT ![c] = "waiting"]
          /\ owner' = [owner EXCEPT ![c] = events[k]]
          /\ UNCHANGED <<bundles, events>>
       \/ /\ bundles[k] # "valid" /\ events[k] = NoOne
          /\ config.clearance = "manual"
          /\ pc' = [pc EXCEPT ![c] = Resumed(c)]
          /\ bundles' \in {bundles, [bundles EXCEPT ![k] = "valid"]}
          /\ UNCHANGED <<events, owner>>
       \/ /\ bundles[k] # "valid" /\ events[k] = NoOne
          /\ config.clearance # "manual"
          /\ pc' = [pc EXCEPT ![c] = "fetching"]
          /\ events' = [events EXCEPT ![k] = c]
          /\ UNCHANGED <<bundles, owner>>

\* _get_or_build_bundle: no clearance is looked for when the mode is none.
GetOrBuild(c, k) ==
    IF config.clearance = "none"
    THEN /\ pc' = [pc EXCEPT ![c] = Resumed(c)]
         /\ key' = [key EXCEPT ![c] = k]
         /\ UNCHANGED <<bundles, events, owner>>
    ELSE Pass(c, k)

\* As Retry, but the woken coroutine takes it for granted that nobody fetches.
RetryUnguarded(c) ==
    /\ pc[c] = "woken"
    /\ IF bundles[key[c]] = "valid" THEN Pass(c, key[c])
       ELSE /\ pc' = [pc EXCEPT ![c] = "fetching"]
            /\ events' = [events EXCEPT ![key[c]] = c]
            /\ UNCHANGED <<bundles, key, owner>>
    /\ UNCHANGED <<config, cursor, roundVars, reloads, dropped>>

\* The event fired: the waiter looks again.
Retry(c) ==
    /\ pc[c] = "woken"
    /\ Pass(c, key[c])
    /\ UNCHANGED <<config, cursor, roundVars, reloads, dropped>>

\* The finally block of a fetch: whatever event the key has is forgotten, the
\* one of this fetch is set.
LeaveFetch(c, next) ==
    /\ events' = [events EXCEPT ![key[c]] = NoOne]
    /\ pc' = [x \in Coroutine |->
                IF x = c THEN next
                ELSE IF pc[x] = "waiting" /\ owner[x] = c THEN "woken"
                ELSE pc[x]]

\* As FetchEnds, but the event is set only when there is a bundle.
FetchEndsQuietly(c) ==
    /\ pc[c] = "fetching"
    /\ \/ /\ bundles' = [bundles EXCEPT ![key[c]] = "valid"]
          /\ LeaveFetch(c, Resumed(c))
       \/ /\ pc' = [pc EXCEPT ![c] = Resumed(c)]
          /\ events' = [events EXCEPT ![key[c]] = NoOne]
          /\ UNCHANGED bundles
    /\ UNCHANGED <<config, cursor, key, owner, roundVars, reloads, dropped>>

\* The solver answers, with a bundle or without.
FetchEnds(c) ==
    /\ pc[c] = "fetching"
    /\ LeaveFetch(c, Resumed(c))
    /\ bundles' \in {bundles, [bundles EXCEPT ![key[c]] = "valid"]}
    /\ UNCHANGED <<config, cursor, key, owner, roundVars, reloads, dropped>>

\* As Abort, but a cancelled fetch skips its finally block.
AbortAbruptly(c) ==
    /\ pc[c] \in {"waiting", "woken", "fetching", "refreshing"}
    /\ pc' = [pc EXCEPT ![c] = IF c = Scheduler THEN "idle" ELSE "ended"]
    /\ IF c = Scheduler THEN round' = "resting" /\ todo' = {}
                        ELSE UNCHANGED <<round, todo>>
    /\ UNCHANGED <<directoryVars, key, owner, rounds, reloads, dropped>>

\* The coroutine is cancelled while it waits (its client is gone, the scheduler
\* stops), or the solver call raises: the round of the scheduler is over.
Abort(c) ==
    /\ pc[c] \in {"waiting", "woken", "fetching", "refreshing"}
    /\ LET next == IF c = Scheduler THEN "idle" ELSE "ended"
       IN  IF pc[c] = "fetching" THEN LeaveFetch(c, next)
           ELSE pc' = [pc EXCEPT ![c] = next] /\ UNCHANGED events
    /\ IF c = Scheduler THEN round' = "resting" /\ todo' = {}
                        ELSE UNCHANGED <<round, todo>>
    /\ UNCHANGED <<config, cursor, bundles, key, owner, rounds, reloads, dropped>>

-----------------------------------------------------------------------------
acquire(r, resource, host) ==
    /\ pc[r] = "idle"
    /\ GetOrBuild(r, <<Pick(config, cursor, resource), host>>)
    /\ UNCHANGED <<config, cursor, roundVars, reloads, dropped>>

Rejected == {"challenge", "unauthorized"}
Failed   == Rejected \cup {"forbidden", "transport_error"}

\* As Advanced, but a rejected bundle counts in both branches of feedback.
AdvancedTwice(kind) == IF kind \in Rejected THEN cursor + 2 ELSE cursor + 1

\* The pool moves on to its next node.
Advanced(kind) == cursor + 1

\* feedback: a rejected bundle is invalidated, whichever bundle the key has by
\* now, and a failed node is left for the next one.
feedback(r, kind) ==
    /\ pc[r] = "granted"
    /\ pc' = [pc EXCEPT ![r] = "ended"]
    /\ bundles' = IF kind \in Rejected /\ bundles[key[r]] # "none"
                  THEN [bundles EXCEPT ![key[r]] = "invalid"] ELSE bundles
    /\ cursor' = IF /\ config.egress = "proxy_pool"
                    /\ key[r][1] # Direct
                    /\ kind \in Failed
                 THEN Advanced(kind) ELSE cursor
    /\ UNCHANGED <<config, events, key, owner, roundVars, reloads, dropped>>

\* _stream_chat: a connection that breaks, while it is opened or read, and a client
\* that leaves, end a chat without feedback on its lease.
endUnjudged(r) ==
    /\ pc[r] = "granted"
    /\ pc' = [pc EXCEPT ![r] = "ended"]
    /\ UNCHANGED <<directoryVars, key, owner, roundVars, reloads, dropped>>

-----------------------------------------------------------------------------
\* The keys of the configured nodes at the default host.
NodeKeys ==
    LET affinities == IF config.nodes = <<>> THEN {Direct} ELSE Elements(config.nodes)
    IN  affinities \X {DefaultHost}

\* A round begins: warm_up visits the nodes, refresh_clearance_safe the keys
\* that have a bundle too.
BeginRound(kind) ==
    /\ round = "resting"
    /\ rounds < MaxRounds
    /\ config.clearance # "none"
    /\ rounds' = rounds + 1
    /\ round' = kind
    /\ todo' = IF kind = "warming" THEN NodeKeys
               ELSE NodeKeys \cup {k \in Key : bundles[k] # "none"}
    /\ UNCHANGED <<directoryVars, callerVars, reloads, dropped>>

\* warm_up, one key: like a request's acquisition.
WarmNext ==
    /\ round = "warming"
    /\ pc[Scheduler] = "idle"
    /\ \E k \in todo : GetOrBuild(Scheduler, k) /\ todo' = todo \ {k}
    /\ UNCHANGED <<config, cursor, round, rounds, reloads, dropped>>

\* refresh_clearance_safe, one key: fetched whether or not somebody else does.
RefreshNext ==
    /\ round = "refreshing"
    /\ pc[Scheduler] = "idle"
    /\ \E k \in todo :
         /\ todo' = todo \ {k}
         /\ key' = [key EXCEPT ![Scheduler] = k]
         /\ IF config.clearance = "manual"
            THEN /\ bundles' \in {bundles, [bundles EXCEPT ![k] = "valid"]}
                 /\ UNCHANGED pc
            ELSE pc' = [pc EXCEPT ![Scheduler] = "refreshing"] /\ UNCHANGED bundles
    /\ UNCHANGED <<config, cursor, events, owner, round, rounds, reloads, dropped>>

\* The solver answers: a new bundle replaces the old one, no answer keeps it.
RefreshEnds ==
    /\ pc[Scheduler] = "refreshing"
    /\ pc' = [pc EXCEPT ![Scheduler] = "idle"]
    /\ bundles' \in {bundles, [bundles EXCEPT ![key[Scheduler]] = "valid"]}
    /\ UNCHANGED <<config, cursor, events, key, owner, roundVars, reloads, dropped>>

EndRound ==
    /\ round # "resting"
    /\ pc[Scheduler] = "idle"
    /\ todo = {}
    /\ round' = "resting"
    /\ UNCHANGED <<directoryVars, callerVars, todo, rounds, reloads, dropped>>

-----------------------------------------------------------------------------
Next ==
    \/ \E c \in Config : load(c)
    \/ \E r \in Request, resource \in BOOLEAN, host \in Host : acquire(r, resource, host)
    \/ \E r \in Request, kind \in Failed \cup {"success"} : feedback(r, kind)
    \/ \E r \in Request : endUnjudged(r)
    \/ \E c \in Coroutine : Retry(c) \/ FetchEnds(c) \/ Abort(c)
    \/ \E kind \in {"warming", "refreshing"} : BeginRound(kind)
    \/ WarmNext
    \/ RefreshNext
    \/ RefreshEnds
    \/ EndRound

Spec == Init /\ [][Next]_vars

\* The event loop resumes what is ready, and every solver call has a timeout.
Fairness == \A c \in Coroutine : WF_vars(Retry(c)) /\ WF_vars(FetchEnds(c))

FairSpec == Spec /\ Fairness

-----------------------------------------------------------------------------
\* A coroutine that waits, waits for a fetch of its own key that is still under
\* way and will wake it: reloads that forget events, and fetches that remove one
\* another's, strand nobody.
NobodyWaitsInVain ==
    \A c \in Coroutine :
        pc[c] = "waiting" => pc[owner[c]] = "fetching" /\ key[owner[c]] = key[c]

\* As long as no reload drops the event of a running fetch, requests and the
\* warm-up never fetch one key twice at a time.
GuardHolds ==
    ~dropped => \A c, d \in Coroutine :
        pc[c] = "fetching" /\ pc[d] = "fetching" /\ key[c] = key[d] => c = d

\* A request that asks for a lease gets one or ends.
EveryAcquireReturns ==
    \A r \in Request :
        pc[r] \in {"waiting", "woken", "fetching"} ~> pc[r] \in {"granted", "ended"}
=============================================================================
