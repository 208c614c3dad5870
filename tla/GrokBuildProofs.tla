--------------------------- MODULE GrokBuildProofs ---------------------------
(*****************************************************************************)
(* TLAPS proofs about GrokBuildPool, for any sources, requests, job          *)
(* threads and bounds, and about UsageWriter, for any events, callers,       *)
(* queue and batch sizes.                                                    *)
(*                                                                           *)
(* The pool's invariant has three parts. Shape and RestTyped type the pool   *)
(* file, the server, the requests and the job. View relates four things      *)
(* and no more: the tokens the server has issued and those it still takes,   *)
(* the tokens on file, and what each refresher holds between its read and    *)
(* its write. Every action of the model is one of six steps of that view,    *)
(* or leaves it alone, so that the argument about tokens is made once for    *)
(* each of the six, and an action has only to be shown to be one of them.    *)
(*****************************************************************************)
EXTENDS GrokBuildPool, UsageWriter, FiniteSetTheorems, TLAPS

-----------------------------------------------------------------------------
(*****************************************************************************)
(* The Grok Build pool.                                                      *)
(*****************************************************************************)

\* Those who refresh an entry: requests and job threads.
Refresher == ({"request"} \X BuildRequest) \cup ({"thread"} \X Thread)

NoRefresh == [on |-> FALSE, source |-> NoSource, seen |-> 0, answer |-> 0]

\* What a request or a thread, e, holds of entry s: the token it has seen on file, and
\* the server's answer.
HeldBy(e, s) ==
    IF e.phase = "refreshing"
    THEN [on |-> TRUE, source |-> s, seen |-> e.seen.token, answer |-> e.answer]
    ELSE NoRefresh

held ==
    [x \in Refresher |-> IF x[1] = "request" THEN HeldBy(req[x[2]], req[x[2]].target)
                                             ELSE HeldBy(thread[x[2]], thread[x[2]].source)]

\* The tokens on file, 0 where there is no entry.
token == [s \in Source |-> IF s \in DOMAIN pool THEN pool[s].token ELSE 0]

Rotates == "new" \in Answers

-----------------------------------------------------------------------------
PoolShape == DOMAIN pool \subseteq Source /\ pool \in [DOMAIN pool -> Entry]

ServerShape ==
    /\ issued \in [Source -> Number]
    /\ live \in [Source -> SUBSET (Number \ {0})]

\* A request is counted when it is over, and not before.
RequestFits(q) ==
    /\ q \in RequestState
    /\ q.phase = "refreshing" => q.target \in Source /\ q.seen \in Entry
    /\ q.phase # "refreshing" => q.answer = 0
    /\ q.counted = IF q.phase = "done" /\ q.key # NoSource THEN 1 ELSE 0

RequestShape ==
    /\ req \in [BuildRequest -> RequestState]
    /\ \A r \in BuildRequest : RequestFits(req[r])

ThreadFits(t) == t \in ThreadState /\ (t.phase = "refreshing" => t.seen \in Entry)

ThreadShape ==
    /\ thread \in [Thread -> ThreadState]
    /\ \A h \in Thread : ThreadFits(thread[h])

Shape == PoolShape /\ ServerShape /\ RequestShape /\ ThreadShape

\* Nobody knows a token that was not issued.
TokensIssued ==
    /\ \A s \in Source : token[s] <= issued[s] /\ \A n \in live[s] : n <= issued[s]
    /\ \A x \in Refresher : held[x].on => /\ held[x].seen <= issued[held[x].source]
                                          /\ held[x].answer <= issued[held[x].source]

\* The server accepts what it has answered and nobody has saved yet.
AnswersLive ==
    \A x \in Refresher :
        held[x].on /\ held[x].answer # 0 => held[x].answer \in live[held[x].source]

\* A server that rotates tells each new token to one, and the file has not got it.
AnswersUnshared ==
    Rotates =>
        \A x \in Refresher : held[x].on /\ held[x].answer # 0 =>
            /\ token[held[x].source] # held[x].answer
            /\ \A y \in Refresher : held[y].on /\ held[y].source = held[x].source =>
                   /\ held[y].seen # held[x].answer
                   /\ y # x => held[y].answer # held[x].answer

\* A server that never rotates goes on accepting what was on file.
SeenLive ==
    ~Rotates =>
        /\ \A s \in Source : token[s] # 0 => token[s] \in live[s]
        /\ \A x \in Refresher : held[x].on => held[x].seen \in live[held[x].source]

\* StoredTokenLive, of the view.
FileLive ==
    \A s \in Source : token[s] # 0 =>
        \/ token[s] \in live[s]
        \/ s \in orphaned
        \/ \E x \in Refresher : /\ held[x].on /\ held[x].source = s
                                /\ held[x].seen = token[s] /\ held[x].answer \in live[s]

View    == TokensIssued /\ AnswersLive /\ AnswersUnshared /\ SeenLive /\ FileLive
PoolInv == Shape /\ View

-----------------------------------------------------------------------------
\* What a step may do to the view.
Quiet ==
    /\ held' = held /\ UNCHANGED <<issued, live, orphaned>>
    /\ \A s \in Source : token'[s] \in {0, token[s]}

Reads(x, s) ==
    /\ ~held[x].on /\ token[s] # 0
    /\ held' = [held EXCEPT ![x] = [on |-> TRUE, source |-> s, seen |-> token[s], answer |-> 0]]
    /\ UNCHANGED <<token, issued, live, orphaned>>

Exchanges(x, answer) ==
    /\ held[x].on /\ held[x].answer = 0
    /\ Exchange(held[x].source, held[x].seen, answer)
    /\ held' = [held EXCEPT ![x] = [on |-> TRUE, source |-> held[x].source,
                                    seen |-> held[x].seen, answer |-> answer]]
    /\ UNCHANGED <<token, orphaned>>

\* A token is saved, unless what is on file is not what was seen.
Saves(x) ==
    /\ held[x].on /\ held[x].answer # 0
    /\ \/ token' = [token EXCEPT ![held[x].source] = held[x].answer]
       \/ token' = token /\ token[held[x].source] # held[x].seen
    /\ held' = [held EXCEPT ![x] = NoRefresh]
    /\ UNCHANGED <<issued, live, orphaned>>

Drops(X) ==
    /\ X \subseteq Refresher
    /\ held' = [x \in Refresher |-> IF x \in X THEN NoRefresh ELSE held[x]]
    /\ orphaned \subseteq orphaned'
    /\ \A x \in X : held[x].on /\ held[x].answer \notin {0, held[x].seen}
                        => held[x].source \in orphaned'
    /\ UNCHANGED <<token, issued, live>>

Grants(s) ==
    /\ issued[s] < MaxTokens
    /\ issued' = [issued EXCEPT ![s] = @ + 1]
    /\ live' = [live EXCEPT ![s] = @ \cup {issued'[s]}]
    /\ token' = [token EXCEPT ![s] = issued'[s]]
    /\ orphaned' = orphaned \ {s}
    /\ held' = held

ViewNext ==
    \/ Quiet
    \/ \E x \in Refresher, s \in Source : Reads(x, s)
    \/ \E x \in Refresher, answer \in Number \ {0} : Exchanges(x, answer)
    \/ \E x \in Refresher : Saves(x)
    \/ \E X \in SUBSET Refresher : Drops(X)
    \/ \E s \in Source : Grants(s)

\* The types of the view.
HeldState ==
    [on : BOOLEAN, source : Source \cup {NoSource}, seen : Number, answer : Number]

ViewShape ==
    /\ token \in [Source -> Number] /\ held \in [Refresher -> HeldState]
    /\ issued \in [Source -> Number] /\ live \in [Source -> SUBSET (Number \ {0})]
    /\ \A x \in Refresher : held[x].on => held[x].source \in Source /\ held[x].seen # 0

LEMMA ShapeOfView == Shape => ViewShape
<1> SUFFICES ASSUME Shape PROVE ViewShape OBVIOUS
<1> USE DEF Shape
<1>1. token \in [Source -> Number]
  BY PoolAssumption DEF token, PoolShape, Entry, Number
<1>2. ASSUME NEW r \in BuildRequest
      PROVE  /\ HeldBy(req[r], req[r].target) \in HeldState
             /\ HeldBy(req[r], req[r].target).on =>
                    /\ HeldBy(req[r], req[r].target).source \in Source
                    /\ HeldBy(req[r], req[r].target).seen # 0
  BY PoolAssumption DEF HeldBy, HeldState, NoRefresh, RequestShape, RequestFits,
     RequestState, Entry, Number
<1>3. ASSUME NEW h \in Thread
      PROVE  /\ HeldBy(thread[h], thread[h].source) \in HeldState
             /\ HeldBy(thread[h], thread[h].source).on =>
                    /\ HeldBy(thread[h], thread[h].source).source \in Source
                    /\ HeldBy(thread[h], thread[h].source).seen # 0
  BY PoolAssumption DEF HeldBy, HeldState, NoRefresh, ThreadShape, ThreadFits, ThreadState,
     Entry, Number
<1>4. ASSUME NEW x \in Refresher
      PROVE  held[x] \in HeldState /\ (held[x].on => held[x].source \in Source /\ held[x].seen # 0)
  <2>1. CASE x \in {"request"} \X BuildRequest
    <3>1. x[2] \in BuildRequest /\ held[x] = HeldBy(req[x[2]], req[x[2]].target)
      BY <2>1 DEF held, Refresher
    <3> QED BY <3>1, <1>2
  <2>2. CASE x \in {"thread"} \X Thread
    <3>1. x[2] \in Thread /\ held[x] = HeldBy(thread[x[2]], thread[x[2]].source)
      BY <2>2 DEF held, Refresher
    <3> QED BY <3>1, <1>3
  <2> QED BY <2>1, <2>2 DEF Refresher
<1>5. held \in [Refresher -> HeldState]
  BY <1>4 DEF held
<1> QED BY <1>1, <1>4, <1>5 DEF ViewShape, ServerShape

-----------------------------------------------------------------------------
\* A server that does not do both: it rotates its tokens or it keeps them.
OneWay == Answers # {"same", "new"}

LEMMA QuietKeepsView == ViewShape /\ View /\ Quiet => View'
<1> SUFFICES ASSUME ViewShape, View, Quiet PROVE View' OBVIOUS
<1> USE PoolAssumption DEF View, ViewShape, Quiet, Number
<1>1. TokensIssued' BY DEF TokensIssued
<1>2. AnswersLive' BY DEF AnswersLive
<1>3. AnswersUnshared' BY DEF AnswersUnshared, Rotates, HeldState
<1>4. SeenLive' BY DEF SeenLive, Rotates
<1>5. FileLive' BY DEF FileLive
<1> QED BY <1>1, <1>2, <1>3, <1>4, <1>5

LEMMA ReadKeepsView ==
    ASSUME ViewShape, View, NEW x \in Refresher, NEW s \in Source, Reads(x, s)
    PROVE  View'
<1> USE PoolAssumption DEF View, ViewShape, Reads, Number
<1>1. TokensIssued' BY DEF TokensIssued
<1>2. AnswersLive' BY DEF AnswersLive
<1>3. AnswersUnshared' BY DEF AnswersUnshared, Rotates, HeldState
<1>4. SeenLive' BY DEF SeenLive, Rotates
<1>5. FileLive' BY DEF FileLive
<1> QED BY <1>1, <1>2, <1>3, <1>4, <1>5

LEMMA SaveKeepsView ==
    ASSUME ViewShape, View, NEW x \in Refresher, Saves(x)
    PROVE  View'
<1> USE PoolAssumption DEF View, ViewShape, Saves, Number, NoRefresh
<1>1. TokensIssued' BY DEF TokensIssued
<1>2. AnswersLive' BY DEF AnswersLive
<1>3. AnswersUnshared' BY DEF AnswersUnshared, Rotates, HeldState
<1>4. SeenLive' BY DEF SeenLive, Rotates, AnswersLive
<1>5. FileLive' BY DEF FileLive, AnswersLive
<1> QED BY <1>1, <1>2, <1>3, <1>4, <1>5

LEMMA DropKeepsView ==
    ASSUME ViewShape, View, NEW X \in SUBSET Refresher, Drops(X)
    PROVE  View'
<1> USE PoolAssumption DEF View, ViewShape, Drops, Number, NoRefresh
<1>1. TokensIssued' BY DEF TokensIssued
<1>2. AnswersLive' BY DEF AnswersLive
<1>3. AnswersUnshared' BY DEF AnswersUnshared, Rotates, HeldState
<1>4. SeenLive' BY DEF SeenLive, Rotates
<1>5. FileLive' BY DEF FileLive
<1> QED BY <1>1, <1>2, <1>3, <1>4, <1>5

LEMMA GrantKeepsView ==
    ASSUME ViewShape, View, NEW s \in Source, Grants(s)
    PROVE  View'
<1> USE PoolAssumption DEF View, ViewShape, Grants, Number
<1>a. \A t \in Source : issued[t] \in Nat /\ issued'[t] \in Nat /\ issued[t] <= issued'[t]
  OBVIOUS
<1>b. \A t \in Source : \A n \in live'[t] : n \in live[t] \/ n = issued'[t]
  OBVIOUS
<1>1. TokensIssued'
  <2>1. \A t \in Source : token'[t] <= issued'[t] BY <1>a DEF TokensIssued
  <2>2. \A t \in Source : \A n \in live'[t] : n <= issued'[t] BY <1>a, <1>b DEF TokensIssued
  <2>3. \A x \in Refresher : held[x].on => /\ held[x].seen <= issued'[held[x].source]
                                           /\ held[x].answer <= issued'[held[x].source]
    BY <1>a DEF TokensIssued, HeldState
  <2> QED BY <2>1, <2>2, <2>3 DEF TokensIssued
<1>2. AnswersLive' BY DEF AnswersLive
<1>3. AnswersUnshared' BY DEF AnswersUnshared, Rotates, HeldState, TokensIssued
<1>4. SeenLive' BY DEF SeenLive, Rotates
<1>5. FileLive' BY DEF FileLive
<1> QED BY <1>1, <1>2, <1>3, <1>4, <1>5

LEMMA ExchangeKeepsView ==
    ASSUME OneWay, ViewShape, View,
           NEW x \in Refresher, NEW answer \in Number \ {0}, Exchanges(x, answer)
    PROVE  View'
<1> USE PoolAssumption DEF View, ViewShape, Exchanges, Exchange, Number
<1>a. Rotates => "same" \notin Answers BY DEF OneWay, Rotates
<1>b. answer \in AnswersTo(held[x].source, held[x].seen) OBVIOUS
<1>0. /\ Rotates => answer = issued[held[x].source] + 1
      /\ ~Rotates => answer = held[x].seen
  <2> DEFINE t == held[x].source
             n == held[x].seen
  <2> HIDE DEF t, n
  <2>1. CASE Rotates
    <3>1. answer \in {} \cup (IF "new" \in Answers /\ issued[t] < MaxTokens
                             THEN {issued[t] + 1} ELSE {})
      BY <1>a, <1>b, <2>1 DEF AnswersTo, t, n
    <3> QED BY <3>1, <2>1 DEF t
  <2>2. CASE ~Rotates
    BY <1>b, <2>2 DEF AnswersTo, Rotates, t, n
  <2> QED BY <2>1, <2>2 DEF t, n
<1>c. \A u \in Source : issued[u] \in Nat /\ issued'[u] \in Nat /\ issued[u] <= issued'[u]
  OBVIOUS
<1>d. answer <= issued'[held[x].source]
  OBVIOUS
<1>e. \A u \in Source : \A m \in live'[u] :
         m \in live[u] \/ (u = held[x].source /\ m = answer)
  OBVIOUS
<1>1. TokensIssued'
  <2>1. \A u \in Source : token'[u] <= issued'[u] BY <1>c DEF TokensIssued
  <2>2. \A u \in Source : \A m \in live'[u] : m <= issued'[u]
    BY <1>c, <1>d, <1>e DEF TokensIssued
  <2>3. \A y \in Refresher : held'[y].on => /\ held'[y].seen <= issued'[held'[y].source]
                                            /\ held'[y].answer <= issued'[held'[y].source]
    BY <1>c, <1>d DEF TokensIssued, HeldState
  <2> QED BY <2>1, <2>2, <2>3 DEF TokensIssued
<1>2. AnswersLive' BY <1>0 DEF AnswersLive, AnswersUnshared, HeldState
<1>3. AnswersUnshared' BY <1>0 DEF AnswersUnshared, Rotates, HeldState, TokensIssued
<1>4. SeenLive' BY <1>0 DEF SeenLive, Rotates
<1>5. FileLive' BY <1>0 DEF FileLive, AnswersUnshared
<1> QED BY <1>1, <1>2, <1>3, <1>4, <1>5

LEMMA ViewKept == OneWay /\ ViewShape /\ View /\ ViewNext => View'
BY QuietKeepsView, ReadKeepsView, SaveKeepsView, DropKeepsView, GrantKeepsView,
   ExchangeKeepsView DEF ViewNext

-----------------------------------------------------------------------------
\* What a request or a thread becomes, the view and the shapes follow.
LEMMA RequestChange ==
    ASSUME NEW r \in BuildRequest, RequestShape, RequestFits(req'[r]),
           req' = [req EXCEPT ![r] = req'[r]], thread' = thread
    PROVE  /\ RequestShape'
           /\ held' = [held EXCEPT ![<<"request", r>>] = HeldBy(req'[r], req'[r].target)]
           /\ <<"request", r>> \in Refresher
           /\ held[<<"request", r>>] = HeldBy(req[r], req[r].target)
<1>1. RequestShape' BY DEF RequestShape, RequestFits
<1>2. <<"request", r>> \in Refresher /\ held[<<"request", r>>] = HeldBy(req[r], req[r].target)
  BY DEF Refresher, held
<1>3. ASSUME NEW x \in Refresher
      PROVE held'[x] = IF x = <<"request", r>> THEN HeldBy(req'[r], req'[r].target) ELSE held[x]
  <2>1. CASE x \in {"request"} \X BuildRequest
    <3>1. x = <<"request", x[2]>> /\ x[2] \in BuildRequest BY <2>1
    <3>2. CASE x[2] = r BY <3>1, <3>2 DEF held
    <3>3. CASE x[2] # r
      <4>1. req'[x[2]] = req[x[2]] BY <3>1, <3>3 DEF RequestShape
      <4> QED BY <3>1, <3>3, <4>1 DEF held
    <3> QED BY <3>2, <3>3
  <2>2. CASE x \in {"thread"} \X Thread
    BY <2>2 DEF held
  <2> QED BY <2>1, <2>2 DEF Refresher
<1>4. held' = [x \in Refresher |-> held'[x]] /\ held = [x \in Refresher |-> held[x]]
  BY DEF held
<1> QED BY <1>1, <1>2, <1>3, <1>4

LEMMA ThreadChange ==
    ASSUME NEW h \in Thread, ThreadShape, ThreadFits(thread'[h]),
           thread' = [thread EXCEPT ![h] = thread'[h]], req' = req
    PROVE  /\ ThreadShape'
           /\ held' = [held EXCEPT ![<<"thread", h>>] = HeldBy(thread'[h], thread'[h].source)]
           /\ <<"thread", h>> \in Refresher
           /\ held[<<"thread", h>>] = HeldBy(thread[h], thread[h].source)
<1>1. ThreadShape' BY DEF ThreadShape, ThreadFits
<1>2. <<"thread", h>> \in Refresher /\ held[<<"thread", h>>] = HeldBy(thread[h], thread[h].source)
  BY DEF Refresher, held
<1>3. ASSUME NEW x \in Refresher
      PROVE held'[x] = IF x = <<"thread", h>> THEN HeldBy(thread'[h], thread'[h].source) ELSE held[x]
  <2>1. CASE x \in {"thread"} \X Thread
    <3>1. x = <<"thread", x[2]>> /\ x[2] \in Thread BY <2>1
    <3>2. CASE x[2] = h BY <3>1, <3>2 DEF held
    <3>3. CASE x[2] # h
      <4>1. thread'[x[2]] = thread[x[2]] BY <3>1, <3>3 DEF ThreadShape
      <4> QED BY <3>1, <3>3, <4>1 DEF held
    <3> QED BY <3>2, <3>3
  <2>2. CASE x \in {"request"} \X BuildRequest
    BY <2>2 DEF held
  <2> QED BY <2>1, <2>2 DEF Refresher
<1>4. held' = [x \in Refresher |-> held'[x]] /\ held = [x \in Refresher |-> held[x]]
  BY DEF held
<1> QED BY <1>1, <1>2, <1>3, <1>4

-----------------------------------------------------------------------------
LEMMA SavedView ==
    ASSUME PoolShape, NEW s \in Source, NEW e \in Entry, Saved(s, e)
    PROVE  PoolShape' /\ token' = [token EXCEPT ![s] = e.token]
<1>1. DOMAIN pool' = DOMAIN pool \cup {s} BY DEF Saved
<1>2. \A t \in DOMAIN pool' : pool'[t] = IF t = s THEN e ELSE pool[t] BY DEF Saved
<1>3. PoolShape' BY <1>1, <1>2 DEF PoolShape, Saved
<1>4. \A t \in Source : token'[t] = IF t = s THEN e.token ELSE token[t]
  BY <1>1, <1>2 DEF token
<1> QED BY <1>3, <1>4 DEF token

LEMMA SamePool == pool' = pool => token' = token /\ (PoolShape => PoolShape')
BY DEF token, PoolShape

LEMMA AnyoneRuns == Anyone \in Process
BY PoolAssumption DEF Anyone

LEMMA IdleFits ==
    /\ Idle \in RequestState /\ RequestFits(Idle)
    /\ RequestFits([Idle EXCEPT !.phase = "gone"])
<1>1. 0 \in Number /\ Anyone \in Process BY AnyoneRuns, PoolAssumption DEF Number
<1>2. Idle \in RequestState BY <1>1 DEF Idle, RequestState, ReqPhase
<1>3. RequestFits(Idle) BY <1>2 DEF RequestFits, Idle
<1>4. [Idle EXCEPT !.phase = "gone"] \in RequestState
  BY <1>1 DEF Idle, RequestState, ReqPhase
<1> QED BY <1>2, <1>3, <1>4 DEF RequestFits, Idle

LEMMA DoneFits ==
    ASSUME NEW key \in Source \cup {NoSource}
    PROVE  RequestFits([Idle EXCEPT !.phase = "done", !.key = key,
                                    !.counted = IF key # NoSource THEN 1 ELSE 0])
<1> DEFINE n == IF key # NoSource THEN 1 ELSE 0
           q == [Idle EXCEPT !.phase = "done", !.key = key, !.counted = n]
<1>1. n \in Nat OBVIOUS
<1>2. 0 \in Number /\ Anyone \in Process BY AnyoneRuns, PoolAssumption DEF Number
<1> HIDE DEF n
<1>3. q \in RequestState /\ q.phase = "done" /\ q.answer = 0 /\ q.key = key /\ q.counted = n
  BY <1>1, <1>2 DEF Idle, RequestState, ReqPhase
<1> QED BY <1>3 DEF RequestFits, n

\* A request that is over is counted then, and holds nothing.
LEMMA OverFits ==
    ASSUME RequestShape, NEW r \in BuildRequest, req[r].phase # "done", Over(r)
    PROVE  /\ RequestFits(req'[r]) /\ req' = [req EXCEPT ![r] = req'[r]]
           /\ req'[r].phase = "done"
<1>1. req[r].counted = 0 /\ req[r].key \in Source \cup {NoSource} /\ req[r] \in RequestState
  BY DEF RequestShape, RequestFits, RequestState
<1>2. req'[r] = [Idle EXCEPT !.phase = "done", !.key = req[r].key,
                             !.counted = IF req[r].key # NoSource THEN 1 ELSE 0]
  BY <1>1 DEF Over, RequestShape
<1>3. RequestFits(req'[r]) BY <1>1, <1>2, DoneFits
<1>4. req' = [req EXCEPT ![r] = req'[r]] BY <1>1, <1>2 DEF Over, RequestShape
<1>5. req'[r].phase = "done" BY <1>2 DEF Idle
<1> QED BY <1>3, <1>4, <1>5

\* A step of a request that neither begins nor ends a refresh, ...
LEMMA RequestQuiet ==
    ASSUME Shape, NEW r \in BuildRequest, RequestFits(req'[r]),
           req' = [req EXCEPT ![r] = req'[r]],
           req[r].phase # "refreshing", req'[r].phase # "refreshing",
           UNCHANGED <<pool, issued, live, thread, orphaned>>
    PROVE  Shape' /\ ViewNext
<1>1. RequestShape' /\ held' = held
  <2>1. /\ RequestShape'
        /\ held' = [held EXCEPT ![<<"request", r>>] = HeldBy(req'[r], req'[r].target)]
        /\ <<"request", r>> \in Refresher
        /\ held[<<"request", r>>] = HeldBy(req[r], req[r].target)
    BY RequestChange DEF Shape
  <2>2. HeldBy(req'[r], req'[r].target) = held[<<"request", r>>]
    BY <2>1 DEF HeldBy
  <2>3. held = [y \in Refresher |-> held[y]] BY DEF held
  <2> QED BY <2>1, <2>2, <2>3
<1>2. token' = token /\ PoolShape' BY SamePool DEF Shape
<1>3. ServerShape' /\ ThreadShape' BY DEF Shape, ServerShape, ThreadShape
<1>4. Quiet BY <1>1, <1>2 DEF Quiet
<1> QED BY <1>1, <1>2, <1>3, <1>4 DEF Shape, ViewNext

\* ... and of one that ends it without saving.
LEMMA RequestStops ==
    ASSUME Shape, NEW r \in BuildRequest, RequestFits(req'[r]),
           req' = [req EXCEPT ![r] = req'[r]],
           req[r].phase = "refreshing", req'[r].phase # "refreshing",
           orphaned' = orphaned \cup LostWith(req[r], req[r].target),
           UNCHANGED <<pool, issued, live, thread>>
    PROVE  Shape' /\ ViewNext
<1> DEFINE x == <<"request", r>>
<1>1. /\ RequestShape' /\ x \in Refresher
      /\ held' = [held EXCEPT ![x] = NoRefresh]
      /\ held[x] = [on |-> TRUE, source |-> req[r].target, seen |-> req[r].seen.token,
                    answer |-> req[r].answer]
  BY RequestChange DEF Shape, HeldBy
<1>2. token' = token /\ PoolShape' BY SamePool DEF Shape
<1>3. ServerShape' /\ ThreadShape' BY DEF Shape, ServerShape, ThreadShape
<1>4. held' = [y \in Refresher |-> IF y \in {x} THEN NoRefresh ELSE held[y]]
  BY <1>1 DEF held
<1> HIDE DEF x
<1>5. Drops({x})
  <2>1. held[x].answer \notin {0, held[x].seen} => held[x].source \in orphaned'
    BY <1>1 DEF LostWith
  <2> QED BY <1>1, <1>2, <1>4, <2>1 DEF Drops
<1>6. {x} \in SUBSET Refresher BY <1>1
<1> QED BY <1>1, <1>2, <1>3, <1>5, <1>6 DEF Shape, ViewNext

LEMMA RequestView ==
    ASSUME Shape, NEW r \in BuildRequest, RequestStep(r)
    PROVE  Shape' /\ ViewNext
<1> DEFINE x == <<"request", r>>
<1>0. RequestFits(req[r]) /\ req[r] \in RequestState /\ req \in [BuildRequest -> RequestState]
  BY DEF Shape, RequestShape, RequestFits
<1>s. ServerShape /\ ThreadShape /\ RequestShape /\ PoolShape BY DEF Shape
<1>1. CASE LoadFresh(r)
  <2>1. PICK s \in Loadable(r) : req' = [req EXCEPT ![r].phase = "posting", ![r].key = s]
    BY <1>1 DEF LoadFresh
  <2>2. s \in Source BY <1>s DEF Loadable, PoolShape
  <2>3. req[r].phase = "select" BY <1>1 DEF LoadFresh, Selecting
  <2>4. req' = [req EXCEPT ![r] = req'[r]] /\ RequestFits(req'[r]) /\ req'[r].phase = "posting"
    BY <1>0, <2>1, <2>2, <2>3 DEF RequestFits, RequestState, ReqPhase
  <2> QED BY <1>1, <2>3, <2>4, RequestQuiet DEF LoadFresh, server, threads
<1>2. CASE NoCredential(r)
  <2>1. req[r].phase = "select" BY <1>2 DEF NoCredential, Selecting
  <2> QED BY <1>2, <1>s, <2>1, OverFits, RequestQuiet DEF NoCredential, server, threads
<1>3. CASE Refused(r)
  <2>1. req' = [req EXCEPT ![r] = req'[r]] /\ RequestFits(req'[r]) /\ req'[r].phase = "select"
    BY <1>0, <1>3 DEF Refused, RequestFits, RequestState, ReqPhase
  <2> QED BY <1>3, <2>1, RequestQuiet DEF Refused, server, threads
<1>4. CASE NextEntry(r)
  <2>1. req' = [req EXCEPT ![r] = req'[r]] /\ RequestFits(req'[r]) /\ req'[r].phase = "select"
    BY <1>0, <1>4 DEF NextEntry, RequestFits, RequestState, ReqPhase
  <2> QED BY <1>4, <2>1, RequestQuiet DEF NextEntry, server, threads
<1>5. CASE StreamBegins(r)
  <2>1. req' = [req EXCEPT ![r] = req'[r]] /\ RequestFits(req'[r]) /\ req'[r].phase = "streaming"
    BY <1>0, <1>5 DEF StreamBegins, RequestFits, RequestState, ReqPhase
  <2> QED BY <1>5, <2>1, RequestQuiet DEF StreamBegins, server, threads
<1>6. CASE Answered(r)
  BY <1>6, <1>s, OverFits, RequestQuiet DEF Answered, server, threads
<1>7. CASE RefreshFailsForRequest(r)
  BY <1>7, <1>s, OverFits, RequestStops DEF RefreshFailsForRequest, server, threads
<1>8. CASE CallerGone(r)
  <2>1. /\ req' = [req EXCEPT ![r] = req'[r]] /\ RequestFits(req'[r])
        /\ req'[r].phase = "gone"
    <3>1. req'[r] = [Idle EXCEPT !.phase = "gone"] BY <1>0, <1>8 DEF CallerGone
    <3>2. RequestFits(req'[r]) /\ req'[r].phase = "gone"
      BY <3>1, IdleFits DEF Idle
    <3> QED BY <1>0, <1>8, <3>2 DEF CallerGone
  <2>2. CASE req[r].phase = "refreshing"
    BY <1>8, <2>1, <2>2, RequestStops DEF CallerGone, server, threads
  <2>3. CASE req[r].phase # "refreshing"
    BY <1>8, <2>1, <2>3, RequestQuiet DEF CallerGone, server, threads
  <2> QED BY <2>2, <2>3
<1>9. CASE LoadDue(r)
  <2>1. PICK s \in Loadable(r) :
            req' = [req EXCEPT ![r].phase = "refreshing", ![r].target = s, ![r].seen = pool[s]]
    BY <1>9 DEF LoadDue
  <2>2. s \in DOMAIN pool /\ s \in Source /\ pool[s] \in Entry
    BY <1>s DEF Loadable, PoolShape
  <2>3. req[r].phase = "select" /\ req[r].answer = 0
    BY <1>9, <1>0 DEF LoadDue, Selecting, RequestFits
  <2>4. /\ req' = [req EXCEPT ![r] = req'[r]] /\ RequestFits(req'[r])
        /\ req'[r].phase = "refreshing" /\ req'[r].target = s /\ req'[r].seen = pool[s]
        /\ req'[r].answer = 0
    BY <1>0, <2>1, <2>2, <2>3 DEF RequestFits, RequestState, ReqPhase
  <2>5. /\ RequestShape' /\ x \in Refresher /\ held[x] = NoRefresh
        /\ held' = [held EXCEPT ![x] = [on |-> TRUE, source |-> s, seen |-> pool[s].token,
                                        answer |-> 0]]
    BY <1>9, <1>s, <2>3, <2>4, RequestChange DEF LoadDue, threads, HeldBy
  <2>6. token' = token /\ PoolShape' /\ ServerShape' /\ ThreadShape'
    BY <1>9, <1>s, SamePool DEF LoadDue, server, threads, ServerShape, ThreadShape
  <2>7. token[s] = pool[s].token /\ token[s] # 0
    BY <2>2 DEF token, Entry, Number
  <2>8. Reads(x, s)
    BY <1>9, <2>5, <2>6, <2>7 DEF Reads, LoadDue, server, NoRefresh
  <2> QED BY <2>2, <2>5, <2>6, <2>8 DEF ViewNext, Shape
<1>10. CASE ExchangeForRequest(r)
  <2>1. PICK answer \in Number \ {0} : /\ Exchange(req[r].target, req[r].seen.token, answer)
                                       /\ req' = [req EXCEPT ![r].answer = answer]
    BY <1>10 DEF ExchangeForRequest
  <2>2. req[r].phase = "refreshing" /\ req[r].answer = 0 /\ req[r].target \in Source
    BY <1>10, <1>0 DEF ExchangeForRequest, RequestFits
  <2>3. /\ req' = [req EXCEPT ![r] = req'[r]] /\ RequestFits(req'[r])
        /\ req'[r] = [req[r] EXCEPT !.answer = answer]
    BY <1>0, <2>1, <2>2 DEF RequestFits, RequestState, ReqPhase
  <2>4. /\ RequestShape' /\ x \in Refresher
        /\ held[x] = [on |-> TRUE, source |-> req[r].target, seen |-> req[r].seen.token,
                      answer |-> 0]
        /\ held' = [held EXCEPT ![x] = [on |-> TRUE, source |-> req[r].target,
                                        seen |-> req[r].seen.token, answer |-> answer]]
    BY <1>10, <1>0, <1>s, <2>2, <2>3, RequestChange
       DEF ExchangeForRequest, threads, HeldBy, RequestState
  <2>5. token' = token /\ PoolShape' /\ ThreadShape' /\ orphaned' = orphaned
    BY <1>10, <1>s, SamePool DEF ExchangeForRequest, threads, ThreadShape
  <2>6. ServerShape'
    BY <1>s, <2>1, <2>2, PoolAssumption DEF ServerShape, Exchange, Number
  <2>7. Exchanges(x, answer)
    BY <2>1, <2>4, <2>5 DEF Exchanges
  <2> QED BY <2>1, <2>4, <2>5, <2>6, <2>7 DEF ViewNext, Shape
<1>11. CASE SaveForRequest(r)
  <2> DEFINE s == req[r].target
             e == Refreshed(req[r].seen, req[r].answer)
  <2>1. /\ req[r].phase = "refreshing" /\ req[r].answer # 0 /\ s \in Source
        /\ req[r].seen \in Entry /\ req[r].answer \in Number
    BY <1>11, <1>0 DEF SaveForRequest, RequestFits, RequestState
  <2>2. /\ req' = [req EXCEPT ![r] = req'[r]] /\ RequestFits(req'[r])
        /\ req'[r].phase = "posting"
    BY <1>0, <1>11, <2>1, PoolAssumption
       DEF SaveForRequest, RequestFits, RequestState, ReqPhase, NoEntry, Number
  <2>3. /\ RequestShape' /\ x \in Refresher
        /\ held[x] = [on |-> TRUE, source |-> s, seen |-> req[r].seen.token,
                      answer |-> req[r].answer]
        /\ held' = [held EXCEPT ![x] = NoRefresh]
    BY <1>11, <1>s, <2>1, <2>2, RequestChange DEF SaveForRequest, threads, HeldBy
  <2>4. e \in Entry /\ e.token = req[r].answer
    BY <2>1 DEF Refreshed, Entry
  <2>5. /\ PoolShape'
        /\ \/ token' = [token EXCEPT ![s] = req[r].answer]
           \/ token' = token /\ token[s] # req[r].seen.token
    <3> HIDE DEF e
    <3>1. CASE MayPut(s)
      <4>1. Saved(s, e) BY <1>11, <3>1 DEF SaveForRequest, e
      <4> QED BY <4>1, <2>1, <2>4, <1>s, SavedView
    <3>2. CASE ~MayPut(s)
      <4>1. pool' = pool BY <1>11, <3>2 DEF SaveForRequest
      <4>2. token[s] = 0 BY <3>2, <2>1 DEF MayPut, Exists, token
      <4>3. req[r].seen.token # 0 BY <2>1 DEF Entry
      <4> QED BY <4>1, <4>2, <4>3, <1>s, SamePool
    <3> QED BY <3>1, <3>2
  <2>6. ServerShape' /\ ThreadShape' /\ UNCHANGED <<issued, live, orphaned>>
    BY <1>11, <1>s DEF SaveForRequest, server, threads, ServerShape, ThreadShape
  <2>7. Saves(x) BY <2>1, <2>3, <2>5, <2>6 DEF Saves
  <2> QED BY <2>3, <2>5, <2>6, <2>7 DEF ViewNext, Shape
<1> QED BY <1>1, <1>2, <1>3, <1>4, <1>5, <1>6, <1>7, <1>8, <1>9, <1>10, <1>11 DEF RequestStep

-----------------------------------------------------------------------------
LEMMA SameView ==
    ASSUME Shape, UNCHANGED <<pool, issued, live, req, thread, orphaned>>
    PROVE  Shape' /\ ViewNext
<1>1. Shape' BY DEF Shape, PoolShape, ServerShape, RequestShape, ThreadShape
<1>2. held' = held /\ token' = token BY DEF held, token
<1>3. Quiet BY <1>2 DEF Quiet
<1> QED BY <1>1, <1>3 DEF ViewNext

LEMMA RestFits == ThreadFits(Rest) /\ HeldBy(Rest, Rest.source) = NoRefresh
<1>1. (CHOOSE s \in Source : TRUE) \in Source BY PoolAssumption
<1> DEFINE c == CHOOSE s \in Source : TRUE
<1> HIDE DEF c
<1>2. 0 \in Number BY PoolAssumption DEF Number
<1>3. Rest = [phase |-> "idle", source |-> c, seen |-> NoEntry, answer |-> 0] BY DEF Rest, c
<1>4. c \in Source BY <1>1 DEF c
<1> QED BY <1>2, <1>3, <1>4 DEF ThreadFits, ThreadState, HeldBy

LEMMA ThreadView ==
    ASSUME Shape, job \in [Thread -> JobState], NEW h \in Thread, ThreadStep(h)
    PROVE  Shape' /\ ViewNext
<1> DEFINE x == <<"thread", h>>
<1>0. ThreadFits(thread[h]) /\ thread[h] \in ThreadState /\ thread \in [Thread -> ThreadState]
  BY DEF Shape, ThreadShape, ThreadFits
<1>s. ServerShape /\ ThreadShape /\ RequestShape /\ PoolShape BY DEF Shape
<1>1. CASE EntryMissing(h) \/ CompleteJob(h) \/ PersistJob(h)
  BY <1>1, SameView DEF EntryMissing, CompleteJob, PersistJob, server, requests
<1>2. CASE ReadEntry(h)
  <2>1. PICK s \in job[h].todo \cap DOMAIN pool :
            thread' = [thread EXCEPT ![h] = [phase |-> "refreshing", source |-> s,
                                             seen |-> pool[s], answer |-> 0]]
    BY <1>2 DEF ReadEntry
  <2>2. s \in DOMAIN pool /\ s \in Source /\ pool[s] \in Entry
    BY <1>s DEF PoolShape
  <2>3. thread[h].phase = "idle" BY <1>2 DEF ReadEntry, Working
  <2>4. /\ thread' = [thread EXCEPT ![h] = thread'[h]] /\ ThreadFits(thread'[h])
        /\ thread'[h] = [phase |-> "refreshing", source |-> s, seen |-> pool[s], answer |-> 0]
    <3>1. 0 \in Number BY PoolAssumption DEF Number
    <3>2. thread'[h] = [phase |-> "refreshing", source |-> s, seen |-> pool[s], answer |-> 0]
      BY <1>0, <2>1
    <3> QED BY <1>0, <2>1, <2>2, <3>1, <3>2 DEF ThreadFits, ThreadState
  <2>5. /\ ThreadShape' /\ x \in Refresher /\ held[x] = NoRefresh
        /\ held' = [held EXCEPT ![x] = [on |-> TRUE, source |-> s, seen |-> pool[s].token,
                                        answer |-> 0]]
    <3>1. req' = req BY <1>2 DEF ReadEntry, requests
    <3>2. /\ ThreadShape' /\ x \in Refresher
          /\ held' = [held EXCEPT ![x] = HeldBy(thread'[h], thread'[h].source)]
          /\ held[x] = HeldBy(thread[h], thread[h].source)
      BY <1>s, <2>4, <3>1, ThreadChange
    <3>3. /\ HeldBy(thread'[h], thread'[h].source)
                 = [on |-> TRUE, source |-> s, seen |-> pool[s].token, answer |-> 0]
          /\ HeldBy(thread[h], thread[h].source) = NoRefresh
      BY <2>3, <2>4 DEF HeldBy
    <3> QED BY <3>2, <3>3
  <2>6. token' = token /\ PoolShape' /\ ServerShape' /\ RequestShape'
    BY <1>2, <1>s, SamePool DEF ReadEntry, server, requests, ServerShape, RequestShape
  <2>7. token[s] = pool[s].token /\ token[s] # 0
    BY <2>2 DEF token, Entry, Number
  <2>8. Reads(x, s)
    BY <1>2, <2>5, <2>6, <2>7 DEF Reads, ReadEntry, server, NoRefresh
  <2> QED BY <2>2, <2>5, <2>6, <2>8 DEF ViewNext, Shape
<1>3. CASE ExchangeForThread(h)
  <2> DEFINE s == thread[h].source
  <2>1. PICK answer \in Number \ {0} : /\ Exchange(s, thread[h].seen.token, answer)
                                       /\ thread' = [thread EXCEPT ![h].answer = answer]
    BY <1>3 DEF ExchangeForThread
  <2>2. thread[h].phase = "refreshing" /\ thread[h].answer = 0 /\ s \in Source
    BY <1>3, <1>0 DEF ExchangeForThread, ThreadState
  <2>3. /\ thread' = [thread EXCEPT ![h] = thread'[h]] /\ ThreadFits(thread'[h])
        /\ thread'[h] = [thread[h] EXCEPT !.answer = answer]
    BY <1>0, <2>1, <2>2 DEF ThreadFits, ThreadState
  <2>4. /\ ThreadShape' /\ x \in Refresher
        /\ held[x] = [on |-> TRUE, source |-> s, seen |-> thread[h].seen.token, answer |-> 0]
        /\ held' = [held EXCEPT ![x] = [on |-> TRUE, source |-> s,
                                        seen |-> thread[h].seen.token, answer |-> answer]]
    BY <1>3, <1>0, <1>s, <2>2, <2>3, ThreadChange
       DEF ExchangeForThread, requests, HeldBy, ThreadState
  <2>5. token' = token /\ PoolShape' /\ RequestShape' /\ orphaned' = orphaned
    BY <1>3, <1>s, SamePool DEF ExchangeForThread, requests, RequestShape
  <2>6. ServerShape'
    BY <1>s, <2>1, <2>2, PoolAssumption DEF ServerShape, Exchange, Number
  <2>7. Exchanges(x, answer)
    BY <2>1, <2>4, <2>5 DEF Exchanges
  <2> QED BY <2>1, <2>4, <2>5, <2>6, <2>7 DEF ViewNext, Shape
<1>4. CASE SaveForThread(h)
  <2> DEFINE s == thread[h].source
             e == Refreshed(thread[h].seen, thread[h].answer)
             unchanged == Exists(s) /\ pool[s].token = thread[h].seen.token
  <2>1. /\ thread[h].phase = "refreshing" /\ thread[h].answer # 0 /\ s \in Source
        /\ thread[h].seen \in Entry /\ thread[h].answer \in Number
    BY <1>4, <1>0 DEF SaveForThread, ThreadFits, ThreadState
  <2>2. /\ thread' = [thread EXCEPT ![h] = thread'[h]] /\ thread'[h] = Rest
        /\ ThreadFits(thread'[h])
    BY <1>0, <1>4, RestFits DEF SaveForThread, Released
  <2>3. /\ ThreadShape' /\ x \in Refresher
        /\ held[x] = [on |-> TRUE, source |-> s, seen |-> thread[h].seen.token,
                      answer |-> thread[h].answer]
        /\ held' = [held EXCEPT ![x] = NoRefresh]
    <3>1. req' = req BY <1>4 DEF SaveForThread, requests
    <3>2. HeldBy(thread'[h], thread'[h].source) = NoRefresh BY <2>2, RestFits
    <3> QED BY <1>s, <2>1, <2>2, <3>1, <3>2, ThreadChange DEF HeldBy
  <2>4. e \in Entry /\ e.token = thread[h].answer
    BY <2>1 DEF Refreshed, Entry
  <2>5. /\ PoolShape'
        /\ \/ token' = [token EXCEPT ![s] = thread[h].answer]
           \/ token' = token /\ token[s] # thread[h].seen.token
    <3> HIDE DEF e
    <3>1. CASE unchanged
      <4>1. Saved(s, e) BY <1>4, <3>1 DEF SaveForThread, e
      <4> QED BY <4>1, <2>1, <2>4, <1>s, SavedView
    <3>2. CASE ~unchanged
      <4>1. pool' = pool BY <1>4, <3>2 DEF SaveForThread
      <4>2. thread[h].seen.token # 0 BY <2>1 DEF Entry
      <4>3. token[s] # thread[h].seen.token BY <3>2, <2>1, <4>2 DEF Exists, token
      <4> QED BY <4>1, <4>3, <1>s, SamePool
    <3> QED BY <3>1, <3>2
  <2>6. ServerShape' /\ RequestShape' /\ UNCHANGED <<issued, live, orphaned>>
    BY <1>4, <1>s DEF SaveForThread, server, requests, ServerShape, RequestShape
  <2>7. Saves(x) BY <2>1, <2>3, <2>5, <2>6 DEF Saves
  <2> QED BY <2>3, <2>5, <2>6, <2>7 DEF ViewNext, Shape
<1>5. CASE RefreshFailsForThread(h)
  <2>1. /\ thread' = [thread EXCEPT ![h] = thread'[h]] /\ thread'[h] = Rest
        /\ ThreadFits(thread'[h]) /\ thread[h].phase = "refreshing"
    BY <1>0, <1>5, RestFits DEF RefreshFailsForThread, Released
  <2>2. /\ ThreadShape' /\ x \in Refresher
        /\ held[x] = [on |-> TRUE, source |-> thread[h].source, seen |-> thread[h].seen.token,
                      answer |-> thread[h].answer]
        /\ held' = [held EXCEPT ![x] = NoRefresh]
    <3>1. req' = req BY <1>5 DEF RefreshFailsForThread, requests
    <3>2. HeldBy(thread'[h], thread'[h].source) = NoRefresh BY <2>1, RestFits
    <3> QED BY <1>s, <2>1, <3>1, <3>2, ThreadChange DEF HeldBy
  <2>3. token' = token /\ PoolShape' /\ ServerShape' /\ RequestShape' /\ UNCHANGED <<issued, live>>
    BY <1>5, <1>s, SamePool
       DEF RefreshFailsForThread, server, requests, ServerShape, RequestShape
  <2>4. held' = [y \in Refresher |-> IF y \in {x} THEN NoRefresh ELSE held[y]]
    BY <2>2 DEF held
  <2>5. /\ orphaned \subseteq orphaned'
        /\ held[x].answer \notin {0, held[x].seen} => held[x].source \in orphaned'
    BY <1>5, <2>2 DEF RefreshFailsForThread, LostWith
  <2> HIDE DEF x
  <2>6. Drops({x}) BY <2>2, <2>3, <2>4, <2>5 DEF Drops
  <2>7. {x} \in SUBSET Refresher BY <2>2
  <2> QED BY <2>2, <2>3, <2>6, <2>7 DEF Shape, ViewNext
<1>6. CASE Authorize(h)
  <2>1. req' = req /\ thread' = thread BY <1>6 DEF Authorize, requests
  <2>2. held' = held /\ RequestShape' /\ ThreadShape'
    BY <2>1, <1>s DEF held, RequestShape, ThreadShape
  <2>3. PICK s \in job[h].todo :
          \/ /\ issued[s] < MaxTokens
             /\ issued' = [issued EXCEPT ![s] = @ + 1]
             /\ live'   = [live EXCEPT ![s] = @ \cup {issued'[s]}]
             /\ Saved(s, [token |-> issued'[s], fresh |-> TRUE])
             /\ orphaned' = orphaned \ {s}
          \/ UNCHANGED <<pool, server, orphaned>>
    BY <1>6 DEF Authorize
  <2>4. CASE UNCHANGED <<pool, server, orphaned>>
    BY <2>4, <2>1, SameView DEF server
  <2>5. CASE /\ issued[s] < MaxTokens
             /\ issued' = [issued EXCEPT ![s] = @ + 1]
             /\ live'   = [live EXCEPT ![s] = @ \cup {issued'[s]}]
             /\ Saved(s, [token |-> issued'[s], fresh |-> TRUE])
             /\ orphaned' = orphaned \ {s}
    <3>0. s \in Source BY DEF JobState
    <3>1. issued'[s] \in Number \ {0} /\ issued'[s] = issued[s] + 1
      BY <1>s, <2>5, <3>0, PoolAssumption DEF ServerShape, Number
    <3>2. ServerShape'
      BY <1>s, <2>5, <3>0, <3>1, PoolAssumption DEF ServerShape, Number
    <3>3. [token |-> issued'[s], fresh |-> TRUE] \in Entry BY <3>1 DEF Entry
    <3>4. PoolShape' /\ token' = [token EXCEPT ![s] = issued'[s]]
      BY <1>s, <2>5, <3>0, <3>3, SavedView
    <3>5. Grants(s) BY <2>2, <2>5, <3>4 DEF Grants
    <3> QED BY <2>2, <3>0, <3>2, <3>4, <3>5 DEF ViewNext, Shape
  <2> QED BY <2>3, <2>4, <2>5
<1> QED BY <1>1, <1>2, <1>3, <1>4, <1>5, <1>6 DEF ThreadStep

-----------------------------------------------------------------------------
\* The rest of the state, which the view does not tell of.
RestTyped ==
    /\ credential \in [Process -> SUBSET BuildRequest]
    /\ entryLock \in [Source -> SUBSET Thread]
    /\ job \in [Thread -> JobState] /\ stored \in [Thread -> JobState]
    /\ orphaned \subseteq Source
    /\ jobs \in Nat /\ changes \in Nat /\ crashes \in Nat

LEMMA TypeOfShape == Shape /\ RestTyped => PoolTypeOK
BY DEF Shape, PoolShape, ServerShape, RequestShape, ThreadShape, RestTyped, PoolTypeOK, Entries

LEMMA NoJobTyped == NoJob \in JobState
BY AnyoneRuns DEF NoJob, JobState

LEMMA TallyTyped ==
    ASSUME job \in [Thread -> JobState], NEW h \in Thread, NEW s,
           NEW outcome \in {"succeeded", "failed", "skipped"}, Tally(h, s, outcome)
    PROVE  job' \in [Thread -> JobState]
<1> DEFINE r    == job[h]
           left == r.todo \ {s}
           n    == [r EXCEPT !.todo = left, ![outcome] = r[outcome] + 1]
<1>1. /\ r \in JobState /\ left \in SUBSET Source
      /\ r.succeeded + 1 \in Nat /\ r.failed + 1 \in Nat /\ r.skipped + 1 \in Nat
  BY DEF JobState
<1>2. job' = [job EXCEPT ![h] = n]
  BY DEF Tally
<1> HIDE DEF r, left
<1>3. n \in JobState
  <2>1. CASE outcome = "succeeded"
    <3>1. [r EXCEPT !.todo = left, !.succeeded = r.succeeded + 1] \in JobState
      BY <1>1 DEF JobState
    <3> QED BY <2>1, <3>1
  <2>2. CASE outcome = "failed"
    <3>1. [r EXCEPT !.todo = left, !.failed = r.failed + 1] \in JobState
      BY <1>1 DEF JobState
    <3> QED BY <2>2, <3>1
  <2>3. CASE outcome = "skipped"
    <3>1. [r EXCEPT !.todo = left, !.skipped = r.skipped + 1] \in JobState
      BY <1>1 DEF JobState
    <3> QED BY <2>3, <3>1
  <2> QED BY <2>1, <2>2, <2>3
<1> HIDE DEF n
<1> QED BY <1>2, <1>3

\* What a request or a thread that refreshes may lose is its own entry's.
LEMMA LossOfEntry ==
    Shape => /\ \A r \in BuildRequest : req[r].phase = "refreshing"
                     => LostWith(req[r], req[r].target) \subseteq Source
             /\ \A h \in Thread : LostWith(thread[h], thread[h].source) \subseteq Source
BY DEF Shape, RequestShape, RequestFits, ThreadShape, ThreadState, LostWith

LEMMA RequestRest ==
    ASSUME Shape, RestTyped, NEW r \in BuildRequest, RequestStep(r)
    PROVE  RestTyped'
<1> USE DEF Shape, RestTyped, RequestShape, RequestState
<1>1. CASE LoadDue(r) BY <1>1 DEF LoadDue, server, threads, counters
<1>2. CASE SaveForRequest(r) BY <1>2 DEF SaveForRequest, Unlocked, server, threads, counters
<1>3. CASE RefreshFailsForRequest(r)
  BY <1>3, LossOfEntry DEF RefreshFailsForRequest, Unlocked, server, threads, counters
<1>4. CASE CallerGone(r)
  BY <1>4, LossOfEntry DEF CallerGone, Unlocked, server, threads, counters
<1>5. CASE LoadFresh(r) \/ NoCredential(r) \/ ExchangeForRequest(r) \/ Refused(r)
           \/ NextEntry(r) \/ StreamBegins(r) \/ Answered(r)
  BY <1>5 DEF LoadFresh, NoCredential, ExchangeForRequest, Refused, NextEntry, StreamBegins,
              Answered, server, threads, counters
<1> QED BY <1>1, <1>2, <1>3, <1>4, <1>5 DEF RequestStep

LEMMA ThreadRest ==
    ASSUME Shape, RestTyped, NEW h \in Thread, ThreadStep(h)
    PROVE  RestTyped'
<1>1. job' \in [Thread -> JobState]
  <2>1. CASE EntryMissing(h) BY <2>1, TallyTyped DEF EntryMissing, RestTyped
  <2>2. CASE SaveForThread(h) BY <2>2, TallyTyped DEF SaveForThread, RestTyped
  <2>3. CASE RefreshFailsForThread(h) BY <2>3, TallyTyped DEF RefreshFailsForThread, RestTyped
  <2>4. CASE Authorize(h) BY <2>4, TallyTyped DEF Authorize, RestTyped
  <2>5. CASE CompleteJob(h)
    <3>1. job' = [job EXCEPT ![h].status = "completed"] BY <2>5 DEF CompleteJob
    <3>2. job[h] \in JobState BY DEF RestTyped
    <3>3. [job[h] EXCEPT !.status = "completed"] \in JobState BY <3>2 DEF JobState
    <3> QED BY <3>1, <3>3 DEF RestTyped
  <2>6. CASE ReadEntry(h) \/ ExchangeForThread(h) \/ PersistJob(h)
    BY <2>6 DEF ReadEntry, ExchangeForThread, PersistJob, RestTyped
  <2> QED BY <2>1, <2>2, <2>3, <2>4, <2>5, <2>6 DEF ThreadStep
<1>2. entryLock' \in [Source -> SUBSET Thread] /\ orphaned' \subseteq Source
  <2>1. CASE RefreshFailsForThread(h)
    <3>1. orphaned' = orphaned \cup LostWith(thread[h], thread[h].source)
          /\ entryLock' = [entryLock EXCEPT ![thread[h].source] = {}]
      BY <2>1 DEF RefreshFailsForThread, Released
    <3> QED BY <3>1, LossOfEntry DEF RestTyped
  <2>2. CASE ReadEntry(h)
    <3>1. (\E s : entryLock' = [entryLock EXCEPT ![s] = {h}]) /\ orphaned' = orphaned
      BY <2>2 DEF ReadEntry
    <3> QED BY <3>1 DEF RestTyped
  <2>3. CASE SaveForThread(h) BY <2>3 DEF SaveForThread, Released, RestTyped
  <2>4. CASE Authorize(h) BY <2>4 DEF Authorize, RestTyped
  <2>5. CASE EntryMissing(h) \/ ExchangeForThread(h) \/ CompleteJob(h) \/ PersistJob(h)
    BY <2>5 DEF EntryMissing, ExchangeForThread, CompleteJob, PersistJob, RestTyped
  <2> QED BY <2>1, <2>2, <2>3, <2>4, <2>5 DEF ThreadStep
<1>3. stored' \in [Thread -> JobState] /\ UNCHANGED <<credential, counters>>
  BY DEF ThreadStep, EntryMissing, ReadEntry, ExchangeForThread, SaveForThread,
         RefreshFailsForThread, Authorize, CompleteJob, PersistJob, RestTyped, requests
<1> QED BY <1>1, <1>2, <1>3 DEF RestTyped, counters

-----------------------------------------------------------------------------
LEMMA SizeOfSources == \A S \in SUBSET Source : Cardinality(S) \in Nat
BY PoolAssumption, FS_Subset, FS_CardinalityType

LEMMA StartView ==
    ASSUME Shape, RestTyped, NEW r \in BuildRequest, NEW p \in Process, Start(r, p)
    PROVE  Shape' /\ ViewNext /\ RestTyped'
<1> DEFINE n == IF DOMAIN pool = {} THEN 1 ELSE Cardinality(DOMAIN pool)
           q == [Idle EXCEPT !.phase = "select", !.process = p, !.attempts = n]
<1>1. n \in Nat BY SizeOfSources DEF Shape, PoolShape
<1>2. req' = [req EXCEPT ![r] = q] /\ req[r].phase = "idle" BY DEF Start
<1> HIDE DEF n
<1>3. RequestFits(q) /\ q.phase = "select"
  <2>1. Anyone \in Process /\ 0 \in Number BY AnyoneRuns, PoolAssumption DEF Number
  <2>2. q \in RequestState BY <1>1, <2>1 DEF RequestState, Idle, ReqPhase
  <2>3. q.phase = "select" /\ q.answer = 0 /\ q.counted = 0 BY DEF Idle
  <2> HIDE DEF q
  <2> QED BY <2>2, <2>3 DEF RequestFits
<1> HIDE DEF q
<1>4. req'[r] = q /\ req' = [req EXCEPT ![r] = req'[r]]
  BY <1>2 DEF Shape, RequestShape
<1>5. UNCHANGED <<pool, issued, live, thread, orphaned>> BY DEF Start, server, threads
<1>6. Shape' /\ ViewNext BY <1>2, <1>3, <1>4, <1>5, RequestQuiet
<1>7. RestTyped' BY DEF Start, RestTyped, threads, counters
<1> QED BY <1>6, <1>7

LEMMA StartJobView ==
    ASSUME Shape, RestTyped, NEW h \in Thread, NEW kind \in {"convert", "refresh"},
           NEW S \in SUBSET Source, NEW p \in Process, StartJob(h, kind, S, p)
    PROVE  Shape' /\ ViewNext /\ RestTyped'
<1> DEFINE new == [NoJob EXCEPT !.status = "running", !.kind = kind, !.process = p,
                                !.todo = S, !.total = Cardinality(S)]
<1>1. new \in JobState BY SizeOfSources, NoJobTyped DEF JobState
<1>2. job' = [job EXCEPT ![h] = new] /\ stored' = [stored EXCEPT ![h] = new]
  BY DEF StartJob
<1> HIDE DEF new
<1>3. RestTyped' BY <1>1, <1>2 DEF StartJob, RestTyped, requests
<1>4. Shape' /\ ViewNext BY SameView DEF StartJob, server, requests
<1> QED BY <1>3, <1>4

LEMMA DeleteView ==
    ASSUME Shape, RestTyped, NEW S \in SUBSET Source, Delete(S)
    PROVE  Shape' /\ ViewNext /\ RestTyped'
<1>1. DOMAIN pool' = DOMAIN pool \ S /\ \A s \in DOMAIN pool' : pool'[s] = pool[s]
  BY DEF Delete, Removed
<1>2. PoolShape' BY <1>1 DEF Delete, Removed, Shape, PoolShape
<1>3. \A s \in Source : token'[s] \in {0, token[s]} BY <1>1 DEF token
<1>4. UNCHANGED <<issued, live, req, thread, orphaned>>
  BY DEF Delete, server, requests, threads
<1>5. ServerShape' /\ RequestShape' /\ ThreadShape' /\ held' = held
  BY <1>4 DEF Shape, ServerShape, RequestShape, ThreadShape, held
<1>6. Quiet BY <1>3, <1>4, <1>5 DEF Quiet
<1>7. RestTyped' BY DEF Delete, RestTyped, requests, threads
<1> QED BY <1>2, <1>5, <1>6, <1>7 DEF Shape, ViewNext

LEMMA AgeView ==
    ASSUME Shape, RestTyped, NEW s \in Source, Age(s)
    PROVE  Shape' /\ ViewNext /\ RestTyped'
<1> DEFINE e == [pool[s] EXCEPT !.fresh = FALSE]
<1>1. s \in DOMAIN pool /\ Saved(s, e) BY DEF Age
<1>2. e \in Entry /\ e.token = token[s] BY <1>1 DEF Shape, PoolShape, Entry, token
<1> HIDE DEF e
<1>3. PoolShape' /\ token' = [token EXCEPT ![s] = e.token] BY <1>1, <1>2, SavedView DEF Shape
<1>4. UNCHANGED <<issued, live, req, thread, orphaned>>
  BY DEF Age, server, requests, threads
<1>5. ServerShape' /\ RequestShape' /\ ThreadShape' /\ held' = held
  BY <1>4 DEF Shape, ServerShape, RequestShape, ThreadShape, held
<1>6. \A t \in Source : token'[t] = token[t] BY <1>2, <1>3 DEF token
<1>7. Quiet BY <1>4, <1>5, <1>6 DEF Quiet
<1>8. RestTyped' BY DEF Age, RestTyped, requests, threads
<1> QED BY <1>3, <1>5, <1>7, <1>8 DEF Shape, ViewNext

\* With a process its refreshers go, and what they have received.
LEMMA CrashView ==
    ASSUME Shape, RestTyped, NEW p \in Process, Crash(p)
    PROVE  Shape' /\ ViewNext /\ RestTyped'
<1> DEFINE mine  == {r \in BuildRequest : req[r].process = p /\ req[r].phase \notin {"idle", "done"}}
           hands == {h \in Thread : job[h].process = p /\ job[h].status = "running"}
           X     == ({"request"} \X mine) \cup ({"thread"} \X hands)
           gone  == [Idle EXCEPT !.phase = "gone"]
           lossOfRequests ==
               UNION {LostWith(req[r], req[r].target) : r \in {x \in mine : req[x].phase = "refreshing"}}
           lossOfThreads == UNION {LostWith(thread[h], thread[h].source) : h \in hands}
<1>1. /\ req' = [r \in BuildRequest |-> IF r \in mine THEN gone ELSE req[r]]
      /\ thread' = [h \in Thread |-> IF h \in hands THEN Rest ELSE thread[h]]
      /\ orphaned' = orphaned \cup lossOfRequests \cup lossOfThreads
      /\ UNCHANGED <<pool, issued, live>>
  BY DEF Crash, server
<1>2. mine \subseteq BuildRequest /\ hands \subseteq Thread OBVIOUS
<1>3. RestTyped'
  <2>1. credential' \in [Process -> SUBSET BuildRequest] BY DEF Crash, RestTyped
  <2>2. entryLock' \in [Source -> SUBSET Thread] BY DEF Crash, RestTyped
  <2>3. job' \in [Thread -> JobState] BY NoJobTyped DEF Crash, RestTyped
  <2>4. orphaned' \subseteq Source
    <3>1. lossOfRequests \subseteq Source
      <4>1. \A r \in {x \in mine : req[x].phase = "refreshing"} :
                LostWith(req[r], req[r].target) \subseteq Source
        BY <1>2, LossOfEntry
      <4> HIDE DEF mine
      <4> QED BY <4>1
    <3>2. lossOfThreads \subseteq Source
      <4>1. \A h \in hands : LostWith(thread[h], thread[h].source) \subseteq Source
        BY <1>2, LossOfEntry
      <4> HIDE DEF hands
      <4> QED BY <4>1
    <3>3. orphaned \subseteq Source BY DEF RestTyped
    <3> HIDE DEF lossOfRequests, lossOfThreads
    <3> QED BY <1>1, <3>1, <3>2, <3>3
  <2>5. stored' = stored /\ jobs' = jobs /\ changes' = changes /\ crashes' = crashes + 1
    BY DEF Crash
  <2> QED BY <2>1, <2>2, <2>3, <2>4, <2>5 DEF RestTyped
<1> HIDE DEF mine, hands
<1>4. RequestFits(gone) /\ gone.phase = "gone" BY IdleFits DEF Idle
<1> HIDE DEF gone
<1>5. RequestShape' BY <1>1, <1>4 DEF Shape, RequestShape, RequestFits
<1>6. ThreadShape' BY <1>1, RestFits DEF Shape, ThreadShape, ThreadFits
<1>7. PoolShape' /\ ServerShape' /\ token' = token
  BY <1>1, SamePool DEF Shape, ServerShape
<1>8. ASSUME NEW x \in Refresher
      PROVE  held'[x] = IF x \in X THEN NoRefresh ELSE held[x]
  <2>1. CASE x \in {"request"} \X BuildRequest
    <3>1. x = <<"request", x[2]>> /\ x[2] \in BuildRequest BY <2>1
    <3>2. held'[x] = HeldBy(req'[x[2]], req'[x[2]].target)
          /\ held[x] = HeldBy(req[x[2]], req[x[2]].target)
      BY <3>1 DEF held
    <3>3. x \in X <=> x[2] \in mine BY <3>1
    <3>4. x[2] \in mine => HeldBy(req'[x[2]], req'[x[2]].target) = NoRefresh
      BY <1>1, <1>4, <3>1 DEF HeldBy
    <3>5. x[2] \notin mine => req'[x[2]] = req[x[2]] BY <1>1, <3>1
    <3> QED BY <3>2, <3>3, <3>4, <3>5
  <2>2. CASE x \in {"thread"} \X Thread
    <3>1. x = <<"thread", x[2]>> /\ x[2] \in Thread BY <2>2
    <3>2. held'[x] = HeldBy(thread'[x[2]], thread'[x[2]].source)
          /\ held[x] = HeldBy(thread[x[2]], thread[x[2]].source)
      BY <3>1 DEF held
    <3>3. x \in X <=> x[2] \in hands BY <3>1
    <3>4. x[2] \in hands => HeldBy(thread'[x[2]], thread'[x[2]].source) = NoRefresh
      BY <1>1, <3>1, RestFits
    <3>5. x[2] \notin hands => thread'[x[2]] = thread[x[2]] BY <1>1, <3>1
    <3> QED BY <3>2, <3>3, <3>4, <3>5
  <2> QED BY <2>1, <2>2 DEF Refresher
<1>9. X \subseteq Refresher BY <1>2 DEF Refresher
<1>10. ASSUME NEW x \in X, held[x].on, held[x].answer \notin {0, held[x].seen}
       PROVE  held[x].source \in orphaned'
  <2>1. CASE x \in {"request"} \X mine
    <3>1. x[2] \in mine /\ held[x] = HeldBy(req[x[2]], req[x[2]].target)
      BY <2>1, <1>2, <1>9 DEF held
    <3>2. req[x[2]].phase = "refreshing" BY <1>10, <3>1 DEF HeldBy, NoRefresh
    <3>3. held[x].source \in LostWith(req[x[2]], req[x[2]].target)
      BY <1>10, <3>1, <3>2 DEF HeldBy, LostWith
    <3>4. held[x].source \in lossOfRequests BY <3>1, <3>2, <3>3
    <3> HIDE DEF lossOfRequests, lossOfThreads
    <3> QED BY <1>1, <3>4
  <2>2. CASE x \in {"thread"} \X hands
    <3>1. x[2] \in hands /\ held[x] = HeldBy(thread[x[2]], thread[x[2]].source)
      BY <2>2, <1>2, <1>9 DEF held
    <3>2. thread[x[2]].phase = "refreshing" BY <1>10, <3>1 DEF HeldBy, NoRefresh
    <3>3. held[x].source \in LostWith(thread[x[2]], thread[x[2]].source)
      BY <1>10, <3>1, <3>2 DEF HeldBy, LostWith
    <3>4. held[x].source \in lossOfThreads BY <3>1, <3>3
    <3> HIDE DEF lossOfRequests, lossOfThreads
    <3> QED BY <1>1, <3>4
  <2> QED BY <2>1, <2>2
<1> HIDE DEF X
<1>11. held' = [x \in Refresher |-> IF x \in X THEN NoRefresh ELSE held[x]]
  BY <1>8 DEF held
<1>12. Drops(X) BY <1>1, <1>7, <1>9, <1>10, <1>11 DEF Drops
<1> QED BY <1>3, <1>5, <1>6, <1>7, <1>9, <1>12 DEF Shape, ViewNext

\* Every step of the pool is one of the view's, and keeps the types.
LEMMA StepView == Shape /\ RestTyped /\ PoolNext => Shape' /\ ViewNext /\ RestTyped'
<1> SUFFICES ASSUME Shape, RestTyped, PoolNext PROVE Shape' /\ ViewNext /\ RestTyped' OBVIOUS
<1>1. ASSUME NEW r \in BuildRequest, RequestStep(r) PROVE Shape' /\ ViewNext /\ RestTyped'
  BY <1>1, RequestView, RequestRest
<1>2. ASSUME NEW h \in Thread, ThreadStep(h) PROVE Shape' /\ ViewNext /\ RestTyped'
  BY <1>2, ThreadView, ThreadRest DEF RestTyped
<1> QED BY <1>1, <1>2, StartView, StartJobView, DeleteView, AgeView, CrashView DEF PoolNext

LEMMA StutterView ==
    Shape /\ RestTyped /\ UNCHANGED poolVars => Shape' /\ ViewNext /\ RestTyped'
<1> SUFFICES ASSUME Shape, RestTyped, UNCHANGED poolVars
             PROVE  Shape' /\ ViewNext /\ RestTyped'
  OBVIOUS
<1>1. Shape' /\ ViewNext BY SameView DEF poolVars, server, requests, threads
<1>2. RestTyped' BY DEF poolVars, requests, threads, counters, RestTyped
<1> QED BY <1>1, <1>2

-----------------------------------------------------------------------------
LEMMA InitView ==
    ASSUME NEW S \in SUBSET Source, NEW R, InitWith(S, R)
    PROVE  Shape /\ View /\ RestTyped
<1> USE PoolAssumption DEF InitWith
<1>1. PoolShape BY DEF PoolShape, Entry, Number
<1>2. ServerShape BY DEF ServerShape, Number
<1>3. RequestShape
  <2> HIDE DEF Idle
  <2> DEFINE gone == [Idle EXCEPT !.phase = "gone"]
  <2>1. req = [r \in BuildRequest |-> IF r \in R THEN Idle ELSE gone] OBVIOUS
  <2>2. RequestFits(Idle) /\ RequestFits(gone) BY IdleFits
  <2> HIDE DEF gone
  <2> QED BY <2>1, <2>2 DEF RequestShape, RequestFits
<1>4. ThreadShape BY RestFits DEF ThreadShape, ThreadFits
<1>5. Shape BY <1>1, <1>2, <1>3, <1>4 DEF Shape
<1>6. RestTyped BY NoJobTyped DEF RestTyped
<1>7. \A x \in Refresher : ~held[x].on
  <2>1. \A r \in BuildRequest : req[r].phase # "refreshing" BY DEF Idle
  <2>2. \A h \in Thread : thread[h].phase # "refreshing" BY DEF Rest
  <2>3. \A x \in Refresher : held[x] = NoRefresh BY <2>1, <2>2 DEF held, HeldBy, Refresher
  <2> QED BY <2>3 DEF NoRefresh
<1>8. \A s \in Source : /\ token[s] = IF s \in S THEN 1 ELSE 0
                        /\ live[s] = IF s \in S THEN {1} ELSE {}
                        /\ issued[s] >= 1
  BY DEF token
<1>9. TokensIssued BY <1>7, <1>8, <1>2 DEF TokensIssued, ServerShape, Number
<1>10. AnswersLive /\ AnswersUnshared /\ SeenLive /\ FileLive
  BY <1>7, <1>8 DEF AnswersLive, AnswersUnshared, SeenLive, FileLive
<1> QED BY <1>5, <1>6, <1>9, <1>10 DEF View

-----------------------------------------------------------------------------
\* The state of the pool has its types: for every number of entries, processes,
\* requests and threads, and whatever the server answers.
LEMMA ShapeKept == PoolSpec => [](Shape /\ RestTyped)
<1>1. PoolInit => Shape /\ RestTyped
  <2>1. Source \in SUBSET Source OBVIOUS
  <2> QED BY <2>1, InitView DEF PoolInit
<1>2. Shape /\ RestTyped /\ [PoolNext]_poolVars => (Shape /\ RestTyped)'
  BY StepView, StutterView
<1> QED BY <1>1, <1>2, PTL DEF PoolSpec

THEOREM PoolTyped == PoolSpec => []PoolTypeOK
BY ShapeKept, TypeOfShape, PTL

\* CountedOnce: a request that got a credential and was answered is counted once in
\* the usage of its credential, and no request twice.
THEOREM CountedOnceHolds == PoolSpec => []CountedOnce
<1>1. Shape => CountedOnce
  BY DEF Shape, RequestShape, RequestFits, CountedOnce
<1> QED BY <1>1, ShapeKept, PTL

\* What the view says of the file is what StoredTokenLive says.
LEMMA FileOfView == Shape /\ FileLive => StoredTokenLive
<1> SUFFICES ASSUME Shape, FileLive, NEW s \in DOMAIN pool
             PROVE  \/ pool[s].token \in live[s]
                    \/ s \in orphaned
                    \/ \E r \in BuildRequest :
                          /\ req[r].phase = "refreshing" /\ req[r].target = s
                          /\ req[r].seen.token = pool[s].token /\ req[r].answer \in live[s]
                    \/ \E h \in Thread :
                          /\ thread[h].phase = "refreshing" /\ thread[h].source = s
                          /\ thread[h].seen.token = pool[s].token
                          /\ thread[h].answer \in live[s]
  BY DEF StoredTokenLive
<1>1. s \in Source /\ token[s] = pool[s].token /\ token[s] # 0
  BY DEF Shape, PoolShape, Entry, Number, token
<1>2. CASE \E x \in Refresher : /\ held[x].on /\ held[x].source = s
                                /\ held[x].seen = token[s] /\ held[x].answer \in live[s]
  <2>1. PICK x \in Refresher : /\ held[x].on /\ held[x].source = s
                               /\ held[x].seen = token[s] /\ held[x].answer \in live[s]
    BY <1>2
  <2>2. CASE x \in {"request"} \X BuildRequest
    <3>1. x[2] \in BuildRequest /\ held[x] = HeldBy(req[x[2]], req[x[2]].target)
      BY <2>2 DEF held, Refresher
    <3> QED BY <1>1, <2>1, <3>1 DEF HeldBy, NoRefresh
  <2>3. CASE x \in {"thread"} \X Thread
    <3>1. x[2] \in Thread /\ held[x] = HeldBy(thread[x[2]], thread[x[2]].source)
      BY <2>3 DEF held, Refresher
    <3> QED BY <1>1, <2>1, <3>1 DEF HeldBy, NoRefresh
  <2> QED BY <2>2, <2>3 DEF Refresher
<1> QED BY <1>1, <1>2 DEF FileLive

\* StoredTokenLive: with an authorization server that rotates its tokens, or with one
\* that keeps them, concurrent refreshes, authorisations, deletions and crashes leave
\* no dead token on file, unless its successor was lost with its receiver.
THEOREM StoredTokenLiveHolds == OneWay /\ PoolSpec => []StoredTokenLive
<1>1. PoolInit => Shape /\ RestTyped /\ View
  <2>1. Source \in SUBSET Source OBVIOUS
  <2> QED BY <2>1, InitView DEF PoolInit
<1>2. OneWay /\ Shape /\ RestTyped /\ View /\ [PoolNext]_poolVars => (Shape /\ RestTyped /\ View)'
  BY StepView, StutterView, ShapeOfView, ViewKept
<1>3. Shape /\ View => StoredTokenLive BY FileOfView DEF View
<1> SUFFICES ASSUME OneWay PROVE PoolSpec => []StoredTokenLive OBVIOUS
<1> QED BY <1>1, <1>2, <1>3, PTL DEF PoolSpec

-----------------------------------------------------------------------------
\* The only step that puts an entry where there was none is an authorisation.
LEMMA OnlyAuthorizeAdds ==
    Shape /\ RestTyped /\ PoolNext =>
        \A s \in DOMAIN pool' \ DOMAIN pool : pool'[s].token \notin 0..issued[s]
<1> SUFFICES ASSUME Shape, RestTyped, PoolNext, NEW s \in DOMAIN pool' \ DOMAIN pool
             PROVE  pool'[s].token \notin 0..issued[s]
  OBVIOUS
<1>1. \A t, e : Saved(t, e) => DOMAIN pool' = DOMAIN pool \cup {t} BY DEF Saved
<1>2. ASSUME NEW r \in BuildRequest, RequestStep(r) PROVE FALSE
  <2>1. CASE SaveForRequest(r) BY <2>1, <1>1 DEF SaveForRequest, MayPut, Exists
  <2>2. CASE ~SaveForRequest(r)
    BY <1>2, <2>2 DEF RequestStep, LoadFresh, NoCredential, LoadDue, ExchangeForRequest,
          RefreshFailsForRequest, Refused, NextEntry, StreamBegins, Answered, CallerGone
  <2> QED BY <2>1, <2>2
<1>3. ASSUME NEW h \in Thread, ThreadStep(h), ~Authorize(h) PROVE FALSE
  <2>1. CASE SaveForThread(h) BY <2>1, <1>1 DEF SaveForThread, Exists
  <2>2. CASE ~SaveForThread(h)
    BY <1>3, <2>2 DEF ThreadStep, EntryMissing, ReadEntry, ExchangeForThread,
          RefreshFailsForThread, CompleteJob, PersistJob
  <2> QED BY <2>1, <2>2
<1>4. ASSUME NEW h \in Thread, Authorize(h) PROVE pool'[s].token \notin 0..issued[s]
  <2>1. PICK t \in job[h].todo :
            \/ /\ issued' = [issued EXCEPT ![t] = @ + 1]
               /\ Saved(t, [token |-> issued'[t], fresh |-> TRUE])
            \/ pool' = pool
    BY <1>4 DEF Authorize
  <2>2. t \in Source BY DEF RestTyped, JobState
  <2>3. t = s /\ issued' = [issued EXCEPT ![t] = @ + 1]
        /\ Saved(t, [token |-> issued'[t], fresh |-> TRUE])
    <3>1. Saved(t, [token |-> issued'[t], fresh |-> TRUE])
              => DOMAIN pool' = DOMAIN pool \cup {t}
      BY <1>1
    <3> QED BY <2>1, <3>1
  <2>4. pool'[s].token = issued[s] + 1 /\ issued[s] \in Nat
    BY <2>2, <2>3 DEF Saved, Shape, ServerShape, Number
  <2> QED BY <2>4
<1>5. ASSUME NEW S, Delete(S) PROVE FALSE BY <1>5 DEF Delete, Removed
<1>6. ASSUME NEW t, Age(t) PROVE FALSE BY <1>6, <1>1 DEF Age
<1>7. ASSUME pool' = pool PROVE FALSE BY <1>7
<1> QED BY <1>2, <1>3, <1>4, <1>5, <1>6, <1>7 DEF PoolNext, Start, StartJob, Crash

\* DeletedStaysDeleted: a refresh that was under way when its entry was deleted does
\* not bring the entry back; only a grant, with a token never issued before, does.
THEOREM DeletedStaysDeletedHolds == PoolSpec => DeletedStaysDeleted
<1>1. (Shape /\ RestTyped) /\ [PoolNext]_poolVars
        => [\A s \in DOMAIN pool' \ DOMAIN pool : pool'[s].token \notin 0..issued[s]]_poolVars
  BY OnlyAuthorizeAdds
<1> QED BY <1>1, ShapeKept, PTL DEF PoolSpec, DeletedStaysDeleted

-----------------------------------------------------------------------------
(*****************************************************************************)
(* The usage writer. FlushedIsWritten: idle means that nothing is queued or  *)
(* being written, and nothing that was accepted ever leaves but to SQLite or *)
(* as lost.                                                                  *)
(*****************************************************************************)

SequencesTyped == queue \in Seq(Event) /\ writing \in Seq(Event)

FlusherTyped ==
    flusher \in [Flusher -> [phase : {"idle", "waiting", "returned"},
                             accepted : SUBSET Event]]

EventsTyped == written \subseteq Event /\ lost \subseteq Event

\* The idle event is set only while nothing is on its way.
IdleIsQuiet == idle => queue = <<>> /\ writing = <<>>

\* What a waiting caller has seen accepted is accounted for.
WaitedForIsAccepted ==
    \A f \in Flusher : flusher[f].phase = "waiting" => flusher[f].accepted \subseteq Accepted

IInv == /\ SequencesTyped /\ FlusherTyped /\ EventsTyped
        /\ IdleIsQuiet /\ WaitedForIsAccepted /\ FlushedIsWritten

-----------------------------------------------------------------------------
LEMMA ToSetEmpty == ToSet(<<>>) = {}
BY DEF ToSet

\* What is appended joins what is there.
LEMMA ToSetAppend ==
    ASSUME NEW S, NEW s \in Seq(S), NEW e \in S
    PROVE  Append(s, e) \in Seq(S) /\ ToSet(s) \subseteq ToSet(Append(s, e))
<1>1. \A i \in DOMAIN s : i \in DOMAIN Append(s, e) /\ Append(s, e)[i] = s[i] OBVIOUS
<1> QED BY <1>1 DEF ToSet

\* A sequence that is cut in two loses nothing.
LEMMA ToSetCut ==
    ASSUME NEW S, NEW s \in Seq(S), NEW n \in 0..Len(s)
    PROVE  /\ SubSeq(s, 1, n) \in Seq(S) /\ SubSeq(s, n + 1, Len(s)) \in Seq(S)
           /\ ToSet(s) = ToSet(SubSeq(s, 1, n)) \cup ToSet(SubSeq(s, n + 1, Len(s)))
<1> DEFINE a == SubSeq(s, 1, n)
           b == SubSeq(s, n + 1, Len(s))
<1>1. /\ a \in Seq(S) /\ Len(a) = n /\ \A i \in 1..n : a[i] = s[i]
      /\ b \in Seq(S) /\ Len(b) = Len(s) - n /\ \A i \in 1..(Len(s) - n) : b[i] = s[n + i]
  OBVIOUS
<1> HIDE DEF a, b
<1>2. DOMAIN a = 1..n /\ DOMAIN b = 1..(Len(s) - n) /\ DOMAIN s = 1..Len(s)
  BY <1>1
<1>3. ASSUME NEW i \in DOMAIN s PROVE s[i] \in ToSet(a) \cup ToSet(b)
  <2>1. CASE i <= n BY <1>1, <1>2, <2>1 DEF ToSet
  <2>2. CASE i > n
    <3>1. i - n \in 1..(Len(s) - n) /\ b[i - n] = s[i] BY <1>1, <1>2, <2>2
    <3> QED BY <1>2, <3>1 DEF ToSet
  <2> QED BY <1>2, <2>1, <2>2
<1>4. ASSUME NEW i \in DOMAIN a PROVE a[i] \in ToSet(s)
  BY <1>1, <1>2 DEF ToSet
<1>5. ASSUME NEW i \in DOMAIN b PROVE b[i] \in ToSet(s)
  <2>1. n + i \in DOMAIN s /\ b[i] = s[n + i] BY <1>1, <1>2
  <2> QED BY <2>1 DEF ToSet
<1>6. ToSet(s) \subseteq ToSet(a) \cup ToSet(b) BY <1>3 DEF ToSet
<1>7. ToSet(a) \subseteq ToSet(s) BY <1>4 DEF ToSet
<1>8. ToSet(b) \subseteq ToSet(s) BY <1>5 DEF ToSet
<1> QED BY <1>1, <1>6, <1>7, <1>8 DEF a, b

LEMMA ToSetTyped == ASSUME NEW S, NEW s \in Seq(S) PROVE ToSet(s) \subseteq S
BY DEF ToSet

LEMMA InitHolds == WriterInit => IInv
BY DEF WriterInit, IInv, SequencesTyped, FlusherTyped, EventsTyped, IdleIsQuiet,
    WaitedForIsAccepted, FlushedIsWritten

\* A step that leaves the callers and what is written alone keeps the invariant if
\* nothing that was accepted is forgotten.
LEMMA Forgetless ==
    ASSUME IInv, SequencesTyped', EventsTyped', IdleIsQuiet', UNCHANGED flusher,
           Accepted \subseteq Accepted', written \cup lost \subseteq written' \cup lost'
    PROVE  IInv'
<1>1. FlusherTyped' BY DEF IInv, FlusherTyped
<1>2. WaitedForIsAccepted' BY DEF IInv, WaitedForIsAccepted
<1>3. FlushedIsWritten' BY DEF IInv, FlushedIsWritten
<1> QED BY <1>1, <1>2, <1>3 DEF IInv

LEMMA StepHolds == ASSUME IInv, WriterNext PROVE IInv'
<1>1. ASSUME NEW e \in Event, Publish(e) PROVE IInv'
  <2>1. CASE queue' = Append(queue, e) /\ idle' = FALSE
    <3>1. queue' \in Seq(Event) /\ ToSet(queue) \subseteq ToSet(queue')
      BY <2>1, ToSetAppend DEF IInv, SequencesTyped
    <3>2. SequencesTyped' /\ EventsTyped' /\ IdleIsQuiet'
      BY <1>1, <2>1, <3>1 DEF Publish, IInv, SequencesTyped, EventsTyped, IdleIsQuiet
    <3>3. UNCHANGED <<writing, written, lost, flusher>> BY <1>1 DEF Publish
    <3>4. Accepted \subseteq Accepted' BY <3>1, <3>3 DEF Accepted
    <3> QED BY <3>2, <3>3, <3>4, Forgetless
  <2>2. CASE UNCHANGED <<queue, idle>>
    <3>1. UNCHANGED <<queue, idle, writing, written, lost, flusher>> BY <1>1, <2>2 DEF Publish
    <3>2. SequencesTyped' /\ EventsTyped' /\ IdleIsQuiet'
      BY <3>1 DEF IInv, SequencesTyped, EventsTyped, IdleIsQuiet
    <3>3. Accepted \subseteq Accepted' BY <3>1 DEF Accepted
    <3> QED BY <3>1, <3>2, <3>3, Forgetless
  <2> QED BY <1>1, <2>1, <2>2 DEF Publish
<1>2. CASE TakeBatch
  <2> DEFINE n == IF Len(queue) < BatchSize THEN Len(queue) ELSE BatchSize
  <2>1. queue \in Seq(Event) BY DEF IInv, SequencesTyped
  <2>2. n \in 0..Len(queue) BY <2>1, WriterAssumption DEF WriterAssumption
  <2>3. /\ writing' = SubSeq(queue, 1, n) /\ queue' = SubSeq(queue, n + 1, Len(queue))
        /\ writing = <<>> /\ ~idle /\ UNCHANGED <<idle, written, lost, flusher>>
    BY <1>2 DEF TakeBatch, IInv, IdleIsQuiet
  <2> HIDE DEF n
  <2>4. /\ writing' \in Seq(Event) /\ queue' \in Seq(Event)
        /\ ToSet(queue) = ToSet(writing') \cup ToSet(queue')
    BY <2>1, <2>2, <2>3, ToSetCut
  <2>5. SequencesTyped' /\ EventsTyped' /\ IdleIsQuiet'
    BY <2>3, <2>4 DEF IInv, SequencesTyped, EventsTyped, IdleIsQuiet
  <2>6. Accepted \subseteq Accepted' BY <2>3, <2>4, ToSetEmpty DEF Accepted
  <2> QED BY <2>3, <2>5, <2>6, Forgetless
<1>3. CASE Leaves
  <2>1. UNCHANGED <<queue, idle, writing, written, lost, flusher>> BY <1>3 DEF Leaves
  <2>2. SequencesTyped' /\ EventsTyped' /\ IdleIsQuiet'
    BY <2>1 DEF IInv, SequencesTyped, EventsTyped, IdleIsQuiet
  <2>3. Accepted \subseteq Accepted' BY <2>1 DEF Accepted
  <2> QED BY <2>1, <2>2, <2>3, Forgetless
<1>4. ASSUME NEW ok \in BOOLEAN, EndWrite(ok) PROVE IInv'
  <2>1. writing' = <<>> /\ UNCHANGED queue BY <1>4 DEF EndWrite
  <2>2. written' \cup lost' = written \cup lost \cup ToSet(writing) BY <1>4 DEF EndWrite
  <2>3. SequencesTyped' BY <2>1 DEF IInv, SequencesTyped
  <2>4. EventsTyped'
    BY <2>2, ToSetTyped DEF IInv, SequencesTyped, EventsTyped
  <2>5. Accepted' = Accepted BY <2>1, <2>2, ToSetEmpty DEF Accepted
  <2>6. CASE queue = <<>> /\ idle' = TRUE /\ flusher' = Returned
    <3>1. \A f \in Flusher :
             /\ flusher'[f].accepted = flusher[f].accepted
             /\ flusher'[f].phase = IF flusher[f].phase = "waiting" THEN "returned"
                                    ELSE flusher[f].phase
      BY <2>6 DEF Returned, IInv, FlusherTyped
    <3>2. FlusherTyped'
      <4>1. \A f \in Flusher : flusher[f] \in [phase : {"idle", "waiting", "returned"},
                                              accepted : SUBSET Event]
        BY DEF IInv, FlusherTyped
      <4> QED BY <2>6, <4>1 DEF Returned, FlusherTyped
    <3>3. IdleIsQuiet' BY <2>1, <2>6 DEF IdleIsQuiet
    <3>4. WaitedForIsAccepted' BY <3>1 DEF WaitedForIsAccepted
    <3>5. Accepted = written' \cup lost' BY <2>2, <2>6, ToSetEmpty DEF Accepted
    <3>6. FlushedIsWritten'
      BY <2>2, <3>1, <3>5 DEF IInv, WaitedForIsAccepted, FlushedIsWritten
    <3> QED BY <2>3, <2>4, <3>2, <3>3, <3>4, <3>6 DEF IInv
  <2>7. CASE UNCHANGED <<idle, flusher>>
    <3>1. IdleIsQuiet' BY <2>1, <2>7 DEF IInv, IdleIsQuiet
    <3> QED BY <2>2, <2>3, <2>4, <2>5, <2>7, <3>1, Forgetless
  <2> QED BY <1>4, <2>6, <2>7 DEF EndWrite, IdleAfter
<1>5. ASSUME NEW g \in Flusher, Flush(g) PROVE IInv'
  <2> DEFINE seen == [phase |-> IF idle THEN "returned" ELSE "waiting", accepted |-> Accepted]
  <2>1. flusher' = [flusher EXCEPT ![g] = seen]
          /\ UNCHANGED <<queue, writing, idle, written, lost>>
    BY <1>5 DEF Flush
  <2>2. Accepted \subseteq Event
    BY ToSetTyped DEF Accepted, IInv, SequencesTyped, EventsTyped
  <2>3. Accepted' = Accepted BY <2>1 DEF Accepted
  <2>4. FlusherTyped' BY <2>1, <2>2 DEF IInv, FlusherTyped
  <2>5. SequencesTyped' /\ EventsTyped' /\ IdleIsQuiet'
    BY <2>1 DEF IInv, SequencesTyped, EventsTyped, IdleIsQuiet
  <2>6. \A f \in Flusher : flusher'[f] = IF f = g THEN seen ELSE flusher[f]
    BY <2>1 DEF IInv, FlusherTyped
  <2>7. WaitedForIsAccepted'
    BY <2>3, <2>6 DEF IInv, WaitedForIsAccepted
  <2>8. idle => Accepted = written \cup lost
    BY ToSetEmpty DEF IInv, IdleIsQuiet, Accepted
  <2>9. FlushedIsWritten' BY <2>1, <2>6, <2>8 DEF IInv, FlushedIsWritten
  <2> QED BY <2>4, <2>5, <2>7, <2>9 DEF IInv
<1>6. ASSUME NEW flush \in BOOLEAN, Stop(flush) PROVE IInv'
  <2>1. UNCHANGED <<writing, idle, written, flusher>> BY <1>6 DEF Stop
  <2>2. CASE UNCHANGED <<queue, lost>>
    <3>1. SequencesTyped' /\ EventsTyped' /\ IdleIsQuiet'
      BY <2>1, <2>2 DEF IInv, SequencesTyped, EventsTyped, IdleIsQuiet
    <3>2. Accepted \subseteq Accepted' BY <2>1, <2>2 DEF Accepted
    <3> QED BY <2>1, <2>2, <3>1, <3>2, Forgetless
  <2>3. CASE queue' = <<>> /\ lost' = lost \cup ToSet(queue)
    <3>1. SequencesTyped' /\ IdleIsQuiet'
      BY <2>1, <2>3 DEF IInv, SequencesTyped, IdleIsQuiet
    <3>2. EventsTyped'
      BY <2>1, <2>3, ToSetTyped DEF IInv, SequencesTyped, EventsTyped
    <3>3. Accepted \subseteq Accepted' BY <2>1, <2>3 DEF Accepted
    <3> QED BY <2>1, <2>3, <3>1, <3>2, <3>3, Forgetless
  <2> QED BY <1>6, <2>2, <2>3 DEF Stop
<1> QED BY <1>1, <1>2, <1>3, <1>4, <1>5, <1>6 DEF WriterNext

LEMMA InvHolds == WriterSpec => []IInv
<1>1. IInv /\ UNCHANGED writerVars => IInv'
  BY DEF IInv, writerVars, SequencesTyped, FlusherTyped, EventsTyped, IdleIsQuiet,
      WaitedForIsAccepted, FlushedIsWritten, Accepted
<1> QED BY <1>1, InitHolds, StepHolds, PTL DEF WriterSpec

\* flush (grok_build_usage.py) returns only when every event that publish accepted
\* before it is in SQLite, or was lost to a failed write or a stop without a flush,
\* for any number of events, callers, and any queue and batch sizes.
THEOREM FlushIsHonest == WriterSpec => []FlushedIsWritten
BY InvHolds, PTL DEF IInv
=============================================================================
