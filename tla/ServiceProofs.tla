---------------------------- MODULE ServiceProofs ----------------------------
(*****************************************************************************)
(* TLAPS proofs about SignupRound, Workers, MediaCache and Availability,     *)
(* for any workers, addresses, accounts, pages, files, sources and bounds.   *)
(*                                                                           *)
(* An address that was given out is reserved, or the mail service never      *)
(* makes it up again; and a worker process begins each round with no token   *)
(* in its browser, so that the only one it can find is of the account this   *)
(* round created.                                                            *)
(*                                                                           *)
(* A copy of the configuration that has the backend's version has its        *)
(* data; only the one that holds the file lock leads; and a worker that      *)
(* copies the old accounts file has put into the new backend every page      *)
(* that is behind it.                                                        *)
(*                                                                           *)
(* What the cache's index does not count is known while an operation holds   *)
(* the lock (Counted). A source that cools down has a date, and no date is   *)
(* as late as none.                                                          *)
(*****************************************************************************)
EXTENDS SignupRound, Workers, MediaCache, Availability, FiniteSetTheorems,
        TLAPS

-----------------------------------------------------------------------------
(*****************************************************************************)
(* The rounds of the registration workers.                                   *)
(*****************************************************************************)

Rounds == [pc : {"down", "opening", "choosing", "creating", "submitting", "fetching",
                 "typing", "clicked", "profile", "waiting", "signin", "again", "between"},
           offered : SUBSET Address, unused : SUBSET Address,
           address : Address \cup {NoAddress}, code : Nat]

StepTyped == step \in [Worker -> Rounds]
SiteTyped == /\ account \in [Address -> {"none", "unverified", "verified", "created"}]
             /\ codes \in [Address -> Nat]
             /\ jar \in [Worker -> SUBSET Address] /\ page \in [Worker -> Page]
MailTyped == /\ used \in [Address -> Nat] /\ reserved \subseteq Address
             /\ results \subseteq Address \X Address

\* Before a round has an address.
Early == {"opening", "choosing", "creating"}

\* After its mail has come.
Later == {"submitting", "fetching", "typing", "clicked", "profile", "waiting", "signin",
          "again"}

HasAddress == \A w \in Worker : step[w].pc \in Later => step[w].address \in Address

\* An address that was given out stays reserved.
UsedIsReserved ==
    \A a \in Address : used[a] <= 1 /\ (provider = "hotmail" /\ used[a] = 1 => a \in reserved)

\* Aliases are made up of Hotmail addresses only.
AliasesOfHotmail == \A w \in Worker : step[w].pc = "creating" => provider = "hotmail"

\* The tokens a worker process can find are of its own round.
OwnTokens ==
    profile = "process" =>
        \A w \in Worker :
            /\ step[w].pc \in Early => jar[w] = {}
            /\ step[w].pc \in Later => jar[w] \subseteq {step[w].address}
            /\ \A a \in jar[w] : account[a] = "created"

IInv == /\ StepTyped /\ SiteTyped /\ MailTyped /\ HasAddress
        /\ AliasesOfHotmail /\ UsedIsReserved /\ OwnTokens /\ RoundsApart

-----------------------------------------------------------------------------
LEMMA IdleTyped == Idle \in Rounds
BY DEF Idle, Rounds

LEMMA InitHolds == RoundInit => IInv
<1> SUFFICES ASSUME RoundInit PROVE IInv OBVIOUS
<1>1. StepTyped BY IdleTyped DEF RoundInit, StepTyped
<1>2. \A w \in Worker : step[w].pc = "down" BY DEF RoundInit, Idle
<1>3. SiteTyped /\ MailTyped BY DEF RoundInit, SiteTyped, MailTyped, Page
<1>4. HasAddress /\ AliasesOfHotmail BY <1>2 DEF HasAddress, AliasesOfHotmail, Later
<1>5. UsedIsReserved BY DEF RoundInit, UsedIsReserved
<1>6. OwnTokens BY <1>2 DEF RoundInit, OwnTokens, Early, Later
<1>7. RoundsApart BY <1>2 DEF RoundInit, RoundsApart
<1> QED BY <1>1, <1>3, <1>4, <1>5, <1>6, <1>7 DEF IInv

\* A round moves on within itself, and may take a code that was sent.
LEMMA Moves ==
    ASSUME IInv, NEW w \in Worker, NEW r \in Rounds, NEW p \in Page,
           step' = [step EXCEPT ![w] = r], page' \in {page, [page EXCEPT ![w] = p]},
           UNCHANGED <<provider, profile, jar, mail, site, results>>,
           \/ r.pc \in {"down", "between"}
           \/ r.pc \in Early /\ step[w].pc \in Early
           \/ r.pc \in Later /\ step[w].pc \in Later /\ r.address = step[w].address,
           r.pc = "creating" => provider = "hotmail",
           r.pc \in {"typing", "clicked"} => r.code > 0 \/ profile # "process"
    PROVE  IInv'
<1>1. StepTyped' BY DEF IInv, StepTyped
<1>2. SiteTyped' /\ MailTyped' BY DEF IInv, SiteTyped, MailTyped, mail, site
<1>3. \A v \in Worker : step'[v] = IF v = w THEN r ELSE step[v] BY DEF IInv, StepTyped
<1>4. HasAddress' /\ AliasesOfHotmail'
  BY <1>3 DEF IInv, HasAddress, AliasesOfHotmail, Early, Later
<1>5. UsedIsReserved' BY DEF IInv, UsedIsReserved, mail
<1>6. OwnTokens' BY <1>3 DEF IInv, OwnTokens, Early, Later, site
<1>7. RoundsApart' BY <1>3 DEF IInv, RoundsApart, site
<1> QED BY <1>1, <1>2, <1>4, <1>5, <1>6, <1>7 DEF IInv

\* A worker begins a round, with the tokens its browser has kept; those of a process
\* are cleared.
LEMMA BeginHolds ==
    ASSUME IInv, NEW w \in Worker, NEW kept \in {{}, jar[w]}, Begin(w),
           jar' = [jar EXCEPT ![w] = kept], profile = "process" => kept = {},
           UNCHANGED <<provider, profile, mail, site, results>>
    PROVE  IInv'
<1> DEFINE r == [Idle EXCEPT !.pc = "opening"]
<1>1. r \in Rounds /\ r.pc = "opening" BY IdleTyped DEF Rounds
<1>2. step' = [step EXCEPT ![w] = r] /\ page' = [page EXCEPT ![w] = "other"]
  BY DEF Begin, Shows
<1> HIDE DEF r
<1>3. StepTyped' BY <1>1, <1>2 DEF IInv, StepTyped
<1>4. SiteTyped' /\ MailTyped'
  BY <1>2 DEF IInv, SiteTyped, MailTyped, mail, site, Page
<1>5. \A v \in Worker : step'[v] = IF v = w THEN r ELSE step[v]
  BY <1>2 DEF IInv, StepTyped
<1>6. HasAddress' /\ AliasesOfHotmail'
  BY <1>1, <1>5 DEF IInv, HasAddress, AliasesOfHotmail, Later
<1>7. UsedIsReserved' BY DEF IInv, UsedIsReserved, mail
<1>8. \A v \in Worker : jar'[v] = IF v = w THEN kept ELSE jar[v] BY DEF IInv, SiteTyped
<1>9. OwnTokens' BY <1>1, <1>5, <1>8 DEF IInv, OwnTokens, Early, Later, site
<1>10. RoundsApart' BY <1>1, <1>5 DEF IInv, RoundsApart, site
<1> QED BY <1>3, <1>4, <1>6, <1>7, <1>9, <1>10 DEF IInv

\* A round takes an address that has not been given out.
LEMMA TakesHolds ==
    ASSUME IInv, NEW w \in Worker, NEW r \in Rounds, NEW a \in Address,
           step' = [step EXCEPT ![w] = r], r.pc = "submitting", r.address = a,
           step[w].pc \in Early, used[a] = 0, used' = [used EXCEPT ![a] = @ + 1],
           reserved \subseteq reserved', reserved' \subseteq Address,
           provider = "hotmail" => a \in reserved',
           UNCHANGED <<provider, profile, page, jar, site, results>>
    PROVE  IInv'
<1>1. StepTyped' BY DEF IInv, StepTyped
<1>2. SiteTyped' /\ MailTyped' BY DEF IInv, SiteTyped, MailTyped, site
<1>3. \A v \in Worker : step'[v] = IF v = w THEN r ELSE step[v] BY DEF IInv, StepTyped
<1>4. HasAddress' /\ AliasesOfHotmail' BY <1>3 DEF IInv, HasAddress, AliasesOfHotmail
<1>5. \A b \in Address : used'[b] = IF b = a THEN 1 ELSE used[b] BY DEF IInv, MailTyped
<1>6. UsedIsReserved' BY <1>5 DEF IInv, UsedIsReserved
<1>7. OwnTokens' BY <1>3 DEF IInv, OwnTokens, Early, Later, site
<1>8. RoundsApart' BY <1>3 DEF IInv, RoundsApart, site
<1> QED BY <1>1, <1>2, <1>4, <1>6, <1>7, <1>8 DEF IInv

\* The site does something for the address of a round: no account it has created
\* is ever undone.
LEMMA SiteHolds ==
    ASSUME IInv, NEW w \in Worker, NEW pc \in Later, NEW p \in Page,
           step' = [step EXCEPT ![w].pc = pc], step[w].pc \in Later,
           page' \in {page, [page EXCEPT ![w] = p]},
           account' \in [Address -> {"none", "unverified", "verified", "created"}],
           \A a \in Address : account[a] = "created" => account'[a] = "created",
           codes' \in [Address -> Nat],
           UNCHANGED <<provider, profile, jar, mail, results>>,
           pc \in {"typing", "clicked"} => step[w].pc \in {"typing", "clicked"}
    PROVE  IInv'
<1> DEFINE r == [step[w] EXCEPT !.pc = pc]
<1>0. step[w] \in Rounds BY DEF IInv, StepTyped
<1>1. r \in Rounds /\ r.pc = pc /\ r.address = step[w].address /\ r.code = step[w].code
  BY <1>0 DEF Rounds, Later
<1>2. step' = [step EXCEPT ![w] = r] OBVIOUS
<1> HIDE DEF r
<1>3. StepTyped' BY <1>1, <1>2 DEF IInv, StepTyped
<1>4. SiteTyped' /\ MailTyped' BY DEF IInv, SiteTyped, MailTyped, mail
<1>5. \A v \in Worker : step'[v] = IF v = w THEN r ELSE step[v]
  BY <1>2 DEF IInv, StepTyped
<1>6. HasAddress' /\ AliasesOfHotmail'
  BY <1>1, <1>5 DEF IInv, HasAddress, AliasesOfHotmail, Later
<1>7. UsedIsReserved' BY DEF IInv, UsedIsReserved, mail
<1>8. OwnTokens'
  BY <1>1, <1>5 DEF IInv, OwnTokens, SiteTyped, Early, Later
<1>9. ASSUME profile' = "process" PROVE \A q \in results' : q[1] = q[2] /\ account'[q[1]] = "created"
  <2>1. \A q \in results : q[1] = q[2] /\ account[q[1]] = "created"
    BY <1>9 DEF IInv, RoundsApart
  <2> QED BY <2>1 DEF IInv, SiteTyped, MailTyped
<1>10. RoundsApart' BY <1>1, <1>5, <1>9 DEF IInv, RoundsApart
<1> QED BY <1>3, <1>4, <1>6, <1>7, <1>8, <1>10 DEF IInv

\* A token appears in the browser of a round whose account has been created.
LEMMA TokenComesHolds ==
    ASSUME IInv, NEW w \in Worker, TokenComes(w) PROVE IInv'
<1> DEFINE a == step[w].address
<1>1. /\ step[w].pc \in Later /\ account[a] = "created"
      /\ jar' = [jar EXCEPT ![w] = @ \cup {a}]
      /\ UNCHANGED <<provider, profile, step, page, used, reserved, account, codes, results>>
  BY DEF TokenComes, Mine, Later, mail, site
<1>2. a \in Address BY <1>1 DEF IInv, HasAddress
<1>3. jar[w] \cup {a} \in SUBSET Address BY <1>2 DEF IInv, SiteTyped
<1> HIDE DEF a
<1>4. StepTyped' /\ SiteTyped' /\ MailTyped' /\ HasAddress' /\ AliasesOfHotmail'
  BY <1>1, <1>3 DEF IInv, StepTyped, SiteTyped, MailTyped, HasAddress, AliasesOfHotmail
<1>5. \A v \in Worker : jar'[v] = IF v = w THEN jar[w] \cup {a} ELSE jar[v]
  BY <1>1 DEF IInv, SiteTyped
<1>6. OwnTokens' BY <1>1, <1>5 DEF IInv, OwnTokens, Early, Later, a
<1>7. UsedIsReserved' /\ RoundsApart' BY <1>1 DEF IInv, UsedIsReserved, RoundsApart
<1> QED BY <1>4, <1>6, <1>7 DEF IInv

\* The token that is taken is the round's own.
LEMMA TakeTokenHolds ==
    ASSUME IInv, NEW w \in Worker, TakeToken(w) PROVE IInv'
<1> DEFINE r == [step[w] EXCEPT !.pc = "between"]
<1>1. PICK a \in jar[w] : results' = results \cup {<<step[w].address, a>>}
  BY DEF TakeToken, Mine
<1>2. /\ step[w].pc \in Later /\ step' = [step EXCEPT ![w] = r]
      /\ UNCHANGED <<provider, profile, page, jar, used, reserved, account, codes>>
  BY DEF TakeToken, Goes, Later, mail, site
<1>3. step[w] \in Rounds /\ a \in Address BY DEF IInv, StepTyped, SiteTyped
<1>4. r \in Rounds /\ r.pc = "between" BY <1>3 DEF Rounds
<1>5. step[w].address \in Address BY <1>2 DEF IInv, HasAddress
<1> HIDE DEF r
<1>6. StepTyped' /\ SiteTyped' /\ MailTyped'
  BY <1>1, <1>2, <1>3, <1>4, <1>5 DEF IInv, StepTyped, SiteTyped, MailTyped
<1>7. \A v \in Worker : step'[v] = IF v = w THEN r ELSE step[v]
  BY <1>2 DEF IInv, StepTyped
<1>8. HasAddress' /\ AliasesOfHotmail' /\ UsedIsReserved' /\ OwnTokens'
  BY <1>2, <1>4, <1>7
     DEF IInv, HasAddress, AliasesOfHotmail, UsedIsReserved, OwnTokens, Early, Later
<1>9. profile = "process" => a = step[w].address /\ account[a] = "created"
  BY <1>2 DEF IInv, OwnTokens
<1>10. RoundsApart' BY <1>1, <1>2, <1>4, <1>7, <1>9 DEF IInv, RoundsApart
<1> QED BY <1>6, <1>8, <1>10 DEF IInv

-----------------------------------------------------------------------------
LEMMA StepHolds == ASSUME IInv, NEW w \in Worker PROVE
    /\ StartBatch(w) \/ NextRound(w) => IInv'
    /\ Ends(w) \/ Fails(w) \/ BrowserRestarts(w) \/ OpenSignup(w) => IInv'
    /\ TakeTemporary(w) \/ CountAliases(w) \/ CreateAlias(w) => IInv'
    /\ Submit(w) \/ FetchCode(w) \/ TypeCode(w) \/ PageMoves(w) => IInv'
    /\ Confirmed(w) \/ TypeAgain(w) \/ Resubmit(w) => IInv'
    /\ SubmitProfile(w) \/ SkipProfile(w) \/ Redirect(w) \/ NoToken(w) \/ SignIn(w) => IInv'
<1> DEFINE To(pc) == [step[w] EXCEPT !.pc = pc]
<1>0. step[w] \in Rounds BY DEF IInv, StepTyped
<1>a. ASSUME NEW pc \in Later \cup Early \cup {"down", "between"}
      PROVE  /\ To(pc) \in Rounds /\ To(pc).pc = pc
             /\ To(pc).address = step[w].address /\ To(pc).code = step[w].code
  BY <1>0 DEF Rounds, Later, Early
<1>b. step = [step EXCEPT ![w] = step[w]] /\ step[w] = [step[w] EXCEPT !.pc = step[w].pc]
  BY <1>0 DEF IInv, StepTyped, Rounds
<1>c. step[w].pc \in Later => step[w].address \in Address BY DEF IInv, HasAddress
<1>d. ASSUME NEW a \in Address, Sent(a)
      PROVE  /\ account' \in [Address -> {"none", "unverified", "verified", "created"}]
             /\ \A b \in Address : account[b] = "created" => account'[b] = "created"
             /\ codes' \in [Address -> Nat]
  BY <1>d DEF Sent, IInv, SiteTyped
<1>1. CASE StartBatch(w)
  <2>1. Fresh(w) \in {{}, jar[w]} /\ (profile = "process" => Fresh(w) = {}) BY DEF Fresh
  <2> QED BY <1>1, <2>1, BeginHolds DEF StartBatch
<1>2. CASE NextRound(w)
  <2>1. Cleared(w) \in {{}, jar[w]} /\ (profile = "process" => Cleared(w) = {}) BY DEF Cleared
  <2> QED BY <1>2, <2>1, BeginHolds DEF NextRound
<1>3. CASE Ends(w)
  BY <1>3, Moves, IdleTyped DEF Ends, Shows, Idle, Page
<1>4. CASE Fails(w)
  <2>1. step' = [step EXCEPT ![w] = To("between")] BY <1>4 DEF Fails, Goes
  <2> QED BY <1>4, <1>a, <2>1, Moves DEF Fails, Page
<1>5. CASE BrowserRestarts(w)
  <2>1. step' = [step EXCEPT ![w] = step[w]] BY <1>5, <1>b DEF BrowserRestarts
  <2>2. step[w].pc \in Later \cup Early BY <1>0, <1>5 DEF BrowserRestarts, Rounds, Later, Early
  <2>3. /\ step[w].pc = "creating" => provider = "hotmail"
        /\ step[w].pc \in {"typing", "clicked"} => step[w].code > 0 \/ profile # "process"
    BY DEF IInv, RoundsApart, AliasesOfHotmail
  <2> QED BY <1>0, <1>5, <2>1, <2>2, <2>3, Moves DEF BrowserRestarts, Shows, Page
<1>6. CASE OpenSignup(w)
  <2>1. step' = [step EXCEPT ![w] = To("choosing")] BY <1>6 DEF OpenSignup, Goes
  <2>2. "choosing" \in Early /\ step[w].pc \in Early BY <1>6 DEF OpenSignup, At, Early
  <2> QED BY <1>6, <1>a, <2>1, <2>2, Moves DEF OpenSignup, Shows, Page
<1>7. CASE TakeTemporary(w)
  <2>1. PICK a \in Address : /\ used[a] = 0 /\ used' = [used EXCEPT ![a] = @ + 1]
                             /\ step' = [step EXCEPT ![w].pc = "submitting", ![w].address = a]
    BY <1>7 DEF TakeTemporary
  <2> DEFINE r == [step[w] EXCEPT !.pc = "submitting", !.address = a]
  <2>2. r \in Rounds /\ r.pc = "submitting" /\ r.address = a BY <1>0 DEF Rounds
  <2>3. step' = [step EXCEPT ![w] = r] BY <2>1 DEF IInv, StepTyped
  <2> HIDE DEF r
  <2>4. step[w].pc \in Early /\ provider = "worker" BY <1>7 DEF TakeTemporary, At, Early
  <2> QED BY <1>7, <2>1, <2>2, <2>3, <2>4, TakesHolds DEF TakeTemporary, IInv, MailTyped
<1>8. CASE CountAliases(w)
  <2> DEFINE r == [step[w] EXCEPT !.pc = "creating", !.offered = Available,
                                  !.unused = {b \in Available : Reservations(b) = {}}]
  <2>1. Available \subseteq Address
    BY RoundAssumption DEF RoundAssumption, Available, Mailbox
  <2>2. r \in Rounds /\ r.pc = "creating" BY <1>0, <2>1 DEF Rounds
  <2>3. step' = [step EXCEPT ![w] = r] BY <1>8 DEF CountAliases, IInv, StepTyped
  <2> HIDE DEF r
  <2>4. step[w].pc \in Early BY <1>8 DEF CountAliases, At, Early
  <2> QED BY <1>8, <2>2, <2>3, <2>4, Moves DEF CountAliases, Early, Page
<1>9. CASE CreateAlias(w)
  <2>1. PICK a \in Address : /\ a \notin reserved /\ reserved' = reserved \cup {a}
                             /\ used' = [used EXCEPT ![a] = @ + 1]
                             /\ step' = [step EXCEPT ![w] =
                                           [Idle EXCEPT !.pc = "submitting", !.address = a]]
    BY <1>9 DEF CreateAlias, Creatable, Nameable
  <2> DEFINE r == [Idle EXCEPT !.pc = "submitting", !.address = a]
  <2>2. r \in Rounds /\ r.pc = "submitting" /\ r.address = a BY IdleTyped DEF Rounds
  <2>3. step' = [step EXCEPT ![w] = r] BY <2>1
  <2>4. reserved' \subseteq Address /\ reserved \subseteq reserved' /\ a \in reserved'
    BY <2>1 DEF IInv, MailTyped
  <2>5. UNCHANGED <<provider, profile, page, jar, site, results>> BY <1>9 DEF CreateAlias
  <2>6. used' = [used EXCEPT ![a] = @ + 1] BY <2>1
  <2> HIDE DEF r
  <2>7. used[a] = 0
    <3>1. provider = "hotmail" BY <1>9 DEF CreateAlias, At, IInv, AliasesOfHotmail
    <3>2. used[a] \in Nat /\ used[a] <= 1 /\ used[a] # 1
      BY <2>1, <3>1 DEF IInv, MailTyped, UsedIsReserved
    <3> QED BY <3>2
  <2>8. step[w].pc \in Early BY <1>9 DEF CreateAlias, At, Early
  <2> QED BY <2>2, <2>7, <2>8, <2>3, <2>4, <2>5, <2>6, TakesHolds
<1>10. CASE Submit(w)
  <2>1. step[w].pc \in Later BY <1>10 DEF Submit, At, Later
  <2>2. step' = [step EXCEPT ![w].pc = "fetching"] /\ "fetching" \in Later
    BY <1>10 DEF Submit, Goes, Later
  <2>3. Sent(step[w].address) /\ page' = [page EXCEPT ![w] = "code"]
    BY <1>10 DEF Submit, Mine, Shows
  <2> QED BY <1>10, <1>c, <1>d, <2>1, <2>2, <2>3, SiteHolds DEF Submit, Page
<1>11. CASE FetchCode(w)
  <2>1. PICK a \in Inbox(w) :
          /\ a = Mine(w)
          /\ step' = [step EXCEPT ![w].pc = "typing",
                                  ![w].code = IF a = Mine(w) THEN codes[a] ELSE 0]
    BY <1>11 DEF FetchCode, Matches
  <2> DEFINE r == [step[w] EXCEPT !.pc = "typing", !.code = codes[a]]
  <2>2. codes[a] \in Nat /\ codes[a] > 0 BY DEF Inbox, IInv, SiteTyped
  <2>3. r \in Rounds /\ r.pc = "typing" /\ r.address = step[w].address /\ r.code > 0
    BY <1>0, <2>2 DEF Rounds
  <2>4. step' = [step EXCEPT ![w] = r] BY <2>1 DEF IInv, StepTyped
  <2> HIDE DEF r
  <2>5. step[w].pc \in Later BY <1>11 DEF FetchCode, At, Later
  <2> QED BY <1>11, <2>3, <2>4, <2>5, Moves DEF FetchCode, Later, Page
<1>12. CASE TypeCode(w)
  <2>1. step[w].pc \in Later /\ step[w].pc = "typing" BY <1>12 DEF TypeCode, At, Later
  <2>2. step' = [step EXCEPT ![w].pc = "clicked"] /\ "clicked" \in Later
    BY <1>12 DEF TypeCode, Goes, Later
  <2>3. /\ account' \in [Address -> {"none", "unverified", "verified", "created"}]
        /\ \A a \in Address : account[a] = "created" => account'[a] = "created"
    BY <1>12, <1>c, <2>1 DEF TypeCode, CodeAccepted, Mine, IInv, SiteTyped
  <2>4. codes' \in [Address -> Nat] BY <1>12 DEF TypeCode, IInv, SiteTyped
  <2> QED BY <1>12, <2>1, <2>2, <2>3, <2>4, SiteHolds DEF TypeCode, Page
<1>13. CASE PageMoves(w)
  <2> DEFINE p == IF account[Mine(w)] = "verified" THEN "profile" ELSE "email"
  <2>1. page' = [page EXCEPT ![w] = p] /\ p \in Page BY <1>13 DEF PageMoves, Shows, Page
  <2> HIDE DEF p
  <2> QED BY <1>13, <2>1 DEF PageMoves, mail, site, IInv, StepTyped, SiteTyped, MailTyped,
        HasAddress, AliasesOfHotmail, UsedIsReserved, OwnTokens, RoundsApart
<1>14. CASE Confirmed(w)
  <2>1. step' = [step EXCEPT ![w] = To("profile")] BY <1>14 DEF Confirmed, Goes
  <2>2. "profile" \in Later /\ step[w].pc \in Later BY <1>14 DEF Confirmed, At, Later
  <2> QED BY <1>14, <1>a, <2>1, <2>2, Moves DEF Confirmed, Page
<1>15. CASE TypeAgain(w)
  <2>1. step' = [step EXCEPT ![w] = To("typing")] BY <1>15 DEF TypeAgain, Goes
  <2>2. "typing" \in Later /\ step[w].pc \in Later /\ step[w].pc = "clicked"
    BY <1>15 DEF TypeAgain, At, Later
  <2>3. step[w].code > 0 \/ profile # "process" BY <2>2 DEF IInv, RoundsApart
  <2>4. To("typing") \in Rounds /\ To("typing").pc = "typing"
          /\ To("typing").address = step[w].address /\ To("typing").code = step[w].code
    BY <1>a, <2>2
  <2>5. UNCHANGED <<provider, profile, page, jar, mail, site, results>>
    BY <1>15 DEF TypeAgain
  <2> HIDE DEF To
  <2> QED BY <2>1, <2>2, <2>3, <2>4, <2>5, Moves DEF Page
<1>16. CASE Resubmit(w)
  <2>1. step[w].pc \in Later /\ step[w].pc = "typing" BY <1>16 DEF Resubmit, At, Later
  <2>2. step' = [step EXCEPT ![w].pc = "typing"] BY <1>16, <1>b, <2>1 DEF Resubmit
  <2>3. Sent(step[w].address) /\ page' = [page EXCEPT ![w] = "code"]
    BY <1>16 DEF Resubmit, Mine, Shows
  <2> QED BY <1>16, <1>c, <1>d, <2>1, <2>2, <2>3, SiteHolds DEF Resubmit, Page
<1>17. CASE SubmitProfile(w)
  <2>1. step[w].pc \in Later /\ step[w].pc = "profile" BY <1>17 DEF SubmitProfile, At, Later
  <2>2. step' = [step EXCEPT ![w].pc = "waiting"] /\ "waiting" \in Later
    BY <1>17 DEF SubmitProfile, Goes, Later
  <2>3. /\ account' \in [Address -> {"none", "unverified", "verified", "created"}]
        /\ \A a \in Address : account[a] = "created" => account'[a] = "created"
        /\ page' \in {page, [page EXCEPT ![w] = "inside"]}
    BY <1>17, <1>c, <2>1 DEF SubmitProfile, Mine, Shows, IInv, SiteTyped
  <2>4. codes' \in [Address -> Nat] BY <1>17 DEF SubmitProfile, IInv, SiteTyped
  <2> QED BY <1>17, <2>1, <2>2, <2>3, <2>4, SiteHolds DEF SubmitProfile, Page
<1>18. CASE SkipProfile(w)
  <2>1. step' = [step EXCEPT ![w] = To("waiting")] BY <1>18 DEF SkipProfile, Goes
  <2>2. "waiting" \in Later /\ step[w].pc \in Later BY <1>18 DEF SkipProfile, At, Later
  <2> QED BY <1>18, <1>a, <2>1, <2>2, Moves DEF SkipProfile, Page
<1>19. CASE Redirect(w)
  <2>1. step' = [step EXCEPT ![w] = step[w]] BY <1>19, <1>b DEF Redirect
  <2>2. step[w].pc \in Later /\ step[w].pc \notin {"typing", "clicked", "creating"}
    BY <1>19 DEF Redirect, Later
  <2> QED BY <1>0, <1>19, <2>1, <2>2, Moves DEF Redirect, Shows, Page
<1>20. CASE NoToken(w)
  <2>1. step' = [step EXCEPT ![w] = To("signin")] BY <1>20 DEF NoToken, Goes
  <2>2. "signin" \in Later /\ step[w].pc \in Later BY <1>20 DEF NoToken, At, Later
  <2> QED BY <1>20, <1>a, <2>1, <2>2, Moves DEF NoToken, Shows, Page
<1>21. CASE SignIn(w)
  <2> DEFINE p == IF account[Mine(w)] = "created" THEN "inside" ELSE "other"
  <2>1. step' = [step EXCEPT ![w] = To("again")] BY <1>21 DEF SignIn, Goes
  <2>2. "again" \in Later /\ step[w].pc \in Later BY <1>21 DEF SignIn, At, Later
  <2>3. page' = [page EXCEPT ![w] = p] /\ p \in Page BY <1>21 DEF SignIn, Shows, Page
  <2>4. To("again") \in Rounds /\ To("again").pc = "again"
          /\ To("again").address = step[w].address
    BY <1>a, <2>2
  <2>5. UNCHANGED <<provider, profile, jar, mail, site, results>> BY <1>21 DEF SignIn
  <2> HIDE DEF p, To
  <2> QED BY <2>1, <2>2, <2>3, <2>4, <2>5, Moves
<1> QED
  BY <1>1, <1>2, <1>3, <1>4, <1>5, <1>6, <1>7, <1>8, <1>9, <1>10, <1>11, <1>12, <1>13,
     <1>14, <1>15, <1>16, <1>17, <1>18, <1>19, <1>20, <1>21

LEMMA InvHolds == RoundSpec => []IInv
<1>1. IInv /\ RoundNext => IInv'
  BY StepHolds, TokenComesHolds, TakeTokenHolds DEF RoundNext
<1>2. IInv /\ UNCHANGED roundVars => IInv'
  BY DEF roundVars, IInv, StepTyped, SiteTyped, MailTyped, HasAddress, AliasesOfHotmail,
      UsedIsReserved, OwnTokens, RoundsApart
<1> QED BY <1>1, <1>2, InitHolds, PTL DEF RoundSpec

\* No address is given to two rounds (create_hotmail_alias, maintainer/mailbox.py),
\* for any workers and mailboxes, whatever rounds fail or are killed in between.
THEOREM AddressesAreUsedOnce == RoundSpec => []AddressUsedOnce
<1>1. IInv => AddressUsedOnce BY DEF IInv, UsedIsReserved, AddressUsedOnce
<1> QED BY <1>1, InvHolds, PTL

\* A worker process types the code of its own address and records the token of the
\* account it created (maintainer/runner.py), whatever rounds came before in its
\* browser and whatever others do with the mailbox.
THEOREM RoundsAreApart == RoundSpec => []RoundsApart
BY InvHolds, PTL DEF IInv

-----------------------------------------------------------------------------
(*****************************************************************************)
(* The workers of the server.                                                *)
(*****************************************************************************)

\* A copy is never newer than the backend's configuration, and one of its version has
\* its data; nor has a load read a version that is still to come.
HonestCopy(s) ==
    /\ s.config.version <= store.version /\ s.loading <= store.version
    /\ s.config.version = store.version => s.config.enabled = store.enabled

\* Only a worker that is up leads, and only a leader refreshes.
LedLoops(s) ==
    /\ s.phase # "up" => ~s.leader /\ s.loops = "off"
    /\ s.loops # "off" => s.leader /\ s.strategy = "quota"

\* What a worker that copies the old file has put into the new backend.
PagesMoved(s) ==
    \A a \in OldAccount :
        \/ s.phase = "upsert" /\ PageOf[a] < s.page
        \/ s.phase \in {"patch", "delete"} /\ PageOf[a] <= s.page
        \/ s.phase = "rename"
        => a \in DOMAIN target

WorkersTyped ==
    /\ store \in [enabled : BOOLEAN, version : Versions] /\ store.version = updates + 1
    /\ worker \in [WebWorker -> WorkerState]
    /\ updates \in 0..MaxUpdates /\ starts \in 0..MaxStarts

\* The old file is whole, or it is empty, or not there, and then everything was moved.
FilesFit ==
    /\ old \in [exists : BOOLEAN, accounts : SUBSET OldAccount]
    /\ migrated \subseteq OldAccount
    /\ DOMAIN target \subseteq OldAccount
    /\ (old.exists /\ old.accounts = OldAccount)
         \/ (old.accounts = {} /\ DOMAIN target = OldAccount)

OneLeader == \A v, w \in WebWorker : worker[v].leader /\ worker[w].leader => v = w

WorkersInv ==
    /\ WorkersTyped
    /\ FilesFit
    /\ \A w \in WebWorker :
          HonestCopy(worker[w]) /\ LedLoops(worker[w]) /\ PagesMoved(worker[w])
    /\ OneLeader

\* A step of worker w keeps the invariant if w fits afterwards, the backend's version
\* does not fall, and no account is taken out of the new backend.
LEMMA WorkerChange ==
    ASSUME WorkersInv, NEW w \in WebWorker,
           worker' = [worker EXCEPT ![w] = worker'[w]], worker'[w] \in WorkerState,
           HonestCopy(worker[w])', LedLoops(worker[w])', PagesMoved(worker[w])',
           worker'[w].leader => worker[w].leader \/ ~LockTaken,
           store' = store \/ store'.version > store.version,
           store' \in [enabled : BOOLEAN, version : Versions] /\ store'.version = updates' + 1,
           updates' \in 0..MaxUpdates /\ starts' \in 0..MaxStarts,
           FilesFit', DOMAIN target \subseteq DOMAIN target'
    PROVE  WorkersInv'
<1>1. WorkersTyped' BY DEF WorkersInv, WorkersTyped
<1>2. ASSUME NEW v \in WebWorker, v # w
      PROVE  HonestCopy(worker[v])' /\ LedLoops(worker[v])' /\ PagesMoved(worker[v])'
  <2>1. worker'[v] = worker[v] BY <1>2 DEF WorkersInv, WorkersTyped
  <2>2. HonestCopy(worker[v]) /\ LedLoops(worker[v]) /\ PagesMoved(worker[v])
    BY DEF WorkersInv
  <2>3. /\ worker[v].config.version \in Nat /\ worker[v].loading \in Nat
        /\ store.version \in Nat /\ store'.version \in Nat
    <3>1. worker[v] \in WorkerState /\ store.version \in Versions
      BY DEF WorkersInv, WorkersTyped
    <3>2. Versions \subseteq Nat /\ None \in Nat BY WorkersAssumption DEF Versions, None
    <3>3. worker[v].config \in Config /\ worker[v].loading \in Versions \cup {None}
      BY <3>1 DEF WorkerState
    <3>4. store'.version \in Versions OBVIOUS
    <3> QED BY <3>1, <3>2, <3>3, <3>4 DEF Config
  <2>4. HonestCopy(worker[v])' BY <2>1, <2>2, <2>3 DEF HonestCopy
  <2>5. LedLoops(worker[v])' BY <2>1, <2>2 DEF LedLoops
  <2>6. PagesMoved(worker[v])' BY <2>1, <2>2 DEF PagesMoved
  <2> QED BY <2>4, <2>5, <2>6
<1>3. OneLeader' BY DEF WorkersInv, WorkersTyped, OneLeader, LockTaken
<1> QED BY <1>1, <1>2, <1>3 DEF WorkersInv

\* Most steps leave the backend's configuration alone, ...
LEMMA WorkerGoes ==
    ASSUME WorkersInv, NEW w \in WebWorker,
           worker' = [worker EXCEPT ![w] = worker'[w]], worker'[w] \in WorkerState,
           HonestCopy(worker[w])', LedLoops(worker[w])', PagesMoved(worker[w])',
           worker'[w].leader => worker[w].leader \/ ~LockTaken,
           UNCHANGED <<store, files, updates, starts>>
    PROVE  WorkersInv'
<1>1. FilesFit' BY DEF WorkersInv, FilesFit, files
<1>2. DOMAIN target \subseteq DOMAIN target' BY DEF files
<1> QED BY <1>1, <1>2, WorkerChange DEF WorkersInv, WorkersTyped

\* ... and the steps that move the file leave the copy and the loops alone, too.
LEMMA WorkerMoves ==
    ASSUME WorkersInv, NEW w \in WebWorker,
           worker' = [worker EXCEPT ![w] = worker'[w]], worker'[w] \in WorkerState,
           worker'[w].config = worker[w].config, worker'[w].loading = worker[w].loading,
           worker[w].phase # "up", worker'[w].leader = worker[w].leader,
           worker'[w].loops = worker[w].loops,
           PagesMoved(worker[w])',
           UNCHANGED <<store, updates, starts>>,
           FilesFit', DOMAIN target \subseteq DOMAIN target'
    PROVE  WorkersInv'
<1>1. HonestCopy(worker[w])' BY DEF HonestCopy, WorkersInv
<1>2. LedLoops(worker[w])' BY DEF LedLoops, WorkersInv
<1> QED BY <1>1, <1>2, WorkerChange DEF WorkersInv, WorkersTyped

LEMMA DownFits ==
    /\ Down \in WorkerState /\ Down.phase = "down" /\ ~Down.leader /\ Down.loops = "off"
    /\ Down.config.version = None /\ Down.loading = None
BY WorkersAssumption DEF Down, WorkerState, Config, None

LEMMA WorkerDown ==
    ASSUME WorkersInv, NEW w \in WebWorker, WorkerBecomes(w, Down),
           UNCHANGED <<store, updates, starts>>,
           FilesFit', DOMAIN target \subseteq DOMAIN target'
    PROVE  WorkersInv'
<1>1. worker'[w] = Down BY DEF WorkersInv, WorkersTyped, WorkerBecomes
<1>2. store.version \in Nat /\ store.version # None
  BY WorkersAssumption DEF WorkersInv, WorkersTyped, Versions, None
<1>3. HonestCopy(worker[w])' BY <1>1, <1>2, DownFits DEF HonestCopy, None
<1>4. LedLoops(worker[w])' BY <1>1, DownFits DEF LedLoops
<1>5. PagesMoved(worker[w])' BY <1>1, DownFits DEF PagesMoved
<1>6. worker' = [worker EXCEPT ![w] = worker'[w]] BY <1>1 DEF WorkerBecomes
<1>7. worker'[w] \in WorkerState /\ ~worker'[w].leader BY <1>1, DownFits
<1> QED BY <1>3, <1>4, <1>5, <1>6, <1>7, WorkerChange DEF WorkersInv, WorkersTyped

-----------------------------------------------------------------------------
\* What a reconciliation does to a worker.
LEMMA ReconciledFits ==
    ASSUME NEW s \in WorkerState, LedLoops(s) \/ s.loops = "off", s.phase = "up" \/ ~s.leader,
           NEW enabled \in BOOLEAN
    PROVE  LET r == Reconciled(s, enabled) IN
           /\ r \in WorkerState /\ LedLoops(r)
           /\ r.config = s.config /\ r.loading = s.loading /\ r.phase = s.phase
           /\ r.page = s.page /\ r.leader = s.leader
<1> DEFINE t == [s EXCEPT !.strategy = IF enabled THEN "quota" ELSE "random"]
           r == Reconciled(s, enabled)
<1>1. /\ t \in WorkerState /\ t.strategy = (IF enabled THEN "quota" ELSE "random")
      /\ t.config = s.config /\ t.loading = s.loading /\ t.phase = s.phase
      /\ t.page = s.page /\ t.leader = s.leader /\ t.loops = s.loops /\ t.dying = s.dying
  BY DEF WorkerState
<1>2. r = IF ~s.leader \/ enabled = (s.loops # "off") THEN t
          ELSE IF enabled THEN [t EXCEPT !.loops = "waiting"]
          ELSE [t EXCEPT !.loops = "off", !.dying = t.dying \/ s.loops = "refreshing"]
  BY DEF Reconciled, Schedules
<1> HIDE DEF t, r
<1>3. /\ r \in WorkerState /\ r.strategy = t.strategy
      /\ r.config = t.config /\ r.loading = t.loading /\ r.phase = t.phase
      /\ r.page = t.page /\ r.leader = t.leader
      /\ r.loops = IF ~s.leader \/ enabled = (s.loops # "off") THEN t.loops
                   ELSE IF enabled THEN "waiting" ELSE "off"
  <2>1. CASE ~s.leader \/ enabled = (s.loops # "off") BY <1>1, <1>2, <2>1
  <2>2. CASE s.leader /\ enabled # (s.loops # "off") /\ enabled
    BY <1>1, <1>2, <2>2 DEF WorkerState
  <2>3. CASE s.leader /\ enabled # (s.loops # "off") /\ ~enabled
    <3> DEFINE dying == t.dying \/ s.loops = "refreshing"
    <3>1. dying \in BOOLEAN /\ r = [t EXCEPT !.loops = "off", !.dying = dying]
      BY <1>1, <1>2, <2>3
    <3> HIDE DEF dying
    <3> QED BY <1>1, <2>3, <3>1 DEF WorkerState
  <2> QED BY <2>1, <2>2, <2>3
<1>4. LedLoops(r)
  <2>1. s.leader => s.phase = "up" OBVIOUS
  <2>2. ~s.leader => r.loops = s.loops /\ s.loops = "off"
    BY <1>1, <1>3 DEF LedLoops
  <2>3. s.leader /\ r.loops # "off" => enabled
    BY <1>1, <1>3
  <2> QED BY <1>1, <1>3, <2>1, <2>2, <2>3 DEF LedLoops
<1> QED BY <1>1, <1>3, <1>4 DEF r

\* After a load the copy is what was loaded, and the loops follow it or stay.
LEMMA AfterLoadFits ==
    ASSUME NEW s \in WorkerState, LedLoops(s), NEW r \in AfterLoad(s)
    PROVE  /\ r \in WorkerState /\ LedLoops(r)
           /\ r.config = s.config /\ r.loading = s.loading /\ r.leader = s.leader
           /\ r.phase \in {"check", "elect"} \/ (r.phase = s.phase /\ r.page = s.page)
<1>1. CASE s.phase = "boot"
  <2>1. r = [s EXCEPT !.phase = "check"] BY <1>1 DEF AfterLoad
  <2> QED BY <1>1, <2>1 DEF WorkerState, LedLoops
<1>2. CASE s.phase = "booted"
  <2>1. r = [s EXCEPT !.phase = "elect"] BY <1>2 DEF AfterLoad
  <2> QED BY <1>2, <2>1 DEF WorkerState, LedLoops
<1>3. CASE s.phase \notin {"boot", "booted"}
  <2>1. r \in {s, Reconciled(s, s.config.enabled)} BY <1>3 DEF AfterLoad
  <2>2. s.config.enabled \in BOOLEAN BY DEF WorkerState, Config
  <2>3. s.phase = "up" \/ ~s.leader BY DEF LedLoops
  <2> QED BY <2>1, <2>2, <2>3, ReconciledFits
<1> QED BY <1>1, <1>2, <1>3

-----------------------------------------------------------------------------
LEMMA WorkerKnown ==
    ASSUME WorkersInv, NEW w \in WebWorker
    PROVE  /\ worker[w] \in WorkerState /\ HonestCopy(worker[w]) /\ LedLoops(worker[w])
           /\ PagesMoved(worker[w])
           /\ \A s : WorkerBecomes(w, s)
                   => worker'[w] = s /\ worker' = [worker EXCEPT ![w] = worker'[w]]
           /\ store.version \in Nat \ {0} /\ store.version \in Versions
           /\ worker[w].config \in Config /\ worker[w].loading \in Versions \cup {None}
           /\ Versions \subseteq Nat /\ worker[w].page \in Nat
<1>1. worker[w] \in WorkerState /\ store.version \in Versions
  BY DEF WorkersInv, WorkersTyped
<1>2. Versions \subseteq Nat \ {0} BY WorkersAssumption DEF Versions
<1>3. 1..Pages + 1 \subseteq Nat BY WorkersAssumption
<1>4. /\ worker[w].config \in Config /\ worker[w].loading \in Versions \cup {None}
      /\ worker[w].page \in 1..Pages + 1
  BY <1>1 DEF WorkerState
<1>5. \A s : WorkerBecomes(w, s)
           => worker'[w] = s /\ worker' = [worker EXCEPT ![w] = worker'[w]]
  BY DEF WorkersInv, WorkersTyped, WorkerBecomes
<1> QED BY <1>1, <1>2, <1>3, <1>4, <1>5 DEF WorkersInv

LEMMA BootKeeps == ASSUME WorkersInv, NEW w \in WebWorker, Boot(w) PROVE WorkersInv'
<1>1. WorkerBecomes(w, [Down EXCEPT !.phase = "boot"]) BY DEF Boot
<1>2. /\ worker'[w] = [Down EXCEPT !.phase = "boot"]
      /\ worker' = [worker EXCEPT ![w] = worker'[w]]
      /\ store.version \in Nat \ {0}
  BY <1>1, WorkerKnown
<1>3. /\ worker'[w] \in WorkerState /\ worker'[w].phase = "boot" /\ ~worker'[w].leader
      /\ worker'[w].loops = "off" /\ worker'[w].config.version = 0
      /\ worker'[w].loading = 0
  <2>1. [Down EXCEPT !.phase = "boot"] \in WorkerState BY DownFits DEF WorkerState
  <2>2. Down \in WorkerState BY DownFits
  <2> QED BY <1>2, <2>1, <2>2, DownFits DEF WorkerState, None
<1>4. HonestCopy(worker[w])' BY <1>2, <1>3 DEF HonestCopy, Boot
<1>5. LedLoops(worker[w])' BY <1>3 DEF LedLoops
<1>6. PagesMoved(worker[w])' BY <1>3 DEF PagesMoved
<1>7. FilesFit' /\ DOMAIN target \subseteq DOMAIN target'
  BY DEF Boot, files, FilesFit, WorkersInv
<1>8. starts' \in 0..MaxStarts /\ store' = store /\ updates' = updates
  BY WorkersAssumption DEF Boot, WorkersInv, WorkersTyped
<1> QED BY <1>2, <1>3, <1>4, <1>5, <1>6, <1>7, <1>8, WorkerChange DEF WorkersInv, WorkersTyped

LEMMA BeginLoadKeeps == ASSUME WorkersInv, NEW w \in WebWorker, BeginLoad(w) PROVE WorkersInv'
<1> DEFINE s == worker[w]
<1>0. /\ s \in WorkerState /\ HonestCopy(s) /\ LedLoops(s) /\ PagesMoved(s)
      /\ store.version \in Nat \ {0} /\ store.version \in Versions
  BY WorkerKnown
<1>u. UNCHANGED <<store, files, updates, starts>> BY DEF BeginLoad
<1>1. CASE s.config.version = store.version
  <2>1. PICK r \in AfterLoad(s) : WorkerBecomes(w, r) BY <1>1 DEF BeginLoad
  <2>2. worker'[w] = r /\ worker' = [worker EXCEPT ![w] = worker'[w]]
    BY <2>1, WorkerKnown
  <2>3. /\ r \in WorkerState /\ LedLoops(r)
        /\ r.config = s.config /\ r.loading = s.loading /\ r.leader = s.leader
        /\ r.phase \in {"check", "elect"} \/ (r.phase = s.phase /\ r.page = s.page)
    BY <1>0, AfterLoadFits
  <2>4. HonestCopy(worker[w])' BY <1>0, <1>u, <2>2, <2>3 DEF HonestCopy
  <2>5. LedLoops(worker[w])' BY <2>2, <2>3 DEF LedLoops
  <2>6. PagesMoved(worker[w])' BY <1>0, <1>u, <2>2, <2>3 DEF PagesMoved, files
  <2> QED BY <1>u, <2>2, <2>3, <2>4, <2>5, <2>6, WorkerGoes
<1>2. CASE s.config.version # store.version
  <2> DEFINE r == [s EXCEPT !.loading = store.version]
  <2>1. WorkerBecomes(w, r) BY <1>2 DEF BeginLoad
  <2>2. worker'[w] = r /\ worker' = [worker EXCEPT ![w] = worker'[w]]
    BY <2>1, WorkerKnown
  <2>3. /\ r \in WorkerState /\ r.config = s.config /\ r.loading = store.version
        /\ r.leader = s.leader /\ r.phase = s.phase /\ r.page = s.page
        /\ r.loops = s.loops /\ r.strategy = s.strategy
    BY <1>0 DEF WorkerState
  <2> HIDE DEF r
  <2>4. HonestCopy(worker[w])' BY <1>0, <1>u, <2>2, <2>3 DEF HonestCopy
  <2>5. LedLoops(worker[w])' BY <1>0, <2>2, <2>3 DEF LedLoops
  <2>6. PagesMoved(worker[w])' BY <1>0, <1>u, <2>2, <2>3 DEF PagesMoved, files
  <2> QED BY <1>u, <2>2, <2>3, <2>4, <2>5, <2>6, WorkerGoes
<1> QED BY <1>1, <1>2

LEMMA EndLoadKeeps == ASSUME WorkersInv, NEW w \in WebWorker, EndLoad(w) PROVE WorkersInv'
<1> DEFINE s == worker[w]
           c == [enabled |-> store.enabled, version |-> s.loading]
           t == [s EXCEPT !.config = c, !.loading = None]
<1>0. /\ s \in WorkerState /\ HonestCopy(s) /\ LedLoops(s) /\ PagesMoved(s)
      /\ store.version \in Nat \ {0} /\ s.loading \in Versions \cup {None}
  BY WorkerKnown
<1>u. UNCHANGED <<store, files, updates, starts>> BY DEF EndLoad
<1>1. PICK r \in AfterLoad(t) : WorkerBecomes(w, r) BY DEF EndLoad
<1>2. worker'[w] = r /\ worker' = [worker EXCEPT ![w] = worker'[w]]
  BY <1>1, WorkerKnown
<1>3. c \in Config BY <1>0 DEF Config, WorkersInv, WorkersTyped
<1>4. /\ t \in WorkerState /\ t.config = c /\ t.loading = None /\ t.phase = s.phase
      /\ t.page = s.page /\ t.leader = s.leader /\ t.loops = s.loops
      /\ t.strategy = s.strategy
  BY <1>0, <1>3 DEF WorkerState
<1>5. c.version = s.loading /\ c.enabled = store.enabled OBVIOUS
<1> HIDE DEF t, c
<1>6. LedLoops(t) BY <1>0, <1>4 DEF LedLoops
<1>7. /\ r \in WorkerState /\ LedLoops(r)
      /\ r.config = c /\ r.loading = None /\ r.leader = s.leader
      /\ r.phase \in {"check", "elect"} \/ (r.phase = s.phase /\ r.page = s.page)
  BY <1>1, <1>4, <1>6, AfterLoadFits
<1>8. HonestCopy(worker[w])' BY <1>0, <1>u, <1>2, <1>5, <1>7 DEF HonestCopy, None
<1>9. LedLoops(worker[w])' BY <1>2, <1>7 DEF LedLoops
<1>10. PagesMoved(worker[w])' BY <1>0, <1>u, <1>2, <1>7 DEF PagesMoved, files
<1> QED BY <1>u, <1>2, <1>7, <1>8, <1>9, <1>10, WorkerGoes

LEMMA UpdateKeeps ==
    ASSUME WorkersInv, NEW w \in WebWorker, NEW enabled \in BOOLEAN, Update(w, enabled)
    PROVE  WorkersInv'
<1> DEFINE s == worker[w]
           r == Marked(s)
<1>0. /\ s \in WorkerState /\ LedLoops(s) /\ store.version \in Nat \ {0}
      /\ s.config \in Config
  BY WorkerKnown
<1>1. WorkerBecomes(w, r) BY DEF Update
<1>2. worker'[w] = r /\ worker' = [worker EXCEPT ![w] = worker'[w]]
  BY <1>1, WorkerKnown
<1>3. [s.config EXCEPT !.version = None] \in Config BY <1>0 DEF Config
<1>4. /\ r \in WorkerState /\ r.config.version = None /\ r.loading = s.loading
      /\ r.phase = s.phase /\ r.leader = s.leader /\ r.loops = s.loops
      /\ r.strategy = s.strategy
  BY <1>0, <1>3 DEF WorkerState, Marked, Config
<1> HIDE DEF r
<1>5. s.phase = "up" /\ s.loading = None BY DEF Update
<1>6. /\ store' \in [enabled : BOOLEAN, version : Versions]
      /\ store'.version = updates' + 1 /\ store'.version = store.version + 1
      /\ updates' \in 0..MaxUpdates /\ starts' = starts
  BY WorkersAssumption DEF Update, WorkersInv, WorkersTyped, Versions
<1>7. HonestCopy(worker[w])'
  <2>1. store'.version \in Nat \ {0}
    <3>1. store'.version = store.version + 1 BY <1>6
    <3>2. store.version \in Nat BY <1>0
    <3> QED BY <3>1, <3>2
  <2>2. worker'[w].config.version = 0 /\ worker'[w].loading = 0 BY <1>2, <1>4, <1>5 DEF None
  <2> QED BY <2>1, <2>2 DEF HonestCopy
<1>8. LedLoops(worker[w])' BY <1>0, <1>2, <1>4 DEF LedLoops
<1>9. PagesMoved(worker[w])' BY <1>2, <1>4, <1>5 DEF PagesMoved
<1>10. FilesFit' /\ DOMAIN target \subseteq DOMAIN target'
  BY DEF Update, files, FilesFit, WorkersInv
<1>11. store'.version > store.version /\ (worker'[w].leader => worker[w].leader)
  BY <1>0, <1>2, <1>4, <1>6
<1> QED BY <1>2, <1>4, <1>6, <1>7, <1>8, <1>9, <1>10, <1>11, WorkerChange
        DEF WorkersInv, WorkersTyped

-----------------------------------------------------------------------------
LEMMA CheckKeeps == ASSUME WorkersInv, NEW w \in WebWorker, Check(w) PROVE WorkersInv'
<1> DEFINE s == worker[w]
           p == IF old.exists /\ DOMAIN target = {} THEN "open" ELSE "booted"
           r == [s EXCEPT !.phase = p]
<1>0. s \in WorkerState /\ s.phase = "check" BY WorkerKnown DEF Check
<1>1. WorkerBecomes(w, r) BY DEF Check
<1>2. worker'[w] = r /\ worker' = [worker EXCEPT ![w] = worker'[w]]
  BY <1>1, WorkerKnown
<1>3. p \in {"open", "booted"} OBVIOUS
<1> HIDE DEF p
<1>4. /\ r \in WorkerState /\ r.phase = p /\ r.config = s.config /\ r.loading = s.loading
      /\ r.leader = s.leader /\ r.loops = s.loops
  BY <1>0, <1>3 DEF WorkerState
<1> HIDE DEF r
<1>5. PagesMoved(worker[w])' BY <1>2, <1>3, <1>4 DEF PagesMoved
<1>6. FilesFit' /\ DOMAIN target \subseteq DOMAIN target'
  BY DEF Check, files, FilesFit, WorkersInv
<1>7. UNCHANGED <<store, updates, starts>> BY DEF Check
<1> QED BY <1>0, <1>2, <1>4, <1>5, <1>6, <1>7, WorkerMoves

LEMMA OpenKeeps == ASSUME WorkersInv, NEW w \in WebWorker, Open(w) PROVE WorkersInv'
<1> DEFINE s == worker[w]
           r == [s EXCEPT !.phase = "upsert", !.page = 1]
<1>0. s \in WorkerState /\ s.phase = "open" BY WorkerKnown DEF Open
<1>1. WorkerBecomes(w, r) BY DEF Open
<1>2. worker'[w] = r /\ worker' = [worker EXCEPT ![w] = worker'[w]]
  BY <1>1, WorkerKnown
<1>3. /\ r \in WorkerState /\ r.phase = "upsert" /\ r.page = 1 /\ r.config = s.config
      /\ r.loading = s.loading /\ r.leader = s.leader /\ r.loops = s.loops
  <2>1. 1 \in 1..Pages + 1 BY WorkersAssumption
  <2> QED BY <1>0, <2>1 DEF WorkerState
<1> HIDE DEF r
<1>4. PagesMoved(worker[w])'
  <2>1. \A a \in OldAccount : ~(PageOf[a] < 1) BY WorkersAssumption
  <2> QED BY <1>2, <1>3, <2>1 DEF PagesMoved
<1>5. FilesFit' /\ DOMAIN target \subseteq DOMAIN target'
  BY DEF Open, FilesFit, WorkersInv
<1>6. UNCHANGED <<store, updates, starts>> BY DEF Open
<1> QED BY <1>0, <1>2, <1>3, <1>4, <1>5, <1>6, WorkerMoves

\* A page of the whole file that is empty comes after the last account.
LEMMA PagesInOrder ==
    ASSUME NEW p \in Nat \ {0}, \A a \in OldAccount : PageOf[a] # p
    PROVE  \A a \in OldAccount : PageOf[a] < p
<1> SUFFICES ASSUME NEW a \in OldAccount, ~(PageOf[a] < p) PROVE FALSE OBVIOUS
<1>1. PageOf[a] \in 1..Pages /\ Pages \in Nat BY WorkersAssumption
<1>2. p \in 1..PageOf[a] BY <1>1
<1>3. PICK b \in OldAccount : PageOf[b] = p BY <1>2, WorkersAssumption
<1> QED BY <1>3

LEMMA UpsertKeeps == ASSUME WorkersInv, NEW w \in WebWorker, UpsertPage(w) PROVE WorkersInv'
<1> DEFINE s == worker[w]
<1>0. /\ s \in WorkerState /\ s.phase = "upsert" /\ PagesMoved(s) /\ s.page \in Nat \ {0}
      /\ FilesFit
  BY WorkerKnown DEF UpsertPage, WorkersInv, WorkerState
<1>u. UNCHANGED <<store, migrated, updates, starts>> BY DEF UpsertPage
<1>1. CASE ~old.exists
  <2>1. /\ WorkerBecomes(w, Down) /\ target' = target
        /\ old' = [exists |-> TRUE, accounts |-> {}]
    BY <1>1 DEF UpsertPage
  <2>2. FilesFit' /\ DOMAIN target \subseteq DOMAIN target'
    BY <1>0, <1>1, <1>u, <2>1 DEF FilesFit
  <2> QED BY <1>u, <2>1, <2>2, WorkerDown
<1>2. CASE old.exists
  <2> DEFINE r == IF OnPage(w) = {} THEN Renames(w) ELSE [worker[w] EXCEPT !.phase = "patch"]
  <2>1. /\ DOMAIN target' = DOMAIN target \cup OnPage(w) /\ WorkerBecomes(w, r)
        /\ old' = old
    BY <1>2 DEF UpsertPage
  <2>2. worker'[w] = r /\ worker' = [worker EXCEPT ![w] = worker'[w]]
    BY <2>1, WorkerKnown
  <2>3. /\ r \in WorkerState /\ r.phase = (IF OnPage(w) = {} THEN "rename" ELSE "patch")
        /\ r.page = s.page /\ r.config = s.config
        /\ r.loading = s.loading /\ r.leader = s.leader /\ r.loops = s.loops
    BY <1>0 DEF WorkerState, Renames
  <2> HIDE DEF r
  <2>4. OnPage(w) \subseteq OldAccount /\ DOMAIN target \subseteq OldAccount
    BY <1>0 DEF OnPage, FilesFit
  <2>5. FilesFit' /\ DOMAIN target \subseteq DOMAIN target'
    BY <1>0, <1>2, <1>u, <2>1, <2>4 DEF FilesFit
  <2>6. PagesMoved(worker[w])'
    <3>1. CASE DOMAIN target = OldAccount
      BY <2>1, <3>1 DEF PagesMoved
    <3>2. CASE old.accounts = OldAccount /\ OnPage(w) = {}
      <4>1. \A a \in OldAccount : PageOf[a] # s.page BY <3>2 DEF OnPage
      <4>2. \A a \in OldAccount : PageOf[a] < s.page BY <1>0, <4>1, PagesInOrder
      <4>3. \A a \in OldAccount : a \in DOMAIN target BY <1>0, <4>2 DEF PagesMoved
      <4> QED BY <2>1, <4>3 DEF PagesMoved
    <3>3. CASE old.accounts = OldAccount /\ OnPage(w) # {}
      <4>1. \A a \in OldAccount : PageOf[a] = s.page => a \in DOMAIN target'
        BY <2>1, <3>3 DEF OnPage
      <4>2. \A a \in OldAccount : PageOf[a] < s.page => a \in DOMAIN target'
        BY <1>0, <2>1 DEF PagesMoved
      <4>3. \A a \in OldAccount : PageOf[a] \in Nat BY WorkersAssumption
      <4>4. worker'[w].phase = "patch" /\ worker'[w].page = s.page BY <2>2, <2>3, <3>3
      <4> QED BY <1>0, <4>1, <4>2, <4>3, <4>4 DEF PagesMoved
    <3> QED BY <1>0, <3>1, <3>2, <3>3 DEF FilesFit
  <2> QED BY <1>0, <1>u, <2>2, <2>3, <2>5, <2>6, WorkerMoves
<1> QED BY <1>1, <1>2

LEMMA PatchKeeps == ASSUME WorkersInv, NEW w \in WebWorker, PatchPage(w) PROVE WorkersInv'
<1> DEFINE s == worker[w]
           r == [s EXCEPT !.phase = "delete"]
<1>0. s \in WorkerState /\ s.phase = "patch" /\ PagesMoved(s) BY WorkerKnown DEF PatchPage
<1>1. WorkerBecomes(w, r) BY DEF PatchPage
<1>2. worker'[w] = r /\ worker' = [worker EXCEPT ![w] = worker'[w]]
  BY <1>1, WorkerKnown
<1>3. /\ r \in WorkerState /\ r.phase = "delete" /\ r.page = s.page /\ r.config = s.config
      /\ r.loading = s.loading /\ r.leader = s.leader /\ r.loops = s.loops
  BY <1>0 DEF WorkerState
<1> HIDE DEF r
<1>4. DOMAIN target' = DOMAIN target /\ UNCHANGED <<store, old, migrated, updates, starts>>
  BY DEF PatchPage
<1>5. PagesMoved(worker[w])' BY <1>0, <1>2, <1>3, <1>4 DEF PagesMoved
<1>6. FilesFit' BY <1>4 DEF FilesFit, WorkersInv
<1> QED BY <1>0, <1>2, <1>3, <1>4, <1>5, <1>6, WorkerMoves

LEMMA DeleteKeeps == ASSUME WorkersInv, NEW w \in WebWorker, DeletePage(w) PROVE WorkersInv'
<1> DEFINE s == worker[w]
           r == NextPage(w)
<1>0. /\ s \in WorkerState /\ s.phase = "delete" /\ PagesMoved(s) /\ s.page \in 1..Pages + 1
  BY WorkerKnown DEF DeletePage, WorkerState
<1>1. WorkerBecomes(w, r) BY DEF DeletePage
<1>2. worker'[w] = r /\ worker' = [worker EXCEPT ![w] = worker'[w]]
  BY <1>1, WorkerKnown
<1>3. CASE s.page >= Pages
  <2>1. r = [s EXCEPT !.phase = "rename"] BY <1>3 DEF NextPage, Renames
  <2>2. /\ r \in WorkerState /\ r.phase = "rename" /\ r.config = s.config
        /\ r.loading = s.loading /\ r.leader = s.leader /\ r.loops = s.loops
    BY <1>0, <2>1 DEF WorkerState
  <2> HIDE DEF r
  <2>3. DOMAIN target' = DOMAIN target /\ UNCHANGED <<store, old, migrated, updates, starts>>
    BY DEF DeletePage
  <2>4. \A a \in OldAccount : PageOf[a] <= s.page BY <1>0, <1>3, WorkersAssumption
  <2>5. PagesMoved(worker[w])' BY <1>0, <1>2, <2>2, <2>3, <2>4 DEF PagesMoved
  <2>6. FilesFit' BY <2>3 DEF FilesFit, WorkersInv
  <2> QED BY <1>0, <1>2, <2>2, <2>3, <2>5, <2>6, WorkerMoves
<1>4. CASE ~(s.page >= Pages)
  <2>1. r = [s EXCEPT !.phase = "upsert", !.page = s.page + 1] BY <1>4 DEF NextPage
  <2>2. s.page + 1 \in 1..Pages + 1 BY <1>0, <1>4, WorkersAssumption
  <2>3. /\ r \in WorkerState /\ r.phase = "upsert" /\ r.page = s.page + 1
        /\ r.config = s.config
        /\ r.loading = s.loading /\ r.leader = s.leader /\ r.loops = s.loops
    BY <1>0, <2>1, <2>2 DEF WorkerState
  <2> HIDE DEF r
  <2>4. DOMAIN target' = DOMAIN target /\ UNCHANGED <<store, old, migrated, updates, starts>>
    BY DEF DeletePage
  <2>5. \A a \in OldAccount : PageOf[a] < s.page + 1 => PageOf[a] <= s.page
    BY <1>0, WorkersAssumption
  <2>6. PagesMoved(worker[w])' BY <1>0, <1>2, <2>3, <2>4, <2>5 DEF PagesMoved
  <2>7. FilesFit' BY <2>4 DEF FilesFit, WorkersInv
  <2> QED BY <1>0, <1>2, <2>3, <2>4, <2>6, <2>7, WorkerMoves
<1> QED BY <1>3, <1>4

LEMMA RenameKeeps == ASSUME WorkersInv, NEW w \in WebWorker, Rename(w) PROVE WorkersInv'
<1> DEFINE s == worker[w]
           r == [s EXCEPT !.phase = "booted"]
<1>0. s \in WorkerState /\ s.phase = "rename" /\ PagesMoved(s) /\ FilesFit
  BY WorkerKnown DEF Rename, WorkersInv
<1>1. DOMAIN target = OldAccount BY <1>0 DEF PagesMoved, FilesFit
<1>u. UNCHANGED <<store, target, updates, starts>> BY DEF Rename
<1>2. CASE old.exists
  <2>1. /\ WorkerBecomes(w, r) /\ old' = [exists |-> FALSE, accounts |-> {}]
        /\ migrated' = old.accounts
    BY <1>2 DEF Rename
  <2>2. worker'[w] = r /\ worker' = [worker EXCEPT ![w] = worker'[w]]
    BY <2>1, WorkerKnown
  <2>3. /\ r \in WorkerState /\ r.phase = "booted" /\ r.config = s.config
        /\ r.loading = s.loading /\ r.leader = s.leader /\ r.loops = s.loops
    BY <1>0 DEF WorkerState
  <2> HIDE DEF r
  <2>4. PagesMoved(worker[w])' BY <2>2, <2>3 DEF PagesMoved
  <2>5. FilesFit' /\ DOMAIN target \subseteq DOMAIN target'
    BY <1>0, <1>1, <1>u, <2>1 DEF FilesFit
  <2> QED BY <1>0, <1>u, <2>2, <2>3, <2>4, <2>5, WorkerMoves
<1>3. CASE ~old.exists
  <2>1. WorkerBecomes(w, Down) /\ UNCHANGED <<old, migrated>> BY <1>3 DEF Rename
  <2>2. FilesFit' /\ DOMAIN target \subseteq DOMAIN target' BY <1>0, <1>u, <2>1 DEF FilesFit
  <2> QED BY <1>u, <2>1, <2>2, WorkerDown
<1> QED BY <1>2, <1>3

-----------------------------------------------------------------------------
\* The lock is taken only when nobody has it, by one who has no loops yet.
LEMMA ElectKeeps == ASSUME WorkersInv, NEW w \in WebWorker, Elect(w) PROVE WorkersInv'
<1> DEFINE s == worker[w]
           t == [s EXCEPT !.leader = ~LockTaken, !.phase = "up"]
           r == Reconciled(t, t.config.enabled)
<1>0. /\ s \in WorkerState /\ s.phase = "elect" /\ HonestCopy(s) /\ ~s.leader
      /\ s.loops = "off" /\ s.config \in Config
  BY WorkerKnown DEF Elect, LedLoops
<1>u. UNCHANGED <<store, files, updates, starts>> BY DEF Elect
<1>1. WorkerBecomes(w, r) BY DEF Elect
<1>2. worker'[w] = r /\ worker' = [worker EXCEPT ![w] = worker'[w]]
  BY <1>1, WorkerKnown
<1>3. (~LockTaken) \in BOOLEAN BY DEF LockTaken
<1>4. /\ t \in WorkerState /\ t.phase = "up" /\ t.config = s.config /\ t.loading = s.loading
      /\ t.loops = "off" /\ t.leader = ~LockTaken /\ t.config.enabled \in BOOLEAN
  <2> DEFINE free == ~LockTaken
  <2>1. free \in BOOLEAN BY <1>3
  <2> HIDE DEF free
  <2>2. [s EXCEPT !.leader = free, !.phase = "up"] \in WorkerState
    BY <1>0, <2>1 DEF WorkerState
  <2>3. [s EXCEPT !.leader = free, !.phase = "up"].leader = free
    BY <1>0 DEF WorkerState
  <2>4. t = [s EXCEPT !.leader = free, !.phase = "up"] BY DEF free
  <2> HIDE DEF t
  <2>5. t.leader = ~LockTaken BY <2>3, <2>4 DEF free
  <2> QED BY <1>0, <2>2, <2>4, <2>5 DEF WorkerState, Config
<1> HIDE DEF t
<1>5. /\ r \in WorkerState /\ LedLoops(r) /\ r.config = s.config /\ r.loading = s.loading
      /\ r.phase = "up" /\ r.leader = ~LockTaken
  BY <1>4, ReconciledFits
<1> HIDE DEF r
<1>6. HonestCopy(worker[w])' BY <1>0, <1>u, <1>2, <1>5 DEF HonestCopy
<1>7. LedLoops(worker[w])' BY <1>2, <1>5 DEF LedLoops
<1>8. PagesMoved(worker[w])' BY <1>2, <1>5 DEF PagesMoved
<1>9. worker'[w].leader => ~LockTaken BY <1>2, <1>5
<1> QED BY <1>u, <1>2, <1>5, <1>6, <1>7, <1>8, <1>9, WorkerGoes

LEMMA LoopTickKeeps == ASSUME WorkersInv, NEW w \in WebWorker, LoopTick(w) PROVE WorkersInv'
<1> DEFINE s == worker[w]
<1>0. /\ s \in WorkerState /\ HonestCopy(s) /\ LedLoops(s) /\ PagesMoved(s)
  BY WorkerKnown
<1>u. UNCHANGED <<store, files, updates, starts>> BY DEF LoopTick
<1>1. PICK r : /\ WorkerBecomes(w, r) /\ r \in WorkerState
               /\ r.config = s.config /\ r.loading = s.loading /\ r.phase = s.phase
               /\ r.page = s.page /\ r.leader = s.leader /\ r.strategy = s.strategy
               /\ r.loops # "off" => s.loops # "off"
  <2>1. CASE s.loops = "waiting" /\ WorkerBecomes(w, [s EXCEPT !.loops = "refreshing"])
    BY <1>0, <2>1 DEF WorkerState
  <2>2. CASE s.loops = "refreshing" /\ WorkerBecomes(w, [s EXCEPT !.loops = "waiting"])
    BY <1>0, <2>2 DEF WorkerState
  <2>3. CASE WorkerBecomes(w, [s EXCEPT !.dying = FALSE])
    <3> DEFINE r == [s EXCEPT !.dying = FALSE]
    <3>1. /\ r \in WorkerState
          /\ r.config = s.config /\ r.loading = s.loading /\ r.phase = s.phase
          /\ r.page = s.page /\ r.leader = s.leader /\ r.strategy = s.strategy
          /\ r.loops = s.loops
      BY <1>0 DEF WorkerState
    <3>2. WorkerBecomes(w, r) BY <2>3
    <3> HIDE DEF r
    <3> QED BY <3>1, <3>2
  <2> QED BY <2>1, <2>2, <2>3 DEF LoopTick
<1>2. worker'[w] = r /\ worker' = [worker EXCEPT ![w] = worker'[w]]
  BY <1>1, WorkerKnown
<1>3. HonestCopy(worker[w])' BY <1>0, <1>u, <1>1, <1>2 DEF HonestCopy
<1>4. LedLoops(worker[w])' BY <1>0, <1>1, <1>2 DEF LedLoops
<1>5. PagesMoved(worker[w])' BY <1>0, <1>u, <1>1, <1>2 DEF PagesMoved, files
<1> QED BY <1>u, <1>1, <1>2, <1>3, <1>4, <1>5, WorkerGoes

LEMMA ShutdownKeeps == ASSUME WorkersInv, NEW w \in WebWorker, Shutdown(w) PROVE WorkersInv'
<1> DEFINE s == worker[w]
           r == Released(s)
<1>0. s \in WorkerState /\ HonestCopy(s) BY WorkerKnown
<1>u. UNCHANGED <<store, files, updates, starts>> BY DEF Shutdown
<1>1. WorkerBecomes(w, r) BY DEF Shutdown
<1>2. worker'[w] = r /\ worker' = [worker EXCEPT ![w] = worker'[w]]
  BY <1>1, WorkerKnown
<1>3. /\ r \in WorkerState /\ r.phase = "closing" /\ r.config = s.config
      /\ r.loading = s.loading /\ ~r.leader /\ r.loops = "off"
  BY <1>0 DEF WorkerState, Released
<1> HIDE DEF r
<1>4. HonestCopy(worker[w])' BY <1>0, <1>u, <1>2, <1>3 DEF HonestCopy
<1>5. LedLoops(worker[w])' BY <1>2, <1>3 DEF LedLoops
<1>6. PagesMoved(worker[w])' BY <1>2, <1>3 DEF PagesMoved
<1> QED BY <1>u, <1>2, <1>3, <1>4, <1>5, <1>6, WorkerGoes

LEMMA ExitKeeps == ASSUME WorkersInv, NEW w \in WebWorker, Exit(w) PROVE WorkersInv'
<1>1. FilesFit' /\ DOMAIN target \subseteq DOMAIN target'
  BY DEF Exit, files, FilesFit, WorkersInv
<1> QED BY <1>1, WorkerDown DEF Exit

LEMMA WorkersInvHolds == WorkersSpec => []WorkersInv
<1>1. WorkersInit => WorkersInv
  <2> SUFFICES ASSUME WorkersInit PROVE WorkersInv OBVIOUS
  <2>1. \A w \in WebWorker : worker[w] = Down BY DEF WorkersInit
  <2>2. store.version = 1 /\ store.version \in Versions /\ store.enabled \in BOOLEAN
    BY WorkersAssumption DEF WorkersInit, Versions
  <2>3. WorkersTyped
    BY <2>2, WorkersAssumption, DownFits DEF WorkersInit, WorkersTyped, Versions
  <2>4. DOMAIN target = {} BY DEF WorkersInit
  <2>5. FilesFit BY <2>4 DEF WorkersInit, FilesFit
  <2>6. \A w \in WebWorker :
            HonestCopy(worker[w]) /\ LedLoops(worker[w]) /\ PagesMoved(worker[w])
    BY <2>1, <2>2, DownFits DEF HonestCopy, LedLoops, PagesMoved, None
  <2>7. OneLeader BY <2>1, DownFits DEF OneLeader
  <2> QED BY <2>3, <2>5, <2>6, <2>7 DEF WorkersInv
<1>2. WorkersInv /\ [WorkersNext]_workersVars => WorkersInv'
  <2> SUFFICES ASSUME WorkersInv, [WorkersNext]_workersVars PROVE WorkersInv' OBVIOUS
  <2>1. CASE WorkersNext
    BY <2>1, BootKeeps, BeginLoadKeeps, EndLoadKeeps, UpdateKeeps, CheckKeeps, OpenKeeps,
       UpsertKeeps, PatchKeeps, DeleteKeeps, RenameKeeps, ElectKeeps, LoopTickKeeps,
       ShutdownKeeps, ExitKeeps DEF WorkersNext
  <2>2. CASE UNCHANGED workersVars
    BY <2>2 DEF workersVars, WorkersInv, WorkersTyped, FilesFit, HonestCopy, LedLoops,
                PagesMoved, OneLeader
  <2> QED BY <2>1, <2>2
<1> QED BY <1>1, <1>2, PTL DEF WorkersSpec

-----------------------------------------------------------------------------
\* CopiesAreHonest: a worker whose copy of the configuration bears the backend's version
\* has the backend's data, though a load reads the version before the data.
THEOREM CopiesAreHonestHolds == WorkersSpec => []CopiesAreHonest
<1>1. WorkersInv => CopiesAreHonest
  BY DEF WorkersInv, HonestCopy, CopiesAreHonest
<1> QED BY <1>1, WorkersInvHolds, PTL

\* OneScheduler: for any number of workers, however they start, stop and are killed, one
\* at most runs the refresh loops, and it leads and follows its own strategy.
THEOREM OneSchedulerHolds == WorkersSpec => []OneScheduler
<1>1. WorkersInv => OneScheduler
  <2> SUFFICES ASSUME WorkersInv PROVE OneScheduler OBVIOUS
  <2> DEFINE R == {w \in WebWorker : worker[w].loops # "off"}
  <2>1. \A w \in WebWorker : worker[w].loops # "off" =>
            worker[w].leader /\ worker[w].strategy = "quota"
    BY DEF WorkersInv, LedLoops
  <2>2. R = {} \/ \E w : R = {w}
    BY <2>1 DEF WorkersInv, OneLeader
  <2>3. Cardinality(R) <= 1
    <3> HIDE DEF R
    <3> QED BY <2>2, FS_EmptySet, FS_Singleton
  <2> QED BY <2>1, <2>3 DEF OneScheduler
<1> QED BY <1>1, WorkersInvHolds, PTL

\* NoAccountLeftBehind: for any number of accounts and pages, once the old file is out of
\* the way every account of it is in the new backend, though workers race to move them
\* and are killed on the way.
THEOREM NoAccountLeftBehindHolds == WorkersSpec => []NoAccountLeftBehind
<1>1. WorkersInv => NoAccountLeftBehind
  BY DEF WorkersInv, FilesFit, NoAccountLeftBehind
<1> QED BY <1>1, WorkersInvHolds, PTL

-----------------------------------------------------------------------------
(*****************************************************************************)
(* The media cache.                                                          *)
(*****************************************************************************)

\* What is not counted is known: between operations by the index, within one that saves
\* or reconciles by the rows of its transaction, within a deletion by what is left of the
\* index.  A save keeps its file and its row.
Counted ==
    CASE guard.op \in {"save", "reconcile"} -> DOMAIN guard.rows
      [] guard.op = "delete"                -> DOMAIN index \ guard.kept
      [] OTHER                              -> DOMAIN index

GuardShape == guard = [process |-> guard.process, op |-> guard.op, kept |-> guard.kept,
                       rows |-> guard.rows, trim |-> guard.trim, passed |-> guard.passed]

CacheInv ==
    /\ GuardShape
    /\ guard.op \in {"none", "save", "reconcile", "delete"}
    /\ Free => guard.op = "none"
    /\ guard.op = "none" => guard = NoGuard
    /\ guard.trim => guard.op \in {"save", "reconcile"}
    /\ DOMAIN disk \ Counted \subseteq stray
    /\ guard.op \in {"save", "reconcile"} => guard.kept \subseteq DOMAIN guard.rows
    /\ guard.op = "save" => guard.kept \subseteq DOMAIN disk

\* An operation begins while the lock is free.
LEMMA FreeCounts == ASSUME CacheInv, Free PROVE DOMAIN disk \ DOMAIN index \subseteq stray
  BY DEF CacheInv, Counted

LEMMA PutAdds == \A f, n, fn : DOMAIN Put(f, n, fn) = DOMAIN fn \cup {f}
  BY DEF Put

LEMMA LockedCounts ==
    ASSUME NEW p \in Process, NEW op \in {"save", "reconcile"}, NEW kept, NEW rows,
           Locked(p, op, kept, rows), kept \subseteq DOMAIN rows,
           op = "save" => kept \subseteq DOMAIN disk',
           DOMAIN disk' \ DOMAIN rows \subseteq stray'
    PROVE  CacheInv'
<1>1. /\ guard'.process = p /\ guard'.op = op /\ guard'.kept = kept /\ guard'.rows = rows
  BY DEF Locked
<1>0. GuardShape' BY DEF Locked, GuardShape
<1>2. ~Free' BY <1>1, CacheAssumption DEF Free
<1>3. guard'.op # "none" /\ guard'.op # "delete" BY <1>1
<1> QED BY <1>0, <1>1, <1>2, <1>3 DEF CacheInv, Counted

LEMMA SaveKeeps ==
    ASSUME CacheInv, NEW p \in Process, NEW f \in File,
           (\E n \in Size : SaveUnlimited(p, f, n) \/ SaveNew(p, f, n)) \/ SaveAgain(p, f)
    PROVE  CacheInv'
<1>1. ASSUME NEW n \in Size, SaveUnlimited(p, f, n) PROVE CacheInv'
  <2>1. /\ DOMAIN disk' = DOMAIN disk \cup {f} /\ stray' = stray \cup {f}
        /\ UNCHANGED <<index, guard>>
    BY <1>1, PutAdds DEF SaveUnlimited
  <2>2. Counted' = Counted BY <2>1 DEF Counted
  <2>3. Free' = Free BY <2>1 DEF Free
  <2> QED BY <2>1, <2>2, <2>3 DEF CacheInv, GuardShape
<1>2. ASSUME NEW n \in Size, SaveNew(p, f, n) PROVE CacheInv'
  <2> DEFINE rows == Put(f, [size |-> n, created |-> clock'], index)
  <2>1. /\ Locked(p, "save", {f}, rows) /\ Free /\ stray' = stray
        /\ DOMAIN disk' = DOMAIN disk \cup {f}
    BY <1>2, PutAdds DEF SaveNew, RowAdded
  <2>2. DOMAIN rows = DOMAIN index \cup {f} BY PutAdds
  <2> HIDE DEF rows
  <2> QED BY <2>1, <2>2, FreeCounts, LockedCounts
<1>3. ASSUME SaveAgain(p, f) PROVE CacheInv'
  <2>1. PICK date \in 0..clock : Locked(p, "save", {f}, RowAdded(f, disk[f], date))
    BY <1>3 DEF SaveAgain
  <2> DEFINE rows == Put(f, [size |-> disk[f], created |-> date], index)
  <2>2. /\ Locked(p, "save", {f}, rows) /\ Free /\ UNCHANGED <<disk, stray>>
        /\ f \in DOMAIN disk
    BY <1>3, <2>1 DEF SaveAgain, RowAdded
  <2>3. DOMAIN rows = DOMAIN index \cup {f} BY PutAdds
  <2> HIDE DEF rows
  <2> QED BY <2>2, <2>3, FreeCounts, LockedCounts
<1> QED BY <1>1, <1>2, <1>3

LEMMA ReconcileKeeps == ASSUME CacheInv, NEW p \in Process, Reconcile(p) PROVE CacheInv'
<1>1. PICK date \in 0..clock :
          Locked(p, "reconcile", {},
                 [f \in DOMAIN disk |-> [size |-> disk[f],
                      created |-> IF f \in DOMAIN index THEN index[f].created ELSE date]])
  BY DEF Reconcile
<1> DEFINE rows == [f \in DOMAIN disk |-> [size |-> disk[f],
                       created |-> IF f \in DOMAIN index THEN index[f].created ELSE date]]
<1>2. Locked(p, "reconcile", {}, rows) /\ DOMAIN rows = DOMAIN disk BY <1>1
<1>3. UNCHANGED <<disk, stray>> BY DEF Reconcile
<1> HIDE DEF rows
<1> QED BY <1>2, <1>3, LockedCounts

LEMMA TrimKeeps == ASSUME CacheInv, Evict \/ EvictFails PROVE CacheInv'
<1>1. guard.op \in {"save", "reconcile"}
  BY DEF CacheInv, Evict, EvictFails, Trimming
<1>2. ASSUME Evict PROVE CacheInv'
  <2>1. PICK f \in Oldest :
            /\ disk' = Restrict(disk, DOMAIN disk \ {f})
            /\ guard' = [guard EXCEPT !.rows = Restrict(guard.rows, DOMAIN guard.rows \ {f})]
    BY <1>2 DEF Evict
  <2>2. f \notin guard.kept BY DEF Oldest, Removable, Protected
  <2> DEFINE rows == Restrict(guard.rows, DOMAIN guard.rows \ {f})
  <2>3. DOMAIN rows = DOMAIN guard.rows \ {f} /\ DOMAIN disk' = DOMAIN disk \ {f}
    BY <2>1 DEF Restrict
  <2>4. guard' = [guard EXCEPT !.rows = rows] BY <2>1
  <2> HIDE DEF rows
  <2>5. /\ GuardShape' /\ guard'.process = guard.process /\ guard'.op = guard.op
        /\ guard'.kept = guard.kept /\ guard'.rows = rows /\ guard'.trim = guard.trim
    BY <2>4 DEF CacheInv, GuardShape
  <2>6. UNCHANGED stray BY <1>2 DEF Evict
  <2>7. Counted = DOMAIN guard.rows /\ Counted' = DOMAIN rows BY <1>1, <2>5 DEF Counted
  <2> QED BY <1>1, <2>2, <2>3, <2>5, <2>6, <2>7 DEF CacheInv, Free
<1>3. ASSUME EvictFails PROVE CacheInv'
  <2>1. PICK f \in Oldest : guard' = [guard EXCEPT !.passed = guard.passed \cup {f}]
    BY <1>3 DEF EvictFails
  <2>2. /\ GuardShape' /\ guard'.process = guard.process /\ guard'.op = guard.op
        /\ guard'.kept = guard.kept /\ guard'.rows = guard.rows /\ guard'.trim = guard.trim
    BY <2>1 DEF CacheInv, GuardShape
  <2>3. UNCHANGED <<disk, index, stray>> BY <1>3 DEF EvictFails
  <2> QED BY <1>1, <2>2, <2>3 DEF CacheInv, Free, Counted
<1> QED BY <1>2, <1>3

LEMMA DeletionKeeps ==
    ASSUME CacheInv, (\E p \in Process, F \in SUBSET File : DeleteFiles(p, F)) \/ DeleteRows
    PROVE  CacheInv'
<1>1. ASSUME NEW p \in Process, NEW F \in SUBSET File, DeleteFiles(p, F) PROVE CacheInv'
  <2>1. /\ Free /\ DOMAIN disk' = DOMAIN disk \ F /\ stray' = stray \ F /\ index' = index
        /\ guard'.process = p /\ guard'.op = "delete" /\ guard'.kept = F
        /\ guard'.trim = FALSE /\ GuardShape'
    BY <1>1 DEF DeleteFiles, Restrict, NoGuard, GuardShape
  <2>2. ~Free' BY <2>1, CacheAssumption DEF Free
  <2>3. Counted' = DOMAIN index \ F BY <2>1 DEF Counted
  <2> QED BY <2>1, <2>2, <2>3, FreeCounts DEF CacheInv, GuardShape
<1>2. ASSUME DeleteRows PROVE CacheInv'
  <2>1. /\ guard.op = "delete" /\ DOMAIN index' = DOMAIN index \ guard.kept
        /\ guard' = NoGuard /\ UNCHANGED <<disk, stray>>
    BY <1>2 DEF DeleteRows, Restrict
  <2>2. Counted' = DOMAIN index' /\ Counted = DOMAIN index \ guard.kept
    BY <2>1 DEF Counted, NoGuard
  <2> QED BY <2>1, <2>2 DEF CacheInv, GuardShape, NoGuard
<1> QED BY <1>1, <1>2

LEMMA EndKeeps == ASSUME CacheInv, Commit \/ Crash PROVE CacheInv'
<1>1. CASE Commit
  <2>1. /\ guard.op \in {"save", "reconcile"} /\ index' = guard.rows /\ guard' = NoGuard
        /\ disk' = disk
        /\ stray' = IF guard.op = "reconcile" THEN stray \ DOMAIN guard.rows
                                              ELSE stray \ guard.kept
    BY <1>1 DEF Commit
  <2>2. Counted' = DOMAIN guard.rows /\ Counted = DOMAIN guard.rows
    BY <2>1 DEF Counted, NoGuard
  <2>3. DOMAIN disk' \ Counted' \subseteq stray' BY <2>1, <2>2 DEF CacheInv
  <2> QED BY <2>1, <2>3 DEF CacheInv, GuardShape, NoGuard
<1>2. CASE Crash
  <2>1. /\ guard' = NoGuard /\ UNCHANGED <<disk, index>>
        /\ stray' = stray \cup (DOMAIN disk \ DOMAIN index)
    BY <1>2 DEF Crash
  <2>2. Counted' = DOMAIN index BY <2>1 DEF Counted, NoGuard
  <2> QED BY <2>1, <2>2 DEF CacheInv, GuardShape, NoGuard
<1> QED BY <1>1, <1>2

LEMMA CacheInvHolds == CacheSpec => []CacheInv
<1>1. CacheInit => CacheInv BY DEF CacheInit, CacheInv, Counted, GuardShape, NoGuard
<1>2. CacheInv /\ [CacheNext]_cacheVars => CacheInv'
  <2> SUFFICES ASSUME CacheInv, [CacheNext]_cacheVars PROVE CacheInv' OBVIOUS
  <2>1. ASSUME UNCHANGED <<disk, index, guard, stray>> PROVE CacheInv'
    BY <2>1 DEF CacheInv, Counted, Free, GuardShape
  <2>2. ASSUME NEW p \in Process, NEW n \in Limits, SetLimit(p, n) PROVE CacheInv'
    BY <2>1, <2>2 DEF SetLimit
  <2>3. CASE UNCHANGED cacheVars BY <2>1, <2>3 DEF cacheVars
  <2> QED BY <2>2, <2>3, SaveKeeps, ReconcileKeeps, TrimKeeps, EndKeeps, DeletionKeeps
          DEF CacheNext
<1> QED BY <1>1, <1>2, PTL DEF CacheSpec

LEMMA FaultsCounted == CacheSpec => [](faults \in Nat)
<1>1. CacheInit => faults \in Nat BY DEF CacheInit
<1>2. faults \in Nat /\ [CacheNext]_cacheVars => (faults \in Nat)'
  <2>1. [CacheNext]_cacheVars => faults' = faults \/ faults' = faults + 1
    BY DEF CacheNext, SaveUnlimited, SaveNew, SaveAgain, Reconcile, Evict, EvictFails, Commit,
           DeleteFiles, DeleteRows, Crash, SetLimit, cacheVars
  <2> QED BY <2>1
<1> QED BY <1>1, <1>2, PTL DEF CacheSpec

\* Between operations a file that is not in the index was saved without a limit or in an
\* operation that crashed, whatever the processes save, trim, delete and reconcile.
THEOREM NothingUncountedHolds == CacheSpec => []NothingUncounted
<1>1. CacheInv => NothingUncounted BY FreeCounts DEF NothingUncounted
<1> QED BY <1>1, CacheInvHolds, PTL

\* A save that does not die ends with its file in place, whatever its trimming removes and
\* whatever other processes do meanwhile.
THEOREM SavedStaysHolds == CacheSpec => SavedStays
<1>1. CacheInv /\ faults \in Nat /\ [CacheNext]_cacheVars
          => [Free' /\ guard.op = "save" /\ faults' = faults
                  => guard.kept \subseteq DOMAIN disk']_cacheVars
  <2> SUFFICES ASSUME CacheInv, faults \in Nat, CacheNext, Free',
                      guard.op = "save", faults' = faults
               PROVE  guard.kept \subseteq DOMAIN disk'
    OBVIOUS
  <2>1. /\ guard.op = "save" /\ guard.kept \subseteq DOMAIN disk
        /\ guard.process # NoProcess /\ guard'.process = NoProcess
    BY DEF CacheInv, Free
  <2>2. CASE Commit BY <2>1, <2>2 DEF Commit
  <2>3. ASSUME NEW p \in Process, NEW n \in Limits, SetLimit(p, n) PROVE FALSE
    BY <2>1, <2>3 DEF SetLimit
  <2>4. ASSUME NEW p \in Process, NEW f \in File, NEW n \in Size, SaveUnlimited(p, f, n)
        PROVE  FALSE
    BY <2>1, <2>4 DEF SaveUnlimited
  <2>5. CASE Evict \/ EvictFails
    <3>1. guard'.process = guard.process
      BY <2>5 DEF Evict, EvictFails, CacheInv, GuardShape
    <3> QED BY <2>1, <3>1
  <2>6. CASE Crash BY <2>6 DEF Crash
  <2>7. CASE DeleteRows BY <2>1, <2>7 DEF DeleteRows
  <2>8. ~Free BY <2>1 DEF Free
  <2> QED BY <2>2, <2>3, <2>4, <2>5, <2>6, <2>7, <2>8
          DEF CacheNext, SaveNew, SaveAgain, Reconcile, DeleteFiles
<1> QED BY <1>1, CacheInvHolds, FaultsCounted, PTL DEF CacheSpec, SavedStays

-----------------------------------------------------------------------------
(*****************************************************************************)
(* The availability of sources.                                              *)
(*****************************************************************************)

\* A finite set of numbers that has a member has a greatest one: a smallest set without
\* one would, with a member less, be empty or have one.
LEMMA GreatestExists ==
    ASSUME NEW S \in SUBSET Nat, IsFiniteSet(S), S # {}
    PROVE  \E m \in S : \A n \in S : m >= n
<1> DEFINE Tops(T) == {m \in T : \A n \in T : m >= n}
           Bad == {T \in SUBSET S : T # {} /\ Tops(T) = {}}
<1>1. SUFFICES ASSUME Bad # {} PROVE FALSE
  OBVIOUS
<1>2. IsWellFoundedOn(StrictSubsetOrdering(S), SUBSET S)
  BY FS_StrictSubsetOrderingWellFounded, FS_FiniteSubsetsOfFinite
<1>3. PICK T \in Bad : \A U \in Bad : <<U, T>> \notin StrictSubsetOrdering(S)
  <2> HIDE DEF Bad
  <2>1. Bad \subseteq SUBSET S
    BY DEF Bad
  <2> QED
    BY <1>1, <1>2, <2>1, WFMin
<1>4. PICK x \in T : TRUE
  OBVIOUS
<1>5. T \ {x} \notin Bad
  BY <1>3, <1>4 DEF StrictSubsetOrdering
<1>6. CASE T \ {x} = {}
  <2>1. T = {x} /\ x \in Nat
    BY <1>4, <1>6
  <2> QED
    BY <2>1
<1>7. CASE T \ {x} # {}
  <2>1. PICK m \in T \ {x} : \A n \in T \ {x} : m >= n
    BY <1>5, <1>7
  <2>2. x \in Nat /\ m \in Nat /\ T \subseteq Nat
    BY <1>4
  <2>3. CASE m >= x
    <3>1. m \in Tops(T)
      BY <2>1, <2>3
    <3> QED
      BY <3>1
  <2>4. CASE x >= m
    <3>1. x \in Tops(T)
      BY <2>1, <2>2, <2>4
    <3> QED
      BY <3>1
  <2> QED
    BY <2>2, <2>3, <2>4
<1> QED
  BY <1>6, <1>7

LEMMA MaxBounds == ASSUME NEW S \in SUBSET Nat, IsFiniteSet(S), S # {}
                   PROVE  Max(S) \in S /\ \A n \in S : n <= Max(S)
  BY GreatestExists DEF Max

LEMMA MinOfTwo == ASSUME NEW a \in Nat, NEW b \in Nat
                  PROVE  Min({a, b}) \in {a, b} /\ Min({a, b}) <= a /\ Min({a, b}) <= b
<1>1. \E x \in {a, b} : \A y \in {a, b} : x <= y
  OBVIOUS
<1> QED
  BY <1>1 DEF Min

LEMMA PowersOfTwo == ASSUME NEW n \in 0..10 PROVE 2^n \in Nat
<1>1. n \in {0, 1, 2, 3, 4, 5, 6, 7, 8, 9, 10}
  OBVIOUS
<1>2. /\ 2^0 \in Nat /\ 2^1 \in Nat /\ 2^2 \in Nat /\ 2^3 \in Nat /\ 2^4 \in Nat /\ 2^5 \in Nat
      /\ 2^6 \in Nat /\ 2^7 \in Nat /\ 2^8 \in Nat /\ 2^9 \in Nat /\ 2^10 \in Nat
  OBVIOUS
<1> QED
  BY <1>1, <1>2

-----------------------------------------------------------------------------
\* A date is a number and before Never, whatever the answer says.
Longest == Max(RetryAfter \cup {0})

LEMMA NeverIsLater ==
    /\ Longest \in Nat /\ \A d \in RetryAfter : d \in Nat /\ d <= Longest
    /\ Never = MaxTime + FreeRecovery + MaxBackoff + Longest + 1 /\ Never \in Nat
<1> DEFINE S == RetryAfter \cup {0}
<1>1. S \in SUBSET Nat /\ S # {}
  BY AvailabilityAssumption
<1>2. IsFiniteSet(S)
  BY FS_Singleton, FS_Union, AvailabilityAssumption
<1>3. Max(S) \in S /\ \A d \in S : d <= Max(S)
  <2> HIDE DEF S
  <2> QED
    BY <1>1, <1>2, MaxBounds
<1>4. Longest = Max(S)
  BY DEF Longest
<1> HIDE DEF S
<1>5. Longest \in Nat
  BY <1>1, <1>3, <1>4
<1>6. \A d \in RetryAfter : d \in S
  BY DEF S
<1>7. Never = MaxTime + FreeRecovery + MaxBackoff + Longest + 1
  BY DEF Never, Longest
<1>8. Never \in Nat
  <2> HIDE DEF Longest, Never
  <2> QED
    BY <1>5, <1>7, AvailabilityAssumption
<1> HIDE DEF Longest, Never
<1> QED
  BY <1>1, <1>3, <1>4, <1>5, <1>6, <1>7, <1>8

LEMMA LimitedTypes ==
    ASSUME AvailabilityTypeOK, NEW r \in RowType, NEW free \in BOOLEAN, NEW d \in Delays(r, free)
    PROVE  /\ Limited(r, free, d) \in RowType
           /\ Limited(r, free, d).retry < Never
           /\ Limited(r, free, d).state = IF free THEN "blocked" ELSE "cooldown"
<1>1. r.failures \in 0..10 /\ now \in 0..MaxTime
  BY DEF RowType, AvailabilityTypeOK
<1>2. Min({10, r.failures + 1}) \in 0..10
  <2>1. 10 \in Nat /\ r.failures + 1 \in Nat
    BY <1>1
  <2> QED
    BY <1>1, <2>1, MinOfTwo
<1>3. CalculatedBackoff(r.failures) \in Nat /\ CalculatedBackoff(r.failures) <= MaxBackoff
  <2> DEFINE p == 2^r.failures
             x == Backoff * p
  <2>1. p \in Nat
    BY <1>1, PowersOfTwo
  <2> HIDE DEF p
  <2>2. x \in Nat /\ MaxBackoff \in Nat
    BY <2>1, AvailabilityAssumption
  <2>3. CalculatedBackoff(r.failures) = Min({MaxBackoff, x})
    BY DEF CalculatedBackoff, p
  <2> HIDE DEF x
  <2> QED
    BY <2>2, <2>3, MinOfTwo
<1>4. d \in Nat /\ now + d < Never /\ now + d \in 0..Never
  <2>1. d \in RetryAfter \/ d = FreeRecovery \/ d = CalculatedBackoff(r.failures)
    BY DEF Delays
  <2> DEFINE c == CalculatedBackoff(r.failures)
  <2> HIDE DEF c
  <2>2. c \in Nat /\ c <= MaxBackoff
    BY <1>3 DEF c
  <2>3. Longest \in Nat /\ FreeRecovery \in Nat /\ MaxBackoff \in Nat /\ MaxTime \in Nat
    BY NeverIsLater, AvailabilityAssumption
  <2>4. \/ d \in Nat /\ d <= Longest
        \/ d = FreeRecovery \/ d = c
    BY <2>1, NeverIsLater DEF c
  <2>5. d \in Nat /\ d <= FreeRecovery + MaxBackoff + Longest
    BY <2>2, <2>3, <2>4
  <2> QED
    BY <1>1, <2>3, <2>5, NeverIsLater
<1>5. /\ Limited(r, free, d).retry = now + d
      /\ Limited(r, free, d).state = IF free THEN "blocked" ELSE "cooldown"
  BY DEF Limited
<1>6. Limited(r, free, d) \in RowType
  BY <1>2, <1>4 DEF Limited, RowType
<1> QED
  BY <1>4, <1>5, <1>6

\* Cooling rows have a date.
Dated(r) == r.state \in {"cooldown", "blocked"} => r.retry < Never
AvailabilityInv == AvailabilityTypeOK /\ \A s \in Source : Dated(row[s])

LEMMA ReadyTypes == Ready \in RowType /\ Ready.state = "ready" /\ Dated(Ready)
<1>1. Never \in 0..Never
  BY NeverIsLater
<1> QED
  BY <1>1 DEF Ready, RowType, Dated

LEMMA ExpiredTypes ==
    ASSUME AvailabilityInv
    PROVE  /\ Expired \in [Source -> RowType]
           /\ \A s \in Source : Dated(Expired[s]) /\ Expired[s] \in {row[s], Ready}
           /\ \A s \in Source : Expired[s] # row[s] => Due(row[s])
  BY ReadyTypes DEF AvailabilityInv, AvailabilityTypeOK, Expired

LEMMA VerdictTypes ==
    ASSUME AvailabilityInv, NEW r \in RowType, Dated(r), NEW o, NEW v \in Verdicts(r, o)
    PROVE  /\ v \in RowType /\ Dated(v)
           /\ r.state = "disabled" => v = r
           /\ v.state = "ready" /\ r.state # "ready" => o = "success"
<1>1. \/ v = r
      \/ r.state # "disabled" /\ o = "success" /\ v = Ready
      \/ /\ r.state # "disabled"
         /\ \E free \in BOOLEAN : \E d \in Delays(r, free) : v = Limited(r, free, d)
  <2>1. CASE r.state = "disabled"
    BY <2>1 DEF Verdicts, JudgedAnew
  <2>2. CASE r.state # "disabled" /\ o = "success"
    BY <2>2 DEF Verdicts, JudgedAnew
  <2>3. CASE r.state # "disabled" /\ o = "limited"
    <3>1. v \in {Limited(r, FALSE, d) : d \in Delays(r, FALSE)}
      BY <2>3 DEF Verdicts, JudgedAnew
    <3> QED
      BY <2>3, <3>1
  <2>4. CASE r.state # "disabled" /\ o = "free"
    <3>1. v \in {Limited(r, TRUE, d) : d \in Delays(r, TRUE)}
      BY <2>4 DEF Verdicts, JudgedAnew
    <3> QED
      BY <2>4, <3>1
  <2>5. CASE r.state # "disabled" /\ o \notin {"success", "limited", "free"}
    BY <2>5 DEF Verdicts, JudgedAnew
  <2> QED
    BY <2>1, <2>2, <2>3, <2>4, <2>5
<1>2. ASSUME NEW free \in BOOLEAN, NEW d \in Delays(r, free), v = Limited(r, free, d)
      PROVE  v \in RowType /\ Dated(v) /\ v.state # "ready"
  BY <1>2, LimitedTypes DEF Dated, AvailabilityInv
<1> QED
  BY <1>1, <1>2, ReadyTypes

LEMMA AvailabilityInitInv == AvailabilityInit => AvailabilityInv
  BY ReadyTypes, AvailabilityAssumption DEF AvailabilityInit, AvailabilityInv, AvailabilityTypeOK

LEMMA AvailabilityStepInv == AvailabilityInv /\ [AvailabilityNext]_availabilityVars => AvailabilityInv'
<1> SUFFICES ASSUME AvailabilityInv, [AvailabilityNext]_availabilityVars PROVE AvailabilityInv'
  OBVIOUS
<1> USE DEF AvailabilityInv, AvailabilityTypeOK
<1>1. ASSUME NEW s \in Source, NEW o, mark_result(s, o) PROVE AvailabilityInv'
  <2>1. PICK v \in Verdicts(Expired[s], o) : row' = [Expired EXCEPT ![s] = v]
    BY <1>1 DEF mark_result
  <2>2. v \in RowType /\ Dated(v)
    BY ExpiredTypes, VerdictTypes
  <2>3. row' \in [Source -> RowType] /\ \A x \in Source : Dated(row'[x])
    BY <2>1, <2>2, ExpiredTypes
  <2>4. now' = now
    BY <1>1 DEF mark_result
  <2> QED
    BY <2>3, <2>4 DEF Dated
<1>2. CASE filter_candidates
  <2>1. row' = Expired /\ now' = now
    BY <1>2 DEF filter_candidates
  <2> QED
    BY <2>1, ExpiredTypes DEF Dated
<1>3. CASE Pass
  BY <1>3, AvailabilityAssumption DEF Pass, Dated
<1>4. ASSUME NEW s \in Source, NEW d \in BOOLEAN, set_disabled(s, d) PROVE AvailabilityInv'
  <2> DEFINE v == [Ready EXCEPT !.state = IF d THEN "disabled" ELSE "ready"]
  <2>1. v \in RowType /\ Dated(v)
    BY ReadyTypes DEF Dated, RowType
  <2>2. row' = [row EXCEPT ![s] = v] /\ now' = now
    BY <1>4 DEF set_disabled
  <2> HIDE DEF v
  <2>3. row' \in [Source -> RowType] /\ \A x \in Source : Dated(row'[x])
    BY <2>1, <2>2
  <2> QED
    BY <2>2, <2>3 DEF Dated
<1>5. CASE UNCHANGED availabilityVars
  BY <1>5 DEF availabilityVars, Dated
<1> QED
  BY <1>1, <1>2, <1>3, <1>4, <1>5 DEF AvailabilityNext

-----------------------------------------------------------------------------
\* What a step does to one row.
BackInTime(s) ==
    /\ (row[s].state = "disabled" /\ row'[s].state # "disabled") => set_disabled(s, FALSE)
    /\ row[s].state \in {"cooldown", "blocked"} =>
          /\ row[s].retry < Never
          /\ row'[s].state = "ready" =>
                Due(row[s]) \/ mark_result(s, "success") \/ set_disabled(s, FALSE)

LEMMA StepsComeBackInTime ==
    ASSUME AvailabilityInv, AvailabilityNext, NEW s \in Source
    PROVE  BackInTime(s)
<1> SUFFICES /\ (row[s].state = "disabled" /\ row'[s].state # "disabled") => set_disabled(s, FALSE)
             /\ (row[s].state \in {"cooldown", "blocked"} /\ row'[s].state = "ready") =>
                   Due(row[s]) \/ mark_result(s, "success") \/ set_disabled(s, FALSE)
  BY DEF BackInTime, AvailabilityInv, Dated
<1>0. /\ Expired[s].state # row[s].state => Due(row[s])
      /\ Due(row[s]) => row[s].state # "disabled"
  BY ExpiredTypes DEF Due
<1>1. ASSUME NEW x \in Source, NEW o, mark_result(x, o)
      PROVE  /\ row[s].state = "disabled" => row'[s].state = "disabled"
             /\ (row[s].state \in {"cooldown", "blocked"} /\ row'[s].state = "ready") =>
                   Due(row[s]) \/ mark_result(s, "success")
  <2>1. PICK v \in Verdicts(Expired[x], o) : row' = [Expired EXCEPT ![x] = v]
    BY <1>1 DEF mark_result
  <2>2. row'[s] = IF s = x THEN v ELSE Expired[s]
    BY <2>1, ExpiredTypes
  <2>3. /\ Expired[x].state = "disabled" => v = Expired[x]
        /\ v.state = "ready" /\ Expired[x].state # "ready" => o = "success"
    BY ExpiredTypes, VerdictTypes
  <2> QED
    BY <1>0, <1>1, <2>2, <2>3
<1>2. CASE filter_candidates
  BY <1>0, <1>2 DEF filter_candidates
<1>3. CASE Pass
  BY <1>3 DEF Pass
<1>4. ASSUME NEW x \in Source, NEW d \in BOOLEAN, set_disabled(x, d)
      PROVE  row'[s].state = row[s].state \/ row'[s].state = "disabled" \/ set_disabled(s, FALSE)
  <2>1. row' = [row EXCEPT ![x] = [Ready EXCEPT !.state = IF d THEN "disabled" ELSE "ready"]]
    BY <1>4 DEF set_disabled
  <2>2. x # s => row'[s] = row[s]
    BY <2>1 DEF AvailabilityInv, AvailabilityTypeOK
  <2>3. x = s /\ d => row'[s].state = "disabled"
    BY <2>1 DEF AvailabilityInv, AvailabilityTypeOK, Ready
  <2> QED
    BY <1>4, <2>2, <2>3
<1> QED
  BY <1>1, <1>2, <1>3, <1>4 DEF AvailabilityNext

\* The rows of GrokBuildCooldownStore keep their types: the exponent of the backoff does not
\* grow past ten, and no date reaches that of a source which has none.
THEOREM AvailabilityTypes == AvailabilitySpec => []AvailabilityTypeOK
<1>1. AvailabilityInv => AvailabilityTypeOK
  BY DEF AvailabilityInv
<1> QED
  BY <1>1, AvailabilityInitInv, AvailabilityStepInv, PTL DEF AvailabilitySpec

\* However late the results of requests come, and in whatever order: what set_disabled took
\* out of use only set_disabled brings back, and a source that cools down or is blocked has
\* a date, before which only a success or set_disabled makes it ready.
THEOREM BackOnlyWhenDueHolds == AvailabilitySpec => BackOnlyWhenDue
<1>1. AvailabilityInv /\ [AvailabilityNext]_availabilityVars =>
        [\A s \in Source : BackInTime(s)]_availabilityVars
  BY StepsComeBackInTime
<1> QED
  BY <1>1, AvailabilityInitInv, AvailabilityStepInv, PTL
     DEF AvailabilitySpec, BackOnlyWhenDue, BackInTime
=============================================================================
