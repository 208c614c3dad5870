------------------------------ MODULE SignupRound ------------------------------
(***************************************************************************)
(* The rounds of a registration worker (maintainer/runner.py) and the      *)
(* mailboxes they share (maintainer/mailbox.py).  A round opens the        *)
(* sign-up page, takes an address, has a code sent to it, types the code,  *)
(* fills in the profile and waits for a token to appear in its browser.    *)
(* The site and the mail server are outcomes: what page is shown, which    *)
(* code is accepted, when a token comes.  Workers are processes; what they *)
(* share is the mailboxes and the reservation files beside the credential  *)
(* file, what a worker keeps from round to round is its browser profile.   *)
(***************************************************************************)
EXTENDS Naturals, FiniteSets

CONSTANTS
    Worker,      \* worker processes
    Address,     \* e-mail addresses
    BaseOf,      \* the mailbox of an address, which is itself an address
    MaxAliases,  \* email.max_aliases_per_account
    NoAddress,   \* no address
    MaxRounds, MaxCodes  \* bounds: rounds begun, codes sent to one address

Mailbox == {BaseOf[a] : a \in Address}

ASSUME RoundAssumption ==
    /\ IsFiniteSet(Worker) /\ IsFiniteSet(Address) /\ NoAddress \notin Address
    /\ BaseOf \in [Address -> Address] /\ \A b \in Mailbox : BaseOf[b] = b
    /\ MaxAliases \in Nat \ {0} /\ MaxRounds \in Nat /\ MaxCodes \in Nat

VARIABLES
    provider,  \* email.provider: "hotmail", or "worker" for throw-away addresses
    profile,   \* whose the browser profile is
    step,      \* each worker's round
    page,      \* what each browser shows
    jar,       \* the accounts whose tokens each browser profile holds
    reserved,  \* the addresses with a reservation file
    account,   \* what the site knows of each address
    codes,     \* the number of codes sent to each address
    used,      \* how often each address was given to a round
    results,   \* recorded rounds: the address and the account of the token
    rounds     \* the rounds begun

roundVars == <<provider, profile, step, page, jar, reserved, account, codes,
               used, results, rounds>>
site      == <<account, codes>>
mail      == <<reserved, used>>

\* The pages the code tells apart: the form for the address, for the code, for
\* the profile, what comes after it, and any other.
Page == {"other", "email", "code", "profile", "inside"}

Idle == [pc |-> "down", offered |-> {}, unused |-> {}, address |-> NoAddress, code |-> 0]

RoundTypeOK ==
    /\ provider \in {"hotmail", "worker"}
    /\ profile \in {"process", "fixed", "default"}
    /\ \A w \in Worker :
          /\ step[w].pc \in {"down", "opening", "choosing", "creating", "submitting",
                             "fetching", "typing", "clicked", "profile", "waiting",
                             "signin", "again", "between"}
          /\ step[w].address \in Address \cup {NoAddress}
    /\ page \in [Worker -> Page] /\ jar \in [Worker -> SUBSET Address]
    /\ reserved \subseteq Address
    /\ account \in [Address -> {"none", "unverified", "verified", "created"}]
    /\ codes \in [Address -> 0..MaxCodes] /\ used \in [Address -> Nat]
    /\ results \subseteq Address \X Address /\ rounds \in 0..MaxRounds

RoundInit ==
    /\ provider \in {"hotmail", "worker"} /\ profile \in {"process", "fixed", "default"}
    /\ step = [w \in Worker |-> Idle]
    /\ page = [w \in Worker |-> "other"] /\ jar = [w \in Worker |-> {}]
    /\ reserved = {} /\ account = [a \in Address |-> "none"]
    /\ codes = [a \in Address |-> 0] /\ used = [a \in Address |-> 0]
    /\ results = {} /\ rounds = 0

At(w, pc)  == step[w].pc = pc
Goes(w, pc) == step' = [step EXCEPT ![w].pc = pc]
Shows(w, p) == page' = [page EXCEPT ![w] = p]
Mine(w)    == step[w].address

-----------------------------------------------------------------------------
\* A worker process has a profile directory of its own, which it clears first; one
\* that runs in the server's thread has a configured directory or the default one
\* of its port, and finds there what the last job left.
Fresh(w)     == IF profile = "process" THEN {} ELSE jar[w]
Kept(w)      == jar[w]
\* reset_browser_for_next_round clears a configured directory, no other.
Cleared(w)   == IF profile = "default" THEN jar[w] ELSE {}

Begin(w) ==
    /\ rounds < MaxRounds /\ rounds' = rounds + 1
    /\ step' = [step EXCEPT ![w] = [Idle EXCEPT !.pc = "opening"]]
    /\ Shows(w, "other")

StartBatch(w) ==
    /\ At(w, "down") /\ Begin(w)
    /\ jar' = [jar EXCEPT ![w] = Fresh(w)]
    /\ UNCHANGED <<provider, profile, mail, site, results>>

NextRound(w) ==
    /\ At(w, "between") /\ Begin(w)
    /\ jar' = [jar EXCEPT ![w] = Cleared(w)]
    /\ UNCHANGED <<provider, profile, mail, site, results>>

\* The batch is over, or the process is killed wherever it stands.
Ends(w) ==
    /\ ~At(w, "down") /\ (At(w, "between") \/ profile = "process")
    /\ step' = [step EXCEPT ![w] = Idle] /\ Shows(w, "other")
    /\ UNCHANGED <<provider, profile, jar, mail, site, results, rounds>>

\* Any wait runs out of time, or the page reports an error: the round is over.
\* A browser that does not answer is started again in the same profile.
Fails(w) ==
    /\ step[w].pc \notin {"down", "between", "waiting"}
    /\ Goes(w, "between")
    /\ UNCHANGED <<provider, profile, page, jar, mail, site, results, rounds>>

BrowserRestarts(w) ==
    /\ step[w].pc \notin {"down", "between"} /\ Shows(w, "other")
    /\ UNCHANGED <<provider, profile, step, jar, mail, site, results, rounds>>

OpenSignup(w) ==
    /\ At(w, "opening") /\ Goes(w, "choosing") /\ Shows(w, "email")
    /\ UNCHANGED <<provider, profile, jar, mail, site, results, rounds>>

-----------------------------------------------------------------------------
\* create_temp_email: the mail service makes up a new address.
TakeTemporary(w) ==
    /\ At(w, "choosing") /\ provider = "worker"
    /\ \E a \in {a \in Address : used[a] = 0} :
          /\ step' = [step EXCEPT ![w].pc = "submitting", ![w].address = a]
          /\ used' = [used EXCEPT ![a] = @ + 1]
    /\ UNCHANGED <<provider, profile, page, jar, reserved, site, results, rounds>>

\* create_hotmail_alias counts the reservations of each mailbox (and the limit may be
\* exceeded by those who count beside each other) ...
Reservations(b) == {a \in reserved : BaseOf[a] = b}
Available       == {b \in Mailbox : Cardinality(Reservations(b)) < MaxAliases}
CountAliases(w) ==
    /\ At(w, "choosing") /\ provider = "hotmail" /\ Available # {}
    /\ step' = [step EXCEPT ![w].pc = "creating", ![w].offered = Available,
                            ![w].unused = {b \in Available : Reservations(b) = {}}]
    /\ UNCHANGED <<provider, profile, page, jar, mail, site, results, rounds>>

\* ... and creates the file of its main address, or of an alias made up at random,
\* which fails for one that exists.
Nameable(w)  == {a \in Address : BaseOf[a] \in step[w].offered}
Creatable(w) == {a \in Nameable(w) : a \notin reserved}
TakesTurn(w, a) ==
    IF a = BaseOf[a] THEN a \in step[w].unused
    ELSE BaseOf[a] \notin step[w].unused \/ BaseOf[a] \notin Creatable(w)
CreateAlias(w) ==
    /\ At(w, "creating")
    /\ \E a \in {a \in Creatable(w) : TakesTurn(w, a)} :
          /\ reserved' = reserved \cup {a} /\ used' = [used EXCEPT ![a] = @ + 1]
          /\ step' = [step EXCEPT ![w] = [Idle EXCEPT !.pc = "submitting", !.address = a]]
    /\ UNCHANGED <<provider, profile, page, jar, site, results, rounds>>

-----------------------------------------------------------------------------
\* The address is submitted, and the site sends a code to it.
Sent(a) ==
    /\ codes[a] < MaxCodes /\ codes' = [codes EXCEPT ![a] = @ + 1]
    /\ account' = [account EXCEPT ![a] = IF @ = "none" THEN "unverified" ELSE @]

Submit(w) ==
    /\ At(w, "submitting") /\ page[w] = "email"
    /\ Sent(Mine(w)) /\ Goes(w, "fetching") /\ Shows(w, "code")
    /\ UNCHANGED <<provider, profile, jar, mail, results, rounds>>

\* The mails a worker finds are those of the mailbox it signs in to, or of the
\* throw-away address; it takes the code of one that was sent to its address, and
\* takes it once: it does not look for a later one.
Inbox(w)       == {a \in Address : codes[a] > 0 /\ IF provider = "hotmail"
                                                   THEN BaseOf[a] = BaseOf[Mine(w)]
                                                   ELSE a = Mine(w)}
Matches(w, a)  == a = Mine(w)
FetchCode(w) ==
    /\ At(w, "fetching")
    /\ \E a \in Inbox(w) :
          /\ Matches(w, a)
          /\ step' = [step EXCEPT ![w].pc = "typing",
                                  ![w].code = IF a = Mine(w) THEN codes[a] ELSE 0]
    /\ UNCHANGED <<provider, profile, page, jar, mail, site, results, rounds>>

\* The code is typed and confirmed: the site accepts the last one it sent.
CodeAccepted(w) == step[w].code = codes[Mine(w)] /\ account[Mine(w)] = "unverified"
TypeCode(w) ==
    /\ At(w, "typing") /\ page[w] = "code" /\ Goes(w, "clicked")
    /\ account' = IF CodeAccepted(w) THEN [account EXCEPT ![Mine(w)] = "verified"] ELSE account
    /\ UNCHANGED <<provider, profile, page, jar, mail, codes, results, rounds>>

\* The page follows the site, or falls back to the form for the address.
PageMoves(w) ==
    /\ page[w] = "code" /\ step[w].pc # "down"
    /\ Shows(w, IF account[Mine(w)] = "verified" THEN "profile" ELSE "email")
    /\ UNCHANGED <<provider, profile, step, jar, mail, site, results, rounds>>

\* The form is there, or a token is, or the page is one that comes after: go on.
TokenThere(w) == jar[w] # {}
Confirmed(w) ==
    /\ \/ At(w, "typing") /\ page[w] = "profile"
       \/ At(w, "clicked") /\ (page[w] \in {"profile", "inside"} \/ TokenThere(w))
    /\ Goes(w, "profile")
    /\ UNCHANGED <<provider, profile, page, jar, mail, site, results, rounds>>

\* Nothing came of it: the same code is typed again.
TypeAgain(w) ==
    /\ At(w, "clicked") /\ page[w] \notin {"profile", "inside"} /\ ~TokenThere(w)
    /\ Goes(w, "typing")
    /\ UNCHANGED <<provider, profile, page, jar, mail, site, results, rounds>>

\* _recover_verification_page: the form for the address is there again, so the
\* address is submitted again.
Resubmit(w) ==
    /\ At(w, "typing") /\ page[w] = "email"
    /\ Sent(Mine(w)) /\ Shows(w, "code")
    /\ UNCHANGED <<provider, profile, step, jar, mail, results, rounds>>

-----------------------------------------------------------------------------
\* The profile is filled in and submitted; whether the site takes it is not waited
\* for.  When a token is there or the page has moved on, nothing is submitted.
SubmitProfile(w) ==
    /\ At(w, "profile") /\ page[w] = "profile" /\ Goes(w, "waiting")
    /\ \/ /\ account[Mine(w)] = "verified"
          /\ account' = [account EXCEPT ![Mine(w)] = "created"] /\ Shows(w, "inside")
       \/ UNCHANGED <<account, page>>
    /\ UNCHANGED <<provider, profile, jar, mail, codes, results, rounds>>

LooksSubmitted(w) == page[w] = "inside" \/ TokenThere(w)
SkipProfile(w) ==
    /\ At(w, "profile") /\ LooksSubmitted(w) /\ Goes(w, "waiting")
    /\ UNCHANGED <<provider, profile, page, jar, mail, site, results, rounds>>

\* The site signs the browser in, when it gets there.
TokenComes(w) ==
    /\ step[w].pc \in {"profile", "waiting", "again"} /\ page[w] = "inside"
    /\ account[Mine(w)] = "created"
    /\ jar' = [jar EXCEPT ![w] = @ \cup {Mine(w)}]
    /\ UNCHANGED <<provider, profile, step, page, mail, site, results, rounds>>

\* wait_for_sso_cookie takes the first token it finds, whoever's it is.
TakeToken(w) ==
    /\ step[w].pc \in {"waiting", "again"}
    /\ \E a \in jar[w] : results' = results \cup {<<Mine(w), a>>}
    /\ Goes(w, "between")
    /\ UNCHANGED <<provider, profile, page, jar, mail, site, rounds>>

\* After a while the browser is sent to the site itself.
Redirect(w) ==
    /\ step[w].pc \in {"waiting", "again"} /\ ~TokenThere(w) /\ Shows(w, "inside")
    /\ UNCHANGED <<provider, profile, step, jar, mail, site, results, rounds>>

\* No token came: the account is signed in to, once.
NoToken(w) ==
    /\ At(w, "waiting") /\ ~TokenThere(w) /\ Goes(w, "signin") /\ Shows(w, "other")
    /\ UNCHANGED <<provider, profile, jar, mail, site, results, rounds>>

SignIn(w) ==
    /\ At(w, "signin") /\ Goes(w, "again")
    /\ Shows(w, IF account[Mine(w)] = "created" THEN "inside" ELSE "other")
    /\ UNCHANGED <<provider, profile, jar, mail, site, results, rounds>>

RoundNext ==
    \E w \in Worker :
        \/ StartBatch(w) \/ NextRound(w) \/ Ends(w) \/ Fails(w) \/ BrowserRestarts(w)
        \/ OpenSignup(w) \/ TakeTemporary(w) \/ CountAliases(w) \/ CreateAlias(w)
        \/ Submit(w) \/ FetchCode(w) \/ TypeCode(w) \/ PageMoves(w) \/ Confirmed(w)
        \/ TypeAgain(w) \/ Resubmit(w) \/ SubmitProfile(w) \/ SkipProfile(w)
        \/ TokenComes(w) \/ TakeToken(w) \/ Redirect(w) \/ NoToken(w) \/ SignIn(w)

RoundSpec == RoundInit /\ [][RoundNext]_roundVars

-----------------------------------------------------------------------------
\* An address is given to one round only, whatever workers count and create beside
\* each other, fail, are killed and start again (maintainer/README.md:31).
AddressUsedOnce == \A a \in Address : used[a] <= 1

\* Worker processes keep their rounds apart: what a round types was sent to its own
\* address, and the token it records is of the account it created, though the codes
\* of several rounds lie in one mailbox and a browser runs one round after another.
RoundsApart ==
    profile = "process" =>
        /\ \A w \in Worker : step[w].pc \in {"typing", "clicked"} => step[w].code > 0
        /\ \A r \in results : r[1] = r[2] /\ account[r[1]] = "created"
=============================================================================
