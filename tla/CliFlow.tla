------------------------------ MODULE CliFlow -------------------------------
(***************************************************************************)
(* GET /tokens/create_cli (tokens_controller.py): a command line program   *)
(* opens the URL in the user's browser and waits at a port of localhost.   *)
(* A user who has to log in first loses the URL's parameters on the way    *)
(* through CILogon; they wait in one cookie, of which the browser has one  *)
(* for all of its tabs.  Cookies travel with a request when it is sent and *)
(* change when an answer arrives, so the logins of two programs meet in    *)
(* that cookie.                                                            *)
(***************************************************************************)
EXTENDS Integers, FiniteSets

CONSTANTS
    Logins,         \* programs, each with a tab and a port of its own
    Projects,       \* projects of the user, numbered as the Core API lists them
    Lifetimes,      \* lifetimes programs ask for, in hours
    DefaultLife,    \* the lifetime of a URL that names none (4)
    LongestLife,    \* the longest that may be stored in the cookie
    None,           \* a parameter the URL does not have
    MaxFaults       \* bound: failures, reloads and expiries of the cookie

VARIABLES
    jar,            \* the cookie fabric_cli_params, or None
    session,        \* the browser has a valid vouch cookie
    tab,            \* the tab of each login
    active,         \* projects of the user that are active
    tokens,         \* tokens made
    got,            \* tokens that reached the port of each login
    asked,          \* history: the parameters each login was opened with
    disturbed,      \* history: logins something came in the way of
    faults          \* history: number of failures, reloads and expiries

vars == <<jar, session, tab, active, tokens, got, asked, disturbed, faults>>
browser == <<jar, session>>
history == <<asked, disturbed, faults>>

ASSUME CliAssumption ==
    /\ Projects \subseteq Nat
    /\ Lifetimes \subseteq Nat /\ DefaultLife \in Nat /\ LongestLife \in Nat
    /\ DefaultLife <= LongestLife
    /\ MaxFaults \in Nat
    /\ IsFiniteSet(Logins)
    /\ None \notin Logins /\ None \notin Projects

(* The parameters of a request; "to" is the port redirect_uri points to.   *)
Params == [to : Logins \cup {None}, project : Projects \cup {None},
           life : Lifetimes \cup {DefaultLife}]

ASSUME NoCookieAssumption == None \notin Params

Bare == [to |-> None, project |-> None, life |-> DefaultLife]

Token == [to : Logins, project : Projects, life : Lifetimes \cup {DefaultLife},
          n : Nat,              \* history: serial number
          late : BOOLEAN]       \* history: asked for without parameters, after
                                \* a page with the login's token was shown

Tab ==
    [at : {"closed", "sent", "choose", "create", "answer", "login",
           "page", "code", "done", "failed"},
     url : Params,                      \* the parameters in the URL
     saved : Params \cup {None},        \* the cookies the request was sent with
     member : BOOLEAN,
     ask : Params,                      \* the parameters in effect
     answer : {"none", "login", "page", "error"},
     shown : SUBSET Logins]             \* history: logins whose token was shown
                                        \* when the request was sent

Closed == [at |-> "closed", url |-> Bare, saved |-> None, member |-> FALSE,
           ask |-> Bare, answer |-> "none", shown |-> {}]

Init ==
    /\ jar = None /\ session \in BOOLEAN
    /\ tab = [c \in Logins |-> Closed]
    /\ active \in SUBSET Projects
    /\ tokens = {} /\ got = [c \in Logins |-> {}]
    /\ asked = [c \in Logins |-> Bare]
    /\ disturbed = {} /\ faults = 0

Become(c, t) == tab' = [tab EXCEPT ![c] = t]
Goto(c, at) == Become(c, [tab[c] EXCEPT !.at = at])
Answer(c, answer) == Become(c, [tab[c] EXCEPT !.at = "answer", !.answer = answer])

Fault == faults < MaxFaults /\ faults' = faults + 1

(* Logins that got as far as a page with their token.                      *)
Shown == {tab[c].ask.to : c \in {d \in Logins : tab[d].at \in {"page", "code", "done"}}}

(* The browser asks for the URL and sends the cookies it has.              *)
Send(c, url) ==
    Become(c, [Closed EXCEPT !.at = "sent", !.url = url, !.saved = jar,
                             !.member = session, !.shown = tab[c].shown \cup Shown])

Others(c) == {d \in Logins \ {c} : tab[d].at # "closed"}

(* A program opens its URL.  A login with another one about is disturbed,  *)
(* and so is one whose parameters cannot be kept.                          *)
Open(c, q) ==
    /\ tab[c].at = "closed"
    /\ Send(c, q)
    /\ asked' = [asked EXCEPT ![c] = q]
    /\ disturbed' = disturbed
          \cup (IF Others(c) # {} THEN Others(c) \cup {c} ELSE {})
          \cup (IF q.life > LongestLife \/ active = {} THEN {c} ELSE {})
    /\ UNCHANGED <<browser, active, tokens, got, faults>>

(* Vouch sends the user who logged in back to the URL without parameters.  *)
LogIn(c) ==
    /\ tab[c].at = "login"
    /\ session' = TRUE
    /\ Become(c, [Closed EXCEPT !.at = "sent", !.saved = jar, !.member = TRUE,
                                !.shown = tab[c].shown \cup Shown])
    /\ UNCHANGED <<jar, active, tokens, got, history>>

(* The user reloads a page; every login is disturbed.                      *)
Reload(c) ==
    /\ tab[c].at \in {"code", "done", "failed"}
    /\ Fault /\ Send(c, tab[c].url)
    /\ disturbed' = Logins
    /\ UNCHANGED <<browser, active, tokens, got, asked>>

(* Ten minutes are over.                                                   *)
CookieExpires ==
    /\ jar # None
    /\ Fault /\ jar' = None
    /\ disturbed' = Logins
    /\ UNCHANGED <<session, tab, active, tokens, got, asked>>

(***************************************************************************)
(* The handler                                                             *)
(***************************************************************************)
(* Fault: the cookie fills in whatever the URL leaves open.                *)
MergedAlways(q, saved) ==
    IF saved = None THEN q
    ELSE [to |-> IF q.to = None THEN saved.to ELSE q.to,
          project |-> IF q.project = None THEN saved.project ELSE q.project,
          life |-> IF q.life = DefaultLife THEN saved.life ELSE q.life]

(* The cookie counts only when the URL has no redirect_uri.                *)
Merged(q, saved) ==
    IF saved = None \/ q.to # None THEN q
    ELSE [to |-> saved.to,
          project |-> IF q.project = None THEN saved.project ELSE q.project,
          life |-> IF q.life = DefaultLife THEN saved.life ELSE q.life]

ValidRedirect(q) == q.to \in Logins
Sane(q) == q.life <= LongestLife

(* Parameters are merged and checked; what follows depends on the login.   *)
Handle(c) ==
    /\ tab[c].at = "sent"
    /\ LET q == Merged(tab[c].url, tab[c].saved)
           t == [tab[c] EXCEPT !.ask = q, !.saved = None]
           End(answer) == Become(c, [t EXCEPT !.at = "answer", !.answer = answer])
       IN \/ ~ValidRedirect(q) /\ End("error")
          \/ /\ ValidRedirect(q) /\ ~tab[c].member
             /\ IF Sane(q) THEN End("login") ELSE End("error")
          \/ /\ ValidRedirect(q) /\ tab[c].member
             /\ Become(c, [t EXCEPT !.at = IF q.project = None THEN "choose" ELSE "create"])
    /\ UNCHANGED <<browser, active, tokens, got, history>>

FirstActive == CHOOSE p \in active : \A o \in active : p <= o

(* No project asked for: the first active one.                             *)
ChooseProject(c) ==
    /\ tab[c].at = "choose"
    /\ IF active = {} THEN Answer(c, "error")
       ELSE Become(c, [tab[c] EXCEPT !.at = "create", !.ask.project = FirstActive])
    /\ UNCHANGED <<browser, active, tokens, got, history>>

Made(c) == [to |-> tab[c].ask.to, project |-> tab[c].ask.project, life |-> tab[c].ask.life,
            n |-> Cardinality(tokens) + 1,
            late |-> tab[c].url.to = None /\ tab[c].ask.to \in tab[c].shown]

(* Fault: a create_token that seems slow is tried again.                   *)
CreateRetried(c) ==
    /\ tab[c].at = "create"
    /\ tokens' = tokens \cup {Made(c)}
    /\ Answer(c, "page") \/ tab' = tab
    /\ UNCHANGED <<browser, active, got, history>>

(* create_token.                                                           *)
Create(c) ==
    /\ tab[c].at = "create"
    /\ tokens' = tokens \cup {Made(c)}
    /\ Answer(c, "page")
    /\ UNCHANGED <<browser, active, got, history>>

(* What the handler calls raises, or the answer gets lost; a token may     *)
(* have been made.                                                         *)
Fail(c) ==
    /\ tab[c].at \in {"sent", "choose", "create", "answer"}
    /\ Fault
    /\ \/ UNCHANGED tokens
       \/ tab[c].at = "create" /\ tokens' = tokens \cup {Made(c)}
    /\ IF tab[c].at = "answer" THEN Goto(c, "failed") ELSE Answer(c, "error")
    /\ disturbed' = Logins
    /\ UNCHANGED <<browser, active, got, asked>>

(***************************************************************************)
(* The answer arrives                                                      *)
(***************************************************************************)
(* Fault: the way to the login takes no parameters along.                  *)
ArriveLoginBare(c) ==
    /\ tab[c].at = "answer" /\ tab[c].answer = "login"
    /\ jar' = jar
    /\ Goto(c, "login")
    /\ UNCHANGED <<session, active, tokens, got, history>>

(* Phase 1 stores the parameters on the way to the login.                  *)
ArriveLogin(c) ==
    /\ tab[c].at = "answer" /\ tab[c].answer = "login"
    /\ jar' = tab[c].ask
    /\ Goto(c, "login")
    /\ UNCHANGED <<session, active, tokens, got, history>>

(* Fault: the cookie stays when the token was made.                        *)
ArrivePageKeeps(c) ==
    /\ tab[c].at = "answer" /\ tab[c].answer = "page"
    /\ jar' = jar
    /\ Goto(c, "page")
    /\ UNCHANGED <<session, active, tokens, got, history>>

(* The page with the token clears the cookie.                              *)
ArrivePage(c) ==
    /\ tab[c].at = "answer" /\ tab[c].answer = "page"
    /\ jar' = None
    /\ Goto(c, "page")
    /\ UNCHANGED <<session, active, tokens, got, history>>

(* An error says nothing about cookies.                                    *)
ArriveError(c) ==
    /\ tab[c].at = "answer" /\ tab[c].answer = "error"
    /\ Goto(c, "failed")
    /\ UNCHANGED <<browser, active, tokens, got, history>>

(* The page calls the port; where that fails it shows a code to copy.      *)
Deliver(c) ==
    /\ tab[c].at = "page"
    /\ \/ /\ got' = [got EXCEPT ![tab[c].ask.to] =
                        @ \cup {[project |-> tab[c].ask.project, life |-> tab[c].ask.life]}]
          /\ Goto(c, "done")
       \/ got' = got /\ Goto(c, "code")
    /\ UNCHANGED <<browser, active, tokens, history>>

Server(c) == Handle(c) \/ ChooseProject(c) \/ Create(c)
Arrive(c) == ArriveLogin(c) \/ ArrivePage(c) \/ ArriveError(c)

Start(c) == \E p \in Projects \cup {None}, l \in Lifetimes :
               Open(c, [to |-> c, project |-> p, life |-> l])

Next ==
    \/ CookieExpires
    \/ \E c \in Logins : Start(c) \/ LogIn(c) \/ Reload(c) \/ Fail(c)
    \/ \E c \in Logins : Server(c) \/ Arrive(c) \/ Deliver(c)

Spec == Init /\ [][Next]_vars

(* Handlers return, answers arrive and pages run; nothing is assumed of    *)
(* users.                                                                  *)
Fairness == \A c \in Logins : WF_vars(Server(c) \/ Arrive(c) \/ Deliver(c))

FairSpec == Spec /\ Fairness

(***************************************************************************)
(* Properties                                                              *)
(***************************************************************************)
TypeOK ==
    /\ jar \in Params \cup {None}
    /\ session \in BOOLEAN
    /\ tab \in [Logins -> Tab]
    /\ active \subseteq Projects
    /\ tokens \subseteq Token
    /\ got \in [Logins -> SUBSET [project : Projects, life : Lifetimes \cup {DefaultLife}]]
    /\ asked \in [Logins -> Params]
    /\ disturbed \subseteq Logins /\ faults \in Nat

AsAsked(project, life, q) ==
    /\ life = q.life
    /\ IF q.project = None THEN active # {} /\ project = FirstActive ELSE project = q.project

(* However the logins of several programs overlap in the one cookie, a     *)
(* program that is sent a token gets one for the project and lifetime it   *)
(* asked for, and no token is made that nobody asked for.                  *)
TokenAsAsked ==
    /\ \A c \in Logins : \A g \in got[c] : AsAsked(g.project, g.life, asked[c])
    /\ \A k \in tokens : AsAsked(k.project, k.life, asked[k.to])

(* Once a page with a login's token was shown, no request without          *)
(* parameters of its own (a reloaded page, the return from a second login) *)
(* makes another token for it.                                             *)
NotAgainAfterPage == \A k \in tokens : ~k.late

(* A login with nothing in its way makes one token; logins that overlap    *)
(* return with each other's parameters, and still no tab makes a second    *)
(* token unless it is reloaded or fails.                                   *)
OneTokenPerTab ==
    \A c \in Logins :
        Cardinality({k \in tokens : k.to = c}) <=
            IF c \in disturbed THEN Cardinality(Logins) + faults ELSE 1

(* A request of a login with nothing in its way leads to the login page or *)
(* to its token, and the return from the login page to the token.          *)
Served ==
    \A c \in Logins :
        tab[c].at = "sent" ~> \/ tab[c].at = "login" /\ jar = asked[c]
                              \/ tab[c].at \in {"done", "code"} /\ tab[c].ask.to = c
                              \/ c \in disturbed
=============================================================================
