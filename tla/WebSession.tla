----------------------------- MODULE WebSession -----------------------------
(***************************************************************************)
(* The login of one tab of the web application (cm-app): who it takes the  *)
(* user for (use-user-status.ts), what it does when the login cookie is no *)
(* longer good (http-service.ts) and its warnings before that              *)
(* (use-session-timeout.ts, session-timeout-modal.tsx).  The cookie is the *)
(* browser's: other tabs replace and remove it.  What the tab remembers in *)
(* its sessionStorage outlives the page, and the page goes on running      *)
(* between a click that leads away and the moment the next page comes.     *)
(***************************************************************************)
EXTENDS Integers

CONSTANTS
    Users, Enrolled,    \* users who can log in; those enrolled in FABRIC
    None,               \* no cookie, no user, no timer
    Life,               \* the cookie's lifetime, 4 h
    First, Second,      \* 3 h 55 min, 3 h 59 min after which warnings come
    LeftFirst, LeftSecond,  \* 5 min, 1 min the warnings count down
    Calls,              \* calls of a page that wait for their answers
    MaxClock,           \* bound: last value of the clock
    MaxLogins           \* bound: logins

VARIABLES
    clock,
    cookie,         \* the login cookie
    store,          \* cmUserStatus and cmUserID in sessionStorage
    page,           \* up; on its way to login or logout; gone
    shown,          \* the status the page shows
    whoami,         \* the cookie the whoami request was sent with
    calls,          \* the cookie each call of the page was sent with
    since,          \* when the timers were set
    modals, fired,  \* warnings that are open, and that ever were on this page
    elsewhere,      \* history: another tab changed the cookie since whoami
    spoilt,         \* history: a status was stored for no good reason, or while
                    \* the page was being left, since the last click on login
    logins          \* history: number of logins

vars == <<clock, cookie, store, page, shown, whoami, calls, since, modals, fired,
          elsewhere, spoilt, logins>>

ASSUME SessionAssumption ==
    /\ Enrolled \subseteq Users /\ None \notin Users
    /\ Life \in Nat /\ First \in Nat /\ Second \in Nat
    /\ 0 < First /\ First < Second /\ Second < Life
    /\ LeftFirst \in Nat /\ LeftSecond \in Nat
    /\ First + LeftFirst >= Life /\ Second + LeftSecond >= Life
    /\ MaxClock \in Nat /\ MaxLogins \in Nat

Cookie == [user : Users, made : Nat]
Status == {"", "active", "unauthorized", "inactive"}
Warnings == {1, 2}
Idle == [sent |-> FALSE, cookie |-> None]
Request == [sent : BOOLEAN, cookie : Cookie \cup {None}]
Forgotten == [status |-> "", user |-> None]

Init ==
    /\ clock = 0 /\ cookie = None
    /\ store = Forgotten
    /\ page = "gone" /\ shown = ""
    /\ whoami = Idle /\ calls = [c \in Calls |-> Idle]
    /\ since = None /\ modals = {} /\ fired = {}
    /\ elsewhere = FALSE /\ spoilt = FALSE /\ logins = 0

Good(c) == c # None /\ clock < c.made + Life
Running == page # "gone"
Leaving == page \in {"login", "logout"}

browser == <<clock, cookie, logins>>
view == <<shown, since, modals, fired>>

Show(status) ==
    /\ shown' = status
    /\ since' = IF status = "active" THEN clock ELSE None
    /\ modals' = {} /\ fired' = {}

(***************************************************************************)
(* use-user-status.ts                                                      *)
(***************************************************************************)
(* checkEnrollment when a page is loaded: a status in sessionStorage goes  *)
(* for the truth, and Core API is asked only without one.                  *)
Load ==
    /\ page \in {"up", "gone"}
    /\ page' = "up" /\ Show(store.status)
    /\ calls' = [c \in Calls |-> Idle]
    /\ IF store.status = ""
         THEN whoami' = [sent |-> TRUE, cookie |-> cookie] /\ elsewhere' = FALSE
         ELSE whoami' = Idle /\ UNCHANGED elsewhere
    /\ UNCHANGED <<browser, store, spoilt>>

Stored(status) == store' = [store EXCEPT !.status = status]

(* Fault: whoami that fails is not caught.                                 *)
WhoAmIUncaught ==
    /\ Running /\ whoami.sent
    /\ whoami' = Idle
    /\ \/ /\ Good(whoami.cookie) /\ whoami.cookie.user \in Enrolled
          /\ store' = [status |-> "active", user |-> whoami.cookie.user] /\ Show("active")
          /\ spoilt' = (spoilt \/ Leaving)
       \/ UNCHANGED <<store, view, spoilt>>
    /\ UNCHANGED <<browser, page, calls, elsewhere>>

(* The answer to whoami.  A user who is not enrolled is told so and keeps  *)
(* no status; a 401 and every other failure are stored as unauthorized.    *)
WhoAmI ==
    /\ Running /\ whoami.sent
    /\ whoami' = Idle
    /\ \/ /\ Good(whoami.cookie) /\ whoami.cookie.user \in Enrolled
          /\ store' = [status |-> "active", user |-> whoami.cookie.user] /\ Show("active")
          /\ spoilt' = (spoilt \/ Leaving)
       \/ /\ Good(whoami.cookie) /\ whoami.cookie.user \notin Enrolled
          /\ UNCHANGED <<store, view, spoilt>>
       \/ /\ Stored("unauthorized") /\ Show("unauthorized")
          /\ spoilt' = (spoilt \/ Leaving \/ Good(whoami.cookie))
    /\ UNCHANGED <<browser, page, calls, elsewhere>>

(***************************************************************************)
(* header.tsx                                                              *)
(***************************************************************************)
(* Fault: the status stays in sessionStorage.                              *)
HandleLoginKeeps ==
    /\ page = "up" /\ shown # "active"
    /\ page' = "login" /\ spoilt' = FALSE
    /\ UNCHANGED <<browser, store, view, whoami, calls, elsewhere>>

HandleLogin ==
    /\ page = "up" /\ shown # "active"
    /\ Stored("") /\ page' = "login" /\ spoilt' = FALSE
    /\ UNCHANGED <<browser, view, whoami, calls, elsewhere>>

(* Fault: only the user is forgotten.                                      *)
ForgetUser == store' = [store EXCEPT !.user = None] /\ page' = "logout"

(* The ways out of a login, and where they lead.                           *)
Forget == store' = Forgotten /\ page' = "logout"

HandleLogout ==
    /\ page = "up" /\ shown = "active"
    /\ Forget
    /\ UNCHANGED <<browser, view, whoami, calls, elsewhere, spoilt>>

(***************************************************************************)
(* http-service.ts                                                         *)
(***************************************************************************)
Send(c) ==
    /\ page = "up" /\ shown = "active" /\ ~calls[c].sent
    /\ calls' = [calls EXCEPT ![c] = [sent |-> TRUE, cookie |-> cookie]]
    /\ UNCHANGED <<browser, store, page, view, whoami, elsewhere, spoilt>>

(* The interceptor: a 401 ends a login the tab believes in, and stores why *)
(* there is none if it does not.  What it finds in sessionStorage counts,  *)
(* not what the page shows.                                                *)
Refused(status) ==
    IF store.status = "active"
      THEN Forget /\ UNCHANGED spoilt
      ELSE Stored(status) /\ spoilt' = TRUE /\ UNCHANGED page

(* Every other answer, a failure among them, leaves the login alone.       *)
Answer(c) ==
    /\ Running /\ calls[c].sent
    /\ calls' = [calls EXCEPT ![c] = Idle]
    /\ \/ ~Good(calls[c].cookie) /\ Refused("unauthorized")
       \/ /\ Good(calls[c].cookie) /\ calls[c].cookie.user \notin Enrolled
          /\ Refused("inactive")
       \/ UNCHANGED <<store, page, spoilt>>
    /\ UNCHANGED <<browser, view, whoami, elsewhere>>

(***************************************************************************)
(* use-session-timeout.ts, session-timeout-modal.tsx                       *)
(***************************************************************************)
(* Fault: the second warning comes when the first one should.              *)
AfterFirst(n) == First

After(n) == IF n = 1 THEN First ELSE Second
Armed == page = "up" /\ since # None
Due(n) == Armed /\ n \notin fired /\ clock >= since + After(n)

(* The second warning takes the place of the first; timers fire in order.  *)
Warn(n) ==
    /\ Due(n)
    /\ n = 1 \/ 1 \in fired
    /\ fired' = fired \cup {n} /\ modals' = {n}
    /\ UNCHANGED <<browser, store, page, shown, since, whoami, calls, elsewhere, spoilt>>

(* A warning that is closed stops to count down.                           *)
Close(n) ==
    /\ page = "up" /\ n \in modals
    /\ modals' = modals \ {n}
    /\ UNCHANGED <<browser, store, page, shown, since, fired, whoami, calls, elsewhere, spoilt>>

(* What providers.tsx has the two warnings count down.                     *)
Left(n) == IF n = 1 THEN LeftFirst ELSE LeftSecond
Zero(n) == Armed /\ n \in modals /\ clock >= since + After(n) + Left(n)

CountedDown(n) ==
    /\ Zero(n)
    /\ Forget
    /\ UNCHANGED <<browser, view, whoami, calls, elsewhere, spoilt>>

(***************************************************************************)
(* The way to the next page, the clock and the other tabs                  *)
(***************************************************************************)
Gone == /\ page' = "gone" /\ shown' = "" /\ since' = None /\ modals' = {} /\ fired' = {}
        /\ whoami' = Idle /\ calls' = [c \in Calls |-> Idle]

NewCookie(u) ==
    /\ logins < MaxLogins /\ logins' = logins + 1
    /\ cookie' = [user |-> u, made |-> clock]

(* Vouch asks who the user is, unless the cookie is still good; the user   *)
(* may also turn back.                                                     *)
LogIn ==
    /\ page = "login" /\ Gone
    /\ \/ ~Good(cookie) /\ \E u \in Users : NewCookie(u)
       \/ UNCHANGED <<cookie, logins>>
    /\ UNCHANGED <<clock, store, elsewhere, spoilt>>

LogOut ==
    /\ page = "logout" /\ Gone
    /\ cookie' = None
    /\ UNCHANGED <<clock, logins, store, elsewhere, spoilt>>

Elsewhere ==
    /\ \/ \E u \in Users : NewCookie(u)
       \/ cookie # None /\ cookie' = None /\ UNCHANGED logins
    /\ elsewhere' = TRUE
    /\ UNCHANGED <<clock, store, page, view, whoami, calls, spoilt>>

(* Timers fire in time: the tab is not asleep.                             *)
Tick ==
    /\ clock < MaxClock /\ clock' = clock + 1
    /\ \A n \in Warnings : ~Due(n) /\ ~Zero(n)
    /\ UNCHANGED <<cookie, logins, store, page, view, whoami, calls, elsewhere, spoilt>>

Next ==
    \/ Load \/ WhoAmI \/ HandleLogin \/ HandleLogout \/ LogIn \/ LogOut \/ Elsewhere \/ Tick
    \/ \E c \in Calls : Send(c) \/ Answer(c)
    \/ \E n \in Warnings : Warn(n) \/ Close(n) \/ CountedDown(n)

(* Requests are answered or fail, and a page that is left goes.            *)
Spec == Init /\ [][Next]_vars /\ WF_vars(WhoAmI)

(***************************************************************************)
(* Properties                                                              *)
(***************************************************************************)
TypeOK ==
    /\ clock \in Nat /\ cookie \in Cookie \cup {None}
    /\ store \in [status : Status, user : Users \cup {None}]
    /\ page \in {"up", "login", "logout", "gone"} /\ shown \in Status
    /\ whoami \in Request /\ calls \in [Calls -> Request]
    /\ since \in Nat \cup {None}
    /\ modals \subseteq Warnings /\ fired \subseteq Warnings
    /\ elsewhere \in BOOLEAN /\ spoilt \in BOOLEAN /\ logins \in Nat

(* The tab takes the user for the one who holds the cookie, though it asks *)
(* once and then believes its sessionStorage, unless another tab changed   *)
(* the cookie since it asked, or an answer came when the page was being    *)
(* left for a login that then made another cookie.                         *)
SameUser ==
    page = "up" /\ shown = "active" /\ ~elsewhere /\ ~spoilt
    => cookie # None /\ cookie.user = store.user

(* A user with a good cookie is told to log in only when another tab       *)
(* brought the cookie, whoami failed, or an answer came when the page was  *)
(* being left and was stored.                                              *)
NotToldToLogIn ==
    page = "up" /\ shown \in {"unauthorized", "inactive"} /\ Good(cookie)
    => elsewhere \/ spoilt

(* A countdown that runs out ends no login that has time left, except one  *)
(* that another tab brought.                                               *)
NoEarlyLogout ==
    \A n \in Warnings : Zero(n) => elsewhere \/ ~Good(cookie)

(* "Checking authentication..." ends, unless whoami tells that the user is *)
(* not enrolled: then it goes on for good.                                 *)
NotEnrolled == whoami.cookie # None /\ whoami.cookie.user \notin Enrolled
Settles ==
    page = "up" /\ whoami.sent /\ ~NotEnrolled
    ~> shown # "" \/ page # "up" \/ NotEnrolled
=============================================================================
