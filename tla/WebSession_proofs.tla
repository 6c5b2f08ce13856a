------------------------- MODULE WebSession_proofs ---------------------------
(***************************************************************************)
(* Theorems about the login of one tab, for any users, lifetime of the     *)
(* cookie, times of the warnings and number of calls and logins.           *)
(***************************************************************************)
EXTENDS WebSession, TLAPS

(***************************************************************************)
(* The inductive invariant, in named parts.                                *)
(***************************************************************************)
(* Cookies were made and timers set in the past.                           *)
Past ==
    /\ cookie # None => cookie.made <= clock
    /\ since # None => since <= clock

(* A whoami under way carries the cookie, if no other tab changed it.      *)
Current == whoami.sent /\ ~elsewhere => whoami.cookie = cookie

(* A page that is being left has forgotten the login.                      *)
Forgot == Leaving /\ ~spoilt => store.status = ""

(* The page shows what the tab remembers.                                  *)
Believed == page = "up" /\ ~spoilt => shown = store.status

(* A login that is remembered is the login of the cookie,                  *)
Holder ==
    store.status = "active" /\ ~elsewhere /\ ~spoilt
    => cookie # None /\ cookie.user = store.user

(* and that there is none is remembered when there is none.                *)
NoLogin ==
    store.status \in {"unauthorized", "inactive"} /\ ~elsewhere /\ ~spoilt => ~Good(cookie)

(* The timers were set after the cookie was made.                          *)
SetLate == page = "up" /\ since # None /\ ~elsewhere /\ cookie # None => cookie.made <= since

IInv ==
    /\ TypeOK /\ Past /\ Current /\ Forgot /\ Believed /\ Holder /\ NoLogin
    /\ SetLate

LEMMA InitInv == Init => IInv
<1> SUFFICES ASSUME Init  PROVE IInv
  OBVIOUS
<1>1. TypeOK
  BY DEF Init, TypeOK, Cookie, Status, Warnings, Request, Idle, Forgotten
<1>2. /\ Past /\ Current /\ Forgot /\ Believed /\ Holder /\ NoLogin
      /\ SetLate
  BY DEF Init, Past, Current, Forgot, Believed, Holder, NoLogin, SetLate,
         Idle, Forgotten, Leaving
<1>3. QED  BY <1>1, <1>2 DEF IInv

(***************************************************************************)
(* Loading a page, and the answer to whoami                                *)
(***************************************************************************)
LEMMA IdleType == Idle \in Request
BY DEF Idle, Request

LEMMA LoadInv ==
    ASSUME IInv, Load
    PROVE  IInv'
<1>1. /\ TypeOK /\ page' = "up" /\ shown' = store.status /\ modals' = {} /\ fired' = {}
      /\ since' = IF store.status = "active" THEN clock ELSE None
      /\ calls' = [c \in Calls |-> Idle] /\ UNCHANGED <<clock, cookie, logins, store, spoilt>>
  BY DEF Load, IInv, Show, browser
<1>2. \/ /\ store.status = "" /\ elsewhere' = FALSE
         /\ whoami' = [sent |-> TRUE, cookie |-> cookie]
      \/ store.status # "" /\ whoami' = Idle /\ UNCHANGED elsewhere
  BY DEF Load
<1>3. /\ clock' \in Nat /\ cookie' \in Cookie \cup {None}
      /\ store' \in [status : Status, user : Users \cup {None}]
      /\ page' \in {"up", "login", "logout", "gone"} /\ shown' \in Status
      /\ calls' \in [Calls -> Request] /\ since' \in Nat \cup {None}
      /\ modals' \subseteq Warnings /\ fired' \subseteq Warnings
      /\ logins' \in Nat /\ spoilt' \in BOOLEAN
  BY <1>1, IdleType DEF TypeOK
<1>4. whoami' \in Request /\ elsewhere' \in BOOLEAN
  <2>1. TRUE \in BOOLEAN /\ FALSE \in BOOLEAN /\ elsewhere \in BOOLEAN
    BY <1>1 DEF TypeOK
  <2>2. [sent |-> TRUE, cookie |-> cookie] \in Request
    BY <1>1 DEF TypeOK, Request
  <2>3. whoami' \in Request
    BY <1>2, <2>2, IdleType
  <2>4. elsewhere' \in BOOLEAN
    <3>1. elsewhere' = FALSE \/ elsewhere' = elsewhere
      BY <1>2
    <3>2. QED  BY <2>1, <3>1, Zenon
  <2>5. QED  BY <2>3, <2>4
<1>5. TypeOK'
  BY <1>3, <1>4 DEF TypeOK
<1>6. Current'
  <2>1. CASE whoami' = [sent |-> TRUE, cookie |-> cookie]
    BY <1>1, <2>1 DEF Current
  <2>2. CASE whoami' = Idle
    BY <2>2 DEF Current, Idle
  <2>3. QED  BY <1>2, <2>1, <2>2
<1>7. (Past /\ Forgot /\ Believed)'
  <2>1. Past'
    BY <1>1 DEF IInv, TypeOK, Past
  <2>2. Forgot'
    BY <1>1 DEF Forgot, Leaving
  <2>3. Believed'
    BY <1>1 DEF Believed
  <2>4. QED  BY <2>1, <2>2, <2>3
<1>8. (Holder /\ NoLogin)'
  <2>1. CASE store.status = ""
    BY <1>1, <2>1 DEF Holder, NoLogin
  <2>2. CASE UNCHANGED elsewhere
    BY <1>1, <2>2 DEF IInv, Holder, NoLogin, Good
  <2>3. QED  BY <1>2, <2>1, <2>2
<1>9. SetLate'
  <2>1. CASE store.status = "active"
    <3>1. /\ since' = clock /\ clock \in Nat /\ UNCHANGED cookie
          /\ cookie # None => cookie.made <= clock
      BY <1>1, <2>1 DEF TypeOK, IInv, Past
    <3>2. ASSUME NEW n \in Warnings  PROVE ~(clock > clock + After(n))
      BY <3>1, SessionAssumption DEF After
    <3>3. QED  BY <1>1, <3>1, <3>2 DEF SetLate, After
  <2>2. CASE store.status # "active"
    BY <1>1, <2>2 DEF SetLate
  <2>3. QED  BY <2>1, <2>2
<1>10. QED  BY <1>5, <1>6, <1>7, <1>8, <1>9 DEF IInv

LEMMA WhoAmIInv ==
    ASSUME IInv, WhoAmI
    PROVE  IInv'
<1>1. /\ TypeOK /\ page # "gone" /\ whoami.sent /\ whoami' = Idle
      /\ UNCHANGED <<clock, cookie, logins, page, calls, elsewhere>>
      /\ Current /\ whoami.cookie \in Cookie \cup {None}
  BY DEF WhoAmI, IInv, TypeOK, Request, browser, Running
<1>2. CASE /\ Good(whoami.cookie) /\ whoami.cookie.user \in Enrolled
           /\ store' = [status |-> "active", user |-> whoami.cookie.user] /\ Show("active")
           /\ spoilt' = (spoilt \/ Leaving)
  <2>1. /\ shown' = "active" /\ since' = clock /\ modals' = {} /\ fired' = {}
        /\ whoami.cookie # None /\ whoami.cookie.user \in Users
        /\ store'.status = "active" /\ store'.user = whoami.cookie.user
    BY <1>2, SessionAssumption DEF Show, Good
  <2>2. TypeOK'
    <3>1. store' \in [status : Status, user : Users \cup {None}]
      BY <1>2, <2>1 DEF Status
    <3>2. spoilt' \in BOOLEAN
      BY <1>2
    <3>3. QED  BY <1>1, <2>1, <3>1, <3>2, IdleType DEF TypeOK, Status
  <2>3. (Past /\ Current)'
    BY <1>1, <2>1 DEF IInv, TypeOK, Past, Current, Idle
  <2>6. (Forgot /\ Believed)'
    BY <1>1, <1>2, <2>1 DEF Forgot, Believed, Leaving
  <2>4. (Holder /\ NoLogin)'
    BY <1>1, <1>2, <2>1 DEF Current, Holder, NoLogin
  <2>5. SetLate'
    BY <1>1, <2>1, SessionAssumption DEF IInv, TypeOK, Past, SetLate, After
  <2>7. QED  BY <2>2, <2>3, <2>4, <2>5, <2>6 DEF IInv
<1>3. CASE UNCHANGED <<store, view, spoilt>>
  <2>1. TypeOK'
    BY <1>1, <1>3 DEF view, TypeOK, Request, Idle
  <2>2. (Past /\ Current /\ Forgot /\ Believed /\ Holder /\ NoLogin /\ SetLate)'
    BY <1>1, <1>3 DEF view, IInv, Past, Current, Forgot, Believed, Holder, NoLogin, SetLate,
                      Idle, Leaving, Good
  <2>3. QED  BY <2>1, <2>2 DEF IInv
<1>4. CASE /\ Stored("unauthorized") /\ Show("unauthorized")
           /\ spoilt' = (spoilt \/ Leaving \/ Good(whoami.cookie))
  <2>1. /\ shown' = "unauthorized" /\ since' = None /\ modals' = {} /\ fired' = {}
        /\ store' = [store EXCEPT !.status = "unauthorized"]
        /\ store'.status = "unauthorized"
        /\ store' \in [status : Status, user : Users \cup {None}]
    BY <1>1, <1>4 DEF Show, Stored, TypeOK, Status
  <2>2. TypeOK'
    BY <1>1, <1>4, <2>1 DEF TypeOK, Request, Idle, Status
  <2>3. (Past /\ Current /\ Forgot /\ Believed)'
    BY <1>1, <1>4, <2>1 DEF IInv, Past, Current, Forgot, Believed, Idle, Leaving
  <2>4. (Holder /\ NoLogin)'
    BY <1>1, <1>4, <2>1 DEF Current, Holder, NoLogin, Good
  <2>5. SetLate'
    BY <2>1 DEF SetLate
  <2>6. QED  BY <2>2, <2>3, <2>4, <2>5 DEF IInv
<1>5. QED  BY <1>2, <1>3, <1>4 DEF WhoAmI

(***************************************************************************)
(* Ways out of a login                                                     *)
(***************************************************************************)
(* What the page does while it knows the login forgotten.                  *)
LEMMA ForgetInv ==
    ASSUME IInv, Forget, calls' \in [Calls -> Request],
           UNCHANGED <<clock, cookie, logins, view, whoami, elsewhere, spoilt>>
    PROVE  IInv'
<1>1. store'.status = "" /\ store'.user = None /\ page' = "logout"
  BY DEF Forget, Forgotten
<1>2. TypeOK'
  BY DEF IInv, TypeOK, Forget, Forgotten, Status, view
<1>3. /\ (Past /\ Current /\ Forgot /\ Believed /\ Holder /\ NoLogin)'
      /\ SetLate'
  BY <1>1 DEF IInv, Past, Current, Forgot, Believed, Holder, NoLogin, SetLate,
              Leaving, view
<1>4. QED  BY <1>2, <1>3 DEF IInv

LEMMA HandleLoginInv ==
    ASSUME IInv, HandleLogin
    PROVE  IInv'
<1>1. /\ TypeOK /\ page' = "login" /\ store' = [store EXCEPT !.status = ""]
      /\ store'.status = "" /\ store' \in [status : Status, user : Users \cup {None}]
      /\ spoilt' = FALSE
      /\ UNCHANGED <<clock, cookie, logins, shown, since, modals, fired, whoami, calls, elsewhere>>
  BY DEF HandleLogin, IInv, Stored, TypeOK, Status, browser, view
<1>2. TypeOK'
  BY <1>1 DEF TypeOK
<1>3. /\ (Past /\ Current /\ Forgot /\ Believed /\ Holder /\ NoLogin)'
      /\ SetLate'
  BY <1>1 DEF IInv, Past, Current, Forgot, Believed, Holder, NoLogin, SetLate
<1>4. QED  BY <1>2, <1>3 DEF IInv

LEMMA HandleLogoutInv ==
    ASSUME IInv, HandleLogout
    PROVE  IInv'
BY ForgetInv DEF HandleLogout, IInv, TypeOK, browser

LEMMA CountedDownInv ==
    ASSUME IInv, NEW n \in Warnings, CountedDown(n)
    PROVE  IInv'
BY ForgetInv DEF CountedDown, IInv, TypeOK, browser

(***************************************************************************)
(* Calls of the page                                                       *)
(***************************************************************************)
(* A step that touches the calls of the page only.                         *)
LEMMA CallsInv ==
    ASSUME IInv, calls' \in [Calls -> Request],
           UNCHANGED <<browser, store, page, view, whoami, elsewhere, spoilt>>
    PROVE  IInv'
<1>1. TypeOK'
  BY DEF IInv, TypeOK, browser, view
<1>2. (Past /\ Current /\ Forgot /\ Believed /\ Holder /\ NoLogin /\ SetLate)'
  BY DEF browser, view, IInv, Past, Current, Forgot, Believed, Holder, NoLogin, SetLate,
         Leaving, Good
<1>3. QED  BY <1>1, <1>2 DEF IInv

LEMMA SendInv ==
    ASSUME IInv, NEW c \in Calls, Send(c)
    PROVE  IInv'
<1>1. calls' \in [Calls -> Request]
  BY DEF Send, IInv, TypeOK, Request
<1>2. QED  BY <1>1, CallsInv DEF Send

LEMMA AnswerInv ==
    ASSUME IInv, NEW c \in Calls, Answer(c)
    PROVE  IInv'
<1>1. /\ calls' \in [Calls -> Request] /\ UNCHANGED <<browser, view, whoami, elsewhere>>
      /\ TypeOK
  BY DEF Answer, IInv, TypeOK, Request, Idle
<1>2. ASSUME NEW status \in {"unauthorized", "inactive"}, Refused(status)
      PROVE  IInv'
  <2>1. CASE Forget /\ UNCHANGED spoilt
    BY <1>1, <2>1, ForgetInv DEF browser
  <2>2. CASE Stored(status) /\ spoilt' = TRUE /\ UNCHANGED page
    <3>1. TypeOK'
      BY <1>1, <2>2 DEF browser, view, Stored, TypeOK, Status
    <3>2. /\ (Past /\ Current /\ Forgot /\ Believed /\ Holder /\ NoLogin)'
          /\ SetLate'
      BY <1>1, <2>2 DEF browser, view, IInv, Past, Current, Forgot, Believed, Holder, NoLogin,
                        SetLate
    <3>3. QED  BY <3>1, <3>2 DEF IInv
  <2>3. QED  BY <1>2, <2>1, <2>2 DEF Refused
<1>3. CASE UNCHANGED <<store, page, spoilt>>
  BY <1>1, <1>3, CallsInv
<1>4. QED  BY <1>2, <1>3 DEF Answer

(***************************************************************************)
(* Warnings and the clock                                                  *)
(***************************************************************************)
LEMMA WarnInv ==
    ASSUME IInv, NEW n \in Warnings, Warn(n)
    PROVE  IInv'
<1>1. /\ fired' = fired \cup {n} /\ modals' = {n}
      /\ UNCHANGED <<browser, store, page, shown, since, whoami, calls, elsewhere, spoilt>>
  BY DEF Warn
<1>2. TypeOK'
  BY <1>1 DEF IInv, TypeOK, browser, Warnings
<1>3. (Past /\ Current /\ Forgot /\ Believed /\ Holder /\ NoLogin /\ SetLate)'
  BY <1>1 DEF browser, IInv, Past, Current, Forgot, Believed, Holder, NoLogin, SetLate,
              Leaving, Good, After
<1>4. QED  BY <1>2, <1>3 DEF IInv

LEMMA CloseInv ==
    ASSUME IInv, NEW n \in Warnings, Close(n)
    PROVE  IInv'
<1>1. /\ modals' = modals \ {n}
      /\ UNCHANGED <<browser, store, page, shown, since, fired, whoami, calls, elsewhere, spoilt>>
  BY DEF Close
<1>2. TypeOK'
  BY <1>1 DEF IInv, TypeOK, browser
<1>3. (Past /\ Current /\ Forgot /\ Believed /\ Holder /\ NoLogin /\ SetLate)'
  BY <1>1 DEF browser, IInv, Past, Current, Forgot, Believed, Holder, NoLogin, SetLate,
              Leaving, Good, After
<1>4. QED  BY <1>2, <1>3 DEF IInv

(* Time does not pass while a warning is due.                              *)
LEMMA TickInv ==
    ASSUME IInv, Tick
    PROVE  IInv'
<1>1. /\ clock' = clock + 1 /\ TypeOK /\ clock \in Nat
      /\ \A n \in Warnings : ~Due(n)
      /\ UNCHANGED <<cookie, logins, store, page, shown, since, modals, fired, whoami, calls,
                     elsewhere, spoilt>>
  BY DEF Tick, view, IInv, TypeOK
<1>2. TypeOK'
  BY <1>1 DEF TypeOK
<1>3. Past'
  BY <1>1 DEF IInv, TypeOK, Past, Cookie
<1>4. (Current /\ Forgot /\ Believed /\ Holder /\ SetLate)'
  BY <1>1 DEF IInv, Current, Forgot, Believed, Holder, SetLate, Leaving
<1>5. NoLogin'
  BY <1>1, SessionAssumption DEF IInv, TypeOK, Cookie, NoLogin, Good
<1>6. QED  BY <1>2, <1>3, <1>4, <1>5 DEF IInv

(***************************************************************************)
(* Logins and other tabs                                                   *)
(***************************************************************************)
LEMMA NewCookieType ==
    ASSUME IInv, NEW u \in Users, NewCookie(u)
    PROVE  /\ cookie' \in Cookie /\ cookie'.made = clock /\ logins' \in Nat
BY DEF NewCookie, IInv, TypeOK, Cookie

(* The page is gone, and remembers no login that the cookie may not be.    *)
LEMMA GoneInv ==
    ASSUME IInv, Leaving, Gone, UNCHANGED <<clock, store, elsewhere, spoilt>>,
           cookie' \in Cookie \cup {None}, logins' \in Nat,
           cookie' # None => cookie'.made <= clock
    PROVE  IInv'
<1>1. /\ page' = "gone" /\ shown' = "" /\ since' = None /\ modals' = {} /\ fired' = {}
      /\ whoami' = Idle /\ calls' = [c \in Calls |-> Idle] /\ TypeOK
      /\ ~spoilt => store.status = ""
  BY DEF Gone, IInv, Forgot
<1>2. TypeOK'
  BY <1>1 DEF TypeOK, Request, Idle, Status
<1>3. /\ (Past /\ Current /\ Forgot /\ Believed /\ Holder /\ NoLogin)'
      /\ SetLate'
  BY <1>1 DEF Past, Current, Forgot, Believed, Holder, NoLogin, SetLate, Idle,
              Leaving
<1>4. QED  BY <1>2, <1>3 DEF IInv

LEMMA LogInOutInv ==
    ASSUME IInv, LogIn \/ LogOut
    PROVE  IInv'
<1>1. Leaving /\ Gone /\ UNCHANGED <<clock, store, elsewhere, spoilt>>
  BY DEF LogIn, LogOut, Leaving
<1>2. /\ cookie' \in Cookie \cup {None} /\ logins' \in Nat
      /\ cookie' # None => cookie'.made <= clock
  <2>1. CASE \E u \in Users : NewCookie(u)
    BY <2>1, NewCookieType DEF IInv, TypeOK
  <2>2. CASE UNCHANGED <<cookie, logins>>
    BY <2>2 DEF IInv, TypeOK, Past
  <2>3. CASE cookie' = None /\ UNCHANGED logins
    BY <2>3 DEF IInv, TypeOK
  <2>4. QED  BY <2>1, <2>2, <2>3 DEF LogIn, LogOut
<1>3. QED  BY <1>1, <1>2, GoneInv

LEMMA ElsewhereInv ==
    ASSUME IInv, Elsewhere
    PROVE  IInv'
<1>1. elsewhere' = TRUE /\ UNCHANGED <<clock, store, page, view, whoami, calls, spoilt>>
  BY DEF Elsewhere
<1>2. /\ cookie' \in Cookie \cup {None} /\ logins' \in Nat
      /\ cookie' # None => cookie'.made <= clock
  <2>1. CASE \E u \in Users : NewCookie(u)
    BY <2>1, NewCookieType DEF IInv, TypeOK
  <2>2. CASE cookie' = None /\ UNCHANGED logins
    BY <2>2 DEF IInv, TypeOK
  <2>3. QED  BY <2>1, <2>2 DEF Elsewhere
<1>3. TypeOK'
  BY <1>1, <1>2 DEF IInv, TypeOK, view
<1>4. /\ (Past /\ Current /\ Forgot /\ Believed /\ Holder /\ NoLogin)'
      /\ SetLate'
  BY <1>1, <1>2 DEF view, IInv, Past, Current, Forgot, Believed, Holder, NoLogin, SetLate,
                    Leaving, After
<1>5. QED  BY <1>3, <1>4 DEF IInv

LEMMA NextInv == IInv /\ [Next]_vars => IInv'
<1> SUFFICES ASSUME IInv, [Next]_vars  PROVE IInv'
  OBVIOUS
<1>1. CASE UNCHANGED vars
  BY <1>1, CallsInv DEF vars, browser, view, IInv, TypeOK
<1>2. ASSUME NEW c \in Calls, Send(c) \/ Answer(c)  PROVE IInv'
  BY <1>2, SendInv, AnswerInv
<1>3. ASSUME NEW n \in Warnings, Warn(n) \/ Close(n) \/ CountedDown(n)  PROVE IInv'
  BY <1>3, WarnInv, CloseInv, CountedDownInv
<1>4. QED
  BY <1>1, <1>2, <1>3, LoadInv, WhoAmIInv, HandleLoginInv, HandleLogoutInv, LogInOutInv,
     ElsewhereInv, TickInv DEF Next

(***************************************************************************)
(* Theorems                                                                *)
(***************************************************************************)
(* What the tab remembers, shows and waits for is in step with the cookie  *)
(* in every reachable state, up to what other tabs and late answers did.   *)
THEOREM Inductive == Spec => []IInv
<1>1. QED  BY InitInv, NextInv, PTL DEF Spec

(* Cookies, requests and timers have their types.                          *)
THEOREM TypeCorrect == Spec => []TypeOK
<1>1. IInv => TypeOK
  BY DEF IInv
<1>2. QED  BY <1>1, Inductive, PTL

(* The tab takes the user for the one who holds the cookie.                *)
THEOREM UserSound == Spec => []SameUser
<1>1. IInv => SameUser
  BY DEF IInv, Believed, Holder, SameUser
<1>2. QED  BY <1>1, Inductive, PTL

(* No user with a good cookie is told to log in.                           *)
THEOREM LoginSound == Spec => []NotToldToLogIn
<1>1. IInv => NotToldToLogIn
  BY DEF IInv, Believed, NoLogin, NotToldToLogIn
<1>2. QED  BY <1>1, Inductive, PTL

(* No countdown ends a login that has time left: both end together, and    *)
(* the timers were not set before the cookie was made.                     *)
THEOREM LogoutSound == Spec => []NoEarlyLogout
<1>1. IInv => NoEarlyLogout
  <2> SUFFICES ASSUME IInv, NEW n \in Warnings, Zero(n), ~elsewhere, Good(cookie)
               PROVE  FALSE
    BY DEF NoEarlyLogout
  <2>1. /\ page = "up" /\ since # None /\ cookie # None /\ clock < cookie.made + Life
        /\ clock >= since + After(n) + Left(n) /\ cookie.made <= since
    BY DEF Zero, Armed, Good, IInv, SetLate
  <2>2. After(n) + Left(n) >= Life /\ After(n) \in Nat /\ Left(n) \in Int
    BY SessionAssumption DEF After, Left
  <2>3. clock \in Nat /\ since \in Nat /\ cookie.made \in Nat /\ Life \in Nat
    BY <2>1, SessionAssumption DEF IInv, TypeOK, Cookie
  <2>4. QED  BY <2>1, <2>2, <2>3
<1>2. QED  BY <1>1, Inductive, PTL

=============================================================================
