--------------------------- MODULE Authorization ----------------------------
(***************************************************************************)
(* Who a request acts for (dependencies.py, routes.py).  The check of a    *)
(* request is an async dependency: it runs on the event loop as the        *)
(* request comes in, and the handler waits after it for one of the threads *)
(* of the pool.  A route that changes or makes tokens wants the login      *)
(* cookie; the others take a Bearer token instead, and when there is one   *)
(* they look at nothing else.  Two routes that make tokens have no such    *)
(* check: create_cli looks at the cookie itself, and refresh asks CILogon  *)
(* about the refresh token.                                                *)
(***************************************************************************)
EXTENDS Integers, FiniteSets

CONSTANTS
    Users, Operators,
    Requests,       \* requests the service has accepted at the same time
    Threads,        \* size of the pool the handlers run in
    TokenLife,      \* lifetime of tokens
    CookieEnd,      \* the login cookies, all made at 0, are good before this
    None,           \* no header, no cookie, no user, no token
    MaxTokens,      \* bound: tokens ever made
    MaxClock        \* bound: last value of the clock

VARIABLES
    clock,
    active,         \* rows that are Valid or Refreshed
    revoked,        \* rows that are Revoked
    issued,         \* tokens out with the clients
    grants,         \* users whose refresh token CILogon takes
    req,            \* the requests the service has accepted
    killed,         \* history: tokens revoked or deleted
    passed,         \* history: requests past the check when a token was killed
    late            \* history: what each token did once it was killed

rows == <<active, revoked>>
vars == <<clock, active, revoked, issued, grants, req, killed, passed, late>>

ASSUME AuthorizationAssumption ==
    /\ TokenLife \in Nat /\ CookieEnd \in Nat /\ Threads \in Nat \ {0}
    /\ MaxTokens \in Nat /\ MaxClock \in Nat
    /\ IsFiniteSet(Requests)
    /\ None \notin Users

Jwt == [user : Users, n : 1..MaxTokens]

ASSUME NoTokenAssumption == None \notin Jwt

Entry == [jwt : Jwt, expires : Nat]

Making == {"create", "cli", "refresh"}
Open == {"cli", "refresh"}              \* routes without a dependency
Checked == {"create", "delete", "deleteAll", "revoke", "endGrant", "use"}

Request ==
    [op : {"none"} \cup Making \cup Checked,
     pc : {"idle", "queued", "act"},
     token : Jwt \cup {None},           \* the Bearer token that passed the check
     cred : Users \cup {None},          \* whose cookie or refresh token an open route got
     user : Users \cup {None},          \* whom the request acts for
     target : Jwt \cup Users \cup {None}]

Idle == [op |-> "none", pc |-> "idle", token |-> None, cred |-> None, user |-> None,
         target |-> None]

Init ==
    /\ clock = 0
    /\ active = {} /\ revoked = {} /\ issued = {} /\ grants = Users
    /\ req = [r \in Requests |-> Idle]
    /\ killed = {}
    /\ passed = [j \in Jwt |-> 0] /\ late = [j \in Jwt |-> 0]

Become(r, q) == req' = [req EXCEPT ![r] = q]

(* Requests that passed the check by the token j and did not act yet.      *)
Pending(j) == {r \in Requests : req[r].pc # "idle" /\ req[r].token = j}

(***************************************************************************)
(* The check                                                               *)
(***************************************************************************)
(* vouch_authorize: the cookie is the user's while its signature holds.    *)
CookieUser(cookie) == IF clock < CookieEnd THEN cookie ELSE None

(* Fault: any token on record will do, whatever became of it.              *)
BearerUserFound(token) ==
    IF \E e \in active \cup revoked : e.jwt = token /\ clock < e.expires
      THEN token.user ELSE None

(* validate_authorization_token: found, neither revoked nor expired.       *)
BearerUser(token) ==
    IF \E e \in active : e.jwt = token /\ clock < e.expires THEN token.user ELSE None

(* Fault: every route takes a Bearer token.                                *)
LoginOnlyNever(op) == FALSE

(* The routes that depend on get_login_claims.                             *)
LoginOnly(op) == op \in {"create", "delete", "deleteAll"}

(* get_login_claims, get_login_or_token_claims.  A request that is refused *)
(* leaves nothing behind; one that is not waits for a thread.              *)
Accept(r, op, header, cookie, target) ==
    /\ req[r].pc = "idle"
    /\ LET byToken == ~LoginOnly(op) /\ header # None
           user == IF byToken THEN BearerUser(header) ELSE CookieUser(cookie)
       IN  /\ user # None
           /\ Become(r, [op |-> op, pc |-> "queued",
                         token |-> IF byToken THEN header ELSE None,
                         cred |-> None, user |-> user, target |-> target])
    /\ UNCHANGED <<clock, rows, issued, grants, killed, passed, late>>

(* The routes without a dependency take what comes.                        *)
AcceptOpen(r, op, cred) ==
    /\ req[r].pc = "idle"
    /\ Become(r, [Idle EXCEPT !.op = op, !.pc = "queued", !.cred = cred])
    /\ UNCHANGED <<clock, rows, issued, grants, killed, passed, late>>

Arrive(r) ==
    \/ \E header \in issued \cup {None}, cookie \in Users \cup {None} :
          \/ \E op \in {"create", "deleteAll", "use"} : Accept(r, op, header, cookie, None)
          \/ \E op \in {"delete", "revoke"}, j \in issued : Accept(r, op, header, cookie, j)
          \/ \E u \in Users : Accept(r, "endGrant", header, cookie, u)
    \/ \E op \in Open, u \in Users : AcceptOpen(r, op, u)

(* A thread of the pool takes up the handler.                              *)
TakeUp(r) ==
    /\ req[r].pc = "queued"
    /\ Cardinality({x \in Requests : req[x].pc = "act"}) < Threads
    /\ Become(r, [req[r] EXCEPT !.pc = "act"])
    /\ UNCHANGED <<clock, rows, issued, grants, killed, passed, late>>

(***************************************************************************)
(* The handlers                                                            *)
(***************************************************************************)
(* What a killed token still does is counted.                              *)
Count(r) == late' = IF req[r].token \in killed THEN [late EXCEPT ![req[r].token] = @ + 1]
                                               ELSE late

Acting(r, ops) == req[r].pc = "act" /\ req[r].op \in ops

(* A handler ends and has changed nothing here: it only read, or found     *)
(* nothing to change, or failed.                                           *)
Finish(r) ==
    /\ req[r].pc = "act"
    /\ Become(r, Idle)
    /\ Count(r)
    /\ UNCHANGED <<clock, rows, issued, grants, killed, passed>>

(* create_cli checks the cookie, and refresh_token asks CILogon.           *)
Admit(r) ==
    /\ req[r].user = None
    /\ \/ Acting(r, {"cli"}) /\ CookieUser(req[r].cred) # None
       \/ Acting(r, {"refresh"}) /\ req[r].cred \in grants
    /\ Become(r, [req[r] EXCEPT !.user = req[r].cred])
    /\ UNCHANGED <<clock, rows, issued, grants, killed, passed, late>>

(* The token is made and recorded for the user.                            *)
Create(r) ==
    /\ Acting(r, Making) /\ req[r].user # None
    /\ \E n \in 1..MaxTokens :
          LET j == [user |-> req[r].user, n |-> n] IN
          /\ \A i \in issued : i.n < n
          /\ \A m \in 1..n - 1 : \E i \in issued : i.n = m
          /\ active' = active \cup {[jwt |-> j, expires |-> clock + TokenLife]}
          /\ issued' = issued \cup {j}
    /\ Become(r, Idle)
    /\ Count(r)
    /\ UNCHANGED <<clock, revoked, grants, killed, passed>>

(* The token is no longer good; requests that passed the check by it are   *)
(* under way.                                                              *)
Kill(j) ==
    /\ killed' = killed \cup {j}
    /\ passed' = IF j \in killed THEN passed ELSE [passed EXCEPT ![j] = Cardinality(Pending(j)')]

(* delete_tokens removes rows of the caller, one by one.                   *)
Delete(r) ==
    /\ Acting(r, {"delete", "deleteAll"})
    /\ UNCHANGED <<clock, issued, grants, req, late>>
    /\ \E e \in active \cup revoked :
          /\ e.jwt.user = req[r].user
          /\ req[r].op = "delete" => e.jwt = req[r].target
          /\ active' = active \ {e} /\ revoked' = revoked \ {e}
          /\ Kill(e.jwt)

(* revoke_identity_token: the caller's own tokens, or any for an operator. *)
Revoke(r) ==
    /\ Acting(r, {"revoke"})
    /\ \E e \in active :
          /\ e.jwt = req[r].target
          /\ e.jwt.user = req[r].user \/ req[r].user \in Operators
          /\ active' = active \ {e} /\ revoked' = revoked \cup {e}
          /\ Become(r, Idle) /\ Count(r)
          /\ Kill(e.jwt)
    /\ UNCHANGED <<clock, issued, grants>>

(* POST /tokens/revoke has CILogon end the refresh token in the body,      *)
(* whoever asks.                                                           *)
EndGrant(r) ==
    /\ Acting(r, {"endGrant"})
    /\ grants' = grants \ {req[r].target}
    /\ Become(r, Idle)
    /\ Count(r)
    /\ UNCHANGED <<clock, rows, issued, killed, passed>>

(* CILogon's refresh tokens expire.                                        *)
GrantExpires(u) ==
    /\ u \in grants /\ grants' = grants \ {u}
    /\ UNCHANGED <<clock, rows, issued, req, killed, passed, late>>

(* Any handler may sweep what has expired.                                 *)
Sweep ==
    /\ \E r \in Requests : req[r].pc = "act"
    /\ \E e \in active \cup revoked :
          /\ e.expires < clock
          /\ active' = active \ {e} /\ revoked' = revoked \ {e}
    /\ UNCHANGED <<clock, issued, grants, req, killed, passed, late>>

Tick ==
    /\ clock < MaxClock /\ clock' = clock + 1
    /\ UNCHANGED <<rows, issued, grants, req, killed, passed, late>>

Handle(r) ==
    \/ TakeUp(r) \/ Finish(r) \/ Admit(r) \/ Create(r) \/ Delete(r) \/ Revoke(r)
    \/ EndGrant(r)

Next ==
    \/ Sweep \/ Tick \/ \E u \in Users : GrantExpires(u)
    \/ \E r \in Requests : Arrive(r) \/ Handle(r)

Spec == Init /\ [][Next]_vars

(***************************************************************************)
(* Properties                                                              *)
(***************************************************************************)
TypeOK ==
    /\ clock \in Nat
    /\ active \subseteq Entry /\ revoked \subseteq Entry
    /\ issued \subseteq Jwt /\ grants \subseteq Users
    /\ req \in [Requests -> Request]
    /\ killed \subseteq Jwt /\ passed \in [Jwt -> Nat] /\ late \in [Jwt -> Nat]

(* A Bearer token may be revoked or deleted while requests that passed the *)
(* check by it wait for a thread.  Those act all the same, once each; none *)
(* gets past the check any more.                                           *)
RevokedActsBounded == \A j \in Jwt : late[j] <= passed[j]

(* A user whose login is over and whose refresh token has ended, with no   *)
(* request let in to make a token.                                         *)
Out(u) ==
    /\ clock >= CookieEnd /\ u \notin grants
    /\ \A r \in Requests : req[r].op \in Making => req[r].user # u

(* Tokens do not make tokens: as long as such a user does not log in       *)
(* again, nobody makes a token for the user any more, by whatever route    *)
(* and with whatever Bearer token, so that the last one expires in time.   *)
OutStaysOut ==
    [][\A u \in Users : Out(u) =>
          Out(u)' /\ \A e \in active' \ active : e.jwt.user # u]_vars
=============================================================================
