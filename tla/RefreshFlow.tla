---------------------------- MODULE RefreshFlow -----------------------------
(***************************************************************************)
(* Refresh tokens between CILogon, the service and its clients             *)
(* (oauth_credmgr.py).  A user logs in once; every short-lived token made  *)
(* in that browser session is handed out with the one refresh token the    *)
(* vouch cookie holds.  CILogon takes a refresh token once and gives a new *)
(* one in its place.  The service keeps neither: what it does not get to   *)
(* the client in the answer is lost.                                       *)
(***************************************************************************)
EXTENDS Integers, FiniteSets

CONSTANTS
    Clients,        \* programs that hold tokens, one request each at a time
    None,           \* no refresh token
    MaxGiven,       \* bound: refresh tokens CILogon gives
    MaxFaults       \* bound: calls and answers that fail

VARIABLES
    live,           \* refresh tokens CILogon accepts
    given,          \* the last refresh token CILogon gave
    cookie,         \* the refresh token in the vouch cookie
    held,           \* the refresh token each client holds
    req,            \* the request of each client
    made,           \* FABRIC tokens made by refreshing, and from what
    source,         \* history: where held came from
    unlucky,        \* history: clients whose request failed once CILogon had
                    \* or may have changed their refresh token
    gone,           \* history: refresh tokens confirmed as revoked
    faults          \* history: number of calls and answers that failed

vars == <<live, given, cookie, held, req, made, source, unlucky, gone, faults>>
cilogon == <<live, given>>
client == <<held, source, gone>>

ASSUME RefreshAssumption ==
    /\ MaxGiven \in Nat \ {0} /\ MaxFaults \in Nat
    /\ None \notin Nat

RefreshToken == Nat

Request ==
    [op : {"none", "refresh", "revoke"},
     pc : {"idle", "check", "rotate", "generate", "revoke", "reply"},
     token : RefreshToken \cup {None},      \* the refresh token in the body
     params : BOOLEAN,                      \* a project and a known scope are named
     fit : BOOLEAN,                         \* the project is one of the user's
     new : RefreshToken \cup {None},        \* the refresh token CILogon gave
     answer : {"none", "ok", "refused", "error"}]

Idle == [op |-> "none", pc |-> "idle", token |-> None, params |-> TRUE, fit |-> TRUE,
         new |-> None, answer |-> "none"]

Init ==
    /\ live = {1} /\ given = 1 /\ cookie = 1
    /\ held = [c \in Clients |-> None]
    /\ req = [c \in Clients |-> Idle]
    /\ made = {}
    /\ source = [c \in Clients |-> "none"]
    /\ unlucky = {} /\ gone = {} /\ faults = 0

At(c, pc) == req[c].pc = pc
Become(c, q) == req' = [req EXCEPT ![c] = q]
Goto(c, pc) == Become(c, [req[c] EXCEPT !.pc = pc])
Answer(c, answer) == Become(c, [req[c] EXCEPT !.pc = "reply", !.answer = answer])

Fault == faults < MaxFaults /\ faults' = faults + 1
NoFault == UNCHANGED faults

(***************************************************************************)
(* Clients and CILogon                                                     *)
(***************************************************************************)
(* The user logs in again and the cookie is replaced.                      *)
LogIn ==
    /\ given < MaxGiven
    /\ given' = given + 1 /\ live' = live \cup {given + 1} /\ cookie' = given + 1
    /\ UNCHANGED <<held, req, made, source, unlucky, gone, faults>>

(* create_token gives the cookie's refresh token to short-lived tokens, and *)
(* to others none.                                                         *)
Create(c, short) ==
    /\ At(c, "idle")
    /\ held' = [held EXCEPT ![c] = IF short THEN cookie ELSE None]
    /\ source' = [source EXCEPT ![c] = "cookie"]
    /\ UNCHANGED <<cilogon, cookie, req, made, unlucky, gone, faults>>

Begin(c, q) ==
    /\ At(c, "idle") /\ held[c] # None
    /\ Become(c, [q EXCEPT !.token = held[c]])
    /\ NoFault /\ UNCHANGED <<cilogon, cookie, made, client, unlucky>>

RefreshBegin(c, params, fit) ==
    Begin(c, [Idle EXCEPT !.op = "refresh", !.pc = "check", !.params = params, !.fit = fit])

RevokeBegin(c) == Begin(c, [Idle EXCEPT !.op = "revoke", !.pc = "revoke"])

Unlucky(c) == unlucky' = unlucky \cup {c}

(***************************************************************************)
(* refresh_token                                                           *)
(***************************************************************************)
(* The parameters are looked at before CILogon is asked.                   *)
Check(c) ==
    /\ At(c, "check")
    /\ IF req[c].params THEN Goto(c, "rotate") ELSE Answer(c, "error")
    /\ NoFault /\ UNCHANGED <<cilogon, cookie, made, client, unlucky>>

Rotation(t) == /\ live' = (live \ {t}) \cup {given + 1}
               /\ given' = given + 1

(* Fault: CILogon's refusal is passed by.                                  *)
RotateUnchecked(c) ==
    /\ At(c, "rotate")
    /\ given < MaxGiven /\ Rotation(req[c].token)
    /\ Become(c, [req[c] EXCEPT !.pc = "generate", !.new = given + 1])
    /\ NoFault /\ UNCHANGED <<cookie, made, client, unlucky>>

(* CILogon refuses a refresh token that was used or revoked (401), or takes *)
(* it and gives the next.  Its answer may be lost before or after that.    *)
Rotate(c) ==
    /\ At(c, "rotate")
    /\ \/ /\ req[c].token \notin live
          /\ Answer(c, "refused")
          /\ NoFault /\ UNCHANGED <<cilogon, unlucky>>
       \/ /\ req[c].token \in live /\ given < MaxGiven
          /\ Rotation(req[c].token)
          /\ \/ /\ NoFault /\ UNCHANGED unlucky
                /\ Become(c, [req[c] EXCEPT !.pc = "generate", !.new = given + 1])
             \/ Fault /\ Unlucky(c) /\ Answer(c, "error")
       \/ Fault /\ Answer(c, "error") /\ UNCHANGED <<cilogon, unlucky>>
    /\ UNCHANGED <<cookie, made, client>>

MakeToken(c) == made' = made \cup {[from |-> req[c].token, n |-> req[c].new]}

(* Fault: the answer carries the refresh token of the request.             *)
GenerateOld(c) ==
    /\ At(c, "generate") /\ req[c].fit
    /\ MakeToken(c)
    /\ Become(c, [req[c] EXCEPT !.pc = "reply", !.answer = "ok", !.new = req[c].token])
    /\ NoFault /\ UNCHANGED <<cilogon, cookie, client, unlucky>>

(* The FABRIC token is made from the new id token.  What fails here (not   *)
(* least a project the user is not in) is told as an error that does not   *)
(* have the new refresh token.                                             *)
Generate(c) ==
    /\ At(c, "generate")
    /\ \/ /\ req[c].fit
          /\ MakeToken(c)
          /\ Answer(c, "ok")
          /\ NoFault /\ UNCHANGED unlucky
       \/ /\ IF req[c].fit THEN Fault ELSE NoFault
          /\ made' = made \/ MakeToken(c)
          /\ Unlucky(c) /\ Answer(c, "error")
    /\ UNCHANGED <<cilogon, cookie, client>>

(***************************************************************************)
(* revoke_token                                                            *)
(***************************************************************************)
(* Fault: the status of CILogon's answer is not looked at.                 *)
RevokeUnchecked(c) ==
    /\ At(c, "revoke")
    /\ \/ NoFault /\ live' = live \ {req[c].token}
       \/ Fault /\ live' \in {live, live \ {req[c].token}}
    /\ Answer(c, "ok")
    /\ UNCHANGED <<given, cookie, made, client, unlucky>>

(* CILogon forgets the token, or answers with another status than 200; to  *)
(* a token it does not know it answers like to one it forgot.              *)
Revoke(c) ==
    /\ At(c, "revoke")
    /\ \/ /\ NoFault /\ live' = live \ {req[c].token}
          /\ Answer(c, "ok") /\ UNCHANGED unlucky
       \/ /\ Fault /\ live' \in {live, live \ {req[c].token}}
          /\ Answer(c, "error") /\ Unlucky(c)
    /\ UNCHANGED <<given, cookie, made, client>>

(***************************************************************************)
(* The answer                                                              *)
(***************************************************************************)
Refreshed(c) == req[c].op = "refresh" /\ req[c].answer = "ok"
Revoked(c) == req[c].op = "revoke" /\ req[c].answer = "ok"

(* A client keeps what it is given and forgets what it revoked.            *)
Reply(c) ==
    /\ At(c, "reply")
    /\ held' = [held EXCEPT ![c] = IF Refreshed(c) THEN req[c].new
                                   ELSE IF Revoked(c) THEN None ELSE @]
    /\ source' = [source EXCEPT ![c] = IF Refreshed(c) THEN "refresh" ELSE @]
    /\ unlucky' = IF Refreshed(c) THEN unlucky \ {c} ELSE unlucky
    /\ gone' = IF Revoked(c) THEN gone \cup {req[c].token} ELSE gone
    /\ Become(c, Idle)
    /\ NoFault /\ UNCHANGED <<cilogon, cookie, made>>

(* The client does not hear the answer.                                    *)
Lost(c) ==
    /\ At(c, "reply")
    /\ Fault
    /\ unlucky' = IF req[c].answer = "ok" THEN unlucky \cup {c} ELSE unlucky
    /\ Become(c, Idle)
    /\ UNCHANGED <<cilogon, cookie, made, client>>

Ask(c) ==
    \/ \E short \in BOOLEAN : Create(c, short)
    \/ \E params, fit \in BOOLEAN : RefreshBegin(c, params, fit)
    \/ RevokeBegin(c)

Step(c) == Check(c) \/ Rotate(c) \/ Generate(c) \/ Revoke(c) \/ Reply(c) \/ Lost(c)

Next == LogIn \/ \E c \in Clients : Ask(c) \/ Step(c)

Spec == Init /\ [][Next]_vars

(***************************************************************************)
(* Properties                                                              *)
(***************************************************************************)
TypeOK ==
    /\ live \subseteq RefreshToken /\ given \in RefreshToken
    /\ cookie \in RefreshToken
    /\ held \in [Clients -> RefreshToken \cup {None}]
    /\ req \in [Clients -> Request]
    /\ made \subseteq [from : RefreshToken, n : RefreshToken]
    /\ source \in [Clients -> {"none", "cookie", "refresh"}]
    /\ unlucky \subseteq Clients /\ gone \subseteq RefreshToken
    /\ faults \in Nat

(* A refresh token a client got by refreshing stays good until the client  *)
(* revokes it or a later request with it fails once CILogon was asked:     *)
(* neither the clients that share the login nor an error before that       *)
(* spoils it.                                                              *)
RefreshedUsable ==
    \A c \in Clients :
        At(c, "idle") /\ source[c] = "refresh" /\ c \notin unlucky /\ held[c] # None
        => held[c] \in live

(* A refresh token that was confirmed as revoked makes no FABRIC token any *)
(* more, except for a refresh that CILogon answered before.                *)
RevokedStaysDead == gone \cap live = {}

(* However many clients present one refresh token, and however often they  *)
(* try again, it makes one FABRIC token.                                   *)
OneTokenPerRefresh == \A a, b \in made : a.from = b.from => a = b

=============================================================================
