------------------------ MODULE RefreshFlow_proofs -------------------------
(***************************************************************************)
(* Theorems about RefreshFlow, for any number of clients, refresh tokens   *)
(* and failures: what a client got by refreshing is its own and stays      *)
(* good, what was revoked stays dead, and no refresh token is used twice.  *)
(***************************************************************************)
EXTENDS RefreshFlow, TLAPS

(***************************************************************************)
(* The inductive invariant, in named parts.                                *)
(***************************************************************************)
(* CILogon has given t, or t is None.                                      *)
Known(t) == t = None \/ (t \in Nat /\ t <= given)

(* Nobody but c holds t, presents it, or is about to be given it, and it   *)
(* is not what the login hands out.                                        *)
Private(t, c) ==
    /\ t # cookie
    /\ \A d \in Clients : d # c => held[d] # t /\ req[d].token # t /\ req[d].new # t

(* Which steps belong to which endpoint, and what a request carries.       *)
Shape(c) ==
    /\ Known(held[c]) /\ Known(req[c].token) /\ Known(req[c].new)
    /\ req[c].pc # "idle" => req[c].token = held[c] /\ held[c] # None
    /\ req[c].pc \in {"check", "rotate", "generate"} => req[c].op = "refresh"
    /\ req[c].pc = "revoke" => req[c].op = "revoke"
    /\ req[c].pc \in {"idle", "check", "rotate", "revoke"} => req[c].new = None
    /\ req[c].pc = "generate" => req[c].new # None
    /\ req[c].pc # "reply" => req[c].answer # "ok"
    /\ req[c].pc = "reply" /\ Refreshed(c) => req[c].new # None
    /\ req[c].pc = "reply" /\ req[c].answer = "ok" => Refreshed(c) \/ Revoked(c)

(* A new refresh token on its way to a client is good and that client's.   *)
NewOwn(c) == req[c].new # None => req[c].new \in live /\ Private(req[c].new, c)

(* A refresh token a client got by refreshing is its own, and it is good   *)
(* unless the request under way has done something to it.                  *)
HeldOwn(c) ==
    source[c] = "refresh" /\ held[c] # None =>
        /\ Private(held[c], c)
        /\ \/ held[c] \in live \/ c \in unlucky
           \/ req[c].pc = "generate"
           \/ req[c].pc = "reply" /\ req[c].answer = "ok"

(* The refresh token of a request that CILogon answered was used by this   *)
(* request only.                                                           *)
Spent(c) ==
    req[c].pc = "generate" =>
        /\ req[c].token \notin live
        /\ \A m \in made : m.from # req[c].token
        /\ \A d \in Clients : d # c /\ req[d].pc = "generate" => req[d].token # req[c].token

(* What is about to be confirmed as revoked is so.                         *)
Dead(c) == req[c].pc = "reply" /\ Revoked(c) => req[c].token \notin live

IInv ==
    /\ TypeOK
    /\ Known(cookie)
    /\ \A t \in live \cup gone : Known(t)
    /\ \A m \in made : Known(m.from) /\ m.from \notin live
    /\ \A c \in Clients : Shape(c) /\ NewOwn(c) /\ HeldOwn(c) /\ Spent(c) /\ Dead(c)
    /\ RevokedStaysDead
    /\ OneTokenPerRefresh

LEMMA IdleType == Idle \in Request
BY DEF Idle, Request

LEMMA InitInv == Init => IInv
<1> SUFFICES ASSUME Init  PROVE IInv
  OBVIOUS
<1>1. TypeOK
  BY IdleType DEF Init, TypeOK, RefreshToken
<1>2. ASSUME NEW c \in Clients
      PROVE  Shape(c) /\ NewOwn(c) /\ HeldOwn(c) /\ Spent(c) /\ Dead(c)
  BY RefreshAssumption
     DEF Init, Idle, Shape, NewOwn, HeldOwn, Spent, Dead, Known, Refreshed, Revoked
<1>3. QED
  BY <1>1, <1>2 DEF IInv, Init, Known, RevokedStaysDead, OneTokenPerRefresh

(***************************************************************************)
(* Steps                                                                   *)
(***************************************************************************)
(* A request moves on with the same refresh tokens, and nothing else       *)
(* changes than that its client may have become unlucky.                   *)
LEMMA QuietStep ==
    ASSUME IInv, NEW c \in Clients, NEW q \in Request,
           req' = [req EXCEPT ![c] = q],
           UNCHANGED <<cilogon, cookie, made, client>>,
           unlucky \subseteq unlucky', unlucky' \subseteq Clients, faults' \in Nat,
           q.pc \in {"check", "rotate", "revoke", "reply"},
           q.token = held[c], held[c] # None, q.new = None,
           q.pc \in {"check", "rotate"} => q.op = "refresh",
           q.pc = "revoke" => q.op = "revoke",
           q.answer # "ok",
           req[c].pc \in {"idle", "check", "rotate"}
    PROVE  IInv'
<1>0. req[c] \in Request /\ req' \in [Clients -> Request]
  BY DEF IInv, TypeOK
<1>1. /\ req'[c] = q
      /\ \A d \in Clients : d # c => req'[d] = req[d]
  BY DEF IInv, TypeOK
<1>2. TypeOK'
  BY <1>0 DEF IInv, TypeOK, cilogon, client
<1>3. UNCHANGED <<live, given, cookie, made, held, source, gone>>
  BY DEF cilogon, client
<1>4. ASSUME NEW t, NEW d \in Clients, Private(t, d), d # c => t # held[c], t # None
      PROVE  Private(t, d)'
  BY <1>1, <1>3, <1>4 DEF Private
<1>5. ASSUME NEW d \in Clients
      PROVE  (Shape(d) /\ NewOwn(d) /\ HeldOwn(d) /\ Spent(d) /\ Dead(d))'
  <2>0. /\ Shape(d) /\ NewOwn(d) /\ HeldOwn(d) /\ Spent(d) /\ Dead(d)
        /\ Shape(c)
    BY DEF IInv
  <2>1. Shape(d)'
    BY <1>1, <1>3, <2>0 DEF Shape, Known, Refreshed, Revoked
  <2>2. NewOwn(d)'
    BY <1>1, <1>3, <1>4, <2>0 DEF NewOwn, Private
  <2>3. HeldOwn(d)'
    <3>1. source[d] = "refresh" /\ held[d] # None => Private(held[d], d)'
      BY <1>3, <1>4, <2>0 DEF HeldOwn, Private
    <3>2. QED  BY <1>0, <1>1, <1>3, <2>0, <3>1 DEF HeldOwn, Shape, Refreshed, Revoked
  <2>4. Spent(d)'
    BY <1>1, <1>3, <2>0 DEF Spent
  <2>5. Dead(d)'
    BY <1>1, <1>3, <2>0 DEF Dead, Revoked
  <2>6. QED  BY <2>1, <2>2, <2>3, <2>4, <2>5
<1>6. QED
  BY <1>2, <1>3, <1>5 DEF IInv, Known, RevokedStaysDead, OneTokenPerRefresh

(* What is private of one client stays so when another moves to something  *)
(* else.                                                                   *)
LEMMA PrivateKept ==
    ASSUME NEW t, NEW d \in Clients, NEW c \in Clients, Private(t, d),
           cookie' = cookie,
           \A e \in Clients : e # c => req'[e] = req[e] /\ held'[e] = held[e],
           d # c => held'[c] # t /\ req'[c].token # t /\ req'[c].new # t
    PROVE  Private(t, d)'
BY DEF Private

LEMMA BeginInv ==
    ASSUME IInv, NEW c \in Clients,
           (\E params, fit \in BOOLEAN : RefreshBegin(c, params, fit)) \/ RevokeBegin(c)
    PROVE  IInv'
<1>0. held[c] \in RefreshToken \cup {None}
  BY DEF IInv, TypeOK
<1>1. ASSUME NEW params \in BOOLEAN, NEW fit \in BOOLEAN, RefreshBegin(c, params, fit)
      PROVE  IInv'
  <2> DEFINE q == [[Idle EXCEPT !.op = "refresh", !.pc = "check", !.params = params, !.fit = fit]
                     EXCEPT !.token = held[c]]
  <2>1. /\ q \in Request /\ q.pc = "check" /\ q.token = held[c] /\ q.new = None
        /\ q.op = "refresh" /\ q.answer # "ok"
    BY <1>0 DEF Idle, Request
  <2>2. /\ req[c].pc = "idle" /\ held[c] # None /\ req' = [req EXCEPT ![c] = q]
        /\ UNCHANGED <<cilogon, cookie, made, client, unlucky, faults>>
    BY <1>1 DEF RefreshBegin, Begin, Become, At, NoFault
  <2>. HIDE DEF q
  <2>3. unlucky \subseteq unlucky' /\ unlucky' \subseteq Clients /\ faults' \in Nat
    BY <2>2 DEF IInv, TypeOK
  <2>4. QED  BY <2>1, <2>2, <2>3, QuietStep
<1>2. ASSUME RevokeBegin(c)  PROVE IInv'
  <2> DEFINE q == [[Idle EXCEPT !.op = "revoke", !.pc = "revoke"] EXCEPT !.token = held[c]]
  <2>1. /\ q \in Request /\ q.pc = "revoke" /\ q.token = held[c] /\ q.new = None
        /\ q.op = "revoke" /\ q.answer # "ok"
    BY <1>0 DEF Idle, Request
  <2>2. /\ req[c].pc = "idle" /\ held[c] # None /\ req' = [req EXCEPT ![c] = q]
        /\ UNCHANGED <<cilogon, cookie, made, client, unlucky, faults>>
    BY <1>2 DEF RevokeBegin, Begin, Become, At, NoFault
  <2>. HIDE DEF q
  <2>3. unlucky \subseteq unlucky' /\ unlucky' \subseteq Clients /\ faults' \in Nat
    BY <2>2 DEF IInv, TypeOK
  <2>4. QED  BY <2>1, <2>2, <2>3, QuietStep
<1>3. QED  BY <1>1, <1>2

LEMMA CheckInv ==
    ASSUME IInv, NEW c \in Clients, Check(c)
    PROVE  IInv'
<1>0. /\ req[c] \in Request /\ Shape(c) /\ req[c].pc = "check" /\ faults' \in Nat
      /\ UNCHANGED <<cilogon, cookie, made, client, unlucky>>
      /\ unlucky \subseteq unlucky' /\ unlucky' \subseteq Clients
  BY DEF IInv, TypeOK, Check, At, NoFault
<1>1. CASE req[c].params
  <2>1. PICK q : q = [req[c] EXCEPT !.pc = "rotate"]
    OBVIOUS
  <2>2. /\ q \in Request /\ q.pc = "rotate" /\ q.token = req[c].token /\ q.new = req[c].new
        /\ q.op = req[c].op /\ q.answer = req[c].answer
    BY <1>0, <2>1 DEF Request
  <2>3. req' = [req EXCEPT ![c] = q]
    BY <1>1, <2>1 DEF Check, Goto, Become
  <2>4. QED  BY <1>0, <2>2, <2>3, QuietStep DEF Shape
<1>2. CASE ~req[c].params
  <2>1. PICK q : q = [req[c] EXCEPT !.pc = "reply", !.answer = "error"]
    OBVIOUS
  <2>2. /\ q \in Request /\ q.pc = "reply" /\ q.token = req[c].token /\ q.new = req[c].new
        /\ q.op = req[c].op /\ q.answer = "error"
    BY <1>0, <2>1 DEF Request
  <2>3. req' = [req EXCEPT ![c] = q]
    BY <1>2, <2>1 DEF Check, Answer, Become
  <2>4. QED  BY <1>0, <2>2, <2>3, QuietStep DEF Shape
<1>3. QED  BY <1>1, <1>2

(* A refresh token CILogon gives is not one it gave before.                *)
LEMMA Fresh ==
    ASSUME IInv, NEW t, Known(t)
    PROVE  t # given + 1 /\ (given' = given + 1 \/ given' = given => Known(t)')
BY RefreshAssumption DEF IInv, TypeOK, Known, RefreshToken

LEMMA LogInInv ==
    ASSUME IInv, LogIn
    PROVE  IInv'
<1>1. /\ given \in Nat /\ given' = given + 1 /\ live' = live \cup {given + 1} /\ cookie' = given + 1
      /\ UNCHANGED <<held, req, made, source, unlucky, gone, faults>>
  BY DEF LogIn, IInv, TypeOK, RefreshToken
<1>2. TypeOK'
  BY <1>1 DEF IInv, TypeOK, RefreshToken
<1>3. ASSUME NEW t, NEW d \in Clients, Private(t, d), Known(t)
      PROVE  Private(t, d)'
  BY <1>1, <1>3, Fresh DEF Private
<1>4. ASSUME NEW d \in Clients
      PROVE  (Shape(d) /\ NewOwn(d) /\ HeldOwn(d) /\ Spent(d) /\ Dead(d))'
  <2>1. Shape(d) /\ NewOwn(d) /\ HeldOwn(d) /\ Spent(d) /\ Dead(d)
    BY DEF IInv
  <2>2. Known(held[d]) /\ Known(req[d].token) /\ Known(req[d].new)
    BY <2>1 DEF Shape
  <2>3. Shape(d)'
    BY <1>1, <2>1, <2>2, Fresh DEF Shape, Refreshed, Revoked
  <2>4. NewOwn(d)' /\ HeldOwn(d)'
    BY <1>1, <1>3, <2>1, <2>2 DEF NewOwn, HeldOwn
  <2>5. Spent(d)' /\ Dead(d)'
    BY <1>1, <2>1, <2>2, Fresh DEF Spent, Dead, Revoked
  <2>6. QED  BY <2>3, <2>4, <2>5
<1>5. /\ Known(cookie)'
      /\ (\A t \in live \cup gone : Known(t))'
      /\ (\A m \in made : Known(m.from) /\ m.from \notin live)'
  BY <1>1, Fresh DEF IInv, Known
<1>6. RevokedStaysDead' /\ OneTokenPerRefresh'
  BY <1>1, Fresh DEF IInv, RevokedStaysDead, OneTokenPerRefresh
<1>7. QED  BY <1>2, <1>4, <1>5, <1>6 DEF IInv

LEMMA CreateInv ==
    ASSUME IInv, NEW c \in Clients, NEW short \in BOOLEAN, Create(c, short)
    PROVE  IInv'
<1>1. /\ held' = [held EXCEPT ![c] = IF short THEN cookie ELSE None]
      /\ source' = [source EXCEPT ![c] = "cookie"]
      /\ UNCHANGED <<live, given, cookie, req, made, unlucky, gone, faults>>
      /\ req[c].pc = "idle"
  BY DEF Create, cilogon, At
<1>2. TypeOK'
  BY <1>1 DEF IInv, TypeOK
<1>3. /\ held'[c] \in {cookie, None} /\ source'[c] = "cookie"
      /\ \A d \in Clients : d # c => held'[d] = held[d] /\ source'[d] = source[d]
  BY <1>1 DEF IInv, TypeOK
<1>4. ASSUME NEW t, NEW d \in Clients, Private(t, d), t # None
      PROVE  Private(t, d)'
  BY <1>1, <1>3, <1>4 DEF Private
<1>5. ASSUME NEW d \in Clients
      PROVE  (Shape(d) /\ NewOwn(d) /\ HeldOwn(d) /\ Spent(d) /\ Dead(d))'
  <2>1. Shape(d) /\ NewOwn(d) /\ HeldOwn(d) /\ Spent(d) /\ Dead(d) /\ Known(cookie)
    BY DEF IInv
  <2>2. Shape(d)'
    BY <1>1, <1>3, <2>1 DEF Shape, Known, Refreshed, Revoked
  <2>3. NewOwn(d)'
    BY <1>1, <1>4, <2>1 DEF NewOwn
  <2>4. HeldOwn(d)'
    BY <1>1, <1>3, <1>4, <2>1 DEF HeldOwn
  <2>5. Spent(d)' /\ Dead(d)'
    BY <1>1, <2>1 DEF Spent, Dead, Revoked
  <2>6. QED  BY <2>2, <2>3, <2>4, <2>5
<1>6. QED
  BY <1>1, <1>2, <1>5 DEF IInv, Known, RevokedStaysDead, OneTokenPerRefresh

(* CILogon takes the refresh token and gives the next: the client is about *)
(* to get it, or out of luck.                                              *)
LEMMA RotatedInv ==
    ASSUME IInv, NEW c \in Clients, NEW q \in Request, req[c].pc = "rotate",
           req[c].token \in live, Rotation(req[c].token),
           req' = [req EXCEPT ![c] = q],
           q.op = "refresh", q.token = req[c].token, q.answer # "ok",
           \/ q.pc = "generate" /\ q.new = given + 1 /\ unlucky' = unlucky
           \/ q.pc = "reply" /\ q.new = None /\ unlucky' = unlucky \cup {c},
           faults' \in Nat, UNCHANGED <<cookie, made, client>>
    PROVE  IInv'
<1>0. /\ given \in Nat /\ given' = given + 1
      /\ live' = (live \ {req[c].token}) \cup {given + 1}
      /\ UNCHANGED <<cookie, made, held, source, gone>>
      /\ None \notin Nat
  BY RefreshAssumption DEF IInv, TypeOK, RefreshToken, Rotation, client
<1>1. /\ req'[c] = q
      /\ \A d \in Clients : d # c => req'[d] = req[d]
  BY DEF IInv, TypeOK
<1>2. TypeOK'
  <2>1. unlucky' \subseteq Clients /\ req' \in [Clients -> Request]
    BY DEF IInv, TypeOK
  <2>2. given' \in Nat /\ live \subseteq Nat
    BY <1>0 DEF IInv, TypeOK, RefreshToken
  <2>3. live' \subseteq Nat
    BY <1>0, <2>2
  <2>4. QED  BY <1>0, <2>1, <2>2, <2>3 DEF IInv, TypeOK, RefreshToken
<1>3. Shape(c) /\ NewOwn(c) /\ HeldOwn(c) /\ Spent(c) /\ Known(req[c].token)
  BY DEF IInv, Shape
<1>4. ASSUME NEW t, NEW d \in Clients, Private(t, d), Known(t), t # None
      PROVE  Private(t, d)'
  BY <1>0, <1>1, <1>3, <1>4, Fresh, PrivateKept DEF Private, Shape
<1>5. ASSUME NEW d \in Clients
      PROVE  (Shape(d) /\ NewOwn(d) /\ HeldOwn(d) /\ Spent(d) /\ Dead(d))'
  <2>1. /\ Shape(d) /\ NewOwn(d) /\ HeldOwn(d) /\ Spent(d) /\ Dead(d)
        /\ Known(held[d]) /\ Known(req[d].token) /\ Known(req[d].new)
    BY DEF IInv, Shape
  <2>2. Known(held[d])' /\ Known(req[d].token)' /\ Known(req[d].new)'
    <3>1. Known(held[d])'
      BY <1>0, <2>1, Fresh DEF Known
    <3>2. CASE d = c
      BY <1>0, <1>1, <2>1, <3>1, <3>2, Fresh DEF Known
    <3>3. CASE d # c
      BY <1>0, <1>1, <2>1, <3>1, <3>3, Fresh DEF Known
    <3>4. QED  BY <3>2, <3>3
  <2>3. Shape(d)'
    BY <1>0, <1>1, <2>1, <2>2 DEF Shape, Known, Refreshed, Revoked
  <2>4. NewOwn(d)'
    <3>1. CASE d = c
      <4>0. PICK g : g = given + 1
        OBVIOUS
      <4>1. Private(g, c)'
        <5>1. ASSUME NEW x \in Clients
              PROVE  held[x] # g /\ req[x].token # g /\ req[x].new # g
          BY <4>0, Fresh DEF IInv, Shape
        <5>2. cookie # g
          BY <4>0, Fresh DEF IInv
        <5>3. QED  BY <1>0, <1>1, <5>1, <5>2 DEF Private
      <4>2. QED  BY <1>0, <1>1, <3>1, <4>0, <4>1 DEF NewOwn
    <3>2. CASE d # c
      BY <1>0, <1>1, <1>4, <2>1, <3>2 DEF NewOwn, Private
    <3>3. QED  BY <3>1, <3>2
  <2>5. HeldOwn(d)'
    <3>1. source[d] = "refresh" /\ held[d] # None => Private(held[d], d)'
      BY <1>0, <1>4, <2>1 DEF HeldOwn, Private
    <3>2. CASE d = c
      BY <1>0, <1>1, <3>1, <3>2 DEF HeldOwn
    <3>3. CASE d # c
      BY <1>0, <1>1, <2>1, <3>1, <3>3 DEF HeldOwn, Private
    <3>4. QED  BY <3>2, <3>3
  <2>6. Spent(d)'
    <3>1. CASE d = c
      <4>1. /\ req[c].token # given + 1
            /\ \A m \in made : m.from # req[c].token
            /\ \A x \in Clients : x # c /\ req[x].pc = "generate" => req[x].token # req[c].token
        BY <1>3, Fresh DEF IInv, Spent
      <4>2. QED  BY <1>0, <1>1, <3>1, <4>1 DEF Spent
    <3>2. CASE d # c
      BY <1>0, <1>1, <2>1, <3>2, Fresh DEF Spent
    <3>3. QED  BY <3>1, <3>2
  <2>7. Dead(d)'
    BY <1>0, <1>1, <2>1, Fresh DEF Dead, Revoked
  <2>8. QED  BY <2>3, <2>4, <2>5, <2>6, <2>7
<1>6. /\ Known(cookie)'
      /\ (\A t \in live \cup gone : Known(t))'
      /\ (\A m \in made : Known(m.from) /\ m.from \notin live)'
  BY <1>0, Fresh DEF IInv, Known
<1>7. RevokedStaysDead' /\ OneTokenPerRefresh'
  BY <1>0, Fresh DEF IInv, RevokedStaysDead, OneTokenPerRefresh
<1>8. QED  BY <1>2, <1>5, <1>6, <1>7 DEF IInv

LEMMA RotateInv ==
    ASSUME IInv, NEW c \in Clients, Rotate(c)
    PROVE  IInv'
<1>0. /\ req[c] \in Request /\ Shape(c) /\ req[c].pc = "rotate"
      /\ req[c].op = "refresh" /\ req[c].answer # "ok"
      /\ req[c].token = held[c] /\ held[c] # None /\ req[c].new = None
      /\ UNCHANGED <<cookie, made, client>>
      /\ given + 1 \in Nat
  BY DEF IInv, TypeOK, Shape, Rotate, At, RefreshToken
<1>1. ASSUME NEW answer \in {"refused", "error"}, Answer(c, answer),
             UNCHANGED <<cilogon, unlucky>>, NoFault \/ Fault
      PROVE  IInv'
  <2>1. PICK q : q = [req[c] EXCEPT !.pc = "reply", !.answer = answer]
    OBVIOUS
  <2>2. /\ q \in Request /\ q.pc = "reply" /\ q.token = req[c].token /\ q.new = req[c].new
        /\ q.op = req[c].op /\ q.answer = answer
    BY <1>0, <2>1 DEF Request
  <2>3. /\ req' = [req EXCEPT ![c] = q] /\ faults' \in Nat
        /\ unlucky \subseteq unlucky' /\ unlucky' \subseteq Clients
    BY <1>1, <2>1 DEF Answer, Become, IInv, TypeOK, Fault, NoFault
  <2>4. QED  BY <1>0, <1>1, <2>2, <2>3, QuietStep
<1>2. ASSUME req[c].token \in live, Rotation(req[c].token), NoFault, UNCHANGED unlucky,
             Become(c, [req[c] EXCEPT !.pc = "generate", !.new = given + 1])
      PROVE  IInv'
  <2>1. PICK q : q = [req[c] EXCEPT !.pc = "generate", !.new = given + 1]
    OBVIOUS
  <2>2. /\ q \in Request /\ q.pc = "generate" /\ q.token = req[c].token /\ q.new = given + 1
        /\ q.op = req[c].op /\ q.answer = req[c].answer
    BY <1>0, <2>1 DEF Request, RefreshToken
  <2>3. req' = [req EXCEPT ![c] = q] /\ faults' \in Nat
    BY <1>2, <2>1 DEF Become, IInv, TypeOK, NoFault
  <2>4. QED  BY <1>0, <1>2, <2>2, <2>3, RotatedInv
<1>3. ASSUME req[c].token \in live, Rotation(req[c].token), Fault, Unlucky(c), Answer(c, "error")
      PROVE  IInv'
  <2>1. PICK q : q = [req[c] EXCEPT !.pc = "reply", !.answer = "error"]
    OBVIOUS
  <2>2. /\ q \in Request /\ q.pc = "reply" /\ q.token = req[c].token /\ q.new = None
        /\ q.op = req[c].op /\ q.answer = "error"
    BY <1>0, <2>1 DEF Request
  <2>3. req' = [req EXCEPT ![c] = q] /\ faults' \in Nat /\ unlucky' = unlucky \cup {c}
    BY <1>3, <2>1 DEF Answer, Become, IInv, TypeOK, Fault, Unlucky
  <2>4. QED  BY <1>0, <1>3, <2>2, <2>3, RotatedInv
<1>4. QED  BY <1>1, <1>2, <1>3 DEF Rotate

LEMMA GenerateInv ==
    ASSUME IInv, NEW c \in Clients, Generate(c)
    PROVE  IInv'
<1>0. /\ req[c] \in Request /\ Shape(c) /\ Spent(c) /\ HeldOwn(c) /\ NewOwn(c)
      /\ req[c].pc = "generate" /\ req[c].op = "refresh"
      /\ req[c].token = held[c] /\ held[c] # None /\ req[c].new # None
      /\ req[c].token \in Nat /\ req[c].token <= given /\ req[c].new \in Nat
      /\ UNCHANGED <<live, given, cookie, held, source, gone>>
  BY DEF IInv, TypeOK, Shape, Known, Generate, At, cilogon, client
<1>1. PICK q \in Request :
         /\ req' = [req EXCEPT ![c] = q]
         /\ q.pc = "reply" /\ q.token = req[c].token /\ q.new = req[c].new /\ q.op = req[c].op
         /\ \/ q.answer = "ok" /\ unlucky' = unlucky
            \/ q.answer = "error" /\ unlucky' = unlucky \cup {c}
  <2>1. ASSUME NEW answer \in {"ok", "error"}
        PROVE  LET q == [req[c] EXCEPT !.pc = "reply", !.answer = answer] IN
               q \in Request /\ q.pc = "reply" /\ q.token = req[c].token /\ q.new = req[c].new
               /\ q.op = req[c].op /\ q.answer = answer
    BY <1>0 DEF Request
  <2>2. QED  BY <2>1 DEF Generate, Answer, Become, Unlucky
<1>2. /\ req'[c] = q
      /\ \A d \in Clients : d # c => req'[d] = req[d]
  BY <1>1 DEF IInv, TypeOK
<1>3. made' = made \/ made' = made \cup {[from |-> req[c].token, n |-> req[c].new]}
  BY DEF Generate, MakeToken
<1>4. TypeOK'
  <2>1. made' \subseteq [from : Nat, n : Nat]
    BY <1>0, <1>3 DEF IInv, TypeOK, RefreshToken
  <2>2. unlucky' \subseteq Clients /\ req' \in [Clients -> Request]
    BY <1>1 DEF IInv, TypeOK
  <2>3. faults' \in Nat
    BY DEF Generate, Fault, NoFault, IInv, TypeOK
  <2>4. QED  BY <1>0, <2>1, <2>2, <2>3 DEF IInv, TypeOK, RefreshToken
<1>5. ASSUME NEW t, NEW d \in Clients, Private(t, d), t # None
      PROVE  Private(t, d)'
  BY <1>0, <1>1, <1>2, <1>5, PrivateKept DEF Private
<1>6. ASSUME NEW d \in Clients
      PROVE  (Shape(d) /\ NewOwn(d) /\ HeldOwn(d) /\ Spent(d) /\ Dead(d))'
  <2>1. Shape(d) /\ NewOwn(d) /\ HeldOwn(d) /\ Spent(d) /\ Dead(d)
    BY DEF IInv
  <2>2. Shape(d)'
    BY <1>0, <1>1, <1>2, <2>1 DEF Shape, Known, Refreshed, Revoked
  <2>3. NewOwn(d)'
    BY <1>0, <1>1, <1>2, <1>5, <2>1 DEF NewOwn
  <2>4. HeldOwn(d)'
    <3>1. source[d] = "refresh" /\ held[d] # None => Private(held[d], d)'
      BY <1>0, <1>5, <2>1 DEF HeldOwn
    <3>2. QED  BY <1>0, <1>1, <1>2, <2>1, <3>1 DEF HeldOwn
  <2>5. Spent(d)'
    BY <1>0, <1>1, <1>2, <1>3, <2>1 DEF Spent
  <2>6. Dead(d)'
    BY <1>0, <1>1, <1>2, <2>1 DEF Dead, Revoked
  <2>7. QED  BY <2>2, <2>3, <2>4, <2>5, <2>6
<1>7. (\A m \in made : Known(m.from) /\ m.from \notin live)'
  BY <1>0, <1>3 DEF IInv, Known, Spent
<1>8. OneTokenPerRefresh'
  BY <1>0, <1>3 DEF IInv, OneTokenPerRefresh, Spent
<1>9. QED  BY <1>0, <1>4, <1>6, <1>7, <1>8 DEF IInv, Known, RevokedStaysDead

LEMMA RevokeInv ==
    ASSUME IInv, NEW c \in Clients, Revoke(c)
    PROVE  IInv'
<1>0. /\ req[c] \in Request /\ Shape(c) /\ req[c].pc = "revoke" /\ req[c].op = "revoke"
      /\ req[c].token = held[c] /\ held[c] # None /\ req[c].new = None
      /\ UNCHANGED <<given, cookie, made, held, source, gone>>
      /\ live' \in {live, live \ {req[c].token}}
  BY DEF IInv, TypeOK, Shape, Revoke, At, client
<1>1. PICK q \in Request :
         /\ req' = [req EXCEPT ![c] = q]
         /\ q.pc = "reply" /\ q.token = req[c].token /\ q.new = None /\ q.op = "revoke"
         /\ \/ q.answer = "ok" /\ unlucky' = unlucky /\ live' = live \ {req[c].token}
            \/ q.answer = "error" /\ unlucky' = unlucky \cup {c}
  <2>1. ASSUME NEW answer \in {"ok", "error"}
        PROVE  LET q == [req[c] EXCEPT !.pc = "reply", !.answer = answer] IN
               q \in Request /\ q.pc = "reply" /\ q.token = req[c].token /\ q.new = None
               /\ q.op = "revoke" /\ q.answer = answer
    BY <1>0 DEF Request
  <2>2. QED  BY <2>1 DEF Revoke, Answer, Become, Unlucky
<1>2. /\ req'[c] = q
      /\ \A d \in Clients : d # c => req'[d] = req[d]
  BY <1>1 DEF IInv, TypeOK
<1>3. TypeOK'
  <2>1. unlucky' \subseteq Clients /\ req' \in [Clients -> Request]
    BY <1>1 DEF IInv, TypeOK
  <2>2. faults' \in Nat
    BY DEF Revoke, Fault, NoFault, IInv, TypeOK
  <2>3. QED  BY <1>0, <2>1, <2>2 DEF IInv, TypeOK
<1>4. ASSUME NEW t, NEW d \in Clients, Private(t, d), t # None
      PROVE  Private(t, d)'
  BY <1>0, <1>1, <1>2, <1>4, PrivateKept DEF Private
<1>5. ASSUME NEW d \in Clients
      PROVE  (Shape(d) /\ NewOwn(d) /\ HeldOwn(d) /\ Spent(d) /\ Dead(d))'
  <2>1. Shape(d) /\ NewOwn(d) /\ HeldOwn(d) /\ Spent(d) /\ Dead(d)
    BY DEF IInv
  <2>2. Shape(d)'
    BY <1>0, <1>1, <1>2, <2>1, RefreshAssumption DEF Shape, Known, Refreshed, Revoked
  <2>3. NewOwn(d)'
    BY <1>0, <1>1, <1>2, <1>4, <2>1 DEF NewOwn, Private
  <2>4. HeldOwn(d)'
    <3>1. source[d] = "refresh" /\ held[d] # None => Private(held[d], d)'
      BY <1>0, <1>4, <2>1 DEF HeldOwn
    <3>2. CASE d = c
      BY <1>0, <1>1, <1>2, <2>1, <3>1, <3>2 DEF HeldOwn
    <3>3. CASE d # c
      BY <1>0, <1>1, <1>2, <2>1, <3>1, <3>3 DEF HeldOwn, Private
    <3>4. QED  BY <3>2, <3>3
  <2>5. Spent(d)'
    BY <1>0, <1>1, <1>2, <2>1 DEF Spent
  <2>6. Dead(d)'
    BY <1>0, <1>1, <1>2, <2>1 DEF Dead, Revoked
  <2>7. QED  BY <2>2, <2>3, <2>4, <2>5, <2>6
<1>6. QED
  BY <1>0, <1>3, <1>5 DEF IInv, Known, RevokedStaysDead, OneTokenPerRefresh

(***************************************************************************)
(* The answer                                                              *)
(***************************************************************************)
(* A request ends: the client keeps, replaces or forgets what it held.     *)
LEMMA EndInv ==
    ASSUME IInv, NEW c \in Clients, req[c].pc = "reply", req' = [req EXCEPT ![c] = Idle],
           NEW h, held' = [held EXCEPT ![c] = h],
           NEW s \in {"none", "cookie", "refresh"}, source' = [source EXCEPT ![c] = s],
           \/ h = held[c] /\ s = source[c] /\ (req[c].answer = "ok" => c \in unlucky')
           \/ h = req[c].new /\ Refreshed(c)
           \/ h = None,
           unlucky' \subseteq Clients, unlucky \subseteq unlucky' \cup {c},
           h = held[c] /\ h # req[c].new => unlucky \subseteq unlucky',
           gone' = gone \/ (Revoked(c) /\ gone' = gone \cup {req[c].token}),
           faults' \in Nat, UNCHANGED <<live, given, cookie, made>>
    PROVE  IInv'
<1>0. /\ Shape(c) /\ NewOwn(c) /\ HeldOwn(c) /\ Dead(c) /\ None \notin Nat
      /\ Idle \in Request /\ Known(h) /\ h \in Nat \cup {None}
  BY IdleType, RefreshAssumption DEF IInv, Shape, Known
<1>1. /\ req'[c] = Idle /\ held'[c] = h /\ source'[c] = s
      /\ \A d \in Clients : d # c => req'[d] = req[d] /\ held'[d] = held[d] /\ source'[d] = source[d]
  BY DEF IInv, TypeOK
<1>2. Idle.pc = "idle" /\ Idle.token = None /\ Idle.new = None /\ Idle.answer = "none" /\ Idle.op = "none"
  BY DEF Idle
<1>3. TypeOK'
  <2>1. req' \in [Clients -> Request] /\ held' \in [Clients -> Nat \cup {None}]
        /\ source' \in [Clients -> {"none", "cookie", "refresh"}]
    BY <1>0 DEF IInv, TypeOK, RefreshToken
  <2>2. gone' \subseteq Nat
    <3>1. CASE gone' = gone
      BY <3>1 DEF IInv, TypeOK, RefreshToken
    <3>2. CASE gone' # gone
      BY <1>0, <3>2 DEF IInv, TypeOK, RefreshToken, Shape, Known
    <3>3. QED  BY <3>1, <3>2
  <2>3. QED  BY <2>1, <2>2 DEF IInv, TypeOK, RefreshToken
<1>4. ASSUME NEW t, NEW d \in Clients, Private(t, d), t # None
      PROVE  Private(t, d)'
  BY <1>1, <1>2, <1>4, PrivateKept DEF Private
<1>5. ASSUME NEW d \in Clients
      PROVE  (Shape(d) /\ NewOwn(d) /\ HeldOwn(d) /\ Spent(d) /\ Dead(d))'
  <2>1. Shape(d) /\ NewOwn(d) /\ HeldOwn(d) /\ Spent(d) /\ Dead(d)
    BY DEF IInv
  <2>2. Shape(d)'
    BY <1>0, <1>1, <1>2, <2>1 DEF Shape, Known, Refreshed, Revoked
  <2>3. NewOwn(d)'
    BY <1>1, <1>2, <1>4, <2>1 DEF NewOwn
  <2>4. HeldOwn(d)'
    <3>1. CASE d = c
      <4>1. CASE h = req[c].new /\ Refreshed(c)
        BY <1>0, <1>1, <1>4, <3>1, <4>1 DEF HeldOwn, NewOwn
      <4>2. CASE h = None
        BY <1>1, <3>1, <4>2 DEF HeldOwn
      <4>3. CASE h = held[c] /\ s = source[c] /\ (req[c].answer = "ok" => c \in unlucky') /\ h # req[c].new
        BY <1>0, <1>1, <1>2, <1>4, <3>1, <4>3 DEF HeldOwn
      <4>4. CASE h = req[c].new /\ h # None
        BY <1>0, <1>1, <1>4, <3>1, <4>4 DEF HeldOwn, NewOwn
      <4>5. QED  BY <4>1, <4>2, <4>3, <4>4
    <3>2. CASE d # c
      BY <1>1, <1>4, <2>1, <3>2 DEF HeldOwn
    <3>3. QED  BY <3>1, <3>2
  <2>5. Spent(d)'
    BY <1>1, <1>2, <2>1 DEF Spent
  <2>6. Dead(d)'
    BY <1>1, <1>2, <2>1 DEF Dead, Revoked
  <2>7. QED  BY <2>2, <2>3, <2>4, <2>5, <2>6
<1>6. (\A t \in live \cup gone : Known(t))' /\ RevokedStaysDead'
  BY <1>0 DEF IInv, Known, RevokedStaysDead, Dead, Shape
<1>7. QED
  BY <1>3, <1>5, <1>6 DEF IInv, Known, OneTokenPerRefresh

LEMMA ReplyInv ==
    ASSUME IInv, NEW c \in Clients, Reply(c)
    PROVE  IInv'
<1>1. /\ req[c].pc = "reply" /\ req' = [req EXCEPT ![c] = Idle] /\ Shape(c)
      /\ UNCHANGED <<live, given, cookie, made>>
      /\ held[c] \in RefreshToken \cup {None} /\ source[c] \in {"none", "cookie", "refresh"}
      /\ faults' \in Nat /\ unlucky' \subseteq Clients /\ unlucky \subseteq unlucky' \cup {c}
  BY DEF Reply, At, Become, cilogon, NoFault, IInv, TypeOK
<1>2. CASE Refreshed(c)
  <2>1. /\ held' = [held EXCEPT ![c] = req[c].new] /\ source' = [source EXCEPT ![c] = "refresh"]
        /\ ~Revoked(c) /\ gone' = gone
    BY <1>2 DEF Reply, Refreshed, Revoked
  <2>2. QED  BY <1>1, <1>2, <2>1, EndInv
<1>3. CASE Revoked(c)
  BY <1>1, <1>3, EndInv DEF Reply, Refreshed, Revoked
<1>4. CASE ~Refreshed(c) /\ ~Revoked(c)
  BY <1>1, <1>4, EndInv DEF Reply, Shape
<1>5. QED  BY <1>2, <1>3, <1>4

LEMMA LostInv ==
    ASSUME IInv, NEW c \in Clients, Lost(c)
    PROVE  IInv'
<1>1. /\ req[c].pc = "reply" /\ req' = [req EXCEPT ![c] = Idle]
      /\ UNCHANGED <<live, given, cookie, made, held, source, gone>>
      /\ faults' \in Nat /\ unlucky' \subseteq Clients /\ unlucky \subseteq unlucky'
      /\ req[c].answer = "ok" => c \in unlucky'
      /\ source[c] \in {"none", "cookie", "refresh"}
  BY DEF Lost, At, Become, cilogon, client, Fault, IInv, TypeOK
<1>2. held' = [held EXCEPT ![c] = held[c]] /\ source' = [source EXCEPT ![c] = source[c]]
  BY <1>1 DEF IInv, TypeOK
<1>3. QED  BY <1>1, <1>2, EndInv

LEMMA NextInv == IInv /\ [Next]_vars => IInv'
<1> SUFFICES ASSUME IInv, [Next]_vars  PROVE IInv'
  OBVIOUS
<1>1. CASE LogIn
  BY <1>1, LogInInv
<1>2. ASSUME NEW c \in Clients, Ask(c)  PROVE IInv'
  BY <1>2, CreateInv, BeginInv DEF Ask
<1>3. ASSUME NEW c \in Clients, Step(c)  PROVE IInv'
  BY <1>3, CheckInv, RotateInv, GenerateInv, RevokeInv, ReplyInv, LostInv DEF Step
<1>4. CASE UNCHANGED vars
  <2>1. UNCHANGED <<live, given, cookie, held, req, made, source, unlucky, gone, faults>>
    BY <1>4 DEF vars
  <2>2. TypeOK' /\ RevokedStaysDead' /\ OneTokenPerRefresh'
    BY <2>1 DEF IInv, TypeOK, RevokedStaysDead, OneTokenPerRefresh
  <2>3. ASSUME NEW c \in Clients
        PROVE  (Shape(c) /\ NewOwn(c) /\ HeldOwn(c) /\ Spent(c) /\ Dead(c))'
    <3>1. Shape(c) /\ NewOwn(c) /\ HeldOwn(c) /\ Spent(c) /\ Dead(c)
      BY DEF IInv
    <3>2. QED
      BY <2>1, <3>1 DEF Shape, NewOwn, HeldOwn, Spent, Dead, Known, Private, Refreshed, Revoked
  <2>4. QED  BY <2>1, <2>2, <2>3 DEF IInv, Known
<1>5. QED  BY <1>1, <1>2, <1>3, <1>4 DEF Next

(***************************************************************************)
(* Theorems                                                                *)
(***************************************************************************)
(* What each client, each request under way and CILogon know of a refresh  *)
(* token fits together, in every reachable state.                          *)
THEOREM Inductive == Spec => []IInv
<1>1. QED  BY InitInv, NextInv, PTL DEF Spec

(* Clients, requests and tokens made by refreshing have their types.       *)
THEOREM TypeCorrect == Spec => []TypeOK
<1>1. IInv => TypeOK
  BY DEF IInv
<1>2. QED  BY <1>1, Inductive, PTL

(* However many clients share a login and whatever fails, a client can     *)
(* refresh with what it got by refreshing.                                 *)
THEOREM RefreshSound == Spec => []RefreshedUsable
<1>1. IInv => RefreshedUsable
  BY DEF IInv, RefreshedUsable, HeldOwn, At
<1>2. QED  BY <1>1, Inductive, PTL

(* A refresh token confirmed as revoked is never good again.               *)
THEOREM RevocationFinal == Spec => []RevokedStaysDead
<1>1. IInv => RevokedStaysDead
  BY DEF IInv
<1>2. QED  BY <1>1, Inductive, PTL

(* No refresh token makes two FABRIC tokens, however often it is presented. *)
THEOREM RotationSound == Spec => []OneTokenPerRefresh
<1>1. IInv => OneTokenPerRefresh
  BY DEF IInv
<1>2. QED  BY <1>1, Inductive, PTL
=============================================================================
