--------------------------- MODULE CredMgr_proofs ---------------------------
(***************************************************************************)
(* Theorems about CredMgr, for every value of its constants: the invariant *)
(* IInv is inductive, and the safety properties follow from it.  On top of *)
(* it come the answers that account for many rows, and the steps of the    *)
(* requests as steps of TokenLedger.                                       *)
(***************************************************************************)
EXTENDS CredMgr, FiniteSetTheorems, TLAPS

(***************************************************************************)
(* The inductive invariant, in named parts.                                *)
(***************************************************************************)
Making == {"create", "refresh"}         \* requests that make a token
Deleting == {"deleteOne", "deleteAll"}

(* Which steps belong to which endpoint, and what its request names.       *)
Shape(q) ==
    /\ q.pc \in {"stamp", "encode", "add"} => q.op \in Making
    /\ q.pc = "lookup" /\ q.op \in Making => q.op = "create" /\ q.jwt = None
    /\ q.pc = "update" => q.op = "revoke"
    /\ q.pc \in {"select", "removing"} => q.op \in Deleting
    /\ q.op \in Deleting => q.pc \in {"select", "removing", "reply"}
    /\ q.op \in Making => q.caller \in Users /\ q.project \in Projects
    /\ q.op \in Deleting \cup {"revoke"} => q.caller \in Users
    /\ q.op \in {"revoke", "deleteOne", "validate"} => q.jwt \in Known
    /\ q.pc = "add" => q.jwt \in Jwt

(* Rows are finitely many, were stored under ids of their own, and outlive *)
(* the token they describe by less than a second.                          *)
Table ==
    /\ IsFiniteSet(tokens)
    /\ \A t \in tokens : [id |-> t.id, jwt |-> t.jwt] \in stored
    /\ \A s \in stored : s.id < nextId
    /\ \A a, b \in stored : a.id = b.id => a = b
    /\ \A a, b \in tokens : a.id = b.id => a = b
    /\ RowWithinToken

(* Rows a request has read are rows that were stored; the row of that id   *)
(* still has the same expiry.  A sweep has read expired rows, a deletion   *)
(* rows of its caller.                                                     *)
InHand(q) ==
    /\ \A s \in q.rows :
          /\ [id |-> s.id, jwt |-> s.jwt] \in stored
          /\ \A t \in tokens : t.id = s.id => t.expires = s.expires
    /\ q.pc = "sweeping" => \A s \in q.rows : s.expires < now
    /\ q.pc = "removing" => \A s \in q.rows : s.jwt.user = q.caller

(* expires_at is stamped before the exp of the token, which lacks the      *)
(* fraction of its second.                                                 *)
Stamped(q) ==
    /\ q.pc = "encode" => q.expires <= now + q.life
    /\ q.op \in Making /\ q.pc \in {"sweep", "sweeping", "add"} /\ q.jwt # None
         => q.expires < q.jwt.exp + Second

(* What a revocation has established.                                      *)
RevokedRows(j) == ~Twin(j) => \A t \in tokens : t.jwt = j => t.state = "Revoked"

RevokeState(q) ==
    q.op = "revoke" =>
        /\ q.pc = "update" => q.caller \in {q.jwt.user} \cup Operators
        /\ q.pc = "reply" /\ q.answer = "ok" => RevokedRows(q.jwt)

(* What the deletion of one token by its owner has established.            *)
DeleteState(q) ==
    q.op = "deleteOne" /\ q.caller = q.jwt.user =>
        /\ q.pc = "removing" => \A s \in q.rows : s.jwt = q.jwt
        /\ q.pc = "reply" /\ q.answer = "ok" => RevokedRows(q.jwt)

(* What a validation knew when it began, and how it may answer.            *)
ValidateState(q) ==
    q.op = "validate" =>
        /\ q.seen \subseteq acked \cap {q.jwt}
        /\ q.pc = "reply" /\ q.answer \in {"Valid", "Refreshed"}
             => \A j \in q.seen : Twin(j)

IInv ==
    /\ TypeOK
    /\ Table
    /\ acked \subseteq Known
    /\ AckedIsFinal
    /\ \A r \in Requests :
          /\ Shape(req[r]) /\ InHand(req[r]) /\ Stamped(req[r])
          /\ RevokeState(req[r]) /\ DeleteState(req[r]) /\ ValidateState(req[r])

(***************************************************************************)
(* What the queries return                                                 *)
(***************************************************************************)
(* Top returns rows of the set it is given.                                *)
LEMMA TopSubset ==
    ASSUME NEW rows, NEW n, NEW P \in Top(rows, n)
    PROVE  P \subseteq rows
BY DEF Top

(* A page is a subset of the rows it is a page of.                         *)
LEMMA SliceSubset ==
    ASSUME NEW rows, NEW offset, NEW limit, NEW P \in Slice(rows, offset, limit)
    PROVE  P \subseteq rows
<1>1. CASE offset = None \/ limit = None
  BY <1>1 DEF Slice
<1>2. CASE ~(offset = None \/ limit = None)
  BY <1>2, TopSubset DEF Slice
<1>3. QED  BY <1>1, <1>2

(* The first page of a table that has rows has rows: delete_tokens finds   *)
(* nothing to delete only when there is nothing.                           *)
LEMMA SliceNonempty ==
    ASSUME NEW rows, IsFiniteSet(rows), rows # {},
           NEW P \in Slice(rows, 0, PageLimit)
    PROVE  P # {}
<1>1. 0 # None /\ PageLimit # None /\ PageLimit \in Nat \ {0}
  BY CredMgrAssumption
<1>2. PICK Q \in Top(rows, 0 + PageLimit) : \E R \in Top(Q, 0) : P = Q \ R
  BY <1>1 DEF Slice
<1>3. PICK R \in Top(Q, 0) : P = Q \ R
  BY <1>2
<1>4. IsFiniteSet(Q) /\ IsFiniteSet(R)
  BY <1>2, <1>3, TopSubset, FS_Subset
<1>5. /\ Cardinality(rows) \in Nat /\ Cardinality(rows) # 0
      /\ Cardinality(Q) \in Nat /\ Cardinality(R) \in Nat
  BY <1>4, FS_CardinalityType, FS_EmptySet
<1>6. Cardinality(Q) # 0
  BY <1>1, <1>2, <1>5 DEF Top
<1>7. Cardinality(R) = 0
  BY <1>3, <1>5 DEF Top
<1>8. Q # {} /\ R = {}
  BY <1>4, <1>6, <1>7, FS_EmptySet
<1>9. QED  BY <1>3, <1>8

(***************************************************************************)
(* Steps that keep, change or drop rows and add none                       *)
(***************************************************************************)
(* The worker's request becomes q, and each row that is left is a row that *)
(* was there, perhaps revoked meanwhile.  What q must satisfy is stated of *)
(* the state after the step.                                               *)
LEMMA TableStep ==
    ASSUME IInv, NEW r \in Requests, NEW q \in Request,
           req' = [req EXCEPT ![r] = q],
           UNCHANGED <<now, nextId, stored, acked>>, idTokens' \in Nat,
           tokens' \in SUBSET Row, IsFiniteSet(tokens'),
           \A a, b \in tokens' : a.id = b.id => a = b,
           \A t \in tokens' : \E s \in tokens :
              /\ t.id = s.id /\ t.jwt = s.jwt /\ t.expires = s.expires
              /\ s.state = "Revoked" => t.state = "Revoked",
           Shape(q), InHand(q)', Stamped(q), RevokeState(q)', DeleteState(q)',
           ValidateState(q)
    PROVE  IInv'
<1>1. TypeOK'
  BY DEF IInv, TypeOK
<1>2. Table'
  <2>1. RowWithinToken'
    BY DEF IInv, Table, RowWithinToken
  <2>2. QED  BY <2>1 DEF IInv, Table
<1>3. (acked \subseteq Known)' /\ AckedIsFinal'
  BY DEF IInv, AckedIsFinal, Known, Twin
<1>4. ASSUME NEW x \in Requests
      PROVE  req'[x] = IF x = r THEN q ELSE req[x]
  BY DEF IInv, TypeOK
<1>5. ASSUME NEW x \in Requests  PROVE Shape(req[x])'
  BY <1>4 DEF IInv, Shape, Known
<1>6. ASSUME NEW x \in Requests  PROVE InHand(req[x])'
  <2>1. CASE x = r
    BY <1>4, <2>1 DEF InHand
  <2>2. CASE x # r
    <3>1. InHand(req[x])
      BY DEF IInv
    <3>2. QED  BY <1>4, <2>2, <3>1 DEF InHand
  <2>3. QED  BY <2>1, <2>2
<1>7. ASSUME NEW x \in Requests  PROVE Stamped(req[x])'
  BY <1>4 DEF IInv, Stamped
<1>8. ASSUME NEW j, RevokedRows(j)  PROVE RevokedRows(j)'
  BY <1>8 DEF RevokedRows, Twin
<1>9. ASSUME NEW x \in Requests  PROVE RevokeState(req[x])'
  BY <1>4, <1>8 DEF IInv, RevokeState
<1>10. ASSUME NEW x \in Requests  PROVE DeleteState(req[x])'
  BY <1>4, <1>8 DEF IInv, DeleteState
<1>11. ASSUME NEW x \in Requests  PROVE ValidateState(req[x])'
  BY <1>4 DEF IInv, ValidateState, Twin
<1>12. QED
  BY <1>1, <1>2, <1>3, <1>5, <1>6, <1>7, <1>9, <1>10, <1>11 DEF IInv

(* The same for a step that leaves the table alone.                        *)
LEMMA ReadOnlyStep ==
    ASSUME IInv, NEW r \in Requests, NEW q \in Request,
           req' = [req EXCEPT ![r] = q],
           UNCHANGED <<now, tokens, nextId, stored, acked>>, idTokens' \in Nat,
           Shape(q), InHand(q), Stamped(q), RevokeState(q), DeleteState(q),
           ValidateState(q)
    PROVE  IInv'
<1>1. tokens' \in SUBSET Row /\ IsFiniteSet(tokens')
  BY DEF IInv, TypeOK, Table
<1>2. \A a, b \in tokens' : a.id = b.id => a = b
  BY DEF IInv, Table
<1>3. InHand(q)'
  BY DEF InHand
<1>4. RevokeState(q)' /\ DeleteState(q)'
  BY DEF RevokeState, DeleteState, RevokedRows, Twin
<1>5. QED  BY <1>1, <1>2, <1>3, <1>4, TableStep

(* And for a step that removes the rows of one hash.                       *)
LEMMA RemoveStep ==
    ASSUME IInv, NEW r \in Requests, NEW q \in Request, NEW j,
           req' = [req EXCEPT ![r] = q],
           tokens' = RemoveToken(tokens, j),
           UNCHANGED <<now, nextId, idTokens, stored, acked>>,
           Shape(q), InHand(q), Stamped(q), RevokeState(q)', DeleteState(q)',
           ValidateState(q)
    PROVE  IInv'
<1>1. tokens' \subseteq tokens
  BY DEF RemoveToken
<1>2. tokens' \in SUBSET Row /\ IsFiniteSet(tokens')
  BY <1>1, FS_Subset DEF IInv, TypeOK, Table
<1>3. \A a, b \in tokens' : a.id = b.id => a = b
  BY <1>1 DEF IInv, Table
<1>4. InHand(q)'
  BY <1>1 DEF InHand
<1>5. idTokens' \in Nat
  BY DEF IInv, TypeOK
<1>6. QED  BY <1>1, <1>2, <1>3, <1>4, <1>5, TableStep

(***************************************************************************)
(* The initial state, and values that keep their type                      *)
(***************************************************************************)
LEMMA IdleType == Idle \in Request
BY CredMgrAssumption DEF Idle, Request, OpNames, Answers

LEMMA InitInv == Init => IInv
<1> SUFFICES ASSUME Init PROVE IInv
  OBVIOUS
<1>1. TypeOK
  BY IdleType DEF Init, TypeOK
<1>2. Table
  BY FS_EmptySet DEF Init, Table, RowWithinToken
<1>3. AckedIsFinal /\ acked \subseteq Known
  BY DEF Init, AckedIsFinal
<1>4. ASSUME NEW r \in Requests
      PROVE  /\ Shape(req[r]) /\ InHand(req[r]) /\ Stamped(req[r])
             /\ RevokeState(req[r]) /\ DeleteState(req[r]) /\ ValidateState(req[r])
  <2>1. req[r] = Idle
    BY DEF Init
  <2>2. QED
    BY <2>1 DEF Idle, Shape, InHand, Stamped, RevokeState, DeleteState, ValidateState,
                Making, Deleting
<1>5. QED  BY <1>1, <1>2, <1>3, <1>4 DEF IInv

LEMMA KnownType == TypeOK => Known \subseteq Jwt
BY DEF TypeOK, Known

(* A whole second is not before 0, and less than a second ago.             *)
LEMMA WholeSecondBounds ==
    ASSUME NEW t \in Nat
    PROVE  WholeSecond(t) \in Nat /\ t < WholeSecond(t) + Second
<1>1. Second \in Nat \ {0}
  BY CredMgrAssumption
<1>2. t % Second \in 0..(Second - 1) /\ t % Second <= t
  BY <1>1, SMTT(30)
<1>3. QED  BY <1>1, <1>2 DEF WholeSecond

(***************************************************************************)
(* Arrivals                                                                *)
(***************************************************************************)
(* A request that arrives carries no rows and has established nothing.     *)
LEMMA BeginStep ==
    ASSUME IInv, NEW r \in Requests, NEW q \in Request, Begin(r, q), idTokens' \in Nat,
           q.rows = {}, q.answer # "ok", q.pc \notin {"encode", "add", "update"},
           q.op \in Making => q.jwt = None,
           Shape(q), ValidateState(q)
    PROVE  IInv'
<1>1. req' = [req EXCEPT ![r] = q] /\ UNCHANGED <<now, tokens, nextId, stored, acked>>
  BY DEF Begin
<1>2. InHand(q) /\ Stamped(q) /\ RevokeState(q) /\ DeleteState(q)
  BY DEF InHand, Stamped, RevokeState, DeleteState
<1>3. QED  BY <1>1, <1>2, ReadOnlyStep

LEMMA ArriveInv ==
    ASSUME IInv, NEW r \in Requests, Arrive(r)
    PROVE  IInv'
<1> USE CredMgrAssumption DEF OpNames, Answers
<1>0. TypeOK /\ Known \subseteq Jwt
  BY KnownType DEF IInv
<1>1. ASSUME NEW u \in Users, NEW p \in Projects, NEW life \in Lifetimes,
             CreateBegin(r, u, p, life)
      PROVE  IInv'
  <2>0. PICK pc \in {"lookup", "stamp", "sweep"} :
          Begin(r, [Idle EXCEPT !.op = "create", !.caller = u, !.project = p, !.life = life,
                                !.pc = pc])
    BY <1>1 DEF CreateBegin, CreateFirst
  <2> DEFINE q == [Idle EXCEPT !.op = "create", !.caller = u, !.project = p, !.life = life,
                               !.pc = pc]
  <2>1. q \in Request
    BY DEF Idle, Request
  <2>2. Begin(r, q) /\ idTokens' \in Nat
    BY <1>0, <1>1, <2>0 DEF CreateBegin, TypeOK
  <2>3. /\ q.op = "create" /\ q.pc \in {"lookup", "stamp", "sweep"} /\ q.caller \in Users
        /\ q.project \in Projects /\ q.rows = {} /\ q.answer = "none" /\ q.jwt = None
    BY DEF Idle
  <2>. HIDE DEF q
  <2>4. Shape(q) /\ ValidateState(q)
    BY <2>3 DEF Shape, ValidateState, Making, Deleting
  <2>5. QED  BY <2>1, <2>2, <2>3, <2>4, BeginStep
<1>2. ASSUME NEW u \in Users, NEW p \in Projects, RefreshBegin(r, u, p)
      PROVE  IInv'
  <2> DEFINE q == [Idle EXCEPT !.op = "refresh", !.caller = u, !.project = p,
                               !.idt = idTokens + 1, !.life = RefreshLife, !.pc = "stamp"]
  <2>0. idTokens + 1 \in Nat
    BY <1>0 DEF TypeOK
  <2>1. q \in Request
    BY <2>0 DEF Idle, Request
  <2>2. Begin(r, q) /\ idTokens' \in Nat
    BY <1>0, <1>2 DEF RefreshBegin, TypeOK
  <2>3. /\ q.op = "refresh" /\ q.pc = "stamp" /\ q.caller \in Users
        /\ q.project \in Projects /\ q.rows = {} /\ q.answer = "none" /\ q.jwt = None
    BY DEF Idle
  <2>. HIDE DEF q
  <2>4. Shape(q) /\ ValidateState(q)
    BY <2>3 DEF Shape, ValidateState, Making, Deleting
  <2>5. QED  BY <2>1, <2>2, <2>3, <2>4, BeginStep
<1>3. ASSUME NEW u \in Users, NEW j \in Known, RevokeBegin(r, u, j)
      PROVE  IInv'
  <2> DEFINE q == [Idle EXCEPT !.op = "revoke", !.caller = u, !.jwt = j, !.pc = "lookup"]
  <2>1. q \in Request
    BY <1>0 DEF Idle, Request
  <2>2. Begin(r, q) /\ idTokens' \in Nat
    BY <1>0, <1>3 DEF RevokeBegin, TypeOK
  <2>3. /\ q.op = "revoke" /\ q.pc = "lookup" /\ q.caller \in Users
        /\ q.rows = {} /\ q.answer = "none" /\ q.jwt \in Known
    BY DEF Idle
  <2>. HIDE DEF q
  <2>4. Shape(q) /\ ValidateState(q)
    BY <2>3 DEF Shape, ValidateState, Making, Deleting
  <2>5. QED  BY <2>1, <2>2, <2>3, <2>4, BeginStep DEF Making
<1>4. ASSUME NEW u \in Users, NEW j \in Known, DeleteOneBegin(r, u, j)
      PROVE  IInv'
  <2> DEFINE q == [Idle EXCEPT !.op = "deleteOne", !.caller = u, !.jwt = j, !.pc = "select"]
  <2>1. q \in Request
    BY <1>0 DEF Idle, Request
  <2>2. Begin(r, q) /\ idTokens' \in Nat
    BY <1>0, <1>4 DEF DeleteOneBegin, TypeOK
  <2>3. /\ q.op = "deleteOne" /\ q.pc = "select" /\ q.caller \in Users
        /\ q.rows = {} /\ q.answer = "none" /\ q.jwt \in Known
    BY DEF Idle
  <2>. HIDE DEF q
  <2>4. Shape(q) /\ ValidateState(q)
    BY <2>3 DEF Shape, ValidateState, Making, Deleting
  <2>5. QED  BY <2>1, <2>2, <2>3, <2>4, BeginStep DEF Making
<1>5. ASSUME NEW u \in Users, DeleteAllBegin(r, u)
      PROVE  IInv'
  <2> DEFINE q == [Idle EXCEPT !.op = "deleteAll", !.caller = u, !.pc = "select"]
  <2>2. Begin(r, q) /\ idTokens' \in Nat
    BY <1>0, <1>5 DEF DeleteAllBegin, TypeOK
  <2>3. q \in Request
    BY DEF Idle, Request
  <2>4. /\ q.op = "deleteAll" /\ q.pc = "select" /\ q.caller \in Users
        /\ q.rows = {} /\ q.answer = "none"
    BY DEF Idle
  <2>. HIDE DEF q
  <2>5. Shape(q) /\ ValidateState(q)
    BY <2>4 DEF Shape, ValidateState, Making, Deleting
  <2>6. QED  BY <2>2, <2>3, <2>4, <2>5, BeginStep DEF Making
<1>6. ASSUME NEW u \in Users, NEW limit \in Limits, NEW offset \in Offsets,
             ListBegin(r, u, limit, offset)
      PROVE  IInv'
  <2>0. PICK S : S = {t.jwt : t \in Matching(tokens, u, None, None)}
    OBVIOUS
  <2> DEFINE q == [Idle EXCEPT !.op = "list", !.caller = u, !.pc = "sweep",
                               !.limit = limit, !.offset = offset, !.seen = S]
  <2>1. S \in SUBSET Jwt
    BY <1>0, <2>0 DEF Matching, TypeOK, Row
  <2>2. Begin(r, q) /\ idTokens' \in Nat
    BY <1>0, <1>6, <2>0 DEF ListBegin, TypeOK
  <2>3. q \in Request
    BY <2>1 DEF Idle, Request
  <2>4. q.op = "list" /\ q.pc = "sweep" /\ q.rows = {} /\ q.answer = "none"
    BY DEF Idle
  <2>. HIDE DEF q
  <2>5. Shape(q) /\ ValidateState(q)
    BY <2>4 DEF Shape, ValidateState, Making, Deleting
  <2>6. QED  BY <2>2, <2>3, <2>4, <2>5, BeginStep DEF Making
<1>7. ASSUME NEW p \in Projects, RevokeListBegin(r, p)
      PROVE  IInv'
  <2>0. PICK S : S = {t.jwt : t \in {s \in Matching(tokens, None, p, None) :
                                        s.state = "Revoked"}}
    OBVIOUS
  <2> DEFINE q == [Idle EXCEPT !.op = "revokeList", !.project = p, !.pc = "sweep", !.seen = S]
  <2>1. S \in SUBSET Jwt
    BY <1>0, <2>0 DEF Matching, TypeOK, Row
  <2>2. Begin(r, q) /\ idTokens' \in Nat
    BY <1>0, <1>7, <2>0 DEF RevokeListBegin, TypeOK
  <2>3. q \in Request
    BY <2>1 DEF Idle, Request
  <2>4. q.op = "revokeList" /\ q.pc = "sweep" /\ q.rows = {} /\ q.answer = "none"
    BY DEF Idle
  <2>. HIDE DEF q
  <2>5. Shape(q) /\ ValidateState(q)
    BY <2>4 DEF Shape, ValidateState, Making, Deleting
  <2>6. QED  BY <2>2, <2>3, <2>4, <2>5, BeginStep DEF Making
<1>8. ASSUME NEW j \in Known, ValidateBegin(r, j)
      PROVE  IInv'
  <2>0. PICK S : S = acked \cap {j}
    OBVIOUS
  <2> DEFINE expired == [Idle EXCEPT !.op = "validate", !.jwt = j, !.pc = "reply",
                                     !.answer = "Expired", !.seen = S]
             decoded == [Idle EXCEPT !.op = "validate", !.jwt = j, !.pc = "sweep",
                                     !.seen = S]
  <2>1. PICK q \in {expired, decoded} : Begin(r, q) /\ idTokens' \in Nat
    BY <1>0, <1>8, <2>0 DEF ValidateBegin, TypeOK
  <2>2. S \in SUBSET Jwt /\ j \in Jwt
    BY <1>0, <2>0 DEF TypeOK
  <2>3. expired \in Request /\ decoded \in Request
    BY <2>2 DEF Idle, Request
  <2>4. /\ q.op = "validate" /\ q.pc \in {"sweep", "reply"} /\ q.rows = {}
        /\ q.answer \in {"none", "Expired"} /\ q.jwt = j /\ q.seen = S
    BY DEF Idle
  <2>5. q \in Request
    BY <2>3
  <2>. HIDE DEF expired, decoded
  <2>6. Shape(q) /\ ValidateState(q)
    BY <2>0, <2>4 DEF Shape, ValidateState, Making, Deleting
  <2>7. QED  BY <2>1, <2>4, <2>5, <2>6, BeginStep DEF Making
<1>9. QED
  BY <1>1, <1>2, <1>3, <1>4, <1>5, <1>6, <1>7, <1>8 DEF Arrive

(***************************************************************************)
(* Steps of a request                                                      *)
(***************************************************************************)
(* q is p further on: only its step, its rows and its answer may differ.   *)
SameRequest(q, p) ==
    /\ q.op = p.op /\ q.caller = p.caller /\ q.project = p.project /\ q.jwt = p.jwt
    /\ q.life = p.life /\ q.expires = p.expires /\ q.seen = p.seen

(* Rows a request may hold.                                                *)
Held(P) ==
    /\ P \in SUBSET Row
    /\ \A s \in P :
          /\ [id |-> s.id, jwt |-> s.jwt] \in stored
          /\ \A t \in tokens : t.id = s.id => t.expires = s.expires

LEMMA ReadHeld ==
    ASSUME IInv, NEW P \in SUBSET tokens
    PROVE  Held(P)
BY DEF IInv, TypeOK, Table, Held

LEMMA GotoRequest ==
    ASSUME TypeOK, NEW r \in Requests, NEW P \in SUBSET Row,
           NEW pc \in {"sweep", "sweeping", "query", "stamp", "add", "update", "removing"},
           Goto(r, pc, P)
    PROVE  \E q \in Request :
              /\ req' = [req EXCEPT ![r] = q] /\ SameRequest(q, req[r])
              /\ q.pc = pc /\ q.rows = P
<1> DEFINE q == [req[r] EXCEPT !.pc = pc, !.rows = P]
<1>1. req[r] \in Request
  BY DEF TypeOK
<1>2. q \in Request
  BY <1>1 DEF Request
<1>3. q.pc = pc /\ q.rows = P /\ SameRequest(q, req[r])
  BY <1>1 DEF Request, SameRequest
<1>4. req' = [req EXCEPT ![r] = q]
  BY DEF Goto, TypeOK
<1>. HIDE DEF q
<1>5. QED  BY <1>2, <1>3, <1>4

LEMMA AnswerRequest ==
    ASSUME TypeOK, NEW r \in Requests, NEW P \in SUBSET Row, NEW answer,
           answer \in Answers, Answer(r, answer, P)
    PROVE  \E q \in Request :
              /\ req' = [req EXCEPT ![r] = q] /\ SameRequest(q, req[r])
              /\ q.pc = "reply" /\ q.answer = answer /\ q.rows = P
<1> DEFINE q == [req[r] EXCEPT !.pc = "reply", !.answer = answer, !.rows = P]
<1>1. req[r] \in Request
  BY DEF TypeOK
<1>2. q \in Request
  BY <1>1 DEF Request
<1>3. q.pc = "reply" /\ q.answer = answer /\ q.rows = P /\ SameRequest(q, req[r])
  BY <1>1 DEF Request, SameRequest
<1>4. req' = [req EXCEPT ![r] = q]
  BY DEF Answer, TypeOK
<1>. HIDE DEF q
<1>5. QED  BY <1>2, <1>3, <1>4

(* A request that goes on keeps its parts of the invariant when the step   *)
(* it goes to is one of its own and the rows it holds fit that step.       *)
LEMMA GotoParts ==
    ASSUME IInv, NEW r \in Requests, NEW P, Held(P),
           NEW pc \in {"sweep", "sweeping", "query", "stamp", "add", "update", "removing"},
           Goto(r, pc, P),
           pc \in {"stamp", "add"} => req[r].op \in Making,
           pc = "add" => req[r].jwt # None,
           pc = "sweep" /\ req[r].op \in Making => req[r].jwt = None,
           pc \in {"sweeping", "add"} => req[r].pc \in {"sweep", "sweeping"},
           pc = "sweeping" => \A s \in P : s.expires < now,
           pc = "update" => /\ req[r].op = "revoke"
                            /\ req[r].caller \in {req[r].jwt.user} \cup Operators,
           pc = "removing" <=> req[r].op \in Deleting,
           pc = "removing" => \A s \in P : s.jwt.user = req[r].caller,
           req[r].op = "deleteOne" => \A s \in P : s.jwt = req[r].jwt
    PROVE  \E q \in Request :
              /\ req' = [req EXCEPT ![r] = q] /\ q.pc = pc
              /\ Shape(q) /\ InHand(q) /\ Stamped(q)
              /\ RevokeState(q) /\ DeleteState(q) /\ ValidateState(q)
<1>1. /\ TypeOK /\ P \in SUBSET Row
      /\ Shape(req[r]) /\ Stamped(req[r]) /\ ValidateState(req[r])
  BY DEF IInv, Held
<1>2. PICK q \in Request : /\ req' = [req EXCEPT ![r] = q] /\ SameRequest(q, req[r])
                           /\ q.pc = pc /\ q.rows = P
  BY <1>1, GotoRequest
<1>3. Shape(q)
  BY <1>1, <1>2 DEF Shape, SameRequest, Request, Making, Deleting
<1>4. InHand(q)
  BY <1>2 DEF InHand, Held, SameRequest
<1>5. Stamped(q)
  BY <1>1, <1>2 DEF Stamped, SameRequest
<1>6. RevokeState(q) /\ DeleteState(q) /\ ValidateState(q)
  BY <1>1, <1>2 DEF RevokeState, DeleteState, ValidateState, SameRequest
<1>7. QED  BY <1>2, <1>3, <1>4, <1>5, <1>6

LEMMA GotoStep ==
    ASSUME IInv, NEW r \in Requests, NEW P, Held(P),
           NEW pc \in {"sweep", "sweeping", "query", "stamp", "add", "update", "removing"},
           Goto(r, pc, P), UNCHANGED <<now, tokens, nextId, idTokens, stored, acked>>,
           pc \in {"stamp", "add"} => req[r].op \in Making,
           pc = "add" => req[r].jwt # None,
           pc = "sweep" /\ req[r].op \in Making => req[r].jwt = None,
           pc \in {"sweeping", "add"} => req[r].pc \in {"sweep", "sweeping"},
           pc = "sweeping" => \A s \in P : s.expires < now,
           pc = "update" => /\ req[r].op = "revoke"
                            /\ req[r].caller \in {req[r].jwt.user} \cup Operators,
           pc = "removing" <=> req[r].op \in Deleting,
           pc = "removing" => \A s \in P : s.jwt.user = req[r].caller,
           req[r].op = "deleteOne" => \A s \in P : s.jwt = req[r].jwt
    PROVE  IInv'
<1>1. PICK q \in Request :
              /\ req' = [req EXCEPT ![r] = q] /\ q.pc = pc
              /\ Shape(q) /\ InHand(q) /\ Stamped(q)
              /\ RevokeState(q) /\ DeleteState(q) /\ ValidateState(q)
  BY GotoParts
<1>2. idTokens' \in Nat
  BY DEF IInv, TypeOK
<1>3. QED  BY <1>1, <1>2, ReadOnlyStep

(* A request may be answered with anything but a confirmation, or a        *)
(* verdict of validity, that the table does not bear out.                  *)
LEMMA AnswerStep ==
    ASSUME IInv, NEW r \in Requests, NEW P, Held(P), NEW answer \in Answers,
           Answer(r, answer, P), UNCHANGED <<now, tokens, nextId, idTokens, stored, acked>>,
           req[r].op = "revoke" /\ answer = "ok" => RevokedRows(req[r].jwt),
           req[r].op = "deleteOne" /\ req[r].caller = req[r].jwt.user /\ answer = "ok"
             => RevokedRows(req[r].jwt),
           req[r].op = "validate" /\ answer \in {"Valid", "Refreshed"}
             => \A j \in req[r].seen : Twin(j)
    PROVE  IInv'
<1>1. /\ TypeOK /\ P \in SUBSET Row
      /\ Shape(req[r]) /\ ValidateState(req[r])
  BY DEF IInv, Held
<1>2. PICK q \in Request :
              /\ req' = [req EXCEPT ![r] = q] /\ SameRequest(q, req[r])
              /\ q.pc = "reply" /\ q.answer = answer /\ q.rows = P
  BY ONLY <1>1, AnswerRequest, Answer(r, answer, P)
<1>3. Shape(q)
  BY <1>1, <1>2 DEF Shape, SameRequest
<1>4. InHand(q) /\ Stamped(q)
  BY <1>2 DEF InHand, Held, Stamped
<1>5. RevokeState(q) /\ DeleteState(q) /\ ValidateState(q)
  BY <1>1, <1>2 DEF RevokeState, DeleteState, ValidateState, SameRequest
<1>6. idTokens' \in Nat
  BY DEF IInv, TypeOK
<1>7. QED  BY <1>2, <1>3, <1>4, <1>5, <1>6, ReadOnlyStep

(* A lookup goes on with the request, for which no token is made yet.      *)
LEMMA LookupInv ==
    ASSUME IInv, NEW r \in Requests, Lookup(r)
    PROVE  IInv'
<1>1. Held({})
  BY DEF Held
<1>2. /\ Shape(req[r]) /\ req[r].pc = "lookup"
      /\ UNCHANGED <<now, tokens, nextId, idTokens, stored, acked>>
  BY DEF IInv, Lookup
<1>3. /\ req[r].op \notin Deleting
      /\ req[r].op \in Making => req[r].op = "create" /\ req[r].jwt = None
  BY <1>2 DEF Shape
<1>4. PICK pc \in {"sweep", "stamp"} :
          /\ Goto(r, pc, {})
          /\ pc = "stamp" => req[r].op \in Making
  BY DEF Lookup, CreateFirst, Making
<1>5. QED  BY <1>1, <1>2, <1>3, <1>4, GotoStep DEF Deleting

(* A row that a sweep or a deletion has picked may be gone or revoked by   *)
(* now: its hash is removed all the same.                                  *)
LEMMA SweepInv ==
    ASSUME IInv, NEW r \in Requests, Sweep(r)
    PROVE  IInv'
<1> DEFINE expired == ExpiredRows(Matching(tokens, SweepUser(req[r]), None, None), now)
<1>1. PICK P \in Slice(expired, 0, PageLimit) :
          Goto(r, IF P = {} THEN AfterSweep(req[r]) ELSE "sweeping", P)
  BY DEF Sweep
<1>2. P \in SUBSET tokens /\ \A s \in P : s.expires < now
  BY SliceSubset DEF ExpiredRows, Matching
<1>. HIDE DEF expired
<1>3. Held(P)
  BY <1>2, ReadHeld
<1>4. Shape(req[r]) /\ req[r].pc = "sweep"
  BY DEF IInv, Sweep
<1>5. PICK pc \in {"sweeping", "query", "add"} :
          /\ Goto(r, pc, P)
          /\ pc = "add" => req[r].op \in Making /\ req[r].jwt # None
  BY <1>1 DEF AfterSweep, Making
<1>6. req[r].op \notin Deleting
  BY <1>4 DEF Shape
<1>7. UNCHANGED <<now, tokens, nextId, idTokens, stored, acked>>
  BY DEF Sweep
<1>8. QED
  BY <1>2, <1>3, <1>4, <1>5, <1>6, <1>7, GotoStep DEF Deleting

LEMMA SweepRemoveInv ==
    ASSUME IInv, NEW r \in Requests, SweepRemove(r)
    PROVE  IInv'
<1>1. PICK t \in Newest(req[r].rows) :
          /\ tokens' = RemoveToken(tokens, t.jwt)
          /\ Goto(r, IF req[r].rows = {t} THEN AfterSweep(req[r]) ELSE "sweeping",
                  req[r].rows \ {t})
  BY DEF SweepRemove
<1>2. /\ Shape(req[r]) /\ InHand(req[r]) /\ req[r].pc = "sweeping"
      /\ req[r].rows \in SUBSET Row
  BY DEF IInv, SweepRemove, TypeOK, Request
<1> DEFINE P == req[r].rows \ {t}
<1>3. Held(P) /\ \A s \in P : s.expires < now
  BY <1>2 DEF Held, InHand
<1>4. PICK pc \in {"sweeping", "query", "add"} :
          /\ Goto(r, pc, P)
          /\ pc = "add" => req[r].op \in Making /\ req[r].jwt # None
  BY <1>1 DEF AfterSweep, Making
<1>. HIDE DEF P
<1>5. req[r].op \notin Deleting
  BY <1>2 DEF Shape
<1>6. PICK q \in Request :
              /\ req' = [req EXCEPT ![r] = q] /\ q.pc = pc
              /\ Shape(q) /\ InHand(q) /\ Stamped(q)
              /\ RevokeState(q) /\ DeleteState(q) /\ ValidateState(q)
  BY <1>2, <1>3, <1>4, <1>5, GotoParts DEF Deleting
<1>7. RevokeState(q)' /\ DeleteState(q)'
  BY <1>6 DEF RevokeState, DeleteState
<1>8. UNCHANGED <<now, nextId, idTokens, stored, acked>>
  BY DEF SweepRemove
<1>9. QED
  BY <1>1, <1>6, <1>7, <1>8, RemoveStep

LEMMA CheckLimitInv ==
    ASSUME IInv, NEW r \in Requests, CheckLimit(r)
    PROVE  IInv'
<1>1. Held({})
  BY DEF Held
<1>2. req[r].op = "create" /\ UNCHANGED <<now, tokens, nextId, idTokens, stored, acked>>
  BY DEF CheckLimit, At
<1>3. CASE Answer(r, "limit", {})
  BY <1>1, <1>2, <1>3, AnswerStep DEF Answers
<1>4. CASE Goto(r, "stamp", {})
  BY <1>1, <1>2, <1>4, GotoStep DEF Making, Deleting
<1>5. QED  BY <1>3, <1>4 DEF CheckLimit

LEMMA StampInv ==
    ASSUME IInv, NEW r \in Requests, Stamp(r)
    PROVE  IInv'
<1> DEFINE q == [req[r] EXCEPT !.pc = "encode", !.expires = now + req[r].life]
<1>1. /\ req \in [Requests -> Request] /\ req[r] \in Request /\ now \in Nat
      /\ idTokens \in Nat /\ req[r].life \in Nat
  BY DEF IInv, TypeOK, Request
<1>2. /\ Shape(req[r]) /\ InHand(req[r]) /\ ValidateState(req[r]) /\ req[r].pc = "stamp"
      /\ UNCHANGED <<now, tokens, nextId, idTokens, stored, acked>>
  BY DEF IInv, Stamp
<1>3. now + req[r].life \in Nat
  BY <1>1
<1>4. q \in Request
  BY <1>1, <1>3 DEF Request
<1>5. req' = [req EXCEPT ![r] = q]
  BY <1>1 DEF Stamp
<1>6. /\ q.op = req[r].op /\ q.caller = req[r].caller /\ q.project = req[r].project
      /\ q.jwt = req[r].jwt /\ q.rows = req[r].rows /\ q.life = req[r].life
      /\ q.pc = "encode" /\ q.expires = now + req[r].life
  BY <1>1 DEF Request
<1>. HIDE DEF q
<1>7. Shape(q) /\ InHand(q)
  BY <1>2, <1>6 DEF Shape, InHand
<1>8. Stamped(q)
  BY <1>1, <1>3, <1>6 DEF Stamped
<1>9. RevokeState(q) /\ DeleteState(q) /\ ValidateState(q)
  BY <1>2, <1>6 DEF Shape, RevokeState, DeleteState, ValidateState, Making
<1>10. QED  BY <1>1, <1>2, <1>4, <1>5, <1>7, <1>8, <1>9, ReadOnlyStep

LEMMA EncodeInv ==
    ASSUME IInv, NEW r \in Requests, Encode(r)
    PROVE  IInv'
<1>1. /\ req \in [Requests -> Request] /\ req[r] \in Request /\ now \in Nat
      /\ idTokens \in Nat /\ req[r].life \in Nat /\ req[r].idt \in Nat
  BY DEF IInv, TypeOK, Request
<1>2. /\ Shape(req[r]) /\ InHand(req[r]) /\ Stamped(req[r]) /\ req[r].pc = "encode"
      /\ UNCHANGED <<now, tokens, nextId, idTokens, stored, acked>>
  BY DEF IInv, Encode
<1>3. req[r].op \in Making /\ req[r].caller \in Users /\ req[r].project \in Projects
  BY <1>2 DEF Shape
<1>4. CASE Answer(r, "lifetime", {})
  <2>1. Held({})
    BY DEF Held
  <2>2. QED  BY <1>2, <1>3, <1>4, <2>1, AnswerStep DEF Answers, Making
<1>5. CASE ~Answer(r, "lifetime", {})
  <2> DEFINE j == [user |-> req[r].caller, project |-> req[r].project,
                   idt |-> req[r].idt, iat |-> WholeSecond(now),
                   exp |-> WholeSecond(now) + req[r].life]
             q == [req[r] EXCEPT !.pc = "sweep", !.jwt = j]
  <2>1. req' = [req EXCEPT ![r] = q]
    BY <1>1, <1>5 DEF Encode
  <2>2. j \in Jwt /\ j.exp \in Nat /\ now + req[r].life < j.exp + Second
    <3>1. WholeSecond(now) \in Nat /\ now < WholeSecond(now) + Second /\ Second \in Nat
      BY <1>1, WholeSecondBounds, CredMgrAssumption
    <3>2. QED  BY <1>1, <1>3, <3>1 DEF Jwt
  <2>. HIDE DEF j
  <2>3. q \in Request
    BY <1>1, <2>2 DEF Request
  <2>4. /\ q.op = req[r].op /\ q.caller = req[r].caller /\ q.project = req[r].project
        /\ q.jwt = j /\ q.rows = req[r].rows /\ q.expires = req[r].expires
        /\ q.pc = "sweep"
    BY <1>1 DEF Request
  <2>. HIDE DEF q
  <2>5. Shape(q)
    BY <1>2, <1>3, <2>4 DEF Shape, Making, Deleting
  <2>6. InHand(q) /\ Stamped(q)
    <3>1. InHand(q)
      BY <1>2, <2>4 DEF InHand
    <3>2. /\ req[r].expires \in Nat /\ Second \in Nat
          /\ req[r].expires <= now + req[r].life
      BY <1>1, <1>2, CredMgrAssumption DEF Stamped, Request
    <3>3. req[r].expires < j.exp + Second
      BY <1>1, <2>2, <3>2
    <3>4. QED  BY <2>4, <3>1, <3>3 DEF Stamped
  <2>7. RevokeState(q) /\ DeleteState(q) /\ ValidateState(q)
    BY <1>3, <2>4 DEF RevokeState, DeleteState, ValidateState, Making
  <2>8. QED  BY <1>1, <1>2, <2>1, <2>3, <2>5, <2>6, <2>7, ReadOnlyStep
<1>6. QED  BY <1>4, <1>5

(* Two rows of a token that was added once are one row.                    *)
LEMMA OneRowPerToken ==
    ASSUME IInv, NEW a \in tokens, NEW b \in tokens, a.jwt = b.jwt, ~Twin(a.jwt)
    PROVE  a = b
<1>1. [id |-> a.id, jwt |-> a.jwt] \in stored /\ [id |-> b.id, jwt |-> b.jwt] \in stored
  BY DEF IInv, Table
<1>2. [id |-> a.id, jwt |-> a.jwt] = [id |-> b.id, jwt |-> b.jwt]
  BY <1>1 DEF Twin
<1>3. a.id = b.id
  BY <1>2
<1>4. QED  BY <1>3 DEF IInv, Table

LEMMA RevokeReadInv ==
    ASSUME IInv, NEW r \in Requests, RevokeRead(r)
    PROVE  IInv'
<1> DEFINE hits == Matching(tokens, RevokeScope(req[r].caller), None, req[r].jwt)
<1>1. /\ req[r].op = "revoke" /\ Shape(req[r])
      /\ UNCHANGED <<now, tokens, nextId, idTokens, stored, acked>>
  BY DEF IInv, RevokeRead, At
<1>2. req[r].jwt # None /\ req[r].caller \in Users
  BY <1>1, KnownType, NoneAssumption DEF IInv, Shape
<1>3. Held({})
  BY DEF Held
<1>4. CASE Answer(r, "notfound", {})
  BY <1>1, <1>3, <1>4, AnswerStep DEF Answers
<1>5. ASSUME NEW t \in Newest(hits),
             IF ViewState(t) = "Revoked" THEN Answer(r, "ok", {}) ELSE Goto(r, "update", {})
      PROVE  IInv'
  <2>1. t \in tokens /\ t.jwt = req[r].jwt
    BY <1>2 DEF Newest, Matching
  <2>2. CASE ViewState(t) = "Revoked"
    <3>1. t.state = "Revoked"
      BY <2>2 DEF ViewState
    <3>2. RevokedRows(req[r].jwt)
      BY <2>1, <3>1, OneRowPerToken DEF RevokedRows
    <3>3. Answer(r, "ok", {})
      BY <1>5, <2>2
    <3>4. QED  BY <1>1, <1>3, <3>2, <3>3, AnswerStep DEF Answers
  <2>3. CASE ViewState(t) # "Revoked"
    <3>1. req[r].caller \in {req[r].jwt.user} \cup Operators
      <4>1. CASE IsFacilityOperator(req[r].caller)
        BY <4>1 DEF IsFacilityOperator, Roles
      <4>2. CASE ~IsFacilityOperator(req[r].caller)
        <5>1. t.jwt.user = req[r].caller
          BY <1>2, <4>2, CredMgrAssumption DEF Newest, Matching, RevokeScope
        <5>2. QED  BY <2>1, <5>1
      <4>3. QED  BY <4>1, <4>2
    <3>2. Goto(r, "update", {})
      BY <1>5, <2>3
    <3>3. QED  BY <1>1, <1>3, <3>1, <3>2, GotoStep DEF Making, Deleting
  <2>4. QED  BY <2>2, <2>3
<1>6. Answer(r, "notfound", {})
        \/ \E t \in Newest(hits) :
             IF ViewState(t) = "Revoked" THEN Answer(r, "ok", {}) ELSE Goto(r, "update", {})
  BY DEF RevokeRead
<1>7. QED  BY <1>4, <1>5, <1>6

(* update_token keeps every row but for the state of one hash.             *)
LEMMA RevokeUpdateInv ==
    ASSUME IInv, NEW r \in Requests, RevokeUpdate(r)
    PROVE  IInv'
<1>1. /\ TypeOK /\ Shape(req[r]) /\ InHand(req[r]) /\ ValidateState(req[r])
      /\ req[r].pc = "update" /\ req[r].op = "revoke"
      /\ UNCHANGED <<now, nextId, idTokens, stored, acked>>
  BY DEF IInv, RevokeUpdate, Shape
<1>2. Held({})
  BY DEF Held
<1>3. CASE Answer(r, "raised", {}) /\ UNCHANGED tokens
  BY <1>1, <1>2, <1>3, AnswerStep DEF Answers
<1>4. CASE Answer(r, "ok", {}) /\ tokens' = UpdateToken(tokens, req[r].jwt, "Revoked")
  <2> DEFINE f(t) == IF t.jwt = req[r].jwt THEN [t EXCEPT !.state = "Revoked"] ELSE t
  <2>1. tokens' = {f(t) : t \in tokens}
    BY <1>4 DEF UpdateToken
  <2>2. ASSUME NEW t \in tokens
        PROVE  /\ f(t) \in Row /\ f(t).id = t.id /\ f(t).jwt = t.jwt
               /\ f(t).expires = t.expires
               /\ t.state = "Revoked" => f(t).state = "Revoked"
               /\ t.jwt = req[r].jwt => f(t).state = "Revoked"
    <3>1. t \in Row
      BY <1>1 DEF TypeOK
    <3>2. QED  BY <3>1 DEF Row, Stored
  <2>. HIDE DEF f
  <2>3. IsFiniteSet(tokens')
    <3> DEFINE g == [t \in tokens |-> f(t)]
    <3>1. IsFiniteSet(tokens)
      BY DEF IInv, Table
    <3>2. g \in Surjection(tokens, tokens')
      BY <2>1 DEF Surjection
    <3>. HIDE DEF g
    <3>3. QED  BY <3>1, <3>2, FS_Surjection
  <2>4. tokens' \in SUBSET Row
    BY <2>1, <2>2
  <2>5. ASSUME NEW t \in tokens'
        PROVE  \E s \in tokens :
                  /\ t.id = s.id /\ t.jwt = s.jwt /\ t.expires = s.expires
                  /\ s.state = "Revoked" => t.state = "Revoked"
    <3>1. PICK s \in tokens : t = f(s)
      BY <2>1
    <3>2. QED  BY <2>2, <3>1
  <2>6. ASSUME NEW a \in tokens', NEW b \in tokens', a.id = b.id
        PROVE  a = b
    <3>1. PICK s \in tokens, t \in tokens : a = f(s) /\ b = f(t)
      BY <2>1
    <3>2. s.id = t.id
      BY <2>2, <2>6, <3>1
    <3>3. s = t
      BY <3>2 DEF IInv, Table
    <3>4. QED  BY <3>1, <3>3
  <2>7. ASSUME NEW j, j = req[r].jwt
        PROVE  RevokedRows(j)'
    <3>1. ASSUME NEW t \in tokens', t.jwt = j  PROVE t.state = "Revoked"
      <4>1. PICK s \in tokens : t = f(s)
        BY <2>1
      <4>2. QED  BY <2>2, <2>7, <3>1, <4>1
    <3>2. QED  BY <3>1 DEF RevokedRows
  <2>8. PICK q \in Request :
              /\ req' = [req EXCEPT ![r] = q] /\ SameRequest(q, req[r])
              /\ q.pc = "reply" /\ q.answer = "ok" /\ q.rows = {}
    <3>1. "ok" \in Answers /\ {} \in SUBSET Row
      BY DEF Answers
    <3>2. QED  BY ONLY <1>1, <1>4, <3>1, AnswerRequest
  <2>9. Shape(q) /\ InHand(q)' /\ Stamped(q) /\ DeleteState(q)' /\ ValidateState(q)
    BY <1>1, <2>8 DEF Shape, InHand, Stamped, DeleteState, ValidateState, SameRequest, Making
  <2>10. RevokeState(q)'
    <3>1. RevokedRows(q.jwt)'
      BY <2>7, <2>8 DEF SameRequest
    <3>2. QED  BY <2>8, <3>1 DEF RevokeState
  <2>11. idTokens' \in Nat
    BY <1>1 DEF TypeOK
  <2>12. QED
    BY <1>1, <2>3, <2>4, <2>5, <2>6, <2>8, <2>9, <2>10, <2>11, TableStep
<1>5. QED  BY <1>3, <1>4 DEF RevokeUpdate

(* The deletion has read a page of its caller's rows, or there are none.   *)
LEMMA DeleteReads ==
    ASSUME TypeOK, NEW r \in Requests, DeleteSelect(r)
    PROVE  \E q \in Request :
              \E P \in Slice(Matching(tokens, req[r].caller, None, req[r].jwt), 0, PageLimit) :
                 /\ req' = [req EXCEPT ![r] = q] /\ q.rows = P
                 /\ q.op = req[r].op /\ q.caller = req[r].caller
                 /\ q.project = req[r].project /\ q.jwt = req[r].jwt
                 /\ q.seen = Jwts(Matching(tokens, req[r].caller, None, req[r].jwt))
                 /\ IF P = {} THEN q.pc = "reply" /\ q.answer = "ok" ELSE q.pc = "removing"
<1> DEFINE mine == Matching(tokens, req[r].caller, None, req[r].jwt)
<1>1. PICK P \in Slice(mine, 0, PageLimit) :
          req' = [req EXCEPT ![r] = [req[r] EXCEPT
                     !.seen = Jwts(mine), !.rows = P,
                     !.pc = IF P = {} THEN "reply" ELSE "removing",
                     !.answer = IF P = {} THEN "ok" ELSE "none"]]
  BY DEF DeleteSelect
<1>2. mine \subseteq tokens /\ P \subseteq mine
  BY SliceSubset DEF Matching
<1>3. Jwts(mine) \in SUBSET Jwt /\ P \in SUBSET Row
  BY <1>2 DEF Jwts, TypeOK, Row
<1>. HIDE DEF mine
<1>4. PICK S : S = Jwts(mine)
  OBVIOUS
<1>5. PICK pc \in {"reply", "removing"} : pc = IF P = {} THEN "reply" ELSE "removing"
  OBVIOUS
<1>6. PICK answer \in {"ok", "none"} : answer = IF P = {} THEN "ok" ELSE "none"
  OBVIOUS
<1> DEFINE q == [req[r] EXCEPT !.seen = S, !.rows = P, !.pc = pc, !.answer = answer]
<1>7. req[r] \in Request /\ req \in [Requests -> Request]
  BY DEF TypeOK
<1>8. q \in Request
  <2>1. S \in SUBSET Jwt /\ P \in SUBSET Row
    BY <1>3, <1>4
  <2>2. answer \in Answers
    BY DEF Answers
  <2>3. QED  BY ONLY <1>7, <2>1, <2>2, pc \in {"reply", "removing"} DEF Request
<1>9. req' = [req EXCEPT ![r] = q]
  BY <1>1, <1>4, <1>5, <1>6
<1>10. /\ q.rows = P /\ q.op = req[r].op /\ q.caller = req[r].caller
       /\ q.project = req[r].project /\ q.jwt = req[r].jwt /\ q.seen = Jwts(mine)
       /\ IF P = {} THEN q.pc = "reply" /\ q.answer = "ok" ELSE q.pc = "removing"
  BY <1>4, <1>5, <1>6, <1>7 DEF Request
<1>. HIDE DEF q
<1>11. QED  BY <1>8, <1>9, <1>10 DEF mine

LEMMA DeleteSelectInv ==
    ASSUME IInv, NEW r \in Requests, DeleteSelect(r)
    PROVE  IInv'
<1> DEFINE mine == Matching(tokens, req[r].caller, None, req[r].jwt)
<1>1. PICK q \in Request :
        \E P \in Slice(mine, 0, PageLimit) :
           /\ req' = [req EXCEPT ![r] = q] /\ q.rows = P
           /\ q.op = req[r].op /\ q.caller = req[r].caller
           /\ q.project = req[r].project /\ q.jwt = req[r].jwt
           /\ IF P = {} THEN q.pc = "reply" /\ q.answer = "ok" ELSE q.pc = "removing"
  BY DeleteReads DEF IInv
<1>2. /\ req[r].op \in Deleting /\ req[r].caller \in Users /\ req[r].caller # None
      /\ req[r].op = "deleteOne" => req[r].jwt # None
      /\ Shape(req[r]) /\ idTokens \in Nat
      /\ UNCHANGED <<now, tokens, nextId, idTokens, stored, acked>>
  BY KnownType, NoneAssumption, CredMgrAssumption DEF IInv, DeleteSelect, Shape, TypeOK
<1>3. /\ mine \subseteq tokens
      /\ \A t \in mine : /\ t.jwt.user = req[r].caller
                         /\ req[r].op = "deleteOne" => t.jwt = req[r].jwt
  BY <1>2 DEF Matching
<1>4. q.rows \subseteq mine
  BY <1>1, SliceSubset
<1>5. q.rows = {} => mine = {}
  <2>1. IsFiniteSet(mine)
    BY <1>3, FS_Subset DEF IInv, Table
  <2>. HIDE DEF mine
  <2>2. QED  BY <1>1, <2>1, SliceNonempty
<1>6. q.rows = {} /\ req[r].op = "deleteOne" /\ req[r].caller = req[r].jwt.user
        => RevokedRows(req[r].jwt)
  BY <1>5 DEF Matching, RevokedRows
<1>7. Held(q.rows)
  BY <1>3, <1>4, ReadHeld
<1>. HIDE DEF mine
<1>8. Shape(q)
  BY <1>1, <1>2 DEF Shape, Making, Deleting
<1>9. InHand(q) /\ Stamped(q)
  BY <1>1, <1>2, <1>3, <1>4, <1>7 DEF InHand, Held, Stamped, Making, Deleting
<1>10. RevokeState(q) /\ DeleteState(q) /\ ValidateState(q)
  BY <1>1, <1>2, <1>3, <1>4, <1>6
     DEF RevokeState, DeleteState, ValidateState, Deleting
<1>11. idTokens' \in Nat
  BY <1>2
<1>12. QED  BY <1>1, <1>2, <1>8, <1>9, <1>10, <1>11, ReadOnlyStep

LEMMA DeleteRemoveInv ==
    ASSUME IInv, NEW r \in Requests, DeleteRemove(r)
    PROVE  IInv'
<1>1. PICK t \in Newest(req[r].rows) :
          /\ tokens' = RemoveToken(tokens, t.jwt)
          /\ IF req[r].rows = {t} THEN Answer(r, "ok", {})
                                  ELSE Goto(r, "removing", req[r].rows \ {t})
  BY DEF DeleteRemove
<1>2. /\ TypeOK /\ Shape(req[r]) /\ InHand(req[r]) /\ DeleteState(req[r])
      /\ ValidateState(req[r]) /\ req[r].pc = "removing"
      /\ req[r].rows \in SUBSET Row /\ t \in req[r].rows
      /\ UNCHANGED <<now, nextId, idTokens, stored, acked>>
  BY DEF IInv, DeleteRemove, TypeOK, Request, Newest
<1>3. /\ req[r].op \in Deleting
      /\ req[r].op = "deleteOne" => req[r].jwt \in Jwt /\ req[r].jwt # None
  BY <1>2, KnownType, NoneAssumption DEF Shape
<1>4. CASE Answer(r, "ok", {})
  <2>1. "ok" \in Answers /\ {} \in SUBSET Row
    BY DEF Answers
  <2>2. PICK q \in Request :
              /\ req' = [req EXCEPT ![r] = q] /\ SameRequest(q, req[r])
              /\ q.pc = "reply" /\ q.answer = "ok" /\ q.rows = {}
    BY ONLY <1>2, <1>4, <2>1, AnswerRequest
  <2>3. Shape(q) /\ InHand(q) /\ Stamped(q) /\ ValidateState(q)
    BY <1>2, <1>3, <2>2
       DEF Shape, InHand, Stamped, ValidateState, SameRequest, Making, Deleting
  <2>4. ASSUME q.op = "deleteOne", q.caller = q.jwt.user
        PROVE  RevokedRows(q.jwt)'
    <3>1. t.jwt = q.jwt
      BY <1>2, <2>2, <2>4 DEF DeleteState, SameRequest
    <3>2. QED  BY <1>1, <3>1 DEF RevokedRows, RemoveToken
  <2>5. RevokeState(q)' /\ DeleteState(q)'
    BY <1>3, <2>2, <2>4 DEF RevokeState, DeleteState, SameRequest, Deleting
  <2>6. QED  BY <1>1, <1>2, <2>2, <2>3, <2>5, RemoveStep
<1>5. CASE Goto(r, "removing", req[r].rows \ {t})
  <2> DEFINE P == req[r].rows \ {t}
  <2>1. Goto(r, "removing", P)
    BY <1>5
  <2>2. /\ P \in SUBSET Row /\ P \subseteq req[r].rows
    BY <1>2
  <2>. HIDE DEF P
  <2>3. PICK q \in Request :
              /\ req' = [req EXCEPT ![r] = q] /\ SameRequest(q, req[r])
              /\ q.pc = "removing" /\ q.rows = P
    BY <1>2, <2>1, <2>2, GotoRequest
  <2>4. Shape(q) /\ InHand(q) /\ Stamped(q) /\ ValidateState(q)
    BY <1>2, <1>3, <2>2, <2>3
       DEF Shape, InHand, Stamped, ValidateState, SameRequest, Making, Deleting
  <2>5. RevokeState(q)' /\ DeleteState(q)'
    BY <1>2, <1>3, <2>2, <2>3 DEF RevokeState, DeleteState, SameRequest, Deleting
  <2>6. QED  BY <1>1, <1>2, <2>3, <2>4, <2>5, RemoveStep
<1>6. QED  BY <1>1, <1>4, <1>5

LEMMA ListReadInv ==
    ASSUME IInv, NEW r \in Requests, ListRead(r)
    PROVE  IInv'
<1>1. PICK P \in Slice(Matching(tokens, req[r].caller, None, None),
                       req[r].offset, req[r].limit) : Answer(r, "ok", P)
  BY DEF ListRead
<1>2. Held(P)
  BY SliceSubset, ReadHeld DEF Matching
<1>3. req[r].op = "list" /\ UNCHANGED <<now, tokens, nextId, idTokens, stored, acked>>
  BY DEF ListRead, At
<1>4. QED  BY <1>1, <1>2, <1>3, AnswerStep DEF Answers

LEMMA RevokeListReadInv ==
    ASSUME IInv, NEW r \in Requests, RevokeListRead(r)
    PROVE  IInv'
<1>1. PICK P \in Slice({t \in Matching(tokens, None, req[r].project, None) :
                           t.state = "Revoked"}, 0, PageLimit) : Answer(r, "ok", P)
  BY DEF RevokeListRead
<1>2. Held(P)
  BY SliceSubset, ReadHeld DEF Matching
<1>3. req[r].op = "revokeList" /\ UNCHANGED <<now, tokens, nextId, idTokens, stored, acked>>
  BY DEF RevokeListRead, At
<1>4. QED  BY <1>1, <1>2, <1>3, AnswerStep DEF Answers

(* The row validate reads is the token's only one unless it has a twin, so *)
(* after a confirmed revocation it cannot read Valid.                      *)
LEMMA ValidateReadInv ==
    ASSUME IInv, NEW r \in Requests, ValidateRead(r)
    PROVE  IInv'
<1>1. /\ req[r].op = "validate" /\ Shape(req[r]) /\ ValidateState(req[r])
      /\ UNCHANGED <<now, tokens, nextId, idTokens, stored, acked>>
  BY DEF IInv, ValidateRead, At
<1>2. req[r].jwt # None
  BY <1>1, KnownType, NoneAssumption DEF IInv, Shape
<1>3. Held({})
  BY DEF Held
<1>4. CASE Answer(r, "INVALID", {})
  BY <1>1, <1>3, <1>4, AnswerStep DEF Answers
<1>5. ASSUME NEW t \in Matching(tokens, None, None, req[r].jwt),
             Answer(r, ViewState(t), {})
      PROVE  IInv'
  <2>1. t \in tokens /\ t \in Row /\ t.jwt = req[r].jwt
    BY <1>2 DEF Matching, IInv, TypeOK
  <2>2. ViewState(t) \in Answers
    BY <2>1 DEF ViewState, Row, Stored, Answers
  <2>3. ASSUME ViewState(t) \in {"Valid", "Refreshed"}, NEW j \in req[r].seen
        PROVE  Twin(j)
    <3>1. t.state # "Revoked"
      BY <2>3 DEF ViewState
    <3>2. j \in acked /\ j = t.jwt
      BY <1>1, <2>1, <2>3 DEF ValidateState
    <3>3. QED  BY <2>1, <3>1, <3>2 DEF IInv, AckedIsFinal
  <2>. DEFINE a == ViewState(t)
  <2>4. a \in Answers /\ Answer(r, a, {})
          /\ (a \in {"Valid", "Refreshed"} => \A j \in req[r].seen : Twin(j))
    BY <1>5, <2>2, <2>3
  <2>. HIDE DEF a
  <2>5. QED  BY <1>1, <1>3, <2>4, AnswerStep
<1>6. Answer(r, "INVALID", {})
        \/ \E t \in Matching(tokens, None, None, req[r].jwt) : Answer(r, ViewState(t), {})
  BY DEF ValidateRead, Newest
<1>7. QED  BY <1>4, <1>5, <1>6

LEMMA AbortInv ==
    ASSUME IInv, NEW r \in Requests, Abort(r)
    PROVE  IInv'
<1>1. Held({})
  BY DEF Held
<1>2. Answer(r, "error", {}) /\ UNCHANGED <<now, tokens, nextId, idTokens, stored, acked>>
  BY DEF Abort
<1>3. QED  BY <1>1, <1>2, AnswerStep DEF Answers

(* A new row has an id nobody has seen; if its token was confirmed revoked *)
(* before, it now has a twin.                                              *)
LEMMA AddTokenInv ==
    ASSUME IInv, NEW r \in Requests, AddToken(r)
    PROVE  IInv'
<1> DEFINE new == [id |-> nextId, jwt |-> req[r].jwt, expires |-> req[r].expires,
                   state |-> IF req[r].op = "refresh" THEN "Refreshed" ELSE "Valid"]
           entry == [id |-> nextId, jwt |-> req[r].jwt]
<1>1. /\ tokens' = tokens \cup {new} /\ stored' = stored \cup {entry}
      /\ nextId' = nextId + 1 /\ Answer(r, "ok", {})
      /\ UNCHANGED <<now, idTokens, acked>>
  BY DEF AddToken
<1>2. /\ TypeOK /\ Shape(req[r]) /\ Stamped(req[r]) /\ req[r].pc = "add"
      /\ req[r] \in Request /\ nextId \in Nat
  BY DEF IInv, AddToken, TypeOK
<1>3. req[r].op \in Making /\ req[r].jwt \in Jwt /\ req[r].expires \in Nat
        /\ req[r].expires < req[r].jwt.exp + Second
  BY <1>2, NoneAssumption DEF Shape, Stamped, Request
<1>4. new \in Row /\ entry \in [id : Nat, jwt : Jwt]
  BY <1>2, <1>3 DEF Row, Stored
<1>5. /\ new.id = nextId /\ new.jwt = req[r].jwt /\ new.expires = req[r].expires
      /\ entry.id = nextId /\ entry.jwt = req[r].jwt
      /\ entry = [id |-> new.id, jwt |-> new.jwt]
  OBVIOUS
<1>. HIDE DEF new, entry
<1>6. PICK q \in Request :
              /\ req' = [req EXCEPT ![r] = q] /\ SameRequest(q, req[r])
              /\ q.pc = "reply" /\ q.answer = "ok" /\ q.rows = {}
  <2>1. "ok" \in Answers /\ {} \in SUBSET Row
    BY DEF Answers
  <2>2. QED  BY ONLY <1>1, <1>2, <2>1, AnswerRequest
<1>7. TypeOK'
  BY <1>1, <1>2, <1>4, <1>6 DEF TypeOK
<1>8. \A s \in stored : s.id \in Nat /\ s.id < nextId
  BY <1>2 DEF IInv, Table, TypeOK
<1>9. \A t \in tokens : t.id \in Nat /\ t.id < nextId /\ [id |-> t.id, jwt |-> t.jwt] \in stored
  BY <1>2, <1>8 DEF IInv, Table, TypeOK, Row
<1>10. Table'
  <2>1. IsFiniteSet(tokens')
    BY <1>1, FS_AddElement DEF IInv, Table
  <2>2. \A t \in tokens' : [id |-> t.id, jwt |-> t.jwt] \in stored'
    BY <1>1, <1>5, <1>9
  <2>3. \A s \in stored' : s.id < nextId'
    BY <1>1, <1>2, <1>5, <1>8
  <2>4. \A a, b \in stored' : a.id = b.id => a = b
    BY <1>1, <1>2, <1>5, <1>8 DEF IInv, Table
  <2>5. \A a, b \in tokens' : a.id = b.id => a = b
    <3>1. \A a, b \in tokens : a.id = b.id => a = b
      BY DEF IInv, Table
    <3>2. ASSUME NEW t \in tokens  PROVE t.id # new.id
      <4>1. t.id \in Nat /\ t.id < nextId
        BY <1>9
      <4>2. QED  BY <1>2, <1>5, <4>1
    <3>3. ASSUME NEW a \in tokens', NEW b \in tokens', a.id = b.id  PROVE a = b
      <4>1. (a \in tokens \/ a = new) /\ (b \in tokens \/ b = new)
        BY <1>1
      <4>2. QED  BY <3>1, <3>2, <3>3, <4>1
    <3>4. QED  BY <3>3
  <2>6. RowWithinToken'
    BY <1>1, <1>3, <1>5 DEF IInv, Table, RowWithinToken
  <2>7. QED  BY <2>1, <2>2, <2>3, <2>4, <2>5, <2>6 DEF Table
<1>11. Known \subseteq Known' /\ \A j : Twin(j) => Twin(j)'
  BY <1>1 DEF Known, Twin
<1>12. ASSUME NEW j \in Known, ~Twin(j)'  PROVE j # new.jwt
  <2>1. PICK s \in stored : s.jwt = j
    BY DEF Known
  <2>2. s # entry /\ s \in stored' /\ entry \in stored'
    BY <1>1, <1>2, <1>5, <1>8
  <2>3. QED  BY <1>5, <1>12, <2>1, <2>2 DEF Twin
<1>13. ASSUME NEW j \in Known, RevokedRows(j)  PROVE RevokedRows(j)'
  BY <1>1, <1>11, <1>12, <1>13 DEF RevokedRows
<1>14. (acked \subseteq Known)' /\ AckedIsFinal'
  <2>1. acked' = acked /\ acked \subseteq Known /\ acked \subseteq Known'
    BY <1>1, <1>11 DEF IInv
  <2>2. \A j \in acked : RevokedRows(j)
    BY DEF IInv, AckedIsFinal, RevokedRows
  <2>3. \A j \in acked : RevokedRows(j)'
    BY <1>13, <2>1, <2>2
  <2>4. QED  BY <2>1, <2>3 DEF AckedIsFinal, RevokedRows
<1>15. ASSUME NEW x \in Requests
       PROVE  /\ Shape(req[x])' /\ InHand(req[x])' /\ Stamped(req[x])'
              /\ RevokeState(req[x])' /\ DeleteState(req[x])' /\ ValidateState(req[x])'
  <2>1. req'[x] = IF x = r THEN q ELSE req[x]
    BY <1>2, <1>6 DEF TypeOK
  <2>2. CASE x = r
    <3>1. q.op \in Making
      BY <1>3, <1>6 DEF SameRequest
    <3>2. q.caller \in Users /\ q.project \in Projects
      BY <1>2, <1>3, <1>6 DEF SameRequest, Shape
    <3>3. QED
      BY <1>6, <2>1, <2>2, <3>1, <3>2
         DEF Shape, InHand, Stamped, RevokeState, DeleteState, ValidateState, Making, Deleting
  <2>3. CASE x # r
    <3>1. req'[x] = req[x]
      BY <2>1, <2>3
    <3>2. /\ Shape(req[x]) /\ InHand(req[x]) /\ Stamped(req[x])
          /\ RevokeState(req[x]) /\ DeleteState(req[x]) /\ ValidateState(req[x])
      BY DEF IInv
    <3>3. Shape(req[x])' /\ Stamped(req[x])'
      BY <1>1, <1>11, <3>1, <3>2 DEF Shape, Stamped
    <3>4. InHand(req[x])'
      <4>1. ASSUME NEW s \in req[x].rows
            PROVE  /\ [id |-> s.id, jwt |-> s.jwt] \in stored'
                   /\ \A t \in tokens' : t.id = s.id => t.expires = s.expires
        <5>1. [id |-> s.id, jwt |-> s.jwt] \in stored
          BY <3>2 DEF InHand
        <5>2. s.id # new.id
          BY <1>2, <1>5, <1>8, <5>1
        <5>3. QED  BY <1>1, <3>2, <5>1, <5>2 DEF InHand
      <4>2. QED  BY <1>1, <3>1, <3>2, <4>1 DEF InHand
    <3>5. RevokeState(req[x])'
      BY <1>13, <3>1, <3>2 DEF RevokeState, Shape
    <3>6. DeleteState(req[x])'
      BY <1>13, <3>1, <3>2 DEF DeleteState, Shape
    <3>7. ValidateState(req[x])'
      BY <1>1, <1>11, <3>1, <3>2 DEF ValidateState
    <3>8. QED  BY <3>3, <3>4, <3>5, <3>6, <3>7
  <2>4. QED  BY <2>2, <2>3
<1>16. QED  BY <1>7, <1>10, <1>14, <1>15 DEF IInv

LEMMA ReplyInv ==
    ASSUME IInv, NEW r \in Requests, Reply(r)
    PROVE  IInv'
<1>1. /\ TypeOK /\ Shape(req[r]) /\ RevokeState(req[r]) /\ DeleteState(req[r])
      /\ req[r].pc = "reply" /\ req' = [req EXCEPT ![r] = Idle]
      /\ acked' = IF Confirms(req[r]) THEN acked \cup {req[r].jwt} ELSE acked
      /\ UNCHANGED <<now, tokens, nextId, idTokens, stored>>
  BY DEF IInv, Reply
<1>2. ASSUME Confirms(req[r])
      PROVE  req[r].jwt \in Known /\ RevokedRows(req[r].jwt)
  BY <1>1, <1>2 DEF Confirms, Shape, RevokeState, DeleteState
<1>3. ASSUME NEW x \in Requests
      PROVE  req'[x] = IF x = r THEN Idle ELSE req[x]
  BY <1>1 DEF TypeOK
<1>4. TypeOK'
  <2>1. acked' \in SUBSET Jwt
    BY <1>1, <1>2, KnownType DEF TypeOK
  <2>2. QED  BY <1>1, <2>1, IdleType DEF TypeOK
<1>5. Table' /\ (acked \subseteq Known)'
  BY <1>1, <1>2 DEF IInv, Table, RowWithinToken, Known
<1>6. AckedIsFinal'
  BY <1>1, <1>2 DEF IInv, AckedIsFinal, RevokedRows, Twin
<1>7. ASSUME NEW x \in Requests
      PROVE  /\ Shape(req[x])' /\ InHand(req[x])' /\ Stamped(req[x])'
             /\ RevokeState(req[x])' /\ DeleteState(req[x])' /\ ValidateState(req[x])'
  <2>1. CASE x = r
    BY <1>3, <2>1 DEF Idle, Shape, InHand, Stamped, RevokeState, DeleteState, ValidateState,
                      Making, Deleting
  <2>2. CASE x # r
    <3>1. req'[x] = req[x] /\ acked \subseteq acked'
      BY <1>1, <1>3, <2>2
    <3>2. /\ Shape(req[x]) /\ InHand(req[x]) /\ Stamped(req[x])
          /\ RevokeState(req[x]) /\ DeleteState(req[x]) /\ ValidateState(req[x])
      BY DEF IInv
    <3>3. Shape(req[x])' /\ InHand(req[x])' /\ Stamped(req[x])'
      BY <1>1, <3>1, <3>2 DEF Shape, InHand, Stamped, Known
    <3>4. RevokeState(req[x])' /\ DeleteState(req[x])'
      BY <1>1, <3>1, <3>2 DEF RevokeState, DeleteState, RevokedRows, Twin
    <3>5. ValidateState(req[x])'
      BY <1>1, <3>1, <3>2 DEF ValidateState, Twin
    <3>6. QED  BY <3>3, <3>4, <3>5
  <2>3. QED  BY <2>1, <2>2
<1>8. QED  BY <1>4, <1>5, <1>6, <1>7 DEF IInv

(* Time passing only makes more rows expired.                              *)
LEMMA TickInv == IInv /\ Tick => IInv'
<1> SUFFICES ASSUME IInv, Tick  PROVE IInv'
  OBVIOUS
<1>1. /\ now' = now + 1 /\ UNCHANGED <<tokens, nextId, idTokens, req, stored, acked>>
      /\ TypeOK /\ now \in Nat
  BY DEF IInv, Tick, TypeOK
<1>2. TypeOK' /\ Table' /\ (acked \subseteq Known)' /\ AckedIsFinal'
  BY <1>1 DEF IInv, TypeOK, Table, RowWithinToken, Known, AckedIsFinal, Twin
<1>3. ASSUME NEW x \in Requests
      PROVE  /\ Shape(req[x])' /\ InHand(req[x])' /\ Stamped(req[x])'
             /\ RevokeState(req[x])' /\ DeleteState(req[x])' /\ ValidateState(req[x])'
  <2>1. /\ Shape(req[x]) /\ InHand(req[x]) /\ Stamped(req[x]) /\ RevokeState(req[x])
        /\ DeleteState(req[x]) /\ ValidateState(req[x]) /\ req[x] \in Request
        /\ req[x].life \in Nat /\ req[x].expires \in Nat
        /\ \A s \in req[x].rows : s.expires \in Nat
    BY DEF IInv, TypeOK, Request, Row
  <2>2. Shape(req[x])' /\ InHand(req[x])'
    BY <1>1, <2>1 DEF Shape, InHand, Known
  <2>3. Stamped(req[x])'
    BY <1>1, <2>1 DEF Stamped
  <2>4. RevokeState(req[x])' /\ DeleteState(req[x])' /\ ValidateState(req[x])'
    BY <1>1, <2>1 DEF RevokeState, DeleteState, ValidateState, RevokedRows, Twin
  <2>5. QED  BY <2>2, <2>3, <2>4
<1>4. QED  BY <1>2, <1>3 DEF IInv

(***************************************************************************)
(* The invariant is inductive                                              *)
(***************************************************************************)
LEMMA NextInv == IInv /\ [Next]_vars => IInv'
<1> SUFFICES ASSUME IInv, [Next]_vars  PROVE IInv'
  OBVIOUS
<1>1. CASE Tick
  BY <1>1, TickInv
<1>2. ASSUME NEW r \in Requests, Arrive(r)  PROVE IInv'
  BY <1>2, ArriveInv
<1>3. ASSUME NEW r \in Requests, Step(r)  PROVE IInv'
  BY <1>3, SweepInv, SweepRemoveInv, CheckLimitInv, StampInv, AddTokenInv,
     RevokeReadInv, RevokeUpdateInv, DeleteSelectInv, DeleteRemoveInv, ListReadInv,
     RevokeListReadInv, ValidateReadInv, ReplyInv DEF Step
<1>4. ASSUME NEW r \in Requests, Abort(r)  PROVE IInv'
  BY <1>4, AbortInv
<1>5. ASSUME NEW r \in Requests, AskCore(r)  PROVE IInv'
  BY <1>5, LookupInv, EncodeInv DEF AskCore
<1>6. CASE UNCHANGED vars
  BY <1>6 DEF vars, IInv, TypeOK, Table, RowWithinToken, AckedIsFinal, Known, Twin, Shape,
              InHand, Stamped, RevokeState, DeleteState, ValidateState, RevokedRows
<1>7. QED  BY <1>1, <1>2, <1>3, <1>4, <1>5, <1>6 DEF Next

(* The inductive invariant holds in every reachable state.                 *)
THEOREM Inductive == Spec => []IInv
BY InitInv, NextInv, PTL DEF Spec

(* Rows, requests and answers have their types, for any set of users,      *)
(* projects and worker threads and any page limit, quota and clock.        *)
THEOREM TypeCorrect == Spec => []TypeOK
<1>1. IInv => TypeOK
  BY DEF IInv
<1>2. QED  BY <1>1, Inductive, PTL

(* However revocations, deletions, sweeps and failures interleave: once a  *)
(* revocation or deletion was confirmed, every row of the token is revoked.*)
THEOREM RevocationFinal == Spec => []AckedIsFinal
<1>1. IInv => AckedIsFinal
  BY DEF IInv
<1>2. QED  BY <1>1, Inductive, PTL

(* A validation that began after the confirmation does not answer Valid.   *)
THEOREM ValidationSound == Spec => []NeverValidAgain
<1>1. IInv => NeverValidAgain
  BY DEF IInv, NeverValidAgain, ValidateState
<1>2. QED  BY <1>1, Inductive, PTL

(* A row never claims a life longer than its token's by a second or more,  *)
(* for any fineness of the clock.                                          *)
THEOREM RowNeverOutlives == Spec => []RowWithinToken
<1>1. IInv => RowWithinToken
  BY DEF IInv, Table
<1>2. QED  BY <1>1, Inductive, PTL

(***************************************************************************)
(* Action properties                                                       *)
(***************************************************************************)
(* Which steps touch the table.                                            *)
LEMMA TableChanges ==
    ASSUME [Next]_vars, tokens' # tokens
    PROVE  \E r \in Requests :
              SweepRemove(r) \/ DeleteRemove(r) \/ AddToken(r) \/ RevokeUpdate(r)
<1>1. ASSUME NEW r \in Requests, Arrive(r)  PROVE UNCHANGED tokens
  BY <1>1 DEF Arrive, CreateBegin, RefreshBegin, RevokeBegin, DeleteOneBegin,
              DeleteAllBegin, ListBegin, RevokeListBegin, ValidateBegin, Begin
<1>2. ASSUME NEW r \in Requests, Step(r)
      PROVE  \/ SweepRemove(r) \/ DeleteRemove(r) \/ AddToken(r) \/ RevokeUpdate(r)
             \/ UNCHANGED tokens
  BY <1>2 DEF Step, Sweep, CheckLimit, Stamp, RevokeRead, DeleteSelect,
              ListRead, RevokeListRead, ValidateRead, Reply
<1>3. QED  BY <1>1, <1>2 DEF Next, Tick, Abort, AskCore, Lookup, Encode, vars

(* What a step that touches the table does to the rows.                    *)
LEMMA TableChangesHow ==
    ASSUME IInv, [Next]_vars, NEW t \in tokens
    PROVE  /\ \/ \E s \in tokens' : s.id = t.id
              \/ t.expires < now
              \/ Twin(t.jwt)
              \/ \E r \in Requests : req[r].pc = "removing" /\ req[r].caller = t.jwt.user
           /\ \A s \in tokens' : s.id = t.id /\ s # t =>
                 /\ s = [t EXCEPT !.state = "Revoked"]
                 /\ \E r \in Requests : /\ req[r].pc = "update"
                                        /\ req[r].caller \in {t.jwt.user} \cup Operators
<1> DEFINE Stays == \E s \in tokens' : s.id = t.id
           Removable == \/ t.expires < now
                        \/ Twin(t.jwt)
                        \/ \E r \in Requests : /\ req[r].pc = "removing"
                                               /\ req[r].caller = t.jwt.user
           Revoking == \E r \in Requests : /\ req[r].pc = "update"
                                           /\ req[r].caller \in {t.jwt.user} \cup Operators
<1>1. \A s \in tokens : s.id = t.id => s = t
  BY DEF IInv, Table
<1>2. ASSUME NEW r \in Requests, NEW x \in req[r].rows, x.jwt = t.jwt, ~Twin(t.jwt)
      PROVE  x.id = t.id /\ x.expires = t.expires
  <2>1. InHand(req[r]) /\ [id |-> t.id, jwt |-> t.jwt] \in stored
    BY DEF IInv, Table
  <2>2. [id |-> x.id, jwt |-> x.jwt] \in stored
    BY <2>1 DEF InHand
  <2>3. [id |-> x.id, jwt |-> x.jwt] = [id |-> t.id, jwt |-> t.jwt]
    BY <1>2, <2>1, <2>2 DEF Twin
  <2>4. x.id = t.id
    BY <2>3
  <2>5. QED  BY <2>1, <2>4 DEF InHand
<1>3. ASSUME NEW r \in Requests, SweepRemove(r)
      PROVE  (Stays \/ Removable) /\ \A s \in tokens' : s.id = t.id => s = t
  <2>1. PICK x \in req[r].rows : tokens' = RemoveToken(tokens, x.jwt)
    BY <1>3 DEF SweepRemove, Newest
  <2>2. x.expires < now
    BY <1>3 DEF IInv, InHand, SweepRemove
  <2>3. QED  BY <1>1, <1>2, <2>1, <2>2 DEF RemoveToken
<1>4. ASSUME NEW r \in Requests, DeleteRemove(r)
      PROVE  (Stays \/ Removable) /\ \A s \in tokens' : s.id = t.id => s = t
  <2>1. PICK x \in req[r].rows : tokens' = RemoveToken(tokens, x.jwt)
    BY <1>4 DEF DeleteRemove, Newest
  <2>2. x.jwt.user = req[r].caller /\ req[r].pc = "removing"
    BY <1>4 DEF IInv, InHand, DeleteRemove
  <2>3. QED  BY <1>1, <2>1, <2>2 DEF RemoveToken
<1>5. ASSUME NEW r \in Requests, AddToken(r)
      PROVE  Stays /\ \A s \in tokens' : s.id = t.id => s = t
  <2>1. t.id # nextId
    <3>1. t.id \in Nat /\ nextId \in Nat /\ [id |-> t.id, jwt |-> t.jwt] \in stored
      BY DEF IInv, Table, TypeOK, Row
    <3>2. t.id < nextId
      BY <3>1 DEF IInv, Table
    <3>3. QED  BY <3>1, <3>2
  <2>2. QED  BY <1>1, <1>5, <2>1 DEF AddToken
<1>6. ASSUME NEW r \in Requests, RevokeUpdate(r)
      PROVE  /\ Stays
             /\ \A s \in tokens' : s.id = t.id /\ s # t =>
                   s = [t EXCEPT !.state = "Revoked"] /\ Revoking
  <2>1. CASE UNCHANGED tokens
    BY <1>1, <2>1
  <2>2. CASE tokens' = UpdateToken(tokens, req[r].jwt, "Revoked")
    <3> DEFINE f(s) == IF s.jwt = req[r].jwt THEN [s EXCEPT !.state = "Revoked"] ELSE s
    <3>1. tokens' = {f(s) : s \in tokens}
      BY <2>2 DEF UpdateToken
    <3>2. ASSUME NEW s \in tokens
          PROVE  /\ f(s).id = s.id
                 /\ f(s) # s => s.jwt = req[r].jwt /\ f(s) = [s EXCEPT !.state = "Revoked"]
      <4>1. s \in Row
        BY DEF IInv, TypeOK
      <4>2. QED  BY <4>1 DEF Row
    <3>. HIDE DEF f
    <3>3. Stays
      BY <3>1, <3>2
    <3>4. ASSUME NEW s \in tokens', s.id = t.id, s # t
          PROVE  s = [t EXCEPT !.state = "Revoked"] /\ Revoking
      <4>1. PICK y \in tokens : s = f(y)
        BY <3>1
      <4>2. y = t
        BY <1>1, <3>2, <3>4, <4>1
      <4>3. t.jwt = req[r].jwt /\ s = [t EXCEPT !.state = "Revoked"]
        BY <3>2, <3>4, <4>1, <4>2
      <4>4. req[r].pc = "update" /\ req[r].caller \in {req[r].jwt.user} \cup Operators
        BY <1>6 DEF IInv, RevokeState, RevokeUpdate, Shape
      <4>5. QED  BY <4>3, <4>4
    <3>5. QED  BY <3>3, <3>4
  <2>3. QED  BY <1>6, <2>1, <2>2 DEF RevokeUpdate
<1>7. CASE tokens' = tokens
  BY <1>1, <1>7
<1>8. QED  BY <1>3, <1>4, <1>5, <1>6, <1>7, TableChanges

(* No row leaves the table before its expiry unless its owner is deleting  *)
(* tokens, although sweeps remove by hash what they selected earlier.      *)
THEOREM RemovalSound == Spec => RemovalJustified
<1>1. IInv /\ [Next]_vars =>
        [\A t \in tokens :
          \/ \E s \in tokens' : s.id = t.id
          \/ t.expires < now
          \/ Twin(t.jwt)
          \/ \E r \in Requests : req[r].pc = "removing" /\ req[r].caller = t.jwt.user]_vars
  BY TableChangesHow
<1>2. QED  BY <1>1, Inductive, PTL DEF Spec, RemovalJustified

(* Only a revocation by the token's owner or by an operator changes a row, *)
(* and only to Revoked.                                                    *)
THEOREM OwnershipSound == Spec => OnlyOwnerRevokes
<1>1. IInv /\ [Next]_vars =>
        [\A t \in tokens, s \in tokens' :
          s.id = t.id /\ s # t =>
             /\ s = [t EXCEPT !.state = "Revoked"]
             /\ \E r \in Requests : /\ req[r].pc = "update"
                                    /\ req[r].caller \in {t.jwt.user} \cup Operators]_vars
  BY TableChangesHow
<1>2. QED  BY <1>1, Inductive, PTL DEF Spec, OnlyOwnerRevokes

-----------------------------------------------------------------------------
(***************************************************************************)
(* Answers that account for many rows: the list, the deletion of all       *)
(* tokens, the revoke list and the count of long-lived tokens.  Each has   *)
(* an invariant of its own on top of IInv.                                 *)
(***************************************************************************)
(* A request under way goes on, or fails.                                  *)
Move(r) == AskCore(r) \/ Step(r) \/ Abort(r)

(* Every row of a token the list was to hold is listed.                    *)
Listed(q) ==
    \A t \in tokens : t.jwt \in q.seen /\ ~Twin(t.jwt) => \E s \in q.rows : s.jwt = t.jwt

(* What a list request knew when it began, and what its answer holds.      *)
ListState(q) ==
    q.op = "list" =>
        /\ q.caller \in Users
        /\ \A j \in q.seen : j \in Known /\ j.user = q.caller
        /\ q.pc = "reply" /\ q.answer = "ok" /\ q.limit = None => Listed(q)

Lists == \A r \in Requests : ListState(req[r])

(* No list is asked for at first.                                          *)
LEMMA ListsInit == Init => Lists
BY DEF Init, Idle, Lists, ListState

(* Tokens stay known, and twins stay twins.                                *)
LEMMA KnownGrows ==
    ASSUME IInv, [Next]_vars
    PROVE  stored \subseteq stored'
<1>1. ASSUME NEW r \in Requests, Arrive(r)  PROVE stored' = stored
  BY <1>1 DEF Arrive, CreateBegin, RefreshBegin, RevokeBegin, DeleteOneBegin,
              DeleteAllBegin, ListBegin, RevokeListBegin, ValidateBegin, Begin
<1>2. ASSUME NEW r \in Requests, Step(r)  PROVE stored \subseteq stored'
  BY <1>2 DEF Step, Sweep, SweepRemove, CheckLimit, Stamp, AddToken, RevokeRead,
              RevokeUpdate, DeleteSelect, DeleteRemove, ListRead, RevokeListRead,
              ValidateRead, Reply
<1>3. QED  BY <1>1, <1>2 DEF Next, Tick, AskCore, Lookup, Encode, Abort, vars

(* A row of a known token appears only where there was one, which it       *)
(* follows in its expiry and when revoked, or where it makes a twin.       *)
LEMMA RowsAppear ==
    ASSUME IInv, [Next]_vars, NEW t \in tokens', t.jwt \in Known, ~Twin(t.jwt)'
    PROVE  \E u \in tokens : /\ u.jwt = t.jwt /\ u.expires = t.expires
                             /\ u.state = "Revoked" => t.state = "Revoked"
<1>1. ASSUME NEW r \in Requests, SweepRemove(r) \/ DeleteRemove(r)
      PROVE  tokens' \subseteq tokens
  BY <1>1 DEF SweepRemove, DeleteRemove, RemoveToken
<1>2. ASSUME NEW r \in Requests, AddToken(r)  PROVE t \in tokens
  <2>1. CASE t.id = nextId /\ t.jwt = req[r].jwt
    <3>1. PICK s \in stored : s.jwt = t.jwt
      BY DEF Known
    <3>2. s.id # nextId
      <4>1. s.id < nextId /\ s.id \in Nat /\ nextId \in Nat
        BY DEF IInv, Table, TypeOK
      <4>2. QED  BY <4>1
    <3>3. /\ s \in stored' /\ [id |-> nextId, jwt |-> req[r].jwt] \in stored'
          /\ s # [id |-> nextId, jwt |-> req[r].jwt]
      BY <1>2, <3>1, <3>2 DEF AddToken
    <3>4. QED  BY <2>1, <3>1, <3>3 DEF Twin
  <2>2. QED  BY <1>2, <2>1 DEF AddToken
<1>3. ASSUME NEW r \in Requests, RevokeUpdate(r)
      PROVE  \E u \in tokens : /\ u.jwt = t.jwt /\ u.expires = t.expires
                               /\ u.state = "Revoked" => t.state = "Revoked"
  <2>1. CASE UNCHANGED tokens
    BY <2>1
  <2>2. CASE tokens' = UpdateToken(tokens, req[r].jwt, "Revoked")
    <3>1. PICK u \in tokens :
             t = IF u.jwt = req[r].jwt THEN [u EXCEPT !.state = "Revoked"] ELSE u
      BY <2>2 DEF UpdateToken
    <3>2. u \in Row
      BY DEF IInv, TypeOK
    <3>3. QED  BY <3>1, <3>2 DEF Row
  <2>3. QED  BY <1>3, <2>1, <2>2 DEF RevokeUpdate
<1>4. QED  BY <1>1, <1>2, <1>3, TableChanges

(* A request stays with its endpoint.                                      *)
LEMMA OpKept ==
    ASSUME req \in [Requests -> Request], NEW r \in Requests, NEW a, NEW P,
           Goto(r, a, P) \/ Answer(r, a, P)
    PROVE  req'[r].op = req[r].op
<1>1. req[r] \in Request
  OBVIOUS
<1>2. CASE Goto(r, a, P)
  BY <1>1, <1>2 DEF Goto, Request
<1>3. CASE Answer(r, a, P)
  BY <1>1, <1>3 DEF Answer, Request
<1>4. QED  BY <1>2, <1>3

(* How a list request moves: it begins, it goes on or fails, or it reads.  *)
LEMMA ListMoves ==
    ASSUME IInv, NEW r \in Requests, Arrive(r) \/ Move(r), req'[r].op = "list"
    PROVE  \/ \E u \in Users, limit \in Limits, offset \in Offsets : ListBegin(r, u, limit, offset)
           \/ /\ req[r].op = "list" /\ req'[r].seen = req[r].seen
              /\ req'[r].caller = req[r].caller
              /\ req'[r].pc # "reply" \/ req'[r].answer # "ok"
           \/ ListRead(r)
<1>0. req \in [Requests -> Request] /\ req[r] \in Request /\ Shape(req[r])
  BY DEF IInv, TypeOK
<1>1. CASE Arrive(r)
  <2>1. ASSUME NEW q, q.op # "list", Begin(r, q)  PROVE FALSE
    BY <1>0, <2>1 DEF Begin
  <2>2. QED
    BY <1>1, <2>1 DEF Arrive, CreateBegin, RefreshBegin, RevokeBegin, DeleteOneBegin,
                      DeleteAllBegin, RevokeListBegin, ValidateBegin, Idle
<1>2. CASE Abort(r)
  BY <1>0, <1>2 DEF Abort, Answer, Request
<1>3. CASE Sweep(r) \/ SweepRemove(r) \/ Lookup(r)
  <2>1. PICK pc, P : /\ Goto(r, pc, P)
                     /\ pc \in {"add", "query", "sweeping", "sweep", "stamp"}
    BY <1>3 DEF Sweep, SweepRemove, AfterSweep, Lookup, CreateFirst
  <2>2. QED  BY <1>0, <2>1 DEF Goto, Request
<1>4. CASE CheckLimit(r) \/ RevokeRead(r) \/ RevokeListRead(r) \/ ValidateRead(r)
  <2>1. req[r].op # "list"
    BY <1>4 DEF CheckLimit, RevokeRead, RevokeListRead, ValidateRead, At
  <2>2. PICK a, P : Goto(r, a, P) \/ Answer(r, a, P)
    BY <1>4 DEF CheckLimit, RevokeRead, RevokeListRead, ValidateRead
  <2>3. QED  BY <1>0, <2>1, <2>2, OpKept
<1>5. CASE Stamp(r) \/ Encode(r) \/ AddToken(r)
  BY <1>0, <1>5 DEF Stamp, Encode, AddToken, Answer, Request, Shape, Making
<1>6. CASE RevokeUpdate(r) \/ DeleteRemove(r)
  <2>1. req[r].op # "list"
    BY <1>0, <1>6 DEF RevokeUpdate, DeleteRemove, Shape, Deleting
  <2>2. PICK a, P : Goto(r, a, P) \/ Answer(r, a, P)
    BY <1>6 DEF RevokeUpdate, DeleteRemove
  <2>3. QED  BY <1>0, <2>1, <2>2, OpKept
<1>7. CASE DeleteSelect(r)
  <2>1. req[r].op \in Deleting
    BY <1>0, <1>7 DEF DeleteSelect, Shape
  <2>2. PICK q \in Request : req' = [req EXCEPT ![r] = q] /\ q.op = req[r].op
    BY <1>7, DeleteReads DEF IInv
  <2>3. QED  BY <1>0, <2>1, <2>2 DEF Deleting
<1>8. CASE Reply(r)
  BY <1>0, <1>8 DEF Reply, Idle
<1>9. QED
  BY <1>1, <1>2, <1>3, <1>4, <1>5, <1>6, <1>7, <1>8 DEF Move, AskCore, Step

(* Nothing that happens while an answer waits to be sent takes from it.    *)
LEMMA ListedStays ==
    ASSUME IInv, [Next]_vars, NEW q, Listed(q), \A j \in q.seen : j \in Known
    PROVE  Listed(q)'
<1>1. ASSUME NEW t \in tokens', t.jwt \in q.seen, ~Twin(t.jwt)'
      PROVE  \E s \in q.rows : s.jwt = t.jwt
  <2>1. PICK u \in tokens : u.jwt = t.jwt
    BY <1>1, RowsAppear
  <2>2. ~Twin(t.jwt)
    BY <1>1, KnownGrows DEF Twin
  <2>3. QED  BY <1>1, <2>1, <2>2 DEF Listed
<1>2. QED  BY <1>1 DEF Listed

(* A read without a limit holds all rows of the caller.                    *)
LEMMA ReadsAll ==
    ASSUME IInv, NEW r \in Requests, ListRead(r), ListState(req[r])
    PROVE  ListState(req[r])'
<1>1. /\ req \in [Requests -> Request] /\ req[r] \in Request /\ req[r].op = "list"
      /\ UNCHANGED <<tokens, stored>>
  BY DEF IInv, TypeOK, ListRead, At
<1>2. PICK P \in Slice(Matching(tokens, req[r].caller, None, None),
                       req[r].offset, req[r].limit) : Answer(r, "ok", P)
  BY DEF ListRead
<1>3. /\ req'[r].op = "list" /\ req'[r].seen = req[r].seen /\ req'[r].rows = P
      /\ req'[r].caller = req[r].caller /\ req'[r].limit = req[r].limit
  BY <1>1, <1>2 DEF Answer, Request
<1>4. req[r].caller \in Users /\ \A j \in req[r].seen : j \in Known /\ j.user = req[r].caller
  BY <1>1 DEF ListState
<1>5. ASSUME req[r].limit = None, NEW t \in tokens, t.jwt \in req[r].seen
      PROVE  t \in P
  <2>1. P = Matching(tokens, req[r].caller, None, None)
    BY <1>2, <1>5 DEF Slice
  <2>2. t.jwt.user = req[r].caller
    BY <1>4, <1>5
  <2>3. QED  BY <2>1, <2>2 DEF Matching
<1>6. Known' = Known /\ tokens' = tokens
  BY <1>1 DEF Known
<1>7. req[r].limit = None => Listed(req[r])'
  BY <1>3, <1>5, <1>6 DEF Listed
<1>8. QED  BY <1>1, <1>3, <1>4, <1>6, <1>7 DEF ListState

(* A request that does not move waits.                                     *)
LEMMA OthersWait ==
    ASSUME IInv, NEW x \in Requests, NEW r \in Requests, Arrive(r) \/ Move(r),
           x # r
    PROVE  req'[x] = req[x]
<1>1. req \in [Requests -> Request]
  BY DEF IInv, TypeOK
<1>2. QED
  BY <1>1 DEF Arrive, CreateBegin, RefreshBegin, RevokeBegin, DeleteOneBegin,
        DeleteAllBegin, ListBegin, RevokeListBegin, ValidateBegin, Begin, Move, AskCore,
        Lookup, Step, Sweep, SweepRemove, CheckLimit, Stamp, Encode, AddToken, RevokeRead, RevokeUpdate,
        DeleteSelect, DeleteRemove, ListRead, RevokeListRead, ValidateRead, Reply, Abort,
        Goto, Answer

(* Every step keeps what the list requests know and hold.                  *)
LEMMA ListsNext == IInv /\ Lists /\ [Next]_vars => Lists'
<1> SUFFICES ASSUME IInv, Lists, [Next]_vars, NEW x \in Requests
             PROVE  ListState(req[x])'
  BY DEF Lists
<1>0. /\ req \in [Requests -> Request] /\ ListState(req[x])
      /\ \A j \in Known : j \in Known'
  BY KnownGrows DEF IInv, TypeOK, Lists, Known
<1>1. CASE req'[x] = req[x]
  <2>1. PICK q : q = req[x]
    OBVIOUS
  <2>2. ASSUME q.op = "list", q.pc = "reply", q.answer = "ok", q.limit = None
        PROVE  Listed(q)'
    <3>1. Listed(q) /\ \A j \in q.seen : j \in Known
      BY <1>0, <2>1, <2>2 DEF ListState
    <3>2. QED  BY <3>1, ListedStays
  <2>3. ListState(q)'
    BY <1>0, <2>1, <2>2 DEF ListState
  <2>4. QED  BY <1>1, <2>1, <2>3 DEF ListState, Listed
<1>2. ASSUME NEW r \in Requests, Arrive(r) \/ Move(r), x = r, req'[r].op = "list"
      PROVE  ListState(req[x])'
  <2>1. CASE ListRead(r)
    BY <1>0, <1>2, <2>1, ReadsAll
  <2>2. CASE /\ req[r].op = "list" /\ req'[r].seen = req[r].seen
             /\ req'[r].caller = req[r].caller
             /\ req'[r].pc # "reply" \/ req'[r].answer # "ok"
    BY <1>0, <1>2, <2>2 DEF ListState
  <2>3. ASSUME NEW u \in Users, NEW limit \in Limits, NEW offset \in Offsets,
               ListBegin(r, u, limit, offset)
        PROVE  ListState(req[x])'
    <3>1. /\ req'[r].pc = "sweep" /\ req'[r].caller = u
          /\ req'[r].seen = {t.jwt : t \in Matching(tokens, u, None, None)}
      BY <1>0, <2>3 DEF ListBegin, Begin, Idle
    <3>2. ASSUME NEW t \in Matching(tokens, u, None, None)
          PROVE  t.jwt \in Known /\ t.jwt.user = u
      <4>1. t \in tokens /\ t.jwt.user = u
        BY CredMgrAssumption DEF Matching
      <4>2. [id |-> t.id, jwt |-> t.jwt] \in stored
        BY <4>1 DEF IInv, Table
      <4>3. QED  BY <4>1, <4>2 DEF Known
    <3>3. QED  BY <1>0, <1>2, <3>1, <3>2 DEF ListState
  <2>4. QED  BY <1>2, <2>1, <2>2, <2>3, ListMoves
<1>3. ASSUME NEW r \in Requests, Arrive(r) \/ Move(r), x # r
      PROVE  req'[x] = req[x]
  BY <1>3, OthersWait
<1>4. CASE req'[x].op # "list"
  BY <1>4 DEF ListState
<1>5. QED  BY <1>1, <1>2, <1>3, <1>4 DEF Next, Tick, Move, vars

(* The list endpoint misses no token of its caller that was there when the *)
(* request began and still is, whatever is added, revoked, deleted and     *)
(* swept between its sweep, its read and its answer.                       *)
THEOREM ListSound == Spec => []ListComplete
<1>1. IInv /\ Lists => ListComplete
  BY DEF Lists, ListState, Listed, ListComplete
<1>2. Spec => [](IInv /\ Lists)
  <2>1. Init => IInv /\ Lists
    BY InitInv, ListsInit
  <2>2. IInv /\ Lists /\ [Next]_vars => (IInv /\ Lists)'
    BY NextInv, ListsNext
  <2>3. QED  BY <2>1, <2>2, PTL DEF Spec
<1>3. QED  BY <1>1, <1>2, PTL

(***************************************************************************)
(* Answers read from one page                                              *)
(***************************************************************************)
(* The first page is all there is, or PageLimit rows of the latest expiry. *)
LEMMA PageSize ==
    ASSUME NEW rows, IsFiniteSet(rows), NEW P \in Slice(rows, 0, PageLimit)
    PROVE  /\ Cardinality(P) = IF Cardinality(rows) < PageLimit THEN Cardinality(rows)
                                                                ELSE PageLimit
           /\ Cardinality(rows) <= PageLimit => P = rows
           /\ P = rows \/ Cardinality(P) = PageLimit
           /\ \A a \in P, b \in rows \ P : a.expires >= b.expires
<1>1. 0 # None /\ PageLimit # None /\ PageLimit \in Nat \ {0}
  BY CredMgrAssumption
<1>2. PICK Q \in Top(rows, 0 + PageLimit) : \E R \in Top(Q, 0) : P = Q \ R
  BY <1>1 DEF Slice
<1>3. PICK R \in Top(Q, 0) : P = Q \ R
  BY <1>2
<1>4. IsFiniteSet(Q) /\ IsFiniteSet(R) /\ Q \subseteq rows
  BY <1>2, <1>3, TopSubset, FS_Subset
<1>5. /\ Cardinality(rows) \in Nat /\ Cardinality(Q) \in Nat /\ Cardinality(R) \in Nat
  BY <1>4, FS_CardinalityType
<1>6. Cardinality(Q) = IF Cardinality(rows) < PageLimit THEN Cardinality(rows) ELSE PageLimit
  BY <1>1, <1>2, <1>5 DEF Top
<1>7. R = {}
  <2>1. Cardinality(R) = 0
    BY <1>3, <1>5 DEF Top
  <2>2. QED  BY <1>4, <2>1, FS_EmptySet
<1>8. Cardinality(rows) <= PageLimit => Q = rows
  BY <1>1, <1>4, <1>5, <1>6, FS_Subset
<1>9. Q = rows \/ Cardinality(Q) = PageLimit
  BY <1>1, <1>5, <1>6, <1>8
<1>10. \A a \in Q, b \in rows \ Q : a.expires >= b.expires
  BY <1>2 DEF Top
<1>11. QED  BY <1>3, <1>6, <1>7, <1>8, <1>9, <1>10

(* A token that is no twin has one row.                                    *)
LEMMA SameRow ==
    ASSUME IInv, NEW s \in tokens, NEW t \in tokens, s.jwt = t.jwt, ~Twin(t.jwt)
    PROVE  s = t
<1>1. [id |-> s.id, jwt |-> s.jwt] \in stored /\ [id |-> t.id, jwt |-> t.jwt] \in stored
  BY DEF IInv, Table
<1>2. [id |-> s.id, jwt |-> s.jwt] = [id |-> t.id, jwt |-> t.jwt]
  BY <1>1 DEF Twin
<1>3. s.id = t.id
  BY <1>2
<1>4. QED  BY <1>3 DEF IInv, Table

(* Finitely many rows are of finitely many tokens.                         *)
LEMMA JwtsFinite ==
    ASSUME NEW P, IsFiniteSet(P)
    PROVE  IsFiniteSet(Jwts(P))
<1> DEFINE f == [t \in P |-> t.jwt]
<1>1. f \in Surjection(P, Jwts(P))
  BY DEF Surjection, Jwts
<1>2. QED  BY <1>1, FS_Surjection

(* Rows of tokens that are no twins: as many as their tokens.              *)
LEMMA RowsPerToken ==
    ASSUME IInv, NEW P, P \subseteq tokens, \A t \in P : ~Twin(t.jwt)
    PROVE  IsFiniteSet(Jwts(P)) /\ Cardinality(Jwts(P)) = Cardinality(P)
<1> DEFINE f == [t \in P |-> t.jwt]
<1>1. IsFiniteSet(P)
  BY FS_Subset DEF IInv, Table
<1>2. \A s, t \in P : s.jwt = t.jwt => s = t
  BY SameRow
<1>3. f \in Bijection(P, Jwts(P))
  BY <1>2 DEF Bijection, Injection, Surjection, IsInjective, Jwts
<1>4. ExistsBijection(P, Jwts(P))
  BY <1>3 DEF ExistsBijection
<1>5. QED  BY <1>1, <1>4, FS_Bijection

(* What a deletion found is gone, or on its page and still to be removed.  *)
Deleted(q) == {j \in q.seen : \A t \in tokens : t.jwt # j}
Handled(q) == Deleted(q) \cup Jwts(q.rows)

(* A deletion of all tokens handles all it found, or as many as a page has.*)
Handles(q) == (\A j \in q.seen : ~Twin(j)) =>
                 Handled(q) = q.seen \/ Cardinality(Handled(q)) >= PageLimit

EmptyState(q) ==
    q.op = "deleteAll" =>
        /\ q.caller \in Users /\ q.jwt = None
        /\ q.pc = "removing" \/ (q.pc = "reply" /\ q.answer = "ok") =>
              /\ IsFiniteSet(q.seen) /\ q.seen \subseteq Known
              /\ Jwts(q.rows) \subseteq q.seen
              /\ Handles(q)
        /\ q.pc = "reply" /\ q.answer = "ok" => q.rows = {}

(* The revoked tokens of the list are those of the table.                  *)
OnlyRevoked(q) ==
    \A s \in q.rows, t \in tokens : s.jwt = t.jwt /\ ~Twin(t.jwt) => t.state = "Revoked"

(* A row of a token the list was to hold is missing only from a full page  *)
(* of rows that expire no earlier.                                         *)
PageListed(q) ==
    \A t \in tokens : t.jwt \in q.seen /\ ~Twin(t.jwt) =>
        \/ \E s \in q.rows : s.jwt = t.jwt
        \/ Cardinality(q.rows) = PageLimit /\ \A s \in q.rows : s.expires >= t.expires

(* What was revoked when a revoke list was asked for is still revoked, and *)
(* in the answer as far as it fits.                                        *)
RevokeListState(q) ==
    q.op = "revokeList" =>
        /\ q.project \in Projects
        /\ \A j \in q.seen : j \in Known /\ j.project = q.project
        /\ \A t \in tokens : t.jwt \in q.seen /\ ~Twin(t.jwt) => t.state = "Revoked"
        /\ q.pc = "reply" /\ q.answer = "ok" => PageListed(q) /\ OnlyRevoked(q)

Emptying == \A r \in Requests : EmptyState(req[r])
RevokeLists == \A r \in Requests : RevokeListState(req[r])

LEMMA PagesInit == Init => Emptying /\ RevokeLists
BY DEF Init, Idle, Emptying, RevokeLists, EmptyState, RevokeListState

(* What is handled stays so when more of it is.                            *)
LEMMA HandlesMore ==
    ASSUME NEW q, NEW p, IsFiniteSet(q.seen), p.seen = q.seen, Jwts(p.rows) \subseteq p.seen,
           Handles(q), \A j : Twin(j) => Twin(j)',
           (\A j \in q.seen : ~Twin(j)') => Handled(q) \subseteq Handled(p)'
    PROVE  Handles(p)'
<1> SUFFICES ASSUME \A j \in p.seen : ~Twin(j)'
             PROVE  Handled(p)' = p.seen \/ Cardinality(Handled(p)') >= PageLimit
  BY DEF Handles
<1>1. Handled(q) \subseteq Handled(p)' /\ Handled(p)' \subseteq q.seen
  BY DEF Handled, Deleted
<1>2. Handled(q) = q.seen \/ Cardinality(Handled(q)) >= PageLimit
  BY DEF Handles
<1>3. IsFiniteSet(Handled(p)') /\ IsFiniteSet(Handled(q))
  BY <1>1, FS_Subset
<1>4. /\ Cardinality(Handled(q)) <= Cardinality(Handled(p)')
      /\ Cardinality(Handled(q)) \in Nat /\ Cardinality(Handled(p)') \in Nat
      /\ PageLimit \in Nat
  BY <1>1, <1>3, FS_Subset, FS_CardinalityType, CredMgrAssumption
<1>5. QED  BY <1>1, <1>2, <1>4

(* What waits for an answer to be sent, or for its next step, stays true.  *)
LEMMA PagesStay ==
    ASSUME IInv, [Next]_vars, NEW r \in Requests, NEW q, q = req[r]
    PROVE  /\ EmptyState(q) => EmptyState(q)'
           /\ RevokeListState(q) => RevokeListState(q)'
<1>1. (\A j \in Known : j \in Known') /\ \A j : Twin(j) => Twin(j)'
  BY KnownGrows DEF Known, Twin
<1>2. ASSUME NEW t \in tokens', t.jwt \in Known, ~Twin(t.jwt)'
      PROVE  \E u \in tokens : /\ u.jwt = t.jwt /\ ~Twin(u.jwt) /\ u.expires = t.expires
                               /\ u.state = "Revoked" => t.state = "Revoked"
  BY <1>1, <1>2, RowsAppear
<1>3. ASSUME NEW s \in q.rows  PROVE s.jwt \in Known
  <2>1. [id |-> s.id, jwt |-> s.jwt] \in stored
    BY DEF IInv, InHand
  <2>2. [id |-> s.id, jwt |-> s.jwt].jwt = s.jwt
    OBVIOUS
  <2>3. QED  BY <2>1, <2>2 DEF Known
<1>4. ASSUME \A j \in q.seen : j \in Known
      PROVE  /\ PageListed(q) => PageListed(q)'
             /\ OnlyRevoked(q) => OnlyRevoked(q)'
             /\ (\A t \in tokens : t.jwt \in q.seen /\ ~Twin(t.jwt) => t.state = "Revoked")
                => (\A t \in tokens : t.jwt \in q.seen /\ ~Twin(t.jwt) => t.state = "Revoked")'
  <2>1. ASSUME PageListed(q), NEW t \in tokens', t.jwt \in q.seen, ~Twin(t.jwt)'
        PROVE  \/ \E s \in q.rows : s.jwt = t.jwt
               \/ Cardinality(q.rows) = PageLimit /\ \A s \in q.rows : s.expires >= t.expires
    <3>1. PICK u \in tokens : u.jwt = t.jwt /\ ~Twin(u.jwt) /\ u.expires = t.expires
      BY <1>2, <1>4, <2>1
    <3>2. QED  BY <2>1, <3>1 DEF PageListed
  <2>2. PageListed(q) => PageListed(q)'
    BY <2>1 DEF PageListed
  <2>3. OnlyRevoked(q) => OnlyRevoked(q)'
    BY <1>2, <1>3 DEF OnlyRevoked
  <2>4. QED  BY <1>2, <1>4, <2>2, <2>3
<1>5. RevokeListState(q) => RevokeListState(q)'
  BY <1>1, <1>4 DEF RevokeListState
<1>6. ASSUME IsFiniteSet(q.seen), q.seen \subseteq Known, Jwts(q.rows) \subseteq q.seen,
             Handles(q)
      PROVE  Handles(q)'
  <2>1. ASSUME \A j \in q.seen : ~Twin(j)'  PROVE Handled(q) \subseteq Handled(q)'
    <3>1. ASSUME NEW j \in Deleted(q)  PROVE j \in Deleted(q)'
      <4>1. j \in q.seen /\ \A u \in tokens : u.jwt # j
        BY <3>1 DEF Deleted
      <4>2. ASSUME NEW t \in tokens', t.jwt = j  PROVE FALSE
        BY <1>2, <1>6, <2>1, <4>1, <4>2
      <4>3. QED  BY <4>1, <4>2 DEF Deleted
    <3>2. QED  BY <3>1 DEF Handled
  <2>2. QED  BY <1>1, <1>6, <2>1, HandlesMore
<1>7. EmptyState(q) => EmptyState(q)'
  BY <1>1, <1>6 DEF EmptyState
<1>8. QED  BY <1>5, <1>7

(* Until it is answered, a request is for the same endpoint, and one that  *)
(* makes no token keeps what it named and, but for the rows a deletion     *)
(* finds, what it knew when it began.                                      *)
LEMMA Kept ==
    ASSUME IInv, NEW r \in Requests, Move(r), ~Reply(r)
    PROVE  /\ req'[r].op = req[r].op
           /\ req[r].op \notin Making =>
                 /\ req'[r].caller = req[r].caller
                 /\ req'[r].project = req[r].project /\ req'[r].jwt = req[r].jwt
                 /\ DeleteSelect(r) \/ req'[r].seen = req[r].seen
<1>0. req[r] \in Request /\ req \in [Requests -> Request] /\ Shape(req[r])
  BY DEF IInv, TypeOK
<1>1. CASE \E a, P : Goto(r, a, P) \/ Answer(r, a, P)
  <2>1. PICK a, P : Goto(r, a, P) \/ Answer(r, a, P)
    BY <1>1
  <2>2. CASE Goto(r, a, P)
    BY <1>0, <2>2 DEF Goto, Request
  <2>3. CASE Answer(r, a, P)
    BY <1>0, <2>3 DEF Answer, Request
  <2>4. QED  BY <2>1, <2>2, <2>3
<1>2. CASE Stamp(r) \/ Encode(r)
  BY <1>0, <1>2 DEF Stamp, Encode, Answer, Request, Shape
<1>3. CASE \/ Sweep(r) \/ SweepRemove(r) \/ RevokeRead(r) \/ RevokeUpdate(r)
           \/ CheckLimit(r) \/ Lookup(r)
  BY <1>1, <1>3 DEF Sweep, SweepRemove, RevokeRead, RevokeUpdate, CheckLimit, Lookup
<1>4. CASE \/ DeleteRemove(r) \/ ListRead(r) \/ RevokeListRead(r)
           \/ ValidateRead(r) \/ Abort(r) \/ AddToken(r)
  BY <1>1, <1>4 DEF DeleteRemove, ListRead, RevokeListRead, ValidateRead, Abort, AddToken
<1>5. CASE DeleteSelect(r)
  <2>1. PICK q \in Request :
           /\ req' = [req EXCEPT ![r] = q] /\ q.op = req[r].op /\ q.caller = req[r].caller
           /\ q.project = req[r].project /\ q.jwt = req[r].jwt
    BY <1>0, <1>5, DeleteReads DEF IInv
  <2>2. QED  BY <1>0, <1>5, <2>1
<1>6. QED  BY <1>2, <1>3, <1>4, <1>5 DEF Move, AskCore, Step

(* DELETE /tokens has found nothing when it begins.                        *)
LEMMA DeleteAllBegins ==
    ASSUME IInv, NEW r \in Requests, Arrive(r), req'[r].op = "deleteAll"
    PROVE  EmptyState(req[r])'
<1>0. req \in [Requests -> Request]
  BY DEF IInv, TypeOK
<1>1. ASSUME NEW q, q.op # "deleteAll", Begin(r, q)  PROVE FALSE
  BY <1>0, <1>1 DEF Begin
<1>2. PICK u \in Users : DeleteAllBegin(r, u)
  BY <1>1 DEF Arrive, CreateBegin, RefreshBegin, RevokeBegin, DeleteOneBegin, ListBegin,
              RevokeListBegin, ValidateBegin, Idle
<1>3. req'[r].pc = "select" /\ req'[r].caller = u /\ req'[r].jwt = None
  BY <1>0, <1>2 DEF DeleteAllBegin, Begin, Idle
<1>4. QED  BY <1>3 DEF EmptyState

(* The page a deletion reads holds all it finds, or is full.               *)
LEMMA EmptySelect ==
    ASSUME IInv, NEW r \in Requests, DeleteSelect(r), req[r].op = "deleteAll",
           EmptyState(req[r])
    PROVE  EmptyState(req[r])'
<1> DEFINE M == Matching(tokens, req[r].caller, None, req[r].jwt)
<1>1. PICK q \in Request :
         \E P \in Slice(M, 0, PageLimit) :
            /\ req' = [req EXCEPT ![r] = q] /\ q.rows = P
            /\ q.op = req[r].op /\ q.caller = req[r].caller
            /\ q.jwt = req[r].jwt /\ q.seen = Jwts(M)
            /\ IF P = {} THEN q.pc = "reply" /\ q.answer = "ok" ELSE q.pc = "removing"
  BY DeleteReads DEF IInv
<1>2. req'[r] = q /\ req[r].caller \in Users /\ req[r].jwt = None
      /\ UNCHANGED <<tokens, stored>> /\ PageLimit \in Nat
  BY <1>1, CredMgrAssumption DEF IInv, TypeOK, EmptyState, DeleteSelect
<1>3. M \subseteq tokens /\ IsFiniteSet(M)
  BY FS_Subset DEF IInv, Table, Matching
<1>. HIDE DEF M
<1>4. /\ q.rows \subseteq M
      /\ q.rows = M \/ Cardinality(q.rows) = PageLimit
  BY <1>1, <1>3, SliceSubset, PageSize
<1>5. IsFiniteSet(q.seen) /\ q.seen \subseteq Known
  <2>1. q.seen = {t.jwt : t \in M}
    BY <1>1 DEF Jwts
  <2>2. ASSUME NEW t \in M  PROVE t.jwt \in Known
    <3>1. [id |-> t.id, jwt |-> t.jwt] \in stored
      BY <1>3 DEF IInv, Table
    <3>2. QED  BY <3>1 DEF Known
  <2>3. QED  BY <1>1, <1>3, <2>1, <2>2, JwtsFinite
<1>6. Jwts(q.rows) \subseteq q.seen
  BY <1>1, <1>4 DEF Jwts
<1>7. Handles(q)
  <2>1. SUFFICES ASSUME \A j \in q.seen : ~Twin(j)
                 PROVE  Handled(q) = q.seen \/ Cardinality(Handled(q)) >= PageLimit
    BY DEF Handles
  <2>2. Handled(q) \subseteq q.seen /\ Jwts(q.rows) \subseteq Handled(q)
    BY <1>6 DEF Handled, Deleted
  <2>3. CASE q.rows = M
    BY <1>1, <2>2, <2>3
  <2>4. CASE Cardinality(q.rows) = PageLimit
    <3>1. \A t \in q.rows : ~Twin(t.jwt)
      BY <1>6, <2>1 DEF Jwts
    <3>2. q.rows \subseteq tokens
      BY <1>3, <1>4
    <3>3. IsFiniteSet(Jwts(q.rows)) /\ Cardinality(Jwts(q.rows)) = PageLimit
      BY <2>4, <3>1, <3>2, RowsPerToken
    <3>4. IsFiniteSet(Handled(q)) /\ Cardinality(Handled(q)) \in Nat
      BY <1>5, <2>2, FS_Subset, FS_CardinalityType
    <3>5. Cardinality(Jwts(q.rows)) <= Cardinality(Handled(q))
      BY <2>2, <3>4, FS_Subset
    <3>6. QED  BY <1>2, <3>3, <3>4, <3>5
  <2>5. QED  BY <1>4, <2>3, <2>4
<1>8. Handles(q)' /\ Known' = Known
  BY <1>2, <1>7 DEF Handles, Handled, Deleted, Twin, Known
<1>9. EmptyState(q)'
  BY <1>1, <1>2, <1>5, <1>6, <1>8 DEF EmptyState
<1>10. QED  BY <1>2, <1>9 DEF EmptyState, Handles, Handled, Deleted

(* A removal takes the row from the page and its token from the table.     *)
LEMMA EmptyRemove ==
    ASSUME IInv, NEW r \in Requests, DeleteRemove(r), req[r].op = "deleteAll",
           EmptyState(req[r])
    PROVE  EmptyState(req[r])'
<1>0. /\ req \in [Requests -> Request] /\ req[r] \in Request /\ Shape(req[r])
      /\ stored' = stored /\ req[r].pc = "removing" /\ req[r].caller \in Users
  BY DEF IInv, TypeOK, DeleteRemove, EmptyState
<1>1. PICK x \in req[r].rows :
         /\ tokens' = RemoveToken(tokens, x.jwt)
         /\ IF req[r].rows = {x} THEN Answer(r, "ok", {})
                                 ELSE Goto(r, "removing", req[r].rows \ {x})
  BY DEF DeleteRemove, Newest
<1>2. PICK q : q = req'[r]
  OBVIOUS
<1>3. /\ q.op = "deleteAll" /\ q.seen = req[r].seen /\ q.caller = req[r].caller
      /\ q.jwt = req[r].jwt /\ q.rows = req[r].rows \ {x}
      /\ q.pc = "reply" => q.rows = {}
      /\ q.pc \in {"removing", "reply"}
  BY <1>0, <1>1, <1>2 DEF Goto, Answer, Request
<1>4. /\ IsFiniteSet(req[r].seen) /\ req[r].seen \subseteq Known
      /\ Jwts(req[r].rows) \subseteq req[r].seen /\ Handles(req[r]) /\ req[r].jwt = None
  BY <1>0 DEF EmptyState
<1>5. Jwts(q.rows) \subseteq q.seen
  BY <1>3, <1>4 DEF Jwts
<1>6. Handled(req[r]) \subseteq Handled(q)'
  <2>1. ASSUME NEW j \in Deleted(req[r])  PROVE j \in Deleted(q)'
    BY <1>1, <1>3, <2>1 DEF Deleted, RemoveToken
  <2>2. ASSUME NEW s \in req[r].rows  PROVE s.jwt \in Handled(q)'
    <3>1. CASE s = x
      <4>1. x.jwt \in q.seen /\ \A t \in tokens' : t.jwt # x.jwt
        BY <1>1, <1>3, <1>4 DEF Jwts, RemoveToken
      <4>2. QED  BY <3>1, <4>1 DEF Handled, Deleted
    <3>2. CASE s # x
      BY <1>3, <3>2 DEF Handled, Jwts
    <3>3. QED  BY <3>1, <3>2
  <2>3. QED  BY <2>1, <2>2 DEF Handled, Jwts
<1>7. Handles(q)'
  <2>1. \A j : Twin(j) => Twin(j)'
    BY <1>0 DEF Twin
  <2>2. QED  BY <1>3, <1>4, <1>5, <1>6, <2>1, HandlesMore
<1>8. EmptyState(q)'
  BY <1>0, <1>3, <1>4, <1>5, <1>7 DEF EmptyState, Known
<1>9. QED  BY <1>2, <1>8 DEF EmptyState, Handles, Handled, Deleted

LEMMA EmptyStep ==
    ASSUME IInv, NEW r \in Requests, Move(r), EmptyState(req[r])
    PROVE  EmptyState(req[r])'
<1>0. req \in [Requests -> Request] /\ req[r] \in Request /\ Shape(req[r])
  BY DEF IInv, TypeOK
<1>1. CASE Reply(r)
  BY <1>0, <1>1 DEF Reply, Idle, EmptyState
<1>2. CASE ~Reply(r) /\ req[r].op = "deleteAll"
  <2>1. Abort(r) \/ DeleteSelect(r) \/ DeleteRemove(r)
    BY <1>0, <1>2 DEF Move, AskCore, Step, Shape, Deleting, Making, Lookup, Sweep,
          SweepRemove, CheckLimit, Stamp, Encode, AddToken, RevokeRead, RevokeUpdate,
          ListRead, RevokeListRead, ValidateRead, At
  <2>2. CASE Abort(r)
    <3>1. req'[r].pc = "reply" /\ req'[r].answer = "error"
      BY <1>0, <2>2 DEF Abort, Answer, Request
    <3>2. req'[r].caller = req[r].caller /\ req'[r].jwt = req[r].jwt
      BY <1>2, Kept DEF Making
    <3>3. QED  BY <1>2, <3>1, <3>2 DEF EmptyState
  <2>3. QED  BY <1>2, <2>1, <2>2, EmptySelect, EmptyRemove
<1>3. CASE ~Reply(r) /\ req[r].op # "deleteAll"
  <2>1. req'[r].op # "deleteAll"
    BY <1>0, <1>3, Kept
  <2>2. QED  BY <2>1 DEF EmptyState
<1>4. QED  BY <1>1, <1>2, <1>3

(* A revoke list begins with the tokens that are revoked.                  *)
LEMMA RevokeListBegins ==
    ASSUME IInv, NEW r \in Requests, Arrive(r), req'[r].op = "revokeList"
    PROVE  RevokeListState(req[r])'
<1>0. req \in [Requests -> Request]
  BY DEF IInv, TypeOK
<1>1. ASSUME NEW q, q.op # "revokeList", Begin(r, q)  PROVE FALSE
  BY <1>0, <1>1 DEF Begin
<1>2. PICK p \in Projects : RevokeListBegin(r, p)
  BY <1>1 DEF Arrive, CreateBegin, RefreshBegin, RevokeBegin, DeleteOneBegin, ListBegin,
              DeleteAllBegin, ValidateBegin, Idle
<1>3. /\ req'[r].pc = "sweep" /\ req'[r].project = p
      /\ req'[r].seen = {t.jwt : t \in {s \in Matching(tokens, None, p, None) :
                                                         s.state = "Revoked"}}
      /\ stored' = stored /\ tokens' = tokens
  BY <1>0, <1>2 DEF RevokeListBegin, Begin, Idle
<1>4. ASSUME NEW t \in tokens  PROVE t.jwt \in Known
  <2>1. [id |-> t.id, jwt |-> t.jwt] \in stored
    BY DEF IInv, Table
  <2>2. QED  BY <2>1 DEF Known
<1>5. \A j \in req'[r].seen : j \in Known' /\ j.project = p
  BY <1>3, <1>4, CredMgrAssumption DEF Known, Matching
<1>6. ASSUME NEW t \in tokens, t.jwt \in req'[r].seen, ~Twin(t.jwt)
      PROVE  t.state = "Revoked"
  <2>1. PICK s \in tokens : s.jwt = t.jwt /\ s.state = "Revoked"
    BY <1>3, <1>6 DEF Matching
  <2>2. s = t
    BY <1>6, <2>1, SameRow
  <2>3. QED  BY <2>1, <2>2
<1>7. \A j : Twin(j)' <=> Twin(j)
  BY <1>3 DEF Twin
<1>8. QED  BY <1>3, <1>5, <1>6, <1>7 DEF RevokeListState

(* A revoke list reads the first page of the revoked rows of its project.  *)
LEMMA RevokeListStep ==
    ASSUME IInv, NEW r \in Requests, Move(r), RevokeListState(req[r])
    PROVE  RevokeListState(req[r])'
<1>0. /\ req \in [Requests -> Request] /\ req[r] \in Request /\ Shape(req[r])
      /\ IsFiniteSet(tokens) /\ [Next]_vars
  BY DEF IInv, TypeOK, Table, Next, Move
<1>1. CASE Reply(r)
  BY <1>0, <1>1 DEF Reply, Idle, RevokeListState
<1>2. CASE ~Reply(r) /\ req[r].op = "revokeList"
  <2>0. ~DeleteSelect(r)
    BY <1>0, <1>2 DEF DeleteSelect, Shape, Deleting
  <2>1. /\ req'[r].op = "revokeList" /\ req'[r].seen = req[r].seen
        /\ req'[r].project = req[r].project
    BY <1>2, <2>0, Kept DEF Making
  <2>2. /\ req[r].project \in Projects
        /\ \A j \in req[r].seen : j \in Known /\ j \in Known' /\ j.project = req[r].project
        /\ \A t \in tokens : t.jwt \in req[r].seen /\ ~Twin(t.jwt) => t.state = "Revoked"
    BY <1>0, <1>2, KnownGrows DEF RevokeListState, Known
  <2>3. \A t \in tokens' : t.jwt \in req[r].seen /\ ~Twin(t.jwt)' => t.state = "Revoked"
    BY <1>0, <2>2, RowsAppear, KnownGrows DEF Twin
  <2>4. CASE RevokeListRead(r)
    <3> DEFINE M == {t \in Matching(tokens, None, req[r].project, None) : t.state = "Revoked"}
    <3>1. PICK P \in Slice(M, 0, PageLimit) : Answer(r, "ok", P)
      BY <2>4 DEF RevokeListRead
    <3>2. M \subseteq tokens /\ IsFiniteSet(M) /\ \A t \in M : t.state = "Revoked"
      BY <1>0, FS_Subset DEF Matching
    <3>3. \A t \in tokens : t.jwt \in req[r].seen /\ ~Twin(t.jwt) => t \in M
      BY <2>2 DEF Matching
    <3>. HIDE DEF M
    <3>4. /\ P \subseteq M
          /\ P = M \/ Cardinality(P) = PageLimit
          /\ \A a \in P, b \in M \ P : a.expires >= b.expires
      BY <3>1, <3>2, SliceSubset, PageSize
    <3>5. req'[r].rows = P /\ tokens' = tokens /\ stored' = stored
      BY <1>0, <2>4, <3>1 DEF Answer, Request, RevokeListRead
    <3>6. \A j : Twin(j)' <=> Twin(j)
      BY <3>5 DEF Twin
    <3>7. PageListed(req[r])'
      <4>1. ASSUME NEW t \in tokens, t.jwt \in req[r].seen, ~Twin(t.jwt)
            PROVE  \/ \E s \in P : s.jwt = t.jwt
                   \/ Cardinality(P) = PageLimit /\ \A s \in P : s.expires >= t.expires
        BY <3>3, <3>4, <4>1
      <4>2. QED  BY <2>1, <3>5, <3>6, <4>1 DEF PageListed
    <3>8. OnlyRevoked(req[r])'
      <4>1. ASSUME NEW s \in P, NEW t \in tokens, s.jwt = t.jwt, ~Twin(t.jwt)
            PROVE  t.state = "Revoked"
        BY <3>2, <3>4, <4>1, SameRow
      <4>2. QED  BY <3>5, <3>6, <4>1 DEF OnlyRevoked
    <3>9. QED  BY <2>1, <2>2, <2>3, <3>7, <3>8 DEF RevokeListState
  <2>5. CASE Abort(r) \/ Sweep(r) \/ SweepRemove(r) \/ Lookup(r)
    <3>1. req'[r].pc # "reply" \/ req'[r].answer # "ok"
      <4>1. CASE Abort(r)
        BY <1>0, <4>1 DEF Abort, Answer, Request
      <4>2. CASE Sweep(r) \/ SweepRemove(r) \/ Lookup(r)
        <5>1. PICK pc, P : /\ Goto(r, pc, P)
                           /\ pc \in {"add", "query", "sweeping", "sweep", "stamp"}
          BY <4>2 DEF Sweep, SweepRemove, AfterSweep, Lookup, CreateFirst
        <5>2. QED  BY <1>0, <5>1 DEF Goto, Request
      <4>3. QED  BY <2>5, <4>1, <4>2
    <3>2. QED  BY <2>1, <2>2, <2>3, <3>1 DEF RevokeListState
  <2>6. Abort(r) \/ Sweep(r) \/ SweepRemove(r) \/ Lookup(r) \/ RevokeListRead(r)
    BY <1>0, <1>2 DEF Step, Shape, Deleting, Making, CheckLimit, Stamp, Encode, AddToken,
          RevokeRead, RevokeUpdate, DeleteSelect, DeleteRemove, ListRead, ValidateRead, At,
          Move, AskCore
  <2>7. QED  BY <2>4, <2>5, <2>6
<1>3. CASE ~Reply(r) /\ req[r].op # "revokeList"
  <2>1. req'[r].op # "revokeList"
    BY <1>0, <1>3, Kept
  <2>2. QED  BY <2>1 DEF RevokeListState
<1>4. QED  BY <1>1, <1>2, <1>3

LEMMA EmptyNext == IInv /\ Emptying /\ [Next]_vars => Emptying'
<1> SUFFICES ASSUME IInv, Emptying, [Next]_vars, NEW x \in Requests
             PROVE  EmptyState(req[x])'
  BY DEF Emptying
<1>1. CASE req'[x] = req[x]
  <2>1. PICK q : q = req[x]
    OBVIOUS
  <2>2. EmptyState(q)
    BY <2>1 DEF Emptying
  <2>3. EmptyState(q)'
    BY <2>1, <2>2, PagesStay
  <2>4. QED  BY <1>1, <2>1, <2>3 DEF EmptyState, Handles, Handled, Deleted
<1>2. ASSUME NEW r \in Requests, Arrive(r) \/ Move(r)
      PROVE  req'[x] = req[x] \/ EmptyState(req[x])'
  <2>1. CASE x # r
    BY <1>2, <2>1, OthersWait
  <2>2. CASE x = r /\ Arrive(r)
    <3>1. CASE req'[r].op = "deleteAll"
      BY <2>2, <3>1, DeleteAllBegins
    <3>2. CASE req'[r].op # "deleteAll"
      BY <2>2, <3>2 DEF EmptyState
    <3>3. QED  BY <3>1, <3>2
  <2>3. CASE x = r /\ ~Arrive(r)
    BY <1>2, <2>3, EmptyStep DEF Emptying
  <2>4. QED  BY <2>1, <2>2, <2>3
<1>3. QED  BY <1>1, <1>2 DEF Next, Tick, Move, vars

LEMMA RevokeListsNext == IInv /\ RevokeLists /\ [Next]_vars => RevokeLists'
<1> SUFFICES ASSUME IInv, RevokeLists, [Next]_vars, NEW x \in Requests
             PROVE  RevokeListState(req[x])'
  BY DEF RevokeLists
<1>1. CASE req'[x] = req[x]
  <2>1. PICK q : q = req[x]
    OBVIOUS
  <2>2. RevokeListState(q)
    BY <2>1 DEF RevokeLists
  <2>3. RevokeListState(q)'
    BY <2>1, <2>2, PagesStay
  <2>4. QED  BY <1>1, <2>1, <2>3 DEF RevokeListState, PageListed, OnlyRevoked
<1>2. ASSUME NEW r \in Requests, Arrive(r) \/ Move(r)
      PROVE  req'[x] = req[x] \/ RevokeListState(req[x])'
  <2>1. CASE x # r
    BY <1>2, <2>1, OthersWait
  <2>2. CASE x = r /\ Arrive(r)
    <3>1. CASE req'[r].op = "revokeList"
      BY <2>2, <3>1, RevokeListBegins
    <3>2. CASE req'[r].op # "revokeList"
      BY <2>2, <3>2 DEF RevokeListState
    <3>3. QED  BY <3>1, <3>2
  <2>3. CASE x = r /\ ~Arrive(r)
    BY <1>2, <2>3, RevokeListStep DEF RevokeLists
  <2>4. QED  BY <2>1, <2>2, <2>3
<1>3. QED  BY <1>1, <1>2 DEF Next, Tick, Move, vars

(* DELETE /tokens that answers ok has deleted all it found, or as many as  *)
(* a page has: for any page limit, whatever is added, revoked and swept    *)
(* between its read and its removals.                                      *)
THEOREM DeleteAllSound == Spec => []DeleteAllDeletesAll
<1>1. IInv /\ Emptying => DeleteAllDeletesAll
  <2> SUFFICES ASSUME IInv, Emptying, NEW r \in Requests,
                      req[r].pc = "reply", req[r].op = "deleteAll", req[r].answer = "ok",
                      \A j \in req[r].seen : ~Twin(j)
               PROVE  LET left == {j \in req[r].seen : \E t \in tokens : t.jwt = j}
                      IN  left = {} \/ Cardinality(req[r].seen \ left) >= PageLimit
    BY DEF DeleteAllDeletesAll
  <2> DEFINE left == {j \in req[r].seen : \E t \in tokens : t.jwt = j}
  <2>1. Handles(req[r]) /\ req[r].rows = {}
    BY DEF Emptying, EmptyState
  <2>2. Handled(req[r]) = req[r].seen \ left
    BY <2>1 DEF Handled, Deleted, Jwts
  <2>3. QED  BY <2>1, <2>2 DEF Handles
<1>2. Init => IInv /\ Emptying
  BY InitInv, PagesInit
<1>3. IInv /\ Emptying /\ [Next]_vars => (IInv /\ Emptying)'
  BY NextInv, EmptyNext
<1>4. QED  BY <1>1, <1>2, <1>3, PTL DEF Spec

(* The revoke list holds none that is not revoked, and of those that were  *)
(* revoked when it was asked for and are still there either all, or a full *)
(* page of those that expire last: for any page limit.                     *)
THEOREM RevokeListSound == Spec => []RevokeListExact
<1>1. IInv /\ RevokeLists => RevokeListExact
  <2> SUFFICES ASSUME IInv, RevokeLists, NEW r \in Requests,
                      req[r].pc = "reply", req[r].op = "revokeList", req[r].answer = "ok",
                      NEW t \in tokens, ~Twin(t.jwt)
               PROVE  IF \E s \in req[r].rows : s.jwt = t.jwt
                        THEN t.state = "Revoked"
                        ELSE t.jwt \in req[r].seen =>
                                /\ Cardinality(req[r].rows) = PageLimit
                                /\ \A s \in req[r].rows : s.expires >= t.expires
    BY DEF RevokeListExact
  <2>1. PageListed(req[r]) /\ OnlyRevoked(req[r])
    BY DEF RevokeLists, RevokeListState
  <2>2. QED  BY <2>1 DEF PageListed, OnlyRevoked
<1>2. Init => IInv /\ RevokeLists
  BY InitInv, PagesInit
<1>3. IInv /\ RevokeLists /\ [Next]_vars => (IInv /\ RevokeLists)'
  BY NextInv, RevokeListsNext
<1>4. QED  BY <1>1, <1>2, <1>3, PTL DEF Spec

(***************************************************************************)
(* The number of long-lived tokens                                         *)
(***************************************************************************)
(* q is a request for a long-lived token of u in p, past the check.        *)
Carries(q, u, p) ==
    /\ q.op = "create" /\ q.caller = u /\ q.project = p /\ ~IsShortLived(q.life)
    /\ \/ q.pc \in {"stamp", "encode"}
       \/ q.pc \in {"sweep", "sweeping", "add"} /\ q.jwt # None

Carrying(u, p) == {r \in Requests : Carries(req[r], u, p)}

(* The token a request has made is the one that was asked for, and the one *)
(* of a refresh shows it.                                                  *)
MadeFor(q) ==
    /\ q.op = "refresh" => q.idt # 0
    /\ q.op \in Making /\ q.pc \in {"sweep", "sweeping", "add"} /\ q.jwt # None =>
          /\ q.jwt.user = q.caller /\ q.jwt.project = q.project /\ q.jwt.idt = q.idt
          /\ q.jwt.exp - q.jwt.iat = q.life

(* The tokens there are and the requests past the check.                   *)
LongLivedQuota ==
    /\ \A r \in Requests : MadeFor(req[r])
    /\ \A u \in Users, p \in Projects :
          Cardinality(LongLived(u, p)) + Cardinality(Carrying(u, p))
             <= MaxLLT + Cardinality(Requests)

(* The numbers are numbers.                                                *)
LEMMA Counts ==
    ASSUME IsFiniteSet(Requests), IInv, NEW u, NEW p
    PROVE  /\ Cardinality(Requests) \in Nat /\ MaxLLT \in Nat /\ PageLimit \in Nat
           /\ IsFiniteSet(LongLived(u, p)) /\ Cardinality(LongLived(u, p)) \in Nat
           /\ IsFiniteSet(Carrying(u, p)) /\ Cardinality(Carrying(u, p)) \in Nat
           /\ Cardinality(Carrying(u, p)) <= Cardinality(Requests)
<1>1. LongLived(u, p) \in SUBSET tokens /\ Carrying(u, p) \in SUBSET Requests
  BY DEF LongLived, Matching, Carrying
<1>2. IsFiniteSet(tokens)
  BY DEF IInv, Table
<1>3. QED  BY <1>1, <1>2, CredMgrAssumption, FS_Subset, FS_CardinalityType

(* A set with one element more, or one less, than S.                       *)
LEMMA OneMoreOrLess ==
    ASSUME NEW S, IsFiniteSet(S), NEW x, NEW T, T \subseteq S \cup {x}
    PROVE  /\ Cardinality(S) \in Nat /\ Cardinality(T) \in Nat
           /\ Cardinality(T) <= Cardinality(S) + 1
           /\ T \subseteq S => Cardinality(T) <= Cardinality(S)
           /\ x \in S /\ T \subseteq S \ {x} => Cardinality(T) <= Cardinality(S) - 1
<1>1. Cardinality(S) \in Nat
  BY FS_CardinalityType
<1>2. /\ IsFiniteSet(S \cup {x})
      /\ Cardinality(S \cup {x}) = IF x \in S THEN Cardinality(S) ELSE Cardinality(S) + 1
  BY FS_AddElement
<1>3. Cardinality(T) \in Nat /\ Cardinality(T) <= Cardinality(S \cup {x})
  BY <1>2, FS_Subset, FS_CardinalityType
<1>4. T \subseteq S => Cardinality(T) <= Cardinality(S)
  BY FS_Subset
<1>5. ASSUME x \in S, T \subseteq S \ {x}  PROVE Cardinality(T) <= Cardinality(S) - 1
  <2>1. IsFiniteSet(S \ {x}) /\ Cardinality(S \ {x}) = Cardinality(S) - 1
    BY <1>5, FS_RemoveElement
  <2>2. Cardinality(T) <= Cardinality(S \ {x})
    BY <1>5, <2>1, FS_Subset
  <2>3. QED  BY <2>1, <2>2
<1>6. QED  BY <1>1, <1>2, <1>3, <1>4, <1>5

(* A request passes the check at the check; what it makes is what was      *)
(* asked for; and who is answered carries nothing.                         *)
LEMMA CarryMoves ==
    ASSUME IInv, NEW r \in Requests, Arrive(r) \/ Move(r), MadeFor(req[r])
    PROVE  /\ MadeFor(req'[r])
           /\ \A u, p : Carries(req'[r], u, p) => Carries(req[r], u, p) \/ CheckLimit(r)
           /\ \A u, p : AddToken(r) => ~Carries(req'[r], u, p)
<1>0. /\ req \in [Requests -> Request] /\ req[r] \in Request /\ Shape(req[r])
      /\ idTokens \in Nat /\ None \notin Jwt /\ now \in Nat
  BY NoneAssumption DEF IInv, TypeOK
<1>1. CASE Arrive(r)
  <2>1. ASSUME NEW q, Begin(r, q), q.op \notin Making  PROVE req'[r].op \notin Making
    BY <1>0, <2>1 DEF Begin
  <2>2. CASE req'[r].op \notin Making
    BY <2>2, <1>1 DEF MadeFor, Carries, Making, Arrive, CreateBegin, RefreshBegin, RevokeBegin,
       DeleteOneBegin, DeleteAllBegin, ListBegin, RevokeListBegin, ValidateBegin, Begin, AddToken
  <2>3. ASSUME NEW u \in Users, NEW p \in Projects, NEW life \in Lifetimes,
               CreateBegin(r, u, p, life)
        PROVE  /\ req'[r].op = "create" /\ req'[r].life = life /\ req'[r].jwt = None
               /\ req'[r].pc \in {"lookup", IF IsShortLived(life) THEN "stamp" ELSE "sweep"}
    <3>1. PICK pc \in {"lookup", CreateFirst(life)} :
             Begin(r, [Idle EXCEPT !.op = "create", !.caller = u, !.project = p,
                                   !.life = life, !.pc = pc])
      BY <2>3 DEF CreateBegin
    <3>2. QED  BY <1>0, <3>1 DEF Begin, Idle, CreateFirst
  <2>4. ASSUME NEW u \in Users, NEW p \in Projects, RefreshBegin(r, u, p)
        PROVE  /\ req'[r].op = "refresh" /\ req'[r].idt = idTokens + 1 /\ req'[r].jwt = None
    BY <1>0, <2>4 DEF RefreshBegin, Begin, Idle
  <2>5. \/ \E u \in Users, p \in Projects, life \in Lifetimes : CreateBegin(r, u, p, life)
        \/ \E u \in Users, p \in Projects : RefreshBegin(r, u, p)
        \/ req'[r].op \notin Making
    BY <1>1, <2>1 DEF Arrive, RevokeBegin, DeleteOneBegin, DeleteAllBegin, ListBegin,
                      RevokeListBegin, ValidateBegin, Idle, Making
  <2>6. req[r].pc = "idle"
    BY <1>1 DEF Arrive, CreateBegin, RefreshBegin, RevokeBegin, DeleteOneBegin,
                DeleteAllBegin, ListBegin, RevokeListBegin, ValidateBegin, Begin
  <2>7. ~AddToken(r)
    BY <2>6 DEF AddToken
  <2>8. QED  BY <1>0, <2>2, <2>3, <2>4, <2>5, <2>7 DEF MadeFor, Carries
<1>2. ASSUME NEW a, NEW P, Answer(r, a, P)
      PROVE  MadeFor(req'[r]) /\ \A u, p : ~Carries(req'[r], u, p)
  <2>1. req'[r].pc = "reply" /\ req'[r].op = req[r].op /\ req'[r].idt = req[r].idt
    BY <1>0, <1>2 DEF Answer, Request
  <2>2. QED  BY <2>1 DEF MadeFor, Carries
<1>3. ASSUME NEW a, NEW P, Goto(r, a, P)
      PROVE  /\ req'[r].pc = a /\ req'[r].op = req[r].op /\ req'[r].idt = req[r].idt
             /\ req'[r].caller = req[r].caller /\ req'[r].project = req[r].project
             /\ req'[r].jwt = req[r].jwt /\ req'[r].life = req[r].life
  BY <1>0, <1>3 DEF Goto, Request
<1>4. CASE Sweep(r) \/ SweepRemove(r)
  <2>1. PICK a, P : /\ Goto(r, a, P)
                    /\ a \in {AfterSweep(req[r]), "sweeping"}
    BY <1>4 DEF Sweep, SweepRemove
  <2>2. req[r].pc \in {"sweep", "sweeping"}
    BY <1>4 DEF Sweep, SweepRemove
  <2>3. a \in {"add", "query", "sweeping"}
    BY <2>1 DEF AfterSweep
  <2>4. ~AddToken(r)
    BY <2>2 DEF AddToken
  <2>5. QED  BY <1>3, <2>1, <2>2, <2>3, <2>4 DEF MadeFor, Carries
<1>5. CASE CheckLimit(r)
  <2>1. CASE \E a, P : Answer(r, a, P)
    BY <1>2, <1>5, <2>1
  <2>2. CASE Goto(r, "stamp", {})
    <3>1. req'[r].pc = "stamp" /\ req'[r].op = "create"
      BY <1>3, <1>5, <2>2 DEF CheckLimit, At
    <3>2. ~AddToken(r)
      BY <1>5 DEF AddToken, CheckLimit, At
    <3>3. QED  BY <1>5, <3>1, <3>2 DEF MadeFor
  <2>3. QED  BY <1>5, <2>1, <2>2 DEF CheckLimit
<1>6. CASE Stamp(r)
  BY <1>0, <1>6 DEF Stamp, AddToken, MadeFor, Carries, Request
<1>7. CASE Encode(r)
  <2>1. CASE Answer(r, "lifetime", {})
    BY <1>2, <2>1
  <2>2. CASE req' = [req EXCEPT
                ![r].pc = "sweep",
                ![r].jwt = [user |-> req[r].caller, project |-> req[r].project,
                            idt |-> req[r].idt, iat |-> WholeSecond(now),
                            exp |-> WholeSecond(now) + req[r].life]]
    <3>0. WholeSecond(now) \in Nat
      BY <1>0, WholeSecondBounds
    <3>1. /\ req'[r].op = req[r].op /\ req'[r].caller = req[r].caller /\ req'[r].idt = req[r].idt
          /\ req'[r].project = req[r].project /\ req'[r].life = req[r].life
          /\ req'[r].jwt = [user |-> req[r].caller, project |-> req[r].project,
                            idt |-> req[r].idt, iat |-> WholeSecond(now),
                            exp |-> WholeSecond(now) + req[r].life]
          /\ req[r].life \in Nat /\ req[r].pc = "encode"
      BY <1>0, <1>7, <2>2 DEF Request, Encode
    <3>2. MadeFor(req'[r])
      <4>1. /\ req'[r].jwt.user = req'[r].caller /\ req'[r].jwt.project = req'[r].project
            /\ req'[r].jwt.idt = req'[r].idt
            /\ req'[r].jwt.exp - req'[r].jwt.iat = req'[r].life
        BY <3>0, <3>1
      <4>2. QED  BY <3>1, <4>1 DEF MadeFor
    <3>3. QED  BY <3>1, <3>2 DEF Carries, AddToken
  <2>3. QED  BY <1>7, <2>1, <2>2 DEF Encode
<1>8. CASE AddToken(r) \/ RevokeUpdate(r) \/ RevokeListRead(r) \/ ListRead(r) \/ ValidateRead(r)
           \/ Abort(r)
  BY <1>2, <1>8 DEF AddToken, RevokeUpdate, RevokeListRead, ListRead, ValidateRead, Abort
<1>9. CASE RevokeRead(r) \/ DeleteRemove(r)
  <2>1. req[r].op \notin Making /\ ~AddToken(r)
    BY <1>0, <1>9 DEF RevokeRead, DeleteRemove, At, Shape, Making, Deleting, AddToken
  <2>2. PICK a, P : Goto(r, a, P) \/ Answer(r, a, P)
    BY <1>9 DEF RevokeRead, DeleteRemove
  <2>3. CASE Goto(r, a, P)
    BY <1>3, <2>1, <2>3 DEF MadeFor, Carries, Making
  <2>4. QED  BY <1>2, <2>1, <2>2, <2>3
<1>10. CASE Reply(r)
  BY <1>0, <1>10 DEF Reply, Idle, MadeFor, Carries, Making, AddToken
<1>11. CASE DeleteSelect(r)
  <2>1. req[r].op \in Deleting /\ ~AddToken(r)
    BY <1>0, <1>11 DEF DeleteSelect, Shape, AddToken
  <2>2. PICK q \in Request : req' = [req EXCEPT ![r] = q] /\ q.op = req[r].op
    BY <1>11, DeleteReads DEF IInv
  <2>3. QED  BY <1>0, <2>1, <2>2 DEF MadeFor, Carries, Making, Deleting
<1>12. CASE Lookup(r)
  <2>1. PICK a \in {"sweep", "stamp"} :
           /\ Goto(r, a, {})
           /\ a = IF req[r].op = "create" THEN CreateFirst(req[r].life) ELSE "sweep"
    BY <1>12 DEF Lookup, CreateFirst
  <2>2. /\ req[r].pc = "lookup" /\ ~AddToken(r)
        /\ req[r].op \in Making => req[r].op = "create" /\ req[r].jwt = None
    BY <1>0, <1>12 DEF Lookup, AddToken, Shape
  <2>3. QED  BY <1>3, <2>1, <2>2 DEF MadeFor, Carries, Making, CreateFirst
<1>13. QED
  BY <1>1, <1>4, <1>5, <1>6, <1>7, <1>8, <1>9, <1>10, <1>11, <1>12
     DEF Move, AskCore, Step

(* Only what a request adds makes the long-lived tokens more: sweeps and   *)
(* deletions take rows away, and a revocation gives rows another state.    *)
LEMMA LongLivedMoves ==
    ASSUME IInv, [Next]_vars, NEW u, NEW p, ~\E r \in Requests : AddToken(r)
    PROVE  /\ Cardinality(LongLived(u, p)') \in Nat
           /\ Cardinality(LongLived(u, p)') <= Cardinality(LongLived(u, p))
<1>1. IsFiniteSet(LongLived(u, p))
  BY FS_Subset DEF LongLived, Matching, IInv, Table
<1>2. CASE tokens' \subseteq tokens
  <2>1. LongLived(u, p)' \subseteq LongLived(u, p)
    BY <1>2 DEF LongLived, Matching
  <2>2. QED  BY <1>1, <2>1, FS_Subset, FS_CardinalityType
<1>3. ASSUME NEW j, tokens' = UpdateToken(tokens, j, "Revoked")
      PROVE  /\ Cardinality(LongLived(u, p)') \in Nat
             /\ Cardinality(LongLived(u, p)') <= Cardinality(LongLived(u, p))
  <2> DEFINE After(t) == IF t.jwt = j THEN [t EXCEPT !.state = "Revoked"] ELSE t
             f == [t \in LongLived(u, p) |-> After(t)]
  <2>1. \A t \in tokens : After(t).jwt = t.jwt
    BY DEF IInv, TypeOK, Row
  <2>2. tokens' = {After(t) : t \in tokens}
    BY <1>3 DEF UpdateToken
  <2>3. \A t \in tokens : t \in LongLived(u, p) <=> After(t) \in LongLived(u, p)'
    <3>1. ASSUME NEW t \in tokens  PROVE After(t) \in tokens' /\ After(t).jwt = t.jwt
      BY <2>1, <2>2
    <3>. HIDE DEF After
    <3>2. QED  BY <3>1 DEF LongLived, Matching
  <2>4. \A s \in LongLived(u, p)' : \E t \in tokens : s = After(t)
    BY <2>2 DEF LongLived, Matching
  <2>5. LongLived(u, p) \subseteq tokens
    BY DEF LongLived, Matching
  <2>6. f \in Surjection(LongLived(u, p), LongLived(u, p)')
    <3>. HIDE DEF After
    <3>1. f \in [LongLived(u, p) -> LongLived(u, p)']
      BY <2>3, <2>5
    <3>2. \A s \in LongLived(u, p)' : \E t \in LongLived(u, p) : f[t] = s
      BY <2>3, <2>4, <2>5
    <3>3. QED  BY <3>1, <3>2 DEF Surjection
  <2>7. QED  BY <1>1, <2>6, FS_Surjection, FS_CardinalityType
<1>4. tokens' \subseteq tokens \/ \E j : tokens' = UpdateToken(tokens, j, "Revoked")
  BY TableChanges DEF SweepRemove, DeleteRemove, RemoveToken, RevokeUpdate
<1>5. QED  BY <1>2, <1>3, <1>4

(* A request that adds a long-lived token of u in p was one of those past  *)
(* the check.                                                              *)
LEMMA AddedCarried ==
    ASSUME IInv, NEW r \in Requests, AddToken(r), MadeFor(req[r]), NEW u \in Users,
           NEW p \in Projects
    PROVE  \/ LongLived(u, p)' \subseteq LongLived(u, p)
           \/ /\ Carries(req[r], u, p)
              /\ \E t : LongLived(u, p)' \subseteq LongLived(u, p) \cup {t}
<1> DEFINE new == [id |-> nextId, jwt |-> req[r].jwt, expires |-> req[r].expires,
                   state |-> IF req[r].op = "refresh" THEN "Refreshed" ELSE "Valid"]
<1>1. tokens' = tokens \cup {new} /\ new.jwt = req[r].jwt
  BY DEF AddToken
<1>. HIDE DEF new
<1>2. LongLived(u, p)' \subseteq LongLived(u, p) \cup {new}
  BY <1>1 DEF LongLived, Matching
<1>3. CASE new \in LongLived(u, p)'
  <2>1. /\ req[r].jwt.user = u /\ req[r].jwt.project = p /\ req[r].jwt.idt = 0
        /\ ~IsShortLived(req[r].jwt.exp - req[r].jwt.iat)
    BY <1>1, <1>3, CredMgrAssumption DEF LongLived, Matching
  <2>2. /\ req[r].pc = "add" /\ req[r].op \in Making /\ req[r].jwt # None
    BY NoneAssumption DEF AddToken, IInv, Shape
  <2>3. Carries(req[r], u, p)
    BY <2>1, <2>2 DEF MadeFor, Carries, Making
  <2>4. QED  BY <1>2, <2>3
<1>4. QED  BY <1>2, <1>3

(* The check lets a request pass when the page it counts holds no more     *)
(* than the quota; a page that can hold more is then all there is.         *)
LEMMA Checked ==
    ASSUME IInv, MaxLLT < PageLimit, NEW r \in Requests, CheckLimit(r), NEW u, NEW p,
           Carries(req'[r], u, p)
    PROVE  Cardinality(LongLived(u, p)) <= MaxLLT
<1>0. /\ req \in [Requests -> Request] /\ req[r] \in Request /\ IsFiniteSet(tokens)
      /\ MaxLLT \in Nat /\ PageLimit \in Nat
  BY CredMgrAssumption DEF IInv, TypeOK, Table
<1> DEFINE M == Matching(tokens, req[r].caller, req[r].project, None)
<1>1. PICK P \in Slice(M, 0, PageLimit) :
         IF Cardinality(P) > MaxLLT THEN Answer(r, "limit", {}) ELSE Goto(r, "stamp", {})
  BY DEF CheckLimit
<1>2. /\ Cardinality(P) <= MaxLLT
      /\ req[r].caller = u /\ req[r].project = p
  <2>1. IsFiniteSet(P)
    <3>1. P \subseteq M /\ IsFiniteSet(M)
      BY <1>0, SliceSubset, FS_Subset DEF Matching
    <3>2. QED  BY <3>1, FS_Subset
  <2>2. Cardinality(P) \in Nat
    BY <2>1, FS_CardinalityType
  <2>3. ~Answer(r, "limit", {})
    BY <1>0 DEF Answer, Request, Carries
  <2>4. Goto(r, "stamp", {}) /\ Cardinality(P) <= MaxLLT
    BY <1>0, <1>1, <2>2, <2>3
  <2>5. req'[r].caller = req[r].caller /\ req'[r].project = req[r].project
    BY <1>0, <2>4 DEF Goto, Request
  <2>6. QED  BY <2>4, <2>5 DEF Carries
<1>3. /\ IsFiniteSet(M) /\ Cardinality(M) \in Nat
  BY <1>0, FS_Subset, FS_CardinalityType DEF Matching
<1>4. Cardinality(M) <= MaxLLT
  BY <1>0, <1>1, <1>2, <1>3, PageSize
<1>5. LongLived(u, p) \subseteq M
  BY <1>2 DEF LongLived
<1>6. QED  BY <1>0, <1>3, <1>4, <1>5, FS_Subset, FS_CardinalityType

LEMMA LongLivedQuotaNext ==
    ASSUME IsFiniteSet(Requests), MaxLLT < PageLimit, IInv, LongLivedQuota, [Next]_vars
    PROVE  LongLivedQuota'
<1>0. /\ IInv' /\ req \in [Requests -> Request]
  BY NextInv DEF IInv, TypeOK
<1>1. CASE Tick \/ UNCHANGED vars
  <2>1. tokens' = tokens /\ req' = req
    BY <1>1 DEF Tick, vars
  <2>2. \A u, p : LongLived(u, p)' = LongLived(u, p) /\ Carrying(u, p)' = Carrying(u, p)
    BY <2>1 DEF LongLived, Matching, Carrying
  <2>3. \A x \in Requests : MadeFor(req[x])'
    BY <2>1 DEF LongLivedQuota, MadeFor
  <2>4. QED  BY <2>2, <2>3 DEF LongLivedQuota
<1>2. ASSUME NEW r \in Requests, Arrive(r) \/ Move(r)
      PROVE  LongLivedQuota'
  <2>1. \A x \in Requests : MadeFor(req[x])'
    <3>1. ASSUME NEW x \in Requests  PROVE MadeFor(req'[x])
      BY <1>2, OthersWait, CarryMoves DEF LongLivedQuota
    <3>2. QED  BY <3>1 DEF MadeFor
  <2>2. ASSUME NEW u \in Users, NEW p \in Projects
        PROVE  Cardinality(LongLived(u, p)') + Cardinality(Carrying(u, p)')
                  <= MaxLLT + Cardinality(Requests)
    <3> DEFINE L == Cardinality(LongLived(u, p))
               C == Cardinality(Carrying(u, p))
               LN == Cardinality(LongLived(u, p)')
               CN == Cardinality(Carrying(u, p)')
               N == Cardinality(Requests)
    <3>1. /\ N \in Nat /\ MaxLLT \in Nat
          /\ IsFiniteSet(LongLived(u, p)) /\ L \in Nat
          /\ IsFiniteSet(Carrying(u, p)) /\ C \in Nat /\ L + C <= MaxLLT + N
      BY Counts DEF LongLivedQuota
    <3>2. LN \in Nat /\ CN \in Nat /\ CN <= N
      <4>1. LongLived(u, p)' \subseteq tokens' /\ Carrying(u, p)' \subseteq Requests
        BY DEF LongLived, Matching, Carrying
      <4>2. IsFiniteSet(tokens')
        BY <1>0 DEF IInv, Table
      <4>3. QED  BY <4>1, <4>2, FS_Subset, FS_CardinalityType
    <3>3. \A x \in Requests : x # r => req'[x] = req[x]
      BY <1>2, OthersWait
    <3>4. CASE AddToken(r)
      <4>1. Carrying(u, p)' \subseteq Carrying(u, p) \ {r}
        BY <1>2, <3>3, <3>4, CarryMoves DEF LongLivedQuota, Carrying
      <4>2. MadeFor(req[r])
        BY DEF LongLivedQuota
      <4>3. CASE LongLived(u, p)' \subseteq LongLived(u, p)
        <5>1. LN <= L /\ CN <= C
          BY <3>1, <4>1, <4>3, FS_Subset
        <5>2. QED  BY <3>1, <3>2, <5>1
      <4>4. ASSUME NEW t, Carries(req[r], u, p),
                   LongLived(u, p)' \subseteq LongLived(u, p) \cup {t}
            PROVE  LN + CN <= MaxLLT + N
        <5>1. LN <= L + 1
          BY <3>1, <4>4, OneMoreOrLess
        <5>2. CN <= C - 1
          <6>1. r \in Carrying(u, p)
            BY <4>4 DEF Carrying
          <6>2. QED  BY <3>1, <4>1, <6>1, OneMoreOrLess
        <5>3. QED  BY <3>1, <3>2, <5>1, <5>2
      <4>5. QED  BY <3>4, <4>2, <4>3, <4>4, AddedCarried
    <3>5. CASE ~AddToken(r)
      <4>1. LN <= L
        <5>1. ASSUME NEW x \in Requests, AddToken(x)  PROVE FALSE
          <6>1. req[x] \in Request /\ req[x].pc = "add" /\ x # r
            BY <3>5, <5>1 DEF AddToken, IInv, TypeOK
          <6>2. req'[x].pc = "reply"
            BY <1>0, <5>1, <6>1 DEF AddToken, Answer, Request
          <6>3. QED  BY <3>3, <6>1, <6>2
        <5>2. QED  BY <5>1, LongLivedMoves
      <4>2. CASE Carries(req'[r], u, p) /\ CheckLimit(r)
        <5>1. L <= MaxLLT
          BY <4>2, Checked
        <5>2. QED  BY <3>1, <3>2, <4>1, <5>1
      <4>3. CASE ~(Carries(req'[r], u, p) /\ CheckLimit(r))
        <5>1. Carrying(u, p)' \subseteq Carrying(u, p)
          BY <1>2, <3>3, <4>3, CarryMoves DEF LongLivedQuota, Carrying
        <5>2. CN <= C
          BY <3>1, <5>1, FS_Subset
        <5>3. QED  BY <3>1, <3>2, <4>1, <5>2
      <4>4. QED  BY <4>2, <4>3
    <3>6. QED  BY <3>4, <3>5
  <2>3. QED  BY <2>1, <2>2 DEF LongLivedQuota
<1>3. QED  BY <1>1, <1>2 DEF Next, Move

(* A quota below what get_tokens returns at most is kept, but for one token*)
(* per worker thread.                                                      *)
LEMMA QuotaKept ==
    ASSUME IsFiniteSet(Requests), MaxLLT < PageLimit
    PROVE  Spec => []LLTOvershootBounded
<1>1. IInv /\ LongLivedQuota => LLTOvershootBounded
  <2> SUFFICES ASSUME IInv, LongLivedQuota, NEW u \in Users, NEW p \in Projects
               PROVE  Cardinality(LongLived(u, p)) <= MaxLLT + Cardinality(Requests)
    BY DEF LLTOvershootBounded
  <2>1. /\ Cardinality(LongLived(u, p)) \in Nat /\ Cardinality(Carrying(u, p)) \in Nat
        /\ Cardinality(Requests) \in Nat /\ MaxLLT \in Nat
    BY Counts
  <2>2. QED  BY <2>1 DEF LongLivedQuota
<1>2. Init => LongLivedQuota
  <2> SUFFICES ASSUME Init  PROVE LongLivedQuota
    OBVIOUS
  <2>1. \A u, p : LongLived(u, p) = {} /\ Carrying(u, p) = {}
    BY DEF Init, LongLived, Matching, Carrying, Carries, Idle
  <2>2. \A r \in Requests : MadeFor(req[r])
    BY DEF Init, MadeFor, Idle, Making
  <2>3. Cardinality(Requests) \in Nat /\ MaxLLT \in Nat /\ Cardinality({}) = 0
    BY FS_CardinalityType, FS_EmptySet, CredMgrAssumption
  <2>4. ASSUME NEW u \in Users, NEW p \in Projects
        PROVE  Cardinality(LongLived(u, p)) + Cardinality(Carrying(u, p))
                  <= MaxLLT + Cardinality(Requests)
    <3>1. Cardinality(LongLived(u, p)) = 0 /\ Cardinality(Carrying(u, p)) = 0
      BY <2>1, <2>3
    <3>2. QED  BY <2>3, <3>1
  <2>5. QED  BY <2>2, <2>4 DEF LongLivedQuota
<1>3. IInv /\ LongLivedQuota /\ [Next]_vars => (IInv /\ LongLivedQuota)'
  BY NextInv, LongLivedQuotaNext
<1>4. Init => IInv /\ LongLivedQuota
  BY <1>2, InitInv
<1>5. QED  BY <1>1, <1>3, <1>4, PTL DEF Spec

(* The check counts the rows of a page: a page that cannot hold more than  *)
(* the quota never refuses anybody.                                        *)
NoneRefused == \A r \in Requests : req[r].answer # "limit"

LEMMA NoneRefusedNext ==
    ASSUME PageLimit <= MaxLLT, IInv, NoneRefused, [Next]_vars
    PROVE  NoneRefused'
<1>0. req \in [Requests -> Request] /\ PageLimit \in Nat /\ MaxLLT \in Nat
  BY CredMgrAssumption DEF IInv, TypeOK
<1>1. ASSUME NEW r \in Requests, Arrive(r), req'[r].answer = "limit"  PROVE FALSE
  <2>1. ASSUME NEW q, q.answer # "limit", Begin(r, q)  PROVE FALSE
    BY <1>0, <1>1, <2>1 DEF Begin
  <2>2. QED
    BY <1>1, <2>1 DEF Arrive, CreateBegin, RefreshBegin, RevokeBegin, DeleteOneBegin,
          DeleteAllBegin, ListBegin, RevokeListBegin, ValidateBegin, Idle
<1>2. ASSUME NEW r \in Requests, NEW P, NEW pc, Goto(r, pc, P)
      PROVE  req'[r].answer # "limit"
  BY <1>0, <1>2 DEF NoneRefused, Goto, Request
<1>3. ASSUME NEW r \in Requests, NEW P, NEW a, Answer(r, a, P), a # "limit"
      PROVE  req'[r].answer # "limit"
  BY <1>0, <1>3 DEF Answer, Request
<1>4. ASSUME NEW r \in Requests, Move(r)  PROVE req'[r].answer # "limit"
  <2>1. CASE Stamp(r) \/ Reply(r)
    BY <1>0, <2>1 DEF Stamp, Reply, Idle, NoneRefused, Request
  <2>2. CASE Encode(r)
    <3>1. CASE Answer(r, "lifetime", {})
      BY <1>3, <3>1
    <3>2. CASE ~Answer(r, "lifetime", {})
      BY <1>0, <2>2, <3>2 DEF Encode, NoneRefused, Request
    <3>3. QED  BY <3>1, <3>2
  <2>3. CASE DeleteSelect(r)
    BY <1>0, <2>3 DEF DeleteSelect, Request
  <2>4. CASE Lookup(r) \/ Sweep(r) \/ SweepRemove(r)
    BY <1>2, <2>4 DEF Lookup, Sweep, SweepRemove
  <2>5. CASE AddToken(r) \/ RevokeRead(r) \/ RevokeUpdate(r) \/ DeleteRemove(r)
    BY <1>2, <1>3, <2>5 DEF AddToken, RevokeRead, RevokeUpdate, DeleteRemove
  <2>6. CASE ListRead(r) \/ RevokeListRead(r) \/ Abort(r)
    BY <1>3, <2>6 DEF ListRead, RevokeListRead, Abort
  <2>7. CASE ValidateRead(r)
    <3>1. \A t \in tokens : ViewState(t) # "limit"
      BY DEF ViewState, IInv, TypeOK, Row, Stored
    <3>2. QED  BY <1>3, <2>7, <3>1 DEF ValidateRead, Matching, Newest
  <2>8. CASE CheckLimit(r)
    <3> DEFINE M == Matching(tokens, req[r].caller, req[r].project, None)
    <3>1. PICK P \in Slice(M, 0, PageLimit) :
             IF Cardinality(P) > MaxLLT THEN Answer(r, "limit", {}) ELSE Goto(r, "stamp", {})
      BY <2>8 DEF CheckLimit
    <3>2. IsFiniteSet(M)
      BY FS_Subset DEF Matching, IInv, Table
    <3>3. Cardinality(M) \in Nat
      BY <3>2, FS_CardinalityType
    <3>. HIDE DEF M
    <3>4. Cardinality(P) = IF Cardinality(M) < PageLimit THEN Cardinality(M) ELSE PageLimit
      BY <3>1, <3>2, PageSize
    <3>5. ~(Cardinality(P) > MaxLLT)
      BY <1>0, <3>3, <3>4
    <3>6. QED  BY <1>2, <3>1, <3>5
  <2>9. QED
    BY <1>4, <2>1, <2>2, <2>3, <2>4, <2>5, <2>6, <2>7, <2>8 DEF Move, AskCore, Step
<1>5. ASSUME NEW x \in Requests  PROVE req'[x].answer # "limit"
  <2>1. CASE req'[x] = req[x]
    BY <2>1 DEF NoneRefused
  <2>2. ASSUME NEW r \in Requests, Arrive(r) \/ Move(r)  PROVE req'[x].answer # "limit"
    BY <1>1, <1>4, <2>1, <2>2, OthersWait
  <2>3. QED  BY <2>1, <2>2 DEF Next, Move, Tick, vars
<1>6. QED  BY <1>5 DEF NoneRefused

(* What max-llt-count-per-project does, for any quota, page limit and      *)
(* number of worker threads: below the page limit, create_token makes no   *)
(* more long-lived tokens of a user in a project than the quota and one    *)
(* per thread; from the page limit on, as in the shipped configuration, it *)
(* refuses nobody.                                                         *)
THEOREM QuotaSound ==
    ASSUME IsFiniteSet(Requests)
    PROVE  Spec => [](IF MaxLLT < PageLimit THEN LLTOvershootBounded ELSE NoneRefused)
<1>1. CASE MaxLLT < PageLimit
  <2>1. Spec => []LLTOvershootBounded
    BY <1>1, QuotaKept
  <2>2. LLTOvershootBounded
           => IF MaxLLT < PageLimit THEN LLTOvershootBounded ELSE NoneRefused
    BY <1>1
  <2>3. QED  BY <2>1, <2>2, PTL
<1>2. CASE ~(MaxLLT < PageLimit)
  <2>1. PageLimit <= MaxLLT
    BY <1>2, CredMgrAssumption
  <2>2. Init => IInv /\ NoneRefused
    BY InitInv DEF Init, Idle, NoneRefused
  <2>3. IInv /\ NoneRefused /\ [Next]_vars => (IInv /\ NoneRefused)'
    BY <2>1, NextInv, NoneRefusedNext
  <2>4. NoneRefused => IF MaxLLT < PageLimit THEN LLTOvershootBounded ELSE NoneRefused
    BY <1>2
  <2>5. QED  BY <2>2, <2>3, <2>4, PTL DEF Spec
<1>3. QED  BY <1>1, <1>2

-----------------------------------------------------------------------------
(***************************************************************************)
(* The token endpoints implement the ledger: each step of a request is one *)
(* step of TokenLedger.                                                    *)
(***************************************************************************)
Active == {"Valid", "Refreshed"}        \* states of a row that is not revoked

(* The entry of a row, and the tokens that have left the table.            *)
Entry(t) == [jwt |-> t.jwt, expires |-> t.expires]
Gone == {j \in Known : ~Twin(j) /\ \A t \in tokens : t.jwt # j}

(* An entry comes from a row of a token that was added once.               *)
LEMMA EntryOf ==
    ASSUME NEW states, NEW e \in Entries(states)
    PROVE  \E t \in tokens : t.state \in states /\ ~Twin(t.jwt) /\ e = Entry(t)
BY DEF Entries, Entry

LEMMA EntryIn ==
    ASSUME NEW states, NEW t \in tokens, t.state \in states, ~Twin(t.jwt)
    PROVE  Entry(t) \in Entries(states)
BY DEF Entries, Entry

(* A token that has a row was added.                                       *)
LEMMA RowKnown ==
    ASSUME IInv, NEW t \in tokens
    PROVE  t.jwt \in Known /\ t.state \in Active \cup {"Revoked"}
<1>1. [id |-> t.id, jwt |-> t.jwt] \in stored
  BY DEF IInv, Table
<1>2. [id |-> t.id, jwt |-> t.jwt].jwt = t.jwt
  OBVIOUS
<1>3. t.jwt \in Known
  BY <1>1, <1>2 DEF Known
<1>4. t.state \in Active \cup {"Revoked"}
  BY DEF IInv, TypeOK, Row, Stored, Active
<1>5. QED  BY <1>3, <1>4

LEMMA LedgerInit == Init => Ledger!Init
<1> SUFFICES ASSUME Init  PROVE Ledger!Init
  OBVIOUS
<1>1. \A r \in Requests : req[r].pc = "idle"
  BY DEF Init, Idle
<1>2. QED  BY <1>1 DEF Init, Ledger!Init, Entries, Known

(* Requests that leave the table alone only change who is asking.          *)
LEMMA QuietStep ==
    ASSUME UNCHANGED <<now, tokens, stored>>
    PROVE  Ledger!Ask
BY DEF Ledger!Ask, Entries, Known, Twin

(* The ledger knows who asks for the deletion or revocation under way.     *)
LEMMA AskedIs ==
    ASSUME NEW r \in Requests, NEW users, req[r].caller \in users
    PROVE  /\ req[r].pc = "removing" => Ledger!Asked("delete", users)
           /\ req[r].pc = "update" => Ledger!Asked("revoke", users)
<1> DEFINE asks == {[what |-> IF req[s].pc = "update" THEN "revoke" ELSE "delete",
                     user |-> req[s].caller] :
                        s \in {s \in Requests : req[s].pc \in {"update", "removing"}}}
           a == [what |-> IF req[r].pc = "update" THEN "revoke" ELSE "delete",
                 user |-> req[r].caller]
<1>1. a.what = (IF req[r].pc = "update" THEN "revoke" ELSE "delete") /\ a.user \in users
  OBVIOUS
<1>2. req[r].pc \in {"update", "removing"} => a \in asks
  OBVIOUS
<1>. HIDE DEF a
<1>3. QED  BY <1>1, <1>2 DEF Ledger!Asked

LEMMA TickStep ==
    ASSUME IInv, Tick
    PROVE  Ledger!Pass
<1>1. now' > now /\ UNCHANGED <<tokens, stored, req>>
  BY DEF Tick, IInv, TypeOK
<1>2. QED  BY <1>1 DEF Ledger!Pass, Entries, Known, Twin

(***************************************************************************)
(* Removing the rows of a token                                            *)
(***************************************************************************)
(* Nothing is told of a token that was added twice, and a token without a  *)
(* row has left the ledger before; the entry of any other one is retired.  *)
LEMMA RemoveIsRetire ==
    ASSUME IInv, NEW j, tokens' = RemoveToken(tokens, j), UNCHANGED <<now, stored>>,
           \A t \in tokens : t.jwt = j /\ ~Twin(j) =>
              t.expires < now \/ Ledger!Asked("delete", {j.user})
    PROVE  Ledger!Next
<1>1. (\A k : Twin(k)' <=> Twin(k)) /\ Known' = Known
  BY DEF Twin, Known
<1>2. ASSUME NEW s  PROVE s \in tokens' <=> s \in tokens /\ s.jwt # j
  BY DEF RemoveToken
<1>3. CASE Twin(j) \/ \A t \in tokens : t.jwt # j
  <2>1. ASSUME NEW states  PROVE Entries(states)' = Entries(states)
    BY <1>1, <1>2, <1>3 DEF Entries
  <2>2. Gone' = Gone
    BY <1>1, <1>2, <1>3 DEF Gone
  <2>3. Ledger!Ask
    BY <1>1, <2>1, <2>2 DEF Ledger!Ask, Gone
  <2>4. QED  BY <2>3 DEF Ledger!Next
<1>4. ASSUME NEW t \in tokens, t.jwt = j, ~Twin(j)  PROVE Ledger!Next
  <2>1. ASSUME NEW states  PROVE Entries(states)' = Entries(states) \ {Entry(t)}
    <3>1. ASSUME NEW s \in tokens  PROVE s.jwt = j <=> Entry(s) = Entry(t)
      BY <1>4, OneRowPerToken DEF Entry
    <3>2. ASSUME NEW e \in Entries(states)'
          PROVE  e \in Entries(states) /\ e # Entry(t)
      <4>1. PICK s \in tokens' : s.state \in states /\ ~Twin(s.jwt)' /\ e = Entry(s)
        BY <3>2 DEF Entries, Entry
      <4>2. QED  BY <1>1, <1>2, <3>1, <4>1, EntryIn
    <3>3. ASSUME NEW e \in Entries(states), e # Entry(t)
          PROVE  e \in Entries(states)'
      <4>1. PICK s \in tokens : s.state \in states /\ ~Twin(s.jwt) /\ e = Entry(s)
        BY <3>3, EntryOf
      <4>2. s \in tokens' /\ ~Twin(s.jwt)'
        BY <1>1, <1>2, <3>1, <3>3, <4>1
      <4>3. QED  BY <4>1, <4>2 DEF Entries, Entry
    <3>4. QED  BY <3>2, <3>3
  <2>2. Gone' = Gone \cup {Entry(t).jwt}
    BY <1>1, <1>2, <1>4, RowKnown DEF Gone, Entry
  <2>3. Entry(t) \in Entries(Active) \cup Entries({"Revoked"})
    BY <1>4, RowKnown, EntryIn
  <2>4. Entry(t).expires < now \/ Ledger!Asked("delete", {Entry(t).jwt.user})
    BY <1>4 DEF Entry
  <2>5. {k \in Known : Twin(k)}' = {k \in Known : Twin(k)}
    BY <1>1
  <2>6. Ledger!Retire
    BY <2>1, <2>2, <2>3, <2>4, <2>5 DEF Ledger!Retire, Gone, Active
  <2>7. QED  BY <2>6 DEF Ledger!Next
<1>5. QED  BY <1>3, <1>4

(* A row that is in hand, of a token added once, is the row of the table.  *)
LEMMA InHandRow ==
    ASSUME IInv, NEW r \in Requests, NEW x \in req[r].rows, NEW t \in tokens,
           t.jwt = x.jwt, ~Twin(x.jwt)
    PROVE  t.expires = x.expires
<1>1. InHand(req[r]) /\ [id |-> t.id, jwt |-> t.jwt] \in stored
  BY DEF IInv, Table
<1>2. [id |-> x.id, jwt |-> x.jwt] \in stored
  BY <1>1 DEF InHand
<1>3. [id |-> x.id, jwt |-> x.jwt] = [id |-> t.id, jwt |-> t.jwt]
  BY <1>1, <1>2 DEF Twin
<1>4. x.id = t.id
  BY <1>3
<1>5. QED  BY <1>1, <1>4 DEF InHand

LEMMA SweepRemoveStep ==
    ASSUME IInv, NEW r \in Requests, SweepRemove(r)
    PROVE  Ledger!Next
<1>1. PICK x \in req[r].rows : tokens' = RemoveToken(tokens, x.jwt)
  BY DEF SweepRemove, Newest
<1>2. UNCHANGED <<now, stored>> /\ x.expires < now
  BY DEF SweepRemove, IInv, InHand
<1>3. ASSUME NEW t \in tokens, t.jwt = x.jwt, ~Twin(x.jwt)  PROVE t.expires < now
  BY <1>2, <1>3, InHandRow
<1>4. QED  BY <1>1, <1>2, <1>3, RemoveIsRetire

LEMMA DeleteRemoveStep ==
    ASSUME IInv, NEW r \in Requests, DeleteRemove(r)
    PROVE  Ledger!Next
<1>1. PICK x \in req[r].rows : tokens' = RemoveToken(tokens, x.jwt)
  BY DEF DeleteRemove, Newest
<1>2. UNCHANGED <<now, stored>> /\ x.jwt.user = req[r].caller /\ req[r].pc = "removing"
  BY DEF DeleteRemove, IInv, InHand
<1>3. Ledger!Asked("delete", {x.jwt.user})
  BY <1>2, AskedIs
<1>4. QED  BY <1>1, <1>2, <1>3, RemoveIsRetire

(***************************************************************************)
(* Revoking and adding                                                     *)
(***************************************************************************)
(* The update changes the state of the one row of the token: its entry     *)
(* moves, unless the row was revoked before.                               *)
LEMMA RevokeUpdateStep ==
    ASSUME IInv, NEW r \in Requests, RevokeUpdate(r)
    PROVE  Ledger!Next
<1> DEFINE j == req[r].jwt
           f(t) == IF t.jwt = j THEN [t EXCEPT !.state = "Revoked"] ELSE t
<1>1. UNCHANGED <<now, stored>> /\ (tokens' = tokens \/ tokens' = {f(t) : t \in tokens})
  BY DEF RevokeUpdate, UpdateToken
<1>2. (\A k : Twin(k)' <=> Twin(k)) /\ Known' = Known
  BY <1>1 DEF Twin, Known
<1>3. ASSUME UNCHANGED tokens  PROVE Ledger!Next
  BY <1>1, <1>3, QuietStep DEF Ledger!Next
<1>4. ASSUME tokens' = {f(t) : t \in tokens}  PROVE Ledger!Next
  <2>1. ASSUME NEW t \in tokens
        PROVE  /\ f(t).jwt = t.jwt /\ Entry(f(t)) = Entry(t)
               /\ t.jwt # j => f(t) = t
               /\ t.jwt = j => f(t).state = "Revoked"
               /\ t.state = "Revoked" => f(t) = t
    <3>1. t \in Row
      BY DEF IInv, TypeOK
    <3>2. QED  BY <3>1 DEF Row, Entry
  <2>. HIDE DEF f
  <2>2. Gone' = Gone
    BY <1>2, <1>4, <2>1 DEF Gone
  <2>3. ASSUME NEW e, NEW states
        PROVE  e \in Entries(states)' <=> \E t \in tokens : /\ f(t).state \in states
                                                          /\ ~Twin(t.jwt) /\ e = Entry(t)
    <3>1. e \in Entries(states)' <=> \E s \in tokens' : /\ s.state \in states
                                                       /\ ~Twin(s.jwt)' /\ e = Entry(s)
      BY DEF Entries, Entry
    <3>2. QED  BY <1>2, <1>4, <2>1, <3>1
  <2>4. CASE Twin(j) \/ \A t \in tokens : t.jwt = j => t.state = "Revoked"
    <3>1. ASSUME NEW t \in tokens, ~Twin(t.jwt)  PROVE f(t) = t
      BY <2>1, <2>4, <3>1
    <3>2. ASSUME NEW states, NEW e
          PROVE  e \in Entries(states)' <=> e \in Entries(states)
      BY <2>3, <3>1, EntryOf, EntryIn
    <3>3. ASSUME NEW states  PROVE Entries(states)' = Entries(states)
      <4>1. QED  BY <3>2
    <3>4. Ledger!Ask
      BY <1>1, <1>2, <2>2, <3>3 DEF Ledger!Ask, Gone
    <3>5. QED  BY <3>4 DEF Ledger!Next
  <2>5. ASSUME NEW t \in tokens, t.jwt = j, t.state # "Revoked", ~Twin(j)
        PROVE  Ledger!Next
    <3>1. \A s \in tokens : s.jwt = j <=> Entry(s) = Entry(t)
      BY <2>5, OneRowPerToken DEF Entry
    <3>2. \A s \in tokens : s.jwt = j => s = t
      BY <2>5, OneRowPerToken
    <3>3. Entries(Active)' = Entries(Active) \ {Entry(t)}
      <4>1. ASSUME NEW e
            PROVE  e \in Entries(Active)' <=> e \in Entries(Active) /\ e # Entry(t)
        BY <2>1, <2>3, <3>1, EntryOf, EntryIn DEF Active
      <4>2. QED  BY <4>1
    <3>4. Entries({"Revoked"})' = Entries({"Revoked"}) \cup {Entry(t)}
      <4>1. ASSUME NEW e
            PROVE  e \in Entries({"Revoked"})'
                     <=> e \in Entries({"Revoked"}) \/ e = Entry(t)
        BY <2>1, <2>3, <2>5, <3>1, <3>2, EntryOf, EntryIn
      <4>2. QED  BY <4>1
    <3>5. Entry(t) \in Entries(Active)
      BY <2>5, RowKnown, EntryIn
    <3>6. Ledger!Asked("revoke", {Entry(t).jwt.user} \cup Operators)
      <4>1. req[r].pc = "update" /\ req[r].caller \in {j.user} \cup Operators
        BY DEF IInv, Shape, RevokeState, RevokeUpdate
      <4>2. Entry(t).jwt = j
        BY <2>5 DEF Entry
      <4>3. QED  BY <4>1, <4>2, AskedIs
    <3>7. Ledger!Revoke
      BY <1>1, <1>2, <2>2, <3>3, <3>4, <3>5, <3>6 DEF Ledger!Revoke, Gone, Active
    <3>8. QED  BY <3>7 DEF Ledger!Next
  <2>6. QED  BY <2>4, <2>5
<1>5. QED  BY <1>1, <1>3, <1>4

(* A token that was never added is issued; one that was becomes doubled.   *)
LEMMA AddTokenStep ==
    ASSUME IInv, NEW r \in Requests, AddToken(r)
    PROVE  Ledger!Next
<1> DEFINE j == req[r].jwt
           entry == [id |-> nextId, jwt |-> j]
<1>1. PICK n : /\ tokens' = tokens \cup {n}
               /\ n.jwt = j /\ n.state \in Active
  <2> DEFINE m == [id |-> nextId, jwt |-> j, expires |-> req[r].expires,
                   state |-> IF req[r].op = "refresh" THEN "Refreshed" ELSE "Valid"]
  <2>1. tokens' = tokens \cup {m} /\ m.jwt = j /\ m.state \in Active
    BY DEF AddToken, Active
  <2>2. QED  BY <2>1
<1>2. UNCHANGED now /\ stored' = stored \cup {entry}
  BY DEF AddToken
<1>3. entry.jwt = j /\ entry.id = nextId /\ entry \notin stored
  <2>1. \A s \in stored : s.id < nextId /\ s.id \in Nat
    BY DEF IInv, Table, TypeOK
  <2>2. nextId \in Nat
    BY DEF IInv, TypeOK
  <2>3. entry.id = nextId /\ entry.jwt = j
    OBVIOUS
  <2>4. QED  BY <2>1, <2>2, <2>3
<1>. HIDE DEF entry
<1>4. Known' = Known \cup {j}
  BY <1>2, <1>3 DEF Known
<1>5. ASSUME NEW k  PROVE Twin(k)' <=> Twin(k) \/ (k = j /\ j \in Known)
  BY <1>2, <1>3 DEF Twin, Known
<1>6. j \notin Known => ~Twin(j)
  BY DEF Twin, Known
<1>7. ASSUME NEW e, NEW states
      PROVE  e \in Entries(states)' <=> \E t \in tokens \cup {n} :
                t.state \in states /\ ~Twin(t.jwt)' /\ e = Entry(t)
  BY <1>1 DEF Entries, Entry
<1>8. CASE j \notin Known
  <2>1. \A k : Twin(k)' <=> Twin(k)
    BY <1>5, <1>8
  <2>2. Entries(Active)' = Entries(Active) \cup {Entry(n)}
    <3>1. ASSUME NEW e
          PROVE  e \in Entries(Active)' <=> e \in Entries(Active) \/ e = Entry(n)
      BY <1>1, <1>6, <1>7, <1>8, <2>1, EntryOf, EntryIn
    <3>2. QED  BY <3>1
  <2>3. Entries({"Revoked"})' = Entries({"Revoked"})
    <3>1. ASSUME NEW e
          PROVE  e \in Entries({"Revoked"})' <=> e \in Entries({"Revoked"})
      BY <1>1, <1>7, <2>1, EntryOf, EntryIn DEF Active
    <3>2. QED  BY <3>1
  <2>4. Gone' = Gone
    <3>1. ASSUME NEW k  PROVE k \in Gone' <=> k \in Gone
      <4>1. (\A t \in tokens' : t.jwt # k) <=> k # j /\ \A t \in tokens : t.jwt # k
        BY <1>1
      <4>2. QED  BY <1>4, <1>8, <2>1, <4>1 DEF Gone
    <3>2. QED  BY <3>1
  <2>5. {k \in Known : Twin(k)}' = {k \in Known : Twin(k)}
    <3>1. ASSUME NEW k \in Known'  PROVE Twin(k)' <=> k \in Known /\ Twin(k)
      BY <1>4, <1>6, <1>8, <2>1, <3>1
    <3>2. QED  BY <1>4, <3>1
  <2>6. Entry(n).jwt = j /\ Entry(n) \notin Entries(Active)
    BY <1>1, <1>8, EntryOf, RowKnown DEF Entry
  <2>7. j \notin Ledger!Entered \cup Gone \cup {k \in Known : Twin(k)}
    <3>1. ASSUME NEW states, NEW e \in Entries(states)  PROVE e.jwt \in Known
      BY <3>1, EntryOf, RowKnown DEF Entry
    <3>2. QED  BY <1>8, <3>1 DEF Ledger!Entered, Gone
  <2>8. Ledger!Issue
    BY <1>2, <2>2, <2>3, <2>4, <2>5, <2>6, <2>7 DEF Ledger!Issue, Gone, Active
  <2>9. QED  BY <2>8 DEF Ledger!Next
<1>9. CASE Twin(j)
  <2>1. \A k : Twin(k)' <=> Twin(k)
    BY <1>5, <1>9
  <2>2. ASSUME NEW states  PROVE Entries(states)' = Entries(states)
    <3>1. ASSUME NEW e  PROVE e \in Entries(states)' <=> e \in Entries(states)
      BY <1>1, <1>7, <1>9, <2>1, EntryOf, EntryIn
    <3>2. QED  BY <3>1
  <2>3. Known' = Known /\ Gone' = Gone
    BY <1>1, <1>4, <1>6, <1>9, <2>1 DEF Gone
  <2>4. Ledger!Ask
    BY <1>2, <2>1, <2>2, <2>3 DEF Ledger!Ask, Gone
  <2>5. QED  BY <2>4 DEF Ledger!Next
<1>10. CASE j \in Known /\ ~Twin(j)
  <2>1. ASSUME NEW states
        PROVE  Entries(states)' = {e \in Entries(states) : e.jwt # j}
    <3>1. \A t : Entry(t).jwt = t.jwt
      BY DEF Entry
    <3>2. ASSUME NEW e
          PROVE  e \in Entries(states)' <=> e \in Entries(states) /\ e.jwt # j
      BY <1>1, <1>5, <1>7, <1>10, <3>1, EntryOf, EntryIn
    <3>3. QED  BY <3>2
  <2>2. Known' = Known /\ Gone' = Gone \ {j}
    BY <1>1, <1>4, <1>5, <1>10 DEF Gone
  <2>3. {k \in Known : Twin(k)}' = {k \in Known : Twin(k)} \cup {j}
    BY <1>5, <1>10, <2>2
  <2>4. j \in (Ledger!Entered \cup Gone) \ {k \in Known : Twin(k)}
    <3>1. CASE \A t \in tokens : t.jwt # j
      BY <1>10, <3>1 DEF Gone
    <3>2. ASSUME NEW t \in tokens, t.jwt = j
          PROVE  j \in Ledger!Entered
      <4>1. Entry(t) \in Entries(Active) \cup Entries({"Revoked"}) /\ Entry(t).jwt = j
        BY <1>10, <3>2, RowKnown, EntryIn DEF Entry
      <4>2. QED  BY <4>1 DEF Ledger!Entered, Active
    <3>3. QED  BY <1>10, <3>1, <3>2
  <2>5. Ledger!Double
    BY <1>2, <2>1, <2>2, <2>3, <2>4 DEF Ledger!Double, Gone, Active
  <2>6. QED  BY <2>5 DEF Ledger!Next
<1>11. QED  BY <1>8, <1>9, <1>10

(***************************************************************************)
(* The refinement                                                          *)
(***************************************************************************)
LEMMA LedgerNext == IInv /\ [Next]_vars => [Ledger!Next]_(Ledger!vars)
<1> SUFFICES ASSUME IInv, [Next]_vars  PROVE [Ledger!Next]_(Ledger!vars)
  OBVIOUS
<1>1. CASE Tick
  BY <1>1, TickStep DEF Ledger!Next
<1>2. ASSUME NEW r \in Requests,
             SweepRemove(r) \/ DeleteRemove(r) \/ AddToken(r) \/ RevokeUpdate(r)
      PROVE  Ledger!Next
  BY <1>2, SweepRemoveStep, DeleteRemoveStep, AddTokenStep, RevokeUpdateStep
<1>3. ASSUME NEW r \in Requests, Arrive(r) \/ Move(r),
             ~(SweepRemove(r) \/ DeleteRemove(r) \/ AddToken(r) \/ RevokeUpdate(r))
      PROVE  Ledger!Next
  <2>1. UNCHANGED <<now, tokens, stored>>
    BY <1>3 DEF Arrive, CreateBegin, RefreshBegin, RevokeBegin, DeleteOneBegin,
                DeleteAllBegin, ListBegin, RevokeListBegin, ValidateBegin, Begin, Move,
                AskCore, Lookup, Step, Sweep, CheckLimit, Stamp, Encode, RevokeRead, DeleteSelect, ListRead,
                RevokeListRead, ValidateRead, Reply, Abort
  <2>2. QED  BY <2>1, QuietStep DEF Ledger!Next
<1>4. CASE UNCHANGED vars
  <2>1. UNCHANGED <<now, tokens, stored, req>>
    BY <1>4 DEF vars
  <2>2. QED  BY <2>1 DEF Ledger!vars, Entries, Known, Twin
<1>5. QED  BY <1>1, <1>2, <1>3, <1>4 DEF Next, Move

(* Over a table read page by page, by requests that interleave between     *)
(* their transactions and may stop after any of them, a token is issued,   *)
(* revoked at most once and retired, when and for whom the ledger says.    *)
THEOREM LedgerImplemented == Spec => ImplementsLedger
<1>1. QED
  BY LedgerInit, LedgerNext, Inductive, PTL DEF Spec, ImplementsLedger, Ledger!Spec
=============================================================================
