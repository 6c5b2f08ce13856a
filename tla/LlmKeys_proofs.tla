--------------------------- MODULE LlmKeys_proofs ---------------------------
(***************************************************************************)
(* Theorems about LlmKeys, for every value of its constants: keys at work  *)
(* are on record, and only expired keys or the owner's own are deleted.    *)
(***************************************************************************)
EXTENDS LlmKeys, FiniteSetTheorems, TLAPS

(***************************************************************************)
(* The inductive invariant, in named parts.                                *)
(***************************************************************************)
(* LiteLLM gives every key an id of its own and never one it gave before;  *)
(* k is a key the proxy made at some time.                                 *)
Made(k) ==
    /\ k \in Key /\ k.id < nextKey
    /\ \A x \in keys : x.id = k.id => x = k

(* Which steps belong to which endpoint, and what the request names.       *)
Shape(q) ==
    /\ q.pc \in {"ensure", "count", "generate"} => q.op = "create" /\ q.caller \in Users
    /\ q.pc \in {"record", "owner", "erase", "unrecord", "purgeRow"} => Made(q.key)
    /\ q.pc = "reply" /\ q.op = "create" /\ q.answer = "ok" => Made(q.key)
    /\ \A k \in q.left : Made(k) /\ k.expires < now

(* What a request has established: a key to be handed out is on record     *)
(* unless it is gone, a row to be removed has lost its key, and a key to be*)
(* deleted is the caller's.                                                *)
Established(q) ==
    /\ q.pc = "reply" /\ q.op = "create" /\ q.answer = "ok" /\ q.key \in keys
         => q.key \in rows
    /\ q.pc \in {"unrecord", "purgeRow"} => q.key \notin keys
    /\ q.pc = "erase" => q.caller \in {q.key.user} \cup Operators

IInv ==
    /\ TypeOK
    /\ \A k \in keys \cup rows : Made(k)
    /\ \A i \in handed : i < nextKey
    /\ Recorded
    /\ \A r \in Requests : Shape(req[r]) /\ Established(req[r])

LEMMA IdleType == Idle \in Request
BY DEF Idle, Request

LEMMA InitInv == Init => IInv
<1> SUFFICES ASSUME Init  PROVE IInv
  OBVIOUS
<1>1. TypeOK
  BY IdleType DEF Init, TypeOK
<1>2. ASSUME NEW r \in Requests  PROVE Shape(req[r]) /\ Established(req[r])
  BY DEF Init, Idle, Shape, Established
<1>3. QED  BY <1>1, <1>2 DEF IInv, Init, Recorded

(***************************************************************************)
(* Steps                                                                   *)
(***************************************************************************)
(* A step that generates no key keeps the invariant if no key that is left *)
(* loses its row, and the request that moves meets its own part.           *)
LEMMA RequestStep ==
    ASSUME IInv, NEW r \in Requests, NEW q \in Request,
           req' = [req EXCEPT ![r] = q],
           UNCHANGED <<now, nextKey>>, keys' \subseteq keys,
           users' \subseteq Users, faults' \in Nat,
           \A k \in rows' : Made(k),
           \A k \in keys' : k \in rows => k \in rows',
           handed' \subseteq Nat, \A i \in handed' : i < nextKey, Recorded',
           Shape(q), Established(q)'
    PROVE  IInv'
<1>1. ASSUME NEW k, Made(k)  PROVE Made(k)'
  BY <1>1 DEF Made
<1>2. TypeOK'
  BY DEF IInv, TypeOK, Made
<1>3. (\A k \in keys \cup rows : Made(k))'
  BY <1>1 DEF IInv
<1>4. ASSUME NEW x \in Requests  PROVE Shape(req[x])' /\ Established(req[x])'
  <2>1. req'[x] = IF x = r THEN q ELSE req[x]
    BY DEF IInv, TypeOK
  <2>2. CASE x = r
    <3>1. Shape(q)'
      BY <1>1 DEF Shape
    <3>2. QED  BY <2>1, <2>2, <3>1 DEF Shape, Established, Made
  <2>3. CASE x # r
    <3>1. Shape(req[x]) /\ Established(req[x]) /\ req'[x] = req[x]
      BY <2>1, <2>3 DEF IInv
    <3>2. Shape(req[x])'
      BY <1>1, <3>1 DEF Shape
    <3>3. Established(req[x])'
      BY <3>1 DEF Established
    <3>4. QED  BY <3>2, <3>3
  <2>4. QED  BY <2>2, <2>3
<1>5. QED  BY <1>2, <1>3, <1>4 DEF IInv

(* The same for a step that touches neither rows nor the record of keys    *)
(* handed out.                                                             *)
LEMMA QuietStep ==
    ASSUME IInv, NEW r \in Requests, NEW q \in Request, Become(r, q),
           UNCHANGED <<now, nextKey, rows, handed>>, keys' \subseteq keys,
           users' \subseteq Users, NoFault \/ Fault,
           Shape(q), Established(q)'
    PROVE  IInv'
<1>1. req' = [req EXCEPT ![r] = q] /\ faults' \in Nat
  BY DEF Become, IInv, TypeOK, Fault, NoFault
<1>2. /\ \A k \in rows' : Made(k)
      /\ \A k \in keys' : k \in rows => k \in rows'
      /\ handed' \subseteq Nat /\ \A i \in handed' : i < nextKey
      /\ Recorded'
  BY DEF IInv, TypeOK, Recorded
<1>3. QED  BY <1>1, <1>2, RequestStep

(* An answer that confirms no creation is always allowed.                  *)
LEMMA AnswerStep ==
    ASSUME IInv, NEW r \in Requests, NEW answer \in {"ok", "error"}, Answer(r, answer),
           answer = "ok" => req[r].op # "create",
           UNCHANGED <<now, nextKey, handed>>, keys' \subseteq keys, users' \subseteq Users,
           \A k \in rows' : k \in rows, \A k \in keys' : k \in rows => k \in rows',
           NoFault \/ Fault
    PROVE  IInv'
<1>0. PICK q : q = [req[r] EXCEPT !.pc = "reply", !.answer = answer]
  OBVIOUS
<1>1. req[r] \in Request /\ Shape(req[r])
  BY DEF IInv, TypeOK
<1>2. q \in Request /\ q.pc = "reply" /\ q.answer = answer /\ q.left = req[r].left
        /\ q.op = req[r].op
  BY <1>0, <1>1 DEF Request
<1>3. req' = [req EXCEPT ![r] = q] /\ faults' \in Nat
  BY <1>0 DEF Answer, Become, IInv, TypeOK, Fault, NoFault
<1>4. Shape(q) /\ Established(q)'
  BY <1>1, <1>2 DEF Shape, Established
<1>5. /\ \A k \in rows' : Made(k)
      /\ handed' \subseteq Nat /\ \A i \in handed' : i < nextKey
      /\ Recorded'
  BY DEF IInv, TypeOK, Recorded
<1>6. QED  BY <1>2, <1>3, <1>4, <1>5, RequestStep

(* A request goes on to a step whose demands on its key are met.           *)
LEMMA GotoStep ==
    ASSUME IInv, NEW r \in Requests,
           NEW pc \in {"count", "generate", "erase", "unrecord", "purge"}, Goto(r, pc),
           pc \in {"count", "generate"} => req[r].op = "create" /\ req[r].caller \in Users,
           pc \in {"erase", "unrecord"} => Made(req[r].key),
           pc = "unrecord" => req[r].key \notin keys',
           pc = "erase" => req[r].caller \in {req[r].key.user} \cup Operators,
           UNCHANGED <<now, nextKey, handed>>, keys' \subseteq keys, users' \subseteq Users,
           \A k \in rows' : k \in rows, \A k \in keys' : k \in rows => k \in rows',
           NoFault \/ Fault
    PROVE  IInv'
<1>0. PICK q : q = [req[r] EXCEPT !.pc = pc]
  OBVIOUS
<1>1. req[r] \in Request /\ Shape(req[r])
  BY DEF IInv, TypeOK
<1>2. q \in Request /\ q.pc = pc /\ q.left = req[r].left /\ q.key = req[r].key
        /\ q.op = req[r].op /\ q.caller = req[r].caller
  BY <1>0, <1>1 DEF Request
<1>3. req' = [req EXCEPT ![r] = q] /\ faults' \in Nat
  BY <1>0 DEF Goto, Become, IInv, TypeOK, Fault, NoFault
<1>4. Shape(q) /\ Established(q)'
  BY <1>1, <1>2 DEF Shape, Established
<1>5. /\ \A k \in rows' : Made(k)
      /\ handed' \subseteq Nat /\ \A i \in handed' : i < nextKey
      /\ Recorded'
  BY DEF IInv, TypeOK, Recorded
<1>6. QED  BY <1>2, <1>3, <1>4, <1>5, RequestStep

LEMMA ArriveInv ==
    ASSUME IInv, NEW r \in Requests, Arrive(r)
    PROVE  IInv'
<1>0. TypeOK /\ users \subseteq Users
  BY DEF IInv, TypeOK
<1>1. ASSUME NEW q \in Request, Begin(r, q), Shape(q),
             q.pc \in {"ensure", "owner", "read"}
      PROVE  IInv'
  <2>1. Established(q)'
    BY <1>1 DEF Established
  <2>2. Become(r, q) /\ NoFault /\ UNCHANGED <<now, nextKey, rows, handed, keys, users>>
    BY <1>1 DEF Begin, proxy
  <2>3. QED  BY <1>0, <1>1, <2>1, <2>2, QuietStep
<1>2. ASSUME NEW u \in Users, NEW life \in Durations, CreateBegin(r, u, life)
      PROVE  IInv'
  <2> DEFINE q == [Idle EXCEPT !.op = "create", !.caller = u, !.life = life, !.pc = "ensure"]
  <2>1. q \in Request
    BY LlmAssumption DEF Idle, Request
  <2>2. q.pc = "ensure" /\ Shape(q)
    BY DEF Idle, Shape
  <2>3. Begin(r, q)
    BY <1>2 DEF CreateBegin
  <2>. HIDE DEF q
  <2>4. QED  BY <1>1, <2>1, <2>2, <2>3
<1>3. ASSUME NEW u \in Users, NEW k \in rows \cup keys, DeleteBegin(r, u, k)
      PROVE  IInv'
  <2> DEFINE q == [Idle EXCEPT !.op = "delete", !.caller = u, !.key = k, !.pc = "owner"]
  <2>1. Made(k) /\ k \in Key
    BY DEF IInv, Made
  <2>2. q \in Request
    BY <2>1 DEF Idle, Request
  <2>3. q.pc = "owner" /\ Shape(q)
    BY <2>1 DEF Idle, Shape
  <2>4. Begin(r, q)
    BY <1>3 DEF DeleteBegin
  <2>. HIDE DEF q
  <2>5. QED  BY <1>1, <2>2, <2>3, <2>4
<1>4. ASSUME NEW u \in Users, ListBegin(r, u)
      PROVE  IInv'
  <2>0. PICK S : S = KeysOf(u)
    OBVIOUS
  <2> DEFINE q == [Idle EXCEPT !.op = "list", !.caller = u, !.pc = "read", !.seen = S]
  <2>1. S \subseteq Key
    BY <1>0, <2>0 DEF KeysOf, TypeOK
  <2>2. Begin(r, q)
    BY <1>4, <2>0 DEF ListBegin
  <2>3. q \in Request
    BY <2>1 DEF Idle, Request
  <2>4. q.pc = "read" /\ Shape(q)
    BY DEF Idle, Shape
  <2>. HIDE DEF q
  <2>5. QED  BY <1>1, <2>2, <2>3, <2>4
<1>5. QED  BY <1>2, <1>3, <1>4 DEF Arrive

(***************************************************************************)
(* create_llm_key                                                          *)
(***************************************************************************)
LEMMA EnsureUserInv ==
    ASSUME IInv, NEW r \in Requests, EnsureUser(r)
    PROVE  IInv'
<1>1. req[r].op = "create" /\ req[r].caller \in Users
  BY DEF IInv, Shape, EnsureUser, CreateUser, At
<1>2. users' \subseteq Users /\ Goto(r, "count") /\ (NoFault \/ Fault)
        /\ UNCHANGED <<now, nextKey, handed>> /\ keys' = keys /\ rows' = rows
  BY <1>1 DEF EnsureUser, CreateUser, IInv, TypeOK
<1>3. QED  BY <1>1, <1>2, GotoStep

LEMMA CountKeysInv ==
    ASSUME IInv, NEW r \in Requests, CountKeys(r)
    PROVE  IInv'
<1>1. req[r].op = "create" /\ req[r].caller \in Users
  BY DEF IInv, Shape, CountKeys, Known, At
<1>2. /\ \/ Answer(r, "error") \/ Goto(r, "generate")
         \/ Become(r, [req[r] EXCEPT !.pc = "generate", !.undated = TRUE])
      /\ NoFault \/ Fault
      /\ UNCHANGED <<now, nextKey, handed>> /\ users' = users /\ keys' = keys /\ rows' = rows
  BY DEF CountKeys, Known, ListFails, proxy
<1>3. users \subseteq Users
  BY DEF IInv, TypeOK
<1>4. CASE Answer(r, "error")
  BY <1>2, <1>3, <1>4, AnswerStep
<1>5. CASE Goto(r, "generate")
  BY <1>1, <1>2, <1>3, <1>5, GotoStep
<1>6. CASE Become(r, [req[r] EXCEPT !.pc = "generate", !.undated = TRUE])
  <2>1. PICK q : q = [req[r] EXCEPT !.pc = "generate", !.undated = TRUE]
    OBVIOUS
  <2>2. req[r] \in Request /\ Shape(req[r])
    BY DEF IInv, TypeOK
  <2>3. /\ q \in Request /\ q.pc = "generate" /\ q.left = req[r].left
        /\ q.op = req[r].op /\ q.caller = req[r].caller
    BY <2>1, <2>2 DEF Request
  <2>4. Shape(q) /\ Established(q)'
    BY <1>1, <2>2, <2>3 DEF Shape, Established
  <2>5. QED  BY <1>2, <1>3, <1>6, <2>1, <2>3, <2>4, QuietStep
<1>7. QED  BY <1>2, <1>4, <1>5, <1>6

(* LiteLLM makes a key with an id nothing knows of yet.                    *)
LEMMA NewKeyStep ==
    ASSUME IInv, NEW r \in Requests, NEW k \in Key, k.id = nextKey,
           NEW q \in Request, req' = [req EXCEPT ![r] = q],
           q.left = req[r].left,
           \/ q.pc = "record" /\ q.key = k
           \/ q.pc = "reply" /\ q.answer = "error",
           keys' = keys \cup {k}, nextKey' = nextKey + 1,
           UNCHANGED <<now, users, rows, handed>>, faults' \in Nat
    PROVE  IInv'
<1>0. TypeOK /\ nextKey \in Nat
  BY DEF IInv, TypeOK
<1>1. ASSUME NEW x, Made(x)  PROVE Made(x)' /\ x # k
  BY <1>0, <1>1 DEF Made, Key
<1>2. Made(k)'
  <2>1. \A x \in keys : x.id # k.id
    BY <1>0 DEF IInv, Made, Key
  <2>2. QED  BY <1>0, <2>1 DEF Made, Key
<1>3. TypeOK'
  BY <1>0 DEF TypeOK
<1>4. (\A x \in keys \cup rows : Made(x))'
  BY <1>1, <1>2 DEF IInv
<1>5. \A i \in handed' : i < nextKey'
  BY <1>0 DEF IInv, TypeOK
<1>6. Recorded'
  BY <1>0 DEF IInv, Recorded
<1>7. ASSUME NEW x \in Requests  PROVE Shape(req[x])' /\ Established(req[x])'
  <2>0. Shape(req[x]) /\ Established(req[x]) /\ Shape(req[r])
    BY DEF IInv
  <2>1. CASE x = r
    <3>1. req'[x] = q
      BY <1>0, <2>1 DEF TypeOK
    <3>2. Shape(q)'
      <4>1. \A y \in q.left : Made(y)' /\ y.expires < now'
        BY <1>1, <2>0 DEF Shape
      <4>2. q.pc = "record" => Made(q.key)'
        BY <1>2
      <4>3. QED  BY <4>1, <4>2 DEF Shape
    <3>3. Established(q)'
      BY DEF Established
    <3>4. QED  BY <3>1, <3>2, <3>3 DEF Shape, Established, Made
  <2>2. CASE x # r
    <3>1. req'[x] = req[x]
      BY <1>0, <2>2 DEF TypeOK
    <3>2. Shape(req[x])'
      BY <1>1, <2>0, <3>1 DEF Shape
    <3>3. req[x].pc \in {"unrecord", "purgeRow"} => Made(req[x].key)
      BY <2>0 DEF Shape
    <3>4. req[x].pc = "reply" /\ req[x].op = "create" /\ req[x].answer = "ok" => Made(req[x].key)
      BY <2>0 DEF Shape
    <3>5. Established(req[x])'
      BY <1>1, <2>0, <3>1, <3>3, <3>4 DEF Established
    <3>6. QED  BY <3>2, <3>5
  <2>3. QED  BY <2>1, <2>2
<1>8. QED  BY <1>3, <1>4, <1>5, <1>6, <1>7 DEF IInv

LEMMA GenerateInv ==
    ASSUME IInv, NEW r \in Requests, Generate(r)
    PROVE  IInv'
<1>0. TypeOK /\ req[r] \in Request /\ req[r].caller \in Users
  BY DEF IInv, TypeOK, Shape, Generate, NewKey, At
<1>1. CASE /\ Answer(r, "error") /\ NoFault
           /\ UNCHANGED <<keys, nextKey>>
  <2>1. UNCHANGED <<now, nextKey, handed>> /\ users' = users /\ keys' = keys /\ rows' = rows
    BY <1>1 DEF Generate, NewKey
  <2>2. users \subseteq Users
    BY <1>0 DEF TypeOK
  <2>3. QED  BY <1>1, <2>1, <2>2, AnswerStep
<1>2. CASE \E k \in {[id |-> nextKey, user |-> req[r].caller,
                      expires |-> now + Duration(req[r].life)]} :
             /\ keys' = keys \cup {k}
             /\ nextKey' = nextKey + 1
             /\ \/ NoFault /\ Become(r, [req[r] EXCEPT !.pc = "record", !.key = k])
                \/ (NoFault \/ Fault) /\ Answer(r, "error")
  <2>1. PICK k \in {[id |-> nextKey, user |-> req[r].caller,
                     expires |-> now + Duration(req[r].life)]} :
             /\ keys' = keys \cup {k}
             /\ nextKey' = nextKey + 1
             /\ \/ NoFault /\ Become(r, [req[r] EXCEPT !.pc = "record", !.key = k])
                \/ (NoFault \/ Fault) /\ Answer(r, "error")
    BY <1>2
  <2>2. now + Duration(req[r].life) \in Nat
    BY <1>0, LlmAssumption DEF TypeOK, Request, Duration
  <2>3. k \in Key /\ k.id = nextKey
    BY <1>0, <2>1, <2>2 DEF Key, TypeOK
  <2>4. PICK q \in {[req[r] EXCEPT !.pc = "record", !.key = k],
                    [req[r] EXCEPT !.pc = "reply", !.answer = "error"]} :
             req' = [req EXCEPT ![r] = q]
    BY <2>1 DEF Become, Answer
  <2>5. /\ q \in Request /\ q.left = req[r].left
        /\ \/ q.pc = "record" /\ q.key = k
           \/ q.pc = "reply" /\ q.answer = "error"
    BY <1>0, <2>3, <2>4 DEF Request
  <2>6. faults' \in Nat
    BY <1>0, <2>1 DEF TypeOK, NoFault, Fault
  <2>7. UNCHANGED <<now, users, rows, handed>>
    BY DEF Generate, NewKey
  <2>8. QED  BY <2>1, <2>3, <2>4, <2>5, <2>6, <2>7, NewKeyStep
<1>3. QED  BY <1>1, <1>2 DEF Generate, NewKey

(* The row is there before the client hears of its key.                    *)
LEMMA RecordInv ==
    ASSUME IInv, NEW r \in Requests, Record(r)
    PROVE  IInv'
<1>0. TypeOK /\ req[r] \in Request /\ Shape(req[r]) /\ Made(req[r].key)
  BY DEF IInv, TypeOK, Shape, Record, At
<1>1. PICK q : q = [req[r] EXCEPT !.pc = "reply", !.answer = "ok"]
  OBVIOUS
<1>2. /\ q \in Request /\ q.pc = "reply" /\ q.key = req[r].key /\ q.left = req[r].left
      /\ req' = [req EXCEPT ![r] = q]
  BY <1>0, <1>1 DEF Request, Record, Answer, Become
<1>3. /\ rows' = rows \cup {q.key} /\ keys' = keys /\ users' = users /\ faults' = faults
      /\ UNCHANGED <<now, nextKey, handed>>
  BY <1>2 DEF Record, proxy, NoFault
<1>4. Shape(q) /\ Established(q)'
  BY <1>0, <1>2, <1>3 DEF Shape, Established
<1>5. /\ \A k \in rows' : Made(k)
      /\ \A k \in keys' : k \in rows => k \in rows'
      /\ handed' \subseteq Nat /\ \A i \in handed' : i < nextKey
      /\ Recorded' /\ users' \subseteq Users /\ faults' \in Nat
  BY <1>0, <1>2, <1>3 DEF IInv, TypeOK, Recorded
<1>6. QED  BY <1>2, <1>3, <1>4, <1>5, RequestStep

(***************************************************************************)
(* delete_llm_key                                                          *)
(***************************************************************************)
LEMMA CheckOwnerInv ==
    ASSUME IInv, NEW r \in Requests, CheckOwner(r)
    PROVE  IInv'
<1>1. Made(req[r].key) /\ users \subseteq Users
  BY DEF IInv, TypeOK, Shape, CheckOwner, KeyInfo, At
<1>2. /\ NoFault /\ UNCHANGED <<now, nextKey, handed>>
      /\ users' = users /\ keys' = keys /\ rows' = rows
  BY DEF CheckOwner, KeyInfo, proxy
<1>3. CASE Answer(r, "error")
  BY <1>1, <1>2, <1>3, AnswerStep
<1>4. CASE /\ Goto(r, "erase")
           /\ req[r].key.user = req[r].caller \/ IsFacilityOperator(req[r].caller)
  <2>1. req[r].caller \in {req[r].key.user} \cup Operators
    BY <1>4 DEF IsFacilityOperator, Roles
  <2>2. QED  BY <1>1, <1>2, <1>4, <2>1, GotoStep
<1>5. QED  BY <1>3, <1>4 DEF CheckOwner, KeyInfo

LEMMA EraseInv ==
    ASSUME IInv, NEW r \in Requests, Erase(r)
    PROVE  IInv'
<1>1. Made(req[r].key) /\ users \subseteq Users /\ req[r].op = "delete"
  BY DEF IInv, TypeOK, Shape, Erase, At
<1>2. UNCHANGED <<now, nextKey, handed>> /\ users' = users /\ rows' = rows
  BY DEF Erase
<1>3. CASE NoFault /\ keys' = keys \ {req[r].key} /\ Goto(r, "unrecord")
  BY <1>1, <1>2, <1>3, GotoStep
<1>4. CASE Fault /\ keys' \in {keys, keys \ {req[r].key}} /\ Answer(r, "error")
  BY <1>1, <1>2, <1>4, AnswerStep
<1>5. QED  BY <1>3, <1>4 DEF Erase

(* The row that is removed is of a key that is gone: no other key has its  *)
(* id, and no key comes back.                                              *)
LEMMA RemoveRowKeeps ==
    ASSUME IInv, NEW r \in Requests, RemoveRow(r), keys' = keys,
           req[r].pc \in {"unrecord", "purgeRow"}
    PROVE  /\ \A k \in rows' : k \in rows
           /\ \A k \in keys' : k \in rows => k \in rows'
           /\ NoFault \/ Fault
<1>1. Made(req[r].key) /\ req[r].key \notin keys
  BY DEF IInv, Shape, Established
<1>2. \A k \in keys : k.id # req[r].key.id
  BY <1>1 DEF Made
<1>3. QED  BY <1>2 DEF RemoveRow

LEMMA UnrecordInv ==
    ASSUME IInv, NEW r \in Requests, Unrecord(r)
    PROVE  IInv'
<1>1. users \subseteq Users /\ req[r].op = "delete" /\ req[r].pc = "unrecord"
  BY DEF IInv, TypeOK, Unrecord, At
<1>2. /\ UNCHANGED <<now, nextKey, handed>> /\ users' = users /\ keys' = keys
      /\ RemoveRow(r) /\ Answer(r, "ok")
  BY DEF Unrecord, proxy
<1>3. /\ \A k \in rows' : k \in rows
      /\ \A k \in keys' : k \in rows => k \in rows'
      /\ NoFault \/ Fault
  BY <1>1, <1>2, RemoveRowKeeps
<1>4. QED  BY <1>1, <1>2, <1>3, AnswerStep

(***************************************************************************)
(* get_llm_keys                                                            *)
(***************************************************************************)
LEMMA ReadKeysInv ==
    ASSUME IInv, NEW r \in Requests, ReadKeys(r)
    PROVE  IInv'
<1>0. TypeOK /\ req[r] \in Request /\ Shape(req[r])
  BY DEF IInv, TypeOK
<1>1. PICK mine, active : mine = KeysOf(req[r].caller) /\ active = Active(mine)
  OBVIOUS
<1>2. PICK q \in {[req[r] EXCEPT !.pc = "purge", !.kept = active, !.left = mine \ active],
                  [req[r] EXCEPT !.pc = "purge", !.blind = TRUE]} : Become(r, q)
  BY <1>1 DEF ReadKeys, Known
<1>3. mine \subseteq keys /\ mine \subseteq Key /\ active \subseteq Key
  BY <1>0, <1>1 DEF KeysOf, Active, TypeOK
<1>4. \A k \in mine \ active : Made(k) /\ k.expires < now
  BY <1>0, <1>1, <1>3 DEF IInv, Active, TypeOK, Key
<1>5. q \in Request /\ q.pc = "purge" /\ q.left \in {req[r].left, mine \ active}
  <2>1. CASE q = [req[r] EXCEPT !.pc = "purge", !.kept = active, !.left = mine \ active]
    BY <1>0, <1>3, <2>1 DEF Request
  <2>2. CASE q = [req[r] EXCEPT !.pc = "purge", !.blind = TRUE]
    BY <1>0, <2>2 DEF Request
  <2>3. QED  BY <1>2, <2>1, <2>2
<1>6. Shape(q) /\ Established(q)'
  BY <1>0, <1>4, <1>5 DEF Shape, Established
<1>7. /\ UNCHANGED <<now, nextKey, rows, handed>> /\ keys' = keys /\ users' = users
      /\ NoFault \/ Fault
  BY DEF ReadKeys, Known, ListFails, proxy
<1>8. QED  BY <1>0, <1>2, <1>5, <1>6, <1>7, QuietStep DEF TypeOK

LEMMA PurgeInv ==
    ASSUME IInv, NEW r \in Requests, Purge(r)
    PROVE  IInv'
<1>0. /\ users \subseteq Users /\ req[r] \in Request /\ Shape(req[r])
      /\ req[r].op = "list" /\ req[r].pc = "purge"
  BY DEF IInv, TypeOK, Purge, At
<1>1. UNCHANGED <<now, nextKey, handed>> /\ users' = users /\ rows' = rows
  BY DEF Purge
<1>2. CASE req[r].left = {} /\ Answer(r, "ok") /\ NoFault /\ UNCHANGED keys
  BY <1>0, <1>1, <1>2, AnswerStep
<1>3. ASSUME NEW k \in req[r].left, keys' = keys \ {k}, NoFault,
             Become(r, [req[r] EXCEPT !.left = @ \ {k}, !.pc = "purgeRow", !.key = k])
      PROVE  IInv'
  <2>1. PICK q : q = [req[r] EXCEPT !.left = @ \ {k}, !.pc = "purgeRow", !.key = k]
    OBVIOUS
  <2>2. Made(k) /\ k \in Key
    BY <1>0, <1>3 DEF Shape, Made
  <2>3. q \in Request /\ q.pc = "purgeRow" /\ q.key = k /\ q.left \subseteq req[r].left
    BY <1>0, <2>1, <2>2 DEF Request
  <2>4. Shape(q) /\ Established(q)'
    BY <1>0, <1>3, <2>2, <2>3 DEF Shape, Established
  <2>5. Become(r, q) /\ keys' \subseteq keys
    BY <1>3, <2>1
  <2>6. QED  BY <1>0, <1>1, <1>3, <2>3, <2>4, <2>5, QuietStep
<1>4. ASSUME NEW k \in req[r].left, keys' \in {keys, keys \ {k}}, Fault,
             Become(r, [req[r] EXCEPT !.left = @ \ {k}, !.kept = @ \cup {k}])
      PROVE  IInv'
  <2>1. PICK q : q = [req[r] EXCEPT !.left = @ \ {k}, !.kept = @ \cup {k}]
    OBVIOUS
  <2>2. k \in Key
    BY <1>0, <1>4 DEF Shape, Made
  <2>3. q \in Request /\ q.pc = "purge" /\ q.left \subseteq req[r].left
    BY <1>0, <2>1, <2>2 DEF Request
  <2>4. Shape(q) /\ Established(q)'
    BY <1>0, <2>3 DEF Shape, Established
  <2>5. Become(r, q) /\ keys' \subseteq keys
    BY <1>4, <2>1
  <2>6. QED  BY <1>0, <1>1, <1>4, <2>3, <2>4, <2>5, QuietStep
<1>5. \/ req[r].left = {} /\ Answer(r, "ok") /\ NoFault /\ UNCHANGED keys
      \/ \E k \in req[r].left :
            /\ keys' = keys \ {k} /\ NoFault
            /\ Become(r, [req[r] EXCEPT !.left = @ \ {k}, !.pc = "purgeRow", !.key = k])
      \/ \E k \in req[r].left :
            /\ keys' \in {keys, keys \ {k}} /\ Fault
            /\ Become(r, [req[r] EXCEPT !.left = @ \ {k}, !.kept = @ \cup {k}])
  <2>1. ASSUME NEW k
        PROVE  /\ [[req[r] EXCEPT !.left = @ \ {k}] EXCEPT !.pc = "purgeRow", !.key = k]
                    = [req[r] EXCEPT !.left = @ \ {k}, !.pc = "purgeRow", !.key = k]
               /\ [[req[r] EXCEPT !.left = @ \ {k}] EXCEPT !.kept = @ \cup {k}]
                    = [req[r] EXCEPT !.left = @ \ {k}, !.kept = @ \cup {k}]
    BY <1>0 DEF Request
  <2>2. QED  BY <2>1 DEF Purge
<1>6. QED  BY <1>2, <1>3, <1>4, <1>5

LEMMA PurgeRowInv ==
    ASSUME IInv, NEW r \in Requests, PurgeRow(r)
    PROVE  IInv'
<1>1. users \subseteq Users /\ req[r].pc = "purgeRow"
  BY DEF IInv, TypeOK, PurgeRow, At
<1>2. /\ UNCHANGED <<now, nextKey, handed>> /\ users' = users /\ keys' = keys
      /\ RemoveRow(r) /\ Goto(r, "purge")
  BY DEF PurgeRow, proxy
<1>3. /\ \A k \in rows' : k \in rows
      /\ \A k \in keys' : k \in rows => k \in rows'
      /\ NoFault \/ Fault
  BY <1>1, <1>2, RemoveRowKeeps
<1>4. QED  BY <1>1, <1>2, <1>3, GotoStep

(***************************************************************************)
(* What every request may do, and the clock.                               *)
(***************************************************************************)
LEMMA AbortInv ==
    ASSUME IInv, NEW r \in Requests, Abort(r)
    PROVE  IInv'
<1>1. /\ Fault /\ Answer(r, "error")
      /\ UNCHANGED <<now, nextKey, handed>> /\ users' = users /\ keys' = keys /\ rows' = rows
  BY DEF Abort, proxy
<1>2. users \subseteq Users
  BY DEF IInv, TypeOK
<1>3. QED  BY <1>1, <1>2, AnswerStep

(* The client hears of a key that is on record unless it is gone.          *)
LEMMA ReplyInv ==
    ASSUME IInv, NEW r \in Requests, Reply(r)
    PROVE  IInv'
<1> DEFINE created == req[r].op = "create" /\ req[r].answer = "ok"
<1>0. TypeOK /\ req[r] \in Request /\ req[r].pc = "reply"
  BY DEF IInv, TypeOK, Reply
<1>1. /\ req' = [req EXCEPT ![r] = Idle] /\ faults' = faults
      /\ UNCHANGED <<now, nextKey>> /\ keys' = keys /\ users' = users /\ rows' = rows
      /\ handed' = IF created THEN handed \cup {req[r].key.id} ELSE handed
  BY DEF Reply, Become, NoFault, proxy
<1>2. ASSUME created
      PROVE  Made(req[r].key) /\ (req[r].key \in keys => req[r].key \in rows)
  BY <1>0, <1>2 DEF IInv, Shape, Established
<1>3. Shape(Idle) /\ Established(Idle)'
  BY DEF Idle, Shape, Established
<1>4. handed' \subseteq Nat /\ \A i \in handed' : i < nextKey
  BY <1>0, <1>1, <1>2 DEF IInv, TypeOK, Made, Key
<1>5. Recorded'
  <2>1. ASSUME NEW k \in keys, k.id \in handed'  PROVE k \in rows
    <3>1. CASE k.id \in handed
      BY <3>1 DEF IInv, Recorded
    <3>2. CASE created /\ k.id = req[r].key.id
      <4>1. k = req[r].key
        BY <1>2, <3>2 DEF Made
      <4>2. QED  BY <1>2, <3>2, <4>1
    <3>3. QED  BY <1>1, <2>1, <3>1, <3>2
  <2>2. QED  BY <1>1, <2>1 DEF Recorded
<1>6. /\ \A k \in rows' : Made(k)
      /\ \A k \in keys' : k \in rows => k \in rows'
      /\ users' \subseteq Users /\ faults' \in Nat /\ keys' \subseteq keys
  BY <1>0, <1>1 DEF IInv, TypeOK
<1>7. QED  BY <1>1, <1>3, <1>4, <1>5, <1>6, IdleType, RequestStep

(* Time makes no expired key active again.                                 *)
LEMMA TickInv ==
    ASSUME IInv, Tick
    PROVE  IInv'
<1>1. now \in Nat /\ now' = now + 1
  BY DEF IInv, TypeOK, Tick
<1>2. UNCHANGED <<users, keys, nextKey, rows, req, handed, faults>>
  BY DEF Tick, proxy
<1>3. TypeOK' /\ Recorded' /\ \A x : Made(x) => Made(x)'
  BY <1>1, <1>2 DEF IInv, TypeOK, Recorded, Made
<1>4. ASSUME NEW x \in Requests  PROVE Shape(req[x])' /\ Established(req[x])'
  <2>1. Shape(req[x]) /\ Established(req[x])
    BY DEF IInv
  <2>2. \A k \in req[x].left : Made(k)' /\ k.expires < now'
    BY <1>1, <1>3, <2>1 DEF Shape, Made, Key
  <2>3. QED  BY <1>2, <1>3, <2>1, <2>2 DEF Shape, Established
<1>5. QED  BY <1>2, <1>3, <1>4 DEF IInv

LEMMA NextInv == IInv /\ [Next]_vars => IInv'
<1> SUFFICES ASSUME IInv, [Next]_vars  PROVE IInv'
  OBVIOUS
<1>1. CASE Tick
  BY <1>1, TickInv
<1>2. ASSUME NEW r \in Requests, Arrive(r)  PROVE IInv'
  BY <1>2, ArriveInv
<1>3. ASSUME NEW r \in Requests, Step(r)  PROVE IInv'
  BY <1>3, EnsureUserInv, CountKeysInv, GenerateInv, RecordInv, CheckOwnerInv, EraseInv,
     UnrecordInv, ReadKeysInv, PurgeInv, PurgeRowInv, ReplyInv DEF Step
<1>4. ASSUME NEW r \in Requests, Abort(r)  PROVE IInv'
  BY <1>4, AbortInv
<1>5. CASE UNCHANGED vars
  BY <1>5 DEF vars, IInv, TypeOK, Recorded, Made, Shape, Established
<1>6. QED  BY <1>1, <1>2, <1>3, <1>4, <1>5 DEF Next

(* The invariant holds in every reachable state: it is what the ends of    *)
(* the LLM key endpoints rely on between two of their calls.               *)
THEOREM Inductive == Spec => []IInv
BY InitInv, NextInv, PTL DEF Spec

(* Every variable has its type in every reachable state of the LLM key     *)
(* endpoints: above all, nothing but generated keys is ever on record.     *)
THEOREM TypeCorrect == Spec => []TypeOK
<1>1. IInv => TypeOK
  BY DEF IInv
<1>2. QED  BY <1>1, Inductive, PTL

(* A key a client got and that still works is on record, for any number of *)
(* worker threads, keys and failing calls.                                 *)
THEOREM KeysRecorded == Spec => []Recorded
<1>1. IInv => Recorded
  BY DEF IInv
<1>2. QED  BY <1>1, Inductive, PTL

(* A key leaves LiteLLM only once it expired or while its owner, or an     *)
(* operator, deletes it: what delete checks and what list selected still   *)
(* holds when the key is deleted, since owners and expiries never change.  *)
THEOREM ErasureSound == Spec => ErasureJustified
<1> DEFINE Justified(k) ==
      \/ k.expires < now
      \/ \E r \in Requests : /\ req[r].pc = "erase" /\ req[r].key = k
                             /\ req[r].caller \in {k.user} \cup Operators
<1>1. ASSUME IInv, NEW r \in Requests, Arrive(r) \/ Step(r) \/ Abort(r),
             NEW k \in keys, k \notin keys'
      PROVE  Justified(k)
  <2>1. CASE Erase(r)
    <3>1. req[r].pc = "erase" /\ req[r].key = k
      BY <1>1, <2>1 DEF Erase, At
    <3>2. req[r].caller \in {k.user} \cup Operators
      BY <1>1, <3>1 DEF IInv, Established
    <3>3. QED  BY <3>1, <3>2
  <2>2. CASE Purge(r)
    <3>1. k \in req[r].left
      BY <1>1, <2>2 DEF Purge
    <3>2. QED  BY <1>1, <3>1 DEF IInv, Shape
  <2>3. CASE Arrive(r)
    BY <1>1, <2>3 DEF Arrive, CreateBegin, DeleteBegin, ListBegin, Begin, proxy
  <2>4. CASE Generate(r)
    BY <1>1, <2>4 DEF Generate, NewKey
  <2>5. CASE EnsureUser(r) \/ CountKeys(r) \/ Record(r) \/ CheckOwner(r) \/ Unrecord(r)
    BY <1>1, <2>5 DEF EnsureUser, CreateUser, CountKeys, Known, Record, CheckOwner,
       KeyInfo, Unrecord, proxy
  <2>6. CASE ReadKeys(r) \/ PurgeRow(r) \/ Reply(r) \/ Abort(r)
    BY <1>1, <2>6 DEF ReadKeys, Known, PurgeRow, Reply, Abort, proxy
  <2>7. QED  BY <1>1, <2>1, <2>2, <2>3, <2>4, <2>5, <2>6 DEF Step
<1>2. IInv /\ [Next]_vars
        => [\A k \in keys \ keys' : Justified(k)]_vars
  BY <1>1 DEF Next, Tick, proxy, vars
<1>3. QED  BY <1>2, Inductive, PTL DEF Spec, ErasureJustified

(***************************************************************************)
(* The list of keys is complete: an invariant on top of IInv.              *)
(***************************************************************************)
(* The keys the caller had when it asked are its own; those it still has   *)
(* are kept or left to be looked at, and in the end kept.                  *)
ListState(q) ==
    q.op = "list" =>
        /\ \A k \in q.seen : k \in Key /\ k.id < nextKey /\ k.user = q.caller
        /\ ~q.blind /\ q.pc \in {"purge", "purgeRow"}
             => q.seen \cap keys \subseteq q.kept \cup q.left
        /\ ~q.blind /\ q.pc = "reply" /\ q.answer = "ok" => q.seen \cap keys \subseteq q.kept

Lists == \A r \in Requests : ListState(req[r])

(* No key comes back: what is new has an id never given before.            *)
LEMMA KeysAppear ==
    ASSUME IInv, [Next]_vars
    PROVE  /\ nextKey' \in Nat /\ nextKey <= nextKey'
           /\ \A k \in keys' : k \in keys \/ k.id = nextKey
<1>0. nextKey \in Nat
  BY DEF IInv, TypeOK
<1>1. ASSUME NEW r \in Requests, Arrive(r)  PROVE UNCHANGED <<keys, nextKey>>
  BY <1>1 DEF Arrive, CreateBegin, DeleteBegin, ListBegin, Begin, proxy
<1>2. ASSUME NEW r \in Requests, Generate(r)
      PROVE  /\ nextKey' \in {nextKey, nextKey + 1}
             /\ \A k \in keys' : k \in keys \/ k.id = nextKey
  BY <1>2 DEF Generate, NewKey
<1>3. ASSUME NEW r \in Requests, Erase(r) \/ Purge(r)
      PROVE  nextKey' = nextKey /\ keys' \subseteq keys
  BY <1>3 DEF Erase, Purge
<1>4. ASSUME NEW r \in Requests,
             \/ EnsureUser(r) \/ CountKeys(r) \/ Record(r) \/ CheckOwner(r) \/ Unrecord(r)
             \/ ReadKeys(r) \/ PurgeRow(r) \/ Reply(r) \/ Abort(r)
      PROVE  UNCHANGED <<keys, nextKey>>
  BY <1>4 DEF EnsureUser, CreateUser, CountKeys, Known, Record, CheckOwner, KeyInfo,
     Unrecord, ReadKeys, PurgeRow,
              Reply, Abort, proxy
<1>5. CASE UNCHANGED <<keys, nextKey>>
  BY <1>0, <1>5
<1>6. QED  BY <1>0, <1>1, <1>2, <1>3, <1>4, <1>5 DEF Next, Step, Tick, vars, proxy

(* A request that does not move keeps its part.                            *)
LEMMA ListStays ==
    ASSUME IInv, [Next]_vars, NEW q, ListState(q)
    PROVE  ListState(q)'
<1>1. ASSUME NEW k \in q.seen, q.op = "list"
      PROVE  k \in Key /\ k.id < nextKey' /\ k.user = q.caller /\ (k \in keys' => k \in keys)
  <2>1. k \in Key /\ k.id \in Nat /\ k.id < nextKey /\ k.user = q.caller
    BY <1>1 DEF ListState, Key
  <2>2. nextKey \in Nat /\ nextKey' \in Nat /\ nextKey <= nextKey'
    BY KeysAppear DEF IInv, TypeOK
  <2>3. k \in keys' => k \in keys \/ k.id = nextKey
    BY KeysAppear
  <2>4. QED  BY <2>1, <2>2, <2>3
<1>2. QED  BY <1>1 DEF ListState

(* How a list request moves.                                               *)
LEMMA ListMoves ==
    ASSUME IInv, NEW r \in Requests, Arrive(r) \/ Step(r) \/ Abort(r), req'[r].op = "list"
    PROVE  \/ \E u \in Users : ListBegin(r, u)
           \/ ReadKeys(r) \/ Purge(r) \/ PurgeRow(r)
           \/ /\ req[r].op = "list" /\ req'[r].seen = req[r].seen
              /\ req'[r].caller = req[r].caller
              /\ req'[r].pc = "reply" /\ req'[r].answer = "error"
<1>0. req \in [Requests -> Request] /\ req[r] \in Request /\ Shape(req[r])
  BY DEF IInv, TypeOK
<1>1. CASE Arrive(r)
  BY <1>0, <1>1 DEF Arrive, CreateBegin, DeleteBegin, Begin, Become, Idle
<1>2. CASE Abort(r)
  BY <1>0, <1>2 DEF Abort, Answer, Become, Request
<1>3. CASE \/ EnsureUser(r) \/ CountKeys(r) \/ Generate(r) \/ Record(r)
           \/ CheckOwner(r) \/ Erase(r) \/ Unrecord(r)
  <2>1. req[r].op # "list"
    BY <1>3 DEF EnsureUser, CreateUser, CountKeys, Known, Generate, NewKey, Record,
       CheckOwner, KeyInfo, Erase, Unrecord, At
  <2>2. req'[r].op = req[r].op
    <3>1. CASE Generate(r)
      <4>1. CASE Answer(r, "error")
        BY <1>0, <4>1 DEF Answer, Become, Request
      <4>2. ASSUME NEW k, Become(r, [req[r] EXCEPT !.pc = "record", !.key = k])
            PROVE  req'[r].op = req[r].op
        BY <1>0, <4>2 DEF Become, Request
      <4>3. QED  BY <3>1, <4>1, <4>2 DEF Generate, NewKey
    <3>2. ASSUME NEW w, Goto(r, w) \/ Answer(r, w)
          PROVE  req'[r].op = req[r].op
      BY <1>0, <3>2 DEF Goto, Answer, Become, Request
    <3>3. CASE CountKeys(r)
      <4>1. CASE Become(r, [req[r] EXCEPT !.pc = "generate", !.undated = TRUE])
        BY <1>0, <4>1 DEF Become, Request
      <4>2. QED  BY <3>2, <3>3, <4>1 DEF CountKeys, Known
    <3>4. CASE \/ EnsureUser(r) \/ Record(r) \/ CheckOwner(r) \/ Erase(r) \/ Unrecord(r)
      BY <3>2, <3>4 DEF EnsureUser, CreateUser, Record, CheckOwner, KeyInfo, Erase, Unrecord
    <3>5. QED  BY <1>3, <3>1, <3>3, <3>4
  <2>3. QED  BY <2>1, <2>2
<1>4. CASE Reply(r)
  BY <1>0, <1>4 DEF Reply, Become, Idle
<1>5. QED  BY <1>1, <1>2, <1>3, <1>4 DEF Step

(* Listing the keys takes all of the caller's, and drops none of them.     *)
LEMMA ListReads ==
    ASSUME IInv, NEW r \in Requests, ReadKeys(r), ListState(req[r])
    PROVE  ListState(req[r])'
<1>0. /\ TypeOK /\ req \in [Requests -> Request] /\ req[r] \in Request /\ req[r].op = "list"
      /\ keys' = keys /\ nextKey' = nextKey
  BY DEF IInv, TypeOK, ReadKeys, Known, At, proxy
<1>1. PICK mine, active : mine = KeysOf(req[r].caller) /\ active = Active(mine)
  OBVIOUS
<1>2. \A k \in req[r].seen : k \in Key /\ k.id < nextKey /\ k.user = req[r].caller
  BY <1>0 DEF ListState
<1>3. \A k \in req[r].seen : k \in keys => k \in mine
  BY <1>1, <1>2 DEF KeysOf
<1>4. CASE Become(r, [req[r] EXCEPT !.pc = "purge", !.kept = active, !.left = mine \ active])
  <2>1. /\ req'[r].seen = req[r].seen /\ req'[r].caller = req[r].caller
        /\ req'[r].pc = "purge" /\ req'[r].kept = active /\ req'[r].left = mine \ active
    BY <1>0, <1>4 DEF Become, Request
  <2>2. QED  BY <1>0, <1>2, <1>3, <2>1 DEF ListState
<1>5. CASE Become(r, [req[r] EXCEPT !.pc = "purge", !.blind = TRUE])
  <2>1. /\ req'[r].seen = req[r].seen /\ req'[r].caller = req[r].caller
        /\ req'[r].pc = "purge" /\ req'[r].blind = TRUE
    BY <1>0, <1>5 DEF Become, Request
  <2>2. QED  BY <1>0, <1>2, <2>1 DEF ListState
<1>6. QED  BY <1>1, <1>4, <1>5 DEF ReadKeys, Known

(* What the purge takes from the keys left is gone, or it is kept.         *)
LEMMA ListPurges ==
    ASSUME IInv, NEW r \in Requests, Purge(r) \/ PurgeRow(r), ListState(req[r])
    PROVE  ListState(req[r])'
<1>0. /\ TypeOK /\ req \in [Requests -> Request] /\ req[r] \in Request /\ req[r].op = "list"
      /\ req[r].pc \in {"purge", "purgeRow"}
      /\ keys' \subseteq keys /\ nextKey' = nextKey
  BY DEF IInv, TypeOK, Purge, PurgeRow, At, proxy
<1>1. \A k \in req[r].seen : k \in Key /\ k.id < nextKey /\ k.user = req[r].caller
  BY <1>0 DEF ListState
<1>2. ~req[r].blind => req[r].seen \cap keys \subseteq req[r].kept \cup req[r].left
  BY <1>0 DEF ListState
<1>3. CASE PurgeRow(r)
  <2>1. /\ req'[r].seen = req[r].seen /\ req'[r].caller = req[r].caller
        /\ req'[r].pc = "purge" /\ req'[r].blind = req[r].blind
        /\ req'[r].kept = req[r].kept /\ req'[r].left = req[r].left
    BY <1>0, <1>3 DEF PurgeRow, Goto, Become, Request
  <2>2. QED  BY <1>0, <1>1, <1>2, <2>1 DEF ListState
<1>4. CASE req[r].left = {} /\ Answer(r, "ok")
  <2>1. /\ req'[r].seen = req[r].seen /\ req'[r].caller = req[r].caller
        /\ req'[r].pc = "reply" /\ req'[r].blind = req[r].blind
        /\ req'[r].kept = req[r].kept
    BY <1>0, <1>4 DEF Answer, Become, Request
  <2>2. QED  BY <1>0, <1>1, <1>2, <1>4, <2>1 DEF ListState
<1>5. ASSUME NEW k \in req[r].left, keys' = keys \ {k},
             Become(r, [[req[r] EXCEPT !.left = @ \ {k}] EXCEPT !.pc = "purgeRow", !.key = k])
      PROVE  ListState(req[r])'
  <2>1. /\ req'[r].seen = req[r].seen /\ req'[r].caller = req[r].caller
        /\ req'[r].pc = "purgeRow" /\ req'[r].blind = req[r].blind
        /\ req'[r].kept = req[r].kept /\ req'[r].left = req[r].left \ {k}
    BY <1>0, <1>5 DEF Become, Request
  <2>2. QED  BY <1>0, <1>1, <1>2, <1>5, <2>1 DEF ListState
<1>6. ASSUME NEW k \in req[r].left,
             Become(r, [[req[r] EXCEPT !.left = @ \ {k}] EXCEPT !.kept = @ \cup {k}]),
             req[r].pc = "purge"
      PROVE  ListState(req[r])'
  <2>1. /\ req'[r].seen = req[r].seen /\ req'[r].caller = req[r].caller
        /\ req'[r].pc = "purge" /\ req'[r].blind = req[r].blind
        /\ req'[r].kept = req[r].kept \cup {k} /\ req'[r].left = req[r].left \ {k}
    BY <1>0, <1>6 DEF Become, Request
  <2>2. QED  BY <1>0, <1>1, <1>2, <2>1 DEF ListState
<1>7. QED  BY <1>3, <1>4, <1>5, <1>6 DEF Purge, At

(* Every step keeps what the list requests hold.                           *)
LEMMA ListsNext == IInv /\ Lists /\ [Next]_vars => Lists'
<1> SUFFICES ASSUME IInv, Lists, [Next]_vars, NEW x \in Requests
             PROVE  ListState(req[x])'
  BY DEF Lists
<1>0. /\ req \in [Requests -> Request] /\ ListState(req[x]) /\ keys \subseteq Key
      /\ nextKey \in Nat /\ nextKey' \in Nat /\ nextKey <= nextKey'
  BY KeysAppear DEF IInv, TypeOK, Lists
<1>1. CASE req'[x] = req[x]
  <2>1. PICK q : q = req[x]
    OBVIOUS
  <2>2. ListState(q)'
    BY <1>0, <2>1, ListStays
  <2>3. QED  BY <1>1, <2>1, <2>2 DEF ListState
<1>2. ASSUME NEW r \in Requests, Arrive(r) \/ Step(r) \/ Abort(r), x = r, req'[r].op = "list"
      PROVE  ListState(req[x])'
  <2>1. CASE ReadKeys(r)
    BY <1>0, <1>2, <2>1, ListReads
  <2>2. CASE Purge(r) \/ PurgeRow(r)
    BY <1>0, <1>2, <2>2, ListPurges
  <2>3. CASE /\ req[r].op = "list" /\ req'[r].seen = req[r].seen
             /\ req'[r].caller = req[r].caller
             /\ req'[r].pc = "reply" /\ req'[r].answer = "error"
    <3>1. \A k \in req[r].seen : /\ k \in Key /\ k.id \in Nat /\ k.id < nextKey
                                 /\ k.user = req[r].caller
      BY <1>0, <1>2, <2>3 DEF ListState, Key
    <3>2. \A k \in req[r].seen : k.id < nextKey'
      BY <1>0, <3>1
    <3>3. QED  BY <1>2, <2>3, <3>1, <3>2 DEF ListState
  <2>4. ASSUME NEW u \in Users, ListBegin(r, u)  PROVE ListState(req[x])'
    <3>1. /\ req'[r].pc = "read" /\ req'[r].caller = u /\ req'[r].seen = KeysOf(u)
          /\ nextKey' = nextKey
      BY <1>0, <2>4 DEF ListBegin, Begin, Become, Idle, proxy
    <3>2. \A k \in KeysOf(u) : k \in Key /\ k.id < nextKey /\ k.user = u
      BY <1>0 DEF KeysOf, IInv, Made
    <3>3. QED  BY <1>2, <3>1, <3>2 DEF ListState
  <2>5. QED  BY <1>2, <2>1, <2>2, <2>3, <2>4, ListMoves
<1>3. ASSUME NEW r \in Requests, Arrive(r) \/ Step(r) \/ Abort(r), x # r
      PROVE  req'[x] = req[x]
  <2>1. \E q : Become(r, q)
    BY <1>3 DEF Arrive, CreateBegin, DeleteBegin, ListBegin, Begin, Step, EnsureUser,
       CreateUser,
          CountKeys, Known, Generate, NewKey, Record, CheckOwner, KeyInfo, Erase, Unrecord, ReadKeys, Purge,
          PurgeRow, Reply, Abort, Goto, Answer
  <2>2. QED  BY <1>0, <1>3, <2>1 DEF Become
<1>4. CASE req'[x].op # "list"
  BY <1>4 DEF ListState
<1>5. QED  BY <1>1, <1>2, <1>3, <1>4 DEF Next, Tick, vars

(* The list holds every key the caller had when it asked and still has,    *)
(* whatever deletions and purges run beside it and whichever calls fail,   *)
(* but for the one failure that list_keys swallows.                        *)
THEOREM ListingSound == Spec => []ListingComplete
<1>1. IInv /\ Lists => ListingComplete
  BY DEF Lists, ListState, ListingComplete
<1>2. Spec => [](IInv /\ Lists)
  <2>1. Init => Lists
    BY DEF Init, Idle, Lists, ListState
  <2>2. Init => IInv /\ Lists
    BY <2>1, InitInv
  <2>3. IInv /\ Lists /\ [Next]_vars => (IInv /\ Lists)'
    BY NextInv, ListsNext
  <2>4. QED  BY <2>2, <2>3, PTL DEF Spec
<1>3. QED  BY <1>1, <1>2, PTL

(***************************************************************************)
(* The number of keys: an invariant on top of IInv.                        *)
(***************************************************************************)
(* Requests that will make a key for u without another look at the keys    *)
(* u has: they counted, or they will find a user LiteLLM does not know.    *)
Due(u) ==
    {r \in Requests : /\ req[r].caller = u
                      /\ \/ req[r].pc = "generate"
                         \/ req[r].pc = "count" /\ u \notin users}

(* What there is and what is to come of u's keys.                          *)
KeysAndDue(u) == Cardinality(Active(KeysOf(u))) + Cardinality(Due(u))

Quota ==
    /\ IsFiniteSet(keys)
    /\ \A u \in Users : KeysAndDue(u) <= MaxLlmKeys - 1 + Cardinality(Requests) + faults

(* The numbers are numbers.                                                *)
LEMMA Counts ==
    ASSUME IsFiniteSet(Requests), IsFiniteSet(keys), NEW u
    PROVE  /\ Cardinality(Requests) \in Nat
           /\ IsFiniteSet(Active(KeysOf(u))) /\ Cardinality(Active(KeysOf(u))) \in Nat
           /\ IsFiniteSet(Due(u)) /\ Cardinality(Due(u)) \in Nat
           /\ Cardinality(Due(u)) <= Cardinality(Requests)
<1>1. Active(KeysOf(u)) \in SUBSET keys /\ Due(u) \in SUBSET Requests
  BY DEF Active, KeysOf, Due
<1>2. QED  BY <1>1, FS_Subset, FS_CardinalityType

(* A set with one element more, or one less, than S.                       *)
LEMMA OneMoreOrLess ==
    ASSUME NEW S, IsFiniteSet(S), NEW x, NEW T, T \subseteq S \cup {x}
    PROVE  /\ Cardinality(S) \in Nat /\ Cardinality(T) \in Nat
           /\ Cardinality(T) <= Cardinality(S) + 1
           /\ T \subseteq S => Cardinality(T) <= Cardinality(S)
           /\ x \in S /\ T \subseteq S \ {x} => Cardinality(T) <= Cardinality(S) - 1
<1>1. Cardinality(S) \in Nat
  BY FS_CardinalityType
<1>2. /\ IsFiniteSet(S \cup {x})
      /\ Cardinality(S \cup {x}) = IF x \in S THEN Cardinality(S) ELSE Cardinality(S) + 1
  BY FS_AddElement
<1>3. Cardinality(T) \in Nat /\ Cardinality(T) <= Cardinality(S \cup {x})
  BY <1>2, FS_Subset, FS_CardinalityType
<1>4. T \subseteq S => Cardinality(T) <= Cardinality(S)
  BY FS_Subset
<1>5. ASSUME x \in S, T \subseteq S \ {x}  PROVE Cardinality(T) <= Cardinality(S) - 1
  <2>1. IsFiniteSet(S \ {x}) /\ Cardinality(S \ {x}) = Cardinality(S) - 1
    BY <1>5, FS_RemoveElement
  <2>2. Cardinality(T) <= Cardinality(S \ {x})
    BY <1>5, <2>1, FS_Subset
  <2>3. QED  BY <2>1, <2>2
<1>6. QED  BY <1>1, <1>2, <1>3, <1>4, <1>5

(* Fewer keys and fewer requests keep the bound; one more of the requests  *)
(* keeps it for the failure it came with.                                  *)
LEMMA QuotaStays ==
    ASSUME IsFiniteSet(Requests), IInv, Quota, IsFiniteSet(keys'), faults' \in Nat,
           NEW u \in Users, Active(KeysOf(u))' \subseteq Active(KeysOf(u)),
           \/ Due(u)' \subseteq Due(u) /\ faults' >= faults
           \/ \E r : Due(u)' \subseteq Due(u) \cup {r} /\ faults' = faults + 1
    PROVE  KeysAndDue(u)' <= MaxLlmKeys - 1 + Cardinality(Requests) + faults'
<1>1. /\ IsFiniteSet(Active(KeysOf(u))) /\ Cardinality(Active(KeysOf(u))) \in Nat
      /\ IsFiniteSet(Due(u)) /\ Cardinality(Due(u)) \in Nat /\ Cardinality(Requests) \in Nat
      /\ faults \in Nat /\ MaxLlmKeys \in Nat
  BY Counts, LlmAssumption DEF Quota, IInv, TypeOK
<1>2. /\ Cardinality(Active(KeysOf(u))') <= Cardinality(Active(KeysOf(u)))
      /\ Cardinality(Active(KeysOf(u))') \in Nat
  BY <1>1, FS_Subset, FS_CardinalityType
<1>3. KeysAndDue(u) <= MaxLlmKeys - 1 + Cardinality(Requests) + faults
  BY DEF Quota
<1>4. CASE Due(u)' \subseteq Due(u) /\ faults' >= faults
  <2>1. Cardinality(Due(u)') <= Cardinality(Due(u)) /\ Cardinality(Due(u)') \in Nat
    BY <1>1, <1>4, FS_Subset, FS_CardinalityType
  <2>2. QED  BY <1>1, <1>2, <1>3, <1>4, <2>1 DEF KeysAndDue
<1>5. ASSUME NEW r, Due(u)' \subseteq Due(u) \cup {r}, faults' = faults + 1
      PROVE  KeysAndDue(u)' <= MaxLlmKeys - 1 + Cardinality(Requests) + faults'
  <2>1. Cardinality(Due(u)') <= Cardinality(Due(u)) + 1 /\ Cardinality(Due(u)') \in Nat
    BY <1>1, <1>5, OneMoreOrLess
  <2>2. QED  BY <1>1, <1>2, <1>3, <1>5, <2>1 DEF KeysAndDue
<1>6. QED  BY <1>4, <1>5

(* Who becomes due is the request that moves.                              *)
LEMMA DueMoves ==
    ASSUME TypeOK, NEW r \in Requests, \E q : Become(r, q), users \subseteq users', NEW u
    PROVE  /\ Due(u)' \subseteq Due(u) \cup {r}
           /\ \/ req'[r].caller # u
              \/ req'[r].pc \notin {"count", "generate"}
              \/ req'[r].pc = "count" /\ u \in users'
              => Due(u)' \subseteq Due(u) \ {r}
<1>1. \A x \in Requests : x # r => req'[x] = req[x]
  BY DEF TypeOK, Become
<1>2. QED  BY <1>1 DEF Due

(* Where a request goes.                                                   *)
LEMMA Moved ==
    ASSUME TypeOK, NEW r \in Requests
    PROVE  /\ \A q : Become(r, q) => req'[r] = q
           /\ \A pc : Goto(r, pc) =>
                 /\ \E q : Become(r, q)
                 /\ req'[r].pc = pc /\ req'[r].caller = req[r].caller
           /\ \A answer : Answer(r, answer) =>
                 /\ \E q : Become(r, q)
                 /\ req'[r].pc = "reply"
<1>0. req \in [Requests -> Request] /\ req[r] \in Request
  BY DEF TypeOK
<1>1. \A q : Become(r, q) => req'[r] = q
  BY <1>0 DEF Become
<1>2. ASSUME NEW pc, Goto(r, pc)
      PROVE  /\ \E q : Become(r, q)
             /\ req'[r].pc = pc /\ req'[r].caller = req[r].caller
  <2>1. req'[r] = [req[r] EXCEPT !.pc = pc]
    BY <1>1, <1>2 DEF Goto
  <2>2. QED  BY <1>0, <1>2, <2>1 DEF Goto, Request
<1>3. ASSUME NEW answer, Answer(r, answer)
      PROVE  (\E q : Become(r, q)) /\ req'[r].pc = "reply"
  <2>1. req'[r] = [req[r] EXCEPT !.pc = "reply", !.answer = answer]
    BY <1>1, <1>3 DEF Answer
  <2>2. QED  BY <1>0, <1>3, <2>1 DEF Answer, Request
<1>4. QED  BY <1>1, <1>2, <1>3

LEMMA EnsureUserQuota ==
    ASSUME IsFiniteSet(Requests), IInv, Quota, NEW r \in Requests, EnsureUser(r)
    PROVE  Quota'
<1>0. TypeOK /\ req[r] \in Request /\ keys' = keys /\ now' = now /\ faults \in Nat
  BY DEF EnsureUser, CreateUser, IInv, TypeOK
<1>2. /\ \E q : Become(r, q)
      /\ req'[r].pc = "count" /\ req'[r].caller = req[r].caller
  BY <1>0, Moved DEF EnsureUser, CreateUser
<1>3. users \subseteq users'
  BY DEF EnsureUser, CreateUser
<1>4. ASSUME NEW u \in Users
      PROVE  KeysAndDue(u)' <= MaxLlmKeys - 1 + Cardinality(Requests) + faults'
  <2>1. Active(KeysOf(u))' = Active(KeysOf(u)) /\ IsFiniteSet(keys')
    BY <1>0 DEF Active, KeysOf, Quota
  <2>2. CASE NoFault
    <3>1. req'[r].caller = u => u \in users'
      BY <1>2, <2>2, <1>0 DEF EnsureUser, CreateUser, Fault, NoFault
    <3>2. Due(u)' \subseteq Due(u)
      BY <1>0, <1>2, <1>3, <3>1, DueMoves
    <3>3. QED  BY <1>0, <2>1, <2>2, <3>2, QuotaStays DEF NoFault
  <2>3. CASE Fault
    BY <1>0, <1>2, <1>3, <2>1, <2>3, DueMoves, QuotaStays DEF Fault
  <2>4. QED  BY <2>2, <2>3 DEF EnsureUser, CreateUser
<1>5. QED  BY <1>0, <1>4 DEF Quota

(* The count lets a request pass when there are fewer keys than the limit, *)
(* and then no more requests are due than there are.                       *)
LEMMA CountKeysQuota ==
    ASSUME IsFiniteSet(Requests), IInv, Quota, NEW r \in Requests, CountKeys(r)
    PROVE  Quota'
<1>0. /\ TypeOK /\ req[r] \in Request /\ keys' = keys /\ now' = now /\ users' = users
      /\ faults \in Nat /\ req[r].pc = "count" /\ MaxLlmKeys \in Nat
  BY LlmAssumption DEF CountKeys, Known, At, IInv, TypeOK, proxy
<1>1. ASSUME NEW u \in Users
      PROVE  KeysAndDue(u)' <= MaxLlmKeys - 1 + Cardinality(Requests) + faults'
  <2>1. Active(KeysOf(u))' = Active(KeysOf(u)) /\ IsFiniteSet(keys')
    BY <1>0 DEF Active, KeysOf, Quota
  <2>2. CASE Answer(r, "error") /\ NoFault
    <3>1. (\E q : Become(r, q)) /\ req'[r].pc = "reply"
      BY <1>0, <2>2, Moved
    <3>2. Due(u)' \subseteq Due(u)
      BY <1>0, <3>1, DueMoves
    <3>3. QED  BY <1>0, <2>1, <2>2, <3>2, QuotaStays DEF NoFault
  <2>3. CASE /\ Goto(r, "generate")
             /\ \/ /\ req[r].caller \in users /\ NoFault
                   /\ ~(Cardinality(Active(KeysOf(req[r].caller))) >= MaxLlmKeys)
                \/ ListFails(req[r].caller)
    <3>2. (\E q : Become(r, q)) /\ req'[r].caller = req[r].caller
      BY <1>0, <2>3, Moved
    <3>3. CASE u # req[r].caller /\ (Fault \/ NoFault)
      <4>1. Due(u)' \subseteq Due(u)
        BY <1>0, <3>2, <3>3, DueMoves
      <4>2. faults' \in Nat /\ faults' >= faults
        BY <1>0, <3>3 DEF Fault, NoFault
      <4>3. QED  BY <2>1, <4>1, <4>2, QuotaStays
    <3>4. CASE u = req[r].caller /\ NoFault /\ Cardinality(Active(KeysOf(u))) < MaxLlmKeys
      <4>1. /\ Cardinality(Active(KeysOf(u))') \in Nat /\ Cardinality(Due(u)') \in Nat
            /\ Cardinality(Due(u)') <= Cardinality(Requests) /\ Cardinality(Requests) \in Nat
        <5>1. Due(u)' \in SUBSET Requests
          BY DEF Due
        <5>2. QED  BY <2>1, <5>1, Counts, FS_Subset, FS_CardinalityType DEF Quota
      <4>2. faults' = faults
        BY <3>4 DEF NoFault
      <4>3. QED  BY <1>0, <2>1, <3>4, <4>1, <4>2 DEF KeysAndDue
    <3>5. CASE u = req[r].caller /\ u \in users /\ Fault
      BY <1>0, <2>1, <3>2, <3>5, DueMoves, QuotaStays DEF Fault
    <3>6. CASE u = req[r].caller /\ u \notin users /\ NoFault
      <4>1. r \in Due(u)
        BY <1>0, <3>6 DEF Due
      <4>2. Due(u)' \subseteq Due(u)
        BY <1>0, <3>2, <4>1, DueMoves
      <4>3. QED  BY <1>0, <2>1, <3>6, <4>2, QuotaStays DEF NoFault
    <3>7. CASE /\ req[r].caller \in users /\ NoFault
               /\ ~(Cardinality(Active(KeysOf(req[r].caller))) >= MaxLlmKeys)
      <4>1. CASE u = req[r].caller
        <5>1. Cardinality(Active(KeysOf(u))) \in Nat
          BY Counts DEF Quota
        <5>2. QED  BY <1>0, <3>4, <3>7, <4>1, <5>1
      <4>2. QED  BY <3>3, <3>7, <4>1
    <3>8. CASE ListFails(req[r].caller)
      BY <3>3, <3>5, <3>6, <3>8 DEF ListFails, Known
    <3>9. QED  BY <2>3, <3>7, <3>8
  <2>4. CASE Fault /\ Become(r, [req[r] EXCEPT !.pc = "generate", !.undated = TRUE])
    BY <1>0, <2>1, <2>4, DueMoves, QuotaStays DEF Fault
  <2>5. QED  BY <2>2, <2>3, <2>4 DEF CountKeys, Known
<1>2. QED  BY <1>0, <1>1 DEF Quota

LEMMA GenerateQuota ==
    ASSUME IsFiniteSet(Requests), IInv, Quota, NEW r \in Requests, Generate(r)
    PROVE  Quota'
<1>0. /\ TypeOK /\ req[r] \in Request /\ now' = now /\ users' = users
      /\ faults \in Nat /\ faults' \in Nat /\ faults' >= faults /\ req[r].pc = "generate"
      /\ MaxLlmKeys \in Nat
  BY LlmAssumption DEF Generate, NewKey, At, IInv, TypeOK, Fault, NoFault
<1>1. (\E q : Become(r, q)) /\ req'[r].pc \in {"reply", "record"}
  <2>1. CASE \E answer : Answer(r, answer)
    BY <1>0, <2>1, Moved
  <2>2. ASSUME NEW k, Become(r, [req[r] EXCEPT !.pc = "record", !.key = k])
        PROVE  (\E q : Become(r, q)) /\ req'[r].pc = "record"
    <3>1. req'[r] = [req[r] EXCEPT !.pc = "record", !.key = k]
      BY <1>0, <2>2, Moved
    <3>2. QED  BY <1>0, <2>2, <3>1 DEF Request
  <2>3. QED  BY <2>1, <2>2 DEF Generate, NewKey
<1>2. \A u : Due(u)' \subseteq Due(u) \ {r}
  BY <1>0, <1>1, DueMoves
<1>3. CASE keys' = keys
  <2>1. \A u : Active(KeysOf(u))' = Active(KeysOf(u))
    BY <1>0, <1>3 DEF Active, KeysOf
  <2>2. QED  BY <1>0, <1>2, <1>3, <2>1, QuotaStays DEF Quota
<1>4. ASSUME NEW k, keys' = keys \cup {k}, k.user = req[r].caller
      PROVE  Quota'
  <2>1. IsFiniteSet(keys')
    BY <1>4, FS_AddElement DEF Quota
  <2>2. ASSUME NEW u \in Users
        PROVE  KeysAndDue(u)' <= MaxLlmKeys - 1 + Cardinality(Requests) + faults'
    <3>1. CASE u # req[r].caller
      <4>1. Active(KeysOf(u))' \subseteq Active(KeysOf(u))
        BY <1>0, <1>4, <3>1 DEF Active, KeysOf
      <4>2. QED  BY <1>0, <1>2, <2>1, <4>1, QuotaStays
    <3>2. CASE u = req[r].caller
      <4>1. /\ IsFiniteSet(Active(KeysOf(u))) /\ Cardinality(Active(KeysOf(u))) \in Nat
            /\ IsFiniteSet(Due(u)) /\ Cardinality(Due(u)) \in Nat /\ Cardinality(Requests) \in Nat
        BY Counts DEF Quota
      <4>2. Active(KeysOf(u))' \subseteq Active(KeysOf(u)) \cup {k}
        BY <1>0, <1>4 DEF Active, KeysOf
      <4>3. /\ Cardinality(Active(KeysOf(u))') <= Cardinality(Active(KeysOf(u))) + 1
            /\ Cardinality(Active(KeysOf(u))') \in Nat
        BY <4>1, <4>2, OneMoreOrLess
      <4>4. r \in Due(u)
        BY <1>0, <3>2 DEF Due
      <4>5. /\ Cardinality(Due(u)') <= Cardinality(Due(u)) - 1
            /\ Cardinality(Due(u)') \in Nat
        BY <1>2, <4>1, <4>4, OneMoreOrLess
      <4>6. KeysAndDue(u) <= MaxLlmKeys - 1 + Cardinality(Requests) + faults
        BY DEF Quota
      <4>7. QED  BY <1>0, <4>1, <4>3, <4>5, <4>6 DEF KeysAndDue
    <3>3. QED  BY <3>1, <3>2
  <2>3. QED  BY <2>1, <2>2 DEF Quota
<1>5. QED  BY <1>3, <1>4 DEF Generate, NewKey

(* All other steps take keys away, or leave them, and make nobody due.     *)
LEMMA OtherQuota ==
    ASSUME IsFiniteSet(Requests), IInv, Quota, NEW r \in Requests,
           \/ Arrive(r) \/ Record(r) \/ CheckOwner(r) \/ Erase(r) \/ Unrecord(r)
           \/ ReadKeys(r) \/ Purge(r) \/ PurgeRow(r) \/ Reply(r) \/ Abort(r)
    PROVE  Quota'
<1>0. TypeOK /\ req[r] \in Request /\ faults \in Nat
  BY DEF IInv, TypeOK
<1>1. /\ keys' \subseteq keys /\ users' = users /\ now' = now
      /\ Fault \/ NoFault
  BY DEF Arrive, CreateBegin, DeleteBegin, ListBegin, Begin, Record, CheckOwner, KeyInfo,
     Erase,
         Unrecord, RemoveRow, ReadKeys, Known, ListFails, Purge, PurgeRow, Reply, Abort, proxy
<1>2. (\E q : Become(r, q)) /\ req'[r].pc \notin {"count", "generate"}
  <2>1. CASE Arrive(r)
    <3>1. ASSUME NEW q, Become(r, q), q.pc \in {"ensure", "owner", "read"}
          PROVE  req'[r].pc \in {"ensure", "owner", "read"}
      BY <1>0, <3>1, Moved
    <3>2. QED
      BY <2>1, <3>1 DEF Arrive, CreateBegin, DeleteBegin, ListBegin, Begin, Idle
  <2>2. CASE \/ \E pc \in {"erase", "unrecord", "purge"} : Goto(r, pc)
             \/ \E answer : Answer(r, answer)
    BY <1>0, <2>2, Moved
  <2>3. CASE ReadKeys(r)
    <3>1. ASSUME NEW kept, NEW left,
                 Become(r, [req[r] EXCEPT !.pc = "purge", !.kept = kept, !.left = left])
          PROVE  (\E q : Become(r, q)) /\ req'[r].pc = "purge"
      <4>1. req'[r] = [req[r] EXCEPT !.pc = "purge", !.kept = kept, !.left = left]
        BY <1>0, <3>1, Moved
      <4>2. QED  BY <1>0, <3>1, <4>1 DEF Request
    <3>2. CASE Become(r, [req[r] EXCEPT !.pc = "purge", !.blind = TRUE])
      <4>1. req'[r] = [req[r] EXCEPT !.pc = "purge", !.blind = TRUE]
        BY <1>0, <3>2, Moved
      <4>2. QED  BY <1>0, <3>2, <4>1 DEF Request
    <3>3. QED  BY <2>3, <3>1, <3>2 DEF ReadKeys, Known
  <2>4. CASE Purge(r)
    <3>1. req[r].pc = "purge"
      BY <2>4 DEF Purge, At
    <3>2. ASSUME NEW k, Become(r, [[req[r] EXCEPT !.left = @ \ {k}]
                                       EXCEPT !.pc = "purgeRow", !.key = k])
          PROVE  (\E q : Become(r, q)) /\ req'[r].pc = "purgeRow"
      <4>1. req'[r] = [[req[r] EXCEPT !.left = @ \ {k}] EXCEPT !.pc = "purgeRow", !.key = k]
        BY <1>0, <3>2, Moved
      <4>2. QED  BY <1>0, <3>2, <4>1 DEF Request
    <3>3. ASSUME NEW k, Become(r, [[req[r] EXCEPT !.left = @ \ {k}] EXCEPT !.kept = @ \cup {k}])
          PROVE  (\E q : Become(r, q)) /\ req'[r].pc = "purge"
      <4>1. req'[r] = [[req[r] EXCEPT !.left = @ \ {k}] EXCEPT !.kept = @ \cup {k}]
        BY <1>0, <3>3, Moved
      <4>2. QED  BY <1>0, <3>1, <3>3, <4>1 DEF Request
    <3>4. QED  BY <2>2, <2>4, <3>2, <3>3 DEF Purge
  <2>5. CASE Reply(r)
    <3>1. req'[r] = Idle
      BY <1>0, <2>5, Moved DEF Reply
    <3>2. QED  BY <2>5, <3>1 DEF Reply, Idle
  <2>6. QED
    BY <2>1, <2>2, <2>3, <2>4, <2>5 DEF Record, CheckOwner, KeyInfo, Erase, Unrecord,
       PurgeRow, Abort
<1>3. IsFiniteSet(keys') /\ faults' \in Nat /\ faults' >= faults
  BY <1>0, <1>1, FS_Subset DEF Quota, Fault, NoFault
<1>4. ASSUME NEW u
      PROVE  Active(KeysOf(u))' \subseteq Active(KeysOf(u)) /\ Due(u)' \subseteq Due(u)
  <2>1. Due(u)' \subseteq Due(u) \ {r}
    BY <1>0, <1>1, <1>2, DueMoves
  <2>2. Active(KeysOf(u))' \subseteq Active(KeysOf(u))
    BY <1>1 DEF Active, KeysOf
  <2>3. QED  BY <2>1, <2>2
<1>5. QED  BY <1>3, <1>4, QuotaStays DEF Quota

LEMMA QuotaNext == IsFiniteSet(Requests) /\ IInv /\ Quota /\ [Next]_vars => Quota'
<1> SUFFICES ASSUME IsFiniteSet(Requests), IInv, Quota, [Next]_vars  PROVE Quota'
  OBVIOUS
<1>1. ASSUME NEW r \in Requests, Arrive(r) \/ Step(r) \/ Abort(r)  PROVE Quota'
  BY <1>1, EnsureUserQuota, CountKeysQuota, GenerateQuota, OtherQuota DEF Step
<1>2. CASE Tick \/ UNCHANGED vars
  <2>1. /\ UNCHANGED <<users, keys, req, faults>> /\ now \in Nat /\ now' >= now
        /\ faults \in Nat
    BY <1>2 DEF Tick, vars, proxy, IInv, TypeOK
  <2>2. ASSUME NEW u
        PROVE  Active(KeysOf(u))' \subseteq Active(KeysOf(u)) /\ Due(u)' = Due(u)
    <3>1. keys \subseteq Key /\ now' \in Nat
      BY <1>2 DEF IInv, TypeOK, Tick, vars
    <3>2. QED  BY <2>1, <3>1 DEF Active, KeysOf, Due, Key
  <2>3. QED  BY <2>1, <2>2, QuotaStays DEF Quota
<1>3. QED  BY <1>1, <1>2 DEF Next

(* With any number of worker threads, users and failures, no user has more *)
(* keys at work than the limit, less the one that would be refused, plus   *)
(* one per thread and one per failed call.                                 *)
THEOREM QuotaSound ==
    ASSUME IsFiniteSet(Requests)
    PROVE  Spec => []LlmQuotaBounded
<1>1. IInv /\ Quota => LlmQuotaBounded
  <2> SUFFICES ASSUME IInv, Quota, NEW u \in Users
               PROVE  Cardinality(Active(KeysOf(u))) <= MaxLlmKeys - 1 + Cardinality(Requests) + faults
    BY DEF LlmQuotaBounded
  <2>1. /\ Cardinality(Active(KeysOf(u))) \in Nat /\ Cardinality(Due(u)) \in Nat
        /\ Cardinality(Requests) \in Nat /\ faults \in Nat /\ MaxLlmKeys \in Nat
    BY Counts, LlmAssumption DEF Quota, IInv, TypeOK
  <2>2. KeysAndDue(u) <= MaxLlmKeys - 1 + Cardinality(Requests) + faults
    BY DEF Quota
  <2>3. QED  BY <2>1, <2>2 DEF KeysAndDue
<1>2. Init => Quota
  <2> SUFFICES ASSUME Init  PROVE Quota
    OBVIOUS
  <2>1. IsFiniteSet(keys) /\ faults = 0
    BY FS_EmptySet DEF Init
  <2>2. ASSUME NEW u  PROVE Active(KeysOf(u)) = {} /\ Due(u) = {}
    BY DEF Init, Active, KeysOf, Due, Idle
  <2>3. Cardinality(Requests) \in Nat /\ MaxLlmKeys \in Nat \ {0} /\ Cardinality({}) = 0
    BY FS_CardinalityType, FS_EmptySet, LlmAssumption
  <2>4. QED  BY <2>1, <2>2, <2>3 DEF Quota, KeysAndDue
<1>3. IInv /\ Quota /\ [Next]_vars => (IInv /\ Quota)'
  BY NextInv, QuotaNext
<1>4. Init => IInv /\ Quota
  BY <1>2, InitInv
<1>5. QED  BY <1>1, <1>3, <1>4, PTL DEF Spec
=============================================================================
