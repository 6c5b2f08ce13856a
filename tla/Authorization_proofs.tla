------------------------ MODULE Authorization_proofs ------------------------
(***************************************************************************)
(* Theorems about Authorization, for any users, requests, threads, tokens  *)
(* and times: what a killed token still does is bounded, and tokens do not *)
(* make tokens; and about TokenClaims, for any registry and any changes of *)
(* it: what a token says was so.                                           *)
(***************************************************************************)
EXTENDS Authorization, TokenClaims, FiniteSetTheorems, TLAPS

(***************************************************************************)
(* The inductive invariant, in named parts.                                *)
(***************************************************************************)
(* A token has one row at most, and only tokens that are out have rows.    *)
Entries ==
    /\ \A e, f \in active \cup revoked : e.jwt = f.jwt => e = f
    /\ active \cap revoked = {}
    /\ \A e \in active \cup revoked : e.jwt \in issued

(* A killed token is one that was issued, and none to be let in.           *)
KilledIsOut == killed \subseteq issued /\ \A e \in active : e.jwt \notin killed

(* What a killed token did, and what it may still do: the requests that    *)
(* were past the check by then, and are one fewer with every act.          *)
LateBound ==
    \A j \in Jwt :
        IF j \in killed THEN late[j] + Cardinality(Pending(j)) <= passed[j]
                        ELSE late[j] = 0 /\ passed[j] = 0

IInv ==
    /\ TypeOK
    /\ Entries
    /\ KilledIsOut
    /\ LateBound

LEMMA IdleType == Idle \in Request /\ Idle.pc = "idle" /\ Idle.op = "none"
BY DEF Idle, Request

LEMMA InitInv == Init => IInv
<1> SUFFICES ASSUME Init  PROVE IInv
  OBVIOUS
<1>1. TypeOK
  BY IdleType DEF Init, TypeOK
<1>2. Entries /\ KilledIsOut /\ LateBound
  BY DEF Init, Entries, KilledIsOut, LateBound
<1>3. QED  BY <1>1, <1>2 DEF IInv

(***************************************************************************)
(* Steps                                                                   *)
(***************************************************************************)
LEMMA Counting ==
    \A j : IsFiniteSet(Pending(j)) /\ Cardinality(Pending(j)) \in Nat
<1>1. \A j : Pending(j) \in SUBSET Requests
  BY DEF Pending
<1>2. QED  BY <1>1, AuthorizationAssumption, FS_Subset, FS_CardinalityType

(* The requests that may still act after a step.                           *)
LEMMA CountingNext ==
    \A j : IsFiniteSet(Pending(j)') /\ Cardinality(Pending(j)') \in Nat
<1>1. \A j : Pending(j)' \in SUBSET Requests
  BY DEF Pending
<1>2. QED  BY <1>1, AuthorizationAssumption, FS_Subset, FS_CardinalityType

(* A request moves to q.                                                   *)
LEMMA BecomeType ==
    ASSUME TypeOK, NEW r \in Requests, NEW q \in Request, Become(r, q)
    PROVE  /\ req' \in [Requests -> Request]
           /\ req'[r] = q
           /\ \A x \in Requests : x # r => req'[x] = req[x]
BY DEF TypeOK, Become

(* What killed tokens do is of no concern to a step that kills none, and   *)
(* lets none of them in.                                                   *)
LEMMA LateStays ==
    ASSUME IInv, UNCHANGED <<killed, passed, late>>,
           \A j \in killed : Pending(j)' = Pending(j)
    PROVE  LateBound'
BY DEF IInv, LateBound

(* A request ends, and its act is counted.                                 *)
LEMMA CountStep ==
    ASSUME IInv, NEW r \in Requests, req[r].pc = "act", Become(r, Idle), Count(r)
    PROVE  /\ late' \in [Jwt -> Nat]
           /\ \A j \in killed :
                 late'[j] + Cardinality(Pending(j)') <= late[j] + Cardinality(Pending(j))
           /\ \A j \in Jwt \ killed : late'[j] = late[j]
<1>1. late \in [Jwt -> Nat] /\ killed \subseteq Jwt
  BY DEF IInv, TypeOK
<1>2. late' \in [Jwt -> Nat] /\ \A j \in Jwt \ killed : late'[j] = late[j]
  BY <1>1 DEF Count
<1>3. req'[r].pc = "idle" /\ \A x \in Requests : x # r => req'[x] = req[x]
  BY IdleType, BecomeType DEF IInv
<1>4. ASSUME NEW j \in killed
      PROVE  late'[j] + Cardinality(Pending(j)') <= late[j] + Cardinality(Pending(j))
  <2>1. Pending(j)' = Pending(j) \ {r}
    BY <1>3 DEF Pending
  <2>2. r \in Pending(j) <=> req[r].token = j
    BY DEF Pending
  <2>3. late[j] \in Nat /\ Cardinality(Pending(j)) \in Nat
    BY <1>1, Counting
  <2>4. CASE req[r].token = j
    <3>1. Cardinality(Pending(j)') = Cardinality(Pending(j)) - 1
      BY <2>1, <2>2, <2>4, Counting, FS_RemoveElement
    <3>2. late'[j] = late[j] + 1
      BY <1>1, <2>4 DEF Count
    <3>3. QED  BY <2>3, <3>1, <3>2
  <2>5. CASE req[r].token # j
    <3>1. Pending(j)' = Pending(j)
      BY <2>1, <2>2, <2>5
    <3>2. late'[j] = late[j]
      BY <1>1, <2>5 DEF Count
    <3>3. QED  BY <2>3, <3>1, <3>2
  <2>6. QED  BY <2>4, <2>5
<1>5. QED  BY <1>2, <1>4

(* The same for one that kills no token.                                   *)
LEMMA EndStep ==
    ASSUME IInv, NEW r \in Requests, req[r].pc = "act", Become(r, Idle), Count(r),
           UNCHANGED <<killed, passed>>
    PROVE  late' \in [Jwt -> Nat] /\ LateBound'
<1>1. /\ late' \in [Jwt -> Nat]
      /\ \A j \in killed :
            late'[j] + Cardinality(Pending(j)') <= late[j] + Cardinality(Pending(j))
      /\ \A j \in Jwt \ killed : late'[j] = late[j]
  BY CountStep
<1>2. late \in [Jwt -> Nat] /\ passed \in [Jwt -> Nat]
  BY DEF IInv, TypeOK
<1>3. ASSUME NEW j \in Jwt
      PROVE  IF j \in killed THEN late'[j] + Cardinality(Pending(j)') <= passed[j]
                             ELSE late'[j] = 0 /\ passed[j] = 0
  <2>1. /\ late[j] \in Nat /\ late'[j] \in Nat /\ passed[j] \in Nat
        /\ Cardinality(Pending(j)) \in Nat /\ Cardinality(Pending(j)') \in Nat
    BY <1>1, <1>2, Counting, CountingNext
  <2>2. IF j \in killed THEN late[j] + Cardinality(Pending(j)) <= passed[j]
                        ELSE late[j] = 0 /\ passed[j] = 0
    BY DEF IInv, LateBound
  <2>3. QED  BY <1>1, <2>1, <2>2
<1>4. LateBound'
  BY <1>3 DEF LateBound
<1>5. QED  BY <1>1, <1>4

(* A token is killed: the requests past the check by it are what it may    *)
(* still do.                                                               *)
LEMMA KillStep ==
    ASSUME IInv, NEW j \in Jwt, Kill(j), late' \in [Jwt -> Nat],
           \A k \in killed :
              late'[k] + Cardinality(Pending(k)') <= late[k] + Cardinality(Pending(k)),
           \A k \in Jwt \ killed : late'[k] = late[k]
    PROVE  passed' \in [Jwt -> Nat] /\ LateBound'
<1>1. passed \in [Jwt -> Nat] /\ late \in [Jwt -> Nat]
  BY DEF IInv, TypeOK
<1>2. Cardinality(Pending(j)') \in Nat
  BY CountingNext
<1>3. passed' \in [Jwt -> Nat]
  BY <1>1, <1>2 DEF Kill
<1>4. ASSUME NEW k \in Jwt
      PROVE  IF k \in killed' THEN late'[k] + Cardinality(Pending(k)') <= passed'[k]
                              ELSE late'[k] = 0 /\ passed'[k] = 0
  <2>1. /\ late[k] \in Nat /\ late'[k] \in Nat /\ passed[k] \in Nat
        /\ Cardinality(Pending(k)) \in Nat /\ Cardinality(Pending(k)') \in Nat
    BY <1>1, Counting, CountingNext
  <2>2. IF k \in killed THEN late[k] + Cardinality(Pending(k)) <= passed[k]
                        ELSE late[k] = 0 /\ passed[k] = 0
    BY DEF IInv, LateBound
  <2>3. k \in killed' <=> k \in killed \/ k = j
    BY DEF Kill
  <2>4. CASE k \in killed
    <3>1. passed'[k] = passed[k]
      BY <1>1, <2>4 DEF Kill
    <3>2. QED  BY <2>1, <2>2, <2>3, <2>4, <3>1
  <2>5. CASE k \notin killed /\ k = j
    <3>1. passed'[k] = Cardinality(Pending(k)')
      BY <1>1, <2>5 DEF Kill
    <3>2. late'[k] = 0
      BY <2>2, <2>5
    <3>3. QED  BY <2>1, <2>3, <2>5, <3>1, <3>2
  <2>6. CASE k \notin killed /\ k # j
    <3>1. passed'[k] = passed[k]
      BY <1>1, <2>6 DEF Kill
    <3>2. QED  BY <2>2, <2>3, <2>6, <3>1
  <2>7. QED  BY <2>4, <2>5, <2>6
<1>5. LateBound'
  BY <1>4 DEF LateBound
<1>6. QED  BY <1>3, <1>5

LEMMA AcceptInv ==
    ASSUME IInv, NEW r \in Requests, NEW op \in Checked, NEW header \in issued \cup {None},
           NEW cookie \in Users \cup {None}, NEW target \in issued \cup Users \cup {None},
           Accept(r, op, header, cookie, target)
    PROVE  IInv'
<1> DEFINE byToken == ~LoginOnly(op) /\ header # None
           user == IF byToken THEN BearerUser(header) ELSE CookieUser(cookie)
           q == [op |-> op, pc |-> "queued", token |-> IF byToken THEN header ELSE None,
                 cred |-> None, user |-> user, target |-> target]
<1>1. /\ req[r].pc = "idle" /\ user # None /\ Become(r, q)
      /\ UNCHANGED <<clock, active, revoked, issued, grants, killed, passed, late>>
  BY DEF Accept, rows
<1>2. issued \subseteq Jwt
  BY DEF IInv, TypeOK
<1>3. user \in Users
  <2>1. CASE byToken
    BY <1>1, <1>2, <2>1 DEF BearerUser, Jwt
  <2>2. CASE ~byToken
    BY <1>1, <2>2 DEF CookieUser
  <2>3. QED  BY <2>1, <2>2
<1>4. q \in Request
  BY <1>2, <1>3 DEF Request
<1>5. /\ req' \in [Requests -> Request] /\ req'[r].token = (IF byToken THEN header ELSE None)
      /\ \A x \in Requests : x # r => req'[x] = req[x]
  BY <1>1, <1>4, BecomeType DEF IInv
<1>6. ASSUME NEW j \in killed  PROVE Pending(j)' = Pending(j)
  <2>1. r \notin Pending(j)
    BY <1>1 DEF Pending
  <2>2. req'[r].token # j
    <3>1. CASE byToken
      <4>1. PICK e \in active : e.jwt = header
        BY <1>1, <3>1 DEF BearerUser
      <4>2. QED  BY <1>5, <3>1, <4>1 DEF IInv, KilledIsOut
    <3>2. CASE ~byToken
      BY <1>2, <1>5, <3>2, NoTokenAssumption DEF IInv, KilledIsOut
    <3>3. QED  BY <3>1, <3>2
  <2>3. QED  BY <1>5, <2>1, <2>2 DEF Pending
<1>7. LateBound'
  BY <1>1, <1>6, LateStays
<1>8. QED  BY <1>1, <1>5, <1>7 DEF IInv, TypeOK, Entries, KilledIsOut

(* A request that goes on, and whose token is not another one.             *)
LEMMA OnStep ==
    ASSUME IInv, NEW r \in Requests, NEW q \in Request, Become(r, q),
           \A j \in killed : r \in Pending(j) <=> q.pc # "idle" /\ q.token = j,
           UNCHANGED <<clock, active, revoked, issued, grants, killed, passed, late>>
    PROVE  IInv'
<1>1. /\ req' \in [Requests -> Request] /\ req'[r] = q
      /\ \A x \in Requests : x # r => req'[x] = req[x]
  BY BecomeType DEF IInv
<1>2. \A j \in killed : Pending(j)' = Pending(j)
  BY <1>1 DEF Pending
<1>3. LateBound'
  BY <1>2, LateStays
<1>4. QED  BY <1>1, <1>3 DEF IInv, TypeOK, Entries, KilledIsOut

LEMMA AcceptOpenInv ==
    ASSUME IInv, NEW r \in Requests, NEW op \in Open, NEW cred \in Users, AcceptOpen(r, op, cred)
    PROVE  IInv'
<1>1. PICK q : q = [Idle EXCEPT !.op = op, !.pc = "queued", !.cred = cred]
  OBVIOUS
<1>2. q \in Request /\ q.token = None
  BY <1>1 DEF Idle, Request, Open, Making
<1>3. Become(r, q) /\ req[r].pc = "idle"
      /\ UNCHANGED <<clock, active, revoked, issued, grants, killed, passed, late>>
  BY <1>1 DEF AcceptOpen, rows
<1>4. ASSUME NEW j \in killed  PROVE r \notin Pending(j) /\ q.token # j
  BY <1>2, <1>3, NoTokenAssumption DEF Pending, IInv, TypeOK
<1>5. QED  BY <1>2, <1>3, <1>4, OnStep

LEMMA ArriveInv ==
    ASSUME IInv, NEW r \in Requests, Arrive(r)
    PROVE  IInv'
<1>1. ASSUME NEW header \in issued \cup {None}, NEW cookie \in Users \cup {None},
             NEW op \in {"create", "deleteAll", "use"}, Accept(r, op, header, cookie, None)
      PROVE  IInv'
  <2>1. op \in Checked /\ None \in issued \cup Users \cup {None}
    BY DEF Checked
  <2>2. QED  BY <1>1, <2>1, AcceptInv
<1>2. ASSUME NEW header \in issued \cup {None}, NEW cookie \in Users \cup {None},
             NEW op \in {"delete", "revoke"}, NEW j \in issued, Accept(r, op, header, cookie, j)
      PROVE  IInv'
  <2>1. op \in Checked /\ j \in issued \cup Users \cup {None}
    BY DEF Checked
  <2>2. QED  BY <1>2, <2>1, AcceptInv
<1>3. ASSUME NEW header \in issued \cup {None}, NEW cookie \in Users \cup {None},
             NEW u \in Users, Accept(r, "endGrant", header, cookie, u)
      PROVE  IInv'
  <2>1. "endGrant" \in Checked /\ u \in issued \cup Users \cup {None}
    BY DEF Checked
  <2>2. QED  BY <1>3, <2>1, AcceptInv
<1>4. ASSUME NEW op \in Open, NEW u \in Users, AcceptOpen(r, op, u)  PROVE IInv'
  BY <1>4, AcceptOpenInv
<1>5. QED  BY <1>1, <1>2, <1>3, <1>4 DEF Arrive

LEMMA TakeUpInv ==
    ASSUME IInv, NEW r \in Requests, TakeUp(r)
    PROVE  IInv'
<1>1. PICK q : q = [req[r] EXCEPT !.pc = "act"]
  OBVIOUS
<1>2. req[r] \in Request
  BY DEF IInv, TypeOK
<1>3. q \in Request /\ q.pc = "act" /\ q.token = req[r].token
  BY <1>1, <1>2 DEF Request
<1>4. Become(r, q) /\ req[r].pc = "queued"
      /\ UNCHANGED <<clock, active, revoked, issued, grants, killed, passed, late>>
  BY <1>1 DEF TakeUp, rows
<1>5. \A j \in killed : r \in Pending(j) <=> q.pc # "idle" /\ q.token = j
  BY <1>3, <1>4 DEF Pending
<1>6. QED  BY <1>3, <1>4, <1>5, OnStep

LEMMA AdmitInv ==
    ASSUME IInv, NEW r \in Requests, Admit(r)
    PROVE  IInv'
<1>1. PICK q : q = [req[r] EXCEPT !.user = req[r].cred]
  OBVIOUS
<1>2. req[r] \in Request
  BY DEF IInv, TypeOK
<1>3. q \in Request /\ q.pc = req[r].pc /\ q.token = req[r].token
  BY <1>1, <1>2 DEF Request
<1>4. Become(r, q) /\ UNCHANGED <<clock, active, revoked, issued, grants, killed, passed, late>>
  BY <1>1 DEF Admit, rows
<1>5. \A j \in killed : r \in Pending(j) <=> q.pc # "idle" /\ q.token = j
  BY <1>3 DEF Pending
<1>6. QED  BY <1>3, <1>4, <1>5, OnStep

(* A handler that ends and changes nothing but the grants.                 *)
LEMMA FinishInv ==
    ASSUME IInv, NEW r \in Requests, Finish(r) \/ EndGrant(r)
    PROVE  IInv'
<1>1. /\ req[r].pc = "act" /\ Become(r, Idle) /\ Count(r)
      /\ UNCHANGED <<clock, active, revoked, issued, killed, passed>> /\ grants' \subseteq grants
  BY DEF Finish, EndGrant, Acting, rows
<1>2. late' \in [Jwt -> Nat] /\ LateBound'
  BY <1>1, EndStep
<1>3. req' \in [Requests -> Request]
  BY <1>1, IdleType, BecomeType DEF IInv
<1>4. QED  BY <1>1, <1>2, <1>3 DEF IInv, TypeOK, Entries, KilledIsOut

LEMMA CreateInv ==
    ASSUME IInv, NEW r \in Requests, Create(r)
    PROVE  IInv'
<1>1. PICK n \in 1..MaxTokens :
         LET j == [user |-> req[r].user, n |-> n] IN
         /\ \A i \in issued : i.n < n
         /\ active' = active \cup {[jwt |-> j, expires |-> clock + TokenLife]}
         /\ issued' = issued \cup {j}
  BY DEF Create
<1> DEFINE j == [user |-> req[r].user, n |-> n]
           e == [jwt |-> j, expires |-> clock + TokenLife]
<1>2. /\ req[r].pc = "act" /\ req[r].user # None /\ Become(r, Idle) /\ Count(r)
      /\ UNCHANGED <<clock, revoked, grants, killed, passed>>
  BY DEF Create, Acting
<1>3. late' \in [Jwt -> Nat] /\ LateBound'
  BY <1>2, EndStep
<1>4. req' \in [Requests -> Request]
  BY <1>2, IdleType, BecomeType DEF IInv
<1>5. j \in Jwt /\ e \in Entry
  <2>1. clock + TokenLife \in Nat
    BY AuthorizationAssumption DEF IInv, TypeOK
  <2>2. req[r].user \in Users
    BY <1>2 DEF IInv, TypeOK, Request
  <2>3. QED  BY <2>1, <2>2 DEF Jwt, Entry
<1>6. j \notin issued /\ active' = active \cup {e} /\ issued' = issued \cup {j} /\ e.jwt = j
  <2>1. j.n = n /\ ~(n < n)
    OBVIOUS
  <2>2. QED  BY <1>1, <2>1
<1>. HIDE DEF j, e
<1>7. Entries' /\ KilledIsOut'
  BY <1>2, <1>6 DEF IInv, Entries, KilledIsOut
<1>8. TypeOK'
  BY <1>2, <1>3, <1>4, <1>5, <1>6 DEF IInv, TypeOK
<1>9. QED  BY <1>3, <1>7, <1>8 DEF IInv

(* A row goes, and its token is killed.                                    *)
LEMMA KilledRow ==
    ASSUME IInv, NEW e \in active \cup revoked,
           active' = active \ {e}, revoked' \subseteq revoked \cup {e},
           revoked' \cap active' = {}, issued' = issued, Kill(e.jwt)
    PROVE  Entries' /\ KilledIsOut' /\ e.jwt \in Jwt
<1>1. Entries'
  BY DEF IInv, Entries
<1>2. killed' \subseteq issued'
  BY DEF IInv, Entries, KilledIsOut, Kill
<1>3. \A f \in active' : f.jwt # e.jwt /\ f.jwt \notin killed
  BY DEF IInv, Entries, KilledIsOut
<1>4. KilledIsOut'
  BY <1>2, <1>3 DEF KilledIsOut, Kill
<1>5. e.jwt \in Jwt
  BY DEF IInv, TypeOK, Entry
<1>6. QED  BY <1>1, <1>4, <1>5

LEMMA DeleteInv ==
    ASSUME IInv, NEW r \in Requests, Delete(r)
    PROVE  IInv'
<1>1. PICK e \in active \cup revoked :
         active' = active \ {e} /\ revoked' = revoked \ {e} /\ Kill(e.jwt)
  BY DEF Delete
<1>2. UNCHANGED <<clock, issued, grants, req, late>>
  BY DEF Delete
<1>3. Entries' /\ KilledIsOut' /\ e.jwt \in Jwt
  <2>1. revoked' \subseteq revoked \cup {e} /\ revoked' \cap active' = {}
    BY <1>1 DEF IInv, Entries
  <2>2. QED  BY <1>1, <1>2, <2>1, KilledRow
<1>4. passed' \in [Jwt -> Nat] /\ LateBound'
  <2>1. \A k : Pending(k)' = Pending(k)
    BY <1>2 DEF Pending
  <2>2. late' \in [Jwt -> Nat] /\ \A k \in Jwt : late'[k] = late[k] /\ late[k] \in Nat
    BY <1>2 DEF IInv, TypeOK
  <2>3. \A k \in killed : late'[k] + Cardinality(Pending(k)') <= late[k] + Cardinality(Pending(k))
    <3>1. killed \subseteq Jwt
      BY DEF IInv, TypeOK
    <3>2. QED  BY <2>1, <2>2, <3>1, Counting
  <2>4. QED  BY <1>1, <1>3, <2>2, <2>3, KillStep
<1>5. killed' \subseteq Jwt
  BY <1>1, <1>3 DEF IInv, TypeOK, Kill
<1>6. QED  BY <1>1, <1>2, <1>3, <1>4, <1>5 DEF IInv, TypeOK

LEMMA RevokeInv ==
    ASSUME IInv, NEW r \in Requests, Revoke(r)
    PROVE  IInv'
<1>1. PICK e \in active :
         /\ active' = active \ {e} /\ revoked' = revoked \cup {e}
         /\ Become(r, Idle) /\ Count(r) /\ Kill(e.jwt)
  BY DEF Revoke
<1>2. req[r].pc = "act" /\ UNCHANGED <<clock, issued, grants>>
  BY DEF Revoke, Acting
<1>3. Entries' /\ KilledIsOut' /\ e.jwt \in Jwt
  <2>1. revoked' \subseteq revoked \cup {e} /\ revoked' \cap active' = {}
    BY <1>1 DEF IInv, Entries
  <2>2. QED  BY <1>1, <1>2, <2>1, KilledRow
<1>4. /\ late' \in [Jwt -> Nat]
      /\ \A k \in killed : late'[k] + Cardinality(Pending(k)') <= late[k] + Cardinality(Pending(k))
      /\ \A k \in Jwt \ killed : late'[k] = late[k]
  BY <1>1, <1>2, CountStep
<1>5. passed' \in [Jwt -> Nat] /\ LateBound'
  BY <1>1, <1>3, <1>4, KillStep
<1>6. killed' \subseteq Jwt /\ req' \in [Requests -> Request]
  BY <1>1, <1>3, IdleType, BecomeType DEF IInv, TypeOK, Kill
<1>7. QED  BY <1>1, <1>2, <1>3, <1>4, <1>5, <1>6 DEF IInv, TypeOK

(* Steps of no request.                                                    *)
LEMMA StayInv ==
    ASSUME IInv, Sweep \/ Tick \/ (\E u \in Users : GrantExpires(u)) \/ UNCHANGED vars
    PROVE  IInv'
<1>1. /\ UNCHANGED <<issued, req, killed, passed, late>> /\ clock' \in Nat
      /\ active' \subseteq active /\ revoked' \subseteq revoked /\ grants' \subseteq grants
  BY DEF Sweep, Tick, GrantExpires, vars, rows, IInv, TypeOK
<1>2. \A j : Pending(j)' = Pending(j)
  BY <1>1 DEF Pending
<1>3. LateBound'
  BY <1>1, <1>2, LateStays
<1>4. QED  BY <1>1, <1>3 DEF IInv, TypeOK, Entries, KilledIsOut

LEMMA NextInv == IInv /\ [Next]_vars => IInv'
<1> SUFFICES ASSUME IInv, [Next]_vars  PROVE IInv'
  OBVIOUS
<1>1. CASE Sweep \/ Tick \/ (\E u \in Users : GrantExpires(u)) \/ UNCHANGED vars
  BY <1>1, StayInv
<1>2. ASSUME NEW r \in Requests, Arrive(r)  PROVE IInv'
  BY <1>2, ArriveInv
<1>3. ASSUME NEW r \in Requests, Handle(r)  PROVE IInv'
  BY <1>3, TakeUpInv, FinishInv, AdmitInv, CreateInv, DeleteInv, RevokeInv DEF Handle
<1>4. QED  BY <1>1, <1>2, <1>3 DEF Next

(***************************************************************************)
(* Theorems                                                                *)
(***************************************************************************)
(* What a killed token did and may still do stays within the requests that *)
(* were past the check when it was killed, in every reachable state.       *)
THEOREM Inductive == Spec => []IInv
<1>1. QED  BY InitInv, NextInv, PTL DEF Spec

(* Requests, rows, tokens and grants have their types.                     *)
THEOREM TypeCorrect == Spec => []TypeOK
<1>1. IInv => TypeOK
  BY DEF IInv
<1>2. QED  BY <1>1, Inductive, PTL

(* A token that was revoked or deleted while requests that passed the      *)
(* check by it waited for a thread acts once for each of them at most,     *)
(* however many there are and however few the threads.                     *)
THEOREM LateActsBounded == Spec => []RevokedActsBounded
<1>1. IInv => RevokedActsBounded
  <2> SUFFICES ASSUME IInv, NEW j \in Jwt  PROVE late[j] <= passed[j]
    BY DEF RevokedActsBounded
  <2>1. late[j] \in Nat /\ passed[j] \in Nat /\ Cardinality(Pending(j)) \in Nat
    BY Counting DEF IInv, TypeOK
  <2>2. IF j \in killed THEN late[j] + Cardinality(Pending(j)) <= passed[j]
                        ELSE late[j] = 0 /\ passed[j] = 0
    BY DEF IInv, LateBound
  <2>3. QED  BY <2>1, <2>2
<1>2. QED  BY <1>1, Inductive, PTL

(***************************************************************************)
(* Tokens do not make tokens                                               *)
(***************************************************************************)
(* A request that was let in to make a token for u.                        *)
MakesFor(u, r) == req[r].op \in Making /\ req[r].user = u

LEMMA OutStep ==
    ASSUME IInv, Next, NEW u \in Users, Out(u)
    PROVE  Out(u)' /\ \A e \in active' \ active : e.jwt.user # u
<1>1. /\ clock \in Nat /\ CookieEnd \in Nat /\ clock >= CookieEnd /\ u \notin grants
      /\ \A r \in Requests : ~MakesFor(u, r)
  BY AuthorizationAssumption DEF Out, MakesFor, IInv, TypeOK
<1>2. \A cookie : CookieUser(cookie) = None
  BY <1>1 DEF CookieUser
<1>3. clock' >= CookieEnd /\ u \notin grants'
  <2>1. ASSUME Sweep \/ Tick \/ \E v \in Users : GrantExpires(v)
        PROVE  clock' >= CookieEnd /\ u \notin grants'
    <3>1. (clock' = clock \/ clock' = clock + 1) /\ grants' \subseteq grants
      BY <2>1 DEF Sweep, Tick, GrantExpires
    <3>2. QED  BY <1>1, <3>1
  <2>2. ASSUME NEW r \in Requests, Arrive(r)
        PROVE  UNCHANGED <<clock, grants>>
    BY <2>2 DEF Arrive, Accept, AcceptOpen
  <2>3. ASSUME NEW r \in Requests, Handle(r)
        PROVE  clock' = clock /\ grants' \subseteq grants
    <3>1. CASE TakeUp(r) \/ Finish(r) \/ Admit(r)
      BY <3>1 DEF TakeUp, Finish, Admit
    <3>2. CASE Create(r)
      BY <3>2 DEF Create
    <3>3. CASE Delete(r) \/ Revoke(r) \/ EndGrant(r)
      BY <3>3 DEF Delete, Revoke, EndGrant
    <3>4. QED  BY <2>3, <3>1, <3>2, <3>3 DEF Handle
  <2>4. QED  BY <1>1, <2>1, <2>2, <2>3 DEF Next
<1>4. ASSUME NEW r \in Requests, NEW q, Become(r, q), q.op \in Making => q.user # u
      PROVE  \A x \in Requests : ~MakesFor(u, x)'
  <2>1. req'[r] = q /\ \A x \in Requests : x # r => req'[x] = req[x]
    BY <1>4 DEF Become, IInv, TypeOK
  <2>2. QED  BY <1>1, <1>4, <2>1 DEF MakesFor
<1>5. ASSUME UNCHANGED req  PROVE \A x \in Requests : ~MakesFor(u, x)'
  BY <1>1, <1>5 DEF MakesFor
<1>6. ASSUME NEW r \in Requests, Arrive(r)
      PROVE  (\A x \in Requests : ~MakesFor(u, x)') /\ active' = active
  <2>1. ASSUME NEW op \in Checked, NEW header, NEW cookie, NEW target,
               Accept(r, op, header, cookie, target)
        PROVE  (\A x \in Requests : ~MakesFor(u, x)') /\ active' = active
    <3>1. op # "create"
      BY <1>2, <2>1 DEF Accept, LoginOnly
    <3>2. op \notin Making
      BY <3>1 DEF Checked, Making
    <3>3. QED  BY <1>4, <2>1, <3>2 DEF Accept, rows
  <2>2. ASSUME NEW op, NEW cred, AcceptOpen(r, op, cred)
        PROVE  (\A x \in Requests : ~MakesFor(u, x)') /\ active' = active
    <3>1. PICK q : q = [Idle EXCEPT !.op = op, !.pc = "queued", !.cred = cred]
      OBVIOUS
    <3>2. q.user = None /\ Become(r, q) /\ active' = active
      BY <2>2, <3>1 DEF AcceptOpen, Idle, rows
    <3>3. q.user # u
      BY <3>2, AuthorizationAssumption
    <3>4. QED  BY <1>4, <3>2, <3>3
  <2>3. QED  BY <1>6, <2>1, <2>2 DEF Arrive, Checked
<1>7. ASSUME NEW r \in Requests, Become(r, Idle)  PROVE \A x \in Requests : ~MakesFor(u, x)'
  BY <1>4, <1>7, IdleType DEF Making
<1>8. ASSUME NEW r \in Requests, Handle(r)
      PROVE  (\A x \in Requests : ~MakesFor(u, x)') /\ \A e \in active' \ active : e.jwt.user # u
  <2>1. CASE TakeUp(r)
    <3>1. PICK q : q = [req[r] EXCEPT !.pc = "act"]
      OBVIOUS
    <3>2. q.op = req[r].op /\ q.user = req[r].user
      BY <3>1 DEF IInv, TypeOK, Request
    <3>3. Become(r, q) /\ active' = active
      BY <2>1, <3>1 DEF TakeUp, rows
    <3>4. QED  BY <1>1, <1>4, <3>2, <3>3 DEF MakesFor
  <2>2. CASE Admit(r)
    <3>1. PICK q : q = [req[r] EXCEPT !.user = req[r].cred]
      OBVIOUS
    <3>2. q.user = req[r].cred
      BY <3>1 DEF IInv, TypeOK, Request
    <3>3. Become(r, q) /\ active' = active /\ req[r].cred # u
      BY <1>1, <1>2, <2>2, <3>1 DEF Admit, rows
    <3>4. QED  BY <1>4, <3>2, <3>3
  <2>3. CASE Create(r)
    <3>1. /\ Become(r, Idle) /\ req[r].user # u
          /\ \A e \in active' \ active : e.jwt.user = req[r].user
      BY <1>1, <2>3 DEF Create, Acting, MakesFor
    <3>2. QED  BY <1>7, <3>1
  <2>4. CASE Finish(r) \/ EndGrant(r)
    BY <1>7, <2>4 DEF Finish, EndGrant, rows
  <2>5. CASE Delete(r)
    BY <1>5, <2>5 DEF Delete
  <2>6. CASE Revoke(r)
    BY <1>7, <2>6 DEF Revoke
  <2>7. QED  BY <1>8, <2>1, <2>2, <2>3, <2>4, <2>5, <2>6 DEF Handle
<1>9. CASE Sweep \/ Tick \/ \E v \in Users : GrantExpires(v)
  <2>1. UNCHANGED req /\ active' \subseteq active
    BY <1>9 DEF Sweep, Tick, GrantExpires, rows
  <2>2. QED  BY <1>3, <1>5, <2>1 DEF Out, MakesFor
<1>10. QED  BY <1>3, <1>6, <1>8, <1>9 DEF Next, Out, MakesFor

(* Once a user's login is over and the refresh token ended, with nothing   *)
(* under way that was let in, no token is made for the user any more: by   *)
(* no route, create_cli and refresh included, with no Bearer token of      *)
(* anybody's, and with no cookie of before.                                *)
THEOREM OutSound == Spec => OutStaysOut
<1>1. IInv /\ [Next]_vars =>
        [\A u \in Users : Out(u) => Out(u)' /\ \A e \in active' \ active : e.jwt.user # u]_vars
  BY OutStep
<1>2. QED  BY <1>1, Inductive, PTL DEF Spec, OutStaysOut

(***************************************************************************)
(* TokenClaims: the inductive invariant, in named parts                    *)
(***************************************************************************)
(* The user had project p, and was its token holder at the same time.      *)
Had(p) == \E g \in past : p \in Mine(g)
HadAsHolder(p) == \E g \in past : p \in Mine(g) \cap g.holder
Alone(p) == \E g \in past : Named(g, ask.term) = {p}

PastInv == registry \in past

(* The project id of the encoder, once it is known: the one that was asked *)
(* for, or that of the one project found.                                  *)
Chosen ==
    \/ id = ask.project /\ id # Absent
    \/ ask.project = Absent /\ id \in Projects /\ Alone(id)

ChosenInv ==
    /\ step \in {"begin", "resolve"} => id = Absent
    /\ step = "resolve" => ask.project = Absent
    /\ step \in {"claims", "roles", "sign"} => Chosen \/ (id = Absent /\ ~core)

(* What the claims in hand say.                                            *)
SaidInv ==
    step \in {"roles", "sign"} =>
        /\ Chosen
        /\ said.projects # {} /\ \A p \in said.projects : Had(p)
        /\ id \in Projects => said.projects = {id}
        /\ said.holder => id \in Projects /\ HadAsHolder(id)
        /\ \A x \in said.roles : x \in GlobalRoles /\ \E g \in past : x \in g.roles

ClaimsInv ==
    /\ ClaimsTypeOK /\ PastInv /\ ChosenInv /\ SaidInv
    /\ ClaimsHeld /\ LongLivedForHolders

(***************************************************************************)
(* TokenClaims: the steps                                                  *)
(***************************************************************************)
LEMMA ClaimsInitInv ==
    ASSUME ClaimsInit
    PROVE  ClaimsInv
<1>1. ClaimsTypeOK
  BY ClaimsAssumption DEF ClaimsInit, ClaimsTypeOK, Nothing, Claim
<1>2. PastInv /\ ChosenInv /\ SaidInv /\ ClaimsHeld /\ LongLivedForHolders
  BY DEF ClaimsInit, PastInv, ChosenInv, SaidInv, ClaimsHeld, LongLivedForHolders
<1> QED BY <1>1, <1>2 DEF ClaimsInv

LEMMA NoToken ==
    ASSUME token' = Absent
    PROVE  ClaimsHeld' /\ LongLivedForHolders'
BY DEF ClaimsHeld, LongLivedForHolders

(* What the user had stays in the past, whatever the registry becomes.     *)
LEMMA PastGrows ==
    ASSUME past \subseteq past', core' = core, ask' = ask
    PROVE  /\ \A p \in Projects : /\ Had(p) => Had(p)'
                                  /\ HadAsHolder(p) => HadAsHolder(p)'
                                  /\ Alone(p) => Alone(p)'
           /\ \A x : (\E g \in past : x \in g.roles) => \E g \in past' : x \in g.roles
BY DEF Had, HadAsHolder, Alone, Mine, Groups, Named

LEMMA EditTyped ==
    ASSUME ClaimsTypeOK, Edit
    PROVE  registry' \in Registry
<1>1. \A p \in Projects : \A S \in SUBSET Projects : Flip(S, p) \in SUBSET Projects
  BY DEF Flip
<1>2. \A x \in Role : \A S \in SUBSET Role : Flip(S, x) \in SUBSET Role
  BY DEF Flip
<1>3. registry \in Registry
  BY DEF ClaimsTypeOK
<1>4. CASE \E p \in Projects : \/ registry' = [registry EXCEPT !.open = Flip(@, p)]
                               \/ registry' = [registry EXCEPT !.member = Flip(@, p)]
                               \/ registry' = [registry EXCEPT !.holder = Flip(@, p)]
  BY <1>1, <1>3, <1>4 DEF Registry
<1>5. ASSUME NEW p \in Projects, NEW n \in Terms,
             registry' = [registry EXCEPT !.hits[n] = Flip(@, p)]
      PROVE  registry' \in Registry
  <2>1. registry.hits \in [Terms -> SUBSET Projects]
    BY <1>3 DEF Registry
  <2>2. [registry.hits EXCEPT ![n] = Flip(@, p)] \in [Terms -> SUBSET Projects]
    BY <1>1, <2>1
  <2> QED BY <1>3, <1>5, <2>2 DEF Registry
<1>6. CASE \E x \in Role : registry' = [registry EXCEPT !.roles = Flip(@, x)]
  BY <1>2, <1>3, <1>6 DEF Registry
<1>7. CASE registry' = [registry EXCEPT !.profile = ~@]
  BY <1>3, <1>7 DEF Registry
<1> QED BY <1>4, <1>5, <1>6, <1>7 DEF Edit

LEMMA EditInv ==
    ASSUME ClaimsInv, Edit
    PROVE  ClaimsInv'
<1>1. /\ UNCHANGED <<ask, core, step, id, said, token>>
      /\ registry' \in past' /\ past \subseteq past'
      /\ past' = past \cup {registry'} /\ edits' = edits + 1
  BY DEF Edit, request
<1>2. ClaimsTypeOK'
  BY <1>1, EditTyped DEF ClaimsInv, ClaimsTypeOK
<1>3. ChosenInv' /\ (Chosen => Chosen')
  BY <1>1, PastGrows DEF ClaimsInv, ChosenInv, Chosen
<1>4. SaidInv'
  <2>1. said \in Claim
    BY DEF ClaimsInv, ClaimsTypeOK
  <2> QED BY <1>1, <1>3, <2>1, PastGrows DEF ClaimsInv, SaidInv, Claim
<1>5. ClaimsHeld' /\ LongLivedForHolders'
  <2>1. CASE token = Absent
    BY <1>1, <2>1, NoToken
  <2>2. CASE token # Absent
    <3>1. token \in Token
      BY <2>2 DEF ClaimsInv, ClaimsTypeOK
    <3>2. \A g : Mine(g)' = Mine(g)
      BY <1>1 DEF Mine, Groups
    <3> QED BY <1>1, <2>2, <3>1, <3>2 DEF ClaimsInv, ClaimsHeld, LongLivedForHolders, Named, Token
  <2> QED BY <2>1, <2>2
<1> QED BY <1>1, <1>2, <1>3, <1>4, <1>5 DEF ClaimsInv, PastInv

(* A step of the request that does not sign it.                            *)
LEMMA Unsigned ==
    ASSUME ClaimsInv, Quiet, token' = token
    PROVE  PastInv' /\ ClaimsHeld' /\ LongLivedForHolders'
BY DEF ClaimsInv, PastInv, ClaimsHeld, LongLivedForHolders, Quiet, Mine, Groups, Named

LEMMA RefuseInv ==
    ASSUME ClaimsInv, Quiet, Refuse
    PROVE  ClaimsInv'
<1>1. UNCHANGED <<registry, past, edits, ask, core, id, said, token>> /\ step' = "failed"
  BY DEF Quiet, Refuse, Goto
<1>2. ClaimsTypeOK'
  BY <1>1 DEF ClaimsInv, ClaimsTypeOK
<1>3. ChosenInv' /\ SaidInv'
  BY <1>1 DEF ChosenInv, SaidInv
<1> QED BY <1>1, <1>2, <1>3, Unsigned DEF ClaimsInv

LEMMA StartInv ==
    ASSUME ClaimsInv, Start
    PROVE  ClaimsInv'
<1>1. CASE Refuse
  BY <1>1, RefuseInv DEF Start
<1>2. CASE ask.project # Absent /\ id' = ask.project /\ step' = "claims"
           /\ UNCHANGED <<said, token>>
  <2>1. UNCHANGED <<registry, past, edits, ask, core, said, token>>
    BY <1>2 DEF Start, Quiet
  <2>2. ask.project \in Projects \cup {All, Absent}
    BY DEF ClaimsInv, ClaimsTypeOK, Asked
  <2>3. ClaimsTypeOK'
    BY <1>2, <2>1, <2>2 DEF ClaimsInv, ClaimsTypeOK
  <2>4. Chosen'
    BY <1>2, <2>1 DEF Chosen, Alone, Named
  <2>5. ChosenInv' /\ SaidInv'
    BY <1>2, <2>4 DEF ChosenInv, SaidInv
  <2> QED BY <2>1, <2>3, <2>5, Unsigned DEF ClaimsInv, Start
<1>3. CASE Goto(IF ask.op = "create" \/ core THEN "resolve" ELSE "claims")
           /\ ask.project = Absent /\ step = "begin"
  <2>1. UNCHANGED <<registry, past, edits, ask, core, id, said, token>>
    BY <1>3 DEF Start, Quiet, Goto
  <2>2. step' = "resolve" \/ (step' = "claims" /\ ~core)
    BY <1>3 DEF Goto
  <2>3. ClaimsTypeOK'
    BY <2>1, <2>2 DEF ClaimsInv, ClaimsTypeOK
  <2>4. id = Absent
    BY <1>3, <2>1 DEF ClaimsInv, ChosenInv
  <2>5. ChosenInv' /\ SaidInv'
    BY <1>3, <2>1, <2>2, <2>4 DEF ChosenInv, SaidInv
  <2> QED BY <2>1, <2>3, <2>5, Unsigned DEF ClaimsInv, Start
<1> QED BY <1>1, <1>2, <1>3 DEF Start

(* A name that finds one project found it now.                             *)
LEMMA ResolveInv ==
    ASSUME ClaimsInv, Resolve
    PROVE  ClaimsInv'
<1>1. ASSUME NEW p \in Projects, Named(registry, ask.term) = {p},
             id' = p, step' = "claims", UNCHANGED <<said, token>>
      PROVE  ClaimsInv'
  <2>1. UNCHANGED <<registry, past, edits, ask, core, said, token>>
    BY <1>1 DEF Resolve, Quiet
  <2>2. ClaimsTypeOK'
    BY <1>1, <2>1 DEF ClaimsInv, ClaimsTypeOK
  <2>3. Chosen'
    BY <1>1, <2>1 DEF ClaimsInv, ChosenInv, PastInv, Resolve, Chosen, Alone, Named
  <2>4. ChosenInv' /\ SaidInv'
    BY <1>1, <2>3 DEF ChosenInv, SaidInv
  <2> QED BY <2>1, <2>2, <2>4, Unsigned DEF ClaimsInv, Resolve
<1> QED BY <1>1, RefuseInv DEF Resolve

(* Claims are read of the registry as it is, and that becomes part of the  *)
(* past.                                                                   *)
LEMMA SayInv ==
    ASSUME ClaimsInv, Quiet, NEW claim \in Claim, NEW s \in {"roles", "sign"},
           Say(claim, s), Chosen,
           claim.projects # {}, \A p \in claim.projects : Had(p),
           id \in Projects => claim.projects = {id},
           claim.holder => id \in Projects /\ HadAsHolder(id),
           \A x \in claim.roles : x \in GlobalRoles /\ \E g \in past : x \in g.roles
    PROVE  ClaimsInv'
<1>1. UNCHANGED <<registry, past, edits, ask, core, id, token>> /\ said' = claim /\ step' = s
  BY DEF Quiet, Say
<1>2. ClaimsTypeOK'
  BY <1>1 DEF ClaimsInv, ClaimsTypeOK
<1>3. Chosen'
  BY <1>1 DEF Chosen, Alone, Named
<1>4. ChosenInv'
  BY <1>1, <1>3 DEF ChosenInv
<1>5. SaidInv'
  BY <1>1, <1>3 DEF SaidInv, Had, HadAsHolder, Mine, Groups
<1> QED BY <1>1, <1>2, <1>4, <1>5, Unsigned DEF ClaimsInv

LEMMA ReadProjectsInv ==
    ASSUME ClaimsInv, ReadProjects
    PROVE  ClaimsInv'
<1> DEFINE mine == registry.member \cap registry.open
           p == IF id = All THEN mine ELSE {id} \cap mine
           claim == [Nothing EXCEPT !.projects = p,
                                    !.holder = id # All /\ id \in registry.holder]
<1>1. CASE Refuse
  BY <1>1, RefuseInv DEF ReadProjects
<1>2. CASE p # {} /\ Say(claim, "roles")
  <2>1. registry \in Registry /\ registry \in past /\ core
    BY DEF ClaimsInv, ClaimsTypeOK, PastInv, ReadProjects
  <2>2. mine \in SUBSET Projects /\ mine = Mine(registry)
    BY <2>1 DEF Registry, Mine
  <2>3. p \in SUBSET Projects /\ \A o \in p : Had(o)
    BY <2>1, <2>2 DEF Had
  <2>4. /\ claim \in Claim /\ claim.projects = p /\ claim.roles = {}
        /\ claim.holder = (id # All /\ id \in registry.holder)
    BY <2>3 DEF Nothing, Claim
  <2>5. All \notin Projects
    BY ClaimsAssumption
  <2>6. id \in Projects => p = {id}
    BY <1>2, <2>5
  <2>7. claim.holder => id \in Projects /\ HadAsHolder(id)
    BY <1>2, <2>1, <2>2, <2>4 DEF HadAsHolder
  <2>8. Chosen
    BY <2>1 DEF ClaimsInv, ChosenInv, ReadProjects
  <2> HIDE DEF claim, p
  <2> QED BY <1>2, <2>3, <2>4, <2>6, <2>7, <2>8, SayInv DEF ReadProjects
<1>3. Refuse \/ (p # {} /\ Say(claim, "roles"))
  BY DEF ReadProjects
<1> QED BY <1>1, <1>2, <1>3

LEMMA ReadRolesInv ==
    ASSUME ClaimsInv, ReadRoles
    PROVE  ClaimsInv'
<1> DEFINE claim == [said EXCEPT !.roles = Exclude(registry.roles)]
<1>1. said \in Claim /\ registry \in Registry /\ registry \in past
  BY DEF ClaimsInv, ClaimsTypeOK, PastInv
<1>2. registry.roles \in SUBSET Role
  BY <1>1 DEF Registry
<1>3. /\ claim \in Claim /\ claim.projects = said.projects /\ claim.holder = said.holder
      /\ claim.roles = registry.roles \ Projects
  BY <1>1, <1>2 DEF Claim, Exclude
<1>4. \A x \in claim.roles : x \in GlobalRoles /\ \E g \in past : x \in g.roles
  BY <1>1, <1>2, <1>3 DEF Role
<1>5. Say(claim, "sign") /\ Quiet /\ step = "roles"
  BY DEF ReadRoles
<1> HIDE DEF claim
<1> QED BY <1>3, <1>4, <1>5, SayInv DEF ClaimsInv, SaidInv

(* Who gets past exclude_uuid_roles has a profile, and groups of it.       *)
LEMMA ReadLdapInv ==
    ASSUME ClaimsInv, ReadLdap
    PROVE  ClaimsInv'
<1> DEFINE claim == [Nothing EXCEPT !.projects = {id}]
<1>1. CASE Refuse
  BY <1>1, RefuseInv DEF ReadLdap
<1>2. CASE registry.profile /\ id \in Groups(registry) /\ Say(claim, "sign")
  <2>1. registry \in Registry /\ registry \in past /\ ~core
    BY DEF ClaimsInv, ClaimsTypeOK, PastInv, ReadLdap
  <2>2. id \in Projects /\ Had(id)
    BY <1>2, <2>1 DEF Groups, Had, Mine
  <2>3. claim \in Claim /\ claim.projects = {id} /\ ~claim.holder /\ claim.roles = {}
    BY <2>2 DEF Nothing, Claim
  <2>4. Chosen
    BY <2>2, ClaimsAssumption DEF ClaimsInv, ChosenInv, ReadLdap
  <2> HIDE DEF claim
  <2> QED BY <1>2, <2>2, <2>3, <2>4, SayInv DEF ReadLdap
<1>3. Refuse \/ (registry.profile /\ id \in Groups(registry) /\ Say(claim, "sign"))
  BY DEF ReadLdap
<1> QED BY <1>1, <1>2, <1>3

LEMMA SignInv ==
    ASSUME ClaimsInv, Sign
    PROVE  ClaimsInv'
<1>1. CASE Refuse
  BY <1>1, RefuseInv DEF Sign
<1>2. CASE /\ ~(ask.life > ShortLife /\ ~said.holder)
           /\ token' = [projects |-> said.projects, roles |-> said.roles, life |-> ask.life]
           /\ step' = "done" /\ UNCHANGED <<id, said>>
  <2>1. UNCHANGED <<registry, past, edits, ask, core, id, said>> /\ step = "sign"
    BY <1>2 DEF Sign, Quiet
  <2>2. said \in Claim /\ ask \in Asked
    BY DEF ClaimsInv, ClaimsTypeOK
  <2>3. /\ token' \in Token /\ token'.projects = said.projects
        /\ token'.roles = said.roles /\ token'.life = ask.life
    BY <1>2, <2>2 DEF Token, Claim, Asked
  <2>4. ClaimsTypeOK'
    BY <1>2, <2>1, <2>3 DEF ClaimsInv, ClaimsTypeOK
  <2>5. ChosenInv' /\ SaidInv'
    BY <1>2 DEF ChosenInv, SaidInv
  <2>6. /\ said.projects # {} /\ \A p \in said.projects : Had(p)
        /\ id \in Projects => said.projects = {id}
        /\ said.holder => id \in Projects /\ HadAsHolder(id)
        /\ \A x \in said.roles : x \in GlobalRoles /\ \E g \in past : x \in g.roles
        /\ Chosen
    BY <2>1 DEF ClaimsInv, SaidInv
  <2>7. (ask.project \in Projects => id = ask.project)
        /\ (ask.project = Absent => id \in Projects /\ Alone(id))
    BY <2>6, ClaimsAssumption DEF Chosen
  <2>8. ClaimsHeld'
    BY <2>1, <2>3, <2>6, <2>7 DEF ClaimsHeld, Had, Alone, Mine, Groups, Named
  <2>9. ask.life > ShortLife => said.holder
    BY <1>2
  <2>10. LongLivedForHolders'
    BY <2>1, <2>3, <2>6, <2>9 DEF LongLivedForHolders, HadAsHolder, Mine, Groups
  <2> QED BY <2>1, <2>4, <2>5, <2>8, <2>10 DEF ClaimsInv, PastInv
<1> QED BY <1>1, <1>2 DEF Sign

LEMMA ClaimsNextInv ==
    ASSUME ClaimsInv, [ClaimsNext]_claimVars
    PROVE  ClaimsInv'
<1>1. CASE Raise
  BY <1>1, RefuseInv DEF Raise
<1>2. CASE UNCHANGED claimVars
  BY <1>2 DEF claimVars, ClaimsInv, ClaimsTypeOK, PastInv, ChosenInv, SaidInv, Chosen,
     Had, HadAsHolder, Alone, Mine, Groups, Named, ClaimsHeld, LongLivedForHolders
<1> QED BY <1>1, <1>2, EditInv, StartInv, ResolveInv, ReadProjectsInv, ReadRolesInv, ReadLdapInv,
           SignInv DEF ClaimsNext

(* What a request for a token has read was so when it read it, and stays   *)
(* part of what was so since the request began.                            *)
THEOREM ClaimsInductive == ClaimsSpec => []ClaimsInv
<1> QED BY ClaimsInitInv, ClaimsNextInv, PTL DEF ClaimsSpec

(* Parameters, claims and tokens have their types.                         *)
THEOREM ClaimsTyped == ClaimsSpec => []ClaimsTypeOK
<1>1. ClaimsInv => ClaimsTypeOK
  BY DEF ClaimsInv
<1> QED BY <1>1, ClaimsInductive, PTL

(* However the registry changes between the calls of a request: what its   *)
(* token says was so at some time since it was asked for, and no token     *)
(* comes from LDAP without a profile.                                      *)
THEOREM ClaimsSound == ClaimsSpec => []ClaimsHeld
<1>1. ClaimsInv => ClaimsHeld
  BY DEF ClaimsInv
<1> QED BY <1>1, ClaimsInductive, PTL

(* A token that lives longer than the short ones is for one project, of    *)
(* which the user was token holder, and none for all projects is.          *)
THEOREM HoldersSound == ClaimsSpec => []LongLivedForHolders
<1>1. ClaimsInv => LongLivedForHolders
  BY DEF ClaimsInv
<1> QED BY <1>1, ClaimsInductive, PTL
=============================================================================
