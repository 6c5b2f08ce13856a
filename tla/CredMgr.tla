------------------------------ MODULE CredMgr -------------------------------
(***************************************************************************)
(* The token endpoints of the Credential Manager (tokens_controller.py)    *)
(* over OAuthCredMgr (oauth_credmgr.py) and the Tokens table (db_api.py).  *)
(*                                                                         *)
(* A request runs in a worker thread and makes several calls, each in a    *)
(* database transaction of its own: req[r].pc says which comes next, so    *)
(* requests interleave between transactions and nowhere else.              *)
(***************************************************************************)
EXTENDS TokenStore, CoreRoles

CONSTANTS
    Users,          \* authenticated users (user_email)
    Projects,       \* project ids
    Requests,       \* worker threads: requests handled at the same time
    Second,         \* ticks of the clock per second
    TokenHolders,   \* users with is_token_holder in their project memberships
    Lifetimes,      \* lifetimes clients ask for, in ticks
    TokenLifeTime,  \* token-lifetime: up to here a token is short-lived
    RefreshLife,    \* default lifetime, the one a refreshed token gets
    PageLimit,      \* default limit of get_tokens (5)
    MaxLLT,         \* max-llt-count-per-project (5)
    Limits,         \* limit values of GET /tokens, None when not given
    Offsets,        \* offset values of GET /tokens, None when not given
    Ops,            \* endpoints the workload calls
    MaxTokens,      \* bound: rows ever added
    MaxRefresh,     \* bound: refreshes
    MaxClock        \* bound: last value of the clock

VARIABLES
    now,            \* the clock, in ticks
    tokens,         \* the Tokens table: a set of rows
    nextId,         \* the token_id sequence
    idTokens,       \* CILogon id tokens handed out by refreshes
    req,            \* the request each worker thread handles
    stored,         \* history: every row ever added, as [id, jwt]
    acked           \* history: tokens whose revocation or deletion was confirmed

vars == <<now, tokens, nextId, idTokens, req, stored, acked>>

OpNames == {"create", "refresh", "revoke", "deleteOne", "deleteAll", "list",
            "revokeList", "validate"}

ASSUME CredMgrAssumption ==
    /\ None \notin Users \cup Projects
    /\ TokenHolders \subseteq Users /\ Operators \subseteq Users
    /\ Second \in Nat \ {0}
    /\ Lifetimes \subseteq Nat \ {0} /\ RefreshLife \in Nat \ {0}
    /\ TokenLifeTime \in Nat
    /\ PageLimit \in Nat \ {0} /\ MaxLLT \in Nat
    /\ Limits \subseteq Nat \cup {None} /\ Offsets \subseteq Nat \cup {None}
    /\ None \notin Nat
    /\ Ops \subseteq OpNames
    /\ MaxTokens \in Nat /\ MaxRefresh \in Nat /\ MaxClock \in Nat

(* Lifetimes are asked for in hours.                                       *)
ASSUME LifetimeAssumption ==
    \A life \in Lifetimes \cup {RefreshLife} : life % Second = 0

(***************************************************************************)
(* Values                                                                  *)
(***************************************************************************)
(* The claims that tell two tokens apart: iat and exp are whole seconds,   *)
(* RS256 signs deterministically and no claim is drawn per token, so equal *)
(* claims give equal tokens.  idt is the CILogon id token the claims were  *)
(* taken from: 0 for the login in the cookie, n for the n-th refresh.      *)
Jwt == [user : Users, project : Projects, idt : Nat, iat : Nat, exp : Nat]

ASSUME NoneAssumption == None \notin Jwt

Stored == {"Valid", "Refreshed", "Revoked"}      \* states a row can have
Row == [id : Nat, jwt : Jwt, state : Stored, expires : Nat]

(* "raised": update_token found no row, or several; "error": a call failed. *)
Answers == {"none", "ok", "error", "raised", "notfound", "limit", "lifetime",
            "INVALID", "Valid", "Refreshed", "Revoked", "Expired"}

Request ==
    [op : OpNames \cup {"none"},
     pc : {"idle", "lookup", "sweep", "sweeping", "query", "stamp", "encode", "add",
           "update", "select", "removing", "reply"},
     caller : Users \cup {None},      \* user_email of the claims
     project : Projects \cup {None},
     jwt : Jwt \cup {None},           \* the token asked about, or just made
     idt : Nat,
     life : Nat,
     limit : Nat \cup {None}, offset : Nat \cup {None},
     expires : Nat,                   \* expires_at, once stamped
     rows : SUBSET Row,               \* rows read and still to be handled
     seen : SUBSET Jwt,               \* history: what was so when the request began, or
                                      \* read what it deletes
     answer : Answers]

Idle == [op |-> "none", pc |-> "idle", caller |-> None, project |-> None,
         jwt |-> None, idt |-> 0, life |-> 0, limit |-> None, offset |-> None,
         expires |-> 0, rows |-> {}, seen |-> {}, answer |-> "none"]

Init ==
    /\ now = 0
    /\ tokens = {}
    /\ nextId = 1
    /\ idTokens = 0
    /\ req = [r \in Requests |-> Idle]
    /\ stored = {}
    /\ acked = {}

IsShortLived(life) == life <= TokenLifeTime

(* A JWT has no fractions of a second.                                     *)
WholeSecond(t) == t - (t % Second)

(* Fault: revoke forgets the filter on the user.                           *)
RevokeScopeUnfiltered(u) == None

(* The user filter of revoke's query: none for a facility operator.        *)
RevokeScope(u) == IF IsFacilityOperator(u) THEN None ELSE u

(* The state get_tokens reports: expired rows show as Expired.             *)
ViewState(t) == IF t.expires < now THEN "Expired" ELSE t.state

(* Tokens and hashes a client can name: those whose row was added.         *)
Known == {s.jwt : s \in stored}

(* The same token was added twice.                                         *)
Twin(jwt) == \E a, b \in stored : a # b /\ a.jwt = jwt /\ b.jwt = jwt

(* Bound: the requests under way may still add a row each.                 *)
Room == nextId + Cardinality({r \in Requests : /\ req[r].op \in {"create", "refresh"}
                                               /\ req[r].pc # "reply"}) <= MaxTokens

(***************************************************************************)
(* Arrivals                                                                *)
(***************************************************************************)
Begin(r, q) ==
    /\ req[r].pc = "idle"
    /\ q.op \in Ops
    /\ req' = [req EXCEPT ![r] = q]
    /\ UNCHANGED <<now, tokens, nextId, stored, acked>>

(* create_token counts the user's tokens first when a long lifetime is     *)
(* asked for.                                                              *)
CreateFirst(life) == IF IsShortLived(life) THEN "stamp" ELSE "sweep"

(* A project may be given by name; its id is looked up then.               *)
CreateBegin(r, u, p, life) ==
    /\ Room
    /\ \E pc \in {"lookup", CreateFirst(life)} :
          Begin(r, [Idle EXCEPT !.op = "create", !.caller = u, !.project = p, !.life = life,
                               !.pc = pc])
    /\ UNCHANGED idTokens

(* refresh_token: CILogon answers with a new id token, and the token is    *)
(* made without a count.                                                   *)
RefreshBegin(r, u, p) ==
    /\ Room /\ idTokens < MaxRefresh
    /\ idTokens' = idTokens + 1
    /\ Begin(r, [Idle EXCEPT !.op = "refresh", !.caller = u, !.project = p,
                             !.idt = idTokens + 1, !.life = RefreshLife, !.pc = "stamp"])

RevokeBegin(r, u, j) ==
    /\ Begin(r, [Idle EXCEPT !.op = "revoke", !.caller = u, !.jwt = j, !.pc = "lookup"])
    /\ UNCHANGED idTokens

DeleteOneBegin(r, u, j) ==
    /\ Begin(r, [Idle EXCEPT !.op = "deleteOne", !.caller = u, !.jwt = j, !.pc = "select"])
    /\ UNCHANGED idTokens

DeleteAllBegin(r, u) ==
    /\ Begin(r, [Idle EXCEPT !.op = "deleteAll", !.caller = u, !.pc = "select"])
    /\ UNCHANGED idTokens

ListBegin(r, u, limit, offset) ==
    /\ Begin(r, [Idle EXCEPT !.op = "list", !.caller = u, !.pc = "sweep",
                             !.limit = limit, !.offset = offset,
                             !.seen = {t.jwt : t \in Matching(tokens, u, None, None)}])
    /\ UNCHANGED idTokens

RevokeListBegin(r, p) ==
    /\ Begin(r, [Idle EXCEPT !.op = "revokeList", !.project = p, !.pc = "sweep",
                             !.seen = {t.jwt : t \in {s \in Matching(tokens, None, p, None) :
                                                         s.state = "Revoked"}}])
    /\ UNCHANGED idTokens

(* validate_token decodes the token first; an expired one is answered      *)
(* without a look at the table.                                            *)
ValidateBegin(r, j) ==
    /\ \/ /\ j.exp <= now
          /\ Begin(r, [Idle EXCEPT !.op = "validate", !.jwt = j, !.pc = "reply",
                                   !.answer = "Expired", !.seen = acked \cap {j}])
       \/ /\ j.exp > now
          /\ Begin(r, [Idle EXCEPT !.op = "validate", !.jwt = j, !.pc = "sweep",
                                   !.seen = acked \cap {j}])
    /\ UNCHANGED idTokens

(***************************************************************************)
(* Steps of a request.  Goto and Answer move request r; the caller says    *)
(* what becomes of the table.                                              *)
(***************************************************************************)
Goto(r, pc, rows) == req' = [req EXCEPT ![r].pc = pc, ![r].rows = rows]
Answer(r, answer, rows) ==
    req' = [req EXCEPT ![r].pc = "reply", ![r].answer = answer, ![r].rows = rows]

At(r, pc, ops) == req[r].pc = pc /\ req[r].op \in ops

(* The Core API is asked for the id of a project, or for the roles of who  *)
(* revokes.                                                                *)
Lookup(r) ==
    /\ req[r].pc = "lookup"
    /\ Goto(r, IF req[r].op = "create" THEN CreateFirst(req[r].life) ELSE "sweep", {})
    /\ UNCHANGED <<now, tokens, nextId, idTokens, stored, acked>>

(* Where delete_expired_tokens returns to: get_tokens, or the end of the   *)
(* token generation.                                                       *)
AfterSweep(q) ==
    IF q.op \in {"create", "refresh"} /\ q.jwt # None THEN "add" ELSE "query"

(* delete_expired_tokens reads one page of the expired rows of the user,   *)
(* or of everybody for the endpoints that know no user,                    *)
SweepUser(q) == IF q.op = "revoke" THEN RevokeScope(q.caller) ELSE q.caller

Sweep(r) ==
    /\ req[r].pc = "sweep"
    /\ \E P \in Slice(ExpiredRows(Matching(tokens, SweepUser(req[r]), None, None), now),
                      0, PageLimit) :
          Goto(r, IF P = {} THEN AfterSweep(req[r]) ELSE "sweeping", P)
    /\ UNCHANGED <<now, tokens, nextId, idTokens, stored, acked>>

(* Fault: the row stays in the list and is removed again.                  *)
SweepRemoveAgain(r) ==
    /\ req[r].pc = "sweeping"
    /\ \E t \in Newest(req[r].rows) : tokens' = RemoveToken(tokens, t.jwt)
    /\ UNCHANGED <<now, nextId, idTokens, req, stored, acked>>

(* and removes them one by one, in the order it read them.                 *)
SweepRemove(r) ==
    /\ req[r].pc = "sweeping"
    /\ \E t \in Newest(req[r].rows) :
          /\ tokens' = RemoveToken(tokens, t.jwt)
          /\ Goto(r, IF req[r].rows = {t} THEN AfterSweep(req[r]) ELSE "sweeping",
                  req[r].rows \ {t})
    /\ UNCHANGED <<now, nextId, idTokens, stored, acked>>

(* create_token: the check on the number of long-lived tokens.             *)
CheckLimit(r) ==
    /\ At(r, "query", {"create"})
    /\ \E P \in Slice(Matching(tokens, req[r].caller, req[r].project, None), 0, PageLimit) :
          IF Cardinality(P) > MaxLLT THEN Answer(r, "limit", {}) ELSE Goto(r, "stamp", {})
    /\ UNCHANGED <<now, tokens, nextId, idTokens, stored, acked>>

(* created_at and expires_at are taken before the token is encoded, with   *)
(* all the digits of the clock.                                            *)
Stamp(r) ==
    /\ req[r].pc = "stamp"
    /\ req' = [req EXCEPT ![r].pc = "encode", ![r].expires = now + req[r].life]
    /\ UNCHANGED <<now, tokens, nextId, idTokens, stored, acked>>

(* encode asks the Core API for the claims, refuses a long lifetime to a   *)
(* user who is not a token holder, and signs with the time it is then, in  *)
(* whole seconds.                                                          *)
Encode(r) ==
    /\ req[r].pc = "encode"
    /\ IF ~IsShortLived(req[r].life) /\ req[r].caller \notin TokenHolders
         THEN Answer(r, "lifetime", {})
         ELSE req' = [req EXCEPT
                ![r].pc = "sweep",
                ![r].jwt = [user |-> req[r].caller, project |-> req[r].project,
                            idt |-> req[r].idt, iat |-> WholeSecond(now),
                            exp |-> WholeSecond(now) + req[r].life]]
    /\ UNCHANGED <<now, tokens, nextId, idTokens, stored, acked>>

(* Fault: expires_at is taken when the row is written.                     *)
AddTokenLate(r) ==
    /\ req[r].pc = "add"
    /\ tokens' = tokens \cup
          {[id |-> nextId, jwt |-> req[r].jwt, expires |-> now + req[r].life,
            state |-> IF req[r].op = "refresh" THEN "Refreshed" ELSE "Valid"]}
    /\ stored' = stored \cup {[id |-> nextId, jwt |-> req[r].jwt]}
    /\ nextId' = nextId + 1
    /\ Answer(r, "ok", {})
    /\ UNCHANGED <<now, idTokens, acked>>

AddToken(r) ==
    /\ req[r].pc = "add"
    /\ tokens' = tokens \cup
          {[id |-> nextId, jwt |-> req[r].jwt, expires |-> req[r].expires,
            state |-> IF req[r].op = "refresh" THEN "Refreshed" ELSE "Valid"]}
    /\ stored' = stored \cup {[id |-> nextId, jwt |-> req[r].jwt]}
    /\ nextId' = nextId + 1
    /\ Answer(r, "ok", {})
    /\ UNCHANGED <<now, idTokens, acked>>

(* Fault: a token shown as expired counts as revoked already.              *)
RevokeReadExpired(r) ==
    /\ At(r, "query", {"revoke"})
    /\ LET hits == Matching(tokens, RevokeScope(req[r].caller), None, req[r].jwt) IN
       \/ hits = {} /\ Answer(r, "notfound", {})
       \/ \E t \in Newest(hits) :
             IF ViewState(t) \in {"Revoked", "Expired"} THEN Answer(r, "ok", {})
                                                        ELSE Goto(r, "update", {})
    /\ UNCHANGED <<now, tokens, nextId, idTokens, stored, acked>>

(* revoke_identity_token looks the token up; one already revoked is        *)
(* reported as done.                                                       *)
RevokeRead(r) ==
    /\ At(r, "query", {"revoke"})
    /\ LET hits == Matching(tokens, RevokeScope(req[r].caller), None, req[r].jwt) IN
       \/ hits = {} /\ Answer(r, "notfound", {})
       \/ \E t \in Newest(hits) :
             IF ViewState(t) = "Revoked" THEN Answer(r, "ok", {}) ELSE Goto(r, "update", {})
    /\ UNCHANGED <<now, tokens, nextId, idTokens, stored, acked>>

(* Fault: a row that is no longer there is written again.                  *)
RevokeUpsert(r) ==
    /\ req[r].pc = "update"
    /\ tokens' = IF OneRow(tokens, req[r].jwt)
                    THEN UpdateToken(tokens, req[r].jwt, "Revoked")
                    ELSE tokens \cup {[id |-> nextId, jwt |-> req[r].jwt,
                                      expires |-> req[r].jwt.exp, state |-> "Revoked"]}
    /\ Answer(r, "ok", {})
    /\ UNCHANGED <<now, nextId, idTokens, stored, acked>>

RevokeUpdate(r) ==
    /\ req[r].pc = "update"
    /\ \/ /\ OneRow(tokens, req[r].jwt)
          /\ tokens' = UpdateToken(tokens, req[r].jwt, "Revoked")
          /\ Answer(r, "ok", {})
       \/ /\ ~OneRow(tokens, req[r].jwt)
          /\ Answer(r, "raised", {})
          /\ UNCHANGED tokens
    /\ UNCHANGED <<now, nextId, idTokens, stored, acked>>

Jwts(rows) == {t.jwt : t \in rows}

(* delete_tokens reads one page of the caller's rows,                      *)
DeleteSelect(r) ==
    /\ req[r].pc = "select"
    /\ LET mine == Matching(tokens, req[r].caller, None, req[r].jwt) IN
       \E P \in Slice(mine, 0, PageLimit) :
          req' = [req EXCEPT ![r] = [req[r] EXCEPT
                     !.seen = Jwts(mine),
                     !.rows = P,
                     !.pc = IF P = {} THEN "reply" ELSE "removing",
                     !.answer = IF P = {} THEN "ok" ELSE "none"]]
    /\ UNCHANGED <<now, tokens, nextId, idTokens, stored, acked>>

(* Fault: a row whose removal raises is passed over.                       *)
DeleteRemovePasses(r) ==
    /\ req[r].pc = "removing"
    /\ \E t \in Newest(req[r].rows) :
          /\ tokens' \in {tokens, RemoveToken(tokens, t.jwt)}
          /\ IF req[r].rows = {t} THEN Answer(r, "ok", {})
                                  ELSE Goto(r, "removing", req[r].rows \ {t})
    /\ UNCHANGED <<now, nextId, idTokens, stored, acked>>

(* and removes them one by one.                                            *)
DeleteRemove(r) ==
    /\ req[r].pc = "removing"
    /\ \E t \in Newest(req[r].rows) :
          /\ tokens' = RemoveToken(tokens, t.jwt)
          /\ IF req[r].rows = {t} THEN Answer(r, "ok", {})
                                  ELSE Goto(r, "removing", req[r].rows \ {t})
    /\ UNCHANGED <<now, nextId, idTokens, stored, acked>>

(* Fault: rows that expired after the sweep are left out of the list.      *)
ListReadUnexpired(r) ==
    /\ At(r, "query", {"list"})
    /\ Answer(r, "ok", Matching(tokens, req[r].caller, None, None)
                         \ ExpiredRows(tokens, now))
    /\ UNCHANGED <<now, tokens, nextId, idTokens, stored, acked>>

ListRead(r) ==
    /\ At(r, "query", {"list"})
    /\ \E P \in Slice(Matching(tokens, req[r].caller, None, None),
                      req[r].offset, req[r].limit) : Answer(r, "ok", P)
    /\ UNCHANGED <<now, tokens, nextId, idTokens, stored, acked>>

(* Fault: the state is tested after expired rows were relabelled.          *)
RevokeListReadRelabelled(r) ==
    /\ At(r, "query", {"revokeList"})
    /\ \E P \in Slice({t \in Matching(tokens, None, req[r].project, None) :
                          ViewState(t) = "Revoked"}, 0, PageLimit) : Answer(r, "ok", P)
    /\ UNCHANGED <<now, tokens, nextId, idTokens, stored, acked>>

RevokeListRead(r) ==
    /\ At(r, "query", {"revokeList"})
    /\ \E P \in Slice({t \in Matching(tokens, None, req[r].project, None) :
                          t.state = "Revoked"}, 0, PageLimit) : Answer(r, "ok", P)
    /\ UNCHANGED <<now, tokens, nextId, idTokens, stored, acked>>

(* Fault: a row that is found and not expired makes the token valid.       *)
ValidateReadFound(r) ==
    /\ At(r, "query", {"validate"})
    /\ LET hits == Matching(tokens, None, None, req[r].jwt) IN
       \/ hits = {} /\ Answer(r, "INVALID", {})
       \/ \E t \in hits : Answer(r, IF t.expires < now THEN "Expired" ELSE "Valid", {})
    /\ UNCHANGED <<now, tokens, nextId, idTokens, stored, acked>>

ValidateRead(r) ==
    /\ At(r, "query", {"validate"})
    /\ LET hits == Matching(tokens, None, None, req[r].jwt) IN
       \/ hits = {} /\ Answer(r, "INVALID", {})
       \/ \E t \in Newest(hits) : Answer(r, ViewState(t), {})
    /\ UNCHANGED <<now, tokens, nextId, idTokens, stored, acked>>

(* A call to the database or to the Core API raises, or the service is     *)
(* stopped: what the request has committed stays, and nothing more is done.*)
Abort(r) ==
    /\ req[r].pc \notin {"idle", "reply"}
    /\ Answer(r, "error", {})
    /\ UNCHANGED <<now, tokens, nextId, idTokens, stored, acked>>

(* The client gets its answer.                                             *)
Confirms(q) == /\ q.answer = "ok"
               /\ \/ q.op = "revoke"
                  \/ q.op = "deleteOne" /\ q.caller = q.jwt.user

Reply(r) ==
    /\ req[r].pc = "reply"
    /\ acked' = IF Confirms(req[r]) THEN acked \cup {req[r].jwt} ELSE acked
    /\ req' = [req EXCEPT ![r] = Idle]
    /\ UNCHANGED <<now, tokens, nextId, idTokens, stored>>

Tick ==
    /\ now < MaxClock
    /\ now' = now + 1
    /\ UNCHANGED <<tokens, nextId, idTokens, req, stored, acked>>

Arrive(r) ==
    \/ \E u \in Users, p \in Projects, life \in Lifetimes : CreateBegin(r, u, p, life)
    \/ \E u \in Users, p \in Projects : RefreshBegin(r, u, p)
    \/ \E u \in Users, j \in Known : RevokeBegin(r, u, j)
    \/ \E u \in Users, j \in Known : DeleteOneBegin(r, u, j)
    \/ \E u \in Users : DeleteAllBegin(r, u)
    \/ \E u \in Users, limit \in Limits, offset \in Offsets : ListBegin(r, u, limit, offset)
    \/ \E p \in Projects : RevokeListBegin(r, p)
    \/ \E j \in Known : ValidateBegin(r, j)

AskCore(r) == Lookup(r) \/ Encode(r)

Step(r) ==
    \/ Sweep(r) \/ SweepRemove(r)
    \/ CheckLimit(r) \/ Stamp(r) \/ AddToken(r)
    \/ RevokeRead(r) \/ RevokeUpdate(r)
    \/ DeleteSelect(r) \/ DeleteRemove(r)
    \/ ListRead(r) \/ RevokeListRead(r) \/ ValidateRead(r)
    \/ Reply(r)

Next == Tick \/ \E r \in Requests : Arrive(r) \/ AskCore(r) \/ Step(r) \/ Abort(r)

Spec == Init /\ [][Next]_vars

(* A worker thread runs on, and each of its transactions ends.  That the   *)
(* Core API answers, and that the loop over its pages comes to an end, is  *)
(* not assumed.                                                            *)
Fairness == \A r \in Requests : WF_vars(Step(r))
FairSpec == Spec /\ Fairness

(***************************************************************************)
(* Properties                                                              *)
(***************************************************************************)
TypeOK ==
    /\ now \in Nat
    /\ tokens \in SUBSET Row
    /\ nextId \in Nat
    /\ idTokens \in Nat
    /\ req \in [Requests -> Request]
    /\ stored \in SUBSET [id : Nat, jwt : Jwt]
    /\ acked \in SUBSET Jwt

(* Once a revocation or the owner's deletion of a token was confirmed, no  *)
(* row of it is left that is not revoked, whatever requests run beside it: *)
(* revoke reads and updates in two transactions, deletion reads a page and *)
(* removes row by row, and sweeps remove rows in between.                  *)
AckedIsFinal ==
    \A j \in acked : ~Twin(j) => \A t \in tokens : t.jwt = j => t.state = "Revoked"

(* A validation that began after that confirmation never answers Valid.    *)
NeverValidAgain ==
    \A r \in Requests :
        req[r].pc = "reply" /\ req[r].op = "validate"
            /\ req[r].answer \in {"Valid", "Refreshed"}
        => \A j \in req[r].seen : Twin(j)

(* expires_at is stamped before the token is signed, with fractions of a   *)
(* second that the token's exp lacks: a row claims a longer life than its  *)
(* token by less than a second.                                            *)
RowWithinToken == \A t \in tokens : t.expires < t.jwt.exp + Second

(* DELETE /tokens answers that all tokens of the user were deleted.  What  *)
(* it has then deleted of those it found is all of them or, of more than   *)
(* one page, as many as a page has, whatever is added, revoked and swept   *)
(* between its read and its removals.                                      *)
DeleteAllDeletesAll ==
    \A r \in Requests :
        req[r].pc = "reply" /\ req[r].op = "deleteAll" /\ req[r].answer = "ok"
            /\ (\A j \in req[r].seen : ~Twin(j))
        => LET left == {j \in req[r].seen : \E t \in tokens : t.jwt = j}
           IN  left = {} \/ Cardinality(req[r].seen \ left) >= PageLimit

(* The revoke list holds only hashes that are revoked, and lacks one that  *)
(* was revoked when the request began and still is in the table only if it *)
(* is a full page of tokens that expire no earlier.                        *)
RevokeListExact ==
    \A r \in Requests :
        req[r].pc = "reply" /\ req[r].op = "revokeList" /\ req[r].answer = "ok"
        => \A t \in tokens : ~Twin(t.jwt) =>
              IF \E s \in req[r].rows : s.jwt = t.jwt
                THEN t.state = "Revoked"
                ELSE t.jwt \in req[r].seen =>
                        /\ Cardinality(req[r].rows) = PageLimit
                        /\ \A s \in req[r].rows : s.expires >= t.expires

(* GET /tokens without paging holds every token of the caller that was in  *)
(* the table when the request began and still is.                          *)
ListComplete ==
    \A r \in Requests :
        req[r].pc = "reply" /\ req[r].op = "list" /\ req[r].answer = "ok"
            /\ req[r].limit = None
        => \A t \in tokens : t.jwt \in req[r].seen /\ ~Twin(t.jwt) =>
              \E s \in req[r].rows : s.jwt = t.jwt

(* Long-lived tokens made by create_token for one user in one project.     *)
LongLived(u, p) ==
    {t \in Matching(tokens, u, p, None) :
        t.jwt.idt = 0 /\ ~IsShortLived(t.jwt.exp - t.jwt.iat)}

(* A user may have MaxLLT long-lived tokens in a project.  The check reads *)
(* the table well before the row is added, so every worker thread may      *)
(* carry one token past it, and no more.                                   *)
LLTOvershootBounded ==
    \A u \in Users, p \in Projects :
        Cardinality(LongLived(u, p)) <= MaxLLT + Cardinality(Requests)

(* A facility operator's revocation finds the tokens of all users: it does *)
(* not report a token as missing whose row is there.                       *)
OperatorFindsAll ==
    \A r \in Requests :
        req[r].pc = "reply" /\ req[r].op = "revoke" /\ req[r].answer = "notfound"
            /\ req[r].caller \in Operators
        => \A t \in tokens : t.jwt # req[r].jwt

(* A row leaves the table only after its expiry or while its owner deletes *)
(* tokens, even when a sweep that was asked for by nobody in particular    *)
(* (validate, revoke list) removes rows it selected some time ago.         *)
RemovalJustified ==
    [][\A t \in tokens :
          \/ \E s \in tokens' : s.id = t.id
          \/ t.expires < now
          \/ Twin(t.jwt)
          \/ \E r \in Requests : req[r].pc = "removing" /\ req[r].caller = t.jwt.user]_vars

(* A row changes its state only by a revocation its owner asked for, and   *)
(* only to Revoked.                                                        *)
OnlyOwnerRevokes ==
    [][\A t \in tokens, s \in tokens' :
          s.id = t.id /\ s # t =>
             /\ s = [t EXCEPT !.state = "Revoked"]
             /\ \E r \in Requests : /\ req[r].pc = "update"
                                    /\ req[r].caller \in {t.jwt.user} \cup Operators]_vars

(* A request ends unless the Core API keeps it: nothing else in it may go  *)
(* on for ever, although it works off lists that other requests shrink.    *)
Answered ==
    \A r \in Requests :
        []<>(req[r].pc = "idle") \/ <>[](req[r].pc \in {"lookup", "encode"})

(* The endpoints implement the ledger.                                     *)
Entries(states) ==
    {[jwt |-> t.jwt, expires |-> t.expires] :
        t \in {s \in tokens : s.state \in states /\ ~Twin(s.jwt)}}

Ledger == INSTANCE TokenLedger WITH
    clock   <- now,
    active  <- Entries({"Valid", "Refreshed"}),
    revoked <- Entries({"Revoked"}),
    gone    <- {j \in Known : ~Twin(j) /\ \A t \in tokens : t.jwt # j},
    doubled <- {j \in Known : Twin(j)},
    asking  <- {[what |-> IF req[r].pc = "update" THEN "revoke" ELSE "delete",
                 user |-> req[r].caller] :
                    r \in {s \in Requests : req[s].pc \in {"update", "removing"}}}

ImplementsLedger == Ledger!Spec
=============================================================================
