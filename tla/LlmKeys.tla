------------------------------ MODULE LlmKeys -------------------------------
(***************************************************************************)
(* The LLM key endpoints (tokens_controller.py) over OAuthCredMgr: keys    *)
(* live in the LiteLLM proxy, and a row of the LlmKeys table is kept       *)
(* beside each.  No transaction spans the two: every call of a request to  *)
(* LiteLLM or to the database is a step of its own, and each may fail.  A  *)
(* call to LiteLLM that fails may have been carried out all the same.      *)
(***************************************************************************)
EXTENDS Integers, FiniteSets, CoreRoles

CONSTANTS
    Users,          \* FABRIC users (uuid)
    Members,        \* active members of the project that may have LLM keys
    Requests,       \* worker threads
    MaxLlmKeys,     \* max_llm_keys (10)
    Durations,      \* durations clients ask for, in days
    MaxDuration,    \* llm-default-duration
    None,           \* no user, or no key
    MaxKeys,        \* bound: keys ever generated
    MaxClock,       \* bound: last value of the clock
    MaxFaults       \* bound: calls that fail

VARIABLES
    now,
    users,          \* users LiteLLM knows
    keys,           \* keys LiteLLM holds
    nextKey,        \* id of the key LiteLLM generates next
    rows,           \* the LlmKeys table
    req,            \* the request each worker thread handles
    handed,         \* history: ids of the keys clients got
    faults          \* history: number of calls that failed

vars == <<now, users, keys, nextKey, rows, req, handed, faults>>
proxy == <<users, keys, nextKey>>

Key == [id : Nat, user : Users, expires : Nat]

ASSUME LlmAssumption ==
    /\ Members \subseteq Users
    /\ MaxLlmKeys \in Nat \ {0}
    /\ Durations \subseteq Nat /\ MaxDuration \in Nat \ {0}
    /\ MaxKeys \in Nat /\ MaxClock \in Nat /\ MaxFaults \in Nat
    /\ None \notin Users /\ None \notin Key

Request ==
    [op : {"none", "create", "delete", "list"},
     pc : {"idle", "ensure", "count", "generate", "record",
           "owner", "erase", "unrecord", "read", "purge", "purgeRow", "reply"},
     caller : Users \cup {None},
     life : Nat,                 \* duration asked for
     undated : BOOLEAN,          \* the count raised before it imported datetime
     key : Key \cup {None},      \* the key generated, or to be deleted
     blind : BOOLEAN,            \* list_keys failed and gave an empty list
     left : SUBSET Key,          \* keys the list endpoint has still to look at
     kept : SUBSET Key,          \* active_keys
     seen : SUBSET Key,          \* history: the caller's keys when it asked
     answer : {"none", "ok", "error"}]

Idle == [op |-> "none", pc |-> "idle", caller |-> None, life |-> 0, undated |-> FALSE,
         key |-> None, blind |-> FALSE, left |-> {}, kept |-> {}, seen |-> {}, answer |-> "none"]

Init ==
    /\ now = 0
    /\ users = {} /\ keys = {} /\ nextKey = 1
    /\ rows = {}
    /\ req = [r \in Requests |-> Idle]
    /\ handed = {} /\ faults = 0

KeysOf(u) == {k \in keys : k.user = u}
Active(ks) == {k \in ks : k.expires >= now}

(***************************************************************************)
(* Moves of a request                                                      *)
(***************************************************************************)
At(r, pc, op) == req[r].pc = pc /\ req[r].op = op
Become(r, q) == req' = [req EXCEPT ![r] = q]
Goto(r, pc) == Become(r, [req[r] EXCEPT !.pc = pc])
Answer(r, answer) == Become(r, [req[r] EXCEPT !.pc = "reply", !.answer = answer])

(* A call fails, or it does not.                                           *)
Fault == faults < MaxFaults /\ faults' = faults + 1
NoFault == UNCHANGED faults

Begin(r, q) ==
    /\ req[r].pc = "idle"
    /\ Become(r, q)
    /\ NoFault /\ UNCHANGED <<now, proxy, rows, handed>>

(* Only active members of the configured project get any further.          *)
CreateBegin(r, u, life) ==
    /\ u \in Members
    /\ Begin(r, [Idle EXCEPT !.op = "create", !.caller = u, !.life = life, !.pc = "ensure"])

(* Clients name keys they have heard of.                                   *)
DeleteBegin(r, u, k) ==
    Begin(r, [Idle EXCEPT !.op = "delete", !.caller = u, !.key = k, !.pc = "owner"])

ListBegin(r, u) ==
    Begin(r, [Idle EXCEPT !.op = "list", !.caller = u, !.pc = "read", !.seen = KeysOf(u)])

(***************************************************************************)
(* create_llm_key                                                          *)
(***************************************************************************)
(* create_user: again for a user who is known, nothing changes.            *)
CreateUser(u) == users' = users \cup {u}

(* _ensure_llm_user_and_team: a user LiteLLM does not know is made known   *)
(* and added to the team; what fails here is logged and passed by.         *)
EnsureUser(r) ==
    /\ At(r, "ensure", "create")
    /\ \/ NoFault /\ CreateUser(req[r].caller)
       \/ Fault /\ users' = users
    /\ Goto(r, "count")
    /\ UNCHANGED <<now, keys, nextKey, rows, handed>>

(* get_user_info answers for users that LiteLLM knows.                     *)
Known(u) == u \in users

(* list_keys turns an error of the proxy into an empty list, and the proxy *)
(* has one for users it does not know.                                     *)
ListFails(u) == IF Known(u) THEN Fault ELSE NoFault

(* Fault: a user may have one key more than the limit.                     *)
CountKeysOneMore(r) ==
    /\ At(r, "count", "create")
    /\ \/ /\ Known(req[r].caller) /\ NoFault
          /\ IF Cardinality(Active(KeysOf(req[r].caller))) > MaxLlmKeys
               THEN Answer(r, "error") ELSE Goto(r, "generate")
       \/ ListFails(req[r].caller) /\ Goto(r, "generate")
       \/ Fault /\ Become(r, [req[r] EXCEPT !.pc = "generate", !.undated = TRUE])
    /\ UNCHANGED <<now, proxy, rows, handed>>

(* The caller's unexpired keys are counted, if they can be listed.  Any    *)
(* other exception is logged and passed by, and the import of datetime     *)
(* with it, which stands after the call to list_keys.                      *)
CountKeys(r) ==
    /\ At(r, "count", "create")
    /\ \/ /\ Known(req[r].caller) /\ NoFault
          /\ IF Cardinality(Active(KeysOf(req[r].caller))) >= MaxLlmKeys
               THEN Answer(r, "error") ELSE Goto(r, "generate")
       \/ ListFails(req[r].caller) /\ Goto(r, "generate")
       \/ Fault /\ Become(r, [req[r] EXCEPT !.pc = "generate", !.undated = TRUE])
    /\ UNCHANGED <<now, proxy, rows, handed>>

(* A duration below one day means the longest there is.                    *)
Duration(life) == IF life < 1 THEN MaxDuration ELSE life

(* generate_key: the key that LiteLLM makes.                               *)
NewKey(u, days) == [id |-> nextKey, user |-> u, expires |-> now + days]

(* The duration is checked once the keys are counted; then LiteLLM makes   *)
(* the key, of which the request learns unless the answer is lost.  A      *)
(* request without datetime raises once it has the key.                    *)
Generate(r) ==
    /\ At(r, "generate", "create")
    /\ \/ /\ Duration(req[r].life) > MaxDuration
          /\ Answer(r, "error")
          /\ NoFault /\ UNCHANGED <<keys, nextKey>>
       \/ /\ Duration(req[r].life) <= MaxDuration /\ nextKey <= MaxKeys
          /\ LET k == NewKey(req[r].caller, Duration(req[r].life)) IN
             /\ keys' = keys \cup {k}
             /\ nextKey' = nextKey + 1
             /\ \/ NoFault /\ ~req[r].undated
                   /\ Become(r, [req[r] EXCEPT !.pc = "record", !.key = k])
                \/ NoFault /\ req[r].undated /\ Answer(r, "error")
                \/ Fault /\ Answer(r, "error")
    /\ UNCHANGED <<now, users, rows, handed>>

(* add_llm_key                                                             *)
Record(r) ==
    /\ At(r, "record", "create")
    /\ rows' = rows \cup {req[r].key}
    /\ Answer(r, "ok")
    /\ NoFault /\ UNCHANGED <<now, proxy, handed>>

(***************************************************************************)
(* delete_llm_key                                                          *)
(***************************************************************************)
(* get_key_info answers for keys that LiteLLM has.                         *)
KeyInfo(k) == k \in keys

(* Fault: the owner of the key is not compared with the caller.            *)
CheckOwnerSkipped(r) ==
    /\ At(r, "owner", "delete")
    /\ IF KeyInfo(req[r].key) THEN Goto(r, "erase") ELSE Answer(r, "error")
    /\ NoFault /\ UNCHANGED <<now, proxy, rows, handed>>

(* The key's record tells whose it is; the owner of a key never changes.   *)
CheckOwner(r) ==
    /\ At(r, "owner", "delete")
    /\ IF /\ KeyInfo(req[r].key)
          /\ req[r].key.user = req[r].caller \/ IsFacilityOperator(req[r].caller)
         THEN Goto(r, "erase") ELSE Answer(r, "error")
    /\ NoFault /\ UNCHANGED <<now, proxy, rows, handed>>

(* LiteLLM's delete_key: done, or refused, or nobody knows.                *)
Erase(r) ==
    /\ At(r, "erase", "delete")
    /\ \/ NoFault /\ keys' = keys \ {req[r].key} /\ Goto(r, "unrecord")
       \/ Fault /\ keys' \in {keys, keys \ {req[r].key}} /\ Answer(r, "error")
    /\ UNCHANGED <<now, users, nextKey, rows, handed>>

(* remove_llm_key; its failure is logged and passed by.                    *)
RemoveRow(r) ==
    \/ NoFault /\ rows' = {k \in rows : k.id # req[r].key.id}
    \/ Fault /\ rows' = rows

Unrecord(r) ==
    /\ At(r, "unrecord", "delete")
    /\ RemoveRow(r)
    /\ Answer(r, "ok")
    /\ UNCHANGED <<now, proxy, handed>>

(***************************************************************************)
(* get_llm_keys                                                            *)
(***************************************************************************)
(* The keys are listed, and those expired are left to be deleted.          *)
ReadKeys(r) ==
    /\ At(r, "read", "list")
    /\ LET mine == KeysOf(req[r].caller) IN
       \/ /\ Known(req[r].caller) /\ NoFault
          /\ Become(r, [req[r] EXCEPT !.pc = "purge", !.kept = Active(mine),
                                      !.left = mine \ Active(mine)])
       \/ /\ ListFails(req[r].caller)
          /\ Become(r, [req[r] EXCEPT !.pc = "purge", !.blind = TRUE])
    /\ UNCHANGED <<now, proxy, rows, handed>>

(* Fault: the row goes first, and stays away when the key is not deleted.  *)
PurgeRowFirst(r) ==
    /\ At(r, "purge", "list")
    /\ \/ req[r].left = {} /\ Answer(r, "ok") /\ NoFault /\ UNCHANGED <<keys, rows>>
       \/ \E k \in req[r].left :
             LET q == [req[r] EXCEPT !.left = @ \ {k}] IN
             /\ rows' = {x \in rows : x.id # k.id}
             /\ \/ NoFault /\ keys' = keys \ {k}
                   /\ Become(r, [q EXCEPT !.pc = "purgeRow", !.key = k])
                \/ Fault /\ keys' = keys /\ Become(r, [q EXCEPT !.kept = @ \cup {k}])
    /\ UNCHANGED <<now, users, nextKey, handed>>

(* Fault: a key that could not be deleted is left out of the answer.       *)
PurgeForgets(r) ==
    /\ At(r, "purge", "list")
    /\ \/ req[r].left = {} /\ Answer(r, "ok") /\ NoFault /\ UNCHANGED keys
       \/ \E k \in req[r].left :
             LET q == [req[r] EXCEPT !.left = @ \ {k}] IN
             \/ NoFault /\ keys' = keys \ {k}
                /\ Become(r, [q EXCEPT !.pc = "purgeRow", !.key = k])
             \/ Fault /\ keys' \in {keys, keys \ {k}} /\ Become(r, q)
    /\ UNCHANGED <<now, users, nextKey, rows, handed>>

(* One expired key after the other is deleted in LiteLLM; one that could   *)
(* not be deleted is listed as if it were active.                          *)
Purge(r) ==
    /\ At(r, "purge", "list")
    /\ \/ req[r].left = {} /\ Answer(r, "ok") /\ NoFault /\ UNCHANGED keys
       \/ \E k \in req[r].left :
             LET q == [req[r] EXCEPT !.left = @ \ {k}] IN
             \/ NoFault /\ keys' = keys \ {k}
                /\ Become(r, [q EXCEPT !.pc = "purgeRow", !.key = k])
             \/ Fault /\ keys' \in {keys, keys \ {k}}
                /\ Become(r, [q EXCEPT !.kept = @ \cup {k}])
    /\ UNCHANGED <<now, users, nextKey, rows, handed>>

(* Its row goes when the key is gone.                                      *)
PurgeRow(r) ==
    /\ At(r, "purgeRow", "list")
    /\ RemoveRow(r)
    /\ Goto(r, "purge")
    /\ UNCHANGED <<now, proxy, handed>>

(***************************************************************************)
(* A call raises and the exception reaches the controller, or the service  *)
(* is stopped; the calls whose failure the code catches are above.         *)
(***************************************************************************)
Abort(r) ==
    /\ req[r].pc \notin {"idle", "reply"}
    /\ Fault /\ Answer(r, "error")
    /\ UNCHANGED <<now, proxy, rows, handed>>

Reply(r) ==
    /\ req[r].pc = "reply"
    /\ handed' = IF req[r].op = "create" /\ req[r].answer = "ok"
                   THEN handed \cup {req[r].key.id} ELSE handed
    /\ Become(r, Idle)
    /\ NoFault /\ UNCHANGED <<now, proxy, rows>>

Tick ==
    /\ now < MaxClock
    /\ now' = now + 1
    /\ UNCHANGED <<proxy, rows, req, handed, faults>>

Arrive(r) ==
    \/ \E u \in Users, life \in Durations : CreateBegin(r, u, life)
    \/ \E u \in Users, k \in rows \cup keys : DeleteBegin(r, u, k)
    \/ \E u \in Users : ListBegin(r, u)

Step(r) ==
    \/ EnsureUser(r) \/ CountKeys(r) \/ Generate(r) \/ Record(r)
    \/ CheckOwner(r) \/ Erase(r) \/ Unrecord(r)
    \/ ReadKeys(r) \/ Purge(r) \/ PurgeRow(r)
    \/ Reply(r)

Next == Tick \/ \E r \in Requests : Arrive(r) \/ Step(r) \/ Abort(r)

Spec == Init /\ [][Next]_vars

(***************************************************************************)
(* Properties                                                              *)
(***************************************************************************)
TypeOK ==
    /\ now \in Nat
    /\ users \subseteq Users
    /\ keys \subseteq Key
    /\ nextKey \in Nat
    /\ rows \subseteq Key
    /\ req \in [Requests -> Request]
    /\ handed \subseteq Nat /\ faults \in Nat

(* A key a client got and that still works is on record: the row is written*)
(* before the key is handed out, and removed after the key is gone, however*)
(* deletions and purges of the same key overlap and fail.                  *)
Recorded == \A k \in keys : k.id \in handed => k \in rows

(* The keys are counted several calls before the new one is generated: the *)
(* other worker threads may each add one past the limit, and each call that*)
(* fails lets another pass, since a failed count counts none.              *)
LlmQuotaBounded ==
    \A u \in Users :
        Cardinality(Active(KeysOf(u))) <= MaxLlmKeys - 1 + Cardinality(Requests) + faults

(* The list holds every key the caller had when it asked and still has,    *)
(* the expired ones among them that could not be deleted, unless LiteLLM's *)
(* failure to list them was swallowed.                                     *)
ListingComplete ==
    \A r \in Requests :
        req[r].pc = "reply" /\ req[r].op = "list" /\ req[r].answer = "ok" /\ ~req[r].blind
        => req[r].seen \cap keys \subseteq req[r].kept

(* A key is deleted in LiteLLM only once it expired or while its owner     *)
(* deletes it.                                                             *)
ErasureJustified ==
    [][\A k \in keys \ keys' :
          \/ k.expires < now
          \/ \E r \in Requests : /\ req[r].pc = "erase" /\ req[r].key = k
                                 /\ req[r].caller \in {k.user} \cup Operators]_vars
=============================================================================
