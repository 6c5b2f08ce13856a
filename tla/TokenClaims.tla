---------------------------- MODULE TokenClaims ----------------------------
(***************************************************************************)
(* What a FABRIC token says (token_encoder.py, core_api.py, ldap.py): the  *)
(* projects and roles of the user who asked for it.  They are put together *)
(* from several calls to the registry, the Core API or else COmanage's     *)
(* LDAP, while memberships and roles change between any two of them.  The  *)
(* model follows one request for a token from its parameters to the        *)
(* signature; the endpoint around it is in CredMgr, and the loop over the  *)
(* pages of a list of projects in Paging.                                  *)
(***************************************************************************)
EXTENDS Integers, FiniteSets

CONSTANTS
    Projects,       \* projects of the registry
    Terms,          \* project names that clients send
    All,            \* the parameter "all"
    Absent,         \* no parameter, no project id, no token
    GlobalRoles,    \* roles that are of no project
    Lives,          \* lifetimes that clients ask for, in hours
    ShortLife,      \* token-lifetime, in whole hours
    VouchCookies,   \* enable-vouch-cookie
    AtFirst,        \* what the registry may have when the request begins
    MaxEdits        \* bound: changes of the registry

VARIABLES
    registry,       \* what the registry has of the user
    past,           \* history: what it had since the request began
    edits,          \* history: number of its changes
    ask,            \* the parameters of the request
    core,           \* enable-core-api
    step,           \* the next call of the request
    id,             \* project_id of the encoder
    said,           \* its claims, as far as they are known
    token           \* the token, once it is signed

claimVars == <<registry, past, edits, ask, core, step, id, said, token>>
request == <<ask, core, id, said, token>>

(* A role of one project has the project's id in its name; it stands for   *)
(* that project here.                                                      *)
Role == GlobalRoles \cup Projects

Registry ==
    [open : SUBSET Projects,        \* active projects
     member : SUBSET Projects,      \* the user is member, creator or owner
     holder : SUBSET Projects,      \* and may have long-lived tokens
     hits : [Terms -> SUBSET Projects],     \* projects that a search finds
     roles : SUBSET Role,
     profile : BOOLEAN]             \* LDAP knows the user

Asked ==
    [op : {"create", "refresh"},
     project : Projects \cup {All, Absent}, term : Terms \cup {All, Absent},
     life : Lives]

Claim == [projects : SUBSET Projects, holder : BOOLEAN, roles : SUBSET Role]
Token == [projects : SUBSET Projects, roles : SUBSET Role, life : Lives]

ASSUME ClaimsAssumption ==
    /\ Lives \subseteq Nat /\ ShortLife \in Nat
    /\ VouchCookies \in BOOLEAN /\ MaxEdits \in Nat
    /\ {All, Absent} \cap (Projects \cup Terms) = {} /\ All # Absent
    /\ GlobalRoles \cap Projects = {}
    /\ Absent \notin Token
    /\ AtFirst \subseteq Registry

Nothing == [projects |-> {}, holder |-> FALSE, roles |-> {}]

ClaimsInit ==
    /\ registry \in AtFirst /\ past = {registry} /\ edits = 0
    /\ ask \in Asked /\ core \in BOOLEAN
    /\ step = "begin" /\ id = Absent /\ said = Nothing /\ token = Absent

(***************************************************************************)
(* The registry changes                                                    *)
(***************************************************************************)
Flip(S, x) == (S \ {x}) \cup ({x} \ S)

Edit ==
    /\ step \notin {"done", "failed"} /\ edits < MaxEdits /\ edits' = edits + 1
    /\ \/ \E p \in Projects :
             \/ registry' = [registry EXCEPT !.open = Flip(@, p)]
             \/ registry' = [registry EXCEPT !.member = Flip(@, p)]
             \/ registry' = [registry EXCEPT !.holder = Flip(@, p)]
             \/ \E n \in Terms : registry' = [registry EXCEPT !.hits[n] = Flip(@, p)]
       \/ \E x \in Role : registry' = [registry EXCEPT !.roles = Flip(@, x)]
       \/ registry' = [registry EXCEPT !.profile = ~@]
    /\ past' = past \cup {registry'}
    /\ UNCHANGED <<request, step>>

(***************************************************************************)
(* The request                                                             *)
(***************************************************************************)
Quiet == UNCHANGED <<registry, past, edits, ask, core>>
Goto(s) == step' = s /\ UNCHANGED <<id, said, token>>
Refuse == Goto("failed")
Say(claim, s) == said' = claim /\ step' = s /\ UNCHANGED <<id, token>>

(* get_vouch_cookie: a login brings its cookie; for a refresh one is made  *)
(* of the id token, if that is enabled.                                    *)
HasCookie == ask.op = "create" \/ VouchCookies

(* CoreApi takes its calls in a session with the cookie, and raises        *)
(* without one.                                                            *)
NoSession == ~HasCookie

(* A project is named by its id or else by its name, and the id token is   *)
(* read; that of a refresh is validated.                                   *)
Start ==
    /\ step = "begin"
    /\ \/ ask.project = Absent /\ ask.term = Absent /\ Refuse
       \/ ask.project # Absent
          /\ id' = ask.project /\ step' = "claims" /\ UNCHANGED <<said, token>>
       \/ ask.project = Absent /\ ask.term # Absent
          /\ Goto(IF ask.op = "create" \/ core THEN "resolve" ELSE "claims")
    /\ Quiet

(* The user's projects that a name finds; "all" finds each of them.        *)
Named(g, term) == IF term = All THEN g.member ELSE g.member \cap g.hits[term]

(* get_project_id: the name has to find exactly one.  create_token asks    *)
(* before it does anything else, the encoder only for a refresh.           *)
Resolve ==
    /\ step = "resolve"
    /\ \/ \E p \in Projects :
             /\ Named(registry, ask.term) = {p} /\ ~NoSession
             /\ id' = p /\ step' = "claims" /\ UNCHANGED <<said, token>>
       \/ ((\A p \in Projects : Named(registry, ask.term) # {p}) \/ NoSession) /\ Refuse
    /\ Quiet

(* Fault: for "all" the flags of the first project are kept, too.          *)
ReadProjectsFlags ==
    /\ step = "claims" /\ core
    /\ LET p == IF id = All THEN registry.member \cap registry.open
                ELSE {id} \cap registry.member \cap registry.open
       IN IF p = {} \/ NoSession THEN Refuse
          ELSE \E first \in p :
                 Say([Nothing EXCEPT !.projects = p, !.holder = first \in registry.holder], "roles")
    /\ Quiet

(* One project has to be active and the user's, and its memberships are    *)
(* kept; of all the user's projects the inactive are left out, and no      *)
(* memberships are kept.                                                   *)
ReadProjects ==
    /\ step = "claims" /\ core
    /\ LET mine == registry.member \cap registry.open
           p == IF id = All THEN mine ELSE {id} \cap mine
       IN IF p = {} \/ NoSession THEN Refuse
          ELSE Say([Nothing EXCEPT !.projects = p, !.holder = id # All /\ id \in registry.holder],
                   "roles")
    /\ Quiet

(* exclude_uuid_roles: roles that have a project's id in their name go.    *)
Exclude(roles) == roles \ Projects

(* get_user_roles: the roles are those of the user, whatever the project.  *)
ReadRoles ==
    /\ step = "roles"
    /\ Say([said EXCEPT !.roles = Exclude(registry.roles)], "sign")
    /\ Quiet

(* LDAP: the names of the user's active groups.  One that contains the     *)
(* project's id makes the user a member of it, and no group's contains     *)
(* "all".                                                                  *)
Groups(g) == (g.member \cup g.roles) \cap Projects

(* Fault: without roles, None, there is nothing to exclude.                *)
ReadLdapNoRoles ==
    /\ step = "claims" /\ ~core
    /\ IF registry.profile /\ (id \notin Groups(registry) \/ registry.roles # {}) THEN Refuse
       ELSE Say([Nothing EXCEPT !.projects = {id} \cap Projects], "sign")
    /\ Quiet

(* A user without profile passes the test for membership, with None for    *)
(* roles, and exclude_uuid_roles raises on None; it does as well on any    *)
(* role, since LDAP's are strings where the Core API's are records.        *)
ReadLdap ==
    /\ step = "claims" /\ ~core
    /\ LET member == registry.profile => id \in Groups(registry)
           readable == registry.profile /\ registry.roles = {}
       IN IF ~member \/ ~readable THEN Refuse
          ELSE Say([Nothing EXCEPT !.projects = {id}], "sign")
    /\ Quiet

(* A lifetime that is not short needs a project whose memberships say that *)
(* the user is a token holder.  Then the claims are signed.                *)
Sign ==
    /\ step = "sign"
    /\ IF ask.life > ShortLife /\ ~said.holder THEN Refuse
       ELSE /\ token' = [projects |-> said.projects, roles |-> said.roles, life |-> ask.life]
            /\ step' = "done" /\ UNCHANGED <<id, said>>
    /\ Quiet

(* Any call of the request raises.                                         *)
Raise ==
    /\ step \notin {"done", "failed"}
    /\ Refuse /\ Quiet

ClaimsNext ==
    \/ Edit \/ Start \/ Resolve \/ ReadProjects \/ ReadRoles \/ ReadLdap \/ Sign \/ Raise

ClaimsSpec == ClaimsInit /\ [][ClaimsNext]_claimVars

(***************************************************************************)
(* Properties                                                              *)
(***************************************************************************)
ClaimsTypeOK ==
    /\ registry \in Registry /\ past \subseteq Registry /\ edits \in Nat
    /\ ask \in Asked /\ core \in BOOLEAN
    /\ step \in {"begin", "resolve", "claims", "roles", "sign", "done", "failed"}
    /\ id \in Projects \cup {All, Absent} /\ said \in Claim
    /\ token \in Token \cup {Absent}

(* The projects that a token may name, as the registry g has it.           *)
Mine(g) == IF core THEN g.open \cap g.member
           ELSE IF g.profile THEN Groups(g) ELSE {}

(* What a token says of the user was so at some time since it was asked    *)
(* for, whatever changed between the calls, and it is for the project that *)
(* was asked for, or that alone had the name.  In particular nobody gets   *)
(* one from LDAP without having a profile there.                           *)
ClaimsHeld ==
    token # Absent =>
        /\ token.projects # {} /\ \A p \in token.projects : \E g \in past : p \in Mine(g)
        /\ \A x \in token.roles : x \in GlobalRoles /\ \E g \in past : x \in g.roles
        /\ ask.project \in Projects => token.projects = {ask.project}
        /\ ask.project = Absent =>
              \E p \in Projects, g \in past : token.projects = {p} /\ Named(g, ask.term) = {p}

(* A token that is not short-lived is for one project, of which the user   *)
(* was a member and token holder at the same time since it was asked for.  *)
LongLivedForHolders ==
    token # Absent /\ token.life > ShortLife =>
        \E p \in Projects, g \in past :
            token.projects = {p} /\ p \in Mine(g) \cap g.holder
=============================================================================
