----------------------------- MODULE TokensPage -----------------------------
(***************************************************************************)
(* The page of FABRIC tokens (cm-app, app/cm/page.tsx) and the calls it    *)
(* makes.  Answers come in any order.  A handler goes on after its await   *)
(* with the project that was selected when it was called, and the list     *)
(* shows what the answer that came last said.  Of the tokens of a project  *)
(* only the version matters: each create and each revoke makes a new one.  *)
(***************************************************************************)
EXTENDS Integers

CONSTANTS
    Projects, Service,  \* active projects; the service projects among them
    None,               \* no project, no list
    Calls,              \* calls that may be under way at a time
    MaxLists,           \* bound: times the list is asked for
    MaxChanges          \* bound: creates and revokes

VARIABLES
    version,        \* of each project's tokens in the service, and of the none
                    \* that an empty project id has
    tab, selected,  \* activeTab, selectedProjectId
    mine, projects, \* the user's projects; those that were loaded
    shown,          \* tokenList: whose, which version, from which request
    calls,          \* requests under way
    asked,          \* number of requests for the list so far
    made,           \* number of creates and revokes so far
    lost,           \* history: a change was made and told as an error
    stray           \* history: the project was changed while a request that
                    \* sets the list of the old one was under way

vars == <<version, tab, selected, mine, projects, shown, calls, asked, made, lost, stray>>

ASSUME PageAssumption ==
    /\ Service \subseteq Projects /\ None \notin Projects
    /\ MaxLists \in Nat /\ MaxChanges \in Nat

Of(t) == projects \cap (IF t = "service" THEN Service ELSE Projects \ Service)

(* A request: on whose tokens it acts, and which project was selected.     *)
Request ==
    [op : {"none", "projects", "list", "create", "revoke"},
     project : Projects \cup {None}, sel : Projects \cup {None},
     n : Nat,                   \* number of the request, of a list
     handled : BOOLEAN,         \* by the service,
     version : Nat]             \* which then read or made this version

Idle == [op |-> "none", project |-> None, sel |-> None, n |-> 0,
         handled |-> FALSE, version |-> 0]

Init ==
    /\ version = [p \in Projects \cup {None} |-> 0]
    /\ mine \in SUBSET Projects
    /\ tab = "fabric" /\ selected = None /\ projects = {}
    /\ shown = None
    /\ \E c \in Calls :
          calls = [d \in Calls |-> IF d = c THEN [Idle EXCEPT !.op = "projects"] ELSE Idle]
    /\ asked = 0 /\ made = 0
    /\ lost = FALSE /\ stray = FALSE

Out(op) == {c \in Calls : calls[c].op = op}

(* The full-page spinner of a create leaves nothing to click on.           *)
Idling == Out("create") = {}

Become(c, q) == calls' = [calls EXCEPT ![c] = q]
Free(c) == calls[c].op = "none"

List(p) == [Idle EXCEPT !.op = "list", !.project = p, !.sel = p, !.n = asked + 1]

(* listTokens                                                              *)
ListTokens(c, p) ==
    /\ asked < MaxLists /\ asked' = asked + 1
    /\ Become(c, List(p))

(* Selecting goes with asking for the list of the project.                 *)
Select(c, p) == selected' = p /\ ListTokens(c, p)

(***************************************************************************)
(* Loading, projects and tabs                                              *)
(***************************************************************************)
(* The page opens on the first service project, or else the first of the   *)
(* others.  Without projects, and when they do not come, nothing changes.  *)
LoadProjects(c) ==
    /\ calls[c].op = "projects"
    /\ \/ /\ projects' = mine /\ mine # {}
          /\ LET first == IF mine \cap Service # {} THEN mine \cap Service ELSE mine
             IN /\ tab' = IF mine \cap Service # {} THEN "service" ELSE "fabric"
                /\ \E p \in first : Select(c, p)
       \/ Become(c, Idle) /\ UNCHANGED <<projects, tab, selected, asked>>
    /\ UNCHANGED <<version, mine, shown, made, lost, stray>>

Strays(ops) == stray' = (stray \/ \E op \in ops : Out(op) # {})

(* Fault: what is asked for is the list of the project before.             *)
HandleSelectProjectOld(c, p) ==
    /\ Idling /\ Free(c) /\ p \in Of(tab) \ {selected} /\ selected # None
    /\ selected' = p /\ ListTokens(c, selected)
    /\ Strays({"revoke"})
    /\ UNCHANGED <<version, tab, mine, projects, shown, made, lost>>

(* The list of the other project stays until the new one comes.            *)
HandleSelectProject(c, p) ==
    /\ Idling /\ Free(c) /\ p \in Of(tab) \ {selected}
    /\ Select(c, p)
    /\ Strays({"revoke"})
    /\ UNCHANGED <<version, tab, mine, projects, shown, made, lost>>

(* The list is cleared, and the first project of the tab selected; where   *)
(* there is none, no list is asked for.                                    *)
HandleTabChange(c, t) ==
    /\ Idling /\ Free(c) /\ t # tab
    /\ tab' = t /\ shown' = None
    /\ \/ (\E p \in Of(t) : Select(c, p)) /\ Strays({"revoke"})
       \/ Of(t) = {} /\ selected' = None /\ UNCHANGED <<calls, asked>> /\ Strays({"revoke", "list"})
    /\ UNCHANGED <<version, mine, projects, made, lost>>

(***************************************************************************)
(* Tokens                                                                  *)
(***************************************************************************)
view == <<tab, selected, mine, projects>>

Send(c, q) ==
    /\ Idling /\ Free(c)
    /\ made < MaxChanges /\ made' = made + 1
    /\ Become(c, q)
    /\ UNCHANGED <<version, view, shown, asked, lost, stray>>

HandleCreateToken(c) ==
    /\ selected # None
    /\ Send(c, [Idle EXCEPT !.op = "create", !.project = selected, !.sel = selected])

(* What is revoked is a token in the list, whosever list it is by then.    *)
HandleRevokeToken(c) ==
    /\ shown # None /\ shown.of # None
    /\ Send(c, [Idle EXCEPT !.op = "revoke", !.project = shown.of, !.sel = selected])

(* The service handles a request some time before the answer arrives.      *)
Handle(c) ==
    /\ calls[c].op \in {"list", "create", "revoke"} /\ ~calls[c].handled
    /\ LET p == calls[c].project
           v == IF calls[c].op = "list" THEN version[p] ELSE version[p] + 1
       IN /\ version' = [version EXCEPT ![p] = v]
          /\ Become(c, [calls[c] EXCEPT !.handled = TRUE, !.version = v])
    /\ UNCHANGED <<view, shown, asked, made, lost, stray>>

(* The list that comes last is shown; an error leaves what is shown.       *)
AnswerList(c) ==
    /\ calls[c].op = "list"
    /\ Become(c, Idle)
    /\ \/ /\ calls[c].handled
          /\ shown' = [of |-> calls[c].project, version |-> calls[c].version, n |-> calls[c].n]
       \/ UNCHANGED shown
    /\ UNCHANGED <<version, view, asked, made, lost, stray>>

(* Fault: the list is not asked for again.                                 *)
AnswerChangeNoList(c) ==
    /\ calls[c].op \in {"create", "revoke"}
    /\ Become(c, Idle) /\ UNCHANGED asked
    /\ lost' = (lost \/ ~calls[c].handled)
    /\ UNCHANGED <<version, view, shown, made, stray>>

(* A create or revoke that went well is followed by a list of the project  *)
(* selected when it was sent.  After an error nothing is asked again, even *)
(* when the change was made.                                               *)
AnswerChange(c) ==
    /\ calls[c].op \in {"create", "revoke"}
    /\ \/ /\ calls[c].handled
          /\ ListTokens(c, calls[c].sel)
          /\ UNCHANGED lost
       \/ /\ Become(c, Idle) /\ UNCHANGED asked
          /\ lost' = (lost \/ calls[c].handled)
    /\ UNCHANGED <<version, view, shown, made, stray>>

Next ==
    \E c \in Calls :
        \/ LoadProjects(c) \/ HandleCreateToken(c) \/ HandleRevokeToken(c)
        \/ Handle(c) \/ AnswerList(c) \/ AnswerChange(c)
        \/ \E p \in Projects : HandleSelectProject(c, p)
        \/ \E t \in {"fabric", "service"} : HandleTabChange(c, t)

Spec == Init /\ [][Next]_vars

(***************************************************************************)
(* Properties                                                              *)
(***************************************************************************)
(* Requests, lists and versions have their types.                          *)
TypeOK ==
    /\ version \in [Projects \cup {None} -> Nat]
    /\ tab \in {"fabric", "service"} /\ selected \in Projects \cup {None}
    /\ mine \subseteq Projects /\ projects \subseteq mine
    /\ shown # None => shown \in [of : Projects \cup {None}, version : Nat, n : Nat]
    /\ calls \in [Calls -> Request]
    /\ asked \in Nat /\ made \in Nat
    /\ lost \in BOOLEAN /\ stray \in BOOLEAN

(* All requests were answered, the last list asked for among the answers,  *)
(* and by the last answer to a list.                                       *)
Settled == shown # None /\ shown.n = asked /\ \A c \in Calls : Free(c)

(* The list then has all that this page did, in whatever order the answers *)
(* came, unless a change was made and told as an error.                    *)
ListCurrent == Settled /\ ~lost => shown.version = version[shown.of]

(* It is the list of the selected project, unless the project was changed  *)
(* while a revoke was under way, or a list, to a tab without projects.     *)
ListOfSelected == Settled /\ ~stray => shown.of = selected
=============================================================================
