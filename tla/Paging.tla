------------------------------- MODULE Paging -------------------------------
(***************************************************************************)
(* Reading a long list page by page, while others change it.  Four loops   *)
(* do that, each with its own way to go on and to stop: the service's over *)
(* the user's projects (core_api.py), the web application's over all       *)
(* projects (core-api-service.ts), the storage page's over the project     *)
(* members (storage/page.tsx), and the tokens page that reads one page and *)
(* leaves it there.  The lists are kept at Core API and at the storage     *)
(* service, sorted; a page is cut out of the list as it is then.           *)
(***************************************************************************)
EXTENDS Integers, FiniteSets

CONSTANTS
    N,              \* what may be in the list, in the order of the list: 1..N
    Limit,          \* page size, 200 in the code
    MaxListChanges  \* bound: times the list changes

VARIABLES
    list,           \* what is in the list
    loop,           \* the loop that reads it
    offset, total,  \* its variables; total is what the last page said
    got,            \* how many times it was given each item
    fetched,        \* how many items it was given in all
    phase,          \* fetch, done, failed
    live,           \* the active projects, which only the service looks at
    before,         \* history: the list when the loop began
    added, removed  \* history: what was put in and taken out since

readVars == <<list, loop, offset, total, got, fetched, phase, live, before, added, removed>>

ASSUME PagingAssumption == N \in Nat /\ Limit \in Nat \ {0} /\ MaxListChanges \in Nat

Items == 1..N
Loops == {"core", "web", "members", "one"}
MaxOffset == 2 * N      \* bound: a loop that gets here is stuck here
Unknown == N + 1        \* total before the first page: more than any list has

ReadInit ==
    /\ list \in SUBSET Items /\ before = list
    /\ loop \in Loops
    /\ live \in IF loop = "core" THEN SUBSET Items ELSE {{}}
    /\ offset = 0 /\ total = Unknown /\ fetched = 0
    /\ got = [i \in Items |-> 0]
    /\ phase = "fetch"
    /\ added = {} /\ removed = {}

(***************************************************************************)
(* The list                                                                *)
(***************************************************************************)
Rank(i) == Cardinality({j \in list : j <= i})
Page == {i \in list : offset < Rank(i) /\ Rank(i) <= offset + Limit}

Changes == Cardinality(added) + Cardinality(removed)

Insert(i) ==
    /\ phase = "fetch" /\ Changes < MaxListChanges
    /\ i \notin list /\ list' = list \cup {i} /\ added' = added \cup {i}
    /\ UNCHANGED <<loop, offset, total, got, fetched, phase, live, before, removed>>

Remove(i) ==
    /\ phase = "fetch" /\ Changes < MaxListChanges
    /\ i \in list /\ list' = list \ {i} /\ removed' = removed \cup {i}
    /\ UNCHANGED <<loop, offset, total, got, fetched, phase, live, before, added>>

(***************************************************************************)
(* The loops                                                               *)
(***************************************************************************)
(* Fault: the last item of a page is asked for again.                      *)
CoreOffsetBack(size) == offset + size - 1

(* __get_user_projects goes on behind what it was given.                   *)
CoreOffset(size) == offset + size

(* Fault: a page that is not full does not end the loop.                   *)
WebDoneTotal(size, count, n) == count = n

(* getAllProjectsPaginated                                                 *)
WebDone(size, count, n) == size < Limit \/ count >= n

(* Fault: the loop ends one item too early.                                *)
MembersDoneEarly(size, n) == offset + Limit >= n - 1 \/ size = 0

(* loadProjectMembers: "while (offset < total)", and the safety stop.      *)
MembersDone(size, n) == offset + Limit >= n \/ size = 0

(* The service stops when it was given as many items as there are, exactly. *)
Done(size, count, n) ==
    \/ loop = "core" /\ count = n
    \/ loop = "web" /\ WebDone(size, count, n)
    \/ loop = "members" /\ MembersDone(size, n)
    \/ loop = "one"

Fetch ==
    LET size == Cardinality(Page)
        n == Cardinality(list)
    IN /\ phase = "fetch" /\ offset <= MaxOffset
       /\ got' = [i \in Items |-> IF i \in Page THEN got[i] + 1 ELSE got[i]]
       /\ fetched' = fetched + size /\ total' = n
       /\ IF Done(size, fetched + size, n)
            THEN phase' = "done" /\ UNCHANGED offset
            ELSE /\ phase' = phase
                 /\ offset' = IF loop = "core" THEN CoreOffset(size) ELSE offset + Limit
       /\ UNCHANGED <<list, loop, live, before, added, removed>>

(* An answer other than 200 raises, and nothing fetched is kept.           *)
Fail ==
    /\ phase = "fetch"
    /\ phase' = "failed" /\ got' = [i \in Items |-> 0] /\ fetched' = 0
    /\ UNCHANGED <<list, loop, offset, total, live, before, added, removed>>

ReadNext == Fetch \/ Fail \/ \E i \in Items : Insert(i) \/ Remove(i)

(* The loops wait for nothing but the answer to their request.             *)
ReadSpec == ReadInit /\ [][ReadNext]_readVars /\ WF_readVars(Fetch)

(***************************************************************************)
(* What the service makes of the list                                      *)
(***************************************************************************)
Found == {i \in Items : got[i] > 0}

(* get_user_and_project_info for a token for all projects: the projects    *)
(* that are not active are passed by; without one there is no token.       *)
TokenProjects == Found \cap live
TokenRefused == TokenProjects = {}

(* get_project_id, where a project is searched by its name: list stands    *)
(* for what the search finds.                                              *)
ProjectFound == fetched = 1

(***************************************************************************)
(* Properties                                                              *)
(***************************************************************************)
ReadTypeOK ==
    /\ list \subseteq Items /\ loop \in Loops /\ live \subseteq Items
    /\ offset \in Nat /\ total \in 0..Unknown /\ fetched \in Nat
    /\ got \in [Items -> Nat]
    /\ phase \in {"fetch", "done", "failed"}
    /\ before \subseteq Items /\ added \subseteq Items /\ removed \subseteq Items

Finished == phase = "done"

(* Nothing changed meanwhile: the loop returns each item once, a token for *)
(* all projects has each active project, and a name is found if there is   *)
(* one such project.  The tokens page has the first page of them.          *)
ExactWhenQuiet ==
    Finished /\ Changes = 0 /\ (loop = "one" => Cardinality(list) <= Limit) =>
        /\ \A i \in Items : got[i] = IF i \in list THEN 1 ELSE 0
        /\ TokenRefused <=> list \cap live = {}
        /\ ProjectFound <=> Cardinality(list) = 1

(* What was in the list from the beginning to the end is missed only if    *)
(* something else was taken out meanwhile, and an item is given twice only *)
(* if something was put in.                                                *)
MissedOrTwice ==
    /\ Finished /\ loop # "one" /\ removed = {} => before \subseteq Found
    /\ added = {} => \A i \in Items : got[i] <= 1

(* Every loop ends, whatever happens to the list, but for the service's:   *)
(* once it was given more than there is, it asks on and on.                *)
Overrun == loop = "core" /\ fetched > Cardinality(list)
Ends == <>(phase # "fetch" \/ Overrun)
=============================================================================
