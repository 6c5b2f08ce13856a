---------------------------- MODULE StoragePage -----------------------------
(***************************************************************************)
(* The storage page of operators (cm-app, app/storage/page.tsx): lists of  *)
(* subvolumes and of CephX users of the cluster that is selected, and what *)
(* is done to them, one call after the other behind a spinner.  Loads go   *)
(* on in the background with the cluster they were started for; every call *)
(* wants the page's own token, which is cached and made anew by whichever  *)
(* call finds it too old.                                                  *)
(***************************************************************************)
EXTENDS Integers, FiniteSets

CONSTANTS
    Clusters,
    Kinds,          \* the lists: subvolumes, and users
    Volumes,        \* the list of subvolumes
    Groups,         \* the list of the subvolumes' groups
    Members,        \* the list of project members, offered in a form
    Dropdown,       \* the list of all subvolumes, offered in a form
    Items,          \* names, of subvolumes and of users
    None,           \* no job
    MaxActs,        \* bound: things the operator does, and times the token ages
    MaxFaults       \* bound: calls that fail

VARIABLES
    store,          \* what there is on each cluster, but for what others do there
    cluster,        \* selectedCluster
    shown,          \* each list: of which cluster, from which request
    picked,         \* what is ticked in each list
    calls,          \* loads under way
    asked,          \* number of loads of each list and of the groups so far
    cached,         \* the page has a token that is not too old
    job,            \* what the spinner stands for
    acts, faults    \* history: see the bounds

vars == <<store, cluster, shown, picked, calls, asked, cached, job, acts, faults>>

ASSUME StorageAssumption ==
    /\ Volumes \in Kinds /\ Kinds \cap {Groups, Members, Dropdown} = {}
    /\ MaxActs \in Nat /\ MaxFaults \in Nat

(* Of the lists offered in forms only this matters here: that a load of    *)
(* them may make a token.                                                  *)
Aside == {Members, Dropdown}
Lists == Kinds \cup {Groups} \cup Aside

Load == [kind : Lists, of : Clusters, n : Nat, phase : {"token", "sent"}]

(* A job: what it was asked to do to which names, those the list had then, *)
(* and how far it got; and whether the token of the render it runs in is   *)
(* still good.                                                             *)
JobRecord ==
    [kind : Kinds, op : {"delete", "put"}, batch : BOOLEAN, of : Clusters,
     todo : SUBSET Items, seen : SUBSET Items,
     left : SUBSET Items, ok : SUBSET Items, failed : SUBSET Items, fresh : BOOLEAN,
     phase : {"token", "run", "stuck"}]

Act == acts < MaxActs /\ acts' = acts + 1
Fault == faults < MaxFaults /\ faults' = faults + 1

(* A load of each of these lists is started, from a render whose token is  *)
(* good or not.                                                            *)
AskFrom(good, wanted, of, others) ==
    LET lists == IF good THEN wanted \ Aside ELSE wanted IN
    /\ asked' = [k \in Lists |-> IF k \in lists THEN asked[k] + 1 ELSE asked[k]]
    /\ calls' = others \cup
         {[kind |-> k, of |-> of, n |-> asked[k] + 1,
           phase |-> IF good THEN "sent" ELSE "token"] : k \in lists}

Ask(wanted, of, others) == AskFrom(cached', wanted, of, others)

Unpick(kinds) == picked' = [k \in Kinds |-> IF k \in kinds THEN {} ELSE picked[k]]

(* The page once its first lists have come.                                *)
Init ==
    /\ store = [k \in Kinds |-> [cl \in Clusters |-> Items]]
    /\ cluster \in Clusters
    /\ shown = [k \in Kinds |-> [of |-> cluster, n |-> 1, items |-> Items]]
    /\ picked = [k \in Kinds |-> {}]
    /\ asked = [k \in Lists |-> 1]
    /\ calls = {}
    /\ cached = TRUE
    /\ job = None
    /\ acts = 0 /\ faults = 0

(***************************************************************************)
(* Loading                                                                 *)
(***************************************************************************)
(* Fault: the load still has the cluster of the render before.             *)
SelectClusterOld(cl) ==
    /\ job = None /\ cl # cluster /\ Act
    /\ cluster' = cl
    /\ Unpick(Kinds)
    /\ UNCHANGED cached /\ Ask(Lists, cluster, calls)
    /\ UNCHANGED <<store, shown, job, faults>>

(* The effects that load the lists run when the cluster changes.           *)
SelectCluster(cl) ==
    /\ job = None /\ cl # cluster /\ Act
    /\ cluster' = cl
    /\ Unpick(Kinds)
    /\ UNCHANGED cached /\ Ask(Lists, cl, calls)
    /\ UNCHANGED <<store, shown, job, faults>>

(* Another group is selected, or Refresh is clicked on either tab.         *)
Reload ==
    /\ job = None /\ Act
    /\ UNCHANGED cached
    /\ \/ Unpick({Volumes}) /\ Ask({Volumes}, cluster, calls)
       \/ UNCHANGED picked /\ Ask({Volumes, Groups}, cluster, calls)
       \/ UNCHANGED picked /\ Ask(Kinds \ {Volumes}, cluster, calls)
    /\ UNCHANGED <<store, cluster, shown, job, faults>>

(* ensureToken finds the token too old once it is half an hour old.        *)
Age ==
    /\ cached /\ Act
    /\ cached' = FALSE
    /\ job' = IF job = None THEN None ELSE [job EXCEPT !.fresh = FALSE]
    /\ UNCHANGED <<store, cluster, shown, picked, calls, asked, faults>>

(* Each load that found no good token makes one.  A new token is a new     *)
(* ensureToken to React, and the subvolumes are loaded once more.          *)
Sent(q) == IF q.kind \in Aside THEN {} ELSE {[q EXCEPT !.phase = "sent"]}
LoadToken(q) ==
    /\ q.phase = "token"
    /\ \/ /\ cached' = TRUE
          /\ Ask({Volumes, Dropdown}, cluster, (calls \ {q}) \cup Sent(q))
          /\ UNCHANGED faults
       \/ Fault /\ calls' = calls \ {q} /\ UNCHANGED <<asked, cached>>
    /\ UNCHANGED <<store, cluster, shown, picked, job, acts>>

Display(q) ==
    \E came \in SUBSET Items :
        shown' = [shown EXCEPT ![q.kind] = [of |-> q.of, n |-> q.n, items |-> came]]

(* Fault: what was ticked stays ticked.                                    *)
LoadedKeeps(q) ==
    /\ q.phase = "sent" /\ q.kind \in Kinds
    /\ calls' = calls \ {q}
    /\ Display(q)
    /\ UNCHANGED <<store, cluster, picked, asked, cached, job, acts, faults>>

(* The list that comes last is shown, and nothing in it is ticked.  It was *)
(* read at some moment since the load was sent, others change the cluster  *)
(* too, and of the groups' subvolumes, which are asked for all at once,    *)
(* those are left out whose call failed: any names may be in it.  After an *)
(* error the list stays as it was.                                         *)
Loaded(q) ==
    /\ q.phase = "sent" /\ q.kind \in Kinds
    /\ calls' = calls \ {q}
    /\ \/ Display(q) /\ Unpick({q.kind}) /\ UNCHANGED faults
       \/ Fault /\ UNCHANGED <<shown, picked>>
    /\ UNCHANGED <<store, cluster, asked, cached, job, acts>>

(* New groups are a new loadSubvolumes to React, which runs it, on the     *)
(* cluster that is selected by then.                                       *)
GroupsLoaded(q) ==
    /\ q.phase = "sent" /\ q.kind = Groups
    /\ UNCHANGED cached
    /\ \/ Ask({Volumes, Dropdown}, cluster, calls \ {q}) /\ UNCHANGED faults
       \/ Fault /\ calls' = calls \ {q} /\ UNCHANGED asked
    /\ UNCHANGED <<store, cluster, shown, picked, job, acts>>

(***************************************************************************)
(* Jobs behind the spinner                                                 *)
(***************************************************************************)
Listed(k) == shown[k].items

(* toggleSubvolume, toggleCephUser and those that toggle all that the      *)
(* search found, which is what counts: ticks on other users stay until     *)
(* then.  There is no search for subvolumes.                               *)
Found(k) == IF k = Volumes THEN {Listed(k)} ELSE SUBSET Listed(k)
Toggle(k) ==
    /\ job = None
    /\ \/ \E i \in Listed(k) :
            picked' = [picked EXCEPT ![k] = IF i \in @ THEN @ \ {i} ELSE @ \cup {i}]
       \/ \E found \in Found(k) :
            picked' = [picked EXCEPT ![k] =
                         IF Cardinality(@) = Cardinality(found) THEN {} ELSE found]
    /\ UNCHANGED <<store, cluster, shown, calls, asked, cached, job, acts, faults>>

(* The spinner is shown before anything else; handleApplyCaps returns with *)
(* it when no user is selected.                                            *)
Start(k, op, batch, todo) ==
    /\ job = None /\ Act
    /\ job' = [kind |-> k, op |-> op, batch |-> batch, of |-> cluster, todo |-> todo,
               seen |-> Listed(k), left |-> todo, ok |-> {}, failed |-> {}, fresh |-> cached,
               phase |-> IF todo = {} THEN "stuck" ELSE IF cached THEN "run" ELSE "token"]
    /\ UNCHANGED <<store, cluster, shown, picked, calls, asked, cached, faults>>

(* handleBatchDeleteSubvolumes and handleBatchDeleteCephUsers              *)
BatchDelete(k) == picked[k] # {} /\ Start(k, "delete", TRUE, picked[k])

(* handleDeleteSubvolume and handleDeleteCephUser                          *)
Delete(k) == \E i \in Listed(k) : Start(k, "delete", FALSE, {i})

(* handleCreateSubvolume and handleResizeSubvolume: one call for both.     *)
CreateOrResize == \E i \in Items : Start(Volumes, "put", FALSE, {i})

(* Fault: the button is not disabled while no user is selected.            *)
ApplyCapsAlways(k) ==
    k # Volumes /\ \E logins \in SUBSET Items : Start(k, "put", TRUE, logins)

(* handleApplyCaps: for one user or for all members of the projects.  The  *)
(* button is disabled when there is none.                                  *)
ApplyCaps(k) ==
    k # Volumes /\ \E logins \in SUBSET Items \ {{}} : Start(k, "put", TRUE, logins)

Finish == job' = None

JobToken ==
    /\ job # None /\ job.phase = "token"
    /\ \/ /\ cached' = TRUE
          /\ job' = [job EXCEPT !.phase = "run"]
          /\ Ask({Volumes, Dropdown}, cluster, calls)
          /\ UNCHANGED faults
       \/ Fault /\ Finish /\ UNCHANGED <<calls, asked, cached>>
    /\ UNCHANGED <<store, cluster, shown, picked, acts>>

(* Capabilities are synchronised across the clusters.                      *)
Touched == IF job.op = "put" /\ job.kind # Volumes THEN Clusters ELSE {job.of}

Apply(i, on) ==
    store' = [store EXCEPT ![job.kind] = [cl \in Clusters |->
                IF cl \notin on THEN @[cl]
                ELSE IF job.op = "delete" THEN @[cl] \ {i} ELSE @[cl] \cup {i}]]

(* One call of the job, of which the answer may be lost.  A name that is   *)
(* not there cannot be deleted.                                            *)
JobStep(i) ==
    /\ job # None /\ job.phase = "run" /\ i \in job.left
    /\ \/ /\ job.op = "delete" => i \in store[job.kind][job.of]
          /\ Apply(i, Touched) /\ UNCHANGED faults
          /\ job' = [job EXCEPT !.left = @ \ {i}, !.ok = @ \cup {i}]
       \/ /\ IF job.op = "delete" /\ i \notin store[job.kind][job.of]
               THEN UNCHANGED <<faults, store>>
               ELSE Fault /\ \E on \in SUBSET Touched : Apply(i, on)
          /\ job' = [job EXCEPT !.left = @ \ {i}, !.failed = @ \cup {i}]
    /\ UNCHANGED <<cluster, shown, picked, calls, asked, cached, acts>>

(* A batch unticks and loads its list again whatever failed, a single call *)
(* only when it went well.  The loads are those of the render the job was  *)
(* started in: they do not know a token that was made since.               *)
JobDone ==
    /\ job # None /\ job.phase = "run" /\ job.left = {}
    /\ Finish
    /\ IF job.batch /\ job.op = "delete" THEN Unpick({job.kind}) ELSE UNCHANGED picked
    /\ UNCHANGED cached
    /\ IF job.batch \/ job.failed = {} THEN AskFrom(job.fresh, {job.kind}, job.of, calls)
                                       ELSE UNCHANGED <<calls, asked>>
    /\ UNCHANGED <<store, cluster, shown, acts, faults>>

Job == JobToken \/ JobDone \/ \E i \in Items : JobStep(i)

Next ==
    \/ Reload \/ Age \/ CreateOrResize \/ Job
    \/ \E cl \in Clusters : SelectCluster(cl)
    \/ \E k \in Kinds : Toggle(k) \/ BatchDelete(k) \/ Delete(k) \/ ApplyCaps(k)
    \/ \E q \in calls : LoadToken(q) \/ Loaded(q) \/ GroupsLoaded(q)

(* Each call is answered or fails, and the handler goes on.                *)
Spec == Init /\ [][Next]_vars /\ WF_vars(Job)

(***************************************************************************)
(* Properties                                                              *)
(***************************************************************************)
(* Lists, loads, ticks and jobs have their types.                          *)
TypeOK ==
    /\ store \in [Kinds -> [Clusters -> SUBSET Items]]
    /\ cluster \in Clusters
    /\ shown \in [Kinds -> [of : Clusters, n : Nat, items : SUBSET Items]]
    /\ picked \in [Kinds -> SUBSET Items]
    /\ calls \subseteq Load
    /\ asked \in [Lists -> Nat]
    /\ cached \in BOOLEAN
    /\ job # None => job \in JobRecord
    /\ acts \in Nat /\ faults \in Nat

(* A list from the last load asked for is the list of the selected cluster. *)
(* Only while that load is under way, when it failed, or when an older one *)
(* overtook it, are names of another cluster on display: to delete them    *)
(* then deletes what has those names on the selected cluster.              *)
ListOfCluster ==
    \A k \in Kinds : shown[k].n = asked[k] => shown[k].of = cluster

(* A job deletes only what the list named when it was started, however     *)
(* often the list changed since the ticks were set.  It asks for each of   *)
(* it once, failures notwithstanding, all on the selected cluster, and     *)
(* what it counts as deleted is gone.                                      *)
Exact(j) ==
    /\ j.op = "delete" => j.todo \subseteq j.seen
    /\ j.todo = j.left \cup j.ok \cup j.failed
    /\ j.left \cap (j.ok \cup j.failed) = {} /\ j.ok \cap j.failed = {}
    /\ j.op = "delete" => j.ok \cap store[j.kind][j.of] = {}
BatchExact == job # None => Exact(job) /\ job.of = cluster

(* The spinner, which leaves nothing to click on, goes away.               *)
SpinnerEnds == job # None ~> job = None
=============================================================================
