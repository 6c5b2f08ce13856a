------------------------- MODULE StoragePage_proofs --------------------------
(***************************************************************************)
(* Theorems about the storage page, for any clusters, lists, names and     *)
(* number of loads under way.                                              *)
(***************************************************************************)
EXTENDS StoragePage, TLAPS

(***************************************************************************)
(* The inductive invariant, in named parts.                                *)
(***************************************************************************)
(* Loads are numbered in the order they were asked for.                    *)
Numbered ==
    /\ \A k \in Kinds : shown[k].n <= asked[k]
    /\ \A q \in calls : q.n <= asked[q.kind]

(* The last load asked for of a list is for the selected cluster.          *)
Fresh == \A q \in calls : q.kind \in Kinds /\ q.n = asked[q.kind] => q.of = cluster

(* Only names in the list are ticked.                                      *)
Ticked == \A k \in Kinds : picked[k] \subseteq shown[k].items

IInv ==
    /\ TypeOK /\ Numbered /\ Fresh /\ Ticked
    /\ ListOfCluster /\ BatchExact

Loads == /\ calls \subseteq Load /\ asked \in [Lists -> Nat]
         /\ Numbered /\ Fresh /\ ListOfCluster

LEMMA InitInv == Init => IInv
<1> SUFFICES ASSUME Init  PROVE IInv
  OBVIOUS
<1>. USE StorageAssumption
<1>1. TypeOK
  BY DEF Init, TypeOK
<1>2. Numbered /\ Fresh /\ Ticked /\ ListOfCluster
  BY DEF Init, Numbered, Fresh, Ticked, ListOfCluster, Lists
<1>3. BatchExact
  BY DEF Init, BatchExact
<1>4. QED  BY <1>1, <1>2, <1>3 DEF IInv

(***************************************************************************)
(* Loads                                                                   *)
(***************************************************************************)
(* Loads of the selected cluster are asked for, next to others that are    *)
(* under way already.                                                      *)
LEMMA AskKeeps ==
    ASSUME IInv, NEW good \in BOOLEAN, NEW wanted \in SUBSET Lists, NEW others \in SUBSET Load,
           \A q \in others : \E p \in calls : q.kind = p.kind /\ q.n = p.n /\ q.of = p.of,
           AskFrom(good, wanted, cluster, others), UNCHANGED <<cluster, shown>>
    PROVE  Loads'
<1> DEFINE lists == IF good THEN wanted \ Aside ELSE wanted
<1>1. /\ asked \in [Lists -> Nat] /\ cluster \in Clusters /\ calls \subseteq Load
      /\ Numbered /\ Fresh /\ ListOfCluster /\ lists \in SUBSET Lists
      /\ \A k \in Kinds : shown[k].n \in Nat /\ k \in Lists
  BY DEF IInv, TypeOK, Lists
<1>0. /\ asked' = [k \in Lists |-> IF k \in lists THEN asked[k] + 1 ELSE asked[k]]
      /\ calls' = others \cup
           {[kind |-> k, of |-> cluster, n |-> asked[k] + 1,
             phase |-> IF good THEN "sent" ELSE "token"] : k \in lists}
  BY DEF AskFrom
<1>. HIDE DEF lists
<1>2. /\ asked' \in [Lists -> Nat]
      /\ \A k \in Lists : asked'[k] = IF k \in lists THEN asked[k] + 1 ELSE asked[k]
  BY <1>0, <1>1
<1>3. ASSUME NEW q \in calls', q \notin others
      PROVE  /\ q \in Load /\ q.kind \in lists /\ q.of = cluster
             /\ q.n = asked[q.kind] + 1
  BY <1>0, <1>1, <1>3 DEF Load
<1>4. ASSUME NEW q \in others
      PROVE  /\ q.kind \in Lists /\ q.n \in Nat /\ q.n <= asked[q.kind]
             /\ q.kind \in Kinds /\ q.n = asked[q.kind] => q.of = cluster
  <2>1. PICK p \in calls : q.kind = p.kind /\ q.n = p.n /\ q.of = p.of
    OBVIOUS
  <2>2. QED  BY <1>1, <2>1 DEF Numbered, Fresh, Load
<1>5. calls' \subseteq Load
  BY <1>3
<1>6. Numbered'
  <2>1. ASSUME NEW k \in Kinds  PROVE shown'[k].n <= asked'[k]
    BY <1>1, <1>2 DEF Numbered
  <2>2. ASSUME NEW q \in calls'  PROVE q.n <= asked'[q.kind]
    <3>1. CASE q \in others
      <4>1. asked[q.kind] \in Nat
        BY <1>1, <1>4, <3>1
      <4>2. QED  BY <1>2, <1>4, <3>1, <4>1
    <3>2. CASE q \notin others
      BY <1>1, <1>2, <1>3, <3>2
    <3>3. QED  BY <3>1, <3>2
  <2>3. QED  BY <2>1, <2>2 DEF Numbered
<1>7. Fresh'
  <2>1. ASSUME NEW q \in calls', q.kind \in Kinds, q.n = asked'[q.kind]
        PROVE  q.of = cluster
    <3>1. CASE q \in others
      <4>1. asked[q.kind] \in Nat
        BY <1>1, <1>4, <3>1
      <4>2. QED  BY <1>2, <1>4, <2>1, <3>1, <4>1
    <3>2. CASE q \notin others
      BY <1>3, <3>2
    <3>3. QED  BY <3>1, <3>2
  <2>2. QED  BY <2>1 DEF Fresh
<1>8. ListOfCluster'
  <2>1. ASSUME NEW k \in Kinds, shown[k].n = asked'[k]  PROVE shown[k].of = cluster
    <3>1. shown[k].n <= asked[k] /\ asked[k] \in Nat
      BY <1>1 DEF Numbered
    <3>2. asked'[k] = asked[k]
      BY <1>1, <1>2, <2>1, <3>1
    <3>3. QED  BY <1>1, <2>1, <3>2 DEF ListOfCluster
  <2>2. QED  BY <2>1 DEF ListOfCluster
<1>9. QED  BY <1>2, <1>5, <1>6, <1>7, <1>8 DEF Loads

(* A step that asks for nothing, and drops loads or none.                  *)
LEMMA NoAsk ==
    ASSUME IInv, calls' \subseteq calls, UNCHANGED <<asked, cluster, shown>>
    PROVE  Loads'
BY DEF IInv, TypeOK, Loads, Numbered, Fresh, ListOfCluster

(* The parts of the invariant that no load touches.                        *)
LEMMA PageStep ==
    ASSUME IInv, Loads', UNCHANGED <<store, cluster, shown, job>>,
           picked' \in [Kinds -> SUBSET Items], cached' \in BOOLEAN,
           acts' \in Nat, faults' \in Nat,
           \A k \in Kinds : picked'[k] \subseteq shown[k].items
    PROVE  IInv'
<1>1. TypeOK'
  BY DEF IInv, TypeOK, Loads
<1>2. Ticked'
  BY DEF IInv, Ticked
<1>3. BatchExact'
  BY DEF IInv, BatchExact, Exact
<1>4. QED  BY <1>1, <1>2, <1>3 DEF IInv, Loads

LEMMA Bounded ==
    ASSUME IInv
    PROVE  /\ UNCHANGED acts \/ Act => acts' \in Nat
           /\ UNCHANGED faults \/ Fault => faults' \in Nat
BY DEF IInv, TypeOK, Act, Fault

LEMMA UnpickKeeps ==
    ASSUME IInv, NEW kinds, Unpick(kinds)
    PROVE  /\ picked' \in [Kinds -> SUBSET Items]
           /\ \A k \in Kinds : picked'[k] \subseteq shown[k].items /\ picked'[k] \subseteq picked[k]
           /\ \A k \in Kinds \cap kinds : picked'[k] = {}
BY DEF IInv, TypeOK, Ticked, Unpick

LEMMA PickedStays ==
    ASSUME IInv, UNCHANGED picked
    PROVE  /\ picked' \in [Kinds -> SUBSET Items]
           /\ \A k \in Kinds : picked'[k] \subseteq shown[k].items
BY DEF IInv, TypeOK, Ticked

(***************************************************************************)
(* Steps with no job under way or one that is left alone                   *)
(***************************************************************************)
LEMMA SelectClusterInv ==
    ASSUME IInv, NEW cl \in Clusters, SelectCluster(cl)
    PROVE  IInv'
<1>1. /\ job = None /\ cluster' = cl /\ UNCHANGED <<store, shown, job, cached, faults>>
      /\ Ask(Lists, cl, calls) /\ Unpick(Kinds) /\ acts' \in Nat
  BY Bounded DEF SelectCluster
<1>2. /\ asked \in [Lists -> Nat] /\ calls \subseteq Load /\ Numbered
      /\ \A k \in Kinds : shown[k].n \in Nat /\ k \in Lists
  BY DEF IInv, TypeOK, Lists
<1> DEFINE lists == IF cached' THEN Lists \ Aside ELSE Lists
<1>12. lists \in SUBSET Lists /\ Kinds \subseteq lists
  BY StorageAssumption DEF Lists, Aside
<1>13. /\ asked' = [k \in Lists |-> IF k \in lists THEN asked[k] + 1 ELSE asked[k]]
       /\ calls' = calls \cup
            {[kind |-> k, of |-> cl, n |-> asked[k] + 1,
              phase |-> IF cached' THEN "sent" ELSE "token"] : k \in lists}
  BY <1>1 DEF Ask, AskFrom
<1>. HIDE DEF lists
<1>3. /\ asked' \in [Lists -> Nat]
      /\ \A k \in Lists : asked'[k] = IF k \in lists THEN asked[k] + 1 ELSE asked[k]
  BY <1>2, <1>13
<1>4. ASSUME NEW q \in calls'
      PROVE  /\ q \in Load
             /\ \/ q \in calls /\ q.n <= asked[q.kind]
                \/ q.of = cl /\ q.n = asked[q.kind] + 1 /\ q.kind \in lists
  <2>1. CASE q \in calls
    BY <1>2, <2>1 DEF Numbered
  <2>2. CASE q \notin calls
    BY <1>2, <1>12, <1>13, <2>2 DEF Load
  <2>3. QED  BY <2>1, <2>2
<1>5. ASSUME NEW q \in calls'
      PROVE  /\ q.n <= asked'[q.kind]
             /\ q.kind \in Kinds /\ q.n = asked'[q.kind] => q.of = cl
  <2>1. q.kind \in Lists /\ q.n \in Nat /\ asked[q.kind] \in Nat
    BY <1>2, <1>4 DEF Load
  <2>2. QED  BY <1>3, <1>4, <1>12, <2>1
<1>6. ASSUME NEW k \in Kinds  PROVE shown'[k].n < asked'[k]
  <2>1. shown[k].n <= asked[k] /\ asked[k] \in Nat
    BY <1>2 DEF Numbered
  <2>2. QED  BY <1>1, <1>2, <1>3, <1>12, <2>1
<1>7. (Numbered /\ Fresh /\ ListOfCluster)'
  <2>1. Fresh'
    BY <1>1, <1>5 DEF Fresh
  <2>2. ASSUME NEW k \in Kinds  PROVE shown'[k].n <= asked'[k] /\ shown'[k].n # asked'[k]
    BY <1>1, <1>2, <1>3, <1>6
  <2>3. QED  BY <1>5, <2>1, <2>2 DEF Numbered, ListOfCluster
<1>8. TypeOK'
  BY <1>1, <1>3, <1>4, UnpickKeeps DEF IInv, TypeOK
<1>9. Ticked'
  BY <1>1, UnpickKeeps DEF IInv, Ticked
<1>10. BatchExact'
  BY <1>1 DEF IInv, BatchExact, Exact
<1>11. QED  BY <1>7, <1>8, <1>9, <1>10 DEF IInv

LEMMA ReloadInv ==
    ASSUME IInv, Reload
    PROVE  IInv'
<1>1. UNCHANGED <<store, cluster, shown, job, cached, faults>> /\ acts' \in Nat
  BY Bounded DEF Reload
<1>2. /\ calls \in SUBSET Load /\ cached' \in BOOLEAN /\ faults' \in Nat
      /\ {Volumes} \in SUBSET Lists /\ {Volumes, Groups} \in SUBSET Lists
      /\ Kinds \ {Volumes} \in SUBSET Lists
  BY <1>1, StorageAssumption DEF IInv, TypeOK, Lists
<1>3. ASSUME NEW lists \in SUBSET Lists, Ask(lists, cluster, calls)  PROVE Loads'
  BY <1>1, <1>2, <1>3, AskKeeps DEF Ask
<1>4. CASE Unpick({Volumes}) /\ Ask({Volumes}, cluster, calls)
  BY <1>1, <1>2, <1>3, <1>4, UnpickKeeps, PageStep
<1>5. CASE UNCHANGED picked /\ Ask({Volumes, Groups}, cluster, calls)
  BY <1>1, <1>2, <1>3, <1>5, PickedStays, PageStep
<1>6. CASE UNCHANGED picked /\ Ask(Kinds \ {Volumes}, cluster, calls)
  BY <1>1, <1>2, <1>3, <1>6, PickedStays, PageStep
<1>7. QED  BY <1>4, <1>5, <1>6 DEF Reload

LEMMA AgeInv ==
    ASSUME IInv, Age
    PROVE  IInv'
<1>1. /\ UNCHANGED <<store, cluster, shown, picked, calls, asked, faults>>
      /\ job' = IF job = None THEN None ELSE [job EXCEPT !.fresh = FALSE]
      /\ cached' = FALSE /\ acts' \in Nat /\ faults' \in Nat
  BY Bounded DEF Age
<1>2. CASE job = None
  BY <1>1, <1>2, NoAsk, PickedStays, PageStep
<1>3. CASE job # None
  <2>1. /\ job' \in JobRecord /\ job'.op = job.op /\ job'.todo = job.todo
        /\ job'.seen = job.seen /\ job'.left = job.left /\ job'.ok = job.ok
        /\ job'.failed = job.failed /\ job'.kind = job.kind /\ job'.of = job.of
    BY <1>1, <1>3 DEF IInv, TypeOK, JobRecord
  <2>2. TypeOK' /\ Ticked'
    BY <1>1, <2>1 DEF IInv, TypeOK, Ticked
  <2>3. Loads'
    BY <1>1, NoAsk
  <2>4. BatchExact'
    BY <1>1, <1>3, <2>1 DEF IInv, BatchExact, Exact
  <2>5. QED  BY <2>2, <2>3, <2>4 DEF IInv, Loads
<1>4. QED  BY <1>2, <1>3

LEMMA LoadTokenInv ==
    ASSUME IInv, NEW q \in calls, LoadToken(q)
    PROVE  IInv'
<1>1. /\ UNCHANGED <<store, cluster, shown, picked, job, acts>>
      /\ acts' \in Nat /\ calls \subseteq Load /\ cached \in BOOLEAN
  BY DEF LoadToken, IInv, TypeOK
<1>2. CASE /\ cached' = TRUE /\ UNCHANGED faults
           /\ Ask({Volumes, Dropdown}, cluster, (calls \ {q}) \cup Sent(q))
  <2> DEFINE others == (calls \ {q}) \cup Sent(q)
  <2>1. ASSUME NEW o \in Sent(q)
        PROVE  o \in Load /\ o.kind = q.kind /\ o.n = q.n /\ o.of = q.of
    BY <1>1 DEF Load, Sent
  <2>2. others \in SUBSET Load
    BY <1>1, <2>1
  <2>3. \A o \in others : \E p \in calls : o.kind = p.kind /\ o.n = p.n /\ o.of = p.of
    BY <2>1
  <2>4. AskFrom(cached', {Volumes, Dropdown}, cluster, others)
    BY <1>2 DEF Ask
  <2>. HIDE DEF others
  <2>5. {Volumes, Dropdown} \in SUBSET Lists /\ cached' \in BOOLEAN
    BY <1>2, StorageAssumption DEF Lists, Aside
  <2>6. Loads'
    BY <1>1, <2>2, <2>3, <2>4, <2>5, AskKeeps
  <2>7. faults' \in Nat
    BY <1>2, Bounded
  <2>8. QED  BY <1>1, <2>5, <2>6, <2>7, PickedStays, PageStep
<1>3. CASE Fault /\ calls' = calls \ {q} /\ UNCHANGED <<asked, cached>>
  BY <1>1, <1>3, Bounded, NoAsk, PickedStays, PageStep
<1>4. QED  BY <1>2, <1>3 DEF LoadToken

LEMMA GroupsLoadedInv ==
    ASSUME IInv, NEW q \in calls, GroupsLoaded(q)
    PROVE  IInv'
<1>1. /\ UNCHANGED <<store, cluster, shown, picked, job, acts, cached>>
      /\ acts' \in Nat /\ calls \ {q} \in SUBSET Load /\ cached' \in BOOLEAN
      /\ {Volumes, Dropdown} \in SUBSET Lists
  BY StorageAssumption DEF GroupsLoaded, IInv, TypeOK, Lists, Aside
<1>2. CASE Ask({Volumes, Dropdown}, cluster, calls \ {q}) /\ UNCHANGED faults
  <2>1. Loads'
    BY <1>1, <1>2, AskKeeps DEF Ask
  <2>2. QED  BY <1>1, <1>2, <2>1, Bounded, PickedStays, PageStep
<1>3. CASE Fault /\ calls' = calls \ {q} /\ UNCHANGED asked
  BY <1>1, <1>3, Bounded, NoAsk, PickedStays, PageStep
<1>4. QED  BY <1>2, <1>3 DEF GroupsLoaded

(* The list that is shown is of the cluster its load was asked for, which  *)
(* is the selected one when nothing was asked for since.                   *)
LEMMA LoadedInv ==
    ASSUME IInv, NEW q \in calls, Loaded(q)
    PROVE  IInv'
<1>1. /\ UNCHANGED <<store, cluster, asked, cached, job, acts>>
      /\ calls' = calls \ {q} /\ acts' \in Nat /\ cached' \in BOOLEAN /\ q.kind \in Kinds
      /\ q.of \in Clusters /\ q.n \in Nat
      /\ TypeOK /\ Numbered /\ Fresh /\ Ticked /\ ListOfCluster
  BY DEF Loaded, IInv, TypeOK, Load
<1>2. CASE Display(q) /\ Unpick({q.kind}) /\ UNCHANGED faults
  <2>1. PICK came \in SUBSET Items :
          shown' = [shown EXCEPT ![q.kind] = [of |-> q.of, n |-> q.n, items |-> came]]
    BY <1>2 DEF Display
  <2> DEFINE new == [of |-> q.of, n |-> q.n, items |-> came]
  <2>2. new \in [of : Clusters, n : Nat, items : SUBSET Items]
    BY <1>1, <2>1
  <2>3. /\ shown' = [shown EXCEPT ![q.kind] = new]
        /\ shown' \in [Kinds -> [of : Clusters, n : Nat, items : SUBSET Items]]
        /\ \A k \in Kinds : shown'[k] = IF k = q.kind THEN new ELSE shown[k]
    BY <1>1, <2>1, <2>2 DEF TypeOK
  <2>4. new.n = q.n /\ new.of = q.of
    OBVIOUS
  <2>. HIDE DEF new
  <2>5. TypeOK'
    BY <1>1, <1>2, <2>3, UnpickKeeps DEF TypeOK
  <2>6. Numbered' /\ Fresh'
    BY <1>1, <2>3, <2>4 DEF Numbered, Fresh
  <2>7. ListOfCluster'
    BY <1>1, <2>3, <2>4 DEF Fresh, ListOfCluster
  <2>8. Ticked'
    BY <1>1, <1>2, <2>3, UnpickKeeps DEF Ticked
  <2>9. BatchExact'
    BY <1>1 DEF IInv, BatchExact, Exact
  <2>10. QED  BY <2>5, <2>6, <2>7, <2>8, <2>9 DEF IInv
<1>3. CASE Fault /\ UNCHANGED <<shown, picked>>
  <2>1. Loads'
    BY <1>1, <1>3, NoAsk
  <2>2. QED  BY <1>1, <1>3, <2>1, Bounded, PickedStays, PageStep
<1>4. QED  BY <1>2, <1>3 DEF Loaded

LEMMA ToggleInv ==
    ASSUME IInv, NEW k \in Kinds, Toggle(k)
    PROVE  IInv'
<1>1. /\ UNCHANGED <<store, cluster, shown, calls, asked, cached, job, acts, faults>>
      /\ acts' \in Nat /\ faults' \in Nat /\ cached' \in BOOLEAN
  BY DEF Toggle, IInv, TypeOK
<1>2. /\ picked \in [Kinds -> SUBSET Items] /\ picked[k] \subseteq Listed(k)
      /\ Listed(k) = shown[k].items /\ Listed(k) \subseteq Items
      /\ \A x \in Kinds : picked[x] \subseteq shown[x].items
  BY DEF IInv, TypeOK, Ticked, Listed
<1>3. PICK ticks \in SUBSET Listed(k) : picked' = [picked EXCEPT ![k] = ticks]
  <2>1. CASE \E i \in Listed(k) :
                picked' = [picked EXCEPT ![k] = IF i \in @ THEN @ \ {i} ELSE @ \cup {i}]
    BY <1>2, <2>1
  <2>2. CASE \E found \in Found(k) :
                picked' = [picked EXCEPT ![k] =
                  IF Cardinality(@) = Cardinality(found) THEN {} ELSE found]
    <3>1. PICK found \in SUBSET Listed(k) :
            picked' = [picked EXCEPT ![k] =
              IF Cardinality(@) = Cardinality(found) THEN {} ELSE found]
      BY <2>2 DEF Found
    <3>2. CASE Cardinality(picked[k]) = Cardinality(found)
      BY <1>2, <3>1, <3>2
    <3>3. CASE Cardinality(picked[k]) # Cardinality(found)
      BY <1>2, <3>1, <3>3
    <3>4. QED  BY <3>2, <3>3
  <2>3. QED  BY <2>1, <2>2 DEF Toggle
<1>4. /\ picked' \in [Kinds -> SUBSET Items]
      /\ \A x \in Kinds : picked'[x] \subseteq shown[x].items
  BY <1>2, <1>3
<1>5. QED  BY <1>1, <1>4, NoAsk, PageStep

(***************************************************************************)
(* Jobs                                                                    *)
(***************************************************************************)
(* A job of names, all of them in the list if it deletes.                  *)
LEMMA StartInv ==
    ASSUME IInv, NEW k \in Kinds, NEW op \in {"delete", "put"}, NEW batch \in BOOLEAN,
           NEW todo \in SUBSET Items, Start(k, op, batch, todo),
           op = "delete" => todo \subseteq shown[k].items
    PROVE  IInv'
<1> DEFINE new == [kind |-> k, op |-> op, batch |-> batch, of |-> cluster, todo |-> todo,
                   seen |-> Listed(k), left |-> todo, ok |-> {}, failed |-> {},
                   fresh |-> cached,
                   phase |-> IF todo = {} THEN "stuck"
                             ELSE IF cached THEN "run" ELSE "token"]
<1>1. /\ UNCHANGED <<store, cluster, shown, picked, calls, asked, cached, faults>>
      /\ job' = new /\ acts' \in Nat
  BY Bounded DEF Start
<1>2. Listed(k) = shown[k].items /\ Listed(k) \subseteq Items /\ cluster \in Clusters
      /\ cached \in BOOLEAN
  BY DEF Listed, IInv, TypeOK
<1>3. job' \in JobRecord
  BY <1>1, <1>2 DEF JobRecord
<1>4. /\ job'.op = op /\ job'.of = cluster /\ job'.todo = todo /\ job'.left = todo
      /\ job'.seen = shown[k].items /\ job'.ok = {} /\ job'.failed = {}
  BY <1>1, <1>2
<1>. HIDE DEF new
<1>5. TypeOK' /\ Ticked'
  BY <1>1, <1>3 DEF IInv, TypeOK, Ticked
<1>6. BatchExact'
  BY <1>1, <1>4 DEF BatchExact, Exact
<1>7. (Numbered /\ Fresh /\ ListOfCluster)'
  BY <1>1, NoAsk DEF Loads
<1>8. QED  BY <1>5, <1>6, <1>7 DEF IInv

LEMMA OperatorInv ==
    ASSUME IInv, NEW k \in Kinds, BatchDelete(k) \/ Delete(k) \/ ApplyCaps(k) \/ CreateOrResize
    PROVE  IInv'
<1>1. /\ picked[k] \in SUBSET Items /\ picked[k] \subseteq shown[k].items
      /\ Listed(k) = shown[k].items /\ Listed(k) \subseteq Items /\ Volumes \in Kinds
  BY StorageAssumption DEF IInv, TypeOK, Ticked, Listed
<1>2. CASE BatchDelete(k)
  BY <1>1, <1>2, StartInv DEF BatchDelete
<1>3. CASE Delete(k)
  <2>1. PICK i \in Listed(k) : Start(k, "delete", FALSE, {i})
    BY <1>3 DEF Delete
  <2>2. {i} \in SUBSET Items /\ {i} \subseteq shown[k].items
    BY <1>1
  <2>3. QED  BY <2>1, <2>2, StartInv
<1>4. CASE ApplyCaps(k)
  <2>1. PICK logins \in SUBSET Items : Start(k, "put", TRUE, logins)
    BY <1>4 DEF ApplyCaps
  <2>2. QED  BY <2>1, StartInv
<1>5. CASE CreateOrResize
  <2>1. PICK i \in Items : Start(Volumes, "put", FALSE, {i})
    BY <1>5 DEF CreateOrResize
  <2>2. QED  BY <1>1, <2>1, StartInv
<1>6. QED  BY <1>2, <1>3, <1>4, <1>5

LEMMA JobTokenInv ==
    ASSUME IInv, JobToken
    PROVE  IInv'
<1>1. /\ job # None /\ UNCHANGED <<store, cluster, shown, picked, acts>>
      /\ job \in JobRecord /\ TypeOK
      /\ {Volumes, Dropdown} \in SUBSET Lists
  BY StorageAssumption DEF JobToken, IInv, TypeOK, Lists, Aside
<1>2. CASE /\ cached' = TRUE /\ job' = [job EXCEPT !.phase = "run"]
           /\ Ask({Volumes, Dropdown}, cluster, calls) /\ UNCHANGED faults
  <2>1. Loads'
    BY <1>1, <1>2, AskKeeps DEF TypeOK, Ask
  <2>2. /\ job' \in JobRecord /\ job'.op = job.op /\ job'.todo = job.todo
        /\ job'.seen = job.seen /\ job'.left = job.left /\ job'.ok = job.ok
        /\ job'.failed = job.failed /\ job'.kind = job.kind /\ job'.of = job.of
    BY <1>1, <1>2 DEF JobRecord
  <2>3. TypeOK'
    BY <1>1, <1>2, <2>1, <2>2 DEF TypeOK, Loads
  <2>4. Ticked'
    BY <1>1, <1>2 DEF IInv, Ticked
  <2>5. Exact(job)' /\ job'.of = cluster'
    BY <1>1, <2>2 DEF IInv, BatchExact, Exact
  <2>6. BatchExact'
    BY <1>1, <1>2, <2>5 DEF IInv, BatchExact
  <2>7. QED  BY <2>1, <2>3, <2>4, <2>6 DEF IInv, Loads
<1>3. CASE Fault /\ Finish /\ UNCHANGED <<calls, asked, cached>>
  <2>1. Loads'
    BY <1>1, <1>3, NoAsk
  <2>2. job' = None /\ BatchExact' /\ Ticked'
    BY <1>1, <1>3 DEF Finish, BatchExact, IInv, Ticked
  <2>3. TypeOK'
    BY <1>1, <1>3, <2>2, Bounded DEF TypeOK
  <2>4. QED  BY <2>1, <2>2, <2>3 DEF IInv, Loads
<1>4. QED  BY <1>2, <1>3 DEF JobToken

LEMMA JobDoneInv ==
    ASSUME IInv, JobDone
    PROVE  IInv'
<1>1. /\ job # None /\ UNCHANGED <<store, cluster, shown, cached, acts, faults>>
      /\ job \in JobRecord /\ TypeOK /\ job.of = cluster /\ job' = None
      /\ {job.kind} \in SUBSET Lists /\ job.fresh \in BOOLEAN
  BY DEF JobDone, Finish, IInv, TypeOK, BatchExact, JobRecord, Lists
<1>2. Loads'
  <2>1. CASE AskFrom(job.fresh, {job.kind}, job.of, calls)
    BY <1>1, <2>1, AskKeeps DEF TypeOK
  <2>2. CASE UNCHANGED <<calls, asked>>
    BY <1>1, <2>2, NoAsk
  <2>3. QED  BY <2>1, <2>2 DEF JobDone
<1>3. /\ picked' \in [Kinds -> SUBSET Items]
      /\ \A k \in Kinds : picked'[k] \subseteq shown[k].items
  BY UnpickKeeps, PickedStays DEF JobDone
<1>4. TypeOK' /\ Ticked' /\ BatchExact'
  BY <1>1, <1>2, <1>3 DEF TypeOK, Ticked, Loads, BatchExact
<1>5. QED  BY <1>2, <1>4 DEF IInv, Loads

(* A name moves from those left to those done or failed; what counts as    *)
(* deleted is gone, and what a lost answer deleted as well is not counted. *)
LEMMA JobStepInv ==
    ASSUME IInv, NEW i \in Items, JobStep(i)
    PROVE  IInv'
<1>1. /\ job # None /\ i \in job.left /\ UNCHANGED <<cluster, shown, picked, calls, asked>>
      /\ UNCHANGED <<cached, acts>>
      /\ job \in JobRecord /\ TypeOK /\ Exact(job) /\ job.of = cluster
      /\ job.kind \in Kinds /\ job.of \in Clusters
      /\ UNCHANGED faults \/ Fault
  BY DEF JobStep, IInv, TypeOK, BatchExact, JobRecord
<1>2. ASSUME NEW on, Apply(i, on)
      PROVE  /\ store' \in [Kinds -> [Clusters -> SUBSET Items]]
             /\ job.op = "delete" => store'[job.kind][job.of] \subseteq store[job.kind][job.of]
             /\ job.op = "delete" /\ job.of \in on => i \notin store'[job.kind][job.of]
  <2> DEFINE row == [cl \in Clusters |->
                       IF cl \notin on THEN store[job.kind][cl]
                       ELSE IF job.op = "delete" THEN store[job.kind][cl] \ {i}
                            ELSE store[job.kind][cl] \cup {i}]
  <2>1. store' = [store EXCEPT ![job.kind] = row]
    BY <1>2 DEF Apply
  <2>2. /\ row \in [Clusters -> SUBSET Items]
        /\ row[job.of] = IF job.of \notin on THEN store[job.kind][job.of]
                         ELSE IF job.op = "delete" THEN store[job.kind][job.of] \ {i}
                              ELSE store[job.kind][job.of] \cup {i}
    BY <1>1 DEF TypeOK
  <2>. HIDE DEF row
  <2>3. store' \in [Kinds -> [Clusters -> SUBSET Items]] /\ store'[job.kind] = row
    BY <1>1, <2>1, <2>2 DEF TypeOK
  <2>4. QED  BY <2>2, <2>3
<1>3. UNCHANGED store \/ \E on \in SUBSET Touched : Apply(i, on)
  BY DEF JobStep
<1>4. store' \in [Kinds -> [Clusters -> SUBSET Items]]
  BY <1>1, <1>2, <1>3 DEF TypeOK
<1>5. \/ Apply(i, Touched) /\ job' = [job EXCEPT !.left = @ \ {i}, !.ok = @ \cup {i}]
      \/ job' = [job EXCEPT !.left = @ \ {i}, !.failed = @ \cup {i}]
  BY DEF JobStep
<1>6. /\ job' \in JobRecord /\ job'.op = job.op /\ job'.todo = job.todo
      /\ job'.seen = job.seen /\ job'.kind = job.kind /\ job'.of = job.of
      /\ job'.left = job.left \ {i}
      /\ \/ Apply(i, Touched) /\ job'.ok = job.ok \cup {i} /\ job'.failed = job.failed
         \/ job'.ok = job.ok /\ job'.failed = job.failed \cup {i}
  <2>1. job.left \ {i} \in SUBSET Items /\ job.ok \cup {i} \in SUBSET Items
        /\ job.failed \cup {i} \in SUBSET Items
    BY <1>1 DEF JobRecord
  <2>2. CASE Apply(i, Touched) /\ job' = [job EXCEPT !.left = @ \ {i}, !.ok = @ \cup {i}]
    BY <1>1, <2>1, <2>2 DEF JobRecord
  <2>3. CASE job' = [job EXCEPT !.left = @ \ {i}, !.failed = @ \cup {i}]
    BY <1>1, <2>1, <2>3 DEF JobRecord
  <2>4. QED  BY <1>5, <2>2, <2>3
<1>7. job.op = "delete" => job'.ok \cap store'[job.kind][job.of] = {}
  <2>1. job.op = "delete" => job.of \in Touched
    BY DEF Touched
  <2>2. job.op = "delete" => store'[job.kind][job.of] \subseteq store[job.kind][job.of]
    BY <1>2, <1>3
  <2>3. QED  BY <1>1, <1>2, <1>6, <2>1, <2>2 DEF Exact
<1>8. Exact(job)'
  BY <1>1, <1>6, <1>7 DEF Exact
<1>9. BatchExact'
  BY <1>1, <1>6, <1>8 DEF BatchExact
<1>10. TypeOK' /\ Ticked'
  BY <1>1, <1>4, <1>6, Bounded DEF IInv, TypeOK, Ticked
<1>11. Loads'
  BY <1>1, NoAsk
<1>12. QED  BY <1>9, <1>10, <1>11 DEF IInv, Loads

LEMMA NextInv == IInv /\ [Next]_vars => IInv'
<1> SUFFICES ASSUME IInv, [Next]_vars  PROVE IInv'
  OBVIOUS
<1>1. CASE UNCHANGED vars
  BY <1>1 DEF vars, IInv, TypeOK, Numbered, Fresh, Ticked, ListOfCluster,
              BatchExact, Exact
<1>2. CASE Reload \/ Age \/ Job
  BY <1>2, ReloadInv, AgeInv, JobTokenInv, JobDoneInv, JobStepInv DEF Job
<1>3. CASE CreateOrResize
  BY <1>3, OperatorInv, StorageAssumption
<1>4. ASSUME NEW cl \in Clusters, SelectCluster(cl)  PROVE IInv'
  BY <1>4, SelectClusterInv
<1>5. ASSUME NEW k \in Kinds, Toggle(k) \/ BatchDelete(k) \/ Delete(k) \/ ApplyCaps(k)
      PROVE  IInv'
  BY <1>5, ToggleInv, OperatorInv
<1>6. ASSUME NEW q \in calls, LoadToken(q) \/ Loaded(q) \/ GroupsLoaded(q)  PROVE IInv'
  BY <1>6, LoadTokenInv, LoadedInv, GroupsLoadedInv
<1>7. QED  BY <1>1, <1>2, <1>3, <1>4, <1>5, <1>6 DEF Next

(***************************************************************************)
(* Theorems                                                                *)
(***************************************************************************)
(* Ticks, loads and the job keep in step with the lists and the cluster in *)
(* every reachable state.                                                  *)
THEOREM Inductive == Spec => []IInv
<1>1. QED  BY InitInv, NextInv, PTL DEF Spec

(* Lists, loads, ticks and jobs have their types.                          *)
THEOREM TypeCorrect == Spec => []TypeOK
<1>1. IInv => TypeOK
  BY DEF IInv
<1>2. QED  BY <1>1, Inductive, PTL

(* The list of the last load is the list of the selected cluster, however  *)
(* many loads are under way and in whatever order they come.               *)
THEOREM ListsSound == Spec => []ListOfCluster
<1>1. IInv => ListOfCluster
  BY DEF IInv
<1>2. QED  BY <1>1, Inductive, PTL

(* A deletion takes only names the operator saw, asks for each once and    *)
(* counts as deleted what is gone, for lists of any length and any failures.*)
THEOREM BatchesSound == Spec => []BatchExact
<1>1. IInv => BatchExact
  BY DEF IInv
<1>2. QED  BY <1>1, Inductive, PTL
=============================================================================
