---------------------------- MODULE Pages_proofs ----------------------------
(***************************************************************************)
(* Theorems about what a page of the web application has of a list.        *)
(* TokensPage: once all answers are there, the list is the current one of  *)
(* the selected project, in whatever order they came, for any number of    *)
(* projects and requests.  Paging: what a loop has read page by page, for  *)
(* any length of list, page size and number of changes meanwhile.          *)
(***************************************************************************)
EXTENDS TokensPage, Paging, FiniteSetTheorems, TLAPS

-----------------------------------------------------------------------------
(***************************************************************************)
(* TokensPage: the inductive invariant, in named parts                     *)
(***************************************************************************)
(* While the projects are loaded nothing can be selected or asked for.     *)
LoadInv ==
    \A c \in Calls : calls[c].op = "projects" =>
        /\ projects = {} /\ selected = None /\ asked = 0 /\ shown = None
        /\ \A d \in Calls : d # c => Free(d)

(* No list is newer than the one asked for last.                           *)
NumberInv ==
    /\ shown # None => shown.n <= asked
    /\ \A c \in Calls : calls[c].op = "list" => calls[c].n <= asked

(* The service made a change to the tokens of p that the page has not been *)
(* told of.                                                                *)
Change(c) == calls[c].op \in {"create", "revoke"}
Changing(p) == \E c \in Calls : Change(c) /\ calls[c].handled /\ calls[c].project = p

(* The newest list is as the tokens are now, but for such a change.        *)
Latest(p, n, v) == n = asked => v = version[p] \/ Changing(p)

CurrentInv ==
    ~lost =>
        /\ shown # None => Latest(shown.of, shown.n, shown.version)
        /\ \A c \in Calls : calls[c].op = "list" /\ calls[c].handled =>
                               Latest(calls[c].project, calls[c].n, calls[c].version)

(* The newest list is that of the selected project, and so is the one that *)
(* a change under way will ask for.                                        *)
SelectedInv ==
    ~stray =>
        /\ shown # None /\ shown.n = asked => shown.of = selected
        /\ \A c \in Calls :
              /\ calls[c].op = "list" /\ calls[c].n = asked => calls[c].project = selected
              /\ Change(c) => calls[c].sel = selected

PageInv == TypeOK /\ LoadInv /\ NumberInv /\ CurrentInv /\ SelectedInv

(***************************************************************************)
(* Calls                                                                   *)
(***************************************************************************)
LEMMA Calling ==
    ASSUME TypeOK, NEW c \in Calls, NEW q \in Request, Become(c, q)
    PROVE  /\ calls' \in [Calls -> Request] /\ calls'[c] = q
           /\ \A d \in Calls : d # c => calls'[d] = calls[d]
BY DEF TypeOK, Become

LEMMA IdleCall == Idle \in Request /\ Idle.op = "none"
BY DEF Idle, Request

(* A request for the list: it has the next number.                         *)
LEMMA Listing ==
    ASSUME TypeOK, NEW c \in Calls, NEW p \in Projects \cup {None}, ListTokens(c, p)
    PROVE  /\ asked' = asked + 1 /\ asked' \in Nat
           /\ \E q \in Request : /\ Become(c, q) /\ q.op = "list" /\ q.project = p
                                 /\ q.n = asked' /\ ~q.handled
<1> PICK q : q = [Idle EXCEPT !.op = "list", !.project = p, !.sel = p, !.n = asked + 1]
  OBVIOUS
<1>1. asked \in Nat /\ asked' = asked + 1 /\ asked' \in Nat
  BY DEF TypeOK, ListTokens
<1>2. Become(c, q)
  BY DEF ListTokens, List
<1>3. q \in Request /\ q.op = "list" /\ q.project = p /\ q.n = asked' /\ ~q.handled
  BY <1>1 DEF Idle, Request
<1> QED BY <1>1, <1>2, <1>3

(* A list asked for makes all others old: nothing is claimed of them, and  *)
(* this one has not been answered.                                         *)
LEMMA ListedNew ==
    ASSUME PageInv, NEW c \in Calls, NEW p \in Projects \cup {None}, ListTokens(c, p),
           shown' = shown \/ shown' = None
    PROVE  /\ NumberInv' /\ CurrentInv' /\ calls' \in [Calls -> Request] /\ asked' \in Nat
           /\ calls'[c].op = "list" /\ calls'[c].project = p
           /\ \A d \in Calls : d # c => calls'[d] = calls[d]
           /\ shown' # None => shown'.n < asked'
           /\ \A d \in Calls : calls'[d].op = "list" /\ calls'[d].n = asked' => d = c
<1> USE DEF PageInv
<1>1. asked' = asked + 1 /\ asked' \in Nat /\ asked \in Nat
  BY Listing DEF TypeOK
<1>2. PICK q \in Request : /\ Become(c, q) /\ q.op = "list" /\ q.project = p
                           /\ q.n = asked' /\ ~q.handled
  BY Listing
<1>3. /\ calls' \in [Calls -> Request] /\ calls'[c] = q
      /\ \A d \in Calls : d # c => calls'[d] = calls[d]
  BY <1>2, Calling
<1>4. shown # None => shown.n \in Nat /\ shown.n <= asked
  BY DEF TypeOK, NumberInv
<1>5. ASSUME NEW d \in Calls, d # c, calls[d].op = "list"
      PROVE  calls[d].n \in Nat /\ calls[d].n <= asked
  BY <1>5 DEF TypeOK, Request, NumberInv
<1>6. NumberInv'
  BY <1>1, <1>2, <1>3, <1>4, <1>5 DEF NumberInv
<1>7. shown' # None => shown'.n < asked'
  BY <1>1, <1>4
<1>8. \A d \in Calls : calls'[d].op = "list" /\ calls'[d].n = asked' => d = c
  BY <1>1, <1>3, <1>5
<1>9. CurrentInv'
  BY <1>1, <1>2, <1>3, <1>7, <1>8 DEF CurrentInv, Latest
<1> QED BY <1>1, <1>2, <1>3, <1>6, <1>7, <1>8, <1>9

(* A list of the project that is then selected.                            *)
LEMMA SelectedNew ==
    ASSUME PageInv, NEW c \in Calls, NEW p \in Projects \cup {None}, ListTokens(c, p),
           shown' = shown \/ shown' = None,
           selected' = p,
           ~stray' => ~stray /\ \A d \in Calls \ {c} : ~Change(d)
    PROVE  SelectedInv'
<1>1. /\ calls'[c].op = "list" /\ calls'[c].project = p
      /\ \A d \in Calls : d # c => calls'[d] = calls[d]
      /\ shown' # None => shown'.n < asked'
      /\ \A d \in Calls : calls'[d].op = "list" /\ calls'[d].n = asked' => d = c
      /\ asked' \in Nat
  BY ListedNew
<1>2. shown' # None => shown'.n # asked'
  BY <1>1 DEF PageInv, TypeOK
<1> QED BY <1>1, <1>2 DEF SelectedInv, Change

(***************************************************************************)
(* TokensPage: the steps                                                   *)
(***************************************************************************)
LEMMA LoadProjectsInv ==
    ASSUME PageInv, NEW c \in Calls, LoadProjects(c)
    PROVE  PageInv'
<1> USE DEF PageInv
<1>1. /\ projects = {} /\ selected = None /\ asked = 0 /\ shown = None
      /\ \A d \in Calls : d # c => Free(d)
      /\ calls[c].op = "projects" /\ shown' = None
      /\ UNCHANGED <<version, mine, shown, made, lost, stray>>
  BY DEF LoadProjects, LoadInv
<1>2. CASE Become(c, Idle) /\ UNCHANGED <<projects, tab, selected, asked>>
  <2>1. /\ calls' \in [Calls -> Request] /\ calls'[c] = Idle
        /\ \A d \in Calls : d # c => calls'[d] = calls[d]
    BY <1>2, Calling, IdleCall
  <2>2. \A d \in Calls : calls'[d].op = "none"
    BY <1>1, <2>1, IdleCall DEF Free
  <2>3. TypeOK'
    BY <1>1, <1>2, <2>1 DEF TypeOK
  <2> QED BY <1>1, <2>2, <2>3 DEF LoadInv, NumberInv, CurrentInv, SelectedInv, Change
<1>3. CASE \E p \in Projects : projects' = mine /\ tab' \in {"fabric", "service"} /\ Select(c, p)
  <2>1. PICK p \in Projects : projects' = mine /\ tab' \in {"fabric", "service"} /\ Select(c, p)
    BY <1>3
  <2>2. selected' = p /\ ListTokens(c, p)
    BY <2>1 DEF Select
  <2>3. /\ NumberInv' /\ CurrentInv' /\ calls' \in [Calls -> Request] /\ asked' \in Nat
        /\ calls'[c].op = "list" /\ \A d \in Calls : d # c => calls'[d] = calls[d]
    BY <1>1, <2>2, ListedNew
  <2>4. SelectedInv'
    <3>1. \A d \in Calls \ {c} : ~Change(d)
      BY <1>1 DEF Free, Change
    <3> QED BY <1>1, <2>2, <3>1, SelectedNew
  <2>5. LoadInv'
    BY <1>1, <2>3 DEF LoadInv, Free
  <2>6. TypeOK'
    BY <1>1, <2>1, <2>2, <2>3 DEF TypeOK
  <2> QED BY <2>3, <2>4, <2>5, <2>6
<1>4. \/ Become(c, Idle) /\ UNCHANGED <<projects, tab, selected, asked>>
      \/ \E p \in Projects : projects' = mine /\ tab' \in {"fabric", "service"} /\ Select(c, p)
  BY DEF LoadProjects, TypeOK
<1> QED BY <1>2, <1>3, <1>4

(* What is under way while the user can click on something.                *)
LEMMA NoCreate ==
    ASSUME Idling, NEW d \in Calls
    PROVE  Change(d) => calls[d].op = "revoke" /\ Out("revoke") # {}
BY DEF Idling, Out, Change

LEMMA HandleSelectProjectInv ==
    ASSUME PageInv, NEW c \in Calls, NEW p \in Projects, HandleSelectProject(c, p)
    PROVE  PageInv'
<1> USE DEF PageInv
<1>1. /\ UNCHANGED <<version, tab, mine, projects, shown, made, lost>>
      /\ selected' = p /\ ListTokens(c, p) /\ Free(c) /\ Idling /\ p \in projects
      /\ stray' = (stray \/ Out("revoke") # {})
  BY DEF HandleSelectProject, Select, Strays, Of
<1>2. /\ NumberInv' /\ CurrentInv' /\ calls' \in [Calls -> Request] /\ asked' \in Nat
      /\ calls'[c].op = "list" /\ \A d \in Calls : d # c => calls'[d] = calls[d]
  BY <1>1, ListedNew
<1>3. ~stray' => ~stray /\ \A d \in Calls \ {c} : ~Change(d)
  BY <1>1, NoCreate
<1>4. SelectedInv'
  BY <1>1, <1>3, SelectedNew
<1>5. LoadInv'
  <2>1. \A d \in Calls : calls[d].op # "projects"
    BY <1>1 DEF LoadInv
  <2> QED BY <1>2, <2>1 DEF LoadInv
<1>6. TypeOK'
  BY <1>1, <1>2 DEF TypeOK
<1> QED BY <1>2, <1>4, <1>5, <1>6

LEMMA HandleTabChangeInv ==
    ASSUME PageInv, NEW c \in Calls, NEW t \in {"fabric", "service"}, HandleTabChange(c, t)
    PROVE  PageInv'
<1> USE DEF PageInv
<1>1. /\ UNCHANGED <<version, mine, projects, made, lost>> /\ tab' = t /\ shown' = None
      /\ Free(c) /\ Idling
  BY DEF HandleTabChange
<1>2. CASE (\E p \in Of(t) : Select(c, p)) /\ Strays({"revoke"})
  <2>1. PICK p \in Of(t) : Select(c, p)
    BY <1>2
  <2>2. p \in Projects /\ p \in projects /\ selected' = p /\ ListTokens(c, p)
    BY <2>1 DEF Of, Select, TypeOK
  <2>3. /\ NumberInv' /\ CurrentInv' /\ calls' \in [Calls -> Request] /\ asked' \in Nat
        /\ calls'[c].op = "list" /\ \A d \in Calls : d # c => calls'[d] = calls[d]
    BY <1>1, <2>2, ListedNew
  <2>4. stray' = (stray \/ Out("revoke") # {})
    BY <1>2 DEF Strays
  <2>5. SelectedInv'
    <3>1. ~stray' => ~stray /\ \A d \in Calls \ {c} : ~Change(d)
      BY <1>1, <2>4, NoCreate
    <3> QED BY <1>1, <2>2, <3>1, SelectedNew
  <2>6. LoadInv'
    <3>1. \A d \in Calls : calls[d].op # "projects"
      BY <2>2 DEF LoadInv
    <3> QED BY <2>3, <3>1 DEF LoadInv
  <2>7. TypeOK'
    BY <1>1, <2>2, <2>3, <2>4 DEF TypeOK
  <2> QED BY <2>3, <2>5, <2>6, <2>7
<1>3. CASE /\ Of(t) = {} /\ selected' = None /\ UNCHANGED <<calls, asked>>
           /\ Strays({"revoke", "list"})
  <2>1. /\ selected' = None /\ UNCHANGED <<calls, asked>>
        /\ stray' = (stray \/ Out("revoke") # {} \/ Out("list") # {})
    BY <1>3 DEF Strays
  <2>2. LoadInv' /\ NumberInv'
    BY <1>1, <2>1 DEF LoadInv, NumberInv, Free
  <2>3. CurrentInv'
    BY <1>1, <2>1 DEF CurrentInv, Latest, Changing, Change
  <2>4. SelectedInv'
    <3>1. ~stray' => \A d \in Calls : calls[d].op # "list" /\ ~Change(d)
      BY <1>1, <2>1, NoCreate DEF Out
    <3> QED BY <1>1, <2>1, <3>1 DEF SelectedInv, Change
  <2>5. TypeOK'
    BY <1>1, <2>1 DEF TypeOK
  <2> QED BY <2>2, <2>3, <2>4, <2>5
<1> QED BY <1>2, <1>3 DEF HandleTabChange

(* A create or revoke is sent for the selected project's list.             *)
LEMMA SendInv ==
    ASSUME PageInv, NEW c \in Calls, NEW q \in Request, Send(c, q),
           q.op \in {"create", "revoke"}, ~q.handled, q.sel = selected,
           selected # None \/ shown # None
    PROVE  PageInv'
<1> USE DEF PageInv
<1>1. /\ UNCHANGED <<version, tab, selected, mine, projects, shown, asked, lost, stray>>
      /\ made' \in Nat /\ Become(c, q) /\ Free(c)
  BY DEF Send, view, TypeOK
<1>2. /\ calls' \in [Calls -> Request] /\ calls'[c] = q
      /\ \A d \in Calls : d # c => calls'[d] = calls[d]
  BY <1>1, Calling
<1>3. LoadInv'
  BY <1>1, <1>2 DEF LoadInv, Free
<1>4. NumberInv'
  BY <1>1, <1>2 DEF NumberInv
<1>5. CurrentInv'
  <2>1. \A p : Changing(p) => Changing(p)'
    BY <1>1, <1>2 DEF Changing, Change, Free
  <2>2. \A p, n, v : Latest(p, n, v) => Latest(p, n, v)'
    BY <1>1, <2>1 DEF Latest
  <2>3. shown # None /\ ~lost => Latest(shown.of, shown.n, shown.version)'
    <3> PICK s : s = shown
      OBVIOUS
    <3> QED BY <1>1, <2>2 DEF CurrentInv
  <2>4. ASSUME NEW d \in Calls, calls'[d].op = "list", calls'[d].handled, ~lost
        PROVE  Latest(calls[d].project, calls[d].n, calls[d].version)'
    <3> PICK s : s = calls[d]
      OBVIOUS
    <3>1. d # c /\ calls'[d] = s /\ s = calls[d]
      BY <1>2, <2>4
    <3>2. Latest(s.project, s.n, s.version)
      BY <2>4, <3>1 DEF CurrentInv
    <3> QED BY <2>2, <3>1, <3>2
  <2> QED BY <1>1, <2>3, <2>4 DEF CurrentInv
<1>6. SelectedInv'
  BY <1>1, <1>2 DEF SelectedInv, Change
<1>7. TypeOK'
  BY <1>1, <1>2 DEF TypeOK
<1> QED BY <1>3, <1>4, <1>5, <1>6, <1>7

LEMMA HandleCreateTokenInv ==
    ASSUME PageInv, NEW c \in Calls, HandleCreateToken(c)
    PROVE  PageInv'
<1> PICK q : q = [Idle EXCEPT !.op = "create", !.project = selected, !.sel = selected]
  OBVIOUS
<1>1. Send(c, q) /\ selected # None
  BY DEF HandleCreateToken
<1>2. q \in Request /\ q.op = "create" /\ ~q.handled /\ q.sel = selected
  BY DEF PageInv, TypeOK, Idle, Request
<1> QED BY <1>1, <1>2, SendInv

LEMMA HandleRevokeTokenInv ==
    ASSUME PageInv, NEW c \in Calls, HandleRevokeToken(c)
    PROVE  PageInv'
<1> PICK q : q = [Idle EXCEPT !.op = "revoke", !.project = shown.of, !.sel = selected]
  OBVIOUS
<1>1. Send(c, q) /\ shown # None
  BY DEF HandleRevokeToken
<1>2. q \in Request /\ q.op = "revoke" /\ ~q.handled /\ q.sel = selected
  BY <1>1 DEF PageInv, TypeOK, Idle, Request
<1> QED BY <1>1, <1>2, SendInv

(* The service reads or makes a version.                                   *)
LEMMA HandleInv ==
    ASSUME PageInv, NEW c \in Calls, Handle(c)
    PROVE  PageInv'
<1> USE DEF PageInv
<1> PICK s : s = calls[c]
  OBVIOUS
<1> PICK v : v = IF s.op = "list" THEN version[s.project] ELSE version[s.project] + 1
  OBVIOUS
<1> PICK q : q = [s EXCEPT !.handled = TRUE, !.version = v]
  OBVIOUS
<1>1. /\ s = calls[c] /\ s \in Request /\ s.op \in {"list", "create", "revoke"} /\ ~s.handled
      /\ UNCHANGED <<tab, selected, mine, projects, shown, asked, made, lost, stray>>
      /\ version' = [version EXCEPT ![s.project] = v] /\ Become(c, q)
  BY DEF Handle, view, TypeOK
<1>2. s.project \in Projects \cup {None} /\ v \in Nat
  BY <1>1 DEF TypeOK, Request
<1>3. /\ q \in Request /\ q.op = s.op /\ q.project = s.project /\ q.sel = s.sel /\ q.n = s.n
      /\ q.handled /\ q.version = v
  BY <1>1, <1>2 DEF Request
<1>4. /\ calls' \in [Calls -> Request] /\ calls'[c] = q
      /\ \A d \in Calls : d # c => calls'[d] = calls[d]
  BY <1>1, <1>3, Calling
<1>5. /\ version' \in [Projects \cup {None} -> Nat] /\ version'[s.project] = v
      /\ \A p : p # s.project => version'[p] = version[p]
  BY <1>1, <1>2 DEF TypeOK
(* To the page, the request is what it was.                                *)
<1>6. \A d \in Calls : /\ calls'[d].op = calls[d].op /\ calls'[d].n = calls[d].n
                       /\ calls'[d].project = calls[d].project /\ calls'[d].sel = calls[d].sel
  BY <1>1, <1>3, <1>4
<1>7. LoadInv' /\ NumberInv' /\ SelectedInv'
  BY <1>1, <1>6 DEF LoadInv, NumberInv, Free, SelectedInv, Change
<1>8. CurrentInv'
  <2>1. \A p : Changing(p) => Changing(p)'
    BY <1>1, <1>3, <1>4 DEF Changing, Change
  <2>2. s.op # "list" => Changing(s.project)'
    BY <1>1, <1>3, <1>4 DEF Changing, Change
  <2>3. s.op = "list" => version'[s.project] = version[s.project]
    BY <1>5
  <2>4. ASSUME NEW p, NEW n, NEW w, Latest(p, n, w)
        PROVE  Latest(p, n, w)'
    BY <1>1, <1>5, <2>1, <2>2, <2>3, <2>4 DEF Latest
  <2>5. shown # None /\ ~lost => Latest(shown.of, shown.n, shown.version)'
    <3> PICK t : t = shown
      OBVIOUS
    <3> QED BY <1>1, <2>4 DEF CurrentInv
  <2>6. ASSUME NEW d \in Calls, calls'[d].op = "list", calls'[d].handled, ~lost
        PROVE  Latest(calls[d].project, calls[d].n, calls[d].version)'
    <3>1. CASE d = c
      BY <1>3, <1>4, <1>5, <3>1 DEF Latest
    <3>2. CASE d # c
      <4> PICK t : t = calls[d]
        OBVIOUS
      <4>1. calls'[d] = t /\ t = calls[d]
        BY <1>4, <3>2
      <4>2. Latest(t.project, t.n, t.version)
        BY <2>6, <4>1 DEF CurrentInv
      <4> QED BY <2>4, <4>1, <4>2
    <3> QED BY <3>1, <3>2
  <2> QED BY <1>1, <2>5, <2>6 DEF CurrentInv
<1>9. TypeOK'
  BY <1>1, <1>4, <1>5 DEF TypeOK
<1> QED BY <1>7, <1>8, <1>9

(* A call that is over and asks for nothing takes no claim with it, unless *)
(* it was a change that was made.                                          *)
LEMMA Over ==
    ASSUME PageInv, NEW c \in Calls, Become(c, Idle),
           UNCHANGED <<version, view, asked, made, stray, shown>>,
           lost' \in BOOLEAN, ~lost' => ~lost /\ ~(Change(c) /\ calls[c].handled)
    PROVE  PageInv'
<1> USE DEF PageInv
<1>1. /\ calls' \in [Calls -> Request] /\ calls'[c].op = "none"
      /\ \A d \in Calls : d # c => calls'[d] = calls[d]
  BY Calling, IdleCall
<1>2. LoadInv' /\ NumberInv' /\ SelectedInv'
  BY <1>1 DEF LoadInv, NumberInv, SelectedInv, Change, Free, view
<1>3. CurrentInv'
  <2> SUFFICES ASSUME ~lost'
               PROVE  CurrentInv'
    BY DEF CurrentInv
  <2>1. \A p : Changing(p) => Changing(p)'
    BY <1>1 DEF Changing, Change
  <2>2. ASSUME NEW p, NEW n, NEW w, Latest(p, n, w)
        PROVE  Latest(p, n, w)'
    BY <2>1, <2>2 DEF Latest
  <2>3. shown # None => Latest(shown.of, shown.n, shown.version)'
    <3> PICK t : t = shown
      OBVIOUS
    <3> QED BY <2>2 DEF CurrentInv
  <2>4. ASSUME NEW d \in Calls, calls'[d].op = "list", calls'[d].handled
        PROVE  Latest(calls[d].project, calls[d].n, calls[d].version)'
    <3> PICK t : t = calls[d]
      OBVIOUS
    <3>1. calls'[d] = t /\ t = calls[d]
      BY <1>1, <2>4
    <3>2. Latest(t.project, t.n, t.version)
      BY <2>4, <3>1 DEF CurrentInv
    <3> QED BY <2>2, <3>1, <3>2
  <2> QED BY <2>3, <2>4 DEF CurrentInv
<1>4. TypeOK'
  BY <1>1 DEF TypeOK, view
<1> QED BY <1>2, <1>3, <1>4

LEMMA AnswerListInv ==
    ASSUME PageInv, NEW c \in Calls, AnswerList(c)
    PROVE  PageInv'
<1> USE DEF PageInv
<1>1. /\ UNCHANGED <<version, view, asked, made, lost, stray>> /\ Become(c, Idle)
      /\ calls[c].op = "list"
  BY DEF AnswerList
<1>2. CASE UNCHANGED shown
  BY <1>1, <1>2, Over DEF Change, TypeOK
<1>3. CASE /\ calls[c].handled
           /\ shown' = [of |-> calls[c].project, version |-> calls[c].version, n |-> calls[c].n]
  <2>1. /\ calls' \in [Calls -> Request] /\ calls'[c].op = "none"
        /\ \A d \in Calls : d # c => calls'[d] = calls[d]
    BY <1>1, Calling, IdleCall
  <2> PICK s : s = calls[c]
    OBVIOUS
  <2> PICK u : u = shown'
    OBVIOUS
  <2>2. /\ s \in Request /\ s = calls[c] /\ u = shown'
        /\ u = [of |-> s.project, version |-> s.version, n |-> s.n]
        /\ u.of = s.project /\ u.version = s.version /\ u.n = s.n
        /\ u \in [of : Projects \cup {None}, version : Nat, n : Nat]
    BY <1>3 DEF TypeOK, Request
  <2>3. LoadInv' /\ NumberInv'
    BY <1>1, <2>1, <2>2 DEF LoadInv, NumberInv, Free, view
  <2>4. SelectedInv'
    BY <1>1, <2>1, <2>2 DEF SelectedInv, Change, view
  <2>5. CurrentInv'
    <3> SUFFICES ASSUME ~lost
                 PROVE  CurrentInv'
      BY <1>1 DEF CurrentInv
    <3>1. \A p : Changing(p) => Changing(p)'
      BY <1>1, <2>1 DEF Changing, Change
    <3>2. ASSUME NEW p, NEW n, NEW w, Latest(p, n, w)
          PROVE  Latest(p, n, w)'
      BY <1>1, <3>1, <3>2 DEF Latest
    <3>3. Latest(u.of, u.n, u.version)
      BY <1>1, <1>3, <2>2 DEF CurrentInv
    <3>4. ASSUME NEW d \in Calls, calls'[d].op = "list", calls'[d].handled
          PROVE  Latest(calls[d].project, calls[d].n, calls[d].version)'
      <4> PICK t : t = calls[d]
        OBVIOUS
      <4>1. calls'[d] = t /\ t = calls[d]
        BY <2>1, <3>4
      <4>2. Latest(t.project, t.n, t.version)
        BY <3>4, <4>1 DEF CurrentInv
      <4> QED BY <3>2, <4>1, <4>2
    <3>5. Latest(u.of, u.n, u.version)'
      BY <3>2, <3>3
    <3> QED BY <2>2, <3>4, <3>5 DEF CurrentInv
  <2>6. TypeOK'
    BY <1>1, <2>1, <2>2 DEF TypeOK, view
  <2> QED BY <2>3, <2>4, <2>5, <2>6
<1> QED BY <1>2, <1>3 DEF AnswerList

LEMMA AnswerChangeInv ==
    ASSUME PageInv, NEW c \in Calls, AnswerChange(c)
    PROVE  PageInv'
<1> USE DEF PageInv
<1>1. /\ UNCHANGED <<version, view, shown, made, stray>> /\ Change(c)
  BY DEF AnswerChange, Change
<1>2. CASE calls[c].handled /\ ListTokens(c, calls[c].sel) /\ UNCHANGED lost
  <2> PICK p : p = calls[c].sel
    OBVIOUS
  <2>1. p \in Projects \cup {None} /\ ListTokens(c, p) /\ p = calls[c].sel
    BY <1>2 DEF TypeOK, Request
  <2>2. /\ NumberInv' /\ CurrentInv' /\ calls' \in [Calls -> Request] /\ asked' \in Nat
        /\ calls'[c].op = "list" /\ calls'[c].project = p
        /\ \A d \in Calls : d # c => calls'[d] = calls[d]
        /\ shown' # None => shown'.n < asked'
        /\ \A d \in Calls : calls'[d].op = "list" /\ calls'[d].n = asked' => d = c
    BY <1>1, <2>1, ListedNew
  <2>3. shown' # None => shown'.n # asked'
    BY <1>1, <2>2 DEF TypeOK
  <2>4. ~stray => p = selected
    BY <1>1, <2>1 DEF SelectedInv
  <2>5. SelectedInv'
    BY <1>1, <2>2, <2>3, <2>4 DEF SelectedInv, Change, view
  <2>6. LoadInv'
    <3>1. \A d \in Calls : calls[d].op # "projects"
      BY <1>1 DEF LoadInv, Change, Free
    <3> QED BY <2>2, <3>1 DEF LoadInv
  <2>7. TypeOK'
    BY <1>1, <1>2, <2>2 DEF TypeOK, view
  <2> QED BY <2>2, <2>5, <2>6, <2>7
<1>3. CASE Become(c, Idle) /\ UNCHANGED asked /\ lost' = (lost \/ calls[c].handled)
  <2>1. lost' \in BOOLEAN /\ (~lost' => ~lost /\ ~calls[c].handled)
    BY <1>3 DEF TypeOK
  <2> QED BY <1>1, <1>3, <2>1, Over
<1> QED BY <1>2, <1>3 DEF AnswerChange

LEMMA PageInitInv ==
    ASSUME Init
    PROVE  PageInv
<1>1. PICK c \in Calls :
         calls = [d \in Calls |-> IF d = c THEN [Idle EXCEPT !.op = "projects"] ELSE Idle]
  BY DEF Init
<1>2. [Idle EXCEPT !.op = "projects"] \in Request
      /\ [Idle EXCEPT !.op = "projects"].op = "projects"
  BY DEF Idle, Request
<1>3. /\ calls \in [Calls -> Request] /\ calls[c].op = "projects"
      /\ \A d \in Calls : d # c => calls[d].op = "none"
  BY <1>1, <1>2, IdleCall
<1>4. TypeOK
  BY <1>3 DEF Init, TypeOK
<1>5. LoadInv /\ NumberInv /\ CurrentInv /\ SelectedInv
  BY <1>3 DEF Init, LoadInv, NumberInv, CurrentInv, SelectedInv, Change, Free
<1> QED BY <1>4, <1>5 DEF PageInv

LEMMA PageNextInv ==
    ASSUME PageInv, [Next]_vars
    PROVE  PageInv'
<1>1. CASE Next
  BY <1>1, LoadProjectsInv, HandleCreateTokenInv, HandleRevokeTokenInv, HandleInv,
     AnswerListInv, AnswerChangeInv, HandleSelectProjectInv, HandleTabChangeInv DEF Next
<1>2. CASE UNCHANGED vars
  BY <1>2 DEF vars, PageInv, TypeOK, LoadInv, NumberInv, CurrentInv, SelectedInv,
              Latest, Changing, Change, Free
<1> QED BY <1>1, <1>2

THEOREM PageInvariance == Spec => []PageInv
BY PageInitInv, PageNextInv, PTL DEF Spec

(* Requests, lists and versions have their types in every reachable state. *)
THEOREM PageTyped == Spec => []TypeOK
<1>1. PageInv => TypeOK
  BY DEF PageInv
<1> QED BY <1>1, PageInvariance, PTL

(* However the answers overtake each other: once all of them are there and *)
(* the newest list came last, it has every change this page was told of.   *)
THEOREM ShownCurrent == Spec => []ListCurrent
<1>1. PageInv => ListCurrent
  BY DEF PageInv, CurrentInv, Latest, Changing, Change, ListCurrent, Settled, Free
<1> QED BY <1>1, PageInvariance, PTL

(* It is then the list of the project that is selected, unless the project *)
(* was changed behind a revoke, or to a tab without projects behind a list. *)
THEOREM ShownSelected == Spec => []ListOfSelected
<1>1. PageInv => ListOfSelected
  BY DEF PageInv, SelectedInv, ListOfSelected, Settled
<1> QED BY <1>1, PageInvariance, PTL

-----------------------------------------------------------------------------
(***************************************************************************)
(* Paging: ranks and pages                                                 *)
(***************************************************************************)
(* A list is finite, and ranks count its items in order.                   *)
LEMMA RankOrder ==
    ASSUME list \subseteq Items
    PROVE  /\ IsFiniteSet(list) /\ Cardinality(list) \in 0..N
           /\ \A i \in Items : Rank(i) \in 0..Cardinality(list)
           /\ \A i \in list : Rank(i) >= 1
           /\ \A i \in Items, j \in list : i < j => Rank(i) < Rank(j)
<1>1. IsFiniteSet(Items) /\ Cardinality(Items) = N
  BY FS_Interval, PagingAssumption DEF Items
<1>2. IsFiniteSet(list) /\ Cardinality(list) \in Nat /\ Cardinality(list) <= N
  BY <1>1, FS_Subset, FS_CardinalityType
<1> DEFINE upto(i) == {j \in list : j <= i}
<1>3. ASSUME NEW i \in Items
      PROVE  /\ IsFiniteSet(upto(i)) /\ Cardinality(upto(i)) \in Nat
             /\ Cardinality(upto(i)) <= Cardinality(list)
  <2>1. upto(i) \in SUBSET list
    OBVIOUS
  <2> QED BY <1>2, <2>1, FS_Subset, FS_CardinalityType
<1>4. ASSUME NEW i \in list
      PROVE  Cardinality(upto(i)) >= 1
  <2>1. i \in upto(i) /\ i \in Items
    BY PagingAssumption DEF Items
  <2>2. IsFiniteSet(upto(i)) /\ Cardinality(upto(i)) \in Nat /\ upto(i) # {}
    BY <1>3, <2>1
  <2> HIDE DEF upto
  <2> QED BY <2>2, FS_EmptySet
<1>5. ASSUME NEW i \in Items, NEW j \in list, i < j
      PROVE  Cardinality(upto(i)) < Cardinality(upto(j))
  <2>0. i \in Int /\ j \in Int /\ j \in Items /\ list \subseteq Int
    BY PagingAssumption DEF Items
  <2>1. upto(i) \in SUBSET upto(j) /\ upto(i) # upto(j) /\ j \in Items
    <3>1. ASSUME NEW k \in list, k <= i PROVE k <= j
      BY <1>5, <2>0, <3>1
    <3>2. j \in upto(j) /\ j \notin upto(i)
      BY <1>5, <2>0
    <3> QED BY <2>0, <3>1, <3>2
  <2>2. Cardinality(upto(i)) <= Cardinality(upto(j)) /\ Cardinality(upto(i)) # Cardinality(upto(j))
    BY <1>3, <2>1, FS_Subset
  <2> QED BY <1>3, <2>1, <2>2
<1>6. \A i : Rank(i) = Cardinality(upto(i))
  BY DEF Rank
<1> HIDE DEF upto
<1> QED BY <1>2, <1>3, <1>4, <1>5, <1>6, PagingAssumption DEF Items

(* Every rank up to the length of the list is that of one item.            *)
LEMMA RankBijection ==
    ASSUME list \subseteq Items
    PROVE  /\ \A i \in list : Rank(i) \in 1..Cardinality(list)
           /\ \A i \in list, j \in list : i # j => Rank(i) # Rank(j)
           /\ \A k \in 1..Cardinality(list) : \E i \in list : Rank(i) = k
<1> DEFINE n == Cardinality(list)
           f == [i \in list |-> Rank(i)]
<1>1. n \in Nat /\ IsFiniteSet(list) /\ \A i \in list : Rank(i) \in 1..n
  BY RankOrder, PagingAssumption DEF Items
<1>2. ASSUME NEW i \in list, NEW j \in list, i # j
      PROVE  Rank(i) # Rank(j)
  <2>1. i \in Nat /\ j \in Nat /\ i \in Items /\ j \in Items
    BY PagingAssumption DEF Items
  <2>2. CASE i < j
    BY <2>1, <2>2, <1>1, RankOrder
  <2>3. CASE j < i
    BY <2>1, <2>3, <1>1, RankOrder
  <2> QED BY <1>2, <2>1, <2>2, <2>3
<1>3. f \in Injection(list, 1..n)
  BY <1>1, <1>2 DEF Injection, IsInjective
<1>4. IsFiniteSet(1..n) /\ Cardinality(1..n) = n
  BY <1>1, FS_Interval
<1>5. f \in Surjection(list, 1..n)
  BY <1>3, <1>4, FS_Injection
<1>6. ASSUME NEW k \in 1..n
      PROVE  \E i \in list : Rank(i) = k
  BY <1>5 DEF Surjection
<1> QED BY <1>1, <1>2, <1>6

(* A page is full, or goes to the end of the list, or is empty behind it.  *)
LEMMA PageSize ==
    ASSUME list \subseteq Items, offset \in Nat
    PROVE  LET n == Cardinality(list)
               size == Cardinality(Page)
           IN /\ Page \subseteq list /\ IsFiniteSet(Page) /\ n \in Nat
              /\ size = IF offset >= n THEN 0
                        ELSE IF offset + Limit <= n THEN Limit ELSE n - offset
<1> DEFINE n == Cardinality(list)
           last == IF offset + Limit <= n THEN offset + Limit ELSE n
           K == (offset + 1)..last
           f == [i \in Page |-> Rank(i)]
<1>1. /\ n \in Nat /\ last \in Nat /\ last <= n /\ IsFiniteSet(list)
      /\ \A i \in list : Rank(i) \in 1..n
      /\ \A i \in list, j \in list : i # j => Rank(i) # Rank(j)
      /\ \A k \in 1..n : \E i \in list : Rank(i) = k
  BY RankOrder, RankBijection, PagingAssumption
<1>2. Page \subseteq list /\ IsFiniteSet(Page)
  BY <1>1, FS_Subset DEF Page
<1>3. ASSUME NEW i \in list
      PROVE  i \in Page <=> Rank(i) \in K
  <2>1. Rank(i) \in 1..n
    BY <1>1
  <2>2. i \in Page <=> offset < Rank(i) /\ Rank(i) <= offset + Limit
    BY DEF Page
  <2> QED BY <1>1, <2>1, <2>2, PagingAssumption
<1>4. ExistsBijection(Page, K)
  <2>1. f \in [Page -> K]
    BY <1>2, <1>3
  <2>2. \A i \in Page, j \in Page : f[i] = f[j] => i = j
    BY <1>1, <1>2
  <2>3. ASSUME NEW k \in K
        PROVE  \E i \in Page : f[i] = k
    <3>1. k \in 1..n
      BY <1>1
    <3>2. PICK i \in list : Rank(i) = k
      BY <1>1, <3>1
    <3> QED BY <1>3, <3>2
  <2>4. f \in Injection(Page, K) /\ f \in Surjection(Page, K)
    BY <2>1, <2>2, <2>3 DEF Injection, IsInjective, Surjection
  <2> QED BY <2>4 DEF ExistsBijection, Bijection
<1>5. Cardinality(K) = Cardinality(Page)
  BY <1>2, <1>4, FS_Bijection
<1>6. Cardinality(K) = IF offset + 1 > last THEN 0 ELSE last - (offset + 1) + 1
  <2>1. offset + 1 \in Int /\ last \in Int
    BY <1>1
  <2> HIDE DEF last
  <2> QED BY <2>1, FS_Interval
<1>7. Limit \in Nat /\ Limit >= 1
  BY PagingAssumption
<1> HIDE DEF K, f
<1> QED BY <1>1, <1>2, <1>5, <1>6, <1>7

(* Putting an item in moves others back, taking one out moves them forward. *)
LEMMA RankMoves ==
    ASSUME list \subseteq Items, list' \subseteq Items, NEW i \in Items
    PROVE  /\ Rank(i) \in Nat /\ Rank(i)' \in Nat
           /\ list \subseteq list' => Rank(i) <= Rank(i)'
           /\ list' \subseteq list => Rank(i)' <= Rank(i)
<1> DEFINE A == {j \in list : j <= i}
           B == {j \in list' : j <= i}
<1>1. IsFiniteSet(Items)
  BY FS_Interval, PagingAssumption DEF Items
<1>2. IsFiniteSet(A) /\ IsFiniteSet(B)
  BY <1>1, FS_Subset
<1>3. Cardinality(A) \in Nat /\ Cardinality(B) \in Nat
  BY <1>2, FS_CardinalityType
<1>4. list \subseteq list' => Cardinality(A) <= Cardinality(B)
  BY <1>2, FS_Subset
<1>5. list' \subseteq list => Cardinality(B) <= Cardinality(A)
  BY <1>2, FS_Subset
<1>6. Rank(i) = Cardinality(A) /\ Rank(i)' = Cardinality(B)
  BY DEF Rank
<1> QED BY <1>3, <1>4, <1>5, <1>6

(***************************************************************************)
(* Paging: the inductive invariant, in named parts                         *)
(***************************************************************************)
(* The service's loop is behind what it was given; the others are further  *)
(* on by whole pages; the tokens page has no second page.                  *)
BehindInv ==
    phase = "fetch" =>
        /\ loop = "core" => offset = fetched
        /\ loop # "core" => fetched <= offset
        /\ loop = "one" => offset = 0

(* What is in the list or was found was there from the beginning or came.  *)
KnownInv ==
    /\ list \subseteq before \cup added /\ Found \subseteq before \cup added
    /\ before \subseteq list \cup removed

(* Nothing was taken out: what was there from the beginning has been given *)
(* up to the offset, and in the end all of it.                             *)
ReachedInv ==
    removed = {} =>
        /\ phase = "fetch" => \A i \in before : Rank(i) <= offset => got[i] > 0
        /\ phase = "done" /\ (loop = "one" => Cardinality(list) <= Limit) => before \subseteq Found

(* Nothing was put in: everything given stays before the offset, so it is  *)
(* given once.                                                             *)
OnceInv ==
    added = {} =>
        /\ \A i \in Items : got[i] <= 1
        /\ fetched = Cardinality(Found)
        /\ phase = "fetch" => \A i \in list : got[i] > 0 => Rank(i) <= offset

ReadInv == ReadTypeOK /\ BehindInv /\ KnownInv /\ ReachedInv /\ OnceInv

LEMMA FoundFinite == IsFiniteSet(Found)
<1>1. IsFiniteSet(Items)
  BY FS_Interval, PagingAssumption DEF Items
<1>2. Found \in SUBSET Items
  BY DEF Found
<1> QED BY <1>1, <1>2, FS_Subset

(***************************************************************************)
(* Paging: the steps                                                       *)
(***************************************************************************)
LEMMA InsertInv ==
    ASSUME ReadInv, NEW k \in Items, Insert(k)
    PROVE  ReadInv'
<1> USE DEF ReadInv
<1>1. /\ phase = "fetch" /\ list' = list \cup {k} /\ added' = added \cup {k}
      /\ UNCHANGED <<loop, offset, total, got, fetched, phase, live, before, removed>>
  BY DEF Insert
<1>2. ReadTypeOK' /\ BehindInv'
  BY <1>1 DEF ReadTypeOK, BehindInv
<1>3. Found' = Found
  BY <1>1 DEF Found
<1>4. KnownInv'
  BY <1>1, <1>3 DEF KnownInv
<1>5. ReachedInv'
  <2>1. ASSUME removed = {}, NEW i \in before, Rank(i)' <= offset
        PROVE  got[i] > 0
    <3>1. i \in Items /\ Rank(i) <= Rank(i)' /\ Rank(i) \in Nat /\ Rank(i)' \in Nat /\ offset \in Nat
      BY <1>1, RankMoves DEF ReadTypeOK
    <3>2. Rank(i) <= offset
      BY <2>1, <3>1
    <3> QED BY <1>1, <2>1, <3>2 DEF ReachedInv
  <2> QED BY <1>1, <2>1 DEF ReachedInv
<1>6. OnceInv'
  BY <1>1 DEF OnceInv
<1> QED BY <1>2, <1>4, <1>5, <1>6

LEMMA RemoveInv ==
    ASSUME ReadInv, NEW k \in Items, Remove(k)
    PROVE  ReadInv'
<1> USE DEF ReadInv
<1>1. /\ phase = "fetch" /\ list' = list \ {k} /\ removed' = removed \cup {k}
      /\ UNCHANGED <<loop, offset, total, got, fetched, phase, live, before, added>>
  BY DEF Remove
<1>2. ReadTypeOK' /\ BehindInv'
  BY <1>1 DEF ReadTypeOK, BehindInv
<1>3. Found' = Found
  BY <1>1 DEF Found
<1>4. KnownInv'
  BY <1>1, <1>3 DEF KnownInv
<1>5. ReachedInv'
  BY <1>1 DEF ReachedInv
<1>6. OnceInv'
  <2>1. ASSUME added = {}, NEW i \in list', got[i] > 0
        PROVE  Rank(i)' <= offset
    <3>1. i \in Items /\ Rank(i)' <= Rank(i) /\ Rank(i) \in Nat /\ Rank(i)' \in Nat /\ offset \in Nat
      BY <1>1, RankMoves DEF ReadTypeOK
    <3>2. Rank(i) <= offset
      BY <1>1, <2>1 DEF OnceInv
    <3> QED BY <3>1, <3>2
  <2> QED BY <1>1, <1>3, <2>1 DEF OnceInv
<1> QED BY <1>2, <1>4, <1>5, <1>6

(* Nothing fetched is kept.                                                *)
LEMMA FailInv ==
    ASSUME ReadInv, Fail
    PROVE  ReadInv'
<1> USE DEF ReadInv
<1>1. /\ phase' = "failed" /\ got' = [i \in Items |-> 0] /\ fetched' = 0
      /\ UNCHANGED <<list, loop, offset, total, live, before, added, removed>>
  BY DEF Fail
<1>2. Found' = {} /\ Cardinality({}) = 0
  BY <1>1, FS_EmptySet DEF Found
<1> QED BY <1>1, <1>2 DEF ReadTypeOK, BehindInv, KnownInv, ReachedInv, OnceInv

LEMMA FetchInv ==
    ASSUME ReadInv, Fetch
    PROVE  ReadInv'
<1> USE DEF ReadInv
<1> PICK size : size = Cardinality(Page)
  OBVIOUS
<1> PICK n : n = Cardinality(list)
  OBVIOUS
<1>1. /\ phase = "fetch"
      /\ got' = [i \in Items |-> IF i \in Page THEN got[i] + 1 ELSE got[i]]
      /\ fetched' = fetched + size /\ total' = n
      /\ \/ Done(size, fetched + size, n) /\ phase' = "done" /\ offset' = offset
         \/ /\ phase' = "fetch"
            /\ offset' = IF loop = "core" THEN offset + size ELSE offset + Limit
            /\ ~Done(size, fetched + size, n)
      /\ UNCHANGED <<list, loop, live, before, added, removed>>
  BY DEF Fetch, CoreOffset
<1>2. /\ Page \subseteq list /\ IsFiniteSet(Page) /\ n \in Nat /\ Page \subseteq Items
      /\ size = IF offset >= n THEN 0 ELSE IF offset + Limit <= n THEN Limit ELSE n - offset
  BY PageSize DEF ReadTypeOK
<1>3. /\ Limit \in Nat /\ Limit >= 1 /\ offset \in Nat /\ fetched \in Nat /\ loop \in Loops
      /\ size \in Nat /\ size <= Limit
  BY <1>2, PagingAssumption DEF ReadTypeOK
<1>4. /\ \A i \in Items : got[i] \in Nat
      /\ \A i \in Page : got'[i] = got[i] + 1
      /\ \A i \in Items \ Page : got'[i] = got[i]
  BY <1>1, <1>2 DEF ReadTypeOK
<1>5. Found' = Found \cup Page
  BY <1>2, <1>4 DEF Found
<1>6. \A i \in list : Rank(i) \in 1..n
  BY RankBijection DEF ReadTypeOK
<1>7. \A i \in Items : Rank(i)' = Rank(i)
  BY <1>1 DEF Rank
<1>8. \A i \in list : i \in Page <=> offset < Rank(i) /\ Rank(i) <= offset + Limit
  BY DEF Page
(* A loop that ends has come to the end of the list.                       *)
<1>9. Done(size, fetched + size, n) /\ (loop = "one" => n <= Limit) => n <= offset + Limit
  <2> SUFFICES ASSUME Done(size, fetched + size, n), loop = "one" => n <= Limit
               PROVE  n <= offset + Limit
    OBVIOUS
  <2>1. CASE loop = "core"
    BY <1>1, <1>2, <1>3, <2>1 DEF Done, BehindInv
  <2>2. CASE loop = "web"
    BY <1>1, <1>2, <1>3, <2>2 DEF Done, WebDone, BehindInv
  <2>3. CASE loop = "members"
    BY <1>1, <1>2, <1>3, <2>3 DEF Done, MembersDone, BehindInv
  <2>4. CASE loop = "one"
    BY <1>1, <1>2, <1>3, <2>4 DEF BehindInv
  <2> QED BY <1>3, <2>1, <2>2, <2>3, <2>4 DEF Loops
<1>10. BehindInv'
  BY <1>1, <1>3 DEF BehindInv, Done
<1>11. KnownInv'
  BY <1>1, <1>2, <1>5 DEF KnownInv
<1>12. ReachedInv'
  <2> SUFFICES ASSUME removed = {}
               PROVE  ReachedInv'
    BY <1>1 DEF ReachedInv
  <2>1. before \subseteq list
    BY DEF KnownInv
  <2>2. ASSUME NEW i \in before, Rank(i) <= offset + Limit
        PROVE  i \in Found'
    <3>1. i \in list /\ i \in Items /\ Rank(i) \in Nat
      BY <1>6, <2>1 DEF ReadTypeOK
    <3>2. CASE Rank(i) <= offset
      BY <1>1, <1>5, <3>1, <3>2 DEF ReachedInv, Found
    <3>3. CASE Rank(i) > offset
      BY <1>5, <1>8, <2>2, <3>1, <3>3
    <3> QED BY <1>3, <3>1, <3>2, <3>3
  <2>3. CASE phase' = "done"
    <3> SUFFICES ASSUME (loop = "one" => Cardinality(list) <= Limit)', NEW i \in before
                 PROVE  i \in Found'
      BY <1>1, <2>3 DEF ReachedInv
    <3>1. n <= offset + Limit
      BY <1>1, <1>9, <2>3
    <3>2. Rank(i) \in 1..n
      BY <1>6, <2>1
    <3> QED BY <1>2, <1>3, <2>2, <3>1, <3>2
  <2>4. CASE phase' = "fetch"
    <3> SUFFICES ASSUME NEW i \in before, Rank(i)' <= offset'
                 PROVE  got'[i] > 0
      BY <1>1, <2>4 DEF ReachedInv
    <3>1. i \in list /\ i \in Items /\ Rank(i) \in Nat
      BY <1>6, <2>1 DEF ReadTypeOK
    <3>2. Rank(i) <= offset + Limit
      BY <1>1, <1>3, <1>7, <2>4, <3>1
    <3> QED BY <2>2, <3>2 DEF Found
  <2> QED BY <1>1, <2>3, <2>4
<1>13. OnceInv'
  <2> SUFFICES ASSUME added = {}
               PROVE  OnceInv'
    BY <1>1 DEF OnceInv
  <2>1. ASSUME NEW i \in Page PROVE got[i] = 0
    BY <1>1, <1>2, <1>3, <1>4, <1>6, <1>8 DEF OnceInv
  <2>2. ASSUME NEW i \in Items PROVE got'[i] <= 1
    BY <1>2, <1>4, <2>1 DEF OnceInv
  <2>3. fetched' = Cardinality(Found')
    <3>1. Found \cap Page = {}
      BY <2>1 DEF Found
    <3>2. IsFiniteSet(Found)
      BY FoundFinite
    <3>3. Cardinality(Found') = Cardinality(Found) + size - Cardinality(Found \cap Page)
      BY <1>2, <1>5, <3>2, FS_Union
    <3>4. Cardinality(Found \cap Page) = 0 /\ Cardinality(Found) \in Nat
      BY <3>1, <3>2, FS_EmptySet, FS_CardinalityType
    <3> QED BY <1>1, <1>3, <3>3, <3>4 DEF OnceInv
  <2>4. ASSUME phase' = "fetch", NEW i \in list, got'[i] > 0
        PROVE  Rank(i) <= offset'
    <3>1. i \in Items /\ Rank(i) \in Nat /\ Rank(i) <= n
      BY <1>2, <1>6 DEF ReadTypeOK
    <3>2. CASE i \in Page
      <4>1. offset < Rank(i) /\ Rank(i) <= offset + Limit
        BY <1>8, <3>2
      <4>2. Rank(i) <= offset + size
        BY <1>2, <1>3, <3>1, <4>1
      <4> QED BY <1>1, <1>3, <2>4, <3>1, <4>1, <4>2
    <3>3. CASE i \notin Page
      <4>1. Rank(i) <= offset
        BY <1>1, <1>4, <2>4, <3>1, <3>3 DEF OnceInv
      <4> QED BY <1>1, <1>3, <2>4, <3>1, <4>1
    <3> QED BY <3>2, <3>3
  <2> QED BY <1>1, <1>7, <2>2, <2>3, <2>4 DEF OnceInv, ReadTypeOK
<1>14. ReadTypeOK'
  <2>1. got' \in [Items -> Nat]
    BY <1>1, <1>4
  <2>2. n \in 0..Unknown
    BY RankOrder, PagingAssumption DEF ReadTypeOK, Unknown
  <2> QED BY <1>1, <1>3, <2>1, <2>2 DEF ReadTypeOK
<1> QED BY <1>10, <1>11, <1>12, <1>13, <1>14

LEMMA ReadInitInv ==
    ASSUME ReadInit
    PROVE  ReadInv
<1> USE DEF ReadInit
<1>1. ReadTypeOK
  <2>1. 0 \in Nat /\ Unknown \in 0..Unknown
    BY PagingAssumption DEF Unknown
  <2> QED BY <2>1 DEF ReadTypeOK
<1>2. Found = {} /\ Cardinality({}) = 0
  BY FS_EmptySet DEF Found
<1>3. BehindInv /\ KnownInv
  BY <1>2 DEF BehindInv, KnownInv
<1>4. ReachedInv
  <2>1. \A i \in list : Rank(i) \in 1..Cardinality(list) /\ Cardinality(list) \in Nat
    BY RankBijection, RankOrder
  <2>2. \A i \in before : ~(Rank(i) <= offset)
    BY <2>1
  <2> QED BY <2>2 DEF ReachedInv
<1>5. OnceInv
  BY <1>2 DEF OnceInv
<1> QED BY <1>1, <1>3, <1>4, <1>5 DEF ReadInv

LEMMA ReadNextInv ==
    ASSUME ReadInv, [ReadNext]_readVars
    PROVE  ReadInv'
<1>1. CASE ReadNext
  BY <1>1, FetchInv, FailInv, InsertInv, RemoveInv DEF ReadNext
<1>2. CASE UNCHANGED readVars
  <2>1. Found' = Found /\ \A i : Rank(i)' = Rank(i)
    BY <1>2 DEF readVars, Found, Rank
  <2> QED BY <1>2, <2>1 DEF readVars, ReadInv, ReadTypeOK, BehindInv, KnownInv, ReachedInv, OnceInv
<1> QED BY <1>1, <1>2

THEOREM ReadInvariance == ReadSpec => []ReadInv
BY ReadInitInv, ReadNextInv, PTL DEF ReadSpec

(* The list, the loop's variables and what it was given have their types.  *)
THEOREM ReadTyped == ReadSpec => []ReadTypeOK
<1>1. ReadInv => ReadTypeOK
  BY DEF ReadInv
<1> QED BY <1>1, ReadInvariance, PTL

(* However long the list and whatever the page size: what stayed in the    *)
(* list is missed only if something was taken out, and an item is given    *)
(* twice only if something was put in.                                     *)
THEOREM ReadMissedOrTwice == ReadSpec => []MissedOrTwice
<1>1. ReadInv => MissedOrTwice
  BY DEF ReadInv, ReachedInv, OnceInv, MissedOrTwice, Finished
<1> QED BY <1>1, ReadInvariance, PTL

(* A list that nobody changed is read exactly once, item by item, by each  *)
(* of the loops; so a token for all projects has each active one, and a    *)
(* project is found by its name if there is one such.                      *)
THEOREM ReadExactly == ReadSpec => []ExactWhenQuiet
<1>1. ASSUME ReadInv PROVE ExactWhenQuiet
  <2> SUFFICES ASSUME Finished, Changes = 0, loop = "one" => Cardinality(list) <= Limit
               PROVE  /\ \A i \in Items : got[i] = IF i \in list THEN 1 ELSE 0
                      /\ TokenRefused <=> list \cap live = {}
                      /\ ProjectFound <=> Cardinality(list) = 1
    BY DEF ExactWhenQuiet
  <2>1. added = {} /\ removed = {}
    <3>1. IsFiniteSet(added) /\ IsFiniteSet(removed)
      <4>1. IsFiniteSet(Items)
        BY FS_Interval, PagingAssumption DEF Items
      <4>2. added \in SUBSET Items /\ removed \in SUBSET Items
        BY <1>1 DEF ReadInv, ReadTypeOK
      <4> QED BY <4>1, <4>2, FS_Subset
    <3>2. Cardinality(added) \in Nat /\ Cardinality(removed) \in Nat
      BY <3>1, FS_CardinalityType
    <3>3. Cardinality(added) = 0 /\ Cardinality(removed) = 0
      BY <3>2 DEF Changes
    <3> QED BY <3>1, <3>3, FS_EmptySet
  <2>2. Found = list
    BY <1>1, <2>1 DEF ReadInv, KnownInv, ReachedInv, Finished
  <2>3. \A i \in Items : got[i] = IF i \in list THEN 1 ELSE 0
    BY <1>1, <2>1, <2>2 DEF ReadInv, ReadTypeOK, OnceInv, Found
  <2>4. TokenRefused <=> list \cap live = {}
    BY <2>2 DEF TokenRefused, TokenProjects
  <2>5. ProjectFound <=> Cardinality(list) = 1
    BY <1>1, <2>1, <2>2 DEF ReadInv, OnceInv, ProjectFound
  <2> QED BY <2>3, <2>4, <2>5
<1> QED BY <1>1, ReadInvariance, PTL
=============================================================================
