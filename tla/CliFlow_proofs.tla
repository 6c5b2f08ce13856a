--------------------------- MODULE CliFlow_proofs ---------------------------
(***************************************************************************)
(* Theorems about CliFlow, for any number of programs and projects: the    *)
(* parameters that come back from the one cookie of the browser are those  *)
(* some program was opened with, a token already shown is not made again   *)
(* from them, and no tab makes a second token.                             *)
(***************************************************************************)
EXTENDS CliFlow, FiniteSetTheorems, NaturalsInduction, TLAPS

(***************************************************************************)
(* The inductive invariant, in named parts.                                *)
(***************************************************************************)
(* The program's URL was opened, and q is what it asks for.                *)
Known(x) == x \in Logins /\ tab[x].at # "closed"
Genuine(q) == Known(q.to) /\ q = asked[q.to]

(* The tab went to the login and lost its parameters, for good.            *)
Back(x) == tab[x].at = "login" \/ (tab[x].at # "closed" /\ tab[x].url = Bare)

(* Logins whose token was on a page at some time.                          *)
EverShown == Shown \cup UNION {tab[c].shown : c \in Logins}

(* How far the request of a tab is.                                        *)
Answered(t, answer) == t.at = "answer" /\ t.answer = answer
ToLogin(t) == t.at = "login" \/ Answered(t, "login")
Sending(t) == t.at \in {"choose", "create"}
Making(t) == t.at \in {"create", "page"} \/ Answered(t, "page")
Serving(t) == t.at \in {"choose", "code", "done"} \/ Making(t)

(* What waits in the cookie is for a tab that has to come back for it, and *)
(* whose token was on no page yet.                                         *)
CookieInv == jar # None => Genuine(jar) /\ Back(jar.to) /\ jar.to \notin EverShown

(* A URL has all parameters of its program or none, and none only after    *)
(* the login.                                                              *)
UrlInv(c) ==
    LET t == tab[c] IN
    /\ t.url = Bare \/ (t.at # "closed" /\ t.url = asked[c] /\ asked[c].to = c)
    /\ t.url = Bare /\ t.at # "closed" => t.member
    /\ t.member => session

(* The same of the cookie a request was sent with.                         *)
SavedInv(c) ==
    LET t == tab[c] IN
    t.saved # None =>
       Genuine(t.saved) /\ Back(t.saved.to) /\ (t.url = Bare => t.saved.to \notin t.shown)

(* The parameters in effect are those of some program, of the tab's own or *)
(* of one that came back; and a token made from the cookie is a new one.   *)
AskInv(c) ==
    LET t == tab[c] IN
    /\ t.at = "choose" => t.ask.project = None /\ Genuine(t.ask)
    /\ Making(t) => /\ Known(t.ask.to) /\ t.ask.project \in Projects
                    /\ AsAsked(t.ask.project, t.ask.life, asked[t.ask.to])
    /\ ToLogin(t) => t.ask = asked[c] /\ asked[c].to = c
    /\ Answered(t, "login") => ~t.member
    /\ Serving(t) => t.member /\ t.ask.to \in Logins /\ (t.ask.to = c \/ Back(t.ask.to))
    /\ Sending(t) /\ t.url = Bare => t.ask.to \notin t.shown

TabInv(c) == UrlInv(c) /\ SavedInv(c) /\ AskInv(c)

(* A login whose token was shown has no way left to store its parameters.  *)
ShownInv == \A x \in EverShown : x \in Logins /\ (tab[x].at = "login" \/ tab[x].member)

(* Made and delivered tokens.                                              *)
TokensInv ==
    /\ \A k \in tokens : Known(k.to) /\ AsAsked(k.project, k.life, asked[k.to]) /\ ~k.late
    /\ \A c \in Logins : \A g \in got[c] : Known(c) /\ AsAsked(g.project, g.life, asked[c])

(* Tabs that can still make a token without a fault.                       *)
CanMake(t) == \/ t.at \in {"closed", "sent", "choose", "create", "login"}
              \/ Answered(t, "login")
Able == {c \in Logins : CanMake(tab[c])}

(* Each token used up a tab or a fault.                                    *)
CountInv ==
    /\ IsFiniteSet(tokens)
    /\ Cardinality(tokens) + Cardinality(Able) <= Cardinality(Logins) + faults

(* A login with nothing in its way is the only one, and nothing failed.    *)
AloneInv ==
    \A c \in Logins : c \notin disturbed =>
        faults = 0 /\ (tab[c].at # "closed" => Others(c) = {})

IInv ==
    /\ TypeOK /\ CookieInv
    /\ \A c \in Logins : TabInv(c)
    /\ ShownInv /\ TokensInv /\ CountInv /\ AloneInv

(***************************************************************************)
(* Types                                                                   *)
(***************************************************************************)
(* A set of numbers has a least one.                                       *)
LEMMA Least ==
    ASSUME NEW S \in SUBSET Nat, S # {}
    PROVE  \E x \in S : \A y \in S : x <= y
<1> DEFINE R == {ss \in Nat \X Nat : ss[1] < ss[2]}
<1>1. IsWellFoundedOn(R, Nat)
  BY NatLessThanWellFounded, SMT DEF OpToRel
<1>2. PICK x \in S : \A y \in S : ~(<<y, x>> \in R)
  BY <1>1, WFMin
<1>3. ASSUME NEW y \in S PROVE x <= y
  <2>1. x \in Nat /\ y \in Nat
    OBVIOUS
  <2>2. y < x => <<y, x>> \in R
    <3>1. <<y, x>> \in Nat \X Nat /\ <<y, x>>[1] = y /\ <<y, x>>[2] = x
      BY <2>1
    <3> QED BY <3>1, Zenon DEF R
  <2>3. ~(y < x)
    BY <1>2, <2>2, Zenon
  <2> QED BY <2>1, <2>3
<1> QED BY <1>3

(* The first active project is an active project.                          *)
LEMMA FirstActiveIn ==
    ASSUME active \subseteq Projects, active # {}
    PROVE  FirstActive \in active
<1>1. \E p \in active : \A o \in active : p <= o
  BY Least, CliAssumption
<1> QED BY <1>1, Zenon DEF FirstActive

LEMMA BareTyped == Bare \in Params /\ Bare # None
BY NoCookieAssumption DEF Bare, Params

LEMMA ClosedTyped == Closed \in Tab
BY BareTyped DEF Closed, Tab

LEMMA ParamsFields ==
    ASSUME NEW q \in Params
    PROVE  /\ q.to \in Logins \cup {None}
           /\ q.project \in Projects \cup {None}
           /\ q.life \in Lifetimes \cup {DefaultLife}
           /\ q # None
BY NoCookieAssumption DEF Params

LEMMA TabFields ==
    ASSUME NEW t \in Tab
    PROVE  /\ t.url \in Params /\ t.saved \in Params \cup {None}
           /\ t.member \in BOOLEAN /\ t.ask \in Params
           /\ t.shown \in SUBSET Logins
BY DEF Tab

(* What the cookie gives for a URL that has no parameters, and for one that *)
(* has.                                                                    *)
LEMMA MergedParams ==
    ASSUME NEW q \in Params, NEW saved \in Params \cup {None}
    PROVE  /\ Merged(q, saved) \in Params
           /\ q.to # None => Merged(q, saved) = q
           /\ q = Bare => Merged(q, saved) = IF saved = None THEN Bare ELSE saved
<1>1. CASE saved = None
  BY <1>1 DEF Merged
<1>2. CASE saved # None
  BY <1>2, ParamsFields DEF Merged, Params, Bare
<1> QED BY <1>1, <1>2

(***************************************************************************)
(* What every step leaves as it is                                         *)
(***************************************************************************)
Moves ==
    /\ active' = active /\ (session => session')
    /\ \A x \in Logins : /\ Known(x) => Known(x)' /\ asked'[x] = asked[x]
                         /\ Back(x) => Back(x)'

LEMMA AsAskedStays ==
    ASSUME active' = active, NEW p, NEW l, NEW q
    PROVE  AsAsked(p, l, q)' <=> AsAsked(p, l, q)
<1>1. FirstActive' = FirstActive
  BY DEF FirstActive
<1> QED BY <1>1 DEF AsAsked

LEMMA GenuineStays ==
    ASSUME Moves, NEW q, Genuine(q)
    PROVE  Genuine(q)' /\ (Back(q.to) => Back(q.to)')
BY DEF Moves, Genuine, Known

(* The invariant of a tab nothing happens to.                              *)
LEMMA TabStays ==
    ASSUME IInv, Moves, NEW c \in Logins, tab'[c] = tab[c]
    PROVE  TabInv(c)'
<1> PICK t : t = tab[c]
  OBVIOUS
<1> USE DEF IInv
<1>0. t = tab[c] /\ t = tab'[c] /\ t \in Tab /\ TabInv(c)
  BY DEF TypeOK
<1>1. UrlInv(c)'
  BY <1>0 DEF TabInv, UrlInv, Moves, Known
<1>2. SavedInv(c)'
  <2> SUFFICES ASSUME t.saved # None
               PROVE  /\ Genuine(t.saved)' /\ Back(t.saved.to)'
                      /\ t.url = Bare => t.saved.to \notin t.shown
    BY <1>0 DEF SavedInv
  <2> QED BY <1>0, GenuineStays DEF TabInv, SavedInv
<1>3. AskInv(c)'
  <2>1. t.at = "choose" => t.ask.project = None /\ Genuine(t.ask)'
    BY <1>0, GenuineStays DEF TabInv, AskInv
  <2>2. ASSUME Making(t)
        PROVE  /\ Known(t.ask.to)' /\ t.ask.project \in Projects
               /\ AsAsked(t.ask.project, t.ask.life, asked[t.ask.to])'
    <3>1. /\ Known(t.ask.to) /\ t.ask.project \in Projects
          /\ AsAsked(t.ask.project, t.ask.life, asked[t.ask.to])
      BY <1>0, <2>2 DEF TabInv, AskInv
    <3>2. Known(t.ask.to)' /\ asked'[t.ask.to] = asked[t.ask.to]
      BY <3>1 DEF Moves, Known
    <3> QED BY <3>1, <3>2, AsAskedStays DEF Moves
  <2>3. ToLogin(t) => t.ask = asked'[c] /\ asked'[c].to = c
    BY <1>0 DEF TabInv, AskInv, Moves, Known, ToLogin, Answered
  <2>4. /\ Answered(t, "login") => ~t.member
        /\ Sending(t) /\ t.url = Bare => t.ask.to \notin t.shown
    BY <1>0 DEF TabInv, AskInv
  <2>5. Serving(t) => t.member /\ t.ask.to \in Logins /\ (t.ask.to = c \/ Back(t.ask.to)')
    BY <1>0 DEF TabInv, AskInv, Moves
  <2> QED BY <1>0, <2>1, <2>2, <2>3, <2>4, <2>5 DEF AskInv
<1> QED BY <1>1, <1>2, <1>3 DEF TabInv

(***************************************************************************)
(* A tab changes                                                           *)
(***************************************************************************)
LEMMA Becoming ==
    ASSUME TypeOK, NEW c \in Logins, NEW t \in Tab, Become(c, t)
    PROVE  /\ tab' \in [Logins -> Tab]
           /\ tab'[c] = t
           /\ \A d \in Logins : d # c => tab'[d] = tab[d]
BY DEF TypeOK, Become

LEMMA MovesIf ==
    ASSUME TypeOK, NEW c \in Logins, NEW t \in Tab, Become(c, t), t.at # "closed",
           Back(c) => t.at = "login" \/ t.url = Bare,
           active' = active, session => session',
           \A x \in Logins : Known(x) => asked'[x] = asked[x]
    PROVE  Moves
<1>1. ASSUME NEW x \in Logins
      PROVE  (Known(x) => Known(x)') /\ (Back(x) => Back(x)')
  <2>1. CASE x = c
    BY <2>1, Becoming DEF Known, Back
  <2>2. CASE x # c
    BY <2>2, Becoming DEF Known, Back
  <2> QED BY <2>1, <2>2
<1> QED BY <1>1 DEF Moves

(* No login but those in new is shown for the first time.                  *)
LEMMA ShownGrows ==
    ASSUME TypeOK, NEW c \in Logins, NEW t \in Tab, Become(c, t),
           NEW new, t.shown \subseteq EverShown \cup new,
           t.at \in {"page", "code", "done"} => t.ask.to \in EverShown \cup new
    PROVE  EverShown' \subseteq EverShown \cup new
<1>1. ASSUME NEW d \in Logins, tab'[d].at \in {"page", "code", "done"}
      PROVE  tab'[d].ask.to \in EverShown \cup new
  BY <1>1, Becoming DEF EverShown, Shown
<1>2. ASSUME NEW d \in Logins
      PROVE  tab'[d].shown \subseteq EverShown \cup new
  BY <1>2, Becoming DEF EverShown
<1> QED BY <1>1, <1>2 DEF EverShown, Shown

LEMMA ShownKept ==
    ASSUME IInv, NEW c \in Logins, NEW t \in Tab, Become(c, t),
           EverShown' \subseteq EverShown,
           c \in EverShown => t.at = "login" \/ t.member
    PROVE  ShownInv'
<1> SUFFICES ASSUME NEW x \in EverShown'
             PROVE  x \in Logins /\ (tab'[x].at = "login" \/ tab'[x].member)
  BY DEF ShownInv
<1>1. x \in EverShown /\ x \in Logins /\ (tab[x].at = "login" \/ tab[x].member)
  BY DEF IInv, ShownInv
<1> QED BY <1>1, Becoming DEF IInv

LEMMA CookieKept ==
    ASSUME IInv, Moves, jar' = jar, EverShown' \subseteq EverShown
    PROVE  CookieInv'
BY GenuineStays DEF IInv, CookieInv

LEMMA GotKept ==
    ASSUME IInv, Moves, got' = got
    PROVE  \A c \in Logins : \A g \in got'[c] : Known(c)' /\ AsAsked(g.project, g.life, asked[c])'
BY AsAskedStays DEF IInv, TokensInv, Moves, Known

LEMMA MadeKept ==
    ASSUME IInv, Moves
    PROVE  \A k \in tokens : Known(k.to)' /\ AsAsked(k.project, k.life, asked[k.to])' /\ ~k.late
<1> SUFFICES ASSUME NEW k \in tokens
             PROVE  Known(k.to)' /\ AsAsked(k.project, k.life, asked[k.to])' /\ ~k.late
  OBVIOUS
<1>1. Known(k.to) /\ AsAsked(k.project, k.life, asked[k.to]) /\ ~k.late
  BY DEF IInv, TokensInv
<1>2. Known(k.to)' /\ asked'[k.to] = asked[k.to]
  BY <1>1 DEF Moves, Known
<1> QED BY <1>1, <1>2, AsAskedStays DEF Moves

LEMMA TokensKept ==
    ASSUME IInv, Moves, tokens' = tokens, got' = got
    PROVE  TokensInv'
BY GotKept, MadeKept DEF TokensInv

(***************************************************************************)
(* Counting                                                                *)
(***************************************************************************)
LEMMA AbleFinite ==
    /\ IsFiniteSet(Able) /\ Cardinality(Able) \in Nat
    /\ Cardinality(Able) <= Cardinality(Logins) /\ Cardinality(Logins) \in Nat
BY FS_Subset, FS_CardinalityType, CliAssumption DEF Able

(* A tab that cannot make a token is left out, and one that cannot does    *)
(* not come back without a fault.                                          *)
LEMMA AbleKept ==
    ASSUME TypeOK, NEW c \in Logins, NEW t \in Tab, Become(c, t)
    PROVE  LET n == Cardinality(Able)
               m == Cardinality(Able')
           IN /\ m \in Nat /\ m <= n + 1
              /\ (CanMake(t) => CanMake(tab[c])) => m <= n
              /\ ~CanMake(t) /\ CanMake(tab[c]) => m <= n - 1
<1>1. Able' \subseteq Able \cup {c}
  BY Becoming DEF Able
<1>2. (CanMake(t) => CanMake(tab[c])) => Able' \subseteq Able
  BY Becoming DEF Able
<1>3. ~CanMake(t) => Able' \subseteq Able \ {c}
  BY Becoming DEF Able
<1>4. CanMake(tab[c]) => c \in Able
  BY DEF Able
<1>5. /\ IsFiniteSet(Able \cup {c}) /\ Cardinality(Able \cup {c}) <= Cardinality(Able) + 1
      /\ IsFiniteSet(Able \ {c})
      /\ c \in Able => Cardinality(Able \ {c}) = Cardinality(Able) - 1
  <2>1. /\ IsFiniteSet(Able \cup {c})
        /\ Cardinality(Able \cup {c}) =
              IF c \in Able THEN Cardinality(Able) ELSE Cardinality(Able) + 1
    BY AbleFinite, FS_AddElement
  <2>2. /\ IsFiniteSet(Able \ {c})
        /\ Cardinality(Able \ {c}) =
              IF c \in Able THEN Cardinality(Able) - 1 ELSE Cardinality(Able)
    BY AbleFinite, FS_RemoveElement
  <2> QED BY <2>1, <2>2, AbleFinite
<1>6. ASSUME NEW S, IsFiniteSet(S), Able' \subseteq S
      PROVE  Cardinality(Able') <= Cardinality(S)
  BY <1>6, FS_Subset
<1>7. Cardinality(Able') \in Nat /\ Cardinality(Able \cup {c}) \in Nat
  BY <1>1, <1>5, FS_Subset, FS_CardinalityType
<1>8. Cardinality(Able') <= Cardinality(Able) + 1
  BY <1>1, <1>5, <1>6, <1>7, AbleFinite
<1>9. (CanMake(t) => CanMake(tab[c])) => Cardinality(Able') <= Cardinality(Able)
  BY <1>2, <1>6, AbleFinite
<1>10. ~CanMake(t) /\ CanMake(tab[c]) => Cardinality(Able') <= Cardinality(Able) - 1
  BY <1>3, <1>4, <1>5, <1>6
<1> QED BY <1>7, <1>8, <1>9, <1>10

LEMMA CountKept ==
    ASSUME IInv, NEW c \in Logins, NEW t \in Tab, Become(c, t),
           tokens' = tokens, faults' \in Nat,
           \/ faults' >= faults + 1
           \/ faults' = faults /\ (CanMake(t) => CanMake(tab[c]))
    PROVE  CountInv'
<1>1. Cardinality(tokens) \in Nat /\ faults \in Nat
  BY FS_CardinalityType DEF IInv, CountInv, TypeOK
<1> QED BY <1>1, AbleKept, AbleFinite DEF IInv, CountInv

(* A token made takes its tab out of those that can make one.              *)
LEMMA CountMade ==
    ASSUME IInv, NEW c \in Logins, NEW t \in Tab, Become(c, t), NEW k,
           tokens' = tokens \cup {k}, faults' \in Nat, faults' >= faults,
           CanMake(tab[c]), ~CanMake(t)
    PROVE  CountInv'
<1>1. Cardinality(tokens) \in Nat /\ faults \in Nat
  BY FS_CardinalityType DEF IInv, CountInv, TypeOK
<1>2. /\ IsFiniteSet(tokens') /\ Cardinality(tokens') \in Nat
      /\ Cardinality(tokens') <= Cardinality(tokens) + 1
  <2>1. /\ IsFiniteSet(tokens')
        /\ Cardinality(tokens') =
              IF k \in tokens THEN Cardinality(tokens) ELSE Cardinality(tokens) + 1
    BY FS_AddElement DEF IInv, CountInv
  <2> QED BY <1>1, <2>1, FS_CardinalityType
<1> QED BY <1>1, <1>2, AbleKept, AbleFinite DEF IInv, CountInv

(* An open tab that stays open changes nothing about who is alone.         *)
LEMMA AloneKept ==
    ASSUME IInv, NEW c \in Logins, NEW t \in Tab, Become(c, t),
           tab[c].at # "closed", t.at # "closed",
           \/ disturbed' = disturbed /\ faults' = faults
           \/ disturbed' = Logins
    PROVE  AloneInv'
<1> SUFFICES ASSUME NEW d \in Logins, d \notin disturbed'
             PROVE  faults' = 0 /\ (tab'[d].at # "closed" => Others(d)' = {})
  BY DEF AloneInv
<1>1. disturbed' = disturbed /\ faults' = faults
  OBVIOUS
<1>2. \A x \in Logins : tab'[x].at = "closed" <=> tab[x].at = "closed"
  BY Becoming DEF IInv
<1>3. Others(d)' = Others(d)
  BY <1>2 DEF Others
<1> QED BY <1>1, <1>2, <1>3 DEF IInv, AloneInv

(***************************************************************************)
(* A request goes on                                                       *)
(***************************************************************************)
(* Tab c, with a request under way, becomes t; its URL and what was shown  *)
(* before stay.                                                            *)
GoesOn(c, t) ==
    /\ Become(c, t)
    /\ tab[c].at \notin {"closed", "login"} /\ t.at # "closed"
    /\ t.url = tab[c].url /\ t.member = tab[c].member /\ t.shown = tab[c].shown
    /\ session' = session /\ active' = active /\ asked' = asked

LEMMA GoingOn ==
    ASSUME IInv, NEW c \in Logins, NEW t \in Tab, GoesOn(c, t)
    PROVE  /\ Moves
           /\ \A d \in Logins : d # c => TabInv(d)'
           /\ UrlInv(c)'
           /\ tab' \in [Logins -> Tab] /\ tab'[c] = t
<1> USE DEF IInv, GoesOn
<1>1. /\ tab' \in [Logins -> Tab] /\ tab'[c] = t
      /\ \A d \in Logins : d # c => tab'[d] = tab[d]
  BY Becoming
<1>2. Moves
  <2>1. Back(c) => t.url = Bare
    BY DEF Back
  <2> QED BY <2>1, MovesIf
<1>3. \A d \in Logins : d # c => TabInv(d)'
  BY <1>1, <1>2, TabStays
<1>4. UrlInv(c)'
  BY <1>1 DEF TabInv, UrlInv
<1> QED BY <1>1, <1>2, <1>3, <1>4

(* ... and no page with a token comes up.                                  *)
LEMMA GoingOnUnseen ==
    ASSUME IInv, NEW c \in Logins, NEW t \in Tab, GoesOn(c, t),
           t.at \in {"page", "code", "done"} =>
               tab[c].at \in {"page", "code", "done"} /\ t.ask.to = tab[c].ask.to
    PROVE  EverShown' \subseteq EverShown /\ ShownInv'
<1> USE DEF IInv, GoesOn
<1>1. t.shown \subseteq EverShown
  BY DEF EverShown
<1>2. t.at \in {"page", "code", "done"} => t.ask.to \in EverShown
  BY DEF EverShown, Shown
<1>3. EverShown' \subseteq EverShown \cup {}
  BY <1>1, <1>2, ShownGrows
<1>4. c \in EverShown => t.member
  BY DEF ShownInv
<1> QED BY <1>3, <1>4, ShownKept

(* What the steps have to show each.                                       *)
LEMMA GoneOn ==
    ASSUME IInv, NEW c \in Logins, NEW t \in Tab, GoesOn(c, t),
           TypeOK', CookieInv', SavedInv(c)', AskInv(c)', ShownInv', TokensInv', CountInv',
           \/ disturbed' = disturbed /\ faults' = faults
           \/ disturbed' = Logins
    PROVE  IInv'
<1>1. AloneInv'
  BY AloneKept DEF GoesOn
<1>2. ASSUME NEW d \in Logins PROVE TabInv(d)'
  BY GoingOn DEF TabInv
<1> QED BY <1>1, <1>2 DEF IInv

(***************************************************************************)
(* The handler                                                             *)
(***************************************************************************)
LEMMA HandleInv ==
    ASSUME IInv, NEW c \in Logins, Handle(c)
    PROVE  IInv'
<1> USE DEF IInv
<1> PICK s : s = tab[c]
  OBVIOUS
<1> PICK q : q = Merged(tab[c].url, tab[c].saved)
  OBVIOUS
<1>0. s = tab[c] /\ s \in Tab /\ s.at = "sent" /\ q = Merged(s.url, s.saved)
      /\ UrlInv(c) /\ SavedInv(c)
  BY DEF Handle, TypeOK, TabInv
<1>1. q \in Params
  BY <1>0, TabFields, MergedParams
(* The parameters in effect are those of the tab, or those of a tab that is *)
(* back.                                                                   *)
<1>2. \/ s.url # Bare /\ q = asked[c] /\ q.to = c
      \/ s.url = Bare /\ q = Bare
      \/ s.url = Bare /\ Genuine(q) /\ Back(q.to) /\ q.to \notin s.shown
  <2>1. CASE s.url = Bare
    <3>1. q = IF s.saved = None THEN Bare ELSE s.saved
      BY <1>0, <2>1, TabFields, MergedParams
    <3> QED BY <1>0, <2>1, <3>1 DEF SavedInv
  <2>2. CASE s.url # Bare
    <3>1. s.url = asked[c] /\ asked[c].to = c
      BY <1>0, <2>2 DEF UrlInv
    <3>2. q = s.url
      BY <1>0, <3>1, TabFields, MergedParams, CliAssumption
    <3> QED BY <2>2, <3>1, <3>2
  <2> QED BY <2>1, <2>2
<1>3. PICK t \in Tab :
         /\ GoesOn(c, t) /\ t.saved = None /\ t.ask = q
         /\ \/ Answered(t, "error")
            \/ Answered(t, "login") /\ q.to \in Logins /\ ~s.member
            \/ t.at = "choose" /\ q.to \in Logins /\ s.member /\ q.project = None
            \/ t.at = "create" /\ q.to \in Logins /\ s.member /\ q.project # None
  <2> DEFINE u == [s EXCEPT !.ask = q, !.saved = None]
             End(answer) == [u EXCEPT !.at = "answer", !.answer = answer]
  <2>1. \/ Become(c, End("error"))
        \/ Become(c, End("login")) /\ q.to \in Logins /\ ~s.member
        \/ Become(c, [u EXCEPT !.at = "choose"]) /\ q.to \in Logins /\ s.member /\ q.project = None
        \/ Become(c, [u EXCEPT !.at = "create"]) /\ q.to \in Logins /\ s.member /\ q.project # None
    <3>1. CASE ~ValidRedirect(q)
      BY <1>0, <3>1 DEF Handle
    <3>2. CASE ValidRedirect(q) /\ ~s.member
      BY <1>0, <3>2 DEF Handle, ValidRedirect
    <3>3. CASE ValidRedirect(q) /\ s.member
      <4>1. Become(c, [u EXCEPT !.at = IF q.project = None THEN "choose" ELSE "create"])
        BY <1>0, <3>3 DEF Handle
      <4> QED BY <3>3, <4>1 DEF ValidRedirect
    <3> QED BY <1>0, <3>1, <3>2, <3>3 DEF Tab
  <2>2. /\ End("error") \in Tab /\ End("login") \in Tab
        /\ [u EXCEPT !.at = "choose"] \in Tab /\ [u EXCEPT !.at = "create"] \in Tab
    BY <1>0, <1>1 DEF Tab
  <2>3. session' = session /\ active' = active /\ asked' = asked
    BY DEF Handle, browser, history
  <2>4. ASSUME NEW t \in Tab, Become(c, t), t.at # "closed", t.url = s.url,
               t.member = s.member, t.shown = s.shown
        PROVE  GoesOn(c, t)
    BY <1>0, <2>3, <2>4 DEF GoesOn
  <2>5. CASE Become(c, End("error"))
    <3> PICK t \in Tab : t = End("error")
      BY <2>2
    <3>1. GoesOn(c, t) /\ t.saved = None /\ t.ask = q /\ Answered(t, "error")
      BY <1>0, <2>4, <2>5 DEF Answered, Tab
    <3> QED BY <3>1
  <2>6. CASE Become(c, End("login")) /\ q.to \in Logins /\ ~s.member
    <3> PICK t \in Tab : t = End("login")
      BY <2>2
    <3>1. GoesOn(c, t) /\ t.saved = None /\ t.ask = q /\ Answered(t, "login")
      BY <1>0, <2>4, <2>6 DEF Answered, Tab
    <3> QED BY <2>6, <3>1
  <2>7. CASE Become(c, [u EXCEPT !.at = "choose"]) /\ q.to \in Logins /\ s.member /\ q.project = None
    <3> PICK t \in Tab : t = [u EXCEPT !.at = "choose"]
      BY <2>2
    <3>1. GoesOn(c, t) /\ t.saved = None /\ t.ask = q /\ t.at = "choose"
      BY <1>0, <2>4, <2>7 DEF Tab
    <3> QED BY <2>7, <3>1
  <2>8. CASE Become(c, [u EXCEPT !.at = "create"]) /\ q.to \in Logins /\ s.member /\ q.project # None
    <3> PICK t \in Tab : t = [u EXCEPT !.at = "create"]
      BY <2>2
    <3>1. GoesOn(c, t) /\ t.saved = None /\ t.ask = q /\ t.at = "create"
      BY <1>0, <2>4, <2>8 DEF Tab
    <3> QED BY <2>8, <3>1
  <2> QED BY <2>1, <2>5, <2>6, <2>7, <2>8
<1>4. tab'[c] = t /\ Moves /\ tab' \in [Logins -> Tab]
  BY <1>3, GoingOn
<1>5. s.url # Bare => Known(c) /\ asked'[c] = asked[c] /\ Genuine(q)
  BY <1>0, <1>2, <1>4 DEF UrlInv, Known, Genuine, Moves
<1>6. q.to \in Logins => Genuine(q)' /\ (q.to = c \/ Back(q.to)')
  BY <1>2, <1>4, <1>5, GenuineStays, CliAssumption DEF Bare
<1>7. SavedInv(c)'
  BY <1>3, <1>4 DEF SavedInv
<1>8. AskInv(c)'
  <2>1. CASE Answered(t, "error")
    BY <1>4, <2>1 DEF AskInv, Answered, Making, ToLogin, Serving, Sending
  <2>2. CASE Answered(t, "login") /\ q.to \in Logins /\ ~s.member
    <3>1. s.url # Bare
      BY <1>0, <2>2 DEF UrlInv
    <3>2. q = asked'[c] /\ asked'[c].to = c
      BY <1>2, <1>5, <3>1
    <3> QED BY <1>3, <1>4, <2>2, <3>2
            DEF AskInv, Answered, Making, ToLogin, Serving, Sending, GoesOn
  <2>3. CASE t.at \in {"choose", "create"} /\ q.to \in Logins /\ s.member
    <3>1. t.at = "choose" => q.project = None /\ Genuine(q)'
      BY <1>3, <1>6, <2>3 DEF Answered
    <3>2. t.at = "create" => /\ Known(q.to)' /\ q.project \in Projects
                             /\ AsAsked(q.project, q.life, asked[q.to])'
      BY <1>1, <1>3, <1>6, <2>3, ParamsFields DEF Answered, Genuine, AsAsked
    <3>3. t.url = Bare => q.to \notin t.shown
      BY <1>0, <1>2, <1>3, <2>3, CliAssumption DEF GoesOn, Bare
    <3> QED BY <1>0, <1>3, <1>4, <1>6, <2>3, <3>1, <3>2, <3>3
            DEF AskInv, Answered, Making, ToLogin, Serving, Sending, GoesOn
  <2> QED BY <1>3, <2>1, <2>2, <2>3
<1>9. EverShown' \subseteq EverShown /\ ShownInv'
  BY <1>3, GoingOnUnseen DEF Answered
<1>10. UNCHANGED <<jar, session, active, tokens, got, asked, disturbed, faults>>
  BY DEF Handle, browser, history
<1>11. CookieInv' /\ TokensInv'
  BY <1>4, <1>9, <1>10, CookieKept, TokensKept
<1>12. CountInv'
  <2>1. CanMake(tab[c])
    BY <1>0 DEF CanMake
  <2> QED BY <1>3, <1>10, <2>1, CountKept DEF GoesOn, TypeOK
<1>13. TypeOK'
  BY <1>4, <1>10 DEF TypeOK
<1> QED BY <1>3, <1>7, <1>8, <1>9, <1>10, <1>11, <1>12, <1>13, GoneOn

(* A tab that was given an error or has failed carries nothing on.         *)
LEMMA ErrorAsk ==
    ASSUME NEW c \in Logins, Answered(tab'[c], "error") \/ tab'[c].at = "failed"
    PROVE  AskInv(c)'
BY DEF AskInv, Answered, Making, ToLogin, Serving, Sending

(* What a tab was sent with stays as it is.                                *)
LEMMA SavedKept ==
    ASSUME IInv, NEW c \in Logins, NEW t \in Tab, GoesOn(c, t), t.saved = tab[c].saved
    PROVE  SavedInv(c)'
<1>1. tab'[c] = t /\ Moves /\ SavedInv(c)
  BY GoingOn DEF IInv, TabInv
<1> PICK s : s = tab[c]
  OBVIOUS
<1>2. ASSUME t.saved # None
      PROVE  Genuine(t.saved)' /\ Back(t.saved.to)' /\ (t.url = Bare => t.saved.to \notin t.shown)
  <2>1. Genuine(t.saved) /\ Back(t.saved.to) /\ (t.url = Bare => t.saved.to \notin t.shown)
    BY <1>1, <1>2 DEF SavedInv, GoesOn
  <2> QED BY <1>1, <2>1, GenuineStays
<1> QED BY <1>1, <1>2 DEF SavedInv

LEMMA ChooseProjectInv ==
    ASSUME IInv, NEW c \in Logins, ChooseProject(c)
    PROVE  IInv'
<1> USE DEF IInv
<1> PICK s : s = tab[c]
  OBVIOUS
<1>0. s = tab[c] /\ s \in Tab /\ s.at = "choose" /\ AskInv(c)
  BY DEF ChooseProject, TypeOK, TabInv
<1>1. UNCHANGED <<jar, session, active, tokens, got, asked, disturbed, faults>>
  BY DEF ChooseProject, browser, history
<1>2. PICK t \in Tab :
         /\ GoesOn(c, t) /\ t.saved = s.saved
         /\ \/ Answered(t, "error")
            \/ /\ t.at = "create" /\ active # {} /\ t.ask.project = FirstActive
               /\ t.ask.to = s.ask.to /\ t.ask.life = s.ask.life
  <2>1. CASE active = {}
    <3> PICK t : t = [s EXCEPT !.at = "answer", !.answer = "error"]
      OBVIOUS
    <3>1. Become(c, t)
      BY <1>0, <2>1 DEF ChooseProject, Answer
    <3>2. t \in Tab /\ Answered(t, "error") /\ t.saved = s.saved
      BY <1>0 DEF Tab, Answered
    <3>3. GoesOn(c, t)
      BY <1>0, <1>1, <3>1 DEF GoesOn, Tab
    <3> QED BY <3>2, <3>3
  <2>2. CASE active # {}
    <3> PICK t : t = [s EXCEPT !.at = "create", !.ask.project = FirstActive]
      OBVIOUS
    <3>1. Become(c, t)
      BY <1>0, <2>2 DEF ChooseProject
    <3>2. FirstActive \in Projects
      BY <2>2, FirstActiveIn DEF TypeOK
    <3>3. t \in Tab /\ t.saved = s.saved /\ t.at = "create" /\ t.ask.project = FirstActive
          /\ t.ask.to = s.ask.to /\ t.ask.life = s.ask.life
      BY <1>0, <3>2 DEF Tab, Params
    <3>4. GoesOn(c, t)
      BY <1>0, <1>1, <3>1 DEF GoesOn, Tab
    <3> QED BY <2>2, <3>3, <3>4
  <2> QED BY <2>1, <2>2
<1>3. tab'[c] = t /\ Moves /\ tab' \in [Logins -> Tab]
  BY <1>2, GoingOn
<1>4. AskInv(c)'
  <2>1. CASE Answered(t, "error")
    BY <1>3, <2>1, ErrorAsk
  <2>2. CASE ~Answered(t, "error")
    <3>1. s.ask.project = None /\ Genuine(s.ask) /\ s.member
          /\ (s.ask.to = c \/ Back(s.ask.to)) /\ (s.url = Bare => s.ask.to \notin s.shown)
      BY <1>0 DEF AskInv, Serving, Sending
    <3>2. Genuine(s.ask)' /\ (t.ask.to = c \/ Back(t.ask.to)') /\ t.member
          /\ (t.url = Bare => t.ask.to \notin t.shown)
      BY <1>0, <1>2, <1>3, <2>2, <3>1, GenuineStays DEF GoesOn
    <3>3. Known(t.ask.to)' /\ t.ask.to \in Logins /\ t.ask.life = asked'[t.ask.to].life
          /\ asked'[t.ask.to].project = None
      BY <1>2, <2>2, <3>1, <3>2 DEF Genuine, Known
    <3>4. t.ask.project = FirstActive /\ active # {} /\ FirstActive \in Projects
      BY <1>2, <2>2, FirstActiveIn DEF TypeOK
    <3>5. AsAsked(t.ask.project, t.ask.life, asked'[t.ask.to])
      BY <3>3, <3>4 DEF AsAsked
    <3>6. AsAsked(t.ask.project, t.ask.life, asked[t.ask.to])'
      BY <1>1, <3>5, AsAskedStays
    <3> QED BY <1>2, <1>3, <2>2, <3>2, <3>3, <3>4, <3>6
            DEF AskInv, Answered, Making, ToLogin, Serving, Sending
  <2> QED BY <2>1, <2>2
<1>5. EverShown' \subseteq EverShown /\ ShownInv'
  BY <1>2, GoingOnUnseen DEF Answered
<1>6. CookieInv' /\ TokensInv' /\ SavedInv(c)'
  BY <1>0, <1>1, <1>2, <1>3, <1>5, CookieKept, TokensKept, SavedKept
<1>7. CountInv'
  <2>1. CanMake(tab[c])
    BY <1>0 DEF CanMake
  <2> QED BY <1>1, <1>2, <2>1, CountKept DEF GoesOn, TypeOK
<1>8. TypeOK'
  BY <1>1, <1>3 DEF TypeOK
<1> QED BY <1>1, <1>2, <1>4, <1>5, <1>6, <1>7, <1>8, GoneOn

(***************************************************************************)
(* Tokens                                                                  *)
(***************************************************************************)
(* The token a tab makes: it is typed, as its program asked for, and new   *)
(* where the parameters came from the cookie.                              *)
LEMMA MadeGood ==
    ASSUME IInv, NEW c \in Logins, tab[c].at = "create"
    PROVE  LET k == Made(c) IN
           /\ k \in Token /\ Known(k.to) /\ AsAsked(k.project, k.life, asked[k.to]) /\ ~k.late
<1> USE DEF IInv
<1> PICK s : s = tab[c]
  OBVIOUS
<1>0. s = tab[c] /\ s \in Tab /\ s.at = "create" /\ AskInv(c) /\ UrlInv(c)
  BY DEF TypeOK, TabInv
<1>1. /\ Known(s.ask.to) /\ s.ask.project \in Projects
      /\ AsAsked(s.ask.project, s.ask.life, asked[s.ask.to])
      /\ s.url = Bare => s.ask.to \notin s.shown
  BY <1>0 DEF AskInv, Making, Sending
<1>2. s.url.to = None => s.url = Bare
  <2>1. s.url # Bare => s.url.to = c
    BY <1>0 DEF UrlInv
  <2> QED BY <2>1, CliAssumption
<1>3. Cardinality(tokens) + 1 \in Nat
  BY FS_CardinalityType DEF CountInv
<1> PICK n : n = Cardinality(tokens) + 1
  OBVIOUS
<1> PICK l : l = (s.url.to = None /\ s.ask.to \in s.shown)
  OBVIOUS
<1>4. l \in BOOLEAN /\ ~l
  BY <1>1, <1>2
<1>5. Made(c) = [to |-> s.ask.to, project |-> s.ask.project, life |-> s.ask.life, n |-> n, late |-> l]
  BY <1>0 DEF Made
<1>6. s.ask.life \in Lifetimes \cup {DefaultLife} /\ s.ask.to \in Logins /\ n \in Nat
  BY <1>0, <1>1, <1>3, TabFields, ParamsFields DEF Known
<1>7. Made(c) \in Token
  BY <1>1, <1>4, <1>5, <1>6 DEF Token
<1>8. Made(c).to = s.ask.to /\ Made(c).project = s.ask.project /\ Made(c).life = s.ask.life
      /\ ~Made(c).late
  BY <1>4, <1>5
<1> QED BY <1>1, <1>7, <1>8

LEMMA TokenAdded ==
    ASSUME IInv, Moves, NEW c \in Logins, tab[c].at = "create",
           tokens' = tokens \cup {Made(c)}, got' = got
    PROVE  TokensInv' /\ tokens' \subseteq Token
<1> PICK k : k = Made(c)
  OBVIOUS
<1>1. /\ k \in Token /\ Known(k.to) /\ AsAsked(k.project, k.life, asked[k.to]) /\ ~k.late
  BY MadeGood
<1>2. Known(k.to)' /\ asked'[k.to] = asked[k.to]
  BY <1>1 DEF Moves, Known
<1>3. AsAsked(k.project, k.life, asked[k.to])'
  BY <1>1, <1>2, AsAskedStays DEF Moves
<1>4. tokens' = tokens \cup {k}
  OBVIOUS
<1> QED BY <1>1, <1>2, <1>3, <1>4, GotKept, MadeKept DEF TokensInv, IInv, TypeOK

LEMMA CreateInv ==
    ASSUME IInv, NEW c \in Logins, Create(c)
    PROVE  IInv'
<1> USE DEF IInv
<1> PICK s : s = tab[c]
  OBVIOUS
<1>0. s = tab[c] /\ s \in Tab /\ s.at = "create" /\ AskInv(c)
  BY DEF Create, TypeOK, TabInv
<1>1. UNCHANGED <<jar, session, active, got, asked, disturbed, faults>>
      /\ tokens' = tokens \cup {Made(c)}
  BY DEF Create, browser, history
<1>2. PICK t \in Tab : /\ GoesOn(c, t) /\ t.saved = s.saved /\ t.ask = s.ask
                       /\ Answered(t, "page")
  <2> PICK t : t = [s EXCEPT !.at = "answer", !.answer = "page"]
    OBVIOUS
  <2>1. Become(c, t)
    BY <1>0 DEF Create, Answer
  <2>2. t \in Tab /\ Answered(t, "page") /\ t.saved = s.saved /\ t.ask = s.ask
    BY <1>0 DEF Tab, Answered
  <2>3. GoesOn(c, t)
    BY <1>0, <1>1, <2>1 DEF GoesOn, Tab
  <2> QED BY <2>2, <2>3
<1>3. tab'[c] = t /\ Moves /\ tab' \in [Logins -> Tab]
  BY <1>2, GoingOn
<1>4. AskInv(c)'
  <2>1. /\ Known(s.ask.to) /\ s.ask.project \in Projects
        /\ AsAsked(s.ask.project, s.ask.life, asked[s.ask.to])
        /\ s.member /\ (s.ask.to = c \/ Back(s.ask.to))
    BY <1>0 DEF AskInv, Making, Serving
  <2>2. /\ Known(s.ask.to)' /\ asked'[s.ask.to] = asked[s.ask.to] /\ s.ask.to \in Logins
        /\ s.ask.to = c \/ Back(s.ask.to)'
    BY <1>3, <2>1 DEF Moves, Known
  <2>3. AsAsked(s.ask.project, s.ask.life, asked[s.ask.to])'
    BY <1>1, <2>1, <2>2, AsAskedStays
  <2> QED BY <1>0, <1>2, <1>3, <2>1, <2>2, <2>3
          DEF AskInv, Answered, Making, ToLogin, Serving, Sending, GoesOn
<1>5. EverShown' \subseteq EverShown /\ ShownInv'
  BY <1>2, GoingOnUnseen DEF Answered
<1>6. CookieInv' /\ SavedInv(c)' /\ TokensInv' /\ tokens' \subseteq Token
  BY <1>0, <1>1, <1>2, <1>3, <1>5, CookieKept, SavedKept, TokenAdded
<1>7. CountInv'
  <2>1. CanMake(tab[c]) /\ ~CanMake(t)
    BY <1>0, <1>2 DEF CanMake, Answered
  <2>2. faults' \in Nat /\ faults' >= faults
    BY <1>1 DEF TypeOK
  <2> QED BY <1>1, <1>2, <2>1, <2>2, CountMade DEF GoesOn
<1>8. TypeOK'
  BY <1>1, <1>3, <1>6 DEF TypeOK
<1> QED BY <1>1, <1>2, <1>4, <1>5, <1>6, <1>7, <1>8, GoneOn

LEMMA FailInv ==
    ASSUME IInv, NEW c \in Logins, Fail(c)
    PROVE  IInv'
<1> USE DEF IInv
<1> PICK s : s = tab[c]
  OBVIOUS
<1>0. s = tab[c] /\ s \in Tab /\ s.at \in {"sent", "choose", "create", "answer"}
  BY DEF Fail, TypeOK
<1>1. /\ UNCHANGED <<jar, session, active, got, asked>> /\ disturbed' = Logins
      /\ faults' \in Nat /\ faults' = faults + 1
      /\ tokens' = tokens \/ (s.at = "create" /\ tokens' = tokens \cup {Made(c)})
  BY <1>0 DEF Fail, Fault, browser, TypeOK
<1>2. PICK t \in Tab : /\ GoesOn(c, t) /\ t.saved = s.saved
                       /\ Answered(t, "error") \/ t.at = "failed"
  <2>1. CASE s.at = "answer"
    <3> PICK t : t = [s EXCEPT !.at = "failed"]
      OBVIOUS
    <3>1. Become(c, t)
      BY <1>0, <2>1 DEF Fail, Goto
    <3>2. t \in Tab /\ t.at = "failed" /\ t.saved = s.saved
      BY <1>0 DEF Tab
    <3>3. GoesOn(c, t)
      BY <1>0, <1>1, <3>1 DEF GoesOn, Tab
    <3> QED BY <3>2, <3>3
  <2>2. CASE s.at # "answer"
    <3> PICK t : t = [s EXCEPT !.at = "answer", !.answer = "error"]
      OBVIOUS
    <3>1. Become(c, t)
      BY <1>0, <2>2 DEF Fail, Answer
    <3>2. t \in Tab /\ Answered(t, "error") /\ t.saved = s.saved
      BY <1>0 DEF Tab, Answered
    <3>3. GoesOn(c, t)
      BY <1>0, <1>1, <3>1 DEF GoesOn, Tab
    <3> QED BY <3>2, <3>3
  <2> QED BY <2>1, <2>2
<1>3. tab'[c] = t /\ Moves /\ tab' \in [Logins -> Tab]
  BY <1>2, GoingOn
<1>4. AskInv(c)'
  BY <1>2, <1>3, ErrorAsk
<1>5. EverShown' \subseteq EverShown /\ ShownInv'
  BY <1>2, GoingOnUnseen DEF Answered
<1>6. CookieInv' /\ SavedInv(c)' /\ TokensInv' /\ tokens' \subseteq Token
  BY <1>0, <1>1, <1>2, <1>3, <1>5, CookieKept, SavedKept, TokensKept, TokenAdded DEF TypeOK
<1>7. CountInv'
  <2>1. ~CanMake(t)
    BY <1>2 DEF CanMake, Answered
  <2>2. s.at = "create" => CanMake(tab[c])
    BY <1>0 DEF CanMake
  <2>3. faults \in Nat /\ faults' >= faults
    BY <1>1 DEF TypeOK
  <2>4. CASE tokens' = tokens
    BY <1>1, <1>2, <2>3, <2>4, CountKept DEF GoesOn
  <2>5. CASE s.at = "create" /\ tokens' = tokens \cup {Made(c)}
    BY <1>1, <1>2, <2>1, <2>2, <2>3, <2>5, CountMade DEF GoesOn
  <2> QED BY <1>1, <2>4, <2>5
<1>8. TypeOK'
  BY <1>1, <1>3, <1>6 DEF TypeOK
<1> QED BY <1>1, <1>2, <1>4, <1>5, <1>6, <1>7, <1>8, GoneOn

(***************************************************************************)
(* The answer arrives                                                      *)
(***************************************************************************)
(* A tab with an answer goes on to at.                                     *)
LEMMA ArriveStep ==
    ASSUME IInv, NEW c \in Logins, NEW at, Goto(c, at),
           tab[c].at \in {"answer", "page"}, at \in {"login", "page", "failed", "done", "code"},
           UNCHANGED <<session, active, asked>>
    PROVE  \E t \in Tab : /\ GoesOn(c, t) /\ t.at = at
                          /\ t.saved = tab[c].saved /\ t.ask = tab[c].ask
<1> PICK s : s = tab[c]
  OBVIOUS
<1>0. s = tab[c] /\ s \in Tab
  BY DEF IInv, TypeOK
<1> PICK t : t = [s EXCEPT !.at = at]
  OBVIOUS
<1>1. Become(c, t)
  BY <1>0 DEF Goto
<1>2. t \in Tab /\ t.at = at /\ t.saved = s.saved /\ t.ask = s.ask
  BY <1>0 DEF Tab
<1>3. GoesOn(c, t)
  BY <1>0, <1>1 DEF GoesOn, Tab
<1> QED BY <1>0, <1>2, <1>3

LEMMA ArriveLoginInv ==
    ASSUME IInv, NEW c \in Logins, ArriveLogin(c)
    PROVE  IInv'
<1> USE DEF IInv
<1> PICK s : s = tab[c]
  OBVIOUS
<1>0. /\ s = tab[c] /\ s \in Tab /\ s.at = "answer" /\ Answered(s, "login") /\ AskInv(c)
      /\ jar' = s.ask /\ Goto(c, "login")
  BY DEF ArriveLogin, TypeOK, TabInv, Answered
<1>1. UNCHANGED <<session, active, tokens, got, asked, disturbed, faults>>
  BY DEF ArriveLogin, history
<1>2. PICK t \in Tab : /\ GoesOn(c, t) /\ t.at = "login"
                       /\ t.saved = s.saved /\ t.ask = s.ask
  BY <1>0, <1>1, ArriveStep
<1>3. tab'[c] = t /\ Moves /\ tab' \in [Logins -> Tab]
  BY <1>2, GoingOn
<1>4. s.ask = asked'[c] /\ asked'[c].to = c /\ ~s.member
  BY <1>0, <1>1 DEF AskInv, ToLogin
<1>5. AskInv(c)'
  BY <1>2, <1>3, <1>4 DEF AskInv, Answered, Making, ToLogin, Serving, Sending
<1>6. EverShown' \subseteq EverShown /\ ShownInv'
  BY <1>2, GoingOnUnseen
<1>7. c \notin EverShown
  BY <1>0, <1>4 DEF ShownInv
<1>8. CookieInv'
  <2>1. Known(c)' /\ Back(c)'
    BY <1>2, <1>3 DEF Known, Back
  <2> QED BY <1>0, <1>4, <1>6, <1>7, <2>1 DEF CookieInv, Genuine
<1>9. SavedInv(c)' /\ TokensInv'
  BY <1>0, <1>1, <1>2, <1>3, SavedKept, TokensKept
<1>10. CountInv'
  <2>1. CanMake(tab[c])
    BY <1>0 DEF CanMake
  <2> QED BY <1>1, <1>2, <2>1, CountKept DEF GoesOn, TypeOK
<1>11. TypeOK'
  BY <1>0, <1>1, <1>3, TabFields DEF TypeOK
<1> QED BY <1>1, <1>2, <1>5, <1>6, <1>8, <1>9, <1>10, <1>11, GoneOn

(* The page that comes up is the only one that shows a login's token first; *)
(* the tab it shows it for is this one, or one that went to the login.     *)
LEMMA ArrivePageInv ==
    ASSUME IInv, NEW c \in Logins, ArrivePage(c)
    PROVE  IInv'
<1> USE DEF IInv
<1> PICK s : s = tab[c]
  OBVIOUS
<1>0. /\ s = tab[c] /\ s \in Tab /\ s.at = "answer" /\ Answered(s, "page") /\ AskInv(c)
      /\ jar' = None /\ Goto(c, "page")
  BY DEF ArrivePage, TypeOK, TabInv, Answered
<1>1. UNCHANGED <<session, active, tokens, got, asked, disturbed, faults>>
  BY DEF ArrivePage, history
<1>2. PICK t \in Tab : /\ GoesOn(c, t) /\ t.at = "page"
                       /\ t.saved = s.saved /\ t.ask = s.ask
  BY <1>0, <1>1, ArriveStep
<1>3. /\ tab'[c] = t /\ Moves /\ tab' \in [Logins -> Tab] /\ UrlInv(c)'
      /\ \A d \in Logins : d # c => UrlInv(d)' /\ tab'[d] = tab[d]
  BY <1>2, GoingOn, Becoming DEF TabInv, GoesOn
<1>4. /\ Known(s.ask.to) /\ s.ask.project \in Projects
      /\ AsAsked(s.ask.project, s.ask.life, asked[s.ask.to])
      /\ s.member /\ s.ask.to \in Logins /\ (s.ask.to = c \/ Back(s.ask.to))
  BY <1>0 DEF AskInv, Making, Serving
<1>5. /\ Known(s.ask.to)' /\ asked'[s.ask.to] = asked[s.ask.to]
      /\ s.ask.to = c \/ Back(s.ask.to)'
  BY <1>3, <1>4 DEF Moves, Known
<1>6. AskInv(c)'
  <2>1. AsAsked(s.ask.project, s.ask.life, asked[s.ask.to])'
    BY <1>1, <1>4, <1>5, AsAskedStays
  <2> QED BY <1>0, <1>2, <1>3, <1>4, <1>5, <2>1
          DEF AskInv, Answered, Making, ToLogin, Serving, Sending, GoesOn
<1>7. EverShown' \subseteq EverShown \cup {s.ask.to}
  <2>1. t.shown \subseteq EverShown \cup {s.ask.to}
    BY <1>2 DEF EverShown, GoesOn
  <2> QED BY <1>2, <2>1, ShownGrows DEF GoesOn
<1>8. ShownInv'
  <2>1. ASSUME NEW x \in EverShown
        PROVE  x \in Logins /\ (tab'[x].at = "login" \/ tab'[x].member)
    <3>1. x \in Logins /\ (tab[x].at = "login" \/ tab[x].member)
      BY DEF ShownInv
    <3> QED BY <1>0, <1>2, <1>3, <3>1 DEF GoesOn
  <2>2. tab'[s.ask.to].at = "login" \/ tab'[s.ask.to].member
    BY <1>0, <1>2, <1>3, <1>4, <1>5 DEF Back, UrlInv, GoesOn
  <2> QED BY <1>4, <1>7, <2>1, <2>2 DEF ShownInv
<1>9. CookieInv' /\ SavedInv(c)' /\ TokensInv'
  BY <1>0, <1>1, <1>2, <1>3, SavedKept, TokensKept DEF CookieInv
<1>10. CountInv'
  <2>1. ~CanMake(t)
    BY <1>2 DEF CanMake, Answered
  <2> QED BY <1>1, <1>2, <2>1, CountKept DEF GoesOn, TypeOK
<1>11. TypeOK'
  BY <1>0, <1>1, <1>3 DEF TypeOK
<1> QED BY <1>1, <1>2, <1>6, <1>8, <1>9, <1>10, <1>11, GoneOn

LEMMA ArriveErrorInv ==
    ASSUME IInv, NEW c \in Logins, ArriveError(c)
    PROVE  IInv'
<1> USE DEF IInv
<1> PICK s : s = tab[c]
  OBVIOUS
<1>0. /\ s = tab[c] /\ s.at = "answer" /\ Goto(c, "failed")
  BY DEF ArriveError
<1>1. UNCHANGED <<jar, session, active, tokens, got, asked, disturbed, faults>>
  BY DEF ArriveError, browser, history
<1>2. PICK t \in Tab : GoesOn(c, t) /\ t.at = "failed" /\ t.saved = s.saved
  BY <1>0, <1>1, ArriveStep
<1>3. tab'[c] = t /\ Moves /\ tab' \in [Logins -> Tab]
  BY <1>2, GoingOn
<1>4. AskInv(c)'
  BY <1>2, <1>3, ErrorAsk
<1>5. EverShown' \subseteq EverShown /\ ShownInv'
  BY <1>2, GoingOnUnseen
<1>6. CookieInv' /\ SavedInv(c)' /\ TokensInv'
  BY <1>0, <1>1, <1>2, <1>3, <1>5, CookieKept, SavedKept, TokensKept
<1>7. CountInv'
  <2>1. ~CanMake(t)
    BY <1>2 DEF CanMake, Answered
  <2> QED BY <1>1, <1>2, <2>1, CountKept DEF GoesOn, TypeOK
<1>8. TypeOK'
  BY <1>1, <1>3 DEF TypeOK
<1> QED BY <1>1, <1>2, <1>4, <1>5, <1>6, <1>7, <1>8, GoneOn

LEMMA DeliverInv ==
    ASSUME IInv, NEW c \in Logins, Deliver(c)
    PROVE  IInv'
<1> USE DEF IInv
<1> PICK s : s = tab[c]
  OBVIOUS
<1>0. s = tab[c] /\ s \in Tab /\ s.at = "page" /\ AskInv(c)
  BY DEF Deliver, TypeOK, TabInv
<1>1. UNCHANGED <<jar, session, active, tokens, asked, disturbed, faults>>
  BY DEF Deliver, browser, history
<1>2. PICK t \in Tab : /\ GoesOn(c, t) /\ t.at \in {"done", "code"}
                       /\ t.saved = s.saved /\ t.ask = s.ask
  <2>1. Goto(c, "done") \/ Goto(c, "code")
    BY DEF Deliver
  <2> QED BY <1>0, <1>1, <2>1, ArriveStep
<1>3. tab'[c] = t /\ Moves /\ tab' \in [Logins -> Tab]
  BY <1>2, GoingOn
<1>4. /\ Known(s.ask.to) /\ s.ask.project \in Projects
      /\ AsAsked(s.ask.project, s.ask.life, asked[s.ask.to])
      /\ s.member /\ s.ask.to \in Logins /\ (s.ask.to = c \/ Back(s.ask.to))
  BY <1>0 DEF AskInv, Making, Serving
<1>5. AskInv(c)'
  <2>1. s.ask.to = c \/ Back(s.ask.to)'
    BY <1>3, <1>4 DEF Moves
  <2> QED BY <1>0, <1>2, <1>3, <1>4, <2>1
          DEF AskInv, Answered, Making, ToLogin, Serving, Sending, GoesOn
<1>6. EverShown' \subseteq EverShown /\ ShownInv'
  BY <1>0, <1>2, GoingOnUnseen
<1>7. CookieInv' /\ SavedInv(c)'
  BY <1>0, <1>1, <1>2, <1>3, <1>6, CookieKept, SavedKept
<1> PICK g : g = [project |-> s.ask.project, life |-> s.ask.life]
  OBVIOUS
<1>8. got' = got \/ got' = [got EXCEPT ![s.ask.to] = @ \cup {g}]
  BY <1>0 DEF Deliver
<1>9. /\ g.project = s.ask.project /\ g.life = s.ask.life
      /\ g \in [project : Projects, life : Lifetimes \cup {DefaultLife}]
  BY <1>0, <1>4, TabFields, ParamsFields
<1>10. TokensInv'
  <2>1. ASSUME NEW d \in Logins, NEW h \in got'[d]
        PROVE  Known(d)' /\ AsAsked(h.project, h.life, asked[d])'
    <3>1. Known(d) /\ AsAsked(h.project, h.life, asked[d])
      <4>1. CASE h \in got[d]
        BY <4>1 DEF TokensInv
      <4>2. CASE h \notin got[d]
        <5>1. d = s.ask.to /\ h = g
          BY <1>8, <4>2, <2>1 DEF TypeOK
        <5> QED BY <1>4, <1>9, <5>1
      <4> QED BY <4>1, <4>2
    <3>2. Known(d)' /\ asked'[d] = asked[d]
      BY <1>3, <3>1 DEF Moves
    <3> QED BY <1>1, <3>1, <3>2, AsAskedStays
  <2> QED BY <1>1, <1>3, <2>1, MadeKept DEF TokensInv
<1>11. CountInv'
  <2>1. ~CanMake(t)
    BY <1>2 DEF CanMake, Answered
  <2> QED BY <1>1, <1>2, <2>1, CountKept DEF GoesOn, TypeOK
<1>12. TypeOK'
  <2>1. got' \in [Logins -> SUBSET [project : Projects, life : Lifetimes \cup {DefaultLife}]]
    BY <1>4, <1>8, <1>9 DEF TypeOK
  <2> QED BY <1>1, <1>3, <2>1 DEF TypeOK
<1> QED BY <1>1, <1>2, <1>5, <1>6, <1>7, <1>10, <1>11, <1>12, GoneOn

(***************************************************************************)
(* A request is sent                                                       *)
(***************************************************************************)
(* The browser sends a request for url, with the cookie it has.            *)
LEMMA Sent ==
    ASSUME IInv, NEW c \in Logins, NEW t \in Tab, Become(c, t),
           t.at = "sent", t.saved = jar, t.shown = tab[c].shown \cup Shown,
           UNCHANGED <<jar, active, tokens, got>>,
           session => session', t.member => session',
           \A x \in Logins : Known(x) => asked'[x] = asked[x],
           Back(c) => t.url = Bare,
           t.url = Bare \/ (t.url = asked'[c] /\ asked'[c].to = c),
           t.url = Bare => t.member,
           c \in EverShown => t.member
    PROVE  /\ CookieInv' /\ ShownInv' /\ TokensInv'
           /\ \A d \in Logins : TabInv(d)'
           /\ tab' \in [Logins -> Tab]
<1> USE DEF IInv
<1>1. /\ tab' \in [Logins -> Tab] /\ tab'[c] = t
      /\ \A d \in Logins : d # c => tab'[d] = tab[d]
  BY Becoming
<1>2. Moves
  BY MovesIf
<1>3. EverShown' \subseteq EverShown
  <2>1. t.shown \subseteq EverShown \cup {}
    BY DEF EverShown
  <2>2. EverShown' \subseteq EverShown \cup {}
    BY <2>1, ShownGrows
  <2> QED BY <2>2
<1>4. CookieInv' /\ ShownInv' /\ TokensInv'
  BY <1>2, <1>3, CookieKept, ShownKept, TokensKept
<1>5. UrlInv(c)'
  BY <1>1 DEF UrlInv
<1>6. SavedInv(c)'
  <2>1. jar # None => Genuine(jar)' /\ Back(jar.to)' /\ jar.to \notin t.shown
    <3>1. t.shown \subseteq EverShown
      BY DEF EverShown
    <3> QED BY <1>2, <3>1, GenuineStays DEF CookieInv
  <2>2. t.saved # None =>
           Genuine(t.saved)' /\ Back(t.saved.to)' /\ (t.url = Bare => t.saved.to \notin t.shown)
    BY <2>1
  <2> QED BY <1>1, <2>2 DEF SavedInv
<1>7. AskInv(c)'
  BY <1>1 DEF AskInv, Answered, Making, ToLogin, Serving, Sending
<1>8. \A d \in Logins : TabInv(d)'
  BY <1>1, <1>2, <1>5, <1>6, <1>7, TabStays DEF TabInv
<1> QED BY <1>1, <1>4, <1>8

(* The tab that the browser makes of a request.                            *)
LEMMA SendTab ==
    ASSUME IInv, NEW c \in Logins, NEW url \in Params, Send(c, url)
    PROVE  \E t \in Tab : /\ Become(c, t) /\ t.at = "sent" /\ t.url = url /\ t.saved = jar
                          /\ t.member = session /\ t.shown = tab[c].shown \cup Shown
<1> PICK shown : shown = tab[c].shown \cup Shown
  OBVIOUS
<1> PICK t : t = [Closed EXCEPT !.at = "sent", !.url = url, !.saved = jar,
                                !.member = session, !.shown = shown]
  OBVIOUS
<1>1. shown \in SUBSET Logins
  <2>1. tab[c].shown \cup Shown \subseteq EverShown
    BY DEF EverShown
  <2> QED BY <2>1 DEF IInv, ShownInv
<1>2. Become(c, t)
  BY DEF Send
<1>3. t \in Tab /\ t.at = "sent" /\ t.url = url /\ t.saved = jar
      /\ t.member = session /\ t.shown = shown
  BY <1>1, BareTyped DEF IInv, TypeOK, Tab, Closed
<1> QED BY <1>2, <1>3

LEMMA ReloadInv ==
    ASSUME IInv, NEW c \in Logins, Reload(c)
    PROVE  IInv'
<1> USE DEF IInv
<1>0. /\ tab[c] \in Tab /\ tab[c].at \in {"code", "done", "failed"} /\ UrlInv(c)
      /\ tab[c].url \in Params
  BY TabFields DEF Reload, TypeOK, TabInv
<1>1. /\ UNCHANGED <<jar, session, active, tokens, got, asked>> /\ disturbed' = Logins
      /\ faults' \in Nat /\ faults' = faults + 1 /\ Send(c, tab[c].url)
  BY DEF Reload, browser, Fault, TypeOK
<1>2. PICK t \in Tab : /\ Become(c, t) /\ t.at = "sent" /\ t.url = tab[c].url /\ t.saved = jar
                       /\ t.member = session /\ t.shown = tab[c].shown \cup Shown
  BY <1>0, <1>1, SendTab
<1>3. /\ Back(c) => t.url = Bare
      /\ t.url = Bare \/ (t.url = asked'[c] /\ asked'[c].to = c)
      /\ t.url = Bare => session
      /\ c \in EverShown => session
  BY <1>0, <1>1, <1>2 DEF Back, UrlInv, ShownInv
<1>4. /\ CookieInv' /\ ShownInv' /\ TokensInv'
      /\ \A d \in Logins : TabInv(d)'
      /\ tab' \in [Logins -> Tab]
  BY <1>1, <1>2, <1>3, Sent
<1>5. CountInv'
  BY <1>1, <1>2, CountKept DEF TypeOK
<1>6. AloneInv'
  BY <1>0, <1>1, <1>2, AloneKept
<1>7. TypeOK'
  BY <1>1, <1>4 DEF TypeOK
<1> QED BY <1>4, <1>5, <1>6, <1>7

LEMMA LogInInv ==
    ASSUME IInv, NEW c \in Logins, LogIn(c)
    PROVE  IInv'
<1> USE DEF IInv
<1>0. tab[c].at = "login"
  BY DEF LogIn
<1>1. /\ UNCHANGED <<jar, active, tokens, got, asked, disturbed, faults>>
      /\ session' = TRUE
  BY DEF LogIn, history
<1>2. PICK t \in Tab : /\ Become(c, t) /\ t.at = "sent" /\ t.url = Bare /\ t.saved = jar
                       /\ t.member = TRUE /\ t.shown = tab[c].shown \cup Shown
  <2> PICK shown : shown = tab[c].shown \cup Shown
    OBVIOUS
  <2> PICK t : t = [Closed EXCEPT !.at = "sent", !.saved = jar, !.member = TRUE, !.shown = shown]
    OBVIOUS
  <2>1. shown \in SUBSET Logins
    <3>1. tab[c].shown \cup Shown \subseteq EverShown
      BY DEF EverShown
    <3> QED BY <3>1 DEF ShownInv
  <2>2. Become(c, t)
    BY DEF LogIn
  <2>3. t \in Tab /\ t.at = "sent" /\ t.url = Bare /\ t.saved = jar
        /\ t.member = TRUE /\ t.shown = shown
    BY <2>1, BareTyped DEF TypeOK, Tab, Closed
  <2> QED BY <2>2, <2>3
<1>3. /\ CookieInv' /\ ShownInv' /\ TokensInv'
      /\ \A d \in Logins : TabInv(d)'
      /\ tab' \in [Logins -> Tab]
  BY <1>1, <1>2, Sent
<1>4. CountInv'
  <2>1. CanMake(tab[c])
    BY <1>0 DEF CanMake
  <2> QED BY <1>1, <1>2, <2>1, CountKept DEF TypeOK
<1>5. AloneInv'
  BY <1>0, <1>1, <1>2, AloneKept
<1>6. TypeOK'
  BY <1>1, <1>3 DEF TypeOK
<1> QED BY <1>3, <1>4, <1>5, <1>6

LEMMA OpenInv ==
    ASSUME IInv, NEW c \in Logins, NEW q \in Params, q.to = c, Open(c, q)
    PROVE  IInv'
<1> USE DEF IInv
<1>0. tab[c].at = "closed" /\ UrlInv(c) /\ Send(c, q)
  BY DEF Open, TabInv
<1>1. /\ UNCHANGED <<jar, session, active, tokens, got, faults>>
      /\ asked' = [asked EXCEPT ![c] = q]
      /\ disturbed \subseteq disturbed' /\ disturbed' \subseteq disturbed \cup {c} \cup Others(c)
      /\ Others(c) # {} => Others(c) \cup {c} \subseteq disturbed'
  BY DEF Open, browser
<1>2. PICK t \in Tab : /\ Become(c, t) /\ t.at = "sent" /\ t.url = q /\ t.saved = jar
                       /\ t.member = session /\ t.shown = tab[c].shown \cup Shown
  BY <1>0, SendTab
<1>3. /\ asked'[c] = q /\ asked' \in [Logins -> Params] /\ q # Bare
      /\ \A x \in Logins : Known(x) => asked'[x] = asked[x]
  BY <1>0, <1>1, CliAssumption DEF TypeOK, Known, Bare
<1>4. ~Back(c) /\ (c \in EverShown => session)
  BY <1>0 DEF Back, UrlInv, ShownInv
<1>5. /\ CookieInv' /\ ShownInv' /\ TokensInv'
      /\ \A d \in Logins : TabInv(d)'
      /\ tab' \in [Logins -> Tab]
  BY <1>1, <1>2, <1>3, <1>4, Sent
<1>6. CountInv'
  <2>1. CanMake(tab[c])
    BY <1>0 DEF CanMake
  <2> QED BY <1>1, <1>2, <2>1, CountKept DEF TypeOK
<1>7. AloneInv'
  <2> SUFFICES ASSUME NEW d \in Logins, d \notin disturbed'
               PROVE  faults' = 0 /\ (tab'[d].at # "closed" => Others(d)' = {})
    BY DEF AloneInv
  <2>1. d \notin disturbed /\ faults = 0 /\ (tab[d].at # "closed" => Others(d) = {})
    BY <1>1 DEF AloneInv
  <2>2. CASE d = c
    <3>1. Others(c) = {}
      BY <1>1, <2>2
    <3>2. Others(c)' = Others(c)
      BY <1>2, Becoming DEF Others
    <3> QED BY <1>1, <2>1, <2>2, <3>1, <3>2
  <2>3. CASE d # c
    <3>1. tab'[d] = tab[d]
      BY <1>2, <2>3, Becoming
    <3>2. tab[d].at # "closed" => d \in Others(c)
      BY <2>3 DEF Others
    <3>3. tab[d].at = "closed"
      BY <1>1, <3>2
    <3> QED BY <1>1, <2>1, <3>1, <3>3
  <2> QED BY <2>2, <2>3
<1>8. TypeOK'
  <2>1. disturbed' \subseteq Logins
    BY <1>1 DEF TypeOK, Others
  <2> QED BY <1>1, <1>3, <1>5, <2>1 DEF TypeOK
<1> QED BY <1>5, <1>6, <1>7, <1>8

LEMMA CookieExpiresInv ==
    ASSUME IInv, CookieExpires
    PROVE  IInv'
<1> USE DEF IInv
<1>1. /\ UNCHANGED <<session, tab, active, tokens, got, asked>> /\ disturbed' = Logins
      /\ jar' = None /\ faults' \in Nat /\ faults' = faults + 1
  BY DEF CookieExpires, Fault, TypeOK
<1>2. Moves
  BY <1>1 DEF Moves, Known, Back
<1>3. \A c \in Logins : TabInv(c)'
  BY <1>1, <1>2, TabStays
<1>4. TokensInv'
  BY <1>1, <1>2, TokensKept
<1>5. CookieInv' /\ ShownInv' /\ AloneInv'
  BY <1>1 DEF CookieInv, ShownInv, EverShown, Shown, AloneInv
<1>6. CountInv'
  <2>1. Able' = Able
    BY <1>1 DEF Able
  <2>2. Cardinality(tokens) \in Nat /\ faults \in Nat
    BY FS_CardinalityType DEF CountInv, TypeOK
  <2> QED BY <1>1, <2>1, <2>2, AbleFinite DEF CountInv
<1>7. TypeOK'
  BY <1>1 DEF TypeOK
<1> QED BY <1>3, <1>4, <1>5, <1>6, <1>7

(***************************************************************************)
(* The theorems                                                            *)
(***************************************************************************)
LEMMA InitInv ==
    ASSUME Init
    PROVE  IInv
<1> USE DEF Init
<1>1. \A c \in Logins : tab[c] = Closed
  OBVIOUS
<1>2. TypeOK
  BY BareTyped, ClosedTyped DEF TypeOK
<1>3. Shown = {} /\ EverShown = {}
  BY <1>1 DEF Shown, EverShown, Closed
<1>4. CookieInv /\ ShownInv /\ TokensInv
  BY <1>3 DEF CookieInv, ShownInv, TokensInv
<1>5. ASSUME NEW c \in Logins PROVE TabInv(c)
  <2>1. UrlInv(c)
    BY <1>1 DEF UrlInv, Closed
  <2>2. SavedInv(c)
    BY <1>1 DEF SavedInv, Closed
  <2>3. AskInv(c)
    BY <1>1 DEF AskInv, Closed, Answered, Making, ToLogin, Serving, Sending
  <2> QED BY <2>1, <2>2, <2>3 DEF TabInv
<1>6. CountInv
  <2>1. IsFiniteSet(tokens) /\ Cardinality(tokens) = 0
    BY FS_EmptySet
  <2> QED BY <2>1, AbleFinite DEF CountInv
<1>7. AloneInv
  BY <1>1 DEF AloneInv, Closed
<1> QED BY <1>2, <1>4, <1>5, <1>6, <1>7 DEF IInv

LEMMA NextInv ==
    ASSUME IInv, [Next]_vars
    PROVE  IInv'
<1>1. CASE CookieExpires
  BY <1>1, CookieExpiresInv
<1>2. ASSUME NEW c \in Logins, Start(c) PROVE IInv'
  <2>1. PICK p \in Projects \cup {None}, l \in Lifetimes :
           Open(c, [to |-> c, project |-> p, life |-> l])
    BY <1>2 DEF Start
  <2> PICK q : q = [to |-> c, project |-> p, life |-> l]
    OBVIOUS
  <2>2. q \in Params /\ q.to = c /\ Open(c, q)
    BY <2>1 DEF Params
  <2> QED BY <2>2, OpenInv
<1>3. ASSUME NEW c \in Logins, LogIn(c) \/ Reload(c) \/ Fail(c) PROVE IInv'
  BY <1>3, LogInInv, ReloadInv, FailInv
<1>4. ASSUME NEW c \in Logins, Server(c) PROVE IInv'
  BY <1>4, HandleInv, ChooseProjectInv, CreateInv DEF Server
<1>5. ASSUME NEW c \in Logins, Arrive(c) \/ Deliver(c) PROVE IInv'
  BY <1>5, ArriveLoginInv, ArrivePageInv, ArriveErrorInv, DeliverInv DEF Arrive
<1>6. CASE UNCHANGED vars
  <2> USE <1>6 DEF vars, IInv
  <2>1. Moves
    BY DEF Moves, Known, Back
  <2>2. \A c \in Logins : TabInv(c)'
    BY <2>1, TabStays
  <2>3. Able' = Able /\ EverShown' = EverShown
    BY DEF Able, EverShown, Shown
  <2>4. TokensInv' /\ CookieInv' /\ ShownInv'
    BY <2>1, <2>3, TokensKept, CookieKept DEF ShownInv
  <2>5. CountInv' /\ AloneInv'
    BY <2>3 DEF CountInv, AloneInv, Others
  <2>6. TypeOK'
    BY DEF TypeOK
  <2> QED BY <2>2, <2>4, <2>5, <2>6
<1> QED BY <1>1, <1>2, <1>3, <1>4, <1>5, <1>6 DEF Next

THEOREM Invariance == Spec => []IInv
BY InitInv, NextInv, PTL DEF Spec

(* Requests, tabs and tokens have their types in every reachable state; a  *)
(* token is made only for an existing project and for a known program.     *)
THEOREM TypeCorrect == Spec => []TypeOK
<1>1. IInv => TypeOK
  BY DEF IInv
<1> QED BY <1>1, Invariance, PTL

(* However many programs share the one cookie, each gets tokens with the   *)
(* project and lifetime it asked for: what comes back from the cookie is   *)
(* always the whole of some program's parameters.                          *)
THEOREM AsAskedFor == Spec => []TokenAsAsked
<1>1. IInv => TokenAsAsked
  BY DEF IInv, TokensInv, TokenAsAsked
<1> QED BY <1>1, Invariance, PTL

(* Once a page with a login's token was shown, the cookie never brings the *)
(* login's parameters back to make another token.                          *)
THEOREM NotMadeAgain == Spec => []NotAgainAfterPage
<1>1. IInv => NotAgainAfterPage
  BY DEF IInv, TokensInv, NotAgainAfterPage
<1> QED BY <1>1, Invariance, PTL

(* A login alone and undisturbed makes one token at most; and all of them  *)
(* together no more than there are tabs and faults.                        *)
THEOREM OneEach == Spec => []OneTokenPerTab
<1>1. ASSUME IInv PROVE OneTokenPerTab
  <2> SUFFICES ASSUME NEW c \in Logins
               PROVE  Cardinality({k \in tokens : k.to = c}) <=
                        IF c \in disturbed THEN Cardinality(Logins) + faults ELSE 1
    BY DEF OneTokenPerTab
  <2> DEFINE mine == {k \in tokens : k.to = c}
  <2>0. IInv
    BY <1>1
  <2>1. /\ Cardinality(tokens) \in Nat /\ faults \in Nat
        /\ Cardinality(tokens) + Cardinality(Able) <= Cardinality(Logins) + faults
    BY <2>0, FS_CardinalityType DEF IInv, CountInv, TypeOK
  <2>2. IsFiniteSet(mine) /\ Cardinality(mine) \in Nat /\ Cardinality(mine) <= Cardinality(tokens)
    <3>1. mine \in SUBSET tokens
      OBVIOUS
    <3>2. IsFiniteSet(mine) /\ Cardinality(mine) <= Cardinality(tokens)
      BY <2>0, <3>1, FS_Subset DEF IInv, CountInv
    <3> QED BY <3>2, FS_CardinalityType
  <2>3. CASE c \in disturbed
    BY <2>1, <2>2, <2>3, AbleFinite
  <2>4. CASE c \notin disturbed /\ tab[c].at = "closed"
    <3>1. mine = {}
      BY <2>0, <2>4 DEF IInv, TokensInv, Known
    <3>2. Cardinality(mine) = 0
      BY <3>1, FS_EmptySet
    <3> QED BY <2>4, <3>2
  <2>5. CASE c \notin disturbed /\ tab[c].at # "closed"
    <3>1. faults = 0 /\ Others(c) = {}
      BY <2>0, <2>5 DEF IInv, AloneInv
    <3>2. Logins \ {c} \subseteq Able
      BY <3>1 DEF Others, Able, CanMake
    <3>3. /\ IsFiniteSet(Logins \ {c})
          /\ Cardinality(Logins \ {c}) = Cardinality(Logins) - 1
      BY FS_RemoveElement, CliAssumption
    <3>4. Cardinality(Logins) - 1 <= Cardinality(Able)
      BY <3>2, <3>3, AbleFinite, FS_Subset
    <3> QED BY <2>1, <2>2, <2>5, <3>1, <3>4, AbleFinite
  <2> QED BY <2>3, <2>4, <2>5
<1> QED BY <1>1, Invariance, PTL
=============================================================================
