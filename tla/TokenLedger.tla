---------------------------- MODULE TokenLedger -----------------------------
(***************************************************************************)
(* What the token endpoints promise, with no table, page, request or       *)
(* worker thread: each token issued once is active, then revoked at most   *)
(* once, then gone, and never comes back.  It leaves the ledger only after *)
(* the expiry it was entered with or while its owner asks for a deletion,  *)
(* and it is revoked only while its owner (or an operator) asks for that.  *)
(* Of a token that was issued twice nothing is promised.                   *)
(***************************************************************************)
EXTENDS Integers

CONSTANT Operators          \* users who may revoke the tokens of others

VARIABLES
    clock,
    active, revoked,        \* entries [jwt, expires]
    gone, doubled,          \* tokens
    asking                  \* requests being served, as [what, user]

vars == <<clock, active, revoked, gone, doubled, asking>>

Entered == {e.jwt : e \in active \cup revoked}

Init ==
    /\ clock = 0
    /\ active = {} /\ revoked = {} /\ gone = {} /\ doubled = {}
    /\ asking = {}

Asked(what, users) == \E a \in asking : a.what = what /\ a.user \in users

(* A token never seen before is entered.                                   *)
Issue ==
    /\ \E e \in active' \ active :
          /\ e.jwt \notin Entered \cup gone \cup doubled
          /\ active' = active \cup {e}
    /\ UNCHANGED <<clock, revoked, gone, doubled>>

(* The very same token is entered again.                                   *)
Double ==
    /\ \E j \in (Entered \cup gone) \ doubled :
          /\ doubled' = doubled \cup {j}
          /\ active' = {e \in active : e.jwt # j}
          /\ revoked' = {e \in revoked : e.jwt # j}
          /\ gone' = gone \ {j}
    /\ UNCHANGED clock

Revoke ==
    /\ \E e \in active :
          /\ Asked("revoke", {e.jwt.user} \cup Operators)
          /\ active' = active \ {e}
          /\ revoked' = revoked \cup {e}
    /\ UNCHANGED <<clock, gone, doubled>>

Retire ==
    /\ \E e \in active \cup revoked :
          /\ e.expires < clock \/ Asked("delete", {e.jwt.user})
          /\ active' = active \ {e}
          /\ revoked' = revoked \ {e}
          /\ gone' = gone \cup {e.jwt}
    /\ UNCHANGED <<clock, doubled>>

(* Requests come and go, alone or with one of the steps above.             *)
Ask == UNCHANGED <<clock, active, revoked, gone, doubled>>

Pass ==
    /\ clock' > clock
    /\ UNCHANGED <<active, revoked, gone, doubled, asking>>

Next == Ask \/ Pass \/ Issue \/ Double \/ Revoke \/ Retire

Spec == Init /\ [][Next]_vars
=============================================================================
