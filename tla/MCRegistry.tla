----------------------------- MODULE MCRegistry -----------------------------
(***************************************************************************)
(* What is read from the registry, for TLC: a behaviour is one request of  *)
(* TokenClaims or one loop of Paging; the other has come to its end before *)
(* the behaviour begins, so that neither multiplies the other's states.    *)
(***************************************************************************)
EXTENDS TokenClaims, Paging

CONSTANTS p1, p2, net, leads

(* The user is in one of the active projects or in both and token holder   *)
(* in the first, which alone is found by its name.  Two changes then give  *)
(* any other state that the calls tell apart.                              *)
MCAtFirst ==
    {g \in Registry : /\ g.open = {p1, p2} /\ p1 \in g.member /\ g.holder = {p1}
                      /\ g.hits = [n \in {net} |-> {p1}]
                      /\ g.roles \in {{}, {leads, p1}}}

ClaimsOver ==
    /\ registry = CHOOSE g \in AtFirst : TRUE
    /\ past = {registry} /\ edits = 0
    /\ ask = CHOOSE a \in Asked : TRUE
    /\ core = TRUE /\ step = "failed" /\ id = Absent /\ said = Nothing /\ token = Absent

ReadOver ==
    /\ list = {} /\ before = {} /\ loop = "web" /\ live = {}
    /\ offset = 0 /\ total = 0 /\ fetched = 0 /\ got = [i \in Items |-> 0]
    /\ phase = "done" /\ added = {} /\ removed = {}

RegistryInit == (ClaimsInit /\ ReadOver) \/ (ReadInit /\ ClaimsOver)

RegistryNext ==
    \/ ClaimsNext /\ UNCHANGED readVars
    \/ ReadNext /\ UNCHANGED claimVars

(* Only the loops have to end; nothing is assumed of the request.          *)
RegistrySpec ==
    RegistryInit /\ [][RegistryNext]_<<claimVars, readVars>> /\ WF_readVars(Fetch)
=============================================================================
