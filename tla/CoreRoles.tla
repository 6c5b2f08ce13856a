----------------------------- MODULE CoreRoles ------------------------------
(***************************************************************************)
(* What the Core API says of a user's roles, and how utils.py reads it.    *)
(***************************************************************************)

CONSTANTS
    Operators,      \* users whose roles hold the facility operator role
    OperatorRole    \* facility-operators-role of the configuration

(* A role is a record with a name; the test asks whether the configured    *)
(* name is one of the records.                                             *)
Roles(u) == IF u \in Operators THEN {[name |-> OperatorRole]} ELSE {}
IsFacilityOperator(u) == OperatorRole \in Roles(u)
=============================================================================
