-------------------------- MODULE MCAuthorization ---------------------------
(* Authorization on small instances; requests are interchangeable.           *)
EXTENDS Authorization, TLC

Symmetry == Permutations(Requests)
=============================================================================
