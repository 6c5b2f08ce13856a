----------------------------- MODULE MCLlmKeys ------------------------------
(* LlmKeys on small instances; worker threads are interchangeable.           *)
EXTENDS LlmKeys, TLC

Symmetry == Permutations(Requests)
=============================================================================
