----------------------------- MODULE MCCredMgr ------------------------------
(* CredMgr on small instances.  Users and worker threads are interchangeable *)
(* model values; each cfg chooses the endpoints the workload calls.          *)
EXTENDS CredMgr, TLC

Symmetry == Permutations(Users) \cup Permutations(Requests)
=============================================================================
