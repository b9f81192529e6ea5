---------------------------- MODULE MCThreadPool ----------------------------
(* ThreadPool with the symmetry of its clients and items. *)
EXTENDS ThreadPool, TLC

Symmetry == Permutations(Clients) \cup Permutations(Work)
=============================================================================
