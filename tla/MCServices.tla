----------------------------- MODULE MCServices -----------------------------
(* Symmetry for Services: which goroutine, message or request is used makes   *)
(* no difference.                                                             *)
EXTENDS Services

Symmetry == Permutations(Goroutines) \cup Permutations(Messages) \cup Permutations(Requests)
=============================================================================
