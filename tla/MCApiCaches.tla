----------------------------- MODULE MCApiCaches -----------------------------
(* Small instances of ApiCaches for TLC. *)
EXTENDS ApiCaches, TLC

Symmetry == Permutations(Threads) \cup Permutations(Works)
=============================================================================
