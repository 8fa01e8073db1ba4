---------------------------- MODULE MCMasterFacts ----------------------------
(* Small instances of MasterFacts for TLC. *)
EXTENDS MasterFacts, TLC

Symmetry == Permutations(Listers)
=============================================================================
