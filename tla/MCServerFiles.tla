---------------------------- MODULE MCServerFiles ----------------------------
(* Small instances of ServerFiles for TLC. *)
EXTENDS ServerFiles, TLC, FiniteSets, Functions

(* All selections of one work or more for a card, in an order of their own. *)
AllSelections == {s \in UNION {[1..n -> Works] : n \in 1..Cardinality(Works)} : IsInjective(s)}

Symmetry ==
  UNION {Permutations(Threads), Permutations(Requests), Permutations(Works)}
=============================================================================
