------------------------- MODULE MCVariantPromotion -------------------------
(* Small instances of VariantPromotion for TLC. *)
EXTENDS VariantPromotion

Symmetry == Permutations(Works)

Picture(id, shows, px, cut) == [id |-> id, shows |-> shows, px |-> px, cut |-> cut, heavy |-> FALSE]

(* Of one painting two full renditions, and two crops to the aspect of a   *)
(* display; one rendition of another painting.                             *)
TwoPaintings == {Picture(1, "A", 1, FALSE), Picture(2, "A", 2, FALSE), Picture(3, "A", 1, TRUE),
                 Picture(4, "B", 1, FALSE), Picture(5, "A", 2, TRUE)}

(* One of the crops is a variant beside a master. *)
OneVariant == {Picture(5, "A", 2, TRUE)}

(* Every sidecar lacks the same; or those in the archive have no           *)
(* dimensions and the staged ones list variants.                           *)
SomeGaps ==
  {[d \in Dirs |-> g] : g \in {{}, {"qid"}, {"links"}}}
    \cup {[d \in Dirs |-> IF d \in Works THEN {"px"} ELSE {"links"}]}

NoGaps == {[d \in Dirs |-> {}]}

(* Full renditions of three sizes. *)
ThreeSizes == {Picture(1, "A", 1, FALSE), Picture(2, "A", 2, FALSE), Picture(3, "A", 3, FALSE)}
=============================================================================
