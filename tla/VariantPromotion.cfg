\* Two works and a staged candidate; a work may be the candidate for the other.
CONSTANTS
  Works = {w1, w2}
  Staged = {s1}
  Images <- TwoPaintings
  Paintings = {"A", "B"}
  Exts = {"jpg", "tif"}
  Others <- OneVariant
  Sources = {w1, w2, s1}
  MaxRows = 2
  MaxRuns = 2
  MayCrash = TRUE
  Gaps <- SomeGaps
  NoQid = NoQid
SPECIFICATION Spec
SYMMETRY Symmetry
INVARIANTS AppliedIsReversible RightPainting 
PROPERTY CropStaysCrop
CHECK_DEADLOCK FALSE
