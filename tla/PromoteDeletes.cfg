\* A work with two masters, and a candidate with the extension of the second.
CONSTANTS
  Works = {w1}
  Staged = {s1}
  Images <- ThreeSizes
  Paintings = {"A"}
  Exts = {"jpg", "tif"}
  Others = {}
  Sources = {s1}
  MaxRows = 1
  MaxRuns = 1
  MayCrash = FALSE
  Gaps <- NoGaps
  NoQid = NoQid
SPECIFICATION Spec
PROPERTY NothingDeleted
