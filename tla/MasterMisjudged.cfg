\* Two listers decode the same gigapixel master.
CONSTANTS
  Listers = {l1, l2}
  MayResize = FALSE
  Kinds = {"giga"}
  MaxMasters = 1
  MayCrash = FALSE
  Torn = Torn
  Absent = Absent
SPECIFICATION Spec
INVARIANT GoodIsNotTruncated
