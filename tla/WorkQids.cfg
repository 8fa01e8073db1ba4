\* Three passes of any kind, two of them perhaps at the same time, killed anywhere.
CONSTANTS
  N = 2
  Qids = {q1, q2}
  NoQid = NoQid
  Passes = {p1, p2}
  Shapes <- AllShapes
  MaxRuns = 3
  MaxCareless = 2
  MaxPlan = 2
  MaxMissed = 1
  Torn = Torn
SPECIFICATION Spec
SYMMETRY Symmetry
INVARIANTS OneWorkPerQid HoldingsStayBare RefusalNamesAHolder
CHECK_DEADLOCK FALSE
