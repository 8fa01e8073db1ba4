\* One pass over two works, either of which may be decided about.
CONSTANTS
  N = 2
  Qids = {q1, q2}
  NoQid = NoQid
  Passes = {p1}
  Shapes <- AllShapes
  MaxRuns = 1
  MaxCareless = 1
  MaxPlan = 1
  MaxMissed = 0
  Torn = Torn
SPECIFICATION Spec
SYMMETRY Symmetry
INVARIANT DecisionsStand
CHECK_DEADLOCK FALSE
