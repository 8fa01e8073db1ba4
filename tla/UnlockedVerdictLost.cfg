\* A tagger writes back the copy it read before a verdict.
CONSTANTS
  Tags = {t1}
  Digests = {d1, d2}
  NoTag = NoTag
  Torn = Torn
  NoOne = NoOne
  Reviewers = {}
  Curators = {c1}
  Checkers = {}
  Taggers = {g1}
  Promoters = {}
  Faults = {}
  MaxRequests = 3
SPECIFICATION USpec
INVARIANT DecisionsSurvive
CHECK_DEADLOCK FALSE
