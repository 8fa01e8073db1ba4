\* Reviewer, curator, tagger and promoter; every script and the server may be
\* killed anywhere, and a handler may fail to write.
CONSTANTS
  Tags = {t1}
  Digests = {d1, d2}
  NoTag = NoTag
  Torn = Torn
  NoOne = NoOne
  Reviewers = {r1}
  Curators = {c1}
  Checkers = {}
  Taggers = {g1}
  Promoters = {p1}
  Faults = {"crash", "write"}
  MaxRequests = 3
SPECIFICATION UFairSpec
INVARIANTS RecordStaysSound VerdictsWereGiven
PROPERTIES TornHeals HandlersReturn
CHECK_DEADLOCK FALSE
VIEW Relevant
