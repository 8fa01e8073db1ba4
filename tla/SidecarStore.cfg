\* Reviewers, curators and a checker share one sidecar; appends, writes and the
\* server fail anywhere.
CONSTANTS
  Tags = {t1, t2}
  Digests = {d1, d2}
  NoTag = NoTag
  Torn = Torn
  Reviewers = {r1, r2}
  Curators = {c1, c2}
  Checkers = {f1}
  NoOne = NoOne
  Faults = {"append","write","crash"}
  MaxRequests = 3
SPECIFICATION Spec
SYMMETRY Symmetry
VIEW LiveView
INVARIANTS IInv HistorySound ProposalsAreFlagged SubjectLogExplainsTags
PROPERTIES NoLostUpdate ImplementsReviewedRecord
CHECK_DEADLOCK FALSE
