\* Two attempts, plain or challenged, on a branch that moves once.
CONSTANTS
  Calls = {c1, c2}
  NoCall = NoCall
  Heads = {1, 2}
  RetryLimit = 1
  Window = 1
  Outcomes <- SomeOutcomes
  Sweeps = TRUE

SPECIFICATION SafeSpec
INVARIANTS UnfinishedRetriesAreBounded LoneRunner AuthorityIsSpentOnce RefundedIsClosed
PROPERTIES OwnReceiptOnly ReplaysAreFree
VIEW Relevant
SYMMETRY Symmetry
