\* Two plain attempts, again and again, on a branch that does not move.
CONSTANTS
  Calls = {c1, c2}
  NoCall = NoCall
  Heads = {1}
  RetryLimit = 1
  Window = 1
  Outcomes <- SomeOutcomes
  Sweeps = FALSE
SPECIFICATION Spec
PROPERTY NoLatch
VIEW Relevant
