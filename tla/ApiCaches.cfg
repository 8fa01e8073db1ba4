\* Two threads, one that reviews and others that resize, over files that change at most
\* twice; the process is restarted anywhere while it saves what it knows of masters.
CONSTANTS
  Threads = {t1, t2}
  Reviewer = r1
  Works = {w1, w2}
  Calls = {"rate", "index", "total", "scores"}
  MaxChanges = 2
  None = None
  Kinds = {"giga", "damaged"}
  Torn = Torn
  Absent = Absent
SPECIFICATION Spec
SYMMETRY Symmetry
INVARIANTS LonePairsAreCurrent CalmRatingsFresh CalmManifestIsCurrent CalmListIsCurrent MemoIsSound LoneVerdictIsFair
