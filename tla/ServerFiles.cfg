\* Three threads, the server restarted and the card pulled anywhere.
CONSTANTS
  Threads = {t1, t2, t3}
  NoOne = NoOne
  Absent = Absent
  Torn = Torn
  Ids = {1, 2}
  Kept = {1}
  MaxPlaylistCalls = 3
  Requests = {q1, q2}
  Ttl = 1
  MaxTime = 3
  PartCount = 2
  MaxImageCalls = 4
  Works = {w1, w2}
  Artists = {a1}
  MaxLines = 2
  Half = Half
  Selections <- AllSelections
  MaxExports = 2
SPECIFICATION Spec
SYMMETRY Symmetry
INVARIANTS LoneCallIsExact AcceptedSurvives SettledCacheIsWhole DecidedIsNotAsked GateKeepsItsWord OneExport ManifestCoversCard FinishedCard KeptUntilReplaced
PROPERTY ClearsWhatItFound
CHECK_DEADLOCK FALSE
