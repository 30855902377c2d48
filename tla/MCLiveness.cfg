\* One run, no symmetry: the operator resumes, disruptions may cease.  There is a
\* Search call more than there are cursors, so that a cursor can come back
\* before the budget is spent.
CONSTANTS
  RunIds = {r1}
  Records = {a, b}
  Versions = {v1}
  Cursors = {star, c2}
  StartCursor = star
  NoCursor = NoCursor
  NoRun = NoRun
  NoEntry = NoEntry
  NoFile = NoFile
  CandidateLimit = 2
  RecordLimit = 2
  PageLimit = 3
  MaxAttempts = 2
  MaxItems = 2
SPECIFICATION ResumingSpec
CHECK_DEADLOCK FALSE
INVARIANTS
  SearchEndsForAReason
PROPERTIES
  RunEnds
  EventuallyCompleted
