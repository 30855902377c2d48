\* ADR 0004, lines 199-201, against a crash inside _create_run.
CONSTANTS
  RunIds = {r1}
  Records = {a, b}
  Versions = {v1, v2}
  Cursors = {star, c2}
  StartCursor = star
  NoCursor = NoCursor
  NoRun = NoRun
  NoEntry = NoEntry
  NoFile = NoFile
  CandidateLimit = 2
  RecordLimit = 3
  PageLimit = 2
  MaxAttempts = 2
  MaxItems = 1
SPECIFICATION Spec
CHECK_DEADLOCK FALSE
INVARIANT UnfinishedRunsCanResume
