\* Three records over pages of up to three items; cursors can form cycles.
CONSTANTS
  RunIds = {r1}
  Records = {a, b, c}
  Versions = {v1}
  Cursors = {star, c2, c3}
  StartCursor = star
  NoCursor = NoCursor
  NoRun = NoRun
  NoEntry = NoEntry
  NoFile = NoFile
  CandidateLimit = 3
  RecordLimit = 1
  PageLimit = 3
  MaxItems = 3
SPECIFICATION Spec
CHECK_DEADLOCK FALSE
INVARIANTS
  CandidatesAreFirstDistinct
  CursorsAreNotRepeated
PROPERTIES
  ReplayAgreesWithAdvance
