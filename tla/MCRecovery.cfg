\* Two runs on one disk: either may be the recovery of the other, and the
\* source run may be resumed while its recovery is under way.
CONSTANTS
  RunIds = {r1, r2}
  Records = {a, b}
  Versions = {v1}
  Cursors = {star}
  StartCursor = star
  NoCursor = NoCursor
  NoRun = NoRun
  NoEntry = NoEntry
  NoFile = NoFile
  CandidateLimit = 2
  RecordLimit = 2
  PageLimit = 1
  MaxAttempts = 1
  MaxItems = 2
SPECIFICATION Spec
SYMMETRY Symmetry
VIEW WithoutOffered
CHECK_DEADLOCK FALSE
INVARIANTS
  RecordsAreTraceable
  RecoverySelectsRetryable
PROPERTIES
  ImplementsLedger
