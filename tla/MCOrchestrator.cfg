\* One run that may crash, be interrupted and be resumed without bound.
\* Two contents per record; three candidates let a checkpoint lag behind
\* several pages and several records; the budgets leave room for one retry.
CONSTANTS
  RunIds = {r1}
  Records = {a, b, c}
  Versions = {v1, v2}
  Cursors = {star, c2, c3}
  StartCursor = star
  NoCursor = NoCursor
  NoRun = NoRun
  NoEntry = NoEntry
  NoFile = NoFile
  CandidateLimit = 3
  RecordLimit = 3
  PageLimit = 3
  MaxAttempts = 2
  MaxItems = 2
SPECIFICATION Spec
SYMMETRY Symmetry
VIEW WithoutOffered
CHECK_DEADLOCK FALSE
INVARIANTS
  TypeOK
  CallsAreReserved
  CheckpointBehindManifest
  EvidenceBehindManifest
  CheckpointReflectsHistory
  CompletedRunsAreAccountedFor
  InternalChecksNeverTrip
PROPERTIES
  HistoryIsKept
  SettledIsNotAskedAgain
  CompletedRunsAreLeftAlone
  EveryStepIsProgress
