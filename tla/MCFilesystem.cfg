\* Two processes on one manifest and one object of a record.
CONSTANTS
  Writers = {w1, w2}
  manifest = manifest
  object = object
  quarantine = quarantine
  Documents = {manifest}
  Objects = {object}
  Quarantines = {}
  Contents = {c1, c2}
  runs = runs
  bronze = bronze
  Directory <- Layout
  Absent = Absent
  Damaged = Damaged
  NoCall = NoCall
  Nobody = Nobody
SPECIFICATION Spec
SYMMETRY Symmetry
CHECK_DEADLOCK FALSE
INVARIANTS
  AnswersAreTrue
  AcknowledgedSurvives
PROPERTIES
  ImplementsAtomicStore
