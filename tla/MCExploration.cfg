\* Two commands for one directory, two queries, two records.
SPECIFICATION Spec
CONSTANTS
  r1 = r1
  r2 = r2
  Commands = {c1, c2}
  Categories = {"places"}
  Languages = {"en", "fr"}
  MaxPageSize = 2
  Matrices <- SomeMatrices
  Responses <- SomeResponses
  SampleIds <- SomeSampleIds
INVARIANTS
  SnapshotIsOfOneCommand
  
  RequestsAreNotRepeated
PROPERTIES
  EvidenceIsKept
CHECK_DEADLOCK FALSE
