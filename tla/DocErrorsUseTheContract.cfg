\* An answer request that repeats a record, or a body that is no object.
SPECIFICATION Spec
CONSTANTS
  r1 = r1
  r2 = r2
  r3 = r3
  Ids <- SomeIds
  Texts <- SomeTexts
  Markers <- SomeMarkers
  Matches <- SomeMatches
  MaxLimit = 2
  MaxEvidence = 2
  NoRequest = NoRequest
INVARIANT ErrorsUseTheContract
