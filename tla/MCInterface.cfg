\* Three records, pages of two, at most two records to an answer.
SPECIFICATION FairSpec
CONSTANTS
  r1 = r1
  r2 = r2
  r3 = r3
  Ids <- SomeIds
  Texts <- SomeTexts
  Markers <- SomeMarkers
  Matches <- SomeMatches
  MaxLimit = 2
  MaxEvidence = 2
  PageSize = 2
  Deployments <- SomeDeployments
  Nothing = Nothing
INVARIANTS
  SelectionIsShown
  AnswersCiteTheirRequest
  NoUnhandledError
PROPERTIES
  SearchIsPreserved
  ComposerIsReleased
