---------------------------- MODULE MCInterface -----------------------------
(* The page and the server with three records, one more than may be asked   *)
(* about and than a page of results holds.                                  *)
EXTENDS Interface

CONSTANTS r1, r2, r3

SomeIds == {r1, r2, r3}

SomeTexts == {"plain", "other"}

SomeMarkers ==
  [plain |-> {}, other |-> {"search_error", "unsupported"}]

SomeMatches == [t \in SomeTexts |-> SomeIds]

SomeDeployments == {<<r1, r2, r3>>, <<r3, r2>>}
=============================================================================
