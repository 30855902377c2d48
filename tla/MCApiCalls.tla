----------------------------- MODULE MCApiCalls -----------------------------
(* The API on three records, with a text for each marker and each number of *)
(* matches.                                                                 *)
EXTENDS ApiCalls

CONSTANTS r1, r2, r3

SomeIds == {r1, r2, r3}

SomeTexts ==
  {"plain", "none", "long", "outage", "unavailable", "unsupported", "conflict",
   "both"}

SomeMarkers ==
  [t \in SomeTexts |->
     CASE t = "long" -> {"too_long"}
       [] t = "outage" -> {"search_error"}
       [] t = "unavailable" -> {"unavailable"}
       [] t = "unsupported" -> {"unsupported"}
       [] t = "conflict" -> {"conflict"}
       [] t = "both" -> {"unsupported", "conflict"}
       [] OTHER -> {}]

SomeMatches ==
  [t \in SomeTexts |->
     CASE t = "none" -> {}
       [] t = "conflict" -> {r2, r3}
       [] t = "both" -> {r3}
       [] OTHER -> SomeIds]
=============================================================================
