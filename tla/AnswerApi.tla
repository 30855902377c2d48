----------------------------- MODULE AnswerApi ------------------------------
(***************************************************************************)
(* The version 1 HTTP API (api/routes.py) over the Phase 2 adapters: what  *)
(* it answers to a request, given the collection of records it serves.     *)
(* The server keeps no state between requests.                             *)
(*                                                                         *)
(* A text is reduced to the markers and terms the adapters look for in it, *)
(* a record to its identifier; the language, which only chooses titles and *)
(* wording, is left out.                                                   *)
(***************************************************************************)
EXTENDS Integers, Sequences, SequencesExt, Filtering

CONSTANTS
  Ids,         \* identifiers of evidence records
  Texts,       \* queries and questions
  Markers,     \* [Texts -> SUBSET MarkerKinds]
  Matches,     \* [Texts -> SUBSET Ids], the records whose terms a query meets
  MaxLimit,    \* the most results a search may ask for
  MaxEvidence  \* the most records an answer may be asked about

MarkerKinds == {"too_long", "search_error", "unavailable", "unsupported", "conflict"}

ASSUME MarkersAssumption == Markers \in [Texts -> SUBSET MarkerKinds]
ASSUME MatchesAssumption == Matches \in [Texts -> SUBSET Ids]
ASSUME LimitsAssumption == MaxLimit \in Nat \ {0} /\ MaxEvidence \in Nat \ {0}

(* The fixtures, in their order.                                            *)
Collections == {c \in SeqOf(Ids, MaxLimit + 1) : IsInjective(c)}

-----------------------------------------------------------------------------
(* Errors                                                                  *)

(* error_json_response                                                      *)
Error(status, code, field_errors) ==
  [outcome |-> "error", status |-> status, code |-> code,
   field_errors |-> field_errors]

(* What is left when the exception handler raises itself.                   *)
UnhandledError == [outcome |-> "error", status |-> 500, code |-> "none"]

(* validation_error_handler: an error of the body as a whole has location   *)
(* ("body",), hence an empty field name, which FieldError refuses.          *)
Root == ""

ValidationError(fields) ==
  IF Root \in fields
  THEN UnhandledError
  ELSE Error(422, "invalid_request", fields)

-----------------------------------------------------------------------------
(* POST /search                                                            *)

Search(query, limit) ==
  [operation |-> "search", text |-> query, limit |-> limit]

(* SearchRequest, for a body that is an object.                             *)
SearchErrors(request) ==
  {field \in {"query", "limit"} :
     CASE field = "query" -> "too_long" \in Markers[request.text]
       [] field = "limit" -> request.limit \notin 1..MaxLimit}

(* InMemoryRetrievalAdapter.search: all matches, in fixture order.          *)
AllMatches(collection, query) == Among(collection, Matches[query])

FirstOfOneMore(limit, matches) ==
  SubSeq(matches, 1, IF limit < Len(matches) THEN limit + 1 ELSE Len(matches))

FirstOf(limit, matches) ==
  SubSeq(matches, 1, IF limit < Len(matches) THEN limit ELSE Len(matches))

AnswerSearch(collection, request) ==
  LET matches == AllMatches(collection, request.text)
      results == FirstOf(request.limit, matches)
  IN IF "search_error" \in Markers[request.text]
     THEN Error(503, "search_unavailable", {})
     ELSE [outcome |-> IF results = <<>> THEN "empty" ELSE "results",
           status |-> 200, results |-> results, total |-> Len(matches)]

-----------------------------------------------------------------------------
(* POST /answer                                                            *)

Ask(question, evidence_ids) ==
  [operation |-> "answer", text |-> question, evidence_ids |-> evidence_ids]

AnswerErrorsAtTheLimit(request) ==
  IF Len(request.evidence_ids) \in 1..(MaxEvidence - 1) THEN {} ELSE {"evidence_ids"}

(* AnswerRequest: its own validator runs once its fields are valid.         *)
AnswerErrors(request) ==
  LET fields == {field \in {"question", "evidence_ids"} :
        CASE field = "question" -> "too_long" \in Markers[request.text]
          [] field = "evidence_ids" -> Len(request.evidence_ids) \notin 1..MaxEvidence}
  IN IF fields = {} /\ ~IsInjective(request.evidence_ids) THEN {Root} ELSE fields

(* InMemoryRetrievalAdapter.get_by_ids                                      *)
Known(collection, evidence_ids) == Among(evidence_ids, ToSet(collection))

MissingIfAllAre(collection, evidence_ids) ==
  IF Known(collection, evidence_ids) = <<>> THEN evidence_ids ELSE <<>>

Missing(collection, evidence_ids) ==
  Among(evidence_ids, ToSet(evidence_ids) \ ToSet(Known(collection, evidence_ids)))

Abstained(reason) == [outcome |-> "abstained", status |-> 200, reason |-> reason]

Answered(records) ==
  [outcome |-> "answered", status |-> 200,
   citations |-> [n \in DOMAIN records |->
                    [citation_id |-> n, evidence_ids |-> <<records[n]>>]]]

(* DeterministicAnswerGenerator.generate, then to_answer_contract: the      *)
(* first marker it looks for decides, else one numbered citation for each   *)
(* record.                                                                  *)
Generate(markers, records) ==
  IF "unavailable" \in markers
  THEN [outcome |-> "generation_unavailable", status |-> 200,
        reason |-> "not_configured"]
  ELSE IF "unsupported" \in markers THEN Abstained("unsupported_question")
  ELSE IF "conflict" \in markers THEN Abstained("conflicting_evidence")
  ELSE IF records = <<>> THEN Abstained("insufficient_evidence")
  ELSE Answered(records)

AnswerQuestion(collection, request) ==
  LET missing == Missing(collection, request.evidence_ids)
  IN IF missing # <<>>
     THEN Error(404, "not_found", ToSet(missing))
     ELSE Generate(Markers[request.text], Known(collection, request.evidence_ids))

-----------------------------------------------------------------------------

(* A body that is missing or no object.                                     *)
NoObject == [operation |-> "no_object"]

RequestErrors(request) ==
  CASE request.operation = "search" -> SearchErrors(request)
    [] request.operation = "answer" -> AnswerErrors(request)
    [] OTHER -> {Root}

Response(collection, request) ==
  IF RequestErrors(request) # {} THEN ValidationError(RequestErrors(request))
  ELSE IF request.operation = "search" THEN AnswerSearch(collection, request)
  ELSE AnswerQuestion(collection, request)
=============================================================================
