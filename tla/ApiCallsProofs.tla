--------------------------- MODULE ApiCallsProofs ---------------------------
(***************************************************************************)
(* What the API answers, for every collection, every request and every     *)
(* assignment of markers and matches to texts: the unknown records of an   *)
(* answer request, the page of a search, and that the two agree.           *)
(***************************************************************************)
EXTENDS ApiCalls, SequenceProofs

(* The response is the server's to the request.                             *)
IInv ==
  /\ collection \in Collections
  /\ Handled => request \in Requests /\ response = Response(collection, request)

-----------------------------------------------------------------------------
(* Requests and collections                                                *)

LEMMA BoundedSequences ==
  ASSUME NEW S, NEW n \in Nat, NEW s \in SeqOf(S, n)
  PROVE  s \in Seq(S)
<1>1. PICK m \in 0..n : s \in [1..m -> S]
  BY DEF SeqOf
<1>2. m \in Nat
  OBVIOUS
<1>3. QED
  BY <1>1, <1>2

LEMMA CollectionSequences ==
  ASSUME NEW c \in Collections
  PROVE  c \in Seq(Ids) /\ IsInjective(c)
BY BoundedSequences, LimitsAssumption DEF Collections

LEMMA AnswerRequests ==
  ASSUME NEW r \in Requests, r.operation = "answer"
  PROVE  r.evidence_ids \in Seq(Ids)
<1>1. PICK t \in Texts, ids \in SeqOf(Ids, MaxEvidence + 1) : r = Ask(t, ids)
  BY DEF Requests, Search, NoObject
<1>2. ids \in Seq(Ids)
  BY BoundedSequences, LimitsAssumption
<1>3. QED
  BY <1>1, <1>2 DEF Ask

-----------------------------------------------------------------------------
(* POST /answer                                                            *)

(* Exactly the unknown records are missing (missing_ids).                   *)
LEMMA MissingAreUnknown ==
  ASSUME NEW c \in Seq(Ids), NEW ids \in Seq(Ids)
  PROVE  /\ Missing(c, ids) \in Seq(Ids)
         /\ ToSet(Missing(c, ids)) = ToSet(ids) \ ToSet(c)
         /\ Missing(c, ids) = <<>> <=> ToSet(ids) \subseteq ToSet(c)
<1> DEFINE found == Known(c, ids)
           missing == Missing(c, ids)
<1>1. ToSet(found) = ToSet(ids) \cap ToSet(c)
  BY AmongMembers DEF Known
<1>2. ToSet(missing) = ToSet(ids) \cap (ToSet(ids) \ ToSet(found))
  BY AmongMembers DEF Missing
<1>3. missing \in Seq(Ids)
  BY AmongSelects DEF Missing
<1> HIDE DEF found, missing
<1>4. ToSet(missing) = ToSet(ids) \ ToSet(c)
  BY <1>1, <1>2
<1>5. missing = <<>> <=> ToSet(missing) = {}
  BY <1>3 DEF ToSet
<1>6. QED
  BY <1>3, <1>4, <1>5 DEF missing

(* A refused answer request: invalid, or with a record named twice, which   *)
(* the error contract cannot carry.                                         *)
LEMMA RefusedAnswers ==
  ASSUME NEW c, NEW r, r.operation = "answer", AnswerErrors(r) # {}
  PROVE  \/ Response(c, r).status = 422
         \/ Response(c, r).status = 500 /\ ~IsInjective(r.evidence_ids)
<1>1. Response(c, r) = ValidationError(AnswerErrors(r))
  BY DEF Response, RequestErrors
<1>2. CASE Root \in AnswerErrors(r)
  <2>1. Response(c, r) = UnhandledError
    BY <1>1, <1>2 DEF ValidationError
  <2>2. ~IsInjective(r.evidence_ids)
    BY <1>2 DEF AnswerErrors, Root
  <2>3. QED
    BY <2>1, <2>2 DEF UnhandledError
<1>3. CASE Root \notin AnswerErrors(r)
  BY <1>1, <1>3 DEF ValidationError, Error
<1>4. QED
  BY <1>2, <1>3

(* What an accepted answer request is answered.                             *)
LEMMA AcceptedAnswers ==
  ASSUME NEW c \in Seq(Ids), NEW r, r.operation = "answer",
         r.evidence_ids \in Seq(Ids), AnswerErrors(r) = {}
  PROVE  /\ IsInjective(r.evidence_ids)
         /\ IF ToSet(r.evidence_ids) \subseteq ToSet(c)
            THEN Response(c, r).status = 200
            ELSE /\ Response(c, r).status = 404
                 /\ Response(c, r).field_errors = ToSet(r.evidence_ids) \ ToSet(c)
<1> DEFINE ids == r.evidence_ids
<1>1. IsInjective(ids)
  BY DEF AnswerErrors
<1>2. Response(c, r) = AnswerQuestion(c, r)
  BY DEF Response, RequestErrors
<1>3. CASE ToSet(ids) \subseteq ToSet(c)
  <2>1. Missing(c, ids) = <<>>
    BY <1>3, MissingAreUnknown
  <2>2. Response(c, r) = Generate(Markers[r.text], Known(c, ids))
    BY <1>2, <2>1 DEF AnswerQuestion
  <2>3. Response(c, r).status = 200
    BY <2>2 DEF Generate, Abstained, Answered
  <2>4. QED
    BY <1>1, <1>3, <2>3
<1>4. CASE ~(ToSet(ids) \subseteq ToSet(c))
  <2>1. Missing(c, ids) # <<>>
    BY <1>4, MissingAreUnknown
  <2>2. Response(c, r) = Error(404, "not_found", ToSet(Missing(c, ids)))
    BY <1>2, <2>1 DEF AnswerQuestion
  <2>3. Response(c, r).status = 404
        /\ Response(c, r).field_errors = ToSet(Missing(c, ids))
    BY <2>2 DEF Error
  <2>4. QED
    BY <1>1, <1>4, <2>3, MissingAreUnknown
<1>5. QED
  BY <1>3, <1>4

-----------------------------------------------------------------------------
(* POST /search                                                            *)

(* A page that search shows, of the records c for a text and a limit.       *)
IsPage(page, total, c, text, limit) ==
  LET found == ToSet(c) \cap Matches[text]
  IN /\ total = Cardinality(found)
     /\ page = <<>> <=> found = {}
     /\ IsInjective(page)
     /\ ToSet(page) \subseteq found
     /\ Len(page) <= limit
     /\ Len(page) < limit => ToSet(page) = found
     /\ \A i, j \in DOMAIN c :
          i < j /\ c[i] \in found /\ c[j] \in ToSet(page) => c[i] \in ToSet(page)

(* The first matches, in fixture order (InMemoryRetrievalAdapter.search).   *)
LEMMA FirstMatches ==
  ASSUME NEW c \in Seq(Ids), IsInjective(c), NEW text, NEW limit \in Nat \ {0}
  PROVE  LET matches == AllMatches(c, text)
         IN /\ FirstOf(limit, matches) \in Seq(Ids)
            /\ IsPage(FirstOf(limit, matches), Len(matches), c, text, limit)
<1> DEFINE matches == AllMatches(c, text)
           found == ToSet(c) \cap Matches[text]
           k == IF limit < Len(matches) THEN limit ELSE Len(matches)
           page == FirstOf(limit, matches)
<1>1. matches \in Seq(Ids) /\ Selects(matches, Len(c), c, Matches[text])
  BY AmongSelects DEF AllMatches
<1>2. ToSet(matches) = found
  BY AmongMembers DEF AllMatches
<1>3. IsInjective(matches)
  BY AmongInjective DEF AllMatches
<1>4. Len(matches) = Cardinality(found)
  BY <1>1, <1>2, <1>3, LengthOfInjective
<1>5. page = SubSeq(matches, 1, k)
  BY DEF FirstOf
<1> HIDE DEF matches, page
<1>6. k \in Nat /\ k <= Len(matches) /\ k <= limit /\ (k < limit => k = Len(matches))
      /\ (k = 0 <=> Len(matches) = 0)
  BY <1>1
<1> HIDE DEF k
<1>7. /\ page \in Seq(Ids)
      /\ Len(page) = k
      /\ \A i \in 1..k : page[i] = matches[i]
  BY <1>1, <1>5, <1>6
<1>8. page = <<>> <=> found = {}
  <2>1. page = <<>> <=> k = 0
    BY <1>7
  <2>2. found = {} <=> Len(matches) = 0
    <3>1. ASSUME Len(matches) # 0 PROVE matches[1] \in ToSet(matches)
      <4>1. 1 \in DOMAIN matches
        BY <1>1, <3>1
      <4>2. QED
        BY <4>1 DEF ToSet
    <3>2. ASSUME Len(matches) = 0 PROVE ToSet(matches) = {}
      <4>1. DOMAIN matches = {}
        BY <1>1, <3>2
      <4>2. QED
        BY <4>1 DEF ToSet
    <3> HIDE DEF found
    <3>3. QED
      BY <1>2, <3>1, <3>2
  <2>3. QED
    BY <1>6, <2>1, <2>2
<1>9. IsInjective(page)
  <2> SUFFICES ASSUME NEW i \in 1..k, NEW j \in 1..k, page[i] = page[j] PROVE i = j
    BY <1>7 DEF IsInjective
  <2>1. i \in DOMAIN matches /\ j \in DOMAIN matches /\ matches[i] = matches[j]
    BY <1>1, <1>6, <1>7
  <2>2. QED
    BY <1>3, <2>1 DEF IsInjective
<1>10. ToSet(page) \subseteq found
  <2> SUFFICES ASSUME NEW i \in 1..k PROVE page[i] \in ToSet(matches)
    BY <1>2, <1>7 DEF ToSet
  <2>1. i \in DOMAIN matches /\ page[i] = matches[i]
    BY <1>1, <1>6, <1>7
  <2>2. QED
    BY <2>1 DEF ToSet
<1>11. Len(page) < limit => ToSet(page) = found
  <2> SUFFICES ASSUME k = Len(matches) PROVE ToSet(page) = ToSet(matches)
    BY <1>2, <1>6, <1>7
  <2>1. DOMAIN page = DOMAIN matches /\ \A i \in DOMAIN matches : page[i] = matches[i]
    BY <1>1, <1>7
  <2>2. QED
    BY <2>1 DEF ToSet
<1>12. ASSUME NEW i \in DOMAIN c, NEW j \in DOMAIN c, i < j, c[i] \in found,
              c[j] \in ToSet(page)
       PROVE  c[i] \in ToSet(page)
  <2>1. PICK b \in 1..k : c[j] = matches[b]
    BY <1>7, <1>12 DEF ToSet
  <2>2. PICK a \in DOMAIN matches : c[i] = matches[a]
    BY <1>2, <1>12 DEF ToSet
  <2>3. a <= b
    <3> SUFFICES ASSUME b < a PROVE FALSE
      BY <1>1, <1>6
    <3>1. b \in DOMAIN matches
      BY <1>1, <1>6
    <3>2. PICK i1 \in 1..Len(c), j1 \in 1..Len(c) :
            i1 < j1 /\ matches[b] = c[i1] /\ matches[a] = c[j1]
      BY <1>1, <3>1 DEF Selects
    <3>3. i1 = j /\ j1 = i
      BY <1>12, <2>1, <2>2, <3>2 DEF IsInjective
    <3>4. QED
      BY <1>12, <3>2, <3>3
  <2>4. a \in DOMAIN page /\ page[a] = c[i]
    BY <1>1, <1>6, <1>7, <2>2, <2>3
  <2>5. QED
    BY <2>4 DEF ToSet
<1> HIDE DEF found
<1>13. IsPage(page, Len(matches), c, text, limit)
  BY <1>4, <1>6, <1>7, <1>8, <1>9, <1>10, <1>11, <1>12 DEF IsPage, found
<1>14. QED
  BY <1>7, <1>13 DEF page, matches

(* What a search is answered: it is refused, unavailable, or shows a page.  *)
LEMMA SearchResponses ==
  ASSUME NEW c \in Seq(Ids), IsInjective(c), NEW r, r.operation = "search"
  PROVE  \/ Response(c, r).status \in {422, 503} /\ Response(c, r).outcome = "error"
         \/ /\ Response(c, r).status = 200
            /\ Response(c, r).results \in Seq(Ids)
            /\ Response(c, r).outcome =
                 IF Response(c, r).results = <<>> THEN "empty" ELSE "results"
            /\ IsPage(Response(c, r).results, Response(c, r).total, c, r.text, r.limit)
<1>1. CASE SearchErrors(r) # {}
  <2>1. Response(c, r) = ValidationError(SearchErrors(r))
    BY <1>1 DEF Response, RequestErrors
  <2>2. Root \notin SearchErrors(r)
    BY DEF SearchErrors, Root
  <2>3. Response(c, r) = Error(422, "invalid_request", SearchErrors(r))
    BY <2>1, <2>2 DEF ValidationError
  <2>4. QED
    BY <2>3 DEF Error
<1>2. CASE SearchErrors(r) = {}
  <2>1. Response(c, r) = AnswerSearch(c, r)
    BY <1>2 DEF Response, RequestErrors
  <2>2. r.limit \in Nat \ {0}
    <3>1. r.limit \in 1..MaxLimit
      BY <1>2 DEF SearchErrors
    <3>2. QED
      BY <3>1, LimitsAssumption
  <2>3. CASE "search_error" \in Markers[r.text]
    <3>1. Response(c, r) = Error(503, "search_unavailable", {})
      BY <2>1, <2>3 DEF AnswerSearch
    <3>2. QED
      BY <3>1 DEF Error
  <2>4. CASE "search_error" \notin Markers[r.text]
    <3> DEFINE matches == AllMatches(c, r.text)
               results == FirstOf(r.limit, matches)
    <3>1. Response(c, r) =
            [outcome |-> IF results = <<>> THEN "empty" ELSE "results",
             status |-> 200, results |-> results, total |-> Len(matches)]
      BY <2>1, <2>4 DEF AnswerSearch
    <3>2. results \in Seq(Ids) /\ IsPage(results, Len(matches), c, r.text, r.limit)
      BY <2>2, FirstMatches
    <3> HIDE DEF results, matches
    <3>3. /\ Response(c, r).status = 200
          /\ Response(c, r).results = results
          /\ Response(c, r).total = Len(matches)
          /\ Response(c, r).outcome = IF results = <<>> THEN "empty" ELSE "results"
      BY <3>1
    <3>4. QED
      BY <3>2, <3>3, Zenon
  <2>5. QED
    BY <2>3, <2>4
<1>3. QED
  BY <1>1, <1>2

-----------------------------------------------------------------------------
(* The invariant                                                           *)

LEMMA Invariant == Spec => []IInv
<1>1. Init => IInv
  BY DEF Init, IInv, Handled
<1>2. IInv /\ [Next]_vars => IInv'
  <2> SUFFICES ASSUME IInv, [Next]_vars PROVE IInv'
    OBVIOUS
  <2>1. CASE Handle
    BY <2>1, Zenon DEF Handle, IInv
  <2>2. CASE Restart
    BY <2>2, Zenon DEF Restart, IInv, Handled
  <2>3. CASE UNCHANGED vars
    <3>1. UNCHANGED <<collection, request, response>>
      BY <2>3 DEF vars
    <3>2. QED
      BY <3>1, Zenon DEF IInv, Handled
  <2>4. QED
    BY <2>1, <2>2, <2>3 DEF Next
<1> QED
  BY <1>1, <1>2, PTL DEF Spec

-----------------------------------------------------------------------------

(* A valid answer request with unknown records is refused, naming exactly   *)
(* those, and no other is refused for that reason (routes.answer,           *)
(* get_by_ids).                                                             *)
THEOREM UnknownIsReported == Spec => []UnknownIsNeverIgnored
<1>1. IInv => UnknownIsNeverIgnored
  <2> DEFINE unknown == ToSet(request.evidence_ids) \ ToSet(collection)
  <2> SUFFICES ASSUME IInv, Handled, request.operation = "answer",
                      response.status # 422
               PROVE  /\ response.status = 404 <=>
                           unknown # {} /\ IsInjective(request.evidence_ids)
                      /\ response.status = 404 => response.field_errors = unknown
    BY Zenon DEF UnknownIsNeverIgnored
  <2>1. collection \in Seq(Ids) /\ request \in Requests
        /\ response = Response(collection, request)
    BY CollectionSequences DEF IInv
  <2>2. request.evidence_ids \in Seq(Ids)
    BY <2>1, AnswerRequests
  <2>3. CASE AnswerErrors(request) # {}
    <3>1. response.status = 500 /\ ~IsInjective(request.evidence_ids)
      BY <2>1, <2>3, RefusedAnswers
    <3>2. QED
      BY <3>1
  <2>4. CASE AnswerErrors(request) = {}
    BY <2>1, <2>2, <2>4, AcceptedAnswers
  <2>5. QED
    BY <2>3, <2>4
<1> QED
  BY <1>1, Invariant, PTL

(* A search that succeeds shows the first of all matches in fixture order,  *)
(* as many as there are up to the limit, and counts all of them             *)
(* (InMemoryRetrievalAdapter.search, routes.search).                        *)
THEOREM SearchShowsAPage == Spec => []SearchPagesAreConsistent
<1>1. IInv => SearchPagesAreConsistent
  <2> SUFFICES ASSUME IInv, Handled, request.operation = "search",
                      response.status = 200
               PROVE  /\ IsPage(response.results, response.total, collection,
                                request.text, request.limit)
                      /\ response.outcome = "empty" <=> response.results = <<>>
    BY Zenon DEF SearchPagesAreConsistent, IsPage
  <2>1. collection \in Seq(Ids) /\ IsInjective(collection)
        /\ response = Response(collection, request)
    BY CollectionSequences DEF IInv
  <2>2. QED
    BY <2>1, SearchResponses
<1> QED
  BY <1>1, Invariant, PTL

(* An answer request for the results of a search, unless it is itself       *)
(* invalid, is not refused by the server that showed them (routes.search,   *)
(* routes.answer).                                                          *)
THEOREM ResultsAreAnswerable == Spec => []ResultsCanBeAskedAbout
<1>1. IInv => ResultsCanBeAskedAbout
  <2> DEFINE ids == response.results
  <2> SUFFICES ASSUME IInv, Handled, request.operation = "search",
                      response.outcome = "results", NEW t \in Texts,
                      "too_long" \notin Markers[t], Len(ids) <= MaxEvidence
               PROVE  Response(collection, Ask(t, ids)).status = 200
    BY Zenon DEF ResultsCanBeAskedAbout
  <2>1. collection \in Seq(Ids) /\ IsInjective(collection)
        /\ response = Response(collection, request)
    BY CollectionSequences DEF IInv
  <2>2. /\ ids \in Seq(Ids)
        /\ ids # <<>>
        /\ IsPage(ids, response.total, collection, request.text, request.limit)
    BY <2>1, SearchResponses
  <2>3. IsInjective(ids) /\ ToSet(ids) \subseteq ToSet(collection)
    BY <2>2 DEF IsPage
  <2> HIDE DEF ids
  <2> DEFINE r == Ask(t, ids)
  <2>4. r.operation = "answer" /\ r.text = t /\ r.evidence_ids = ids
    BY DEF Ask
  <2>5. Len(ids) \in 1..MaxEvidence
    BY <2>2, LimitsAssumption
  <2> HIDE DEF r
  <2>6. AnswerErrors(r) = {}
    BY <2>3, <2>4, <2>5 DEF AnswerErrors
  <2>7. Response(collection, r).status = 200
    BY <2>1, <2>2, <2>3, <2>4, <2>6, AcceptedAnswers
  <2>8. QED
    BY <2>7 DEF r
<1> QED
  BY <1>1, Invariant, PTL
=============================================================================
