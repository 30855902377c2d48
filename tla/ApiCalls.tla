------------------------------ MODULE ApiCalls ------------------------------
(***************************************************************************)
(* Any client of the API: requests of every shape, one after the other,    *)
(* to a server that may be started again with other records.               *)
(***************************************************************************)
EXTENDS AnswerApi, FiniteSets

CONSTANT NoRequest

VARIABLES
  collection,  \* the records the server was started with
  request,     \* the last request
  response     \* the answer to it

vars == <<collection, request, response>>

Requests ==
  {Search(t, n) : t \in Texts, n \in 0..MaxLimit + 1}
    \cup {Ask(t, ids) : t \in Texts, ids \in SeqOf(Ids, MaxEvidence + 1)}
    \cup {NoObject}

Init ==
  /\ collection \in Collections
  /\ request = NoRequest
  /\ response = NoRequest

Handle ==
  /\ request' \in Requests
  /\ response' = Response(collection, request')
  /\ UNCHANGED collection

Restart ==
  /\ collection' \in Collections
  /\ request' = NoRequest
  /\ response' = NoRequest

Next == Handle \/ Restart

Spec == Init /\ [][Next]_vars

-----------------------------------------------------------------------------

Handled == request # NoRequest

(* A valid request that names an unknown record is refused, whatever else   *)
(* it names and asks, and exactly the unknown ones are reported.            *)
UnknownIsNeverIgnored ==
  Handled /\ request.operation = "answer" /\ response.status # 422 =>
    LET unknown == ToSet(request.evidence_ids) \ ToSet(collection)
    IN /\ response.status = 404 <=> unknown # {} /\ IsInjective(request.evidence_ids)
       /\ response.status = 404 => response.field_errors = unknown

(* Empty, results and unavailable are told apart, and results are the first *)
(* matches in fixture order, as many as asked for if there are.             *)
SearchPagesAreConsistent ==
  Handled /\ request.operation = "search" /\ response.status = 200 =>
    LET found == ToSet(collection) \cap Matches[request.text]
        shown == response.results
    IN /\ response.total = Cardinality(found)
       /\ response.outcome = "empty" <=> found = {}
       /\ IsInjective(shown)
       /\ ToSet(shown) \subseteq found
       /\ Len(shown) <= request.limit
       /\ Len(shown) < request.limit => ToSet(shown) = found
       /\ \A i, j \in DOMAIN collection :
            i < j /\ collection[i] \in found /\ collection[j] \in ToSet(shown) =>
              collection[i] \in ToSet(shown)

(* What a search shows can be asked about: an answer request for results of *)
(* the same server is never refused.                                        *)
ResultsCanBeAskedAbout ==
  Handled /\ request.operation = "search" /\ response.outcome = "results" =>
    \A t \in Texts :
      LET ids == response.results
      IN "too_long" \notin Markers[t] /\ Len(ids) <= MaxEvidence =>
           Response(collection, Ask(t, ids)).status = 200

(* "Serialize every operational error through the public error contract"    *)
(* (error_json_response).                                                   *)
ErrorsUseTheContract ==
  Handled => (response.outcome = "error" => response # UnhandledError)
=============================================================================
