---------------------------- MODULE QueryMatrix -----------------------------
(***************************************************************************)
(* The versioned matrix of discovery queries (discovery/query_matrix.py),  *)
(* the Search requests made of it and the summaries made of their answers  *)
(* (discovery/exploration.py, discovery/contracts.py).                     *)
(*                                                                         *)
(* A filter or a facet is a label: its kind, its text, and whether blanks  *)
(* follow the text.  The loader compares labels as they are; the request's *)
(* model strips them first.                                                *)
(***************************************************************************)
EXTENDS Integers, Sequences, SequencesExt

CONSTANTS
  Categories,   \* DiscoveryCategory: every one must be covered
  Languages,    \* Language: every one must be covered
  MaxPageSize   \* the most results a Search request may ask for

ASSUME PageSizeAssumption == MaxPageSize \in Nat \ {0}

Label(kind, text, padded) == [kind |-> kind, text |-> text, padded |-> padded]

IsReusability(label) == label.kind = "reusability"

-----------------------------------------------------------------------------
(* The loader                                                              *)

(* DiscoveryQuery.__post_init__; "texts" stands for its required texts.     *)
ValidQuery(query) ==
  /\ query.texts = "fine"
  /\ query.page_size \in 1..MaxPageSize
  /\ query.sample_limit \in 0..query.page_size
  /\ query.facets # <<>>
  /\ IsInjective(query.filters)
  /\ IsInjective(query.facets)

(* A field of the wrong type, an unknown category or an unknown language.   *)
Readable(query) == query.category \in Categories /\ query.language \in Languages

QueryIds(queries) == [n \in DOMAIN queries |-> queries[n].query_id]

(* load_discovery_query_matrix and DiscoveryQueryMatrix.__post_init__       *)
ValidMatrix(matrix) ==
  /\ matrix.header = "phase_3"
  /\ matrix.queries # <<>>
  /\ \A query \in ToSet(matrix.queries) : Readable(query) /\ ValidQuery(query)
  /\ IsInjective(QueryIds(matrix.queries))
  /\ {query.language : query \in ToSet(matrix.queries)} = Languages
  /\ {query.category : query \in ToSet(matrix.queries)} = Categories

-----------------------------------------------------------------------------
(* request_from_query                                                      *)

Reusability(query) == SelectSeq(query.filters, IsReusability)

Refinements(query) == SelectSeq(query.filters, LAMBDA f : ~IsReusability(f))

(* What str_strip_whitespace leaves of labels.                              *)
Stripped(labels) == [n \in DOMAIN labels |-> labels[n].text]

(* tuple[NonEmptyText, ...], with the uniqueness check of                   *)
(* SearchRequestConfiguration.                                              *)
ValidTexts(texts) == "" \notin ToSet(texts) /\ IsInjective(texts)

(* A reusability is one of three literals, which nothing strips.            *)
ValidReusability(label) ==
  /\ label.text \in {"open", "restricted", "permission"}
  /\ ~label.padded

(* SearchRequestConfiguration accepts the query.                            *)
Requestable(query) ==
  /\ Len(Reusability(query)) <= 1
  /\ \A label \in ToSet(Reusability(query)) : ValidReusability(label)
  /\ ValidTexts(Stripped(Refinements(query)))
  /\ ValidTexts(Stripped(query.facets))
  /\ query.facets # <<>>

-----------------------------------------------------------------------------
(* summarize_search                                                        *)

(* The first sample_limit items, in rank order.                             *)
Sampled(query, response) ==
  LET n == Len(response.items)
  IN SubSeq(response.items, 1, IF query.sample_limit < n THEN query.sample_limit ELSE n)

Summary(query, response) ==
  [query_id        |-> query.query_id,
   total_results   |-> response.total_results,
   items_count     |-> response.items_count,
   sampled_records |-> Sampled(query, response)]

(* SearchExplorationSummary.validate_summary; facets in the response have   *)
(* unique names or do not.                                                  *)
Summarizable(query, response) ==
  /\ response.items_count <= response.total_results
  /\ response.unique_facets
  /\ IsInjective(Sampled(query, response))
=============================================================================
