--------------------------- MODULE MCExploration ----------------------------
(* Two commands, two queries to a matrix, two records.                      *)
EXTENDS Exploration

CONSTANTS r1, r2

TYPE == Label("qf", "TYPE", FALSE)

Query(id, language, filters, limit) ==
  [query_id |-> id, category |-> "places", language |-> language, texts |-> "fine",
   filters |-> filters, facets |-> <<TYPE>>, page_size |-> 2, sample_limit |-> limit]

(* Two rights, an unknown right, a filter that is repeated once stripped.   *)
OddFilters ==
  {<<Label("reusability", "open", FALSE), Label("reusability", "permission", FALSE)>>,
   <<Label("reusability", "closed", FALSE)>>,
   <<TYPE, Label("qf", "TYPE", TRUE)>>}

English == Query("q1", "en", <<TYPE, Label("reusability", "open", FALSE)>>, 2)
French  == Query("q2", "fr", <<>>, 1)

(* A sampled query missing, page size and limit out of bounds, a repeated   *)
(* identifier, a language not covered.                                      *)
SomeMatrices ==
  {[header |-> "phase_3", queries |-> <<English, q>>] :
     q \in {French, [French EXCEPT !.query_id = "q3"],
            [French EXCEPT !.page_size = 3], [French EXCEPT !.sample_limit = 3],
            [French EXCEPT !.query_id = "q1"], [French EXCEPT !.language = "en"]}
       \cup {Query("q2", "fr", filters, 1) : filters \in OddFilters}}
    \cup {[header |-> "phase_4", queries |-> <<English, French>>]}

Found(items, count, total) ==
  [items |-> items, items_count |-> count, total_results |-> total,
   unique_facets |-> TRUE]

(* Nothing, one and two records; a record twice; more than the total; fewer *)
(* and more records than announced; a facet twice.                          *)
SomeResponses ==
  {Found(<<>>, 0, 0), Found(<<r1>>, 1, 1), Found(<<r2, r1>>, 2, 2),
   Found(<<r1, r1>>, 2, 2), Found(<<r1, r2>>, 2, 1),
   Found(<<r2>>, 2, 2), Found(<<r1, r2>>, 1, 1),
   [Found(<<r1>>, 1, 1) EXCEPT !.unique_facets = FALSE]}

SomeSampleIds == <<"q1", "q2">>
=============================================================================
