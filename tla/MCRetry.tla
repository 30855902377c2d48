------------------------------ MODULE MCRetry -------------------------------
(* Retry on small policies: no delay, exponential growth past the maximum   *)
(* delay, a total budget that some sums meet exactly.                       *)
EXTENDS Retry

SomePolicies ==
  {p \in [max_attempts : {1, 4}, max_total_delay : {0, 4, 7},
          base_delay : {0, 1, 2}, max_delay : {1, 3}, jitter_ratio : {0, 50}] :
     ValidPolicy(p)}
=============================================================================
