----------------------------- MODULE MCRecovery -----------------------------
(* Orchestrator with several runs that share one process and one disk: runs, *)
(* records and contents are interchangeable in every definition.             *)
EXTENDS Orchestrator

Symmetry ==
  Permutations(RunIds) \cup Permutations(Records) \cup Permutations(Versions)

(* No step and no property of this run depends on offered.                  *)
WithoutOffered == <<disk, pc, memory, searchCalls, recordCalls>>
=============================================================================
