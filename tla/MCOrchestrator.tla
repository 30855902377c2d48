--------------------------- MODULE MCOrchestrator ---------------------------
(* Orchestrator on small instances: records and contents are interchangeable *)
(* in every definition, so safety runs may identify states up to renaming.   *)
EXTENDS Orchestrator

Symmetry == Permutations(Records) \cup Permutations(Versions)

(* No step depends on offered: a run that states nothing about it may take   *)
(* states that differ in nothing else for the same.                         *)
WithoutOffered == <<disk, pc, memory, searchCalls, recordCalls>>
=============================================================================
