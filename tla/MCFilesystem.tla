---------------------------- MODULE MCFilesystem ----------------------------
(* Filesystem on small instances: processes and contents are interchangeable *)
(* in every definition.                                                      *)
EXTENDS Filesystem, TLC

CONSTANTS manifest, object, quarantine, runs, bronze

Layout ==
  [p \in Paths |-> IF p = object THEN bronze ELSE runs]

Symmetry == Permutations(Writers) \cup Permutations(Contents)
=============================================================================
