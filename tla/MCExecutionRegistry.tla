-------------------------- MODULE MCExecutionRegistry --------------------------
(* Small instances of ExecutionRegistry for TLC.                           *)
EXTENDS ExecutionRegistry, TLC

\* Calls of Drain are interchangeable, so are calls of Close and groups.
Symmetry ==
  Permutations(Drainers) \cup Permutations(Closers) \cup Permutations(Groups)
=============================================================================
