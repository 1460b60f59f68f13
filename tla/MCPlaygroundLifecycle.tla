----------------------- MODULE MCPlaygroundLifecycle -----------------------
(***************************************************************************)
(* TLC instances of PlaygroundLifecycle.  Tasks are model values, so sets  *)
(* of tasks of the same kind are symmetric.                                *)
(***************************************************************************)
EXTENDS PlaygroundLifecycle, TLC

Symmetric ==
  Permutations(Creators) \cup Permutations(Operators) \cup
  Permutations(Stoppers) \cup Permutations(Deleters) \cup Permutations(Patchers)
=============================================================================
