------------------------- MODULE MCAsyncOperations -------------------------
(***************************************************************************)
(* TLC instance of AsyncOperations: operations are model values.  Liveness *)
(* is checked, so no symmetry is declared.                                 *)
(***************************************************************************)
EXTENDS AsyncOperations
=============================================================================
