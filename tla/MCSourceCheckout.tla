-------------------------- MODULE MCSourceCheckout --------------------------
(***************************************************************************)
(* TLC instance of SourceCheckout and, within it, of SourceSyncLocks.  As  *)
(* many entries as threads suffice: an entry nobody refers to can be       *)
(* handed out again.                                                       *)
(***************************************************************************)
EXTENDS SourceCheckout
=============================================================================
