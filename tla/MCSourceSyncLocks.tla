------------------------- MODULE MCSourceSyncLocks -------------------------
(***************************************************************************)
(* TLC instance of SourceSyncLocks.  As many entries as threads suffice:   *)
(* an entry nobody refers to can be handed out again.                      *)
(***************************************************************************)
EXTENDS SourceSyncLocks
=============================================================================
