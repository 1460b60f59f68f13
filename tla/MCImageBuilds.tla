--------------------------- MODULE MCImageBuilds ---------------------------
(***************************************************************************)
(* ImageBuilds for TLC.                                                    *)
(***************************************************************************)
EXTENDS ImageBuilds

MCServices == <<"web", "api">>
=============================================================================
