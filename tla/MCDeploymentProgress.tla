----------------------- MODULE MCDeploymentProgress -----------------------
(***************************************************************************)
(* TLC instance of DeploymentProgress: one status a progress save may      *)
(* write from and two it may not, and two values of every other field.     *)
(***************************************************************************)
EXTENDS DeploymentProgress
=============================================================================
