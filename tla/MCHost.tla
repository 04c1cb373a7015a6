-------------------------------- MODULE MCHost ---------------------------------
(***************************************************************************)
(* An instance of Host: the databases of MCMaintenance, and a Desk.        *)
(***************************************************************************)
EXTENDS MCMaintenance, Host

CONSTANT skill
================================================================================
