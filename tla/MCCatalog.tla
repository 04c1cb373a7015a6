------------------------------- MODULE MCCatalog -------------------------------
(***************************************************************************)
(* An instance of Catalog, with the values of its parts.                   *)
(***************************************************************************)
EXTENDS Catalog, MCRefresh, MCLibrary, MCReading, MCAnchoring, MCGit
================================================================================
