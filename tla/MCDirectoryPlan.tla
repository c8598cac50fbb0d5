-------------------------- MODULE MCDirectoryPlan --------------------------
(***************************************************************************)
(* The realms of MCDirectory, with plans.                                  *)
(***************************************************************************)
EXTENDS MCDirectory, DirectoryPlan
=============================================================================
