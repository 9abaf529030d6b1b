--------------------------- MODULE MCRuntimeReboot ---------------------------
(* Values for the run about the wait before a reset.                      *)
EXTENDS MCRuntime, RuntimeReboot
=============================================================================
