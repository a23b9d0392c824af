-------------------------------- MODULE MCLog --------------------------------
(***************************************************************************)
(* The log file alone, for the question what a synced write is worth.      *)
(***************************************************************************)
EXTENDS LogFormat

Spec == LogInit /\ [][LogNext]_logVars
=============================================================================
