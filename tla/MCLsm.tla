------------------------------- MODULE MCLsm -------------------------------
(* Small instances of Lsm for TLC.                                         *)
EXTENDS Lsm
=============================================================================
