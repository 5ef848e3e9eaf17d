------------------------------- MODULE MCInput -------------------------------
(* PoolInput for TLC.                                                      *)
EXTENDS PoolInput
=============================================================================
