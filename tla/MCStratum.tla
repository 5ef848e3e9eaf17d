------------------------------ MODULE MCStratum ------------------------------
(* Stratum for TLC.                                                        *)
EXTENDS Stratum
=============================================================================
