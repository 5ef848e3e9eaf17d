------------------------------ MODULE MCRunCore ------------------------------
(* RunCore for TLC: no limit, no retry, one retry.                         *)
EXTENDS RunCore

Limits == {-1, 0, 1}
=============================================================================
