------------------------------ MODULE MCXmrig -------------------------------
(* Xmrig for TLC: no number of threads is special.                           *)
EXTENDS Xmrig, TLC

CountSymmetry == Permutations(ThreadCounts)
=============================================================================
