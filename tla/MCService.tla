------------------------------ MODULE MCService ------------------------------
(* Service for TLC: the one instance Android keeps alive.                  *)
EXTENDS Service, TLC

OneInstance  == {1}
ThreadSymmetry == Permutations(Threads)
=============================================================================
