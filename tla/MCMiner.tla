------------------------------- MODULE MCMiner -------------------------------
(* A small instance of Miner for TLC: a CPU worker and a GPU.              *)
EXTENDS Miner

CONSTANTS c1, g1

OneCpu == {c1}
OneGpu == {g1}

(* Of every job the first and the last nonce meet the target: two shares   *)
(* for a queue of one.                                                     *)
SomeWinners == (1 .. MaxSeq) \X {0, NonceLimit - 1}
=============================================================================
