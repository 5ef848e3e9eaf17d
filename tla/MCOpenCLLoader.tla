--------------------------- MODULE MCOpenCLLoader ---------------------------
(* A name without a library, a library that lacks a symbol, and a whole one. *)
EXTENDS OpenCLLoader

ThreeNames == <<{}, {1}, {1, 2}>>
=============================================================================
