------------------------------ MODULE MCLineReader ------------------------------
(* Instances of LineReader for TLC. *)
EXTENDS LineReader, TLC

\* The bytes that are neither CR nor LF are interchangeable.
OtherSymmetric == Permutations(Other)
===============================================================================
