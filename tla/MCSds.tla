--------------------------------- MODULE MCSds ---------------------------------
(* Instances of Sds for TLC. *)
EXTENDS Sds, TLC

CONSTANTS x, y
MCArgs == {<<>>, <<x>>, <<x, y>>}
MCIndices == {-2, -1, 0, 1, 2}

\* Headers that note lengths of up to 1, 2, 4, 8 and 16 instead of 2^5 - 1 to 2^64 - 1:
\* strings of the lengths checked pass through all five.
MCMaxOf == [t \in Types |-> 2^t]
===============================================================================
