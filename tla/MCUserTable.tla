------------------------------ MODULE MCUserTable ------------------------------
(* Instances of UserTable for TLC. *)
EXTENDS UserTable, TLC

\* Two groups of nicknames that collide whatever the size of the table, and one
\* nickname that leaves the first group when the table has been doubled.
CONSTANTS a1, a2, a3, b1, b2, b3, c1
MCHash == [n \in {a1, a2, a3} |-> 0] @@ [n \in {b1, b2, b3} |-> 1] @@ (c1 :> 2)

\* Users are interchangeable, and nicknames with the same hash.
Symmetric ==
  Permutations(Elements) \cup Permutations({a1, a2, a3}) \cup Permutations({b1, b2, b3})
===============================================================================
