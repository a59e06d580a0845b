------------------------------- MODULE MCServer -------------------------------
(* Instances of Server for TLC. *)
EXTENDS Server, TLC

\* Connections, nicknames and channel objects are interchangeable.
Symmetric == Permutations(Users) \cup Permutations(Nicks)
===============================================================================
