------------------------------- MODULE MCSession -------------------------------
(* Instances of Session for TLC. *)
EXTENDS Session, TLC

\* Clients are interchangeable, and so are nicknames.
Symmetric == Permutations(Clients) \cup Permutations(Nicks)
===============================================================================
