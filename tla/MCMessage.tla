------------------------------- MODULE MCMessage -------------------------------
(* Instances of Message for TLC. *)
EXTENDS Message, TLC

CONSTANTS a, b
\* One command is the beginning of another.
MCNames == <<<<a, b>>, <<a>>>>
===============================================================================
