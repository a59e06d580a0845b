----------------------------- MODULE NickRegistry -----------------------------
(***************************************************************************)
(* What the server promises about nicknames: a nickname names at most one  *)
(* user, a user holds at most one nickname, and nobody is given or loses a *)
(* nickname but by a call of its own.  The table user_hash_table of        *)
(* context_t, the per-user field user_t.nick and the lock that ties them   *)
(* together are the business of the modules that implement this one.       *)
(***************************************************************************)
CONSTANTS Users, Nicks, NoUser  \* NoUser is no member of Users

VARIABLE owner  \* owner[n]: the user that nickname n leads to, or NoUser

HeldBy(u) == {n \in Nicks : owner[n] = u}

Init == owner = [n \in Nicks |-> NoUser]

\* A user that has no nickname takes one that nobody has.
Claim(u, n) ==
  /\ HeldBy(u) = {}
  /\ owner[n] = NoUser
  /\ owner' = [owner EXCEPT ![n] = u]

\* A user gives up its nickname and takes a free one, in a single step.
Rename(u, m, n) ==
  /\ owner[m] = u
  /\ owner[n] = NoUser
  /\ owner' = [owner EXCEPT ![m] = NoUser, ![n] = u]

\* A user leaves: its nickname becomes free.
Release(u, n) ==
  /\ owner[n] = u
  /\ owner' = [owner EXCEPT ![n] = NoUser]

\* What the table may do for user u.
Call(u) == \E n \in Nicks :
             \/ Claim(u, n)
             \/ \E m \in Nicks : Rename(u, m, n)
             \/ Release(u, n)

\* A step of the implementation on behalf of user u changes u's nickname only.
Serves(u) == [Call(u)]_owner

Next == \E u \in Users : Call(u)

Spec == Init /\ [][Next]_owner
===============================================================================
