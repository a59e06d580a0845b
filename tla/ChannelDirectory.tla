--------------------------- MODULE ChannelDirectory ---------------------------
(***************************************************************************)
(* What the server promises about channels, as sets of users: everybody    *)
(* joins and leaves for itself only, whoever joins an empty channel is its *)
(* operator, and every other operator is made by one.  Nicknames are no    *)
(* part of it, although the server finds members by them: a rename changes *)
(* nothing.                                                                *)
(*                                                                         *)
(* The promise ends when a user leaves the server from a channel without   *)
(* PART; what channel_t keeps of such a user is the business of Session.   *)
(***************************************************************************)
CONSTANTS Users, Chans

VARIABLES
  members,   \* members[ch]: the users on channel ch
  operators, \* operators[ch]: those that are its operators
  ircops,    \* the operators of the server
  intact,    \* whether no user has left the server from a channel
  actor      \* the user whose command was the last

vars == <<members, operators, ircops, intact, actor>>

Init ==
  /\ members = [ch \in Chans |-> {}]
  /\ operators = [ch \in Chans |-> {}]
  /\ ircops = {}
  /\ intact = TRUE
  /\ actor \notin Users

\* A user that is not on a channel joins it.
Join(u, ch) ==
  /\ u \notin members[ch]
  /\ members' = [members EXCEPT ![ch] = @ \cup {u}]
  /\ operators' = IF members[ch] = {} THEN [operators EXCEPT ![ch] = {u}] ELSE operators
  /\ UNCHANGED ircops

\* A user leaves a channel, and is no operator if it comes back.
Part(u, ch) ==
  /\ u \in members[ch]
  /\ members' = [members EXCEPT ![ch] = @ \ {u}]
  /\ operators' = [operators EXCEPT ![ch] = @ \ {u}]
  /\ UNCHANGED ircops

\* An operator makes a member an operator, or ends its being one.
SetOperator(u, ch) ==
  /\ u \in operators[ch] \cup ircops
  /\ \E v \in members[ch] : \/ operators' = [operators EXCEPT ![ch] = @ \cup {v}]
                            \/ operators' = [operators EXCEPT ![ch] = @ \ {v}]
  /\ UNCHANGED <<members, ircops>>

\* A user becomes an operator of the server.
BecomeIrcop(u) ==
  /\ ircops' = ircops \cup {u}
  /\ UNCHANGED <<members, operators>>

\* Every other command leaves the directory as it is.
Look == UNCHANGED <<members, operators, ircops>>

Act(u) ==
  /\ \/ \E ch \in Chans : Join(u, ch) \/ Part(u, ch) \/ SetOperator(u, ch)
     \/ BecomeIrcop(u)
     \/ Look
  /\ actor' = u
  /\ UNCHANGED intact

\* A user leaves the server while it is on a channel.
Desert(u) ==
  /\ \E ch \in Chans : u \in members[ch]
  /\ intact' = FALSE
  /\ UNCHANGED <<members, operators, ircops, actor>>

Next == \/ intact /\ \E u \in Users : Act(u) \/ Desert(u)
        \/ ~intact /\ ~intact'

Spec == Init /\ [][Next]_vars
===============================================================================
