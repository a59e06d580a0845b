------------------------------ MODULE Connections ------------------------------
(***************************************************************************)
(* The connections of the server: the accept loop of main.c, which runs    *)
(* alone and handles one connection at a time, and the life of each worker *)
(* thread as far as the connection table and the descriptors are           *)
(* concerned.  The table is keyed by descriptor, the kernel gives out the  *)
(* lowest free descriptor, and a worker closes its descriptor before it    *)
(* takes its entry out of the table: an accept can come in between.        *)
(*                                                                         *)
(* One step is one call that another thread can see: accept, close, or a   *)
(* function that locks mutex_connection_table.                             *)
(***************************************************************************)
EXTENDS Naturals, FiniteSets

CONSTANTS
  MaxClients,  \* bound: connections in the order in which accept returns them
  MaxFds       \* descriptors the process may have open for clients

ASSUME ConnectionsAssumption == MaxClients \in Nat /\ MaxFds \in Nat

Clients == 1..MaxClients
Fds == 1..MaxFds
NoFd == 0

\* connection.h
UNKNOWN_CONNECTION == 0
USER_CONNECTION == 1
REGISTERED_CONNECTION == 2
States == {UNKNOWN_CONNECTION, USER_CONNECTION, REGISTERED_CONNECTION}

VARIABLES
  pc,         \* how far main, then the worker, has come with a connection
  open,       \* descriptors the kernel has given out
  fd,         \* socket_num of a connection_t, and client_fd of its user
  listed,     \* connection_hash_table: the connection_t's it holds
  state,      \* connection_t.state
  named,      \* user_t.nick is set
  usernamed,  \* user_t.username is set
  registered  \* user_t.registered

tableVars == <<listed, state>>
userVars == <<named, usernamed, registered>>
vars == <<pc, open, fd, tableVars, userVars>>

\* Points of main's loop body, and points of a worker.
Accepting == {"accepted", "listed", "undo", "undo_close"}
Serving == {"recv", "mark"}
Labels == {"none"} \cup Accepting \cup Serving \cup {"unlist", "gone", "refused"}

Init ==
  /\ pc = [c \in Clients |-> "none"]
  /\ open = {}
  /\ fd = [c \in Clients |-> NoFd]
  /\ listed = {}
  /\ state = [c \in Clients |-> UNKNOWN_CONNECTION]
  /\ named = {}
  /\ usernamed = {}
  /\ registered = {}

Goto(c, label) == pc' = [pc EXCEPT ![c] = label]

\* HASH_FIND_INT: of the entries under a descriptor, uthash finds the one added
\* last, which is nearest to the head of its bucket.  (In scope are tables with
\* fewer than ten entries in a bucket: the tenth would have the table expanded,
\* which turns the order round.)
Entries(f) == {c \in listed : fd[c] = f}
Found(f) == {c \in Entries(f) : \A d \in Entries(f) : d <= c}

\* can_register
CanRegister(c) == c \in named /\ c \in usernamed
-------------------------------------------------------------------------------
(* context.c *)

\* delete_connection: the entry that is found, if there is one.
Delete(f) ==
  \/ Entries(f) = {} /\ UNCHANGED listed
  \/ \E e \in Found(f) : listed' = listed \ {e}

\* modify_connection_state leaves a registered connection alone.
NewState_Increments(old, new) == old + new
NewState(old, new) == IF old = REGISTERED_CONNECTION THEN old ELSE new

\* The handle is used after the unlock; that is one step all the same, because
\* between the two nobody else writes it or reads it but to count.
Modify(f, new) ==
  \/ Entries(f) = {} /\ UNCHANGED state
  \/ \E e \in Found(f) : state' = [state EXCEPT ![e] = NewState(@, new)]

\* count_connection_state: unknown, users (registered ones included), registered.
CountConnectionState ==
  LET In(S) == Cardinality({c \in listed : state[c] \in S})
  IN  <<In({UNKNOWN_CONNECTION}), In({USER_CONNECTION, REGISTERED_CONNECTION}),
        In({REGISTERED_CONNECTION})>>
-------------------------------------------------------------------------------
(* The accept loop of start_server *)

\* With no descriptor free accept fails and the loop tries again.
Accept(c) ==
  /\ pc[c] = "none" /\ \A d \in Clients : d < c => pc[d] # "none"
  /\ \A d \in Clients : pc[d] \notin Accepting
  /\ \E f \in Fds \ open :
       /\ \A g \in Fds \ open : f <= g
       /\ open' = open \cup {f}
       /\ fd' = [fd EXCEPT ![c] = f]
  /\ Goto(c, "accepted")
  /\ UNCHANGED <<tableVars, userVars>>

\* create_connection and add_connection
AddConnection(c) ==
  /\ pc[c] = "accepted"
  /\ listed' = listed \cup {c}
  /\ state' = [state EXCEPT ![c] = UNKNOWN_CONNECTION]
  /\ Goto(c, "listed")
  /\ UNCHANGED <<open, fd, userVars>>

\* pthread_create
CreateThread(c) ==
  /\ pc[c] = "listed"
  /\ \E next \in {"recv", "undo"} : Goto(c, next)
  /\ UNCHANGED <<open, fd, tableVars, userVars>>

\* It failed: the entry is deleted and its memory freed, then the descriptor is
\* closed.
UndoAdd_Skipped(c) ==
  /\ pc[c] = "undo"
  /\ Goto(c, "undo_close")
  /\ UNCHANGED <<open, fd, tableVars, userVars>>
UndoAdd(c) ==
  /\ pc[c] = "undo"
  /\ Delete(fd[c])
  /\ Goto(c, "undo_close")
  /\ UNCHANGED <<open, fd, state, userVars>>

UndoClose(c) ==
  /\ pc[c] = "undo_close"
  /\ open' = open \ {fd[c]}
  /\ Goto(c, "refused")
  /\ UNCHANGED <<fd, tableVars, userVars>>
-------------------------------------------------------------------------------
(* The worker *)

\* Who has a nickname and a user name becomes registered at once; the connection
\* is marked afterwards.  Commands of a client that is registered, and commands
\* that are refused (a nickname in use), change nothing here.
Complete(c) ==
  registered' = IF c \in named' /\ c \in usernamed' THEN registered \cup {c} ELSE registered

\* add_user_nick of handler_NICK
Nick(c) ==
  /\ pc[c] = "recv" /\ c \notin registered
  /\ named' = named \cup {c}
  /\ UNCHANGED usernamed
  /\ Complete(c)
  /\ Goto(c, "mark")
  /\ UNCHANGED <<open, fd, tableVars>>

\* handler_USER
User_Unmarked(c) ==
  /\ pc[c] = "recv" /\ c \notin registered
  /\ usernamed' = usernamed \cup {c}
  /\ UNCHANGED named
  /\ Complete(c)
  /\ UNCHANGED <<pc, open, fd, tableVars>>
User(c) ==
  /\ pc[c] = "recv" /\ c \notin registered
  /\ usernamed' = usernamed \cup {c}
  /\ UNCHANGED named
  /\ Complete(c)
  /\ Goto(c, "mark")
  /\ UNCHANGED <<open, fd, tableVars>>

\* modify_connection_state, at the end of both handlers
Mark(c) ==
  /\ pc[c] = "mark"
  /\ Modify(fd[c], IF CanRegister(c) THEN REGISTERED_CONNECTION ELSE USER_CONNECTION)
  /\ Goto(c, "recv")
  /\ UNCHANGED <<open, fd, listed, userVars>>

\* recv returned 0 or -1, or a handler returned -1: close(client_fd).
Close(c) ==
  /\ pc[c] = "recv"
  /\ open' = open \ {fd[c]}
  /\ Goto(c, "unlist")
  /\ UNCHANGED <<fd, tableVars, userVars>>

\* free_data: delete_connection by the descriptor that was closed.
Unlist_Skipped(c) ==
  /\ pc[c] = "unlist"
  /\ Goto(c, "gone")
  /\ UNCHANGED <<open, fd, tableVars, userVars>>
Unlist_ClosesAgain(c) ==
  /\ pc[c] = "unlist"
  /\ Delete(fd[c])
  /\ open' = open \ {fd[c]}
  /\ Goto(c, "gone")
  /\ UNCHANGED <<fd, state, userVars>>
Unlist(c) ==
  /\ pc[c] = "unlist"
  /\ Delete(fd[c])
  /\ Goto(c, "gone")
  /\ UNCHANGED <<open, fd, state, userVars>>
-------------------------------------------------------------------------------
Next ==
  \E c \in Clients :
    \/ Accept(c) \/ AddConnection(c) \/ CreateThread(c) \/ UndoAdd(c) \/ UndoClose(c)
    \/ Nick(c) \/ User(c) \/ Mark(c) \/ Close(c) \/ Unlist(c)

Spec == Init /\ [][Next]_vars
-------------------------------------------------------------------------------
(* Properties *)

\* Every variable stays in its type: no connection gets a state that
\* count_connection_state does not know, and the table holds connections only.
TypeOK ==
  /\ pc \in [Clients -> Labels]
  /\ open \subseteq Fds
  /\ fd \in [Clients -> Fds \cup {NoFd}]
  /\ listed \subseteq Clients
  /\ state \in [Clients -> States]
  /\ named \subseteq Clients
  /\ usernamed \subseteq Clients
  /\ registered \subseteq Clients

\* Clients whose descriptor has not been closed, and clients that have been put
\* in the table and have not called delete_connection.
Live == {c \in Clients : pc[c] \in Accepting \cup Serving}
Present == {c \in Clients : pc[c] \in {"listed", "undo", "unlist"} \cup Serving}
Entered(f) == {c \in Present : fd[c] = f}

\* A client that is served, or being accepted, has an open descriptor of its own:
\* close() in a worker never hits another client's socket.
DescriptorsOwned ==
  /\ \A c \in Live : fd[c] \in open
  /\ \A c, d \in Live : fd[c] = fd[d] => c = d

\* The table has as many entries under a descriptor as there are clients that
\* entered themselves under it, although delete_connection may take the entry of
\* another: none is left behind, and LUSERS counts the right total.
TableBalanced ==
  \A f \in Fds : Cardinality(Entries(f)) = Cardinality(Entered(f))

\* When pthread_create fails, main frees the connection it has just made: that is
\* the one its delete_connection took out of the table, or a worker that closed
\* the same descriptor before had taken it out; no freed entry stays in the table.
FreedNotListed ==
  \A c \in Clients : pc[c] \in {"undo_close", "refused"} => c \notin listed

\* The state that a client's connection should have.
StateDue(c) == IF c \in registered THEN REGISTERED_CONNECTION
               ELSE IF c \in named \cup usernamed THEN USER_CONNECTION
               ELSE UNKNOWN_CONNECTION

\* As long as its entry is in the table, a client waiting in recv is counted as
\* what it is: modify_connection_state, which looks for the descriptor, never
\* marks the entry that somebody else left under it instead.
OwnEntryExact ==
  \A c \in listed : pc[c] = "recv" => state[c] = StateDue(c)
-------------------------------------------------------------------------------
(* What the repository says of itself and the code does not do *)

\* context.h: count_connection_state counts "the number of different kinds of
\* connections", at least when every thread is waiting in accept or recv.
CountsExact ==
  (\A c \in Clients : pc[c] \in {"none", "recv", "gone", "refused"}) =>
    LET In(S) == Cardinality({c \in Clients : pc[c] = "recv" /\ StateDue(c) \in S})
    IN  CountConnectionState =
          <<In({UNKNOWN_CONNECTION}), In({USER_CONNECTION, REGISTERED_CONNECTION}),
            In({REGISTERED_CONNECTION})>>
===============================================================================
