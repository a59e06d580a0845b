--------------------------- MODULE ConnectionsProofs ---------------------------
(***************************************************************************)
(* Theorems about Connections, for every number of clients and of          *)
(* descriptors.                                                            *)
(***************************************************************************)
EXTENDS Connections, FiniteSetTheorems, TLAPS

\* main accepts the connections in order and handles one at a time, the last.
MainIsSequential ==
  /\ \A c, d \in Clients : d < c /\ pc[c] # "none" => pc[d] # "none"
  /\ \A c \in Clients : pc[c] \in Accepting =>
       \A d \in Clients : pc[d] # "none" => d <= c

\* Who has been accepted has been given a descriptor, and of those that were given
\* the same one, the client it still belongs to is the last.
DescriptorsGiven ==
  /\ \A c \in Clients : pc[c] # "none" => fd[c] \in Fds
  /\ \A c \in Live : \A d \in Clients : pc[d] # "none" /\ fd[d] = fd[c] => d <= c

\* An entry in the table was put there by its client.
EntriesEntered == \A c \in listed : pc[c] \notin {"none", "accepted"}

\* A user record is filled in by its worker only, and is complete at once.
UsersFilled ==
  /\ registered = named \cap usernamed
  /\ \A c \in named \cup usernamed : pc[c] \notin {"none"} \cup Accepting
  /\ \A c \in Clients : pc[c] = "mark" => c \in named \cup usernamed

\* The state of a new entry, and of one that is about to be marked.
EntryPending ==
  \A c \in listed : /\ pc[c] \in Accepting => state[c] = UNKNOWN_CONNECTION
                    /\ pc[c] = "mark" => state[c] # REGISTERED_CONNECTION

Order == MainIsSequential /\ DescriptorsGiven /\ EntriesEntered /\ UsersFilled

Inv == TypeOK /\ Order /\ DescriptorsOwned
       /\ EntryPending /\ OwnEntryExact /\ FreedNotListed /\ TableBalanced
-------------------------------------------------------------------------------
(* Lemmas *)

USE DEF NoFd

\* The initial states satisfy the invariant.
LEMMA InvInit == Init => Inv
<1> SUFFICES ASSUME Init PROVE Inv
  OBVIOUS
<1>1. TypeOK /\ Order /\ DescriptorsOwned /\ EntryPending /\ OwnEntryExact /\ FreedNotListed
  BY DEF Init, TypeOK, Order, MainIsSequential, DescriptorsGiven, EntriesEntered, UsersFilled,
         DescriptorsOwned, EntryPending, OwnEntryExact, FreedNotListed, Live, Accepting,
         Serving, Labels, States
<1>2. ASSUME NEW f \in Fds PROVE Entries(f) = {} /\ Entered(f) = {}
  BY DEF Init, Entries, Entered, Present, Serving
<1>3. TableBalanced
  BY <1>2 DEF TableBalanced
<1> QED BY <1>1, <1>3 DEF Inv

\* The table holds some of the clients, and there are finitely many of those.
LEMMA FiniteTables ==
  ASSUME TypeOK, NEW f
  PROVE  IsFiniteSet(Entries(f)) /\ IsFiniteSet(Entered(f))
<1>1. IsFiniteSet(Clients)
  BY ConnectionsAssumption, FS_Interval, 1 \in Int, MaxClients \in Int DEF Clients
<1>2. Entries(f) \in SUBSET Clients /\ Entered(f) \in SUBSET Clients
  BY DEF TypeOK, Entries, Entered, Present
<1> QED BY <1>1, <1>2, FS_Subset

\* A step keeps every variable in its type.
LEMMA TypeInductive == TypeOK /\ [Next]_vars => TypeOK'
<1> SUFFICES ASSUME TypeOK, [Next]_vars PROVE TypeOK'
  OBVIOUS
<1> USE DEF TypeOK, Goto, tableVars, userVars, Labels, Accepting, Serving, States
<1>1. ASSUME NEW c \in Clients, Accept(c) PROVE TypeOK'
  BY <1>1 DEF Accept
<1>2. ASSUME NEW c \in Clients, AddConnection(c) PROVE TypeOK'
  BY <1>2 DEF AddConnection
<1>3. ASSUME NEW c \in Clients, CreateThread(c) PROVE TypeOK'
  BY <1>3 DEF CreateThread
<1>4. ASSUME NEW c \in Clients, UndoAdd(c) PROVE TypeOK'
  BY <1>4 DEF UndoAdd, Delete
<1>5. ASSUME NEW c \in Clients, UndoClose(c) PROVE TypeOK'
  BY <1>5 DEF UndoClose
<1>6. ASSUME NEW c \in Clients, Nick(c) PROVE TypeOK'
  BY <1>6 DEF Nick, Complete
<1>7. ASSUME NEW c \in Clients, User(c) PROVE TypeOK'
  BY <1>7 DEF User, Complete
<1>8. ASSUME NEW c \in Clients, Mark(c) PROVE TypeOK'
  BY <1>8 DEF Mark, Modify, NewState
<1>9. ASSUME NEW c \in Clients, Close(c) PROVE TypeOK'
  BY <1>9 DEF Close
<1>10. ASSUME NEW c \in Clients, Unlist(c) PROVE TypeOK'
  BY <1>10 DEF Unlist, Delete
<1>11. CASE UNCHANGED vars
  BY <1>11 DEF vars
<1> QED BY <1>1, <1>2, <1>3, <1>4, <1>5, <1>6, <1>7, <1>8, <1>9, <1>10, <1>11 DEF Next

\* A step keeps the order of the connections and the ownership of descriptors.
LEMMA OrderInductive ==
  TypeOK /\ Order /\ DescriptorsOwned /\ [Next]_vars => (Order /\ DescriptorsOwned)'
<1> SUFFICES ASSUME TypeOK, Order, DescriptorsOwned, [Next]_vars
             PROVE  (Order /\ DescriptorsOwned)'
  OBVIOUS
<1> DEFINE Goal == Order /\ DescriptorsOwned
<1> USE DEF TypeOK, Order, DescriptorsOwned, MainIsSequential, DescriptorsGiven, EntriesEntered,
            UsersFilled, Live, Goto, tableVars, userVars, Labels, Accepting, Serving, Fds, Clients
<1> USE ConnectionsAssumption
<1>1. ASSUME NEW c \in Clients, Accept(c) PROVE Goal'
  <2>1. PICK f \in Fds \ open : open' = open \cup {f} /\ fd' = [fd EXCEPT ![c] = f]
    BY <1>1 DEF Accept
  <2>2. /\ pc[c] = "none" /\ pc' = [pc EXCEPT ![c] = "accepted"]
        /\ \A d \in Clients : pc[d] # "none" => d < c
        /\ \A d \in Clients : d < c => pc[d] # "none"
        /\ \A d \in Clients : pc[d] \notin Accepting
        /\ UNCHANGED <<listed, named, usernamed, registered>>
    <3>1. ASSUME NEW d \in Clients, pc[d] # "none" PROVE d < c
      BY <1>1, <3>1 DEF Accept
    <3> QED BY <1>1, <3>1 DEF Accept
  <2>3. MainIsSequential'
    BY <2>2
  <2>4. DescriptorsGiven'
    BY <2>1, <2>2
  <2>5. EntriesEntered' /\ UsersFilled'
    BY <2>2
  <2>6. DescriptorsOwned'
    BY <2>1, <2>2
  <2> QED BY <2>3, <2>4, <2>5, <2>6
<1>2. ASSUME NEW c \in Clients, AddConnection(c) PROVE Goal'
  BY <1>2 DEF AddConnection
<1>3. ASSUME NEW c \in Clients, CreateThread(c) PROVE Goal'
  BY <1>3 DEF CreateThread
<1>4. ASSUME NEW c \in Clients, UndoAdd(c) PROVE Goal'
  <2>1. MainIsSequential' /\ EntriesEntered' BY <1>4 DEF UndoAdd, Delete
  <2>2. DescriptorsGiven' /\ DescriptorsOwned' BY <1>4 DEF UndoAdd, Delete
  <2>3. UsersFilled' BY <1>4 DEF UndoAdd, Delete
  <2> QED BY <2>1, <2>2, <2>3
<1>5. ASSUME NEW c \in Clients, UndoClose(c) PROVE Goal'
  BY <1>5 DEF UndoClose
<1>6. ASSUME NEW c \in Clients, Nick(c) PROVE Goal'
  BY <1>6 DEF Nick, Complete
<1>7. ASSUME NEW c \in Clients, User(c) PROVE Goal'
  BY <1>7 DEF User, Complete
<1>8. ASSUME NEW c \in Clients, Mark(c) PROVE Goal'
  <2>1. MainIsSequential' /\ EntriesEntered' BY <1>8 DEF Mark
  <2>2. DescriptorsGiven' /\ DescriptorsOwned' BY <1>8 DEF Mark
  <2>3. UsersFilled' BY <1>8 DEF Mark
  <2> QED BY <2>1, <2>2, <2>3
<1>9. ASSUME NEW c \in Clients, Close(c) PROVE Goal'
  <2>1. MainIsSequential' /\ EntriesEntered' BY <1>9 DEF Close
  <2>2. DescriptorsGiven' /\ DescriptorsOwned' BY <1>9 DEF Close
  <2>3. UsersFilled' BY <1>9 DEF Close
  <2> QED BY <2>1, <2>2, <2>3
<1>10. ASSUME NEW c \in Clients, Unlist(c) PROVE Goal'
  <2>1. MainIsSequential' /\ EntriesEntered' BY <1>10 DEF Unlist, Delete
  <2>2. DescriptorsGiven' /\ DescriptorsOwned' BY <1>10 DEF Unlist, Delete
  <2>3. UsersFilled' BY <1>10 DEF Unlist, Delete
  <2> QED BY <2>1, <2>2, <2>3
<1>11. CASE UNCHANGED vars
  BY <1>11 DEF vars
<1> QED BY <1>1, <1>2, <1>3, <1>4, <1>5, <1>6, <1>7, <1>8, <1>9, <1>10, <1>11 DEF Next

\* What HASH_FIND_INT finds under the descriptor of a client that still owns it, if
\* it finds that client's entry at all, is that entry.
LEMMA FindsOwn ==
  ASSUME TypeOK, Order, NEW c \in Live, NEW e \in Found(fd[c]), c \in listed
  PROVE  e = c
<1>1. c \in Entries(fd[c]) /\ e \in Entries(fd[c]) /\ c <= e
  BY DEF Found, Entries
<1>2. e \in Clients /\ pc[e] # "none" /\ fd[e] = fd[c]
  BY <1>1 DEF Entries, TypeOK, Order, EntriesEntered
<1>3. e <= c
  BY <1>2 DEF Order, DescriptorsGiven
<1> QED BY <1>1, <1>2, <1>3, ConnectionsAssumption DEF Clients, Live

\* A step keeps the states of the entries exact, and a connection that main has
\* freed out of the table.
LEMMA EntriesInductive ==
  /\ TypeOK /\ Order /\ DescriptorsOwned
  /\ EntryPending /\ OwnEntryExact /\ FreedNotListed /\ [Next]_vars
  => (EntryPending /\ OwnEntryExact /\ FreedNotListed)'
<1> SUFFICES ASSUME TypeOK, Order, DescriptorsOwned,
                    EntryPending, OwnEntryExact, FreedNotListed, [Next]_vars
             PROVE  (EntryPending /\ OwnEntryExact /\ FreedNotListed)'
  OBVIOUS
<1> DEFINE Goal == EntryPending /\ OwnEntryExact /\ FreedNotListed
<1> USE DEF EntryPending, OwnEntryExact, FreedNotListed, StateDue, TypeOK, Order, EntriesEntered,
            UsersFilled, Goto, tableVars, userVars, Labels, Accepting, Serving
<1>1. ASSUME NEW c \in Clients, Accept(c) PROVE Goal'
  BY <1>1 DEF Accept
<1>2. ASSUME NEW c \in Clients, AddConnection(c) PROVE Goal'
  BY <1>2 DEF AddConnection
<1>3. ASSUME NEW c \in Clients, CreateThread(c) PROVE Goal'
  BY <1>3 DEF CreateThread
<1>4. ASSUME NEW c \in Clients, UndoAdd(c) PROVE Goal'
  <2>1. c \in Live /\ pc' = [pc EXCEPT ![c] = "undo_close"]
        /\ UNCHANGED <<state, named, usernamed, registered>>
    BY <1>4 DEF UndoAdd, Live
  <2>2. listed' \subseteq listed
    BY <1>4 DEF UndoAdd, Delete
  <2>3. c \notin listed'
    <3>1. CASE c \in listed
      <4>1. PICK e \in Found(fd[c]) : listed' = listed \ {e}
        BY <1>4, <3>1 DEF UndoAdd, Delete, Entries
      <4> QED BY <2>1, <3>1, <4>1, FindsOwn
    <3> QED BY <2>2, <3>1
  <2> QED BY <2>1, <2>2, <2>3
<1>5. ASSUME NEW c \in Clients, UndoClose(c) PROVE Goal'
  BY <1>5 DEF UndoClose
<1>6. ASSUME NEW c \in Clients, Nick(c) PROVE Goal'
  BY <1>6 DEF Nick, Complete, States, UNKNOWN_CONNECTION, USER_CONNECTION, REGISTERED_CONNECTION
<1>7. ASSUME NEW c \in Clients, User(c) PROVE Goal'
  BY <1>7 DEF User, Complete, UNKNOWN_CONNECTION, USER_CONNECTION, REGISTERED_CONNECTION
<1>8. ASSUME NEW c \in Clients, Mark(c) PROVE Goal'
  <2>1. c \in Live /\ pc[c] = "mark" /\ pc' = [pc EXCEPT ![c] = "recv"]
        /\ UNCHANGED <<listed, named, usernamed, registered>>
    BY <1>8 DEF Mark, Live
  <2>2. FreedNotListed'
    BY <2>1
  <2>3. CASE Entries(fd[c]) = {} /\ UNCHANGED state
    BY <2>1, <2>3 DEF Entries
  <2>4. ASSUME NEW e \in Found(fd[c]),
               state' = [state EXCEPT ![e] = NewState(@, StateDue(c))]
        PROVE  EntryPending' /\ OwnEntryExact'
    <3>1. e \in listed /\ fd[e] = fd[c]
      BY DEF Found, Entries
    <3>2. e \in Live => e = c
      BY <2>1, <3>1 DEF DescriptorsOwned
    <3>3. c \in listed => e = c
      BY <2>1, FindsOwn
    <3>4. ASSUME NEW d \in listed, d # e PROVE state'[d] = state[d] /\ d # c
      BY <2>4, <3>3, <3>4
    <3>5. e = c => state'[e] = StateDue(c)
      BY <2>1, <2>4, <3>1 DEF NewState
    <3> QED BY <2>1, <3>2, <3>4, <3>5 DEF Live
  <2>5. StateDue(c) = IF CanRegister(c) THEN REGISTERED_CONNECTION ELSE USER_CONNECTION
    BY <2>1 DEF CanRegister
  <2> QED BY <1>8, <2>2, <2>3, <2>4, <2>5 DEF Mark, Modify
<1>9. ASSUME NEW c \in Clients, Close(c) PROVE Goal'
  BY <1>9 DEF Close
<1>10. ASSUME NEW c \in Clients, Unlist(c) PROVE Goal'
  BY <1>10 DEF Unlist, Delete
<1>11. CASE UNCHANGED vars
  BY <1>11 DEF vars
<1> QED BY <1>1, <1>2, <1>3, <1>4, <1>5, <1>6, <1>7, <1>8, <1>9, <1>10, <1>11 DEF Next

\* delete_connection by a client that has entered itself takes one entry away under
\* its descriptor and none under another: with the client it stays in balance.
LEMMA DeleteBalances ==
  ASSUME TypeOK, TableBalanced, NEW c \in Present, fd[c] \in Fds, UNCHANGED fd,
         Delete(fd[c]), Present' = Present \ {c}
  PROVE  TableBalanced'
<1> SUFFICES ASSUME NEW f \in Fds PROVE Cardinality(Entries(f)') = Cardinality(Entered(f)')
  BY DEF TableBalanced
<1>1. IsFiniteSet(Entries(f)) /\ IsFiniteSet(Entered(f))
  BY FiniteTables
<1>2. CASE f = fd[c]
  <2>1. Entered(f)' = Entered(f) \ {c} /\ c \in Entered(f)
    BY <1>2 DEF Entered
  <2>2. Cardinality(Entries(f)) # 0
    BY <1>1, <1>2, <2>1, FS_EmptySet DEF TableBalanced
  <2>3. PICK e \in Found(f) : listed' = listed \ {e}
    BY <1>2, <2>2, FS_EmptySet DEF Delete
  <2>4. Entries(f)' = Entries(f) \ {e} /\ e \in Entries(f)
    BY <2>3 DEF Entries, Found
  <2>5. Cardinality(Entries(f) \ {e}) = Cardinality(Entries(f)) - 1
    BY <1>1, <2>4, FS_RemoveElement
  <2>6. Cardinality(Entered(f) \ {c}) = Cardinality(Entered(f)) - 1
    BY <1>1, <2>1, FS_RemoveElement
  <2> QED BY <2>1, <2>4, <2>5, <2>6 DEF TableBalanced
<1>3. CASE f # fd[c]
  <2>1. Entered(f)' = Entered(f)
    BY <1>3 DEF Entered
  <2>2. Entries(f)' = Entries(f)
    BY <1>3 DEF Delete, Entries, Found
  <2> QED BY <2>1, <2>2 DEF TableBalanced
<1> QED BY <1>2, <1>3

\* A step keeps the table in balance with the clients that entered themselves.
LEMMA BalanceInductive ==
  TypeOK /\ Order /\ TableBalanced /\ [Next]_vars => TableBalanced'
<1> SUFFICES ASSUME TypeOK, Order, TableBalanced, [Next]_vars PROVE TableBalanced'
  OBVIOUS
<1>a. ASSUME UNCHANGED <<fd, listed>>, Present' = Present PROVE TableBalanced'
  BY <1>a DEF TableBalanced, Entries, Entered
<1>b. ASSUME NEW c \in Clients, NEW next, pc' = [pc EXCEPT ![c] = next],
             pc[c] \in {"listed", "undo", "unlist"} \cup Serving
                <=> next \in {"listed", "undo", "unlist"} \cup Serving
      PROVE  Present' = Present
  BY <1>b DEF Present, TypeOK
<1>1. ASSUME NEW c \in Clients, Accept(c) PROVE TableBalanced'
  <2>1. PICK f \in Fds : fd' = [fd EXCEPT ![c] = f]
    BY <1>1 DEF Accept
  <2>2. c \notin listed /\ c \notin Present /\ UNCHANGED listed /\ Present' = Present
    BY <1>1, <1>b DEF Accept, Goto, tableVars, Order, EntriesEntered, Present, Serving
  <2>3. ASSUME NEW g \in Fds PROVE Entries(g)' = Entries(g) /\ Entered(g)' = Entered(g)
    BY <2>1, <2>2 DEF Entries, Entered, Present, TypeOK
  <2> QED BY <2>3 DEF TableBalanced
<1>2. ASSUME NEW c \in Clients, AddConnection(c) PROVE TableBalanced'
  <2>1. /\ listed' = listed \cup {c} /\ c \notin listed /\ UNCHANGED fd
        /\ Present' = Present \cup {c} /\ c \notin Present
    BY <1>2 DEF AddConnection, Goto, Order, EntriesEntered, Present, Serving, TypeOK
  <2> SUFFICES ASSUME NEW f \in Fds PROVE Cardinality(Entries(f)') = Cardinality(Entered(f)')
    BY DEF TableBalanced
  <2>2. IsFiniteSet(Entries(f)) /\ IsFiniteSet(Entered(f))
    BY FiniteTables
  <2>3. CASE f = fd[c]
    <3>1. Entries(f)' = Entries(f) \cup {c} /\ c \notin Entries(f)
      BY <2>1, <2>3 DEF Entries
    <3>2. Entered(f)' = Entered(f) \cup {c} /\ c \notin Entered(f)
      BY <2>1, <2>3 DEF Entered
    <3>3. Cardinality(Entries(f) \cup {c}) = Cardinality(Entries(f)) + 1
      BY <2>2, <3>1, FS_AddElement
    <3>4. Cardinality(Entered(f) \cup {c}) = Cardinality(Entered(f)) + 1
      BY <2>2, <3>2, FS_AddElement
    <3> QED BY <3>1, <3>2, <3>3, <3>4 DEF TableBalanced
  <2>4. CASE f # fd[c]
    <3>1. Entries(f)' = Entries(f) /\ Entered(f)' = Entered(f)
      BY <2>1, <2>4 DEF Entries, Entered
    <3> QED BY <3>1 DEF TableBalanced
  <2> QED BY <2>3, <2>4
<1>3. ASSUME NEW c \in Clients, CreateThread(c) PROVE TableBalanced'
  BY <1>3, <1>a, <1>b DEF CreateThread, Goto, tableVars, Serving
<1>4. ASSUME NEW c \in Clients, UndoAdd(c) PROVE TableBalanced'
  <2>1. c \in Present /\ Present' = Present \ {c} /\ Delete(fd[c]) /\ UNCHANGED fd
    BY <1>4 DEF UndoAdd, Goto, Present, Serving, TypeOK
  <2> QED BY <1>4, <2>1, DeleteBalances DEF Order, DescriptorsGiven, UndoAdd
<1>5. ASSUME NEW c \in Clients, UndoClose(c) PROVE TableBalanced'
  BY <1>5, <1>a, <1>b DEF UndoClose, Goto, tableVars, Serving
<1>6. ASSUME NEW c \in Clients, Nick(c) PROVE TableBalanced'
  BY <1>6, <1>a, <1>b DEF Nick, Goto, tableVars, Serving
<1>7. ASSUME NEW c \in Clients, User(c) PROVE TableBalanced'
  BY <1>7, <1>a, <1>b DEF User, Goto, tableVars, Serving
<1>8. ASSUME NEW c \in Clients, Mark(c) PROVE TableBalanced'
  BY <1>8, <1>a, <1>b DEF Mark, Goto, Serving
<1>9. ASSUME NEW c \in Clients, Close(c) PROVE TableBalanced'
  BY <1>9, <1>a, <1>b DEF Close, Goto, tableVars, Serving
<1>10. ASSUME NEW c \in Clients, Unlist(c) PROVE TableBalanced'
  <2>1. c \in Present /\ Present' = Present \ {c} /\ Delete(fd[c]) /\ UNCHANGED fd
    BY <1>10 DEF Unlist, Goto, Present, Serving, TypeOK
  <2> QED BY <1>10, <2>1, DeleteBalances DEF Order, DescriptorsGiven, Unlist
<1>11. CASE UNCHANGED vars
  BY <1>11, <1>a DEF vars, tableVars, Present
<1> QED BY <1>1, <1>2, <1>3, <1>4, <1>5, <1>6, <1>7, <1>8, <1>9, <1>10, <1>11 DEF Next
-------------------------------------------------------------------------------
(* Theorems *)

\* The invariant holds in every reachable state.
LEMMA Invariance == Spec => []Inv
<1>1. Inv /\ [Next]_vars => Inv'
  BY TypeInductive, OrderInductive, EntriesInductive, BalanceInductive DEF Inv
<1> QED BY InvInit, <1>1, PTL DEF Spec

\* Every variable stays in its type.
THEOREM TypeCorrect == Spec => []TypeOK
<1>1. Inv => TypeOK
  BY DEF Inv
<1> QED BY Invariance, <1>1, PTL

\* close() in a worker, or in main when pthread_create fails, never closes the
\* socket of another client.
THEOREM OwnDescriptors == Spec => []DescriptorsOwned
<1>1. Inv => DescriptorsOwned
  BY DEF Inv
<1> QED BY Invariance, <1>1, PTL

\* However accepts and disconnects interleave, no connection is left in the table
\* for ever, and delete_connection and modify_connection_state find an entry.
THEOREM BalancedTable == Spec => []TableBalanced
<1>1. Inv => TableBalanced
  BY DEF Inv
<1> QED BY Invariance, <1>1, PTL

\* Freed connections are not in the table.
THEOREM NoFreedEntry == Spec => []FreedNotListed
<1>1. Inv => FreedNotListed
  BY DEF Inv
<1> QED BY Invariance, <1>1, PTL

\* A client whose entry has not been taken out by another is counted as what it is.
THEOREM ExactStates == Spec => []OwnEntryExact
<1>1. Inv => OwnEntryExact
  BY DEF Inv
<1> QED BY Invariance, <1>1, PTL
===============================================================================
