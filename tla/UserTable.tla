------------------------------- MODULE UserTable -------------------------------
(***************************************************************************)
(* user_hash_table at the level of its links: what add_user_nick,          *)
(* update_user_nick, get_user and delete_user of context.c do to the       *)
(* uthash table, each under mutex_user_table and so in one step.  Module   *)
(* Server has this table as a function from nicknames to users; here it is *)
(* shown when the links amount to one.                                     *)
(*                                                                         *)
(* Habits are things a client can do and no caller guards against: to      *)
(* leave without a nickname, and to send NICK again before USER.           *)
(***************************************************************************)
EXTENDS Uthash

CONSTANTS
  Habits,
  MaxBuckets  \* bound: buckets the table grows to

ASSUME UserTableAssumption == Habits \subseteq {"leave_nickless", "renick"}

VARIABLES
  table,      \* context_t.user_hash_table, its UT_hash_table, and the hh of each user_t
  connected,  \* users whose user_t is allocated
  username,   \* users that have sent USER
  up          \* the process runs

vars == <<table, connected, username, up>>

Init ==
  /\ table = [head |-> NULL, tbl |-> NoTable, hh |-> [u \in Elements |-> ZeroHandle]]
  /\ connected = {}
  /\ username = {}
  /\ up = TRUE

\* user_t.nick: hh.key points to it.
Nick(u) == table.hh[u].key

\* can_register; registered is set as soon as it holds.
Registered(u) == Nick(u) # NULL /\ u \in username

\* create_user: a calloc'ed user_t, maybe where a freed one was.
CreateUser(u) ==
  /\ up /\ u \notin connected
  /\ connected' = connected \cup {u}
  /\ UNCHANGED <<table, username, up>>

SendUSER(u) ==
  /\ up /\ u \in connected
  /\ username' = username \cup {u}
  /\ UNCHANGED <<table, connected, up>>

\* The first NICK; add_user_nick refuses a nickname it finds in the table.
AddUserNick(u, n) ==
  /\ up /\ u \in connected /\ ~Registered(u)
  /\ Nick(u) # NULL => "renick" \in Habits
  /\ FindEnds(table, n) = TRUE
  /\ \/ Find(table, n) # NULL /\ UNCHANGED table
     \/ Find(table, n) = NULL /\ table' = Add(table, u, n)
  /\ table'.tbl.num_buckets <= MaxBuckets
  /\ UNCHANGED <<connected, username, up>>

\* update_user_nick: HASH_DEL with the old key, HASH_ADD_KEYPTR with the new one.
Rekey_AddsFirst(T, u, n) == Delete(Add(T, u, n), u)
Rekey(T, u, n) == Add(Delete(T, u), u, n)
UpdateUserNick(u, n) ==
  /\ up /\ u \in connected /\ Registered(u)
  /\ FindEnds(table, n) = TRUE
  /\ \/ Find(table, n) # NULL /\ UNCHANGED table
     \/ Find(table, n) = NULL /\ table.head # NULL /\ table' = Rekey(table, u, n)
  /\ table'.tbl.num_buckets <= MaxBuckets
  /\ UNCHANGED <<connected, username, up>>

\* delete_user and destroy_user when a client leaves; the next user_t at that place
\* comes zeroed.  HASH_DEL reads (head)->hh.tbl: with no table at all the process
\* dies of it.
DeleteUser(u) ==
  /\ up /\ u \in connected
  /\ Nick(u) = NULL => "leave_nickless" \in Habits
  /\ \/ table.head = NULL /\ up' = FALSE /\ UNCHANGED table
     \/ table.head # NULL /\ table' = [Delete(table, u) EXCEPT !.hh[u] = ZeroHandle] /\ UNCHANGED up
  /\ connected' = connected \ {u}
  /\ username' = username \ {u}

\* What the thread of user u calls.
Call(u) ==
  \/ CreateUser(u)
  \/ SendUSER(u)
  \/ \E n \in Keys : AddUserNick(u, n) \/ UpdateUserNick(u, n)
  \/ DeleteUser(u)

Next == \E u \in Elements : Call(u)

Spec == Init /\ [][Next]_vars
-------------------------------------------------------------------------------
(* Properties *)

Listed == {u \in connected : Nick(u) # NULL}

\* A walk along links of the handles is a proper doubly linked list.
DoublyLinked(walk, prev) ==
  /\ Ends(walk)
  /\ \A i \in DOMAIN walk : prev[walk[i]] = IF i = 1 THEN NULL ELSE walk[i - 1]

\* The list through prev and next holds exactly the connected users that have a
\* nickname, whatever was added, renamed and deleted in which order: it is doubly
\* linked, ends at the tail HASH_APPEND_LIST appends to, and num_items, which
\* HASH_COUNT gives without looking, counts it.
ListWellFormed ==
  LET list == ListOf(table)
  IN  /\ DoublyLinked(list, [u \in Elements |-> table.hh[u].prev])
      /\ ToSet(list) = Listed
      /\ Count(table) = Len(list)
      /\ list # <<>> => table.tbl.tail = Last(list)

\* Every bucket's chain holds exactly the listed users that hash to it, doubly
\* linked, and its count is right, before and after the table grows: so no search
\* goes round in a circle with mutex_user_table held.
ChainsLinked ==
  \A b \in DOMAIN table.tbl.buckets :
    LET chain == Chain(table, b)
    IN  /\ DoublyLinked(chain, [u \in Elements |-> table.hh[u].hh_prev])
        /\ ToSet(chain) =
             {u \in Listed : ToBucket(table.hh[u].hashv, table.tbl.num_buckets) = b}
        /\ table.tbl.buckets[b].count = Len(chain)

\* And chains are as short as uthash promises: unless two expansions in a row did not
\* help, no bucket stays at its threshold.
ChainsWellFormed ==
  /\ ChainsLinked
  /\ \A b \in DOMAIN table.tbl.buckets : table.tbl.noexpand \/ ~Full(table, b)

\* The links implement the nickname table of NickRegistry: looking up a nickname
\* is its owner, and a call for one user neither takes a nickname from another user
\* nor gives it one.
Registry == INSTANCE NickRegistry WITH
  Users <- Elements, Nicks <- Keys, NoUser <- NULL,
  owner <- [n \in Keys |-> Find(table, n)]
RegistrySpec ==
  /\ Registry!Spec
  /\ [][\A u \in Elements : Call(u) => Registry!Serves(u)]_vars
===============================================================================
