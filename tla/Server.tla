-------------------------------- MODULE Server --------------------------------
(***************************************************************************)
(* The worker threads of the server on the context they share: one thread  *)
(* per connected client (single_service.c), running the handlers of        *)
(* handler.c over the nickname table and the channel table of context.c    *)
(* and the member tables of channel.c.                                     *)
(*                                                                         *)
(* One step is what a thread does between two points at which another      *)
(* thread can interfere.  mutex_user_table and mutex_channel_table are     *)
(* held across calls and sends and are variables (lockU, lockC); a mutex   *)
(* taken and released inside one helper makes that helper one step:        *)
(* mutex_member_table, mutex_op_num, and the two big mutexes where a       *)
(* helper takes them for a single lookup, which then waits for them to be  *)
(* free.                                                                   *)
(*                                                                         *)
(* In scope is a client that has sent USER, so that its first accepted     *)
(* NICK registers it, and that stays until it is registered.  Each element *)
(* of Users is one connection and does not come back; a nickname can.      *)
(***************************************************************************)
EXTENDS Naturals, FiniteSets

CONSTANTS
  Users,       \* connections, each with its thread, its user_t and its socket
  Nicks,       \* nicknames
  Names,       \* channel names
  Chans,       \* channel_t objects
  NoUser, NoNick, NoName, NoChan,
  Cmds,        \* the kinds of commands the clients send
  MaxCmds      \* bound: commands a client sends, its registering NICK included

Kinds == {"NICK", "JOIN", "PART", "MODE", "MSGCHAN", "MSGNICK", "WHOIS", "LIST",
          "LUSERS", "OPER", "PING", "QUIT", "DROP"}

ASSUME ServerAssumption ==
  /\ NoUser \notin Users
  /\ NoNick \notin Nicks
  /\ NoName \notin Names
  /\ NoChan \notin Chans
  /\ Cmds \subseteq Kinds
  /\ MaxCmds \in Nat

VARIABLES
  \* --- the thread of a connection: where it is, and its local variables
  pc,
  cmd,         \* message_t being processed
  chan,        \* channel_handle in use
  todo,        \* channels still to visit in a loop over channels
  affected,    \* affected_channels, as update_nick_on_channel builds it
  rcpt,        \* members still to visit of the array member_nicks_arr returned
  dest,        \* user_handle that get_user returned
  \* --- its user_t, its socket, and the client at the other end
  nick, ircop,
  sock,        \* "open", "reset": the peer has gone, "closed": close() was called
  budget,      \* commands the client may still send
  \* --- context_t
  owner,       \* user_hash_table: nickname |-> user
  chanOf,      \* channel_hash_table: name |-> channel object
  members,     \* member_table of each channel object
  opNum,       \* irc_op_num
  lockU, lockC \* owners of mutex_user_table and mutex_channel_table

localVars == <<cmd, chan, todo, affected, rcpt, dest>>
threadVars == <<pc, localVars>>
userVars == <<nick, ircop, sock, budget>>
tableVars == <<owner, chanOf, members, opNum>>
lockVars == <<lockU, lockC>>
vars == <<threadVars, userVars, tableVars, lockVars>>

\* A membership_t: who joined (a ghost field), the nickname it is filed under,
\* the operator flag, and whether its nick pointer is still the user_t's own
\* string (join_channel stores the pointer; update_member_nick makes a copy).
Member == [by : Users, nick : Nicks \cup {NoNick}, op : BOOLEAN, own : BOOLEAN]

\* A parsed command. "on" is +o / -o for MODE and the right password for OPER.
CommandSet(ops, names, nicks, ons) == [op : ops, name : names, nick : nicks, on : ons]
NoCmd == [op |-> "NONE", name |-> NoName, nick |-> NoNick, on |-> FALSE]
Commands ==
  CommandSet({"NICK", "MSGNICK", "WHOIS"}, {NoName}, Nicks, {FALSE})
  \cup CommandSet({"JOIN", "PART", "MSGCHAN"}, Names, {NoNick}, {FALSE})
  \cup CommandSet({"MODE"}, Names, Nicks, BOOLEAN)
  \cup CommandSet({"OPER"}, {NoName}, {NoNick}, BOOLEAN)
  \cup CommandSet({"LIST", "LUSERS", "PING", "QUIT"}, {NoName}, {NoNick}, {FALSE})

\* Where the handler of a command starts.
EntryPoint ==
  [NICK |-> "nick_lock", JOIN |-> "join_get", PART |-> "part_lock", MODE |-> "mode_get",
   MSGCHAN |-> "msg_get", MSGNICK |-> "user_get", WHOIS |-> "user_get", LIST |-> "list_lock",
   LUSERS |-> "lusers", OPER |-> "oper", PING |-> "reply", QUIT |-> "quit_get"]

\* Labels at which a thread is inside a critical section of update_user_nick ...
UserCritical == {"nick_chan", "nick_member", "nick_commit"}
\* ... and of update_nick_on_channel, handler_PART and handler_LIST.
ChanCritical == {"nick_member", "part_leave", "part_reply", "part_reply_last",
                 "part_unlock", "part_delete", "list_unlock"}
Labels ==
  UserCritical \cup ChanCritical \cup
  {"idle", "add_nick", "nick_lock", "lusers", "count", "reply", "oper", "user_get", "user_send", "whois",
   "notify", "each", "send", "next", "join_get", "join_add", "join_new", "part_lock",
   "list_lock", "mode_get", "mode_target", "mode_auth", "mode_set", "msg_get", "msg_auth",
   "quit_get", "close", "unlink", "free", "gone"}
-------------------------------------------------------------------------------
Init ==
  /\ pc = [t \in Users |-> "idle"]
  /\ cmd = [t \in Users |-> NoCmd]
  /\ chan = [t \in Users |-> NoChan]
  /\ todo = [t \in Users |-> {}]
  /\ affected = [t \in Users |-> {}]
  /\ rcpt = [t \in Users |-> {}]
  /\ dest = [t \in Users |-> NoUser]
  /\ nick = [t \in Users |-> NoNick]
  /\ ircop = [t \in Users |-> FALSE]
  /\ sock = [t \in Users |-> "open"]
  /\ budget = [t \in Users |-> MaxCmds]
  /\ owner = [n \in Nicks |-> NoUser]
  /\ chanOf = [m \in Names |-> NoChan]
  /\ members = [c \in Chans |-> {}]
  /\ opNum = 0
  /\ lockU = NoUser
  /\ lockC = NoUser

Goto(t, label) == pc' = [pc EXCEPT ![t] = label]

\* send_reply to user u.  It fails on a descriptor that is closed, and may fail
\* once the peer has reset the connection; a handle that was freed reads as any
\* descriptor, so that either can happen.
SendResults(u) == CASE sock[u] = "open" -> {"SUCCESS"}
                    [] sock[u] = "closed" /\ pc[u] # "gone" -> {"FAILURE"}
                    [] OTHER -> {"SUCCESS", "FAILURE"}

\* The handler returns: the thread waits for the next command or closes.
Return(t, result) ==
  /\ Goto(t, IF result = "SUCCESS" THEN "idle" ELSE "close")
  /\ cmd' = [cmd EXCEPT ![t] = NoCmd]
  /\ chan' = [chan EXCEPT ![t] = NoChan]

\* The handler ends by sending its client a reply and returns what that returns.
ReplyAndReturn(t) == \E r \in SendResults(t) : Return(t, r)

\* pthread_mutex_lock waits until the mutex is free.
Free(lock) == lock = NoUser

\* HASH_FIND_STR on the user table: is the nickname taken?
InUse(n) == owner[n] # NoUser

\* HASH_FIND_STR on the channel table, and the objects the table holds.
Tabled == {chanOf[m] : m \in Names} \ {NoChan}

\* HASH_FIND_STR on a member table: the entries filed under a nickname.
Named(c, n) == {e \in members[c] : e.nick = n}

\* An entry of a member table is replaced by another.
Replace(c, e, f) == members' = [members EXCEPT ![c] = (@ \ {e}) \cup {f}]
-------------------------------------------------------------------------------
(* The connection: receiving, and the peer going away (service_single_client) *)

\* recv returns a complete line and process_cmd dispatches it.  Before it is
\* registered the client sends only NICK.
RecvCommand(t) ==
  /\ pc[t] = "idle" /\ budget[t] > 0
  /\ \E c \in Commands :
       /\ IF nick[t] = NoNick THEN c.op = "NICK" ELSE c.op \in Cmds
       /\ cmd' = [cmd EXCEPT ![t] = c]
       /\ Goto(t, IF nick[t] = NoNick THEN "add_nick" ELSE EntryPoint[c.op])
  /\ budget' = [budget EXCEPT ![t] = @ - 1]
  /\ UNCHANGED <<chan, todo, affected, rcpt, dest, nick, ircop, sock, tableVars, lockVars>>

\* The peer closes or resets the connection.
PeerGone(t) ==
  /\ "DROP" \in Cmds /\ sock[t] = "open" /\ nick[t] # NoNick
  /\ sock' = [sock EXCEPT ![t] = "reset"]
  /\ UNCHANGED <<threadVars, nick, ircop, budget, tableVars, lockVars>>

\* recv returns 0 or -1.
RecvFails_TriesAgain(t) == pc[t] = "idle" /\ sock[t] = "reset" /\ UNCHANGED vars
RecvFails(t) ==
  /\ pc[t] = "idle" /\ sock[t] = "reset"
  /\ Goto(t, "close")
  /\ UNCHANGED <<localVars, userVars, tableVars, lockVars>>

\* close(client_fd); free_data then takes the user out of the table and frees it.
Close(t) ==
  /\ pc[t] = "close"
  /\ sock' = [sock EXCEPT ![t] = "closed"]
  /\ Goto(t, "unlink")
  /\ UNCHANGED <<localVars, nick, ircop, budget, tableVars, lockVars>>

\* delete_user: HASH_DEL of the thread's own user_t.
DeleteUser(t) ==
  /\ pc[t] = "unlink" /\ Free(lockU)
  /\ owner' = [owner EXCEPT ![nick[t]] = NoUser]
  /\ Goto(t, "free")
  /\ UNCHANGED <<localVars, userVars, chanOf, members, opNum, lockVars>>

\* destroy_user frees the nick string, which the member entries made by the last
\* JOINs still point to: they read as before or as garbage from now on.
Garbled(S, t) == {IF e.by = t /\ e.own THEN [e EXCEPT !.nick = NoNick] ELSE e : e \in S}
DestroyUser(t) ==
  /\ pc[t] = "free"
  /\ \/ UNCHANGED <<members, rcpt>>
     \/ /\ members' = [c \in Chans |-> Garbled(members[c], t)]
        /\ rcpt' = [u \in Users |-> Garbled(rcpt[u], t)]
  /\ nick' = [nick EXCEPT ![t] = NoNick]
  /\ Goto(t, "gone")
  /\ UNCHANGED <<cmd, chan, todo, affected, dest, ircop, sock, budget, owner, chanOf, opNum, lockVars>>
-------------------------------------------------------------------------------
(* Commands that touch no channel *)

\* add_user_nick, the first NICK of a client: on success it is registered and
\* welcomed, and handler_LUSERS follows.
AddUserNick_Unchecked(t) ==
  LET n == cmd[t].nick
  IN  /\ pc[t] = "add_nick" /\ Free(lockU)
      /\ owner' = [owner EXCEPT ![n] = t]
      /\ nick' = [nick EXCEPT ![t] = n]
      /\ Goto(t, "lusers")
      /\ UNCHANGED <<localVars, ircop, sock, budget, chanOf, members, opNum, lockVars>>
AddUserNick(t) ==
  LET n == cmd[t].nick
  IN  /\ pc[t] = "add_nick" /\ Free(lockU)
      /\ \/ /\ InUse(n)
            /\ ReplyAndReturn(t)
            /\ UNCHANGED <<owner, nick>>
         \/ /\ ~InUse(n)
            /\ owner' = [owner EXCEPT ![n] = t]
            /\ nick' = [nick EXCEPT ![t] = n]
            /\ Goto(t, "lusers")
            /\ UNCHANGED <<cmd, chan>>
      /\ UNCHANGED <<todo, affected, rcpt, dest, ircop, sock, budget, chanOf, members, opNum, lockVars>>

\* handler_NICK ignores how LUSERS ended.
ReturnFromLusers(t, result) == Return(t, IF cmd[t].op = "NICK" THEN "SUCCESS" ELSE result)

\* handler_LUSERS sends three replies and ends at the first that fails ...
SendCounts(t) ==
  /\ pc[t] = "lusers"
  /\ \/ /\ "SUCCESS" \in SendResults(t)
        /\ Goto(t, "count")
        /\ UNCHANGED <<cmd, chan>>
     \/ /\ "FAILURE" \in SendResults(t)
        /\ ReturnFromLusers(t, "FAILURE")
  /\ UNCHANGED <<todo, affected, rcpt, dest, userVars, tableVars, lockVars>>

\* ... then waits for get_channel_count and sends two more.  handler_LIST of one
\* channel waits in the same way for get_channel.
CountChannels(t) ==
  /\ pc[t] = "count" /\ Free(lockC)
  /\ \E r \in SendResults(t) : ReturnFromLusers(t, r)
  /\ UNCHANGED <<todo, affected, rcpt, dest, userVars, tableVars, lockVars>>

\* handler_PING, handler_UNKNOWNCOMMAND and every command refused for its
\* parameters: one reply.
Reply(t) ==
  /\ pc[t] = "reply"
  /\ ReplyAndReturn(t)
  /\ UNCHANGED <<todo, affected, rcpt, dest, userVars, tableVars, lockVars>>

\* increase_op_num
IncreaseOpNum_Decreases(k) == k - 1
IncreaseOpNum(k) == k + 1

Oper(t) ==
  /\ pc[t] = "oper"
  /\ IF cmd[t].on
     THEN /\ ircop' = [ircop EXCEPT ![t] = TRUE]
          /\ opNum' = IncreaseOpNum(opNum)
     ELSE UNCHANGED <<ircop, opNum>>
  /\ ReplyAndReturn(t)
  /\ UNCHANGED <<todo, affected, rcpt, dest, nick, sock, budget, owner, chanOf, members, lockVars>>

\* PRIVMSG or NOTICE to a nickname, and WHOIS: get_user returns a handle that
\* the thread keeps after the lock is released.
GetUser(t) ==
  /\ pc[t] = "user_get" /\ Free(lockU)
  /\ \/ /\ ~InUse(cmd[t].nick)
        /\ ReplyAndReturn(t)
        /\ UNCHANGED dest
     \/ /\ InUse(cmd[t].nick)
        /\ dest' = [dest EXCEPT ![t] = owner[cmd[t].nick]]
        /\ Goto(t, IF cmd[t].op = "WHOIS" THEN "whois" ELSE "user_send")
        /\ UNCHANGED <<cmd, chan>>
  /\ UNCHANGED <<todo, affected, rcpt, userVars, tableVars, lockVars>>

\* The message goes to the handle, and the handler returns what that send returns.
SendToUser(t) ==
  /\ pc[t] = "user_send"
  /\ \E r \in SendResults(dest[t]) : Return(t, r)
  /\ dest' = [dest EXCEPT ![t] = NoUser]
  /\ UNCHANGED <<todo, affected, rcpt, userVars, tableVars, lockVars>>

\* handler_WHOIS formats the fields of the handle and answers its own client.
Whois(t) ==
  /\ pc[t] = "whois"
  /\ ReplyAndReturn(t)
  /\ dest' = [dest EXCEPT ![t] = NoUser]
  /\ UNCHANGED <<todo, affected, rcpt, userVars, tableVars, lockVars>>
-------------------------------------------------------------------------------
(* notify_all_channel_members, called by NICK, QUIT, JOIN, PART, MODE, PRIVMSG *)

\* member_nicks_arr: the members at this moment, less the sender where the
\* caller excludes it.
Snapshot(t) ==
  /\ pc[t] = "notify"
  /\ rcpt' = [rcpt EXCEPT ![t] =
                {e \in members[chan[t]] : cmd[t].op \in {"QUIT", "MSGCHAN"} => e.nick # nick[t]}]
  /\ Goto(t, "each")
  /\ UNCHANGED <<cmd, chan, todo, affected, dest, userVars, tableVars, lockVars>>

\* get_user for the next nickname of the array; a nickname nobody has is skipped.
LookupMember(t) ==
  /\ pc[t] = "each" /\ Free(lockU)
  /\ \E e \in rcpt[t] :
       /\ rcpt' = [rcpt EXCEPT ![t] = @ \ {e}]
       /\ IF e.nick \in Nicks /\ InUse(e.nick)
          THEN /\ dest' = [dest EXCEPT ![t] = owner[e.nick]]
               /\ Goto(t, "send")
          ELSE UNCHANGED <<pc, dest>>
  /\ UNCHANGED <<cmd, chan, todo, affected, userVars, tableVars, lockVars>>

\* send_reply to the member; the first failure ends the loop.
SendToMember(t) ==
  /\ pc[t] = "send"
  /\ \E r \in SendResults(dest[t]) :
       rcpt' = IF r = "SUCCESS" THEN rcpt ELSE [rcpt EXCEPT ![t] = {}]
  /\ dest' = [dest EXCEPT ![t] = NoUser]
  /\ Goto(t, "each")
  /\ UNCHANGED <<cmd, chan, todo, affected, userVars, tableVars, lockVars>>

\* The loop is over and the calling handler goes on: JOIN sends the NAMES reply,
\* PRIVMSG and MODE return, PART unlocks, NICK and QUIT turn to the next channel.
EndNotify(t) ==
  /\ pc[t] = "each" /\ rcpt[t] = {}
  /\ CASE cmd[t].op = "JOIN" -> ReplyAndReturn(t)
       [] cmd[t].op \in {"MSGCHAN", "MODE"} -> Return(t, "SUCCESS")
       [] cmd[t].op = "PART" -> Goto(t, "part_unlock") /\ UNCHANGED <<cmd, chan>>
       [] OTHER -> Goto(t, "next") /\ UNCHANGED <<cmd, chan>>
  /\ UNCHANGED <<todo, affected, rcpt, dest, userVars, tableVars, lockVars>>

\* The loop of handler_NICK and handler_QUIT over the channels they collected.
NextChannel(t) ==
  /\ pc[t] = "next"
  /\ \/ \E c \in todo[t] :
          /\ todo' = [todo EXCEPT ![t] = @ \ {c}]
          /\ chan' = [chan EXCEPT ![t] = c]
          /\ Goto(t, "notify")
          /\ UNCHANGED cmd
     \/ /\ todo[t] = {}
        /\ Return(t, IF cmd[t].op = "QUIT" THEN "FAILURE" ELSE "SUCCESS")
        /\ UNCHANGED todo
  /\ UNCHANGED <<affected, rcpt, dest, userVars, tableVars, lockVars>>
-------------------------------------------------------------------------------
(* NICK of a registered client: update_user_nick, update_nick_on_channel *)

\* The user table is locked and stays locked while the channels are updated.
NickLock_LeaksWhenInUse(t) ==
  /\ pc[t] = "nick_lock" /\ Free(lockU)
  /\ lockU' = t
  /\ \/ InUse(cmd[t].nick) /\ ReplyAndReturn(t)
     \/ ~InUse(cmd[t].nick) /\ Goto(t, "nick_chan") /\ UNCHANGED <<cmd, chan>>
  /\ UNCHANGED <<todo, affected, rcpt, dest, userVars, tableVars, lockC>>
NickLock(t) ==
  /\ pc[t] = "nick_lock" /\ Free(lockU)
  /\ \/ /\ InUse(cmd[t].nick)
        /\ ReplyAndReturn(t)
        /\ UNCHANGED lockU
     \/ /\ ~InUse(cmd[t].nick)
        /\ lockU' = t
        /\ Goto(t, "nick_chan")
        /\ UNCHANGED <<cmd, chan>>
  /\ UNCHANGED <<todo, affected, rcpt, dest, userVars, tableVars, lockC>>

NickLockChannels(t) ==
  /\ pc[t] = "nick_chan" /\ Free(lockC)
  /\ lockC' = t
  /\ todo' = [todo EXCEPT ![t] = Tabled]
  /\ Goto(t, "nick_member")
  /\ UNCHANGED <<cmd, chan, affected, rcpt, dest, userVars, tableVars, lockU>>

\* update_member_nick on one channel: the entry under the old nickname, if there
\* is one, is filed under a copy of the new one.
UpdateMemberNick_Skipped(t, c) == UNCHANGED <<members, affected>>
UpdateMemberNick(t, c) ==
  \/ /\ Named(c, nick[t]) = {}
     /\ UNCHANGED <<members, affected>>
  \/ \E e \in Named(c, nick[t]) :
       /\ Replace(c, e, [e EXCEPT !.nick = cmd[t].nick, !.own = FALSE])
       /\ affected' = [affected EXCEPT ![t] = @ \cup {c}]

NickOnChannel(t) ==
  /\ pc[t] = "nick_member"
  /\ \E c \in todo[t] :
       /\ UpdateMemberNick(t, c)
       /\ todo' = [todo EXCEPT ![t] = @ \ {c}]
  /\ UNCHANGED <<pc, cmd, chan, rcpt, dest, userVars, owner, chanOf, opNum, lockVars>>

NickUnlockChannels(t) ==
  /\ pc[t] = "nick_member" /\ todo[t] = {}
  /\ lockC' = NoUser
  /\ todo' = [todo EXCEPT ![t] = affected[t]]
  /\ affected' = [affected EXCEPT ![t] = {}]
  /\ Goto(t, "nick_commit")
  /\ UNCHANGED <<cmd, chan, rcpt, dest, userVars, tableVars, lockU>>

\* HASH_DEL under the old nickname, HASH_ADD under the new one, unlock.
NickCommit_KeepsOld(t) ==
  /\ pc[t] = "nick_commit"
  /\ owner' = [owner EXCEPT ![cmd[t].nick] = t]
  /\ nick' = [nick EXCEPT ![t] = cmd[t].nick]
  /\ lockU' = NoUser
  /\ Goto(t, "next")
  /\ UNCHANGED <<localVars, ircop, sock, budget, chanOf, members, opNum, lockC>>
NickCommit(t) ==
  /\ pc[t] = "nick_commit"
  /\ owner' = [owner EXCEPT ![nick[t]] = NoUser, ![cmd[t].nick] = t]
  /\ nick' = [nick EXCEPT ![t] = cmd[t].nick]
  /\ lockU' = NoUser
  /\ Goto(t, "next")
  /\ UNCHANGED <<localVars, ircop, sock, budget, chanOf, members, opNum, lockC>>
-------------------------------------------------------------------------------
(* JOIN *)

\* A channel_t that nothing refers to: where create_channel can put a new one.
Fresh == {c \in Chans : c \notin Tabled /\ \A t \in Users : c # chan[t] /\ c \notin todo[t]}

\* is_creator, which try_get_channel hands to join_channel.
AfterGet_AlwaysCreator(found) == "join_new"
AfterGet(found) == IF found THEN "join_add" ELSE "join_new"

\* try_get_channel: the channel of that name, or a new one put in the table.
TryGetChannel(t) ==
  LET name == cmd[t].name
  IN  /\ pc[t] = "join_get" /\ Free(lockC)
      /\ \/ /\ chanOf[name] # NoChan
            /\ chan' = [chan EXCEPT ![t] = chanOf[name]]
            /\ UNCHANGED <<chanOf, members>>
         \/ /\ chanOf[name] = NoChan
            /\ \E c \in Fresh :
                 /\ chanOf' = [chanOf EXCEPT ![name] = c]
                 /\ members' = [members EXCEPT ![c] = {}]
                 /\ chan' = [chan EXCEPT ![t] = c]
      /\ Goto(t, AfterGet(chanOf[name] # NoChan))
      /\ UNCHANGED <<cmd, todo, affected, rcpt, dest, userVars, owner, opNum, lockVars>>

\* join_channel, without mutex_channel_table: the handle may be out of date.
\* Somebody already filed under the nickname makes it a silent success.
JoinChannel(t) ==
  /\ pc[t] \in {"join_add", "join_new"}
  /\ \/ /\ Named(chan[t], nick[t]) # {}
        /\ Return(t, "SUCCESS")
        /\ UNCHANGED members
     \/ /\ Named(chan[t], nick[t]) = {}
        /\ members' = [members EXCEPT ![chan[t]] = @ \cup
                         {[by |-> t, nick |-> nick[t], op |-> (pc[t] = "join_new"), own |-> TRUE]}]
        /\ Goto(t, "notify")
        /\ UNCHANGED <<cmd, chan>>
  /\ UNCHANGED <<todo, affected, rcpt, dest, userVars, owner, chanOf, opNum, lockVars>>
-------------------------------------------------------------------------------
(* PART *)

PartLock(t) ==
  LET c == chanOf[cmd[t].name]
  IN  /\ pc[t] = "part_lock" /\ Free(lockC)
      /\ \/ /\ c = NoChan
            /\ ReplyAndReturn(t)
            /\ UNCHANGED lockC
         \/ /\ c # NoChan
            /\ lockC' = t
            /\ chan' = [chan EXCEPT ![t] = c]
            /\ Goto(t, "part_leave")
            /\ UNCHANGED cmd
      /\ UNCHANGED <<todo, affected, rcpt, dest, userVars, tableVars, lockU>>

\* leave_channel returns 0 with members left, 2 with none left.
AfterLeave_AlwaysZero(rest) == "part_reply"
AfterLeave_AlwaysTwo(rest) == "part_reply_last"
AfterLeave(rest) == IF rest = {} THEN "part_reply_last" ELSE "part_reply"

\* A client that is not on the channel is told so, and handler_PART returns with
\* mutex_channel_table still locked.
LeaveChannel(t) ==
  LET c == chan[t]
  IN  /\ pc[t] = "part_leave"
      /\ \/ /\ Named(c, nick[t]) = {}
            /\ ReplyAndReturn(t)
            /\ UNCHANGED members
         \/ \E e \in Named(c, nick[t]) :
              /\ members' = [members EXCEPT ![c] = @ \ {e}]
              /\ Goto(t, AfterLeave(members[c] \ {e}))
              /\ UNCHANGED <<cmd, chan>>
      /\ UNCHANGED <<todo, affected, rcpt, dest, userVars, owner, chanOf, opNum, lockVars>>

\* The leaver is told first; when that fails the handler returns FAILURE, again
\* with the mutex locked.
PartReply(t) ==
  /\ pc[t] \in {"part_reply", "part_reply_last"}
  /\ \/ /\ "SUCCESS" \in SendResults(t)
        /\ Goto(t, IF pc[t] = "part_reply" THEN "notify" ELSE "part_delete")
        /\ UNCHANGED <<cmd, chan>>
     \/ /\ "FAILURE" \in SendResults(t)
        /\ Return(t, "FAILURE")
  /\ UNCHANGED <<todo, affected, rcpt, dest, userVars, tableVars, lockVars>>

\* An empty channel is taken out of the table; the mutex is released.
PartUnlock(t) ==
  /\ pc[t] \in {"part_unlock", "part_delete"}
  /\ chanOf' = IF pc[t] = "part_delete" THEN [chanOf EXCEPT ![cmd[t].name] = NoChan] ELSE chanOf
  /\ lockC' = NoUser
  /\ Return(t, "SUCCESS")
  /\ UNCHANGED <<todo, affected, rcpt, dest, userVars, owner, members, opNum, lockU>>
-------------------------------------------------------------------------------
(* LIST of all channels, MODE, PRIVMSG and NOTICE to a channel, QUIT *)

ListLock(t) ==
  /\ pc[t] = "list_lock" /\ Free(lockC)
  /\ lockC' = t
  /\ Goto(t, "list_unlock")
  /\ UNCHANGED <<localVars, userVars, tableVars, lockU>>

\* One reply per channel, all sent with the mutex held, which is released whether
\* or not one of them fails.
ListUnlock_LeaksOnFailure(t) ==
  /\ pc[t] = "list_unlock"
  /\ \E r \in SendResults(t) :
       Return(t, r) /\ lockC' = IF r = "SUCCESS" THEN NoUser ELSE lockC
  /\ UNCHANGED <<todo, affected, rcpt, dest, userVars, tableVars, lockU>>
ListUnlock(t) ==
  /\ pc[t] = "list_unlock"
  /\ lockC' = NoUser
  /\ ReplyAndReturn(t)
  /\ UNCHANGED <<todo, affected, rcpt, dest, userVars, tableVars, lockU>>

\* get_channel of MODE, PRIVMSG and NOTICE: the handle outlives the lock.
GetChannel(t) ==
  LET c == chanOf[cmd[t].name]
  IN  /\ pc[t] \in {"mode_get", "msg_get"} /\ Free(lockC)
      /\ \/ /\ c = NoChan
            /\ ReplyAndReturn(t)
         \/ /\ c # NoChan
            /\ chan' = [chan EXCEPT ![t] = c]
            /\ Goto(t, IF pc[t] = "mode_get" THEN "mode_target" ELSE "msg_auth")
            /\ UNCHANGED cmd
      /\ UNCHANGED <<todo, affected, rcpt, dest, userVars, tableVars, lockVars>>

\* already_on_channel for the target of MODE, and for the sender of a message.
CheckOnChannel(t) ==
  LET who == IF pc[t] = "mode_target" THEN cmd[t].nick ELSE nick[t]
  IN  /\ pc[t] \in {"mode_target", "msg_auth"}
      /\ \/ /\ Named(chan[t], who) = {}
            /\ ReplyAndReturn(t)
         \/ /\ Named(chan[t], who) # {}
            /\ Goto(t, IF pc[t] = "mode_target" THEN "mode_auth" ELSE "notify")
            /\ UNCHANGED <<cmd, chan>>
      /\ UNCHANGED <<todo, affected, rcpt, dest, userVars, tableVars, lockVars>>

\* is_irc_operator || is_channel_operator
ModeAuthorise(t) ==
  LET found == Named(chan[t], nick[t])
  IN  /\ pc[t] = "mode_auth"
      /\ \/ /\ ircop[t] \/ \E e \in found : e.op
            /\ Goto(t, "mode_set")
            /\ UNCHANGED <<cmd, chan>>
         \/ /\ ~ircop[t] /\ (found = {} \/ \E e \in found : ~e.op)
            /\ ReplyAndReturn(t)
      /\ UNCHANGED <<todo, affected, rcpt, dest, userVars, tableVars, lockVars>>

\* update_member_mode; a target that has left since is ignored, and the change is
\* announced all the same.
UpdateMemberMode(t) ==
  LET found == Named(chan[t], cmd[t].nick)
  IN  /\ pc[t] = "mode_set"
      /\ \/ found = {} /\ UNCHANGED members
         \/ \E e \in found : Replace(chan[t], e, [e EXCEPT !.op = cmd[t].on])
      /\ Goto(t, "notify")
      /\ UNCHANGED <<localVars, userVars, owner, chanOf, opNum, lockVars>>

\* get_channels_user_on
QuitChannels(t) ==
  /\ pc[t] = "quit_get" /\ Free(lockC)
  /\ todo' = [todo EXCEPT ![t] = {c \in Tabled : Named(c, nick[t]) # {}}]
  /\ Goto(t, "next")
  /\ UNCHANGED <<cmd, chan, affected, rcpt, dest, userVars, tableVars, lockVars>>
-------------------------------------------------------------------------------
\* What a worker thread does by itself.
Step(t) ==
  \/ RecvFails(t) \/ Close(t) \/ DeleteUser(t) \/ DestroyUser(t)
  \/ AddUserNick(t) \/ SendCounts(t) \/ CountChannels(t) \/ Reply(t) \/ Oper(t)
  \/ GetUser(t) \/ SendToUser(t) \/ Whois(t)
  \/ Snapshot(t) \/ LookupMember(t) \/ SendToMember(t) \/ EndNotify(t) \/ NextChannel(t)
  \/ NickLock(t) \/ NickLockChannels(t) \/ NickOnChannel(t)
  \/ NickUnlockChannels(t) \/ NickCommit(t)
  \/ TryGetChannel(t) \/ JoinChannel(t)
  \/ PartLock(t) \/ LeaveChannel(t) \/ PartReply(t) \/ PartUnlock(t)
  \/ ListLock(t) \/ ListUnlock(t)
  \/ GetChannel(t) \/ CheckOnChannel(t) \/ ModeAuthorise(t) \/ UpdateMemberMode(t)
  \/ QuitChannels(t)

Next == \E t \in Users : RecvCommand(t) \/ PeerGone(t) \/ Step(t)

Spec == Init /\ [][Next]_vars

\* Every thread keeps running; clients need not send anything or leave.
FairSpec == Spec /\ \A t \in Users : WF_vars(Step(t))
-------------------------------------------------------------------------------
(* Properties *)

\* Every variable stays in its type: in particular a thread is always at a label
\* from which it can go on, and a table never leads to anything but a user or a
\* channel object.
TypeOK ==
  /\ pc \in [Users -> Labels]
  /\ cmd \in [Users -> Commands \cup {NoCmd}]
  /\ chan \in [Users -> Chans \cup {NoChan}]
  /\ todo \in [Users -> SUBSET Chans]
  /\ affected \in [Users -> SUBSET Chans]
  /\ rcpt \in [Users -> SUBSET Member]
  /\ dest \in [Users -> Users \cup {NoUser}]
  /\ nick \in [Users -> Nicks \cup {NoNick}]
  /\ ircop \in [Users -> BOOLEAN]
  /\ sock \in [Users -> {"open", "reset", "closed"}]
  /\ budget \in [Users -> 0..MaxCmds]
  /\ owner \in [Nicks -> Users \cup {NoUser}]
  /\ chanOf \in [Names -> Chans \cup {NoChan}]
  /\ members \in [Chans -> SUBSET Member]
  /\ opNum \in Nat
  /\ lockU \in Users \cup {NoUser}
  /\ lockC \in Users \cup {NoUser}

\* Mutual exclusion: a thread between lock and unlock of update_user_nick owns
\* mutex_user_table, and nobody else ever does; a thread inside a section of
\* mutex_channel_table, nested in the other or not, owns that one.  (The converse
\* fails for mutex_channel_table: PART can return with it locked.)
LockDiscipline ==
  \A t \in Users : /\ pc[t] \in UserCritical <=> lockU = t
                   /\ pc[t] \in ChanCritical => lockC = t
                   /\ pc[t] = "notify" /\ cmd[t].op = "PART" => lockC = t
                   /\ pc[t] \in {"each", "send"} /\ cmd[t].op = "PART" => lockC = t

\* user_hash_table and the nick fields agree: a nickname leads to the user that
\* carries it, and a user that carries one is found under it until delete_user.
NicksConsistent ==
  /\ \A n \in Nicks : owner[n] # NoUser => nick[owner[n]] = n
  /\ \A t \in Users : nick[t] # NoNick /\ pc[t] # "free" => owner[nick[t]] = t

\* The nickname table does what NickRegistry promises: a nickname passes to
\* another user only after its holder gave it up or left, and a thread takes,
\* changes and gives up nobody's nickname but its own client's.
Registry == INSTANCE NickRegistry
RegistrySpec ==
  /\ Registry!Spec
  /\ [][\A t \in Users : Step(t) => Registry!Serves(t)]_vars

\* A channel of the table has a member, unless its creator has yet to join it or
\* the last member is about to delete it (try_get_channel, handler_PART).
InhabitedChannels ==
  \A c \in Tabled : members[c] = {} =>
    \E t \in Users : /\ chan[t] = c
                     /\ pc[t] \in {"join_new", "part_reply_last", "part_delete"}

\* While nobody leaves the server, a member entry of a listed channel carries the
\* nickname of the user that joined, or the one it is changing to, and a user has
\* one entry: update_member_nick and user_t.nick do not drift apart.
MembersFaithful ==
  \A c \in Tabled :
    /\ \A e \in members[c] :
         \/ e.nick = nick[e.by]
         \/ pc[e.by] \in {"nick_member", "nick_commit"} /\ e.nick = cmd[e.by].nick
    /\ \A e, f \in members[c] : e.by = f.by => e = f

\* The users whose JOIN the channel of that name shows, as LIST, NAMES, MODE and a
\* new JOIN find it: those on an object that is out of the table are on none.
On(m) == IF chanOf[m] = NoChan THEN {} ELSE {e.by : e \in members[chanOf[m]]}

\* The PART of thread t that emptied object c has yet to delete it.
Deleting(t, c) == chan[t] = c /\ pc[t] \in {"part_reply_last", "part_delete"}

\* While nobody leaves the server, there are two ways out of the channel of a name:
\* a client's own PART, although leave_channel finds its entry by nickname alone;
\* and somebody else's PART that found the channel empty and deletes it.  So the
\* latter costs nobody its place but a client whose JOIN had the handle already
\* and that came in between leave_channel and HASH_DEL.
MembershipByOwnCommand ==
  [][/\ \A m \in Names : \A u \in On(m) \ On(m)' :
          \/ pc[u] = "part_leave" /\ cmd[u].name = m /\ pc'[u] # "part_leave"
          \/ \E t \in Users \ {u} : /\ Deleting(t, chanOf[m]) /\ pc[t] = "part_delete"
                                     /\ cmd[t].name = m /\ chanOf'[m] = NoChan
     /\ \A t \in Users, c \in Chans :
          Deleting(t, c)' /\ ~Deleting(t, c) => members[c] # {} /\ members'[c] = {}]_vars

\* Only the client whose JOIN makes a channel becomes its operator, whoever is the
\* first to join it: without MODE a channel never has two.
OneCreator ==
  \A c \in Chans : \A e, f \in members[c] : e.op /\ f.op => e = f

\* Every command a thread has started on ends: the thread is back at recv, or the
\* connection is over.
CommandsComplete ==
  \A t \in Users : pc[t] \notin {"idle", "gone"} ~> pc[t] \in {"idle", "gone"}

\* A connection that the peer resets is cleaned up, whatever it was doing.
DisconnectsReclaimed ==
  \A t \in Users : sock[t] = "reset" ~> pc[t] = "gone"
-------------------------------------------------------------------------------
(* What the repository's tests expect and the code does not do *)

\* No two threads wait for each other's mutex: NICK takes mutex_user_table and
\* then mutex_channel_table, PART the other way round.
NoWaitCycle ==
  \A t, u \in Users : ~ /\ lockU = t /\ pc[t] = "nick_chan"
                        /\ lockC = u /\ pc[u] = "each" /\ rcpt[u] # {}
===============================================================================
