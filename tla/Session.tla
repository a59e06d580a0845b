-------------------------------- MODULE Session --------------------------------
(***************************************************************************)
(* What a client can do to the server from accept to close, one command at *)
(* a time: the handlers of handler.c with their refusals, their replies    *)
(* and the code they return, for clients that are registered, have sent    *)
(* only NICK or only USER, or nothing at all, and for peers that have gone.*)
(*                                                                         *)
(* A step is one whole command (Server has the steps of which threads      *)
(* interleave).  The model ends where the server does: when it has crashed,*)
(* when what it does is no longer defined by C, and when it has kept a     *)
(* mutex that it will need.                                                *)
(*                                                                         *)
(* Out of scope: a second NICK of a client that has yet to send USER, which*)
(* UserTable has.                                                          *)
(***************************************************************************)
EXTENDS Integers, FiniteSets

CONSTANTS
  Clients, \* connections, in no order; one does not come back
  Nicks, Chans,
  NULL,
  MaxOper  \* bound: accepted OPER commands

ASSUME SessionAssumption ==
  /\ NULL \notin Clients \cup Nicks \cup Chans /\ \A c \in Clients : NULL # {c}
  /\ MaxOper \in Nat

VARIABLES
  conn,    \* "none", "open", "reset" (the peer has gone), "closing" (its handler or
           \* recv has failed), "closed"
  state,   \* connection_t.state
  nick, username, registered, ircop, \* user_t; of username only whether it is set
  welcomed,\* how often send_welcome was called (a ghost)
  table,   \* user_hash_table
  members, \* member tables; a channel without members is not in channel_hash_table
  opNum,   \* irc_op_num
  server,  \* "up", "locked", "crashed", "undefined"
  deserted,\* whether a client has left the server that was on a channel (a ghost)
  last     \* the last command, and whom it was relayed to, if it was (a ghost)

userVars == <<nick, username, registered, ircop, welcomed>>
tableVars == <<state, table, members, opNum>>
vars == <<conn, userVars, tableVars, server, deserted, last>>

\* A membership_t: who joined (a ghost), the nickname, the operator flag, and whether
\* nick is still the pointer to the user's own string that join_channel stores.
Member == [by : Clients, nick : Nicks, op : BOOLEAN, own : BOOLEAN]

\* A command.  args: "few" (not enough parameters), "hole" (one that counts is NULL,
\* see Message), "only_last" (the last parameter is all there is), "other" (no text to
\* send, an unknown mode), or "ok".  on: +o, and the right password.
Ops == {"NICK", "USER", "PRIVMSG", "NOTICE", "PING", "PONG", "WHOIS", "UNKNOWN", "QUIT",
        "LUSERS", "JOIN", "PART", "LIST", "OPER", "MODE"}
Args == {"few", "hole", "only_last", "other", "ok"}
Cmd(op, args, n, ch, on) == [op |-> op, args |-> args, nick |-> n, chan |-> ch, on |-> on]
Commands ==
  {Cmd(op, "ok", NULL, NULL, FALSE) :
     op \in {"USER", "PING", "PONG", "UNKNOWN", "QUIT", "LUSERS", "LIST"}}
  \cup {Cmd(op, args, NULL, NULL, FALSE) : args \in {"few", "hole"},
          op \in {"NICK", "USER", "PRIVMSG", "NOTICE", "WHOIS", "JOIN", "PART", "OPER", "MODE"}}
  \cup {Cmd(op, "other", NULL, NULL, FALSE) : op \in {"PRIVMSG", "NOTICE"}}
  \cup {Cmd(op, "ok", n, NULL, FALSE) : op \in {"NICK", "WHOIS", "PRIVMSG", "NOTICE"}, n \in Nicks}
  \cup {Cmd(op, "ok", NULL, ch, FALSE) : op \in {"JOIN", "PART", "PRIVMSG", "NOTICE"}, ch \in Chans}
  \cup {Cmd("PART", "only_last", NULL, ch, FALSE) : ch \in Chans}
  \cup {Cmd("OPER", "ok", NULL, NULL, on) : on \in BOOLEAN}
  \cup {Cmd("MODE", args, n, ch, on) :
          args \in {"ok", "other"}, n \in Nicks, ch \in Chans, on \in BOOLEAN}
-------------------------------------------------------------------------------
Init ==
  /\ conn = [c \in Clients |-> "none"]
  /\ state = [c \in Clients |-> "unknown"]
  /\ nick = [c \in Clients |-> NULL]
  /\ username = [c \in Clients |-> FALSE]
  /\ registered = [c \in Clients |-> FALSE]
  /\ ircop = [c \in Clients |-> FALSE]
  /\ welcomed = [c \in Clients |-> 0]
  /\ table = [n \in Nicks |-> NULL]
  /\ members = [ch \in Chans |-> {}]
  /\ opNum = 0
  /\ server = "up"
  /\ deserted = FALSE
  /\ last = [by |-> NULL, op |-> NULL, args |-> NULL, chan |-> NULL, to |-> NULL]

\* send_reply: sends to an open connection succeed, to another one they may fail.
SendResults(c) == IF conn[c] = "open" THEN {"SUCCESS"} ELSE {"SUCCESS", "FAILURE"}

Sent(c, m, to) ==
  last' = [by |-> c, op |-> m.op, args |-> m.args, chan |-> m.chan, to |-> to]

\* The handler returns: -1 closes the connection, and nothing else does.
Return(c, m, result, to) ==
  /\ conn' = IF result = "FAILURE" THEN [conn EXCEPT ![c] = "closing"] ELSE conn
  /\ Sent(c, m, to)
  /\ UNCHANGED <<server, deserted>>

\* It ends with a reply to its client, and returns what that send returned.
Reply(c, m, to) == \E r \in SendResults(c) : Return(c, m, r, to)
Refuse_Fails(c, m) == Return(c, m, "FAILURE", NULL) /\ UNCHANGED <<userVars, tableVars>>
Refuse(c, m) == Reply(c, m, NULL) /\ UNCHANGED <<userVars, tableVars>>
Ignore(c, m) == Return(c, m, "SUCCESS", NULL) /\ UNCHANGED <<userVars, tableVars>>

\* The end of the server.
Stop(c, m, how) ==
  /\ server' = how
  /\ Sent(c, m, NULL)
  /\ UNCHANGED <<conn, userVars, tableVars, deserted>>

\* check_registered and check_insufficient_param
CheckRegistered(c, m) == ~registered[c] /\ Refuse(c, m)
CheckParams(c, m) == registered[c] /\ m.args = "few" /\ Refuse(c, m)
Granted(c, m) == registered[c] /\ m.args # "few"

\* HASH_FIND_STR on the member table; the nickname of an entry whose user has been
\* destroyed is freed memory, which reads as before or ends what C defines.
Named(ch, n) == {e \in members[ch] : e.nick = n}
Freed(e) == e.own /\ conn[e.by] = "closed"

\* notify_all_channel_members reads every nickname and sends to whoever has it now.
Holders(S) == {table[e.nick] : e \in S} \ {NULL}
Others_SenderToo(c, ch) == members[ch]
Others(c, ch) == {e \in members[ch] : e.nick # nick[c]}

StaleKey(c, m) ==
  /\ registered[c] /\ m.op \in {"NICK", "QUIT", "JOIN", "PART", "MODE", "PRIVMSG", "NOTICE"}
  /\ \E ch \in IF m.op \in {"NICK", "QUIT"} THEN Chans ELSE {m.chan} \ {NULL} : \E e \in members[ch] :
       Freed(e) /\ e.nick \in {nick[c]} \cup (IF m.op = "MODE" THEN {m.nick} ELSE {})

\* A relay that fails has its reply freed by send_reply and by its caller.
RelayFails(S) == (\E e \in S : Freed(e)) \/ (\E u \in Holders(S) : conn[u] # "open")
-------------------------------------------------------------------------------
\* main: accept, create_user, create_connection, add_connection
Connect(c) ==
  /\ conn[c] = "none"
  /\ conn' = [conn EXCEPT ![c] = "open"]
  /\ UNCHANGED <<userVars, tableVars, server, deserted, last>>

PeerGone(c) ==
  /\ conn[c] = "open"
  /\ conn' = [conn EXCEPT ![c] = "reset"]
  /\ UNCHANGED <<userVars, tableVars, server, deserted, last>>

RecvFails(c) ==
  /\ conn[c] = "reset"
  /\ conn' = [conn EXCEPT ![c] = "closing"]
  /\ UNCHANGED <<userVars, tableVars, server, deserted, last>>

\* close and free_data (what else was in the user_t stays as a ghost); HASH_DEL of a user
\* that is in no table frees the table or, if there is none, reads through its NULL head.
Close(c) ==
  /\ conn[c] = "closing"
  /\ conn' = [conn EXCEPT ![c] = "closed"]
  /\ deserted' = (deserted \/ \E ch \in Chans : \E e \in members[ch] : e.by = c)
  /\ IF nick[c] = NULL
     THEN /\ server' = IF \A n \in Nicks : table[n] = NULL THEN "crashed" ELSE "undefined"
          /\ UNCHANGED <<nick, table>>
     ELSE /\ table' = [table EXCEPT ![nick[c]] = NULL]
          /\ nick' = [nick EXCEPT ![c] = NULL]
          /\ UNCHANGED server
  /\ UNCHANGED <<username, registered, ircop, welcomed, state, members, opNum, last>>
-------------------------------------------------------------------------------
\* can_register, or only one of NICK and USER so far: the connection is marked, and a
\* client that is now registered is welcomed.  What the sends return is ignored.
Mark_UserLater(c, complete) ==
  /\ registered' = [registered EXCEPT ![c] = complete]
  /\ state' = IF complete THEN [state EXCEPT ![c] = "registered"] ELSE state
  /\ welcomed' = IF complete THEN [welcomed EXCEPT ![c] = @ + 1] ELSE welcomed
Mark(c, complete) ==
  /\ registered' = [registered EXCEPT ![c] = complete]
  /\ state' = [state EXCEPT ![c] = IF complete THEN "registered" ELSE "user"]
  /\ welcomed' = IF complete THEN [welcomed EXCEPT ![c] = @ + 1] ELSE welcomed

\* handler_NICK before registration
AddUserNick_Unchecked(c, m) ==
  /\ ~registered[c] /\ nick[c] = NULL
  /\ table' = [table EXCEPT ![m.nick] = c]
  /\ nick' = [nick EXCEPT ![c] = m.nick]
  /\ Mark(c, username[c])
  /\ Return(c, m, "SUCCESS", NULL)
  /\ UNCHANGED <<username, ircop, members, opNum>>
AddUserNick(c, m) ==
  /\ ~registered[c] /\ nick[c] = NULL /\ table[m.nick] = NULL
  /\ table' = [table EXCEPT ![m.nick] = c]
  /\ nick' = [nick EXCEPT ![c] = m.nick]
  /\ Mark(c, username[c])
  /\ Return(c, m, "SUCCESS", NULL)
  /\ UNCHANGED <<username, ircop, members, opNum>>

\* and after: an entry of each channel that has one under the old nickname, then the
\* user table, then the relays.
Renamed_KeepsEntry(S, e, n) == S
Renamed(S, e, n) == (S \ {e}) \cup {[e EXCEPT !.nick = n, !.own = FALSE]}
UpdateUserNick(c, m) ==
  LET affected == {ch \in Chans : Named(ch, nick[c]) # {}}
      audience == UNION {members[ch] : ch \in affected}
  IN  /\ registered[c] /\ table[m.nick] = NULL
      /\ \/ RelayFails(audience) /\ Stop(c, m, "undefined")
         \/ /\ \E found \in [affected -> audience] :
                 /\ \A ch \in affected : found[ch] \in Named(ch, nick[c])
                 /\ members' = [ch \in Chans |-> IF ch \in affected
                                               THEN Renamed(members[ch], found[ch], m.nick)
                                               ELSE members[ch]]
            /\ table' = [table EXCEPT ![nick[c]] = NULL, ![m.nick] = c]
            /\ nick' = [nick EXCEPT ![c] = m.nick]
            /\ Return(c, m, "SUCCESS", Holders(audience))
            /\ UNCHANGED <<username, registered, ircop, welcomed, state, opNum>>

Nick(c, m) ==
  \/ m.args = "few" /\ Refuse(c, m)
  \/ m.args = "hole" /\ Return(c, m, "FAILURE", NULL) /\ UNCHANGED <<userVars, tableVars>>
  \/ m.args = "ok" /\ table[m.nick] # NULL /\ Refuse(c, m)
  \/ m.args = "ok" /\ (AddUserNick(c, m) \/ UpdateUserNick(c, m))

\* handler_USER; the refusal for too few parameters prints a nickname that may not be.
User(c, m) ==
  \/ registered[c] /\ Refuse(c, m)
  \/ ~registered[c] /\ m.args = "few" /\ nick[c] = NULL /\ Stop(c, m, "crashed")
  \/ ~registered[c] /\ m.args = "few" /\ nick[c] # NULL /\ Refuse(c, m)
  \/ ~registered[c] /\ m.args = "hole" /\ Stop(c, m, "crashed")
  \/ /\ ~registered[c] /\ m.args = "ok"
     /\ username' = [username EXCEPT ![c] = TRUE]
     /\ Mark(c, nick[c] # NULL)
     /\ Return(c, m, "SUCCESS", NULL)
     /\ UNCHANGED <<nick, ircop, table, members, opNum>>
-------------------------------------------------------------------------------
\* handler_PRIVMSG answers what it refuses, handler_NOTICE does not.
NotSent(c, m) == IF m.op = "PRIVMSG" THEN Refuse(c, m) ELSE Ignore(c, m)
SendToChannel(c, m, to) ==
  \/ RelayFails(to) /\ Stop(c, m, "undefined")
  \/ Return(c, m, "SUCCESS", Holders(to)) /\ UNCHANGED <<userVars, tableVars>>

Msg(c, m) ==
  /\ registered[c]
  /\ \/ m.args \in {"few", "other"} /\ NotSent(c, m)
     \/ m.args = "hole" /\ Stop(c, m, "crashed")
     \/ m.nick # NULL /\ table[m.nick] = NULL /\ NotSent(c, m)
     \/ /\ m.nick # NULL /\ table[m.nick] # NULL
        /\ \E r \in SendResults(table[m.nick]) : Return(c, m, r, {table[m.nick]})
        /\ UNCHANGED <<userVars, tableVars>>
     \/ m.chan # NULL /\ Named(m.chan, nick[c]) = {} /\ NotSent(c, m)
     \/ m.chan # NULL /\ Named(m.chan, nick[c]) # {} /\ SendToChannel(c, m, Others(c, m.chan))

\* handler_PING, LUSERS, LIST, and UNKNOWNCOMMAND; handler_PONG
Answer(c, m) == registered[c] /\ Refuse(c, m)
Pong(c, m) == registered[c] /\ Ignore(c, m)
Unknown(c, m) == IF registered[c] THEN Refuse(c, m) ELSE Ignore(c, m)

\* handler_WHOIS prints the username of whoever has the nickname.
Whois(c, m) ==
  /\ registered[c]
  /\ \/ m.args = "few" /\ Ignore(c, m)
     \/ m.args = "hole" /\ Stop(c, m, "crashed")
     \/ m.args = "ok" /\ LET u == table[m.nick]
                         IN IF u # NULL /\ ~username[u] THEN Stop(c, m, "crashed") ELSE Refuse(c, m)

\* handler_OPER, increase_op_num
IncreaseOpNum_Decreases(k) == k - 1
IncreaseOpNum(k) == k + 1
Oper(c, m) ==
  /\ Granted(c, m)
  /\ \/ m.args = "hole" /\ Stop(c, m, "crashed")
     \/ m.args = "ok" /\ ~m.on /\ Refuse(c, m)
     \/ /\ m.args = "ok" /\ m.on /\ opNum < MaxOper
        /\ ircop' = [ircop EXCEPT ![c] = TRUE]
        /\ opNum' = IncreaseOpNum(opNum)
        /\ Reply(c, m, NULL)
        /\ UNCHANGED <<nick, username, registered, welcomed, state, table, members>>
-------------------------------------------------------------------------------
\* join_channel looks for the nickname first.
AlreadyOn_NotAsked(c, ch) == FALSE
AlreadyOn(c, ch) == Named(ch, nick[c]) # {}

\* handler_JOIN; the channel is created if it is not there.
Join(c, m) ==
  LET e == [by |-> c, nick |-> nick[c], op |-> members[m.chan] = {}, own |-> TRUE]
      all == members[m.chan] \cup {e}
  IN  /\ Granted(c, m)
      /\ \/ m.args = "hole" /\ Return(c, m, "FAILURE", NULL) /\ UNCHANGED <<userVars, tableVars>>
         \/ m.args = "ok" /\ AlreadyOn(c, m.chan) /\ Ignore(c, m)
         \/ m.args = "ok" /\ ~AlreadyOn(c, m.chan) /\ RelayFails(all) /\ Stop(c, m, "undefined")
         \/ /\ m.args = "ok" /\ ~AlreadyOn(c, m.chan)
            /\ members' = [members EXCEPT ![m.chan] = all]
            /\ Reply(c, m, Holders(all))
            /\ UNCHANGED <<userVars, state, table, opNum>>

\* handler_PART; the refusal after the lookup keeps mutex_channel_table.  The part
\* message is the second parameter.
PartRefused(c, m) ==
  /\ Named(m.chan, nick[c]) = {}
  /\ server' = "locked"
  /\ Sent(c, m, NULL)
  /\ UNCHANGED <<conn, userVars, tableVars, deserted>>
NamesMessage_Always(m) == TRUE
NamesMessage(m) == m.args = "only_last"
PartLeaves(c, m) ==
  \E e \in Named(m.chan, nick[c]) :
    LET rest == members[m.chan] \ {e}
    IN  \/ NamesMessage(m) /\ Stop(c, m, "crashed")
        \/ /\ m.args = "ok"
           /\ "FAILURE" \in SendResults(c) \/ RelayFails(rest)
           /\ Stop(c, m, "undefined")
        \/ /\ m.args = "ok"
           /\ members' = [members EXCEPT ![m.chan] = rest]
           /\ Return(c, m, "SUCCESS", Holders(rest))
           /\ UNCHANGED <<userVars, state, table, opNum>>
Part(c, m) ==
  /\ Granted(c, m)
  /\ \/ m.args = "hole" /\ Stop(c, m, "crashed")
     \/ m.args # "hole" /\ members[m.chan] = {} /\ Refuse(c, m)
     \/ m.args # "hole" /\ members[m.chan] # {} /\ (PartRefused(c, m) \/ PartLeaves(c, m))

\* handler_MODE
MayChange_AnyMember(c, e) == TRUE
MayChange(c, e) == ircop[c] \/ e.op
Mode(c, m) ==
  /\ Granted(c, m)
  /\ \/ m.args = "hole" /\ Stop(c, m, "crashed")
     \/ /\ m.args # "hole"
        /\ m.args = "other" \/ Named(m.chan, m.nick) = {}
        /\ Refuse(c, m)
     \/ /\ m.args = "ok" /\ Named(m.chan, m.nick) # {}
        /\ ~ircop[c]
        /\ \/ Named(m.chan, nick[c]) = {}
           \/ \E e \in Named(m.chan, nick[c]) : ~MayChange(c, e)
        /\ Refuse(c, m)
     \/ /\ m.args = "ok"
        /\ \/ ircop[c]
           \/ \E e \in Named(m.chan, nick[c]) : MayChange(c, e)
        /\ \E e \in Named(m.chan, m.nick) :
             LET all == (members[m.chan] \ {e}) \cup {[e EXCEPT !.op = m.on]}
             IN  \/ RelayFails(all) /\ Stop(c, m, "undefined")
                 \/ /\ members' = [members EXCEPT ![m.chan] = all]
                    /\ Return(c, m, "SUCCESS", Holders(all))
                    /\ UNCHANGED <<userVars, state, table, opNum>>

\* handler_QUIT: always FAILURE, so that the connection is closed.
Quit(c, m) ==
  LET to == UNION {Others(c, ch) : ch \in {d \in Chans : Named(d, nick[c]) # {}}}
  IN  /\ registered[c]
      /\ \/ RelayFails(to) /\ Stop(c, m, "undefined")
         \/ /\ Return(c, m, "FAILURE", Holders(to))
            /\ UNCHANGED <<userVars, tableVars>>
-------------------------------------------------------------------------------
\* process_cmd
Handle(c, m) ==
  \/ m.op = "NICK" /\ Nick(c, m)
  \/ m.op = "USER" /\ User(c, m)
  \/ m.op = "UNKNOWN" /\ Unknown(c, m)
  \/ m.op \notin {"NICK", "USER", "UNKNOWN"} /\ CheckRegistered(c, m)
  \/ m.op \in {"JOIN", "PART", "OPER", "MODE"} /\ CheckParams(c, m)
  \/ m.op \in {"PRIVMSG", "NOTICE"} /\ Msg(c, m)
  \/ m.op \in {"PING", "LUSERS", "LIST"} /\ Answer(c, m)
  \/ m.op = "PONG" /\ Pong(c, m)
  \/ m.op = "WHOIS" /\ Whois(c, m)
  \/ m.op = "JOIN" /\ Join(c, m)
  \/ m.op = "PART" /\ Part(c, m)
  \/ m.op = "OPER" /\ Oper(c, m)
  \/ m.op = "MODE" /\ Mode(c, m)
  \/ m.op = "QUIT" /\ Quit(c, m)

Next ==
  /\ server = "up"
  /\ \E c \in Clients :
       \/ Connect(c) \/ PeerGone(c) \/ RecvFails(c) \/ Close(c)
       \/ conn[c] \in {"open", "reset"} /\ \E m \in Commands :
            Handle(c, m) \/ (StaleKey(c, m) /\ Stop(c, m, "undefined"))

Spec == Init /\ [][Next]_vars
-------------------------------------------------------------------------------
(* Properties *)

\* Every variable has its type; the count of operators stays within its bound.
TypeOK ==
  /\ conn \in [Clients -> {"none", "open", "reset", "closing", "closed"}]
  /\ state \in [Clients -> {"unknown", "user", "registered"}]
  /\ nick \in [Clients -> Nicks \cup {NULL}]
  /\ username \in [Clients -> BOOLEAN] /\ registered \in [Clients -> BOOLEAN]
  /\ ircop \in [Clients -> BOOLEAN] /\ welcomed \in [Clients -> Nat]
  /\ table \in [Nicks -> Clients \cup {NULL}]
  /\ members \in [Chans -> SUBSET Member]
  /\ opNum \in 0..MaxOper
  /\ server \in {"up", "locked", "crashed", "undefined"} /\ deserted \in BOOLEAN
  /\ last \in [by : Clients \cup {NULL}, op : Ops \cup {NULL}, args : Args \cup {NULL},
               chan : Chans \cup {NULL}, to : (SUBSET Clients) \cup {NULL}]

Present(c) == conn[c] \in {"open", "reset", "closing"}

\* The three counts of LUSERS are true: connection_t.state, which only NICK and USER
\* write, says how far a client has come, in whichever order it sent the two and
\* whatever was refused in between.  A client is registered when both are there, and
\* is welcomed then and never again, not by a rename or a second USER either.
StateTruthful ==
  \A c \in Clients :
    /\ welcomed[c] = IF registered[c] THEN 1 ELSE 0
    /\ Present(c) =>
         /\ registered[c] <=> nick[c] # NULL /\ username[c]
         /\ state[c] = IF registered[c] THEN "registered"
                       ELSE IF nick[c] # NULL \/ username[c] THEN "user" ELSE "unknown"

\* The nickname table does what NickRegistry promises, with clients that have a
\* nickname and are not registered, and clients that never get one.
Registry == INSTANCE NickRegistry WITH owner <- table, Users <- Clients, NoUser <- NULL
RegistrySpec == Registry!Spec

\* As long as every client that connects is registered, no peer has gone, members
\* PART before they leave, and a line has no hole and no parameter of PART that is
\* the last one (after a colon), nothing stops the server but a PART of a channel the
\* sender is not on.
Regular ==
  /\ \A c \in Clients : conn[c] # "none" => registered[c] /\ conn[c] \in {"open", "closed"}
  /\ last.args \notin {"hole", "only_last"}
  /\ ~deserted
OnlyPartLocks ==
  ~deserted /\ server = "locked" =>
    /\ last.op = "PART"
    /\ \E ch \in Chans : members[ch] # {} /\ \A e \in members[ch] : e.by # last.by
RegularSessionSafe == OnlyPartLocks /\ (Regular => server \in {"up", "locked"})

\* The server closes a connection for a cause: the client sent QUIT or a NICK or JOIN
\* with a hole, it has gone itself, or what it sent to a nickname could not be
\* delivered.  A relay that reaches nobody, a refusal, and another client's end do not.
ClosedForCause ==
  [][\A c \in Clients : conn[c] # "closing" /\ conn'[c] = "closing" =>
       \/ conn[c] = "reset"
       \/ last'.by = c /\ (last'.op = "QUIT" \/ last'.args = "hole")
       \/ /\ last'.by = c /\ last'.op \in {"PRIVMSG", "NOTICE"}
          /\ last'.to # NULL /\ \E u \in last'.to : conn[u] # "open"]_vars

\* As long as nobody has left a channel without PART, a relay goes to the members: a
\* message, QUIT and PART to all but the sender, JOIN, MODE and NICK to the sender too,
\* although members are found by nickname and their nicknames change.
Audience ==
  LET Joined(ch) == {e.by : e \in members'[ch]}
      all == UNION {Joined(ch) : ch \in IF last'.chan # NULL THEN {last'.chan}
                                        ELSE {ch \in Chans : last'.by \in Joined(ch)}}
  IN  IF last'.op \in {"JOIN", "MODE", "NICK"} THEN all ELSE all \ {last'.by}
RelaysReachMembers ==
  [][~deserted /\ last' # last /\ last'.to # NULL =>
       \/ last'.to = Audience
       \/ last'.op \in {"PRIVMSG", "NOTICE"} /\ last'.chan = NULL]_vars

\* Until somebody has left the server without PART, no channel has two entries under one
\* nickname or for one client, although update_member_nick files an entry without looking.
OneEntryEach ==
  ~deserted => \A ch \in Chans : \A e, f \in members[ch] : e.nick = f.nick \/ e.by = f.by => e = f

\* Although members are found by nickname, and nicknames change hands, the channels are
\* the sets of users of ChannelDirectory until somebody leaves the server from one: only
\* its own JOIN and PART put a client on a channel and take it off, and who becomes an
\* operator is the first on the channel, or made one by an operator of it or of the server.
MembersOf == [ch \in Chans |-> {e.by : e \in members[ch]}]
OperatorsOf == [ch \in Chans |-> {e.by : e \in {f \in members[ch] : f.op}}]
Directory == INSTANCE ChannelDirectory WITH
  Users <- Clients, members <- MembersOf, operators <- OperatorsOf,
  ircops <- {c \in Clients : ircop[c]}, intact <- ~deserted, actor <- last.by
DirectorySpec == Directory!Spec
===============================================================================
