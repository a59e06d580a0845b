--------------------------- MODULE ServerStayProofs ---------------------------
(***************************************************************************)
(* Theorems about the channel table and the member tables of Server while  *)
(* every client stays: no client sends QUIT and no peer goes away.  (With  *)
(* either, a member entry outlives its user, and a PART whose reply fails  *)
(* leaves an empty channel behind.)                                        *)
(***************************************************************************)
EXTENDS ServerProofs

Stay == Cmds \cap {"QUIT", "DROP"} = {}

\* Every connection is open, so that no send fails and no thread is on its way
\* out; a message goes to a user that was looked up.
Staying ==
  \A t \in Users :
    /\ sock[t] = "open"
    /\ pc[t] \notin {"close", "unlink", "free", "gone"}
    /\ pc[t] \in {"user_send", "send"} => dest[t] \in Users
    /\ cmd[t].op \in Cmds \cup {"NICK", "NONE"}

\* A channel object is in the table under one name.
OneName == \A m1, m2 \in Names : chanOf[m1] = chanOf[m2] /\ chanOf[m1] # NoChan => m1 = m2

\* PART works on the channel that its argument names.
PartHandle ==
  \A t \in Users :
    pc[t] \in {"part_leave", "part_reply_last", "part_delete"} => chan[t] = chanOf[cmd[t].name]

\* The nickname under which the entry of user t on channel c is filed: its own,
\* or the one it is changing to once update_nick_on_channel has been there.
Renamed(t, c) == pc[t] = "nick_commit" \/ (pc[t] = "nick_member" /\ c \notin todo[t])
FiledUnder(t, c) == IF Renamed(t, c) THEN cmd[t].nick ELSE nick[t]
FiledAt(c) ==
  /\ \A e \in members[c] : e.nick \in Nicks /\ e.nick = FiledUnder(e.by, c)
  /\ \A e, f \in members[c] : e.by = f.by => e = f
Filed == \A c \in Tabled : FiledAt(c)

StayInv == Staying /\ OneName /\ PartHandle /\ Filed /\ InhabitedChannels

\* is_creator: the thread that made a channel is the only one to have it as its
\* creator, and nobody is its operator before that thread joins.
Creator ==
  /\ \A t \in Users : pc[t] = "join_new" => \A e \in members[chan[t]] : ~e.op
  /\ \A t, u \in Users : pc[t] = "join_new" /\ pc[u] = "join_new" /\ chan[t] = chan[u] => t = u
  /\ OneCreator
-------------------------------------------------------------------------------
(* Which steps are left when nobody leaves *)

\* A thread receives nothing but commands that keep it, so none leaves.
LEMMA NobodyLeaves ==
  ASSUME Stay, IInv, Staying, NEW t \in Users
  PROVE  ~(PeerGone(t) \/ RecvFails(t) \/ Close(t) \/ DeleteUser(t) \/ DestroyUser(t)
           \/ QuitChannels(t))
<1>1. pc[t] # "quit_get"
  BY DEF Stay, Staying, IInv, TypeInv, LocalOK, Fits
<1> QED
  BY <1>1 DEF Stay, Staying, PeerGone, RecvFails, Close, DeleteUser, DestroyUser, QuitChannels

\* The other threads stay where they are.
Others(t) ==
  \A u \in Users \ {t} : pc'[u] = pc[u] /\ cmd'[u] = cmd[u] /\ chan'[u] = chan[u]

LEMMA ReturnOthers ==
  ASSUME LocalOK, NEW t \in Users, NEW r, Return(t, r)
  PROVE  Others(t) /\ cmd'[t] = NoCmd
  BY DEF Return, Goto, LocalOK, Others

LEMMA GotoOthers ==
  ASSUME LocalOK, NEW t \in Users, NEW l, Goto(t, l), UNCHANGED <<cmd, chan>>
  PROVE  Others(t) /\ pc'[t] = l /\ cmd'[t] = cmd[t] /\ chan'[t] = chan[t]
  BY DEF Goto, LocalOK, Others

LEMMA TakeOthers ==
  ASSUME LocalOK, NEW t \in Users, NEW l, NEW c, Goto(t, l), UNCHANGED cmd,
         chan' = [chan EXCEPT ![t] = c]
  PROVE  Others(t) /\ pc'[t] = l /\ cmd'[t] = cmd[t] /\ chan'[t] = c
  BY DEF Goto, LocalOK, Others

\* On an open connection a handler that ends with a reply goes back to recv.
LEMMA ReplyOthers ==
  ASSUME LocalOK, NEW t \in Users, ReplyAndReturn(t)
  PROVE  /\ Others(t) /\ cmd'[t] = NoCmd /\ pc'[t] \in {"idle", "close"}
         /\ sock[t] = "open" => pc'[t] = "idle"
  BY ReturnOthers, ReplyFacts DEF ReplyAndReturn

\* What every step of thread t leaves of Staying: it works on open connections,
\* and what it receives does not make it leave.
Keeps(t) ==
  /\ Others(t) /\ UNCHANGED sock
  /\ pc'[t] \notin {"close", "unlink", "free", "gone"}
  /\ \A u \in Users \ {t} : dest'[u] = dest[u] /\ todo'[u] = todo[u]
  /\ pc'[t] \in {"user_send", "send"} => dest'[t] \in Users
  /\ cmd'[t].op \in Cmds \cup {"NICK", "NONE"}

LEMMA KeepsStaying ==
  ASSUME Staying, NEW t \in Users, Keeps(t)
  PROVE  Staying'
  BY DEF Staying, Keeps, Others

\* A quiet step changes neither the channel table nor a member entry nor a
\* nickname, and is not one that the other parts of StayInv speak of.
Marked == {"nick_member", "nick_commit", "join_new", "part_leave", "part_reply_last", "part_delete"}
Quiet(t) ==
  /\ UNCHANGED <<nick, chanOf, members>>
  /\ pc[t] \notin Marked /\ pc'[t] \notin Marked

LEMMA QuietSteps ==
  ASSUME Stay, IInv, Staying, NEW t \in Users,
         RecvCommand(t) \/ SendCounts(t) \/ CountChannels(t) \/ Reply(t) \/ Oper(t) \/ GetUser(t)
         \/ SendToUser(t) \/ Whois(t) \/ Snapshot(t) \/ LookupMember(t)
         \/ SendToMember(t) \/ EndNotify(t) \/ NextChannel(t) \/ NickLock(t)
         \/ ListLock(t) \/ ListUnlock(t) \/ GetChannel(t) \/ CheckOnChannel(t)
         \/ ModeAuthorise(t)
  PROVE  Keeps(t) /\ Quiet(t)
<1> USE DEF Keeps, Quiet, Marked, userVars, tableVars, NoCmd
<1>a. /\ LocalOK /\ DataOK /\ sock[t] = "open" /\ cmd[t].op \in Cmds \cup {"NICK", "NONE"}
      /\ pc[t] \in {"user_send", "send"} => dest[t] \in Users /\ sock[dest[t]] = "open"
  BY DEF IInv, TypeInv, Staying
<1>1. ASSUME RecvCommand(t) PROVE Keeps(t) /\ Quiet(t)
  <2>1. PICK c \in Commands : /\ IF nick[t] = NoNick THEN c.op = "NICK" ELSE c.op \in Cmds
                              /\ cmd' = [cmd EXCEPT ![t] = c]
    BY <1>1 DEF RecvCommand
  <2>2. Others(t) /\ cmd'[t] = c
    BY <1>a, <1>1, <2>1, RecvFacts DEF RecvCommand, LocalOK, Others
  <2> QED
    BY <1>a, <1>1, <2>1, <2>2, RecvFacts DEF RecvCommand
<1>2. ASSUME CountChannels(t) PROVE Keeps(t) /\ Quiet(t)
  <2>1. Return(t, "SUCCESS")
    BY <1>a, <1>2 DEF CountChannels, ReturnFromLusers, SendResults
  <2> QED
    BY <1>a, <1>2, <2>1, ReturnFacts, ReturnOthers DEF CountChannels, DataOK
<1>2a. ASSUME SendCounts(t) PROVE Keeps(t) /\ Quiet(t)
  BY <1>a, <1>2a, GotoOthers, ReturnFacts, ReturnOthers
     DEF SendCounts, ReturnFromLusers, SendResults, DataOK
<1>3. ASSUME Reply(t) PROVE Keeps(t) /\ Quiet(t)
  BY <1>a, <1>3, GotoOthers, TakeOthers, ReturnFacts, ReturnOthers, ReplyOthers
     DEF Reply, LocalOK, DataOK, Fits, InUse
<1>4. ASSUME Oper(t) PROVE Keeps(t) /\ Quiet(t)
  BY <1>a, <1>4, GotoOthers, TakeOthers, ReturnFacts, ReturnOthers, ReplyOthers
     DEF Oper, LocalOK, DataOK, Fits, InUse
<1>5. ASSUME GetUser(t) PROVE Keeps(t) /\ Quiet(t)
  <2>1. cmd[t].nick \in Nicks
    BY <1>a, <1>5, ArgumentFacts DEF GetUser
  <2>2. CASE ~InUse(cmd[t].nick)
    BY <1>a, <1>5, <2>2, ReplyOthers DEF GetUser
  <2>3. CASE InUse(cmd[t].nick)
    BY <1>a, <1>5, <2>1, <2>3, GotoOthers DEF GetUser, InUse, DataOK
  <2> QED
    BY <2>2, <2>3
<1>6. ASSUME SendToUser(t) PROVE Keeps(t) /\ Quiet(t)
  <2>1. Return(t, "SUCCESS") /\ dest' = [dest EXCEPT ![t] = NoUser]
    BY <1>a, <1>6 DEF SendToUser, SendResults
  <2> QED
    BY <1>a, <1>6, <2>1, ReturnFacts, ReturnOthers DEF SendToUser, DataOK
<1>7. ASSUME Whois(t) PROVE Keeps(t) /\ Quiet(t)
  BY <1>a, <1>7, GotoOthers, TakeOthers, ReturnFacts, ReturnOthers, ReplyOthers
     DEF Whois, LocalOK, DataOK, Fits, InUse
<1>8. ASSUME Snapshot(t) PROVE Keeps(t) /\ Quiet(t)
  BY <1>a, <1>8, GotoOthers, TakeOthers, ReturnFacts, ReturnOthers, ReplyOthers
     DEF Snapshot, LocalOK, DataOK, Fits, InUse
<1>9. ASSUME LookupMember(t) PROVE Keeps(t) /\ Quiet(t)
  <2>1. CASE UNCHANGED <<pc, dest>>
    BY <1>a, <1>9, <2>1 DEF LookupMember, Others
  <2>2. ASSUME NEW n \in Nicks, InUse(n), dest' = [dest EXCEPT ![t] = owner[n]], Goto(t, "send")
        PROVE  Keeps(t) /\ Quiet(t)
    BY <1>a, <1>9, <2>2, GotoOthers DEF LookupMember, InUse, DataOK
  <2> QED
    BY <1>9, <2>1, <2>2 DEF LookupMember
<1>10. ASSUME SendToMember(t) PROVE Keeps(t) /\ Quiet(t)
  BY <1>a, <1>10, GotoOthers DEF SendToMember, DataOK
<1>11. ASSUME EndNotify(t) PROVE Keeps(t) /\ Quiet(t)
  BY <1>a, <1>11, GotoOthers, TakeOthers, ReturnFacts, ReturnOthers, ReplyOthers
     DEF EndNotify, LocalOK, DataOK, Fits, InUse
<1>12. ASSUME NextChannel(t) PROVE Keeps(t) /\ Quiet(t)
  <2>1. cmd[t].op = "NICK"
    BY <1>a, <1>12 DEF NextChannel, LocalOK, Fits, Stay
  <2>2. CASE Return(t, "SUCCESS")
    BY <1>a, <1>12, <2>2, ReturnFacts, ReturnOthers DEF NextChannel, DataOK
  <2>3. CASE ~Return(t, "SUCCESS")
    <3>1. PICK c \in todo[t] : /\ todo' = [todo EXCEPT ![t] = @ \ {c}]
                               /\ chan' = [chan EXCEPT ![t] = c]
                               /\ Goto(t, "notify") /\ UNCHANGED cmd
      BY <1>12, <2>1, <2>3 DEF NextChannel
    <3>2. Others(t) /\ pc'[t] = "notify" /\ cmd'[t] = cmd[t]
      BY <1>a, <3>1, TakeOthers
    <3> QED
      BY <1>a, <1>12, <3>1, <3>2 DEF NextChannel, DataOK
  <2> QED
    BY <2>2, <2>3
<1>13. ASSUME NickLock(t) PROVE Keeps(t) /\ Quiet(t)
  BY <1>a, <1>13, GotoOthers, TakeOthers, ReturnFacts, ReturnOthers, ReplyOthers
     DEF NickLock, LocalOK, DataOK, Fits, InUse
<1>14. ASSUME ListLock(t) PROVE Keeps(t) /\ Quiet(t)
  BY <1>a, <1>14, GotoOthers DEF ListLock, localVars
<1>15. ASSUME ListUnlock(t) PROVE Keeps(t) /\ Quiet(t)
  BY <1>a, <1>15, GotoOthers, TakeOthers, ReturnFacts, ReturnOthers, ReplyOthers
     DEF ListUnlock, LocalOK, DataOK, Fits, InUse
<1>16. ASSUME GetChannel(t) PROVE Keeps(t) /\ Quiet(t)
  BY <1>a, <1>16, GotoOthers, TakeOthers, ReturnFacts, ReturnOthers, ReplyOthers
     DEF GetChannel, LocalOK, DataOK, Fits, InUse
<1>17. ASSUME CheckOnChannel(t) PROVE Keeps(t) /\ Quiet(t)
  BY <1>a, <1>17, GotoOthers, TakeOthers, ReturnFacts, ReturnOthers, ReplyOthers
     DEF CheckOnChannel, LocalOK, DataOK, Fits, InUse
<1>18. ASSUME ModeAuthorise(t) PROVE Keeps(t) /\ Quiet(t)
  BY <1>a, <1>18, GotoOthers, TakeOthers, ReturnFacts, ReturnOthers, ReplyOthers
     DEF ModeAuthorise, LocalOK, DataOK, Fits, InUse
<1> QED
  BY <1>1, <1>2, <1>2a, <1>3, <1>4, <1>5, <1>6, <1>7, <1>8, <1>9, <1>10, <1>11, <1>12, <1>13, <1>14, <1>15, <1>16, <1>17, <1>18

LEMMA LoudKeeps ==
  ASSUME IInv, Staying, NEW t \in Users,
         AddUserNick(t) \/ NickLockChannels(t) \/ NickOnChannel(t)
         \/ NickUnlockChannels(t) \/ NickCommit(t) \/ TryGetChannel(t)
         \/ JoinChannel(t) \/ PartLock(t) \/ LeaveChannel(t) \/ PartReply(t)
         \/ PartUnlock(t) \/ UpdateMemberMode(t)
  PROVE  Keeps(t)
<1> USE DEF Keeps, userVars, tableVars, NoCmd
<1>a. /\ LocalOK /\ DataOK /\ sock[t] = "open" /\ cmd[t].op \in Cmds \cup {"NICK", "NONE"}
  BY DEF IInv, TypeInv, Staying
<1>1. ASSUME AddUserNick(t) PROVE Keeps(t)
  BY <1>a, <1>1, GotoOthers, ReplyOthers DEF AddUserNick, localVars
<1>2. ASSUME NickLockChannels(t) PROVE Keeps(t)
  BY <1>a, <1>2, GotoOthers, TakeOthers, ReturnFacts, ReturnOthers, ReplyOthers
     DEF NickLockChannels, LocalOK, DataOK
<1>3. ASSUME NickOnChannel(t) PROVE Keeps(t)
  BY <1>a, <1>3 DEF NickOnChannel, Others, DataOK
<1>4. ASSUME NickUnlockChannels(t) PROVE Keeps(t)
  BY <1>a, <1>4, GotoOthers, TakeOthers, ReturnFacts, ReturnOthers, ReplyOthers
     DEF NickUnlockChannels, LocalOK, DataOK
<1>5. ASSUME NickCommit(t) PROVE Keeps(t)
  BY <1>a, <1>5, GotoOthers DEF NickCommit, localVars
<1>6. ASSUME TryGetChannel(t) PROVE Keeps(t)
  <2>1. UNCHANGED <<cmd, todo, dest, sock>> /\ cmd[t].name \in Names
    BY <1>a, <1>6, ArgumentFacts DEF TryGetChannel
  <2>2. PICK l \in {"join_add", "join_new"} : Goto(t, l)
    BY <1>6 DEF TryGetChannel, AfterGet
  <2>3. \E c : chan' = [chan EXCEPT ![t] = c]
    BY <1>6 DEF TryGetChannel
  <2> QED
    BY <1>a, <2>1, <2>2, <2>3, TakeOthers
<1>7. ASSUME JoinChannel(t) PROVE Keeps(t)
  BY <1>a, <1>7, GotoOthers, TakeOthers, ReturnFacts, ReturnOthers, ReplyOthers
     DEF JoinChannel, LocalOK, DataOK
<1>8. ASSUME PartLock(t) PROVE Keeps(t)
  BY <1>a, <1>8, GotoOthers, TakeOthers, ReturnFacts, ReturnOthers, ReplyOthers
     DEF PartLock, LocalOK, DataOK
<1>9. ASSUME LeaveChannel(t) PROVE Keeps(t)
  BY <1>a, <1>9, GotoOthers, TakeOthers, ReturnFacts, ReturnOthers, ReplyOthers
     DEF LeaveChannel, LocalOK, DataOK, AfterLeave
<1>10. ASSUME PartReply(t) PROVE Keeps(t)
  <2>1. \E l \in {"notify", "part_delete"} : Goto(t, l) /\ UNCHANGED <<cmd, chan>>
    BY <1>a, <1>10 DEF PartReply, SendResults
  <2> QED
    BY <1>a, <1>10, <2>1, GotoOthers DEF PartReply
<1>11. ASSUME PartUnlock(t) PROVE Keeps(t)
  BY <1>a, <1>11, GotoOthers, TakeOthers, ReturnFacts, ReturnOthers, ReplyOthers
     DEF PartUnlock, LocalOK, DataOK
<1>12. ASSUME UpdateMemberMode(t) PROVE Keeps(t)
  BY <1>a, <1>12, GotoOthers DEF UpdateMemberMode, localVars
<1> QED
  BY <1>1, <1>2, <1>3, <1>4, <1>5, <1>6, <1>7, <1>8, <1>9, <1>10, <1>11, <1>12

LEMMA StayingInductive ==
  ASSUME Stay, IInv, Staying, [Next]_vars
  PROVE  Staying'
<1>1. CASE UNCHANGED vars
  BY <1>1 DEF Staying, vars, threadVars, localVars, userVars
<1>2. CASE Next
  <2>1. PICK t \in Users : RecvCommand(t) \/ PeerGone(t) \/ Step(t)
    BY <1>2 DEF Next
  <2>2. Keeps(t)
    BY <2>1, NobodyLeaves, QuietSteps, LoudKeeps DEF Step
  <2> QED
    BY <2>2, KeepsStaying
<1> QED
  BY <1>1, <1>2
-------------------------------------------------------------------------------
(* The channel table *)

ChannelInv == OneName /\ PartHandle /\ InhabitedChannels

LEMMA ChannelQuiet ==
  ASSUME IInv, ChannelInv, NEW t \in Users, Others(t), UNCHANGED chanOf,
         \A c \in Chans : members'[c] = {} => members[c] = {},
         pc[t] \notin {"join_new", "part_reply_last", "part_delete"},
         pc'[t] \notin {"part_leave", "part_reply_last", "part_delete"}
  PROVE  ChannelInv'
<1>1. OneName' /\ PartHandle'
  BY DEF ChannelInv, OneName, PartHandle, Others
<1>2. Tabled \subseteq Chans
  BY DEF IInv, TypeInv, DataOK, Tabled
<1>3. InhabitedChannels'
  BY <1>2 DEF ChannelInv, InhabitedChannels, Tabled, Others
<1> QED
  BY <1>1, <1>3 DEF ChannelInv

LEMMA ChannelTryGet ==
  ASSUME IInv, ChannelInv, NEW t \in Users, TryGetChannel(t)
  PROVE  ChannelInv'
<1> DEFINE name == cmd[t].name
<1>a. LocalOK /\ DataOK /\ LockDiscipline /\ name \in Names
  BY ArgumentFacts DEF IInv, TypeInv, NickInv, TryGetChannel
<1>b. UNCHANGED cmd /\ pc[t] = "join_get" /\ Goto(t, AfterGet(chanOf[name] # NoChan))
  BY DEF TryGetChannel
<1>1. CASE chanOf[name] # NoChan
  <2>1. chan' = [chan EXCEPT ![t] = chanOf[name]] /\ UNCHANGED <<chanOf, members>>
    BY <1>1 DEF TryGetChannel
  <2>2. Others(t) /\ pc'[t] = "join_add"
    BY <1>a, <1>b, <1>1, <2>1, TakeOthers DEF AfterGet
  <2> QED
    BY <1>b, <2>1, <2>2, ChannelQuiet
<1>2. CASE chanOf[name] = NoChan
  <2>1. PICK c \in Fresh : /\ chanOf' = [chanOf EXCEPT ![name] = c]
                           /\ members' = [members EXCEPT ![c] = {}]
                           /\ chan' = [chan EXCEPT ![t] = c]
    BY <1>2 DEF TryGetChannel
  <2>2. /\ c \in Chans /\ c \notin Tabled /\ c # NoChan
        /\ Others(t) /\ pc'[t] = "join_new" /\ chan'[t] = c
    BY <1>a, <1>b, <1>2, <2>1, TakeOthers, ServerAssumption DEF Fresh, AfterGet
  <2>3. OneName'
    BY <1>a, <2>1, <2>2 DEF ChannelInv, OneName, Tabled, DataOK
  <2>4. PartHandle'
    <3>1. \A u \in Users : pc[u] \notin {"part_leave", "part_reply_last", "part_delete"}
      BY <1>a, ServerAssumption DEF LockDiscipline, ChanCritical, TryGetChannel, Free
    <3> QED
      BY <2>2, <3>1 DEF PartHandle, Others
  <2>5. InhabitedChannels'
    <3>1. ASSUME NEW d \in Tabled', d # c, members'[d] = {}
          PROVE  \E u \in Users : /\ chan'[u] = d
                                  /\ pc'[u] \in {"join_new", "part_reply_last", "part_delete"}
      <4>1. d \in Tabled /\ d \in Chans /\ members[d] = {}
        BY <1>a, <2>1, <3>1 DEF Tabled, DataOK
      <4>2. PICK u \in Users : chan[u] = d /\ pc[u] \in {"join_new", "part_reply_last", "part_delete"}
        BY <4>1 DEF ChannelInv, InhabitedChannels
      <4> QED
        BY <1>b, <2>2, <4>2 DEF Others
    <3> QED
      BY <2>2, <3>1 DEF InhabitedChannels
  <2> QED
    BY <2>3, <2>4, <2>5 DEF ChannelInv
<1> QED
  BY <1>1, <1>2

LEMMA ChannelJoin ==
  ASSUME IInv, Staying, ChannelInv, NEW t \in Users, JoinChannel(t)
  PROVE  ChannelInv'
<1>a. LocalOK /\ DataOK /\ chan[t] \in Chans /\ pc[t] \in {"join_add", "join_new"} /\ UNCHANGED chanOf
  BY DEF IInv, TypeInv, LocalOK, Fits, JoinChannel
<1>1. Others(t) /\ pc'[t] \in {"idle", "notify"}
  BY <1>a, ReturnFacts, ReturnOthers, GotoOthers DEF JoinChannel
<1>2. members'[chan[t]] # {} /\ \A c \in Chans : members'[c] = {} => members[c] = {}
  <2>1. CASE Named(chan[t], nick[t]) # {}
    BY <1>a, <2>1 DEF JoinChannel, Named
  <2>2. CASE Named(chan[t], nick[t]) = {}
    <3>1. PICK e : members' = [members EXCEPT ![chan[t]] = @ \cup {e}]
      BY <2>2 DEF JoinChannel
    <3> QED
      BY <1>a, <3>1 DEF DataOK
  <2> QED
    BY <2>1, <2>2
<1>3. OneName' /\ PartHandle'
  BY <1>a, <1>1 DEF ChannelInv, OneName, PartHandle, Others
<1>4. InhabitedChannels'
  <2>1. ASSUME NEW d \in Tabled', members'[d] = {}
        PROVE  \E u \in Users : /\ chan'[u] = d
                                /\ pc'[u] \in {"join_new", "part_reply_last", "part_delete"}
    <3>1. d \in Tabled /\ d \in Chans /\ members[d] = {} /\ d # chan[t]
      BY <1>a, <1>2, <2>1 DEF Tabled, DataOK
    <3>2. PICK u \in Users : chan[u] = d /\ pc[u] \in {"join_new", "part_reply_last", "part_delete"}
      BY <3>1 DEF ChannelInv, InhabitedChannels
    <3> QED
      BY <1>1, <3>1, <3>2 DEF Others
  <2> QED
    BY <2>1 DEF InhabitedChannels
<1> QED
  BY <1>3, <1>4 DEF ChannelInv

\* PART from the leaving to the deletion of an empty channel.
LEMMA ChannelLeave ==
  ASSUME IInv, Staying, ChannelInv, NEW t \in Users, LeaveChannel(t)
  PROVE  ChannelInv'
<1>a. LocalOK /\ DataOK /\ chan[t] \in Chans /\ pc[t] = "part_leave" /\ UNCHANGED chanOf
  BY DEF IInv, TypeInv, LocalOK, Fits, LeaveChannel
<1>1. CASE ReplyAndReturn(t) /\ UNCHANGED members
  BY <1>a, <1>1, ReplyOthers, ChannelQuiet
<1>2. ASSUME NEW e \in Named(chan[t], nick[t]),
             members' = [members EXCEPT ![chan[t]] = @ \ {e}],
             Goto(t, AfterLeave(members[chan[t]] \ {e})), UNCHANGED <<cmd, chan>>
      PROVE  ChannelInv'
  <2>1. /\ Others(t) /\ cmd'[t] = cmd[t] /\ chan'[t] = chan[t]
        /\ pc'[t] = IF members'[chan[t]] = {} THEN "part_reply_last" ELSE "part_reply"
    BY <1>a, <1>2, GotoOthers DEF AfterLeave, DataOK
  <2>2. OneName' /\ PartHandle'
    BY <1>a, <2>1 DEF ChannelInv, OneName, PartHandle, Others
  <2>3. ASSUME NEW d \in Tabled', members'[d] = {}
        PROVE  \E u \in Users : /\ chan'[u] = d
                                /\ pc'[u] \in {"join_new", "part_reply_last", "part_delete"}
    <3>1. CASE d = chan[t]
      BY <2>1, <2>3, <3>1
    <3>2. CASE d # chan[t]
      <4>1. d \in Tabled /\ members[d] = {}
        BY <1>a, <1>2, <2>3, <3>2 DEF Tabled, DataOK
      <4>2. PICK u \in Users : chan[u] = d /\ pc[u] \in {"join_new", "part_reply_last", "part_delete"}
        BY <4>1 DEF ChannelInv, InhabitedChannels
      <4> QED
        BY <1>a, <2>1, <4>2 DEF Others
    <3> QED
      BY <3>1, <3>2
  <2> QED
    BY <2>2, <2>3 DEF ChannelInv, InhabitedChannels
<1> QED
  BY <1>1, <1>2 DEF LeaveChannel

LEMMA ChannelPartReply ==
  ASSUME IInv, Staying, ChannelInv, NEW t \in Users, PartReply(t)
  PROVE  ChannelInv'
<1>a. LocalOK /\ DataOK /\ sock[t] = "open" /\ UNCHANGED <<chanOf, members>>
  BY DEF IInv, TypeInv, Staying, PartReply, tableVars
<1>b. /\ Goto(t, IF pc[t] = "part_reply" THEN "notify" ELSE "part_delete")
      /\ UNCHANGED <<cmd, chan>> /\ pc[t] \in {"part_reply", "part_reply_last"}
  BY <1>a DEF PartReply, SendResults
<1>1. CASE pc[t] = "part_reply"
  BY <1>a, <1>b, <1>1, GotoOthers, ChannelQuiet
<1>2. CASE pc[t] = "part_reply_last"
  <2>1. Others(t) /\ cmd'[t] = cmd[t] /\ chan'[t] = chan[t] /\ pc'[t] = "part_delete"
    BY <1>a, <1>b, <1>2, GotoOthers
  <2>2. OneName' /\ PartHandle'
    BY <1>a, <1>2, <2>1 DEF ChannelInv, OneName, PartHandle, Others
  <2>3. InhabitedChannels'
    BY <1>a, <1>2, <2>1 DEF ChannelInv, InhabitedChannels, Tabled, Others
  <2> QED
    BY <2>2, <2>3 DEF ChannelInv
<1> QED
  BY <1>b, <1>1, <1>2

LEMMA ChannelPartUnlock ==
  ASSUME IInv, Staying, ChannelInv, NEW t \in Users, PartUnlock(t)
  PROVE  ChannelInv'
<1> DEFINE name == cmd[t].name
<1>a. /\ LocalOK /\ DataOK /\ LockDiscipline /\ UNCHANGED members
      /\ pc[t] \in {"part_unlock", "part_delete"}
      /\ Others(t) /\ pc'[t] = "idle"
  BY ReturnFacts, ReturnOthers DEF IInv, TypeInv, NickInv, PartUnlock
<1>1. CASE pc[t] = "part_unlock"
  BY <1>a, <1>1, ChannelQuiet DEF PartUnlock
<1>2. CASE pc[t] = "part_delete"
  <2>1. chanOf' = [chanOf EXCEPT ![name] = NoChan] /\ name \in Names /\ chan[t] = chanOf[name]
    BY <1>a, <1>2, ArgumentFacts DEF PartUnlock, ChannelInv, PartHandle
  <2>2. OneName'
    BY <1>a, <2>1 DEF ChannelInv, OneName, DataOK
  <2>3. PartHandle'
    <3>1. \A u \in Users \ {t} : pc[u] \notin {"part_leave", "part_reply_last", "part_delete"}
      BY <1>a DEF LockDiscipline, ChanCritical
    <3> QED
      BY <1>a, <3>1 DEF PartHandle, Others
  <2>4. ASSUME NEW d \in Tabled', members'[d] = {}
        PROVE  \E u \in Users : /\ chan'[u] = d
                                /\ pc'[u] \in {"join_new", "part_reply_last", "part_delete"}
    <3>1. PICK m \in Names : m # name /\ d = chanOf[m] /\ d # NoChan
      BY <1>a, <2>1, <2>4 DEF Tabled, DataOK
    <3>2. d # chan[t] /\ d \in Tabled /\ members[d] = {}
      BY <1>a, <2>1, <2>4, <3>1 DEF ChannelInv, OneName, Tabled
    <3>3. PICK u \in Users : chan[u] = d /\ pc[u] \in {"join_new", "part_reply_last", "part_delete"}
      BY <3>2 DEF ChannelInv, InhabitedChannels
    <3> QED
      BY <1>a, <3>2, <3>3 DEF Others
  <2> QED
    BY <2>2, <2>3, <2>4 DEF ChannelInv, InhabitedChannels
<1> QED
  BY <1>a, <1>1, <1>2

LEMMA ChannelPartLock ==
  ASSUME IInv, Staying, ChannelInv, NEW t \in Users, PartLock(t)
  PROVE  ChannelInv'
<1>a. LocalOK /\ DataOK /\ pc[t] = "part_lock" /\ UNCHANGED <<chanOf, members>>
  BY DEF IInv, TypeInv, PartLock, tableVars
<1>1. CASE ReplyAndReturn(t)
  BY <1>a, <1>1, ReplyOthers, ChannelQuiet
<1>2. CASE ~ReplyAndReturn(t)
  <2>1. /\ Goto(t, "part_leave") /\ UNCHANGED cmd
        /\ chan' = [chan EXCEPT ![t] = chanOf[cmd[t].name]]
    BY <1>2 DEF PartLock
  <2>2. Others(t) /\ pc'[t] = "part_leave" /\ cmd'[t] = cmd[t] /\ chan'[t] = chanOf[cmd[t].name]
    BY <1>a, <2>1 DEF Goto, LocalOK, Others
  <2>3. OneName' /\ PartHandle'
    BY <1>a, <2>2 DEF ChannelInv, OneName, PartHandle, Others
  <2>4. InhabitedChannels'
    BY <1>a, <2>2 DEF ChannelInv, InhabitedChannels, Tabled, Others
  <2> QED
    BY <2>3, <2>4 DEF ChannelInv
<1> QED
  BY <1>1, <1>2

\* The other steps never empty a member table and touch no entry of the channel table.
LEMMA ChannelRest ==
  ASSUME IInv, Staying, ChannelInv, NEW t \in Users, Keeps(t),
         AddUserNick(t) \/ NickLockChannels(t) \/ NickOnChannel(t) \/ NickUnlockChannels(t)
         \/ NickCommit(t) \/ UpdateMemberMode(t)
  PROVE  ChannelInv'
<1>a. LocalOK /\ DataOK /\ Others(t)
  BY DEF IInv, TypeInv, Keeps
<1>1. /\ UNCHANGED chanOf
      /\ pc[t] \in {"add_nick", "nick_chan", "nick_member", "nick_commit", "mode_set"}
  BY DEF AddUserNick, NickLockChannels, NickOnChannel, NickUnlockChannels, NickCommit,
         UpdateMemberMode, tableVars
<1>2. pc'[t] \notin {"part_leave", "part_reply_last", "part_delete"}
  BY <1>a, <1>1, GotoOthers, ReplyOthers, GotoFacts
     DEF AddUserNick, NickLockChannels, NickOnChannel, NickUnlockChannels, NickCommit,
         UpdateMemberMode, localVars
<1>3. UNCHANGED members \/ \E c, e, f : Replace(c, e, f)
  BY DEF AddUserNick, NickLockChannels, NickOnChannel, NickUnlockChannels, NickCommit,
         UpdateMemberMode, UpdateMemberNick, tableVars
<1>4. \A c \in Chans : members'[c] = {} => members[c] = {}
  BY <1>a, <1>3 DEF Replace, DataOK
<1> QED
  BY <1>a, <1>1, <1>2, <1>4, ChannelQuiet

LEMMA ChannelInductive ==
  ASSUME Stay, IInv, Staying, ChannelInv, [Next]_vars
  PROVE  ChannelInv'
<1>1. CASE UNCHANGED vars
  BY <1>1 DEF ChannelInv, OneName, PartHandle, InhabitedChannels, Tabled,
              vars, threadVars, localVars, tableVars
<1>2. CASE Next
  <2>1. PICK t \in Users : RecvCommand(t) \/ PeerGone(t) \/ Step(t)
    BY <1>2 DEF Next
  <2>2. CASE Quiet(t) /\ Keeps(t)
    BY <2>2, ChannelQuiet DEF Quiet, Keeps, Marked
  <2> QED
    BY <2>1, <2>2, NobodyLeaves, QuietSteps, LoudKeeps, ChannelTryGet, ChannelJoin, ChannelLeave,
       ChannelPartReply, ChannelPartUnlock, ChannelPartLock, ChannelRest DEF Step
<1> QED
  BY <1>1, <1>2
-------------------------------------------------------------------------------
(* The member tables *)

LEMMA TableFacts ==
  ASSUME IInv
  PROVE  /\ Tabled \subseteq Chans
         /\ \A c \in Chans : members[c] \subseteq Member
         /\ \A c \in Chans : \A e \in members[c] : e.by \in Users
  BY DEF IInv, TypeInv, DataOK, Tabled, Member

\* The entry that a handler finds under the nickname of its own client is the one
\* that client made: user_hash_table leads from the nickname to no other user,
\* and the nickname another user is changing to is free.
LEMMA OwnEntry ==
  ASSUME IInv, Staying, NEW c \in Tabled, FiledAt(c), NEW t \in Users, NEW e \in Named(c, nick[t])
  PROVE  e.by = t
<1>1. /\ NicksConsistent /\ RenameTargetFree /\ ServerAssumption
      /\ e \in members[c] /\ e.nick = nick[t] /\ e.nick \in Nicks
      /\ e.by \in Users /\ e.nick = FiledUnder(e.by, c)
  BY TableFacts, ServerAssumption DEF IInv, NickInv, Named, FiledAt
<1>2. owner[e.nick] = t /\ t # NoUser
  BY <1>1 DEF NicksConsistent, Staying, ServerAssumption
<1>3. ~Renamed(e.by, c)
  <2>1. SUFFICES ASSUME Renamed(e.by, c) PROVE FALSE
    OBVIOUS
  <2>2. pc[e.by] \in UserCritical /\ e.nick = cmd[e.by].nick
    BY <1>1, <2>1 DEF FiledUnder, Renamed, UserCritical
  <2> QED
    BY <1>1, <1>2, <2>2 DEF RenameTargetFree, InUse
<1>4. e.nick = nick[e.by]
  BY <1>1, <1>3 DEF FiledUnder
<1> QED
  BY <1>1, <1>2, <1>4 DEF NicksConsistent, Staying, ServerAssumption

\* A step that leaves the entries of a channel as they are, or takes some out,
\* leaves them filed unless it is a step of a rename.
LEMMA FiledQuiet ==
  ASSUME IInv, NEW c \in Chans, FiledAt(c), NEW t \in Users, Others(t),
         \A u \in Users \ {t} : todo'[u] = todo[u],
         UNCHANGED nick, members'[c] \subseteq members[c],
         pc[t] \notin {"nick_member", "nick_commit"}, pc'[t] \notin {"nick_member", "nick_commit"}
  PROVE  FiledAt(c)'
<1>1. \A u \in Users : FiledUnder(u, c)' = FiledUnder(u, c)
  BY DEF FiledUnder, Renamed, Others
<1> QED
  BY <1>1, TableFacts DEF FiledAt

LEMMA FiledAddNick ==
  ASSUME IInv, Staying, NEW c \in Chans, FiledAt(c), NEW t \in Users, Keeps(t), AddUserNick(t)
  PROVE  FiledAt(c)'
<1>a. LocalOK /\ DataOK /\ Others(t) /\ pc[t] = "add_nick" /\ nick[t] = NoNick /\ UNCHANGED members
  BY DEF IInv, TypeInv, NickInv, Registered, Keeps, AddUserNick
<1>b. pc'[t] \in {"idle", "close", "lusers"}
  BY <1>a, ReplyOthers, GotoFacts DEF AddUserNick
<1>1. \A e \in members[c] : e.by \in Users \ {t}
  BY <1>a, TableFacts, ServerAssumption DEF FiledAt, FiledUnder, Renamed
<1>2. \A u \in Users \ {t} : nick'[u] = nick[u]
  BY <1>a DEF AddUserNick, DataOK
<1>3. \A u \in Users \ {t} : FiledUnder(u, c)' = FiledUnder(u, c)
  BY <1>a, <1>2 DEF FiledUnder, Renamed, Others, Keeps
<1> QED
  BY <1>a, <1>1, <1>3 DEF FiledAt

\* A rename: update_nick_on_channel starts with every channel still to be
\* visited, ends with none, and the new nickname is then the user's own.
LEMMA FiledRename ==
  ASSUME IInv, Staying, NEW c \in Tabled, FiledAt(c), NEW t \in Users, Keeps(t),
         NickLockChannels(t) \/ NickUnlockChannels(t) \/ NickCommit(t)
  PROVE  FiledAt(c)'
<1>a. LocalOK /\ DataOK /\ Others(t) /\ UNCHANGED members
  BY DEF IInv, TypeInv, Keeps, NickLockChannels, NickUnlockChannels, NickCommit, tableVars
<1>1. FiledUnder(t, c)' = FiledUnder(t, c)
  <2>1. CASE NickLockChannels(t)
    BY <1>a, <2>1, GotoOthers DEF NickLockChannels, FiledUnder, Renamed, DataOK, userVars
  <2>2. CASE NickUnlockChannels(t)
    BY <1>a, <2>2, GotoOthers DEF NickUnlockChannels, FiledUnder, Renamed, DataOK, userVars
  <2>3. CASE NickCommit(t)
    BY <1>a, <2>3, GotoOthers DEF NickCommit, FiledUnder, Renamed, DataOK, localVars
  <2> QED
    BY <2>1, <2>2, <2>3
<1>2. \A u \in Users \ {t} : nick'[u] = nick[u]
  BY <1>a DEF NickLockChannels, NickUnlockChannels, NickCommit, DataOK, userVars
<1>3. \A u \in Users : FiledUnder(u, c)' = FiledUnder(u, c)
  BY <1>a, <1>1, <1>2 DEF FiledUnder, Renamed, Others, Keeps
<1> QED
  BY <1>a, <1>3, TableFacts DEF FiledAt

\* update_member_nick on channel c: the entry it finds is the client's own, and
\* where it finds none the client has none.
LEMMA FiledOnChannel ==
  ASSUME IInv, Staying, NEW c \in Tabled, FiledAt(c), NEW t \in Users, Keeps(t), NickOnChannel(t)
  PROVE  FiledAt(c)'
<1>a. /\ LocalOK /\ DataOK /\ Others(t) /\ c \in Chans
      /\ pc[t] = "nick_member" /\ UNCHANGED <<pc, cmd, nick>> /\ cmd[t].nick \in Nicks
  BY ArgumentFacts, TableFacts DEF IInv, TypeInv, Keeps, NickOnChannel, userVars, UserCritical
<1>b. \A u \in Users \ {t} : FiledUnder(u, c)' = FiledUnder(u, c)
  BY <1>a DEF FiledUnder, Renamed, Keeps
<1>1. PICK d \in todo[t] : UpdateMemberNick(t, d) /\ todo' = [todo EXCEPT ![t] = @ \ {d}]
  BY DEF NickOnChannel
<1>2. CASE c # d
  <2>1. members'[c] = members[c]
    BY <1>a, <1>1, <1>2 DEF UpdateMemberNick, Replace, DataOK
  <2>2. FiledUnder(t, c)' = FiledUnder(t, c)
    BY <1>a, <1>1, <1>2 DEF FiledUnder, Renamed, DataOK
  <2> QED
    BY <1>b, <2>1, <2>2, TableFacts DEF FiledAt
<1>3. CASE c = d
  <2>0. FiledUnder(t, c) = nick[t] /\ FiledUnder(t, c)' = cmd[t].nick
    BY <1>a, <1>1, <1>3 DEF FiledUnder, Renamed, DataOK
  <2>1. CASE Named(c, nick[t]) = {}
    <3>1. members'[c] = members[c]
      BY <1>1, <1>3, <2>1 DEF UpdateMemberNick
    <3>2. \A e \in members[c] : e.by \in Users \ {t}
      BY <2>0, <2>1, <1>a, TableFacts DEF FiledAt, Named
    <3> QED
      BY <1>b, <3>1, <3>2 DEF FiledAt
  <2>2. ASSUME NEW e \in Named(c, nick[t]), Replace(c, e, [e EXCEPT !.nick = cmd[t].nick, !.own = FALSE])
        PROVE  FiledAt(c)'
    <3> DEFINE f == [e EXCEPT !.nick = cmd[t].nick, !.own = FALSE]
    <3>1. e.by = t /\ e \in members[c] /\ e \in Member
      BY <1>a, <2>2, OwnEntry, TableFacts DEF Named
    <3>2. f.by = t /\ f.nick = cmd[t].nick
      BY <3>1 DEF Member
    <3> HIDE DEF f
    <3>3. members'[c] = (members[c] \ {e}) \cup {f}
      BY <1>a, <2>2 DEF Replace, DataOK, f
    <3>4. \A g \in members[c] \ {e} : g.by \in Users \ {t}
      BY <1>a, <3>1, TableFacts DEF FiledAt
    <3> QED
      BY <1>a, <1>b, <2>0, <3>2, <3>3, <3>4 DEF FiledAt
  <2> QED
    BY <1>1, <1>3, <2>1, <2>2 DEF UpdateMemberNick
<1> QED
  BY <1>2, <1>3

\* join_channel files the client under its nickname, and finds it there if it is
\* on the channel already.
LEMMA FiledJoin ==
  ASSUME IInv, Staying, NEW c \in Tabled, FiledAt(c), NEW t \in Users, Keeps(t), JoinChannel(t)
  PROVE  FiledAt(c)'
<1>a. /\ LocalOK /\ DataOK /\ Others(t) /\ c \in Chans /\ chan[t] \in Chans
      /\ pc[t] \in {"join_add", "join_new"} /\ UNCHANGED nick /\ nick[t] \in Nicks
  BY TableFacts
     DEF IInv, TypeInv, NickInv, Registered, Keeps, JoinChannel, LocalOK, Fits, userVars, DataOK
<1>b. pc'[t] \in {"idle", "notify", "close"}
  BY <1>a, ReturnFacts, GotoFacts DEF JoinChannel
<1>1. CASE members'[c] \subseteq members[c]
  BY <1>a, <1>b, <1>1, FiledQuiet DEF Keeps
<1>2. CASE ~(members'[c] \subseteq members[c])
  <2> DEFINE f == [by |-> t, nick |-> nick[t], op |-> (pc[t] = "join_new"), own |-> TRUE]
  <2>1. /\ members' = [members EXCEPT ![chan[t]] = @ \cup {f}]
        /\ Named(chan[t], nick[t]) = {}
    BY <1>2 DEF JoinChannel
  <2>2. f.by = t /\ f.nick = nick[t]
    OBVIOUS
  <2> HIDE DEF f
  <2>3. c = chan[t] /\ members'[c] = members[c] \cup {f}
    BY <1>a, <1>2, <2>1 DEF DataOK
  <2>4. \A u \in Users : FiledUnder(u, c)' = FiledUnder(u, c)
    BY <1>a, <1>b DEF FiledUnder, Renamed, Others, Keeps
  <2>5. FiledUnder(t, c) = nick[t]
    BY <1>a DEF FiledUnder, Renamed
  <2>6. \A e \in members[c] : e.by \in Users \ {t}
    BY <1>a, <2>1, <2>3, <2>5, TableFacts DEF FiledAt, Named
  <2> QED
    BY <1>a, <2>2, <2>3, <2>4, <2>5, <2>6 DEF FiledAt
<1> QED
  BY <1>1, <1>2

LEMMA FiledMode ==
  ASSUME IInv, Staying, NEW c \in Chans, FiledAt(c), NEW t \in Users, Keeps(t), UpdateMemberMode(t)
  PROVE  FiledAt(c)'
<1>a. /\ LocalOK /\ DataOK /\ Others(t) /\ pc[t] = "mode_set" /\ pc'[t] = "notify"
      /\ UNCHANGED nick /\ cmd[t].on \in BOOLEAN
  BY GotoFacts, ArgumentFacts DEF IInv, TypeInv, Keeps, UpdateMemberMode, userVars
<1>1. CASE members'[c] \subseteq members[c]
  BY <1>a, <1>1, FiledQuiet DEF Keeps
<1>2. CASE ~(members'[c] \subseteq members[c])
  <2>1. PICK e \in Named(chan[t], cmd[t].nick) : Replace(chan[t], e, [e EXCEPT !.op = cmd[t].on])
    BY <1>2 DEF UpdateMemberMode
  <2> DEFINE f == [e EXCEPT !.op = cmd[t].on]
  <2>2. c = chan[t] /\ e \in members[c] /\ members'[c] = (members[c] \ {e}) \cup {f}
    BY <1>a, <1>2, <2>1 DEF Replace, DataOK, Named
  <2>3. f.by = e.by /\ f.nick = e.nick
    BY <2>2, TableFacts DEF Member
  <2> HIDE DEF f
  <2>4. \A u \in Users : FiledUnder(u, c)' = FiledUnder(u, c)
    BY <1>a DEF FiledUnder, Renamed, Others, Keeps
  <2> QED
    BY <2>2, <2>3, <2>4, TableFacts DEF FiledAt
<1> QED
  BY <1>1, <1>2

LEMMA FiledTryGet ==
  ASSUME IInv, Filed, NEW t \in Users, Keeps(t), TryGetChannel(t)
  PROVE  Filed'
<1> DEFINE name == cmd[t].name
<1>a. /\ LocalOK /\ DataOK /\ Others(t) /\ name \in Names /\ UNCHANGED nick
      /\ pc[t] = "join_get" /\ pc'[t] \in {"join_add", "join_new"}
  BY ArgumentFacts, GotoFacts
     DEF IInv, TypeInv, Keeps, TryGetChannel, AfterGet, userVars
<1>1. CASE chanOf[name] # NoChan
  BY <1>a, <1>1, FiledQuiet, TableFacts DEF TryGetChannel, Filed, Tabled, Keeps
<1>2. CASE chanOf[name] = NoChan
  <2>1. PICK c \in Fresh : chanOf' = [chanOf EXCEPT ![name] = c] /\ members' = [members EXCEPT ![c] = {}]
    BY <1>2 DEF TryGetChannel
  <2>2. members'[c] = {} /\ \A d \in Chans \ {c} : members'[d] = members[d]
    BY <1>a, <2>1 DEF DataOK, Fresh
  <2>3. ASSUME NEW d \in Tabled', d # c PROVE FiledAt(d)'
    <3>1. d \in Tabled /\ d \in Chans
      BY <1>a, <2>1, <2>3 DEF Tabled, DataOK
    <3> QED
      BY <1>a, <2>2, <2>3, <3>1, FiledQuiet DEF Filed, Keeps
  <2>4. FiledAt(c)'
    BY <2>2 DEF FiledAt
  <2> QED
    BY <2>3, <2>4 DEF Filed
<1> QED
  BY <1>1, <1>2

LEMMA FiledInductive ==
  ASSUME Stay, IInv, Staying, Filed, [Next]_vars
  PROVE  Filed'
<1>1. CASE UNCHANGED vars
  BY <1>1 DEF Filed, FiledAt, FiledUnder, Renamed, Tabled,
              vars, threadVars, localVars, userVars, tableVars
<1>2. CASE Next
  <2>1. PICK t \in Users : RecvCommand(t) \/ PeerGone(t) \/ Step(t)
    BY <1>2 DEF Next
  <2>2. Keeps(t) /\ Others(t) /\ LocalOK /\ DataOK
    BY <2>1, NobodyLeaves, QuietSteps, LoudKeeps DEF Step, Keeps, IInv, TypeInv
  <2>3. CASE TryGetChannel(t)
    BY <2>2, <2>3, FiledTryGet
  <2>4. CASE PartUnlock(t)
    <3>1. /\ UNCHANGED <<nick, members>> /\ Tabled' \subseteq Tabled
          /\ pc[t] \notin {"nick_member", "nick_commit"} /\ pc'[t] \notin {"nick_member", "nick_commit"}
      <4>1. chanOf' = chanOf \/ chanOf' = [chanOf EXCEPT ![cmd[t].name] = NoChan]
        BY <2>4 DEF PartUnlock
      <4>2. Tabled' \subseteq Tabled
        BY <2>2, <4>1 DEF Tabled, DataOK
      <4> QED
        BY <2>2, <2>4, <4>2, ReturnFacts DEF PartUnlock, userVars
    <3> QED
      BY <2>2, <3>1, FiledQuiet, TableFacts DEF Filed, Keeps
  <2>5. CASE Quiet(t) \/ PartLock(t) \/ PartReply(t) \/ LeaveChannel(t)
    <3>1. /\ UNCHANGED <<nick, chanOf>> /\ \A c \in Chans : members'[c] \subseteq members[c]
          /\ pc[t] \notin {"nick_member", "nick_commit"} /\ pc'[t] \notin {"nick_member", "nick_commit"}
      <4>1. CASE Quiet(t)
        BY <4>1 DEF Quiet, Marked
      <4>2. CASE PartLock(t)
        BY <2>2, <4>2, ReplyFacts, GotoFacts DEF PartLock, userVars, tableVars
      <4>3. CASE PartReply(t)
        BY <2>2, <4>3, ReturnFacts, GotoFacts DEF PartReply, userVars, tableVars
      <4>4. CASE LeaveChannel(t)
        <5>1. members' = members \/ \E e : members' = [members EXCEPT ![chan[t]] = @ \ {e}]
          BY <4>4 DEF LeaveChannel
        <5>2. \A c \in Chans : members'[c] \subseteq members[c]
          BY <2>2, <5>1 DEF DataOK
        <5> QED
          BY <2>2, <4>4, <5>2, ReplyFacts, GotoFacts DEF LeaveChannel, AfterLeave, userVars
      <4> QED
        BY <2>5, <4>1, <4>2, <4>3, <4>4
    <3> QED
      BY <2>2, <3>1, FiledQuiet, TableFacts DEF Filed, Tabled, Keeps
  <2>6. CASE AddUserNick(t) \/ NickLockChannels(t) \/ NickUnlockChannels(t) \/ NickCommit(t)
             \/ NickOnChannel(t) \/ JoinChannel(t) \/ UpdateMemberMode(t)
    <3>1. UNCHANGED chanOf
      BY <2>6 DEF AddUserNick, NickLockChannels, NickUnlockChannels, NickCommit, NickOnChannel,
                  JoinChannel, UpdateMemberMode, tableVars
    <3>2. \A c \in Tabled : FiledAt(c)'
      BY <2>2, <2>6, FiledAddNick, FiledRename, FiledOnChannel, FiledJoin, FiledMode, TableFacts
         DEF Filed
    <3> QED
      BY <3>1, <3>2 DEF Filed, Tabled
  <2> QED
    BY <2>1, <2>3, <2>4, <2>5, <2>6, NobodyLeaves, QuietSteps DEF Step
<1> QED
  BY <1>1, <1>2
-------------------------------------------------------------------------------
(* Theorems *)

LEMMA StayInit == Init => StayInv
<1> USE DEF Init
<1>1. Init => Staying
  BY DEF Staying, NoCmd
<1>2. Init => OneName /\ PartHandle
  BY DEF OneName, PartHandle
<1>3. Init => Tabled = {}
  BY DEF Tabled
<1> QED
  BY <1>1, <1>2, <1>3 DEF StayInv, Filed, InhabitedChannels

LEMMA StayInductive ==
  ASSUME Stay, IInv, StayInv, [Next]_vars
  PROVE  StayInv'
  BY StayingInductive, ChannelInductive, FiledInductive DEF StayInv, ChannelInv

\* While every client stays, a listed channel is never without a member for longer
\* than its creator takes to join or its last member to delete it: join_channel
\* works on a handle without the mutex of the table, and still PART never leaves
\* an empty channel behind.
THEOREM ChannelsInhabited ==
  ASSUME Stay
  PROVE  Spec => []InhabitedChannels
<1>1. IInv /\ StayInv /\ [Next]_vars => (IInv /\ StayInv)'
  BY InvInductive, StayInductive
<1>2. StayInv => InhabitedChannels
  BY DEF StayInv
<1> QED
  BY InvInit, StayInit, <1>1, <1>2, PTL DEF Spec

\* While every client stays, the member tables of the listed channels and the
\* nick fields agree, renames and joins interleaved in any way.
THEOREM MembersAreFaithful ==
  ASSUME Stay
  PROVE  Spec => []MembersFaithful
<1>1. IInv /\ StayInv /\ [Next]_vars => (IInv /\ StayInv)'
  BY InvInductive, StayInductive
<1>2. StayInv => MembersFaithful
  BY DEF StayInv, Filed, FiledAt, FiledUnder, Renamed, MembersFaithful
<1> QED
  BY InvInit, StayInit, <1>1, <1>2, PTL DEF Spec

-------------------------------------------------------------------------------
(* Ways out of a channel *)

\* A thread whose PART found the channel empty has no entry on it: another client may
\* have come in since, but not its own.
PartedGone ==
  \A t \in Users : pc[t] \in {"part_reply_last", "part_delete"} =>
    \A e \in members[chan[t]] : e.by # t

\* The same user's entry was there before the step, under whatever nickname.
WasThere(c, e) == \E f \in members[c] : f.by = e.by

LEMMA OnlyJoinAdds ==
  ASSUME Stay, IInv, Staying, NEW t \in Users, RecvCommand(t) \/ PeerGone(t) \/ Step(t),
         NEW c \in Chans, NEW e \in members'[c], ~WasThere(c, e)
  PROVE  e.by = t /\ JoinChannel(t)
<1>1. DataOK /\ LocalOK
  BY DEF IInv, TypeInv
<1>2. ~(members'[c] \subseteq members[c])
  BY DEF WasThere
<1>3. ~Quiet(t)
  BY <1>2 DEF Quiet
<1>4. ~(AddUserNick(t) \/ NickLockChannels(t) \/ NickUnlockChannels(t) \/ NickCommit(t)
        \/ PartLock(t) \/ PartReply(t) \/ PartUnlock(t))
  BY <1>2 DEF AddUserNick, NickLockChannels, NickUnlockChannels, NickCommit, PartLock, PartReply,
              PartUnlock, tableVars
<1>5. ~TryGetChannel(t)
  BY <1>1, <1>2 DEF TryGetChannel, DataOK
<1>6. ~LeaveChannel(t)
  <2>1. SUFFICES ASSUME LeaveChannel(t) PROVE FALSE
    OBVIOUS
  <2>2. members' = members \/ \E g : members' = [members EXCEPT ![chan[t]] = @ \ {g}]
    BY <2>1 DEF LeaveChannel
  <2> QED
    BY <1>1, <1>2, <2>2 DEF DataOK
<1>7. \A d \in Chans : \A g \in members[d] : \A f : ~(Replace(d, g, f) /\ f.by = g.by)
  <2>1. SUFFICES ASSUME NEW d \in Chans, NEW g \in members[d], NEW f, Replace(d, g, f), f.by = g.by
                 PROVE  FALSE
    OBVIOUS
  <2>2. members'[c] = IF c = d THEN (members[c] \ {g}) \cup {f} ELSE members[c]
    BY <1>1, <2>1 DEF Replace, DataOK
  <2> QED
    BY <2>1, <2>2 DEF WasThere
<1>8. ~NickOnChannel(t)
  <2>1. SUFFICES ASSUME NickOnChannel(t) PROVE FALSE
    OBVIOUS
  <2>2. PICK d \in todo[t] : UpdateMemberNick(t, d)
    BY <2>1 DEF NickOnChannel
  <2>3. PICK g \in Named(d, nick[t]) : Replace(d, g, [g EXCEPT !.nick = cmd[t].nick, !.own = FALSE])
    BY <1>2, <2>2 DEF UpdateMemberNick
  <2>4. d \in Chans /\ g \in members[d] /\ ([g EXCEPT !.nick = cmd[t].nick, !.own = FALSE]).by = g.by
    BY <1>1, <2>3, TableFacts DEF DataOK, Named, Member
  <2> QED
    BY <1>7, <2>3, <2>4
<1>9. ~UpdateMemberMode(t)
  <2>1. SUFFICES ASSUME UpdateMemberMode(t) PROVE FALSE
    OBVIOUS
  <2>2. PICK g \in Named(chan[t], cmd[t].nick) : Replace(chan[t], g, [g EXCEPT !.op = cmd[t].on])
    BY <1>2, <2>1 DEF UpdateMemberMode
  <2>3. chan[t] \in Chans /\ g \in members[chan[t]] /\ ([g EXCEPT !.op = cmd[t].on]).by = g.by
    BY <1>1, <2>1, <2>2, TableFacts DEF UpdateMemberMode, LocalOK, Fits, Named, Member
  <2> QED
    BY <1>7, <2>2, <2>3
<1>10. JoinChannel(t)
  BY <1>3, <1>4, <1>5, <1>6, <1>8, <1>9, NobodyLeaves, QuietSteps DEF Step
<1>11. PICK f : f.by = t /\ members' = [members EXCEPT ![chan[t]] = @ \cup {f}]
  BY <1>2, <1>10 DEF JoinChannel
<1>12. e = f
  BY <1>1, <1>11 DEF DataOK, WasThere
<1> QED
  BY <1>10, <1>11, <1>12

\* PART comes to the deletion of a channel from leave_channel only.
LEMMA EntersDeletion ==
  ASSUME Stay, IInv, Staying, NEW t \in Users, RecvCommand(t) \/ PeerGone(t) \/ Step(t),
         pc'[t] \in {"part_reply_last", "part_delete"}
  PROVE  LeaveChannel(t) \/ PartReply(t)
<1>1. DataOK /\ LocalOK
  BY DEF IInv, TypeInv
<1>2. ~Quiet(t)
  BY DEF Quiet, Marked
<1>3. ~(AddUserNick(t) \/ NickLockChannels(t) \/ NickOnChannel(t) \/ NickUnlockChannels(t)
        \/ NickCommit(t) \/ UpdateMemberMode(t))
  BY <1>1, GotoFacts, ReplyFacts
     DEF AddUserNick, NickLockChannels, NickOnChannel, NickUnlockChannels, NickCommit,
         UpdateMemberMode
<1>4. ~(TryGetChannel(t) \/ JoinChannel(t) \/ PartLock(t) \/ PartUnlock(t))
  BY <1>1, GotoFacts, ReturnFacts, ReplyFacts
     DEF TryGetChannel, AfterGet, JoinChannel, PartLock, PartUnlock
<1> QED
  BY <1>2, <1>3, <1>4, NobodyLeaves, QuietSteps DEF Step

\* It leaves the channel empty there, and keeps the handle until the deletion.
LEMMA LeftEmpty ==
  ASSUME Stay, IInv, Staying, NEW t \in Users, RecvCommand(t) \/ PeerGone(t) \/ Step(t),
         pc'[t] \in {"part_reply_last", "part_delete"}
  PROVE  \/ /\ pc[t] \in {"part_reply_last", "part_delete"}
            /\ chan'[t] = chan[t] /\ UNCHANGED members
         \/ /\ chan'[t] = chan[t] /\ chan[t] \in Chans
            /\ members[chan[t]] # {} /\ members'[chan[t]] = {}
<1>1. DataOK /\ LocalOK
  BY DEF IInv, TypeInv
<1>2. CASE PartReply(t)
  <2>1. ~Return(t, "FAILURE")
    BY <1>1, ReturnFacts
  <2>2. /\ Goto(t, IF pc[t] = "part_reply" THEN "notify" ELSE "part_delete")
        /\ UNCHANGED <<cmd, chan, members>> /\ pc[t] \in {"part_reply", "part_reply_last"}
    BY <1>2, <2>1 DEF PartReply, tableVars
  <2> QED
    BY <1>1, <2>2, GotoFacts
<1>3. CASE LeaveChannel(t)
  <2>1. ~ReplyAndReturn(t)
    BY <1>1, ReplyFacts
  <2>2. PICK g \in Named(chan[t], nick[t]) :
          /\ members' = [members EXCEPT ![chan[t]] = @ \ {g}]
          /\ Goto(t, AfterLeave(members[chan[t]] \ {g})) /\ UNCHANGED chan
    BY <1>3, <2>1 DEF LeaveChannel
  <2>3. chan[t] \in Chans /\ g \in members[chan[t]]
    BY <1>1, <1>3, <2>2 DEF LeaveChannel, LocalOK, Fits, Named
  <2>4. members'[chan[t]] = {}
    BY <1>1, <2>2, <2>3, GotoFacts DEF AfterLeave, DataOK
  <2> QED
    BY <2>2, <2>3, <2>4
<1> QED
  BY <1>2, <1>3, EntersDeletion

LEMMA PartedInductive ==
  ASSUME Stay, IInv, Staying, PartedGone, [Next]_vars
  PROVE  PartedGone'
<1>1. CASE UNCHANGED vars
  BY <1>1 DEF PartedGone, vars, threadVars, localVars, tableVars
<1>2. CASE Next
  <2>1. PICK t \in Users : RecvCommand(t) \/ PeerGone(t) \/ Step(t)
    BY <1>2 DEF Next
  <2>2. Keeps(t) /\ Others(t) /\ LocalOK
    BY <2>1, NobodyLeaves, QuietSteps, LoudKeeps DEF Step, Keeps, IInv, TypeInv
  <2>3. SUFFICES ASSUME NEW u \in Users, pc'[u] \in {"part_reply_last", "part_delete"},
                        NEW e \in members'[chan'[u]], e.by = u
                 PROVE  FALSE
    BY DEF PartedGone
  <2>4. CASE u = t
    BY <2>1, <2>3, <2>4, LeftEmpty DEF PartedGone
  <2>5. CASE u # t
    <3>1. pc[u] \in {"part_reply_last", "part_delete"} /\ chan'[u] = chan[u] /\ chan[u] \in Chans
      <4>1. pc[u] = pc'[u] /\ chan'[u] = chan[u]
        BY <2>2, <2>5 DEF Others
      <4>2. pc[u] \in {"part_reply_last", "part_delete"} => chan[u] \in Chans
        BY DEF IInv, TypeInv, LocalOK, Fits
      <4> QED
        BY <2>3, <4>1, <4>2
    <3>2. \A f \in members[chan[u]] : f.by # u
      BY <3>1 DEF PartedGone
    <3>3. ~WasThere(chan[u], e)
      BY <2>3, <3>2 DEF WasThere
    <3> QED
      BY <2>1, <2>3, <2>5, <3>1, <3>3, OnlyJoinAdds
  <2> QED
    BY <2>4, <2>5
<1> QED
  BY <1>1, <1>2

\* An entry survives a step, up to its nickname and its flags.
Survives(c, e) == \E f \in members'[c] : f.by = e.by

LEMMA OnlyLeaveRemoves ==
  ASSUME Stay, IInv, StayInv, [Next]_vars, NEW c \in Tabled, NEW e \in members[c], ~Survives(c, e)
  PROVE  pc[e.by] = "part_leave" /\ pc'[e.by] # "part_leave" /\ chan[e.by] = c
<1>1. c \in Chans /\ DataOK /\ LocalOK /\ e \in Member /\ Staying /\ FiledAt(c)
  BY TableFacts DEF IInv, TypeInv, StayInv, Filed
<1>2. members'[c] # members[c]
  BY DEF Survives
<1>3. PICK t \in Users : RecvCommand(t) \/ PeerGone(t) \/ Step(t)
  BY <1>2 DEF Next, vars, tableVars
<1>4. ~Quiet(t)
  BY <1>2 DEF Quiet
<1>5. ~(AddUserNick(t) \/ NickLockChannels(t) \/ NickUnlockChannels(t) \/ NickCommit(t)
        \/ PartLock(t) \/ PartReply(t) \/ PartUnlock(t))
  BY <1>2 DEF AddUserNick, NickLockChannels, NickUnlockChannels, NickCommit, PartLock, PartReply,
              PartUnlock, tableVars
<1>6. ~TryGetChannel(t)
  BY <1>1, <1>2 DEF TryGetChannel, Fresh, DataOK
<1>7. ~JoinChannel(t)
  <2>1. SUFFICES ASSUME JoinChannel(t) PROVE FALSE
    OBVIOUS
  <2>2. PICK f : members' = [members EXCEPT ![chan[t]] = @ \cup {f}]
    BY <1>2, <2>1 DEF JoinChannel
  <2>3. e \in members'[c]
    BY <1>1, <2>2 DEF DataOK
  <2> QED
    BY <2>3 DEF Survives
<1>8. \A d \in Chans : \A g \in members[d] : \A f :
        Replace(d, g, f) /\ f.by = g.by => Survives(c, e)
  <2>1. SUFFICES ASSUME NEW d \in Chans, NEW g \in members[d], NEW f, Replace(d, g, f), f.by = g.by
                 PROVE  Survives(c, e)
    OBVIOUS
  <2>2. members'[c] = IF c = d THEN (members[c] \ {g}) \cup {f} ELSE members[c]
    BY <1>1, <2>1 DEF Replace, DataOK
  <2> QED
    BY <2>1, <2>2 DEF Survives
<1>9. ~NickOnChannel(t)
  <2>1. SUFFICES ASSUME NickOnChannel(t) PROVE FALSE
    OBVIOUS
  <2>2. PICK d \in todo[t] : UpdateMemberNick(t, d)
    BY <2>1 DEF NickOnChannel
  <2>3. PICK g \in Named(d, nick[t]) : Replace(d, g, [g EXCEPT !.nick = cmd[t].nick, !.own = FALSE])
    BY <1>2, <2>2 DEF UpdateMemberNick
  <2>4. d \in Chans /\ g \in members[d] /\ ([g EXCEPT !.nick = cmd[t].nick, !.own = FALSE]).by = g.by
    BY <1>1, <2>3, TableFacts DEF DataOK, Named, Member
  <2> QED
    BY <1>8, <2>3, <2>4
<1>10. ~UpdateMemberMode(t)
  <2>1. SUFFICES ASSUME UpdateMemberMode(t) PROVE FALSE
    OBVIOUS
  <2>2. PICK g \in Named(chan[t], cmd[t].nick) : Replace(chan[t], g, [g EXCEPT !.op = cmd[t].on])
    BY <1>2, <2>1 DEF UpdateMemberMode
  <2>3. chan[t] \in Chans /\ g \in members[chan[t]] /\ ([g EXCEPT !.op = cmd[t].on]).by = g.by
    BY <1>1, <2>1, <2>2, TableFacts DEF UpdateMemberMode, LocalOK, Fits, Named, Member
  <2> QED
    BY <1>8, <2>2, <2>3
<1>11. LeaveChannel(t)
  BY <1>3, <1>4, <1>5, <1>6, <1>7, <1>9, <1>10, NobodyLeaves, QuietSteps DEF Step, StayInv
<1>12. PICK g \in Named(chan[t], nick[t]) :
         /\ members' = [members EXCEPT ![chan[t]] = @ \ {g}]
         /\ Goto(t, AfterLeave(members[chan[t]] \ {g}))
  BY <1>2, <1>11 DEF LeaveChannel
<1>13. e = g /\ c = chan[t]
  BY <1>1, <1>12 DEF DataOK, Survives
<1>14. e.by = t
  BY <1>1, <1>12, <1>13, OwnEntry
<1> QED
  BY <1>1, <1>11, <1>12, <1>13, <1>14, GotoFacts DEF LeaveChannel, AfterLeave

\* Names leave the channel table in PART's deletion only.
LEMMA OnlyDeletionDelists ==
  ASSUME Stay, IInv, StayInv, [Next]_vars, NEW m \in Names, chanOf[m] # NoChan, chanOf'[m] # chanOf[m]
  PROVE  \E t \in Users : /\ Deleting(t, chanOf[m]) /\ pc[t] = "part_delete"
                          /\ cmd[t].name = m /\ chanOf'[m] = NoChan
<1>1. DataOK /\ LocalOK /\ Staying /\ PartHandle
  BY DEF IInv, TypeInv, StayInv
<1>2. PICK t \in Users : RecvCommand(t) \/ PeerGone(t) \/ Step(t)
  BY DEF Next, vars, tableVars
<1>3. ~Quiet(t)
  BY DEF Quiet
<1>4. ~(AddUserNick(t) \/ NickLockChannels(t) \/ NickOnChannel(t) \/ NickUnlockChannels(t)
        \/ NickCommit(t) \/ JoinChannel(t) \/ PartLock(t) \/ LeaveChannel(t) \/ PartReply(t)
        \/ UpdateMemberMode(t))
  BY DEF AddUserNick, NickLockChannels, NickOnChannel, NickUnlockChannels, NickCommit, JoinChannel,
         PartLock, LeaveChannel, PartReply, UpdateMemberMode, tableVars
<1>5. ~TryGetChannel(t)
  BY <1>1 DEF TryGetChannel, DataOK
<1>6. PartUnlock(t)
  BY <1>1, <1>2, <1>3, <1>4, <1>5, NobodyLeaves, QuietSteps DEF Step
<1>7. pc[t] = "part_delete" /\ chanOf' = [chanOf EXCEPT ![cmd[t].name] = NoChan]
  BY <1>6 DEF PartUnlock
<1>8. cmd[t].name = m /\ chanOf'[m] = NoChan
  BY <1>1, <1>7 DEF DataOK
<1>9. chan[t] = chanOf[m]
  BY <1>1, <1>7, <1>8 DEF PartHandle
<1> QED
  BY <1>7, <1>8, <1>9 DEF Deleting

\* The two ways out of the channel of a name.
LEMMA WaysOut ==
  ASSUME Stay, IInv, StayInv, PartedGone, [Next]_vars,
         NEW m \in Names, NEW u \in On(m) \ On(m)'
  PROVE  \/ pc[u] = "part_leave" /\ cmd[u].name = m /\ pc'[u] # "part_leave"
         \/ \E t \in Users \ {u} : /\ Deleting(t, chanOf[m]) /\ pc[t] = "part_delete"
                                    /\ cmd[t].name = m /\ chanOf'[m] = NoChan
<1>1. DataOK /\ LocalOK /\ OneName /\ PartHandle
  BY DEF IInv, TypeInv, StayInv
<1>2. chanOf[m] # NoChan /\ chanOf[m] \in Tabled
  BY DEF On, Tabled
<1>3. PICK e \in members[chanOf[m]] : e.by = u
  BY <1>2 DEF On
<1>4. CASE chanOf'[m] = chanOf[m]
  <2>1. ~Survives(chanOf[m], e)
    BY <1>2, <1>3, <1>4 DEF On, Survives
  <2>2. pc[u] = "part_leave" /\ pc'[u] # "part_leave" /\ chan[u] = chanOf[m]
    BY <1>2, <1>3, <2>1, OnlyLeaveRemoves
  <2>3. u \in Users /\ cmd[u].name \in Names
    <3>1. u \in Users
      BY <1>2, <1>3, TableFacts
    <3>2. cmd[u] \in Commands /\ cmd[u].op = "PART"
      BY <1>1, <2>2, <3>1 DEF LocalOK, Fits, NoCmd
    <3> QED
      BY <3>1, <3>2, CommandFacts
  <2>4. cmd[u].name = m
    BY <1>1, <1>2, <2>2, <2>3 DEF PartHandle, OneName
  <2> QED
    BY <2>2, <2>4
<1>5. CASE chanOf'[m] # chanOf[m]
  <2>1. PICK t \in Users : /\ Deleting(t, chanOf[m]) /\ pc[t] = "part_delete"
                            /\ cmd[t].name = m /\ chanOf'[m] = NoChan
    BY <1>2, <1>5, OnlyDeletionDelists
  <2>2. t # u
    BY <1>3, <2>1 DEF PartedGone, Deleting
  <2> QED
    BY <2>1, <2>2
<1> QED
  BY <1>4, <1>5

\* And what makes PART delete a channel.
LEMMA DeletesEmpty ==
  ASSUME Stay, IInv, StayInv, [Next]_vars, NEW t \in Users, NEW c \in Chans,
         Deleting(t, c)', ~Deleting(t, c)
  PROVE  members[c] # {} /\ members'[c] = {}
<1>1. PICK u \in Users : RecvCommand(u) \/ PeerGone(u) \/ Step(u)
  BY DEF Next, Deleting, vars, threadVars, localVars
<1>2. Staying /\ Others(u)
  BY <1>1, NobodyLeaves, QuietSteps, LoudKeeps DEF Step, Keeps, StayInv
<1>3. u = t
  BY <1>2 DEF Others, Deleting
<1> QED
  BY <1>1, <1>2, <1>3, LeftEmpty DEF Deleting

\* While every client stays, a client is out of the channel of a name by its own PART,
\* which takes out nobody else although leave_channel looks the entry up by nickname
\* and a rename may be under way, or because another client's PART deletes the channel:
\* that PART left it empty, so the client came in afterwards, on a handle it had.
THEOREM LeavesByOwnCommand ==
  ASSUME Stay
  PROVE  Spec => MembershipByOwnCommand
<1> DEFINE OutStep == /\ \A m \in Names : \A u \in On(m) \ On(m)' :
                          \/ pc[u] = "part_leave" /\ cmd[u].name = m /\ pc'[u] # "part_leave"
                          \/ \E t \in Users \ {u} : /\ Deleting(t, chanOf[m]) /\ pc[t] = "part_delete"
                                                     /\ cmd[t].name = m /\ chanOf'[m] = NoChan
                     /\ \A t \in Users, c \in Chans :
                          Deleting(t, c)' /\ ~Deleting(t, c) => members[c] # {} /\ members'[c] = {}
<1>1. IInv /\ StayInv /\ PartedGone /\ [Next]_vars => (IInv /\ StayInv /\ PartedGone)'
  BY InvInductive, StayInductive, PartedInductive DEF StayInv
<1>2. Init => PartedGone
  BY DEF Init, PartedGone
<1>3. IInv /\ StayInv /\ PartedGone /\ [Next]_vars => [OutStep]_vars
  BY WaysOut, DeletesEmpty
<1> QED
  BY InvInit, StayInit, <1>1, <1>2, <1>3, PTL DEF Spec, MembershipByOwnCommand
-------------------------------------------------------------------------------
(* Operators *)

LEMMA CreatorQuiet ==
  ASSUME IInv, Creator, NEW t \in Users, Others(t),
         \A c \in Chans : members'[c] \subseteq members[c],
         pc'[t] # "join_new"
  PROVE  Creator'
<1>1. \A u \in Users : pc'[u] = "join_new" =>
        u # t /\ pc[u] = "join_new" /\ chan'[u] = chan[u] /\ chan[u] \in Chans
  BY DEF Others, IInv, TypeInv, LocalOK, Fits
<1> QED
  BY <1>1 DEF Creator, OneCreator

\* try_get_channel puts a new channel where no other thread has a handle.
LEMMA CreatorTryGet ==
  ASSUME IInv, Creator, NEW t \in Users, TryGetChannel(t)
  PROVE  Creator'
<1> DEFINE name == cmd[t].name
<1>a. LocalOK /\ DataOK /\ Goto(t, AfterGet(chanOf[name] # NoChan)) /\ UNCHANGED cmd
  BY DEF IInv, TypeInv, TryGetChannel
<1>1. CASE chanOf[name] # NoChan
  <2>1. chan' = [chan EXCEPT ![t] = chanOf[name]] /\ UNCHANGED members
    BY <1>1 DEF TryGetChannel
  <2>2. Others(t) /\ pc'[t] = "join_add"
    BY <1>a, <1>1, <2>1, TakeOthers DEF AfterGet
  <2> QED
    BY <2>1, <2>2, CreatorQuiet
<1>2. CASE chanOf[name] = NoChan
  <2>1. PICK c \in Fresh : members' = [members EXCEPT ![c] = {}] /\ chan' = [chan EXCEPT ![t] = c]
    BY <1>2 DEF TryGetChannel
  <2>2. Others(t) /\ chan'[t] = c /\ c \in Chans /\ \A u \in Users : chan[u] # c
    BY <1>a, <2>1, TakeOthers DEF Fresh
  <2>3. members'[c] = {} /\ \A d \in Chans \ {c} : members'[d] = members[d]
    BY <1>a, <2>1, <2>2 DEF DataOK
  <2>4. \A u \in Users \ {t} : pc'[u] = "join_new" =>
          pc[u] = "join_new" /\ chan'[u] = chan[u] /\ chan[u] \in Chans \ {c}
    BY <1>a, <2>2 DEF Others, LocalOK, Fits
  <2>5. OneCreator'
    BY <2>2, <2>3 DEF Creator, OneCreator
  <2>6. \A u \in Users : pc'[u] = "join_new" => \A e \in members'[chan'[u]] : ~e.op
    BY <2>2, <2>3, <2>4 DEF Creator
  <2>7. \A u, v \in Users : pc'[u] = "join_new" /\ pc'[v] = "join_new" /\ chan'[u] = chan'[v] => u = v
    BY <2>2, <2>4 DEF Creator
  <2> QED
    BY <2>5, <2>6, <2>7 DEF Creator
<1> QED
  BY <1>1, <1>2

\* join_channel makes the creator the operator, and nobody was one before.
LEMMA CreatorJoin ==
  ASSUME IInv, Creator, NEW t \in Users, JoinChannel(t)
  PROVE  Creator'
<1>a. LocalOK /\ DataOK /\ chan[t] \in Chans /\ pc[t] \in {"join_add", "join_new"}
  BY DEF IInv, TypeInv, LocalOK, Fits, JoinChannel
<1>b. Others(t) /\ pc'[t] \in {"idle", "notify", "close"}
  BY <1>a, ReturnFacts, ReturnOthers, GotoOthers DEF JoinChannel
<1>1. CASE UNCHANGED members
  BY <1>b, <1>1, CreatorQuiet
<1>2. CASE ~UNCHANGED members
  <2> DEFINE f == [by |-> t, nick |-> nick[t], op |-> (pc[t] = "join_new"), own |-> TRUE]
  <2>1. members' = [members EXCEPT ![chan[t]] = @ \cup {f}]
    BY <1>2 DEF JoinChannel
  <2>2. f.op => pc[t] = "join_new"
    OBVIOUS
  <2> HIDE DEF f
  <2>3. /\ members'[chan[t]] = members[chan[t]] \cup {f}
        /\ \A d \in Chans \ {chan[t]} : members'[d] = members[d]
    BY <1>a, <2>1 DEF DataOK
  <2>4. \A u \in Users : pc'[u] = "join_new" =>
          u # t /\ pc[u] = "join_new" /\ chan'[u] = chan[u] /\ chan[u] \in Chans
    BY <1>a, <1>b DEF Others, LocalOK, Fits
  <2>5. OneCreator'
    BY <1>a, <2>2, <2>3 DEF Creator, OneCreator
  <2>6. \A u \in Users : pc'[u] = "join_new" => \A e \in members'[chan'[u]] : ~e.op
    <3>1. SUFFICES ASSUME NEW u \in Users, pc'[u] = "join_new", NEW e \in members'[chan'[u]]
                   PROVE  ~e.op
      OBVIOUS
    <3>2. u # t /\ pc[u] = "join_new" /\ chan'[u] = chan[u] /\ chan[u] \in Chans
      BY <2>4, <3>1
    <3>3. CASE e \in members[chan[u]]
      BY <3>2, <3>3 DEF Creator
    <3>4. CASE chan[u] = chan[t] /\ e = f
      BY <2>2, <3>2, <3>4 DEF Creator
    <3> QED
      BY <2>3, <3>1, <3>2, <3>3, <3>4
  <2> QED
    BY <2>4, <2>5, <2>6 DEF Creator
<1> QED
  BY <1>1, <1>2

\* A rename leaves the operator flag as it is.
LEMMA CreatorRename ==
  ASSUME IInv, Creator, NEW t \in Users, NickOnChannel(t)
  PROVE  Creator'
<1>a. LocalOK /\ DataOK /\ UNCHANGED <<pc, chan>>
  BY DEF IInv, TypeInv, NickOnChannel
<1>1. PICK d \in todo[t] : UpdateMemberNick(t, d)
  BY DEF NickOnChannel
<1>2. CASE UNCHANGED members
  BY <1>a, <1>2 DEF Creator, OneCreator
<1>3. ASSUME NEW e \in Named(d, nick[t]), Replace(d, e, [e EXCEPT !.nick = cmd[t].nick, !.own = FALSE])
      PROVE  Creator'
  <2> DEFINE f == [e EXCEPT !.nick = cmd[t].nick, !.own = FALSE]
  <2>1. d \in Chans /\ e \in members[d] /\ f.op = e.op
    BY <1>a, <1>3, TableFacts DEF DataOK, Named, Member
  <2> HIDE DEF f
  <2>2. \A c \in Chans : members'[c] = IF c = d THEN (members[c] \ {e}) \cup {f} ELSE members[c]
    BY <1>a, <1>3 DEF Replace, DataOK, f
  <2>3. \A u \in Users : pc[u] = "join_new" => chan[u] \in Chans
    BY <1>a DEF LocalOK, Fits
  <2>4. OneCreator'
    <3>1. SUFFICES ASSUME NEW c \in Chans, NEW g \in members'[c], NEW h \in members'[c], g.op, h.op
                   PROVE  g = h
      BY DEF OneCreator
    <3>2. \A x, y \in members[c] : x.op /\ y.op => x = y
      BY DEF Creator, OneCreator
    <3>3. CASE c # d
      BY <2>2, <3>1, <3>2, <3>3
    <3>4. CASE c = d
      <4>1. members'[c] = (members[c] \ {e}) \cup {f} /\ e \in members[c]
        BY <2>1, <2>2, <3>4
      <4>2. \A x \in members[c] \ {e} : ~(x.op /\ e.op)
        BY <3>2, <4>1
      <4> QED
        BY <2>1, <3>1, <3>2, <4>1, <4>2
    <3> QED
      BY <3>3, <3>4
  <2>5. \A u \in Users : pc[u] = "join_new" => \A g \in members'[chan[u]] : ~g.op
    <3> SUFFICES ASSUME NEW u \in Users, pc[u] = "join_new", NEW g \in members'[chan[u]]
                 PROVE  ~g.op
      OBVIOUS
    <3>1. \A x \in members[chan[u]] : ~x.op
      BY DEF Creator
    <3>2. g \in members[chan[u]] \/ (chan[u] = d /\ g = f)
      BY <2>2, <2>3
    <3> QED
      BY <2>1, <3>1, <3>2
  <2> QED
    BY <1>a, <2>4, <2>5 DEF Creator
<1> QED
  BY <1>1, <1>2, <1>3 DEF UpdateMemberNick

LEMMA CreatorInductive ==
  ASSUME Stay, "MODE" \notin Cmds, IInv, Staying, Creator, [Next]_vars
  PROVE  Creator'
<1>1. CASE UNCHANGED vars
  BY <1>1 DEF Creator, OneCreator, vars, threadVars, localVars, tableVars
<1>2. CASE Next
  <2>1. PICK t \in Users : RecvCommand(t) \/ PeerGone(t) \/ Step(t)
    BY <1>2 DEF Next
  <2>2. Keeps(t) /\ Others(t) /\ LocalOK /\ DataOK
    BY <2>1, NobodyLeaves, QuietSteps, LoudKeeps DEF Step, Keeps, IInv, TypeInv
  <2>3. ~UpdateMemberMode(t)
    BY <2>2 DEF UpdateMemberMode, Staying, LocalOK, Fits
  <2>4. CASE Quiet(t)
    BY <2>2, <2>4, CreatorQuiet DEF Quiet, Marked
  <2>5. CASE LeaveChannel(t)
    <3>1. members' = members \/ \E e : members' = [members EXCEPT ![chan[t]] = @ \ {e}]
      BY <2>5 DEF LeaveChannel
    <3>2. \A c \in Chans : members'[c] \subseteq members[c]
      BY <2>2, <3>1 DEF DataOK
    <3> QED
      BY <2>2, <2>5, <3>2, ReplyFacts, GotoFacts, CreatorQuiet DEF LeaveChannel, AfterLeave
  <2>6. CASE AddUserNick(t) \/ NickLockChannels(t) \/ NickUnlockChannels(t) \/ NickCommit(t)
             \/ PartLock(t) \/ PartReply(t) \/ PartUnlock(t)
    <3>1. UNCHANGED members
      BY <2>6 DEF AddUserNick, NickLockChannels, NickUnlockChannels, NickCommit, PartLock,
                  PartReply, PartUnlock, tableVars
    <3>2. pc'[t] # "join_new"
      BY <2>2, <2>6, ReplyFacts, ReturnFacts, GotoFacts
         DEF AddUserNick, NickLockChannels, NickUnlockChannels, NickCommit, PartLock,
             PartReply, PartUnlock
    <3> QED
      BY <2>2, <3>1, <3>2, CreatorQuiet
  <2> QED
    BY <2>1, <2>3, <2>4, <2>5, <2>6, CreatorTryGet, CreatorJoin, CreatorRename, NobodyLeaves,
       QuietSteps DEF Step
<1> QED
  BY <1>1, <1>2

\* While every client stays and nobody sends MODE, a channel has at most one
\* operator: is_creator is decided under the mutex of the channel table and used
\* after it is released, and still no two threads are the creator of a channel.
THEOREM OneOperator ==
  ASSUME Stay, "MODE" \notin Cmds
  PROVE  Spec => []OneCreator
<1>1. Init => Creator
  BY DEF Init, Creator, OneCreator
<1>2. IInv /\ StayInv /\ Creator /\ [Next]_vars => (IInv /\ StayInv /\ Creator)'
  BY InvInductive, StayInductive, CreatorInductive DEF StayInv
<1>3. Creator => OneCreator
  BY DEF Creator
<1> QED
  BY InvInit, StayInit, <1>1, <1>2, <1>3, PTL DEF Spec
===============================================================================
