----------------------------- MODULE ServerProofs -----------------------------
(***************************************************************************)
(* Theorems about Server, for every set of clients, nicknames, channel     *)
(* names and channel objects, every choice of commands and every bound on  *)
(* their number.                                                           *)
(***************************************************************************)
EXTENDS Server, TLAPS

\* What a label says about the command being processed and about the channel
\* handle the thread has in its hands.
Fits(label, op, c) ==
  /\ label \in {"add_nick", "nick_lock"} \cup UserCritical => op = "NICK"
  /\ label \in {"join_get", "join_add", "join_new"} => op = "JOIN"
  /\ label \in {"part_lock", "part_leave", "part_reply", "part_reply_last",
                "part_unlock", "part_delete"} => op = "PART"
  /\ label \in {"mode_get", "mode_target", "mode_auth", "mode_set"} => op = "MODE"
  /\ label \in {"msg_get", "msg_auth"} => op = "MSGCHAN"
  /\ label = "user_get" => op \in {"MSGNICK", "WHOIS"}
  /\ label = "quit_get" => op = "QUIT"
  /\ label = "next" => op \in {"NICK", "QUIT"}
  /\ label \in {"notify", "each", "send"} =>
       op \in {"JOIN", "PART", "MODE", "MSGCHAN", "NICK", "QUIT"}
  /\ label \in {"join_add", "join_new", "part_leave", "part_reply", "part_reply_last",
                "part_delete", "mode_target", "mode_auth", "mode_set", "msg_auth",
                "notify"} => c \in Chans

\* TypeOK in two halves, the first strengthened by Fits.
LocalOK ==
  /\ pc \in [Users -> Labels]
  /\ cmd \in [Users -> Commands \cup {NoCmd}]
  /\ chan \in [Users -> Chans \cup {NoChan}]
  /\ \A t \in Users : Fits(pc[t], cmd[t].op, chan[t])

DataOK ==
  /\ todo \in [Users -> SUBSET Chans]
  /\ affected \in [Users -> SUBSET Chans]
  /\ rcpt \in [Users -> SUBSET Member]
  /\ dest \in [Users -> Users \cup {NoUser}]
  /\ nick \in [Users -> Nicks \cup {NoNick}]
  /\ ircop \in [Users -> BOOLEAN]
  /\ sock \in [Users -> {"open", "reset", "closed"}]
  /\ budget \in [Users -> 0..MaxCmds]
  /\ owner \in [Nicks -> Users \cup {NoUser}]
  /\ chanOf \in [Names -> Chans \cup {NoChan}]
  /\ members \in [Chans -> SUBSET Member]
  /\ opNum \in Nat
  /\ lockU \in Users \cup {NoUser}
  /\ lockC \in Users \cup {NoUser}

TypeInv == LocalOK /\ DataOK

\* A thread has a nickname from its registration until destroy_user, and its peer
\* is there until it is registered.
Registered ==
  \A t \in Users :
    /\ pc[t] \notin {"idle", "add_nick", "gone"} => nick[t] # NoNick
    /\ pc[t] = "add_nick" => nick[t] = NoNick
    /\ nick[t] = NoNick /\ pc[t] # "gone" => sock[t] = "open"

\* The nickname a rename is moving to stays free for as long as it is under way,
\* and a user that has been taken out of the table is under no nickname.
RenameTargetFree ==
  \A t \in Users : /\ pc[t] \in UserCritical => ~InUse(cmd[t].nick)
                   /\ pc[t] = "free" => \A n \in Nicks : owner[n] # t

NickInv == LockDiscipline /\ Registered /\ NicksConsistent /\ RenameTargetFree

IInv == TypeInv /\ NickInv
-------------------------------------------------------------------------------
(* Lemmas on commands and on the helpers that move a thread *)

\* A command has the arguments its handler uses.
LEMMA CommandFacts ==
  ASSUME NEW c \in Commands
  PROVE  /\ c.op \in Kinds \ {"DROP"}
         /\ c.op \in {"NICK", "MODE", "MSGNICK", "WHOIS"} => c.nick \in Nicks
         /\ c.op \in {"JOIN", "PART", "MODE", "MSGCHAN"} => c.name \in Names
         /\ c.on \in BOOLEAN
  BY DEF Commands, CommandSet, Kinds

\* So a thread at a label finds the arguments the code at that label reads.
LEMMA ArgumentFacts ==
  ASSUME LocalOK, NEW t \in Users
  PROVE  /\ pc[t] \in {"add_nick", "nick_lock", "user_get", "mode_target", "mode_set"}
                      \cup UserCritical => cmd[t].nick \in Nicks
         /\ pc[t] \in {"join_get", "part_lock", "part_delete", "mode_get", "msg_get"}
              => cmd[t].name \in Names
         /\ cmd[t].on \in BOOLEAN
<1>1. cmd[t] \in Commands \/ cmd[t] = NoCmd
  BY DEF LocalOK
<1>2. CASE cmd[t] = NoCmd
  BY <1>2 DEF LocalOK, Fits, NoCmd
<1>3. CASE cmd[t] \in Commands
  BY <1>3, CommandFacts DEF LocalOK, Fits
<1> QED
  BY <1>1, <1>2, <1>3

\* The handler of a command starts at a label that fits it.
LEMMA EntryFacts ==
  ASSUME NEW c \in Commands, NEW k
  PROVE  EntryPoint[c.op] \in Labels /\ Fits(EntryPoint[c.op], c.op, k)
  BY CommandFacts DEF EntryPoint, Kinds, Fits, Labels, UserCritical, ChanCritical

\* A thread that moves to a label that fits leaves the others where they are.
LEMMA LocalStep ==
  ASSUME LocalOK, NEW t \in Users, NEW l \in Labels,
         NEW c \in Commands \cup {NoCmd}, NEW k \in Chans \cup {NoChan}, Fits(l, c.op, k),
         pc' = [pc EXCEPT ![t] = l],
         cmd' = [cmd EXCEPT ![t] = c],
         chan' = [chan EXCEPT ![t] = k]
  PROVE  LocalOK'
<1>1. ASSUME NEW u \in Users PROVE Fits(pc'[u], cmd'[u].op, chan'[u])
  BY DEF LocalOK
<1> QED
  BY <1>1 DEF LocalOK

LEMMA GotoStep ==
  ASSUME LocalOK, NEW t \in Users, NEW l \in Labels, Goto(t, l), UNCHANGED <<cmd, chan>>,
         Fits(l, cmd[t].op, chan[t])
  PROVE  LocalOK'
<1>1. pc' = [pc EXCEPT ![t] = l] /\ cmd' = cmd /\ chan' = chan
  BY DEF Goto
<1>2. ASSUME NEW u \in Users PROVE Fits(pc'[u], cmd'[u].op, chan'[u])
  <2>1. CASE u = t
    BY <1>1, <2>1 DEF LocalOK
  <2>2. CASE u # t
    BY <1>1, <2>2 DEF LocalOK
  <2> QED
    BY <2>1, <2>2
<1> QED
  BY <1>1, <1>2 DEF LocalOK

\* The same for a thread that also takes a channel handle.
LEMMA TakeStep ==
  ASSUME LocalOK, NEW t \in Users, NEW l \in Labels, NEW k \in Chans, Goto(t, l), UNCHANGED cmd,
         chan' = [chan EXCEPT ![t] = k], Fits(l, cmd[t].op, k)
  PROVE  LocalOK'
<1>1. cmd' = [cmd EXCEPT ![t] = cmd[t]] /\ cmd[t] \in Commands \cup {NoCmd}
  BY DEF LocalOK
<1> QED
  BY <1>1, LocalStep DEF Goto

LEMMA ReturnStep ==
  ASSUME LocalOK, NEW t \in Users, NEW r, Return(t, r)
  PROVE  LocalOK'
<1> DEFINE l == IF r = "SUCCESS" THEN "idle" ELSE "close"
<1>1. l \in Labels /\ Fits(l, NoCmd.op, NoChan)
  BY DEF Labels, Fits, UserCritical
<1> QED
  BY <1>1, LocalStep DEF Return, Goto

LEMMA ReplyStep ==
  ASSUME LocalOK, NEW t \in Users, ReplyAndReturn(t)
  PROVE  LocalOK'
  BY ReturnStep DEF ReplyAndReturn
-------------------------------------------------------------------------------
(* Type correctness *)

LEMMA RecvLocal ==
  ASSUME LocalOK, NEW t \in Users, RecvCommand(t)
  PROVE  LocalOK'
<1> DEFINE Label(c) == IF nick[t] = NoNick THEN "add_nick" ELSE EntryPoint[c.op]
<1>1. PICK c \in Commands :
        /\ IF nick[t] = NoNick THEN c.op = "NICK" ELSE c.op \in Cmds
        /\ cmd' = [cmd EXCEPT ![t] = c]
        /\ pc' = [pc EXCEPT ![t] = Label(c)]
  BY DEF RecvCommand, Goto
<1>2. Label(c) \in Labels /\ Fits(Label(c), c.op, chan[t])
  <2>1. CASE nick[t] = NoNick
    BY <1>1, <2>1 DEF Fits, Labels, UserCritical, ChanCritical
  <2>2. CASE nick[t] # NoNick
    BY <2>2, EntryFacts
  <2> QED
    BY <2>1, <2>2
<1>3. chan' = [chan EXCEPT ![t] = chan[t]] /\ chan[t] \in Chans \cup {NoChan}
  BY DEF RecvCommand, LocalOK
<1> HIDE DEF Label
<1> QED
  BY <1>1, <1>2, <1>3, LocalStep

LEMMA LocalInductive ==
  ASSUME TypeInv, [Next]_vars
  PROVE  LocalOK'
<1> USE GotoStep, ReturnStep, ReplyStep
    DEF AfterGet, Fits, Labels, UserCritical, ChanCritical
<1>a. LocalOK /\ DataOK
  BY DEF TypeInv
<1>1. ASSUME NEW t \in Users, RecvCommand(t) PROVE LocalOK'
  BY <1>a, <1>1, RecvLocal
<1>2. ASSUME NEW t \in Users, PeerGone(t) PROVE LocalOK'
  BY <1>a, <1>2 DEF PeerGone, LocalOK, threadVars, localVars
<1>3. ASSUME NEW t \in Users, RecvFails(t) PROVE LocalOK'
  BY <1>a, <1>3 DEF RecvFails, LocalOK, localVars
<1>4. ASSUME NEW t \in Users, Close(t) PROVE LocalOK'
  BY <1>a, <1>4 DEF Close, LocalOK, localVars
<1>5. ASSUME NEW t \in Users, DeleteUser(t) PROVE LocalOK'
  BY <1>a, <1>5 DEF DeleteUser, LocalOK, localVars
<1>6. ASSUME NEW t \in Users, DestroyUser(t) PROVE LocalOK'
  BY <1>a, <1>6 DEF DestroyUser, LocalOK, localVars
<1>7. ASSUME NEW t \in Users, AddUserNick(t) PROVE LocalOK'
  BY <1>a, <1>7 DEF AddUserNick, LocalOK, localVars
<1>8. ASSUME NEW t \in Users, CountChannels(t) PROVE LocalOK'
  BY <1>a, <1>8 DEF CountChannels, ReturnFromLusers, LocalOK, localVars
<1>8a. ASSUME NEW t \in Users, SendCounts(t) PROVE LocalOK'
  BY <1>a, <1>8a DEF SendCounts, ReturnFromLusers, LocalOK, localVars
<1>9. ASSUME NEW t \in Users, Reply(t) PROVE LocalOK'
  BY <1>a, <1>9 DEF Reply, LocalOK, localVars
<1>10. ASSUME NEW t \in Users, Oper(t) PROVE LocalOK'
  BY <1>a, <1>10 DEF Oper, LocalOK, localVars
<1>11. ASSUME NEW t \in Users, GetUser(t) PROVE LocalOK'
  BY <1>a, <1>11 DEF GetUser, LocalOK, localVars
<1>12. ASSUME NEW t \in Users, SendToUser(t) PROVE LocalOK'
  BY <1>a, <1>12 DEF SendToUser, LocalOK, localVars
<1>13. ASSUME NEW t \in Users, Whois(t) PROVE LocalOK'
  BY <1>a, <1>13 DEF Whois, LocalOK, localVars
<1>14. ASSUME NEW t \in Users, Snapshot(t) PROVE LocalOK'
  BY <1>a, <1>14 DEF Snapshot, LocalOK, localVars
<1>15. ASSUME NEW t \in Users, LookupMember(t) PROVE LocalOK'
  <2>1. UNCHANGED <<cmd, chan>> /\ pc[t] = "each" /\ (Goto(t, "send") \/ UNCHANGED pc)
    BY <1>15 DEF LookupMember
  <2>2. CASE Goto(t, "send")
    BY <1>a, <2>1, <2>2 DEF LocalOK
  <2>3. CASE UNCHANGED pc
    BY <1>a, <2>1, <2>3 DEF LocalOK
  <2> QED
    BY <2>1, <2>2, <2>3
<1>16. ASSUME NEW t \in Users, SendToMember(t) PROVE LocalOK'
  BY <1>a, <1>16 DEF SendToMember, LocalOK, localVars
<1>17. ASSUME NEW t \in Users, EndNotify(t) PROVE LocalOK'
  BY <1>a, <1>17 DEF EndNotify, LocalOK, localVars
<1>18. ASSUME NEW t \in Users, NextChannel(t) PROVE LocalOK'
  <2>1. ASSUME NEW c \in todo[t], chan' = [chan EXCEPT ![t] = c], Goto(t, "notify"), UNCHANGED cmd
        PROVE  LocalOK'
    <3>1. c \in Chans /\ Fits("notify", cmd[t].op, c)
      BY <1>a, <1>18 DEF NextChannel, LocalOK, DataOK
    <3> QED
      BY <1>a, <2>1, <3>1, TakeStep
  <2> QED
    BY <1>a, <1>18, <2>1 DEF NextChannel
<1>19. ASSUME NEW t \in Users, NickLock(t) PROVE LocalOK'
  BY <1>a, <1>19 DEF NickLock, LocalOK, localVars
<1>20. ASSUME NEW t \in Users, NickLockChannels(t) PROVE LocalOK'
  BY <1>a, <1>20 DEF NickLockChannels, LocalOK, localVars
<1>21. ASSUME NEW t \in Users, NickOnChannel(t) PROVE LocalOK'
  BY <1>a, <1>21 DEF NickOnChannel, LocalOK, localVars
<1>22. ASSUME NEW t \in Users, NickUnlockChannels(t) PROVE LocalOK'
  BY <1>a, <1>22 DEF NickUnlockChannels, LocalOK, localVars
<1>23. ASSUME NEW t \in Users, NickCommit(t) PROVE LocalOK'
  BY <1>a, <1>23 DEF NickCommit, LocalOK, localVars
<1>24. ASSUME NEW t \in Users, TryGetChannel(t) PROVE LocalOK'
  <2> DEFINE name == cmd[t].name
  <2>1. chanOf[name] \in Chans \cup {NoChan}
    BY <1>a, <1>24, ArgumentFacts DEF TryGetChannel, LocalOK, DataOK
  <2>2. CASE chanOf[name] # NoChan
    <3>1. chanOf[name] \in Chans /\ Fits("join_add", cmd[t].op, chanOf[name])
      BY <1>a, <1>24, <2>1, <2>2 DEF TryGetChannel, LocalOK
    <3> QED
      BY <1>a, <1>24, <2>2, <3>1, TakeStep DEF TryGetChannel
  <2>3. CASE chanOf[name] = NoChan
    <3>1. PICK c \in Fresh : chan' = [chan EXCEPT ![t] = c]
      BY <1>24, <2>3 DEF TryGetChannel
    <3>2. c \in Chans /\ Fits("join_new", cmd[t].op, c)
      BY <1>a, <1>24, <3>1 DEF TryGetChannel, LocalOK, Fresh
    <3> QED
      BY <1>a, <1>24, <2>3, <3>1, <3>2, TakeStep DEF TryGetChannel
  <2> QED
    BY <2>2, <2>3
<1>25. ASSUME NEW t \in Users, JoinChannel(t) PROVE LocalOK'
  BY <1>a, <1>25 DEF JoinChannel, LocalOK, localVars
<1>26. ASSUME NEW t \in Users, PartLock(t) PROVE LocalOK'
  <2> DEFINE c == chanOf[cmd[t].name]
  <2>1. CASE c = NoChan
    BY <1>a, <1>26, <2>1 DEF PartLock
  <2>2. CASE c # NoChan
    <3>1. c \in Chans /\ Fits("part_leave", cmd[t].op, c)
      BY <1>a, <1>26, <2>2, ArgumentFacts DEF PartLock, LocalOK, DataOK
    <3> QED
      BY <1>a, <1>26, <2>2, <3>1, TakeStep DEF PartLock
  <2> QED
    BY <2>1, <2>2
<1>27. ASSUME NEW t \in Users, LeaveChannel(t) PROVE LocalOK'
  <2>1. ASSUME NEW l \in {"part_reply", "part_reply_last"}, Goto(t, l), UNCHANGED <<cmd, chan>>
        PROVE  LocalOK'
    <3>1. l \in Labels /\ Fits(l, cmd[t].op, chan[t])
      BY <1>a, <1>27, <2>1 DEF LeaveChannel, LocalOK
    <3> QED
      BY <1>a, <2>1, <3>1, GotoStep
  <2> QED
    BY <1>a, <1>27, <2>1 DEF LeaveChannel, AfterLeave
<1>28. ASSUME NEW t \in Users, PartReply(t) PROVE LocalOK'
  BY <1>a, <1>28 DEF PartReply, LocalOK, localVars
<1>29. ASSUME NEW t \in Users, PartUnlock(t) PROVE LocalOK'
  BY <1>a, <1>29 DEF PartUnlock, LocalOK, localVars
<1>30. ASSUME NEW t \in Users, ListLock(t) PROVE LocalOK'
  BY <1>a, <1>30 DEF ListLock, LocalOK, localVars
<1>31. ASSUME NEW t \in Users, ListUnlock(t) PROVE LocalOK'
  BY <1>a, <1>31 DEF ListUnlock, LocalOK, localVars
<1>32. ASSUME NEW t \in Users, GetChannel(t) PROVE LocalOK'
  <2> DEFINE c == chanOf[cmd[t].name]
  <2>1. CASE c = NoChan
    BY <1>a, <1>32, <2>1 DEF GetChannel
  <2>2. CASE c # NoChan
    <3>1. /\ Goto(t, IF pc[t] = "mode_get" THEN "mode_target" ELSE "msg_auth")
          /\ chan' = [chan EXCEPT ![t] = c] /\ UNCHANGED cmd
          /\ pc[t] \in {"mode_get", "msg_get"}
      BY <1>32, <2>2 DEF GetChannel
    <3>2. c \in Chans
      BY <1>a, <2>2, <3>1, ArgumentFacts DEF DataOK
    <3>3. Fits(pc[t], cmd[t].op, chan[t])
      BY <1>a DEF LocalOK
    <3>4. CASE pc[t] = "mode_get"
      BY <1>a, <3>1, <3>2, <3>3, <3>4, TakeStep
    <3>5. CASE pc[t] = "msg_get"
      BY <1>a, <3>1, <3>2, <3>3, <3>5, TakeStep
    <3> QED
      BY <3>1, <3>4, <3>5
  <2> QED
    BY <2>1, <2>2
<1>33. ASSUME NEW t \in Users, CheckOnChannel(t) PROVE LocalOK'
  BY <1>a, <1>33 DEF CheckOnChannel, LocalOK, localVars
<1>34. ASSUME NEW t \in Users, ModeAuthorise(t) PROVE LocalOK'
  BY <1>a, <1>34 DEF ModeAuthorise, LocalOK, localVars
<1>35. ASSUME NEW t \in Users, UpdateMemberMode(t) PROVE LocalOK'
  BY <1>a, <1>35 DEF UpdateMemberMode, LocalOK, localVars
<1>36. ASSUME NEW t \in Users, QuitChannels(t) PROVE LocalOK'
  BY <1>a, <1>36 DEF QuitChannels, LocalOK, localVars
<1>37. CASE UNCHANGED vars
  BY <1>a, <1>37 DEF LocalOK, vars, threadVars, localVars
<1> QED
  BY <1>1, <1>2, <1>3, <1>4, <1>5, <1>6, <1>7, <1>8, <1>8a, <1>9, <1>10, <1>11, <1>12, <1>13, <1>14, <1>15, <1>16, <1>17, <1>18, <1>19, <1>20, <1>21, <1>22, <1>23, <1>24, <1>25, <1>26, <1>27, <1>28, <1>29, <1>30, <1>31, <1>32, <1>33, <1>34, <1>35, <1>36, <1>37 DEF Next, Step

\* An update of a member entry is a member entry.
LEMMA MemberFacts ==
  ASSUME NEW e \in Member
  PROVE  /\ \A n \in Nicks \cup {NoNick} : [e EXCEPT !.nick = n] \in Member
         /\ \A n \in Nicks : [e EXCEPT !.nick = n, !.own = FALSE] \in Member
         /\ \A b \in BOOLEAN : [e EXCEPT !.op = b] \in Member
  BY DEF Member

LEMMA ReplaceFacts ==
  ASSUME members \in [Chans -> SUBSET Member], NEW c, NEW e, NEW f \in Member, Replace(c, e, f)
  PROVE  members' \in [Chans -> SUBSET Member]
  BY DEF Replace

LEMMA DataInductive ==
  ASSUME TypeInv, [Next]_vars
  PROVE  DataOK'
<1> USE DEF DataOK, userVars, tableVars, lockVars, threadVars, localVars
<1>a. LocalOK /\ DataOK
  BY DEF TypeInv
<1>1. ASSUME NEW t \in Users, RecvCommand(t) PROVE DataOK'
  <2>1. budget' \in [Users -> 0..MaxCmds]
    BY <1>a, <1>1, ServerAssumption DEF RecvCommand
  <2> QED
    BY <1>a, <1>1, <2>1 DEF RecvCommand
<1>2. ASSUME NEW t \in Users, PeerGone(t) PROVE DataOK'
  BY <1>a, <1>2 DEF PeerGone
<1>3. ASSUME NEW t \in Users, RecvFails(t) PROVE DataOK'
  BY <1>a, <1>3 DEF RecvFails
<1>4. ASSUME NEW t \in Users, Close(t) PROVE DataOK'
  BY <1>a, <1>4 DEF Close
<1>5. ASSUME NEW t \in Users, DeleteUser(t) PROVE DataOK'
  BY <1>a, <1>5 DEF DeleteUser
<1>6. ASSUME NEW t \in Users, DestroyUser(t) PROVE DataOK'
  <2>1. ASSUME NEW S \in SUBSET Member PROVE Garbled(S, t) \in SUBSET Member
    <3>1. ASSUME NEW e \in S
          PROVE  (IF e.by = t /\ e.own THEN [e EXCEPT !.nick = NoNick] ELSE e) \in Member
      BY <2>1, MemberFacts
    <3> QED
      BY <3>1 DEF Garbled
  <2>2. members' \in [Chans -> SUBSET Member] /\ rcpt' \in [Users -> SUBSET Member]
    BY <1>a, <1>6, <2>1 DEF DestroyUser
  <2> QED
    BY <1>a, <1>6, <2>2 DEF DestroyUser
<1>7. ASSUME NEW t \in Users, AddUserNick(t) PROVE DataOK'
  BY <1>a, <1>7, ArgumentFacts DEF AddUserNick, LocalOK
<1>8. ASSUME NEW t \in Users, CountChannels(t) PROVE DataOK'
  BY <1>a, <1>8 DEF CountChannels, ReturnFromLusers
<1>8a. ASSUME NEW t \in Users, SendCounts(t) PROVE DataOK'
  BY <1>a, <1>8a DEF SendCounts, ReturnFromLusers
<1>9. ASSUME NEW t \in Users, Reply(t) PROVE DataOK'
  BY <1>a, <1>9 DEF Reply
<1>10. ASSUME NEW t \in Users, Oper(t) PROVE DataOK'
  <2>1. ircop' \in [Users -> BOOLEAN]
    BY <1>a, <1>10 DEF Oper
  <2>2. opNum' \in Nat
    BY <1>a, <1>10 DEF Oper, IncreaseOpNum
  <2> QED
    BY <1>a, <1>10, <2>1, <2>2 DEF Oper
<1>11. ASSUME NEW t \in Users, GetUser(t) PROVE DataOK'
  BY <1>a, <1>11, ArgumentFacts DEF GetUser, InUse
<1>12. ASSUME NEW t \in Users, SendToUser(t) PROVE DataOK'
  BY <1>a, <1>12 DEF SendToUser
<1>13. ASSUME NEW t \in Users, Whois(t) PROVE DataOK'
  BY <1>a, <1>13 DEF Whois
<1>14. ASSUME NEW t \in Users, Snapshot(t) PROVE DataOK'
  BY <1>a, <1>14 DEF Snapshot, LocalOK, Fits
<1>15. ASSUME NEW t \in Users, LookupMember(t) PROVE DataOK'
  BY <1>a, <1>15 DEF LookupMember, InUse
<1>16. ASSUME NEW t \in Users, SendToMember(t) PROVE DataOK'
  BY <1>a, <1>16 DEF SendToMember
<1>17. ASSUME NEW t \in Users, EndNotify(t) PROVE DataOK'
  BY <1>a, <1>17 DEF EndNotify
<1>18. ASSUME NEW t \in Users, NextChannel(t) PROVE DataOK'
  BY <1>a, <1>18 DEF NextChannel
<1>19. ASSUME NEW t \in Users, NickLock(t) PROVE DataOK'
  BY <1>a, <1>19 DEF NickLock
<1>20. ASSUME NEW t \in Users, NickLockChannels(t) PROVE DataOK'
  BY <1>a, <1>20 DEF NickLockChannels, Tabled
<1>21. ASSUME NEW t \in Users, NickOnChannel(t) PROVE DataOK'
  <2>1. PICK c \in todo[t] : UpdateMemberNick(t, c) /\ todo' = [todo EXCEPT ![t] = @ \ {c}]
    BY <1>21 DEF NickOnChannel
  <2>2. c \in Chans /\ cmd[t].nick \in Nicks
    BY <1>a, <1>21, ArgumentFacts DEF NickOnChannel, UserCritical
  <2>3. affected' \in [Users -> SUBSET Chans]
    <3>1. UNCHANGED affected \/ affected' = [affected EXCEPT ![t] = @ \cup {c}]
      BY <2>1 DEF UpdateMemberNick
    <3> QED
      BY <1>a, <2>2, <3>1
  <2>4. members' \in [Chans -> SUBSET Member]
    <3>1. ASSUME NEW e \in Named(c, nick[t]),
                 Replace(c, e, [e EXCEPT !.nick = cmd[t].nick, !.own = FALSE])
          PROVE  members' \in [Chans -> SUBSET Member]
      <4>1. e \in Member
        BY <1>a, <2>2 DEF Named
      <4> QED
        BY <1>a, <2>2, <3>1, <4>1, MemberFacts, ReplaceFacts
    <3> QED
      BY <1>a, <2>1, <2>2, <3>1 DEF UpdateMemberNick
  <2> QED
    BY <1>a, <1>21, <2>1, <2>3, <2>4 DEF NickOnChannel
<1>22. ASSUME NEW t \in Users, NickUnlockChannels(t) PROVE DataOK'
  BY <1>a, <1>22 DEF NickUnlockChannels
<1>23. ASSUME NEW t \in Users, NickCommit(t) PROVE DataOK'
  BY <1>a, <1>23, ArgumentFacts DEF NickCommit, UserCritical
<1>24. ASSUME NEW t \in Users, TryGetChannel(t) PROVE DataOK'
  BY <1>a, <1>24, ArgumentFacts DEF TryGetChannel, Fresh
<1>25. ASSUME NEW t \in Users, JoinChannel(t) PROVE DataOK'
  <2>1. nick[t] \in Nicks \cup {NoNick} /\ chan[t] \in Chans
    BY <1>a, <1>25 DEF JoinChannel, LocalOK, Fits
  <2> DEFINE e == [by |-> t, nick |-> nick[t], op |-> (pc[t] = "join_new"), own |-> TRUE]
  <2>2. e \in Member
    BY <2>1 DEF Member
  <2>4. \/ UNCHANGED members
        \/ members' = [members EXCEPT ![chan[t]] = @ \cup {e}]
    BY <1>25 DEF JoinChannel
  <2> HIDE DEF e
  <2>3. members' \in [Chans -> SUBSET Member]
    BY <1>a, <2>1, <2>2, <2>4
  <2> QED
    BY <1>a, <1>25, <2>3 DEF JoinChannel
<1>26. ASSUME NEW t \in Users, PartLock(t) PROVE DataOK'
  BY <1>a, <1>26 DEF PartLock
<1>27. ASSUME NEW t \in Users, LeaveChannel(t) PROVE DataOK'
  <2>1. /\ UNCHANGED <<todo, affected, rcpt, dest, userVars, owner, chanOf, opNum, lockVars>>
        /\ UNCHANGED members \/ \E e : members' = [members EXCEPT ![chan[t]] = @ \ {e}]
    BY <1>27 DEF LeaveChannel
  <2>2. members' \in [Chans -> SUBSET Member]
    BY <1>a, <2>1
  <2> QED
    BY <1>a, <2>1, <2>2
<1>28. ASSUME NEW t \in Users, PartReply(t) PROVE DataOK'
  BY <1>a, <1>28 DEF PartReply
<1>29. ASSUME NEW t \in Users, PartUnlock(t) PROVE DataOK'
  BY <1>a, <1>29 DEF PartUnlock
<1>30. ASSUME NEW t \in Users, ListLock(t) PROVE DataOK'
  BY <1>a, <1>30 DEF ListLock
<1>31. ASSUME NEW t \in Users, ListUnlock(t) PROVE DataOK'
  BY <1>a, <1>31 DEF ListUnlock
<1>32. ASSUME NEW t \in Users, GetChannel(t) PROVE DataOK'
  BY <1>a, <1>32 DEF GetChannel
<1>33. ASSUME NEW t \in Users, CheckOnChannel(t) PROVE DataOK'
  BY <1>a, <1>33 DEF CheckOnChannel
<1>34. ASSUME NEW t \in Users, ModeAuthorise(t) PROVE DataOK'
  BY <1>a, <1>34 DEF ModeAuthorise
<1>35. ASSUME NEW t \in Users, UpdateMemberMode(t) PROVE DataOK'
  <2>1. chan[t] \in Chans /\ cmd[t].on \in BOOLEAN
    BY <1>a, <1>35, ArgumentFacts DEF UpdateMemberMode, LocalOK, Fits
  <2>2. ASSUME NEW e \in Named(chan[t], cmd[t].nick),
               Replace(chan[t], e, [e EXCEPT !.op = cmd[t].on])
        PROVE  members' \in [Chans -> SUBSET Member]
    <3>1. e \in Member
      BY <1>a, <2>1 DEF Named
    <3> QED
      BY <1>a, <2>1, <2>2, <3>1, MemberFacts, ReplaceFacts
  <2>3. members' \in [Chans -> SUBSET Member]
    BY <1>a, <1>35, <2>2 DEF UpdateMemberMode
  <2> QED
    BY <1>a, <1>35, <2>3 DEF UpdateMemberMode
<1>36. ASSUME NEW t \in Users, QuitChannels(t) PROVE DataOK'
  BY <1>a, <1>36 DEF QuitChannels, Tabled
<1>37. CASE UNCHANGED vars
  BY <1>a, <1>37 DEF vars
<1> QED
  BY <1>1, <1>2, <1>3, <1>4, <1>5, <1>6, <1>7, <1>8, <1>8a, <1>9, <1>10, <1>11, <1>12, <1>13, <1>14, <1>15, <1>16, <1>17, <1>18, <1>19, <1>20, <1>21, <1>22, <1>23, <1>24, <1>25, <1>26, <1>27, <1>28, <1>29, <1>30, <1>31, <1>32, <1>33, <1>34, <1>35, <1>36, <1>37 DEF Next, Step

LEMMA TypeInit == Init => TypeInv
  BY ServerAssumption DEF Init, TypeInv, LocalOK, DataOK, Labels, Fits, UserCritical, ChanCritical

\* Type correctness.
THEOREM TypeCorrect == Spec => []TypeOK
<1>1. TypeInv /\ [Next]_vars => TypeInv'
  BY LocalInductive, DataInductive DEF TypeInv
<1>2. TypeInv => TypeOK
  BY DEF TypeInv, TypeOK, LocalOK, DataOK
<1> QED
  BY TypeInit, <1>1, <1>2, PTL DEF Spec
-------------------------------------------------------------------------------
(* Mutual exclusion *)

\* Returning from a handler changes this much and no more.
LEMMA ReturnFacts ==
  ASSUME LocalOK, NEW t \in Users, NEW r, Return(t, r)
  PROVE  /\ \A u \in Users \ {t} : pc'[u] = pc[u] /\ cmd'[u] = cmd[u]
         /\ pc'[t] \in {"idle", "close"}
         /\ r = "SUCCESS" => pc'[t] = "idle"
  BY DEF Return, Goto, LocalOK

LEMMA ReplyFacts ==
  ASSUME LocalOK, NEW t \in Users, ReplyAndReturn(t)
  PROVE  /\ \A u \in Users \ {t} : pc'[u] = pc[u] /\ cmd'[u] = cmd[u]
         /\ pc'[t] \in {"idle", "close"}
         /\ sock[t] = "open" => pc'[t] = "idle"
  BY ReturnFacts DEF ReplyAndReturn, SendResults

LEMMA GotoFacts ==
  ASSUME LocalOK, NEW t \in Users, NEW l, Goto(t, l)
  PROVE  pc'[t] = l /\ \A u \in Users \ {t} : pc'[u] = pc[u]
  BY DEF Goto, LocalOK

\* A thread that receives a command is at the start of its handler.
LEMMA RecvFacts ==
  ASSUME LocalOK, NEW t \in Users, RecvCommand(t)
  PROVE  /\ \A u \in Users \ {t} : pc'[u] = pc[u] /\ cmd'[u] = cmd[u]
         /\ nick[t] = NoNick => pc'[t] = "add_nick"
         /\ nick[t] # NoNick =>
              pc'[t] \in {"nick_lock", "join_get", "part_lock", "mode_get", "msg_get", "user_get",
                          "list_lock", "lusers", "oper", "reply", "quit_get"}
<1>1. PICK c \in Commands :
        /\ cmd' = [cmd EXCEPT ![t] = c]
        /\ pc' = [pc EXCEPT ![t] = IF nick[t] = NoNick THEN "add_nick" ELSE EntryPoint[c.op]]
  BY DEF RecvCommand, Goto
<1>2. EntryPoint[c.op] \in {"nick_lock", "join_get", "part_lock", "mode_get", "msg_get", "user_get",
                            "list_lock", "lusers", "oper", "reply", "quit_get"}
  BY CommandFacts DEF EntryPoint, Kinds
<1> QED
  BY <1>1, <1>2 DEF LocalOK

LEMMA LockInductive ==
  ASSUME TypeInv, LockDiscipline, [Next]_vars
  PROVE  LockDiscipline'
<1> USE ServerAssumption DEF Free, AfterGet, LockDiscipline, UserCritical, ChanCritical
<1>a. LocalOK
  BY DEF TypeInv
<1>1. ASSUME NEW t \in Users, RecvCommand(t) PROVE LockDiscipline'
  BY <1>a, <1>1, RecvFacts DEF RecvCommand, lockVars
<1>2. ASSUME NEW t \in Users, PeerGone(t) PROVE LockDiscipline'
  BY <1>a, <1>2, GotoFacts, ReturnFacts, ReplyFacts DEF PeerGone, LocalOK, Fits, lockVars, threadVars, localVars
<1>3. ASSUME NEW t \in Users, RecvFails(t) PROVE LockDiscipline'
  BY <1>a, <1>3, GotoFacts, ReturnFacts, ReplyFacts DEF RecvFails, LocalOK, Fits, lockVars, threadVars, localVars
<1>4. ASSUME NEW t \in Users, Close(t) PROVE LockDiscipline'
  BY <1>a, <1>4, GotoFacts, ReturnFacts, ReplyFacts DEF Close, LocalOK, Fits, lockVars, threadVars, localVars
<1>5. ASSUME NEW t \in Users, DeleteUser(t) PROVE LockDiscipline'
  BY <1>a, <1>5, GotoFacts, ReturnFacts, ReplyFacts DEF DeleteUser, LocalOK, Fits, lockVars, threadVars, localVars
<1>6. ASSUME NEW t \in Users, DestroyUser(t) PROVE LockDiscipline'
  BY <1>a, <1>6, GotoFacts, ReturnFacts, ReplyFacts DEF DestroyUser, LocalOK, Fits, lockVars, threadVars, localVars
<1>7. ASSUME NEW t \in Users, AddUserNick(t) PROVE LockDiscipline'
  BY <1>a, <1>7, GotoFacts, ReturnFacts, ReplyFacts DEF AddUserNick, LocalOK, Fits, lockVars, threadVars, localVars
<1>8. ASSUME NEW t \in Users, CountChannels(t) PROVE LockDiscipline'
  BY <1>a, <1>8, GotoFacts, ReturnFacts, ReplyFacts DEF CountChannels, ReturnFromLusers, LocalOK, Fits, lockVars, threadVars, localVars
<1>8a. ASSUME NEW t \in Users, SendCounts(t) PROVE LockDiscipline'
  BY <1>a, <1>8a, GotoFacts, ReturnFacts, ReplyFacts DEF SendCounts, ReturnFromLusers, LocalOK, Fits, lockVars, threadVars, localVars
<1>9. ASSUME NEW t \in Users, Reply(t) PROVE LockDiscipline'
  BY <1>a, <1>9, GotoFacts, ReturnFacts, ReplyFacts DEF Reply, LocalOK, Fits, lockVars, threadVars, localVars
<1>10. ASSUME NEW t \in Users, Oper(t) PROVE LockDiscipline'
  BY <1>a, <1>10, GotoFacts, ReturnFacts, ReplyFacts DEF Oper, LocalOK, Fits, lockVars, threadVars, localVars
<1>11. ASSUME NEW t \in Users, GetUser(t) PROVE LockDiscipline'
  BY <1>a, <1>11, GotoFacts, ReturnFacts, ReplyFacts DEF GetUser, LocalOK, Fits, lockVars, threadVars, localVars
<1>12. ASSUME NEW t \in Users, SendToUser(t) PROVE LockDiscipline'
  BY <1>a, <1>12, GotoFacts, ReturnFacts, ReplyFacts DEF SendToUser, LocalOK, Fits, lockVars, threadVars, localVars
<1>13. ASSUME NEW t \in Users, Whois(t) PROVE LockDiscipline'
  BY <1>a, <1>13, GotoFacts, ReturnFacts, ReplyFacts DEF Whois, LocalOK, Fits, lockVars, threadVars, localVars
<1>14. ASSUME NEW t \in Users, Snapshot(t) PROVE LockDiscipline'
  BY <1>a, <1>14, GotoFacts, ReturnFacts, ReplyFacts DEF Snapshot, LocalOK, Fits, lockVars, threadVars, localVars
<1>15. ASSUME NEW t \in Users, LookupMember(t) PROVE LockDiscipline'
  BY <1>a, <1>15, GotoFacts, ReturnFacts, ReplyFacts DEF LookupMember, LocalOK, Fits, lockVars, threadVars, localVars
<1>16. ASSUME NEW t \in Users, SendToMember(t) PROVE LockDiscipline'
  BY <1>a, <1>16, GotoFacts, ReturnFacts, ReplyFacts DEF SendToMember, LocalOK, Fits, lockVars, threadVars, localVars
<1>17. ASSUME NEW t \in Users, EndNotify(t) PROVE LockDiscipline'
  BY <1>a, <1>17, GotoFacts, ReturnFacts, ReplyFacts DEF EndNotify, LocalOK, Fits, lockVars, threadVars, localVars
<1>18. ASSUME NEW t \in Users, NextChannel(t) PROVE LockDiscipline'
  BY <1>a, <1>18, GotoFacts, ReturnFacts, ReplyFacts DEF NextChannel, LocalOK, Fits, lockVars, threadVars, localVars
<1>19. ASSUME NEW t \in Users, NickLock(t) PROVE LockDiscipline'
  BY <1>a, <1>19, GotoFacts, ReturnFacts, ReplyFacts DEF NickLock, LocalOK, Fits, lockVars, threadVars, localVars
<1>20. ASSUME NEW t \in Users, NickLockChannels(t) PROVE LockDiscipline'
  BY <1>a, <1>20, GotoFacts, ReturnFacts, ReplyFacts DEF NickLockChannels, LocalOK, Fits, lockVars, threadVars, localVars
<1>21. ASSUME NEW t \in Users, NickOnChannel(t) PROVE LockDiscipline'
  BY <1>a, <1>21, GotoFacts, ReturnFacts, ReplyFacts DEF NickOnChannel, LocalOK, Fits, lockVars, threadVars, localVars
<1>22. ASSUME NEW t \in Users, NickUnlockChannels(t) PROVE LockDiscipline'
  BY <1>a, <1>22, GotoFacts, ReturnFacts, ReplyFacts DEF NickUnlockChannels, LocalOK, Fits, lockVars, threadVars, localVars
<1>23. ASSUME NEW t \in Users, NickCommit(t) PROVE LockDiscipline'
  BY <1>a, <1>23, GotoFacts, ReturnFacts, ReplyFacts DEF NickCommit, LocalOK, Fits, lockVars, threadVars, localVars
<1>24. ASSUME NEW t \in Users, TryGetChannel(t) PROVE LockDiscipline'
  BY <1>a, <1>24, GotoFacts, ReturnFacts, ReplyFacts DEF TryGetChannel, LocalOK, Fits, lockVars, threadVars, localVars
<1>25. ASSUME NEW t \in Users, JoinChannel(t) PROVE LockDiscipline'
  BY <1>a, <1>25, GotoFacts, ReturnFacts, ReplyFacts DEF JoinChannel, LocalOK, Fits, lockVars, threadVars, localVars
<1>26. ASSUME NEW t \in Users, PartLock(t) PROVE LockDiscipline'
  BY <1>a, <1>26, GotoFacts, ReturnFacts, ReplyFacts DEF PartLock, LocalOK, Fits, lockVars, threadVars, localVars
<1>27. ASSUME NEW t \in Users, LeaveChannel(t) PROVE LockDiscipline'
  BY <1>a, <1>27, GotoFacts, ReturnFacts, ReplyFacts DEF LeaveChannel, AfterLeave, LocalOK, Fits, lockVars, threadVars, localVars
<1>28. ASSUME NEW t \in Users, PartReply(t) PROVE LockDiscipline'
  BY <1>a, <1>28, GotoFacts, ReturnFacts, ReplyFacts DEF PartReply, LocalOK, Fits, lockVars, threadVars, localVars
<1>29. ASSUME NEW t \in Users, PartUnlock(t) PROVE LockDiscipline'
  BY <1>a, <1>29, GotoFacts, ReturnFacts, ReplyFacts DEF PartUnlock, LocalOK, Fits, lockVars, threadVars, localVars
<1>30. ASSUME NEW t \in Users, ListLock(t) PROVE LockDiscipline'
  BY <1>a, <1>30, GotoFacts, ReturnFacts, ReplyFacts DEF ListLock, LocalOK, Fits, lockVars, threadVars, localVars
<1>31. ASSUME NEW t \in Users, ListUnlock(t) PROVE LockDiscipline'
  BY <1>a, <1>31, GotoFacts, ReturnFacts, ReplyFacts DEF ListUnlock, LocalOK, Fits, lockVars, threadVars, localVars
<1>32. ASSUME NEW t \in Users, GetChannel(t) PROVE LockDiscipline'
  BY <1>a, <1>32, GotoFacts, ReturnFacts, ReplyFacts DEF GetChannel, LocalOK, Fits, lockVars, threadVars, localVars
<1>33. ASSUME NEW t \in Users, CheckOnChannel(t) PROVE LockDiscipline'
  BY <1>a, <1>33, GotoFacts, ReturnFacts, ReplyFacts DEF CheckOnChannel, LocalOK, Fits, lockVars, threadVars, localVars
<1>34. ASSUME NEW t \in Users, ModeAuthorise(t) PROVE LockDiscipline'
  BY <1>a, <1>34, GotoFacts, ReturnFacts, ReplyFacts DEF ModeAuthorise, LocalOK, Fits, lockVars, threadVars, localVars
<1>35. ASSUME NEW t \in Users, UpdateMemberMode(t) PROVE LockDiscipline'
  BY <1>a, <1>35, GotoFacts, ReturnFacts, ReplyFacts DEF UpdateMemberMode, LocalOK, Fits, lockVars, threadVars, localVars
<1>36. ASSUME NEW t \in Users, QuitChannels(t) PROVE LockDiscipline'
  BY <1>a, <1>36, GotoFacts, ReturnFacts, ReplyFacts DEF QuitChannels, LocalOK, Fits, lockVars, threadVars, localVars
<1>37. CASE UNCHANGED vars
  BY <1>37 DEF vars, lockVars, threadVars, localVars
<1> QED
  BY <1>1, <1>2, <1>3, <1>4, <1>5, <1>6, <1>7, <1>8, <1>8a, <1>9, <1>10, <1>11, <1>12, <1>13, <1>14, <1>15, <1>16, <1>17, <1>18, <1>19, <1>20, <1>21, <1>22, <1>23, <1>24, <1>25, <1>26, <1>27, <1>28, <1>29, <1>30, <1>31, <1>32, <1>33, <1>34, <1>35, <1>36, <1>37 DEF Next, Step

-------------------------------------------------------------------------------
(* Nicknames *)

LEMMA RegisteredInductive ==
  ASSUME TypeInv, Registered, [Next]_vars
  PROVE  Registered'
<1> USE DEF AfterGet, Registered, userVars, threadVars, localVars
<1>a. LocalOK /\ DataOK
  BY DEF TypeInv
<1>1. ASSUME NEW t \in Users, RecvCommand(t) PROVE Registered'
  <2>1. UNCHANGED <<nick, sock>> /\ pc[t] = "idle"
    BY <1>1 DEF RecvCommand
  <2> QED
    BY <1>a, <1>1, <2>1, RecvFacts
<1>2. ASSUME NEW t \in Users, PeerGone(t) PROVE Registered'
  BY <1>a, <1>2, GotoFacts, ReturnFacts, ReplyFacts DEF PeerGone, LocalOK, DataOK
<1>3. ASSUME NEW t \in Users, RecvFails(t) PROVE Registered'
  BY <1>a, <1>3, GotoFacts, ReturnFacts, ReplyFacts DEF RecvFails, LocalOK, DataOK
<1>4. ASSUME NEW t \in Users, Close(t) PROVE Registered'
  BY <1>a, <1>4, GotoFacts, ReturnFacts, ReplyFacts DEF Close, LocalOK, DataOK
<1>5. ASSUME NEW t \in Users, DeleteUser(t) PROVE Registered'
  BY <1>a, <1>5, GotoFacts, ReturnFacts, ReplyFacts DEF DeleteUser, LocalOK, DataOK
<1>6. ASSUME NEW t \in Users, DestroyUser(t) PROVE Registered'
  BY <1>a, <1>6, GotoFacts, ReturnFacts, ReplyFacts DEF DestroyUser, LocalOK, DataOK
<1>7. ASSUME NEW t \in Users, AddUserNick(t) PROVE Registered'
  BY <1>a, <1>7, GotoFacts, ReturnFacts, ReplyFacts, ArgumentFacts, ServerAssumption DEF AddUserNick, UserCritical, LocalOK, DataOK
<1>8. ASSUME NEW t \in Users, CountChannels(t) PROVE Registered'
  BY <1>a, <1>8, GotoFacts, ReturnFacts, ReplyFacts DEF CountChannels, ReturnFromLusers, LocalOK, DataOK
<1>8a. ASSUME NEW t \in Users, SendCounts(t) PROVE Registered'
  BY <1>a, <1>8a, GotoFacts, ReturnFacts, ReplyFacts DEF SendCounts, ReturnFromLusers, LocalOK, DataOK
<1>9. ASSUME NEW t \in Users, Reply(t) PROVE Registered'
  BY <1>a, <1>9, GotoFacts, ReturnFacts, ReplyFacts DEF Reply, LocalOK, DataOK
<1>10. ASSUME NEW t \in Users, Oper(t) PROVE Registered'
  BY <1>a, <1>10, GotoFacts, ReturnFacts, ReplyFacts DEF Oper, LocalOK, DataOK
<1>11. ASSUME NEW t \in Users, GetUser(t) PROVE Registered'
  BY <1>a, <1>11, GotoFacts, ReturnFacts, ReplyFacts DEF GetUser, LocalOK, DataOK
<1>12. ASSUME NEW t \in Users, SendToUser(t) PROVE Registered'
  BY <1>a, <1>12, GotoFacts, ReturnFacts, ReplyFacts DEF SendToUser, LocalOK, DataOK
<1>13. ASSUME NEW t \in Users, Whois(t) PROVE Registered'
  BY <1>a, <1>13, GotoFacts, ReturnFacts, ReplyFacts DEF Whois, LocalOK, DataOK
<1>14. ASSUME NEW t \in Users, Snapshot(t) PROVE Registered'
  BY <1>a, <1>14, GotoFacts, ReturnFacts, ReplyFacts DEF Snapshot, LocalOK, DataOK
<1>15. ASSUME NEW t \in Users, LookupMember(t) PROVE Registered'
  BY <1>a, <1>15, GotoFacts, ReturnFacts, ReplyFacts DEF LookupMember, LocalOK, DataOK
<1>16. ASSUME NEW t \in Users, SendToMember(t) PROVE Registered'
  BY <1>a, <1>16, GotoFacts, ReturnFacts, ReplyFacts DEF SendToMember, LocalOK, DataOK
<1>17. ASSUME NEW t \in Users, EndNotify(t) PROVE Registered'
  BY <1>a, <1>17, GotoFacts, ReturnFacts, ReplyFacts DEF EndNotify, LocalOK, DataOK
<1>18. ASSUME NEW t \in Users, NextChannel(t) PROVE Registered'
  BY <1>a, <1>18, GotoFacts, ReturnFacts, ReplyFacts DEF NextChannel, LocalOK, DataOK
<1>19. ASSUME NEW t \in Users, NickLock(t) PROVE Registered'
  BY <1>a, <1>19, GotoFacts, ReturnFacts, ReplyFacts DEF NickLock, LocalOK, DataOK
<1>20. ASSUME NEW t \in Users, NickLockChannels(t) PROVE Registered'
  BY <1>a, <1>20, GotoFacts, ReturnFacts, ReplyFacts DEF NickLockChannels, LocalOK, DataOK
<1>21. ASSUME NEW t \in Users, NickOnChannel(t) PROVE Registered'
  BY <1>a, <1>21, GotoFacts, ReturnFacts, ReplyFacts DEF NickOnChannel, LocalOK, DataOK
<1>22. ASSUME NEW t \in Users, NickUnlockChannels(t) PROVE Registered'
  BY <1>a, <1>22, GotoFacts, ReturnFacts, ReplyFacts DEF NickUnlockChannels, LocalOK, DataOK
<1>23. ASSUME NEW t \in Users, NickCommit(t) PROVE Registered'
  BY <1>a, <1>23, GotoFacts, ReturnFacts, ReplyFacts, ArgumentFacts, ServerAssumption DEF NickCommit, UserCritical, LocalOK, DataOK
<1>24. ASSUME NEW t \in Users, TryGetChannel(t) PROVE Registered'
  BY <1>a, <1>24, GotoFacts, ReturnFacts, ReplyFacts DEF TryGetChannel, LocalOK, DataOK
<1>25. ASSUME NEW t \in Users, JoinChannel(t) PROVE Registered'
  BY <1>a, <1>25, GotoFacts, ReturnFacts, ReplyFacts DEF JoinChannel, LocalOK, DataOK
<1>26. ASSUME NEW t \in Users, PartLock(t) PROVE Registered'
  BY <1>a, <1>26, GotoFacts, ReturnFacts, ReplyFacts DEF PartLock, LocalOK, DataOK
<1>27. ASSUME NEW t \in Users, LeaveChannel(t) PROVE Registered'
  BY <1>a, <1>27, GotoFacts, ReturnFacts, ReplyFacts DEF LeaveChannel, AfterLeave, LocalOK, DataOK
<1>28. ASSUME NEW t \in Users, PartReply(t) PROVE Registered'
  BY <1>a, <1>28, GotoFacts, ReturnFacts, ReplyFacts DEF PartReply, LocalOK, DataOK
<1>29. ASSUME NEW t \in Users, PartUnlock(t) PROVE Registered'
  BY <1>a, <1>29, GotoFacts, ReturnFacts, ReplyFacts DEF PartUnlock, LocalOK, DataOK
<1>30. ASSUME NEW t \in Users, ListLock(t) PROVE Registered'
  BY <1>a, <1>30, GotoFacts, ReturnFacts, ReplyFacts DEF ListLock, LocalOK, DataOK
<1>31. ASSUME NEW t \in Users, ListUnlock(t) PROVE Registered'
  BY <1>a, <1>31, GotoFacts, ReturnFacts, ReplyFacts DEF ListUnlock, LocalOK, DataOK
<1>32. ASSUME NEW t \in Users, GetChannel(t) PROVE Registered'
  BY <1>a, <1>32, GotoFacts, ReturnFacts, ReplyFacts DEF GetChannel, LocalOK, DataOK
<1>33. ASSUME NEW t \in Users, CheckOnChannel(t) PROVE Registered'
  BY <1>a, <1>33, GotoFacts, ReturnFacts, ReplyFacts DEF CheckOnChannel, LocalOK, DataOK
<1>34. ASSUME NEW t \in Users, ModeAuthorise(t) PROVE Registered'
  BY <1>a, <1>34, GotoFacts, ReturnFacts, ReplyFacts DEF ModeAuthorise, LocalOK, DataOK
<1>35. ASSUME NEW t \in Users, UpdateMemberMode(t) PROVE Registered'
  BY <1>a, <1>35, GotoFacts, ReturnFacts, ReplyFacts DEF UpdateMemberMode, LocalOK, DataOK
<1>36. ASSUME NEW t \in Users, QuitChannels(t) PROVE Registered'
  BY <1>a, <1>36, GotoFacts, ReturnFacts, ReplyFacts DEF QuitChannels, LocalOK, DataOK
<1>37. CASE UNCHANGED vars
  BY <1>37 DEF vars
<1> QED
  BY <1>1, <1>2, <1>3, <1>4, <1>5, <1>6, <1>7, <1>8, <1>8a, <1>9, <1>10, <1>11, <1>12, <1>13, <1>14, <1>15, <1>16, <1>17, <1>18, <1>19, <1>20, <1>21, <1>22, <1>23, <1>24, <1>25, <1>26, <1>27, <1>28, <1>29, <1>30, <1>31, <1>32, <1>33, <1>34, <1>35, <1>36, <1>37 DEF Next, Step

LEMMA NickTableInductive ==
  ASSUME IInv, [Next]_vars
  PROVE  NicksConsistent' /\ RenameTargetFree'
<1> USE ServerAssumption
    DEF NicksConsistent, RenameTargetFree, UserCritical, InUse, Free, AfterGet,
        userVars, tableVars, threadVars, localVars
<1>a. /\ LocalOK /\ DataOK
      /\ LockDiscipline /\ Registered /\ NicksConsistent /\ RenameTargetFree
  BY DEF IInv, TypeInv, NickInv
<1>1. ASSUME NEW t \in Users, RecvCommand(t) PROVE NicksConsistent' /\ RenameTargetFree'
  <2>1. UNCHANGED <<nick, owner>> /\ pc[t] = "idle"
    BY <1>1 DEF RecvCommand
  <2> QED
    BY <1>a, <1>1, <2>1, RecvFacts
<1>2. ASSUME NEW t \in Users, PeerGone(t) PROVE NicksConsistent' /\ RenameTargetFree'
  BY <1>a, <1>2, GotoFacts, ReturnFacts, ReplyFacts DEF PeerGone, LocalOK, DataOK
<1>3. ASSUME NEW t \in Users, RecvFails(t) PROVE NicksConsistent' /\ RenameTargetFree'
  BY <1>a, <1>3, GotoFacts, ReturnFacts, ReplyFacts DEF RecvFails, LocalOK, DataOK
<1>4. ASSUME NEW t \in Users, Close(t) PROVE NicksConsistent' /\ RenameTargetFree'
  BY <1>a, <1>4, GotoFacts, ReturnFacts, ReplyFacts DEF Close, LocalOK, DataOK
<1>5. ASSUME NEW t \in Users, DeleteUser(t) PROVE NicksConsistent' /\ RenameTargetFree'
  BY <1>a, <1>5, GotoFacts, ReturnFacts, ReplyFacts, ArgumentFacts DEF DeleteUser, LockDiscipline, Registered, LocalOK, DataOK
<1>6. ASSUME NEW t \in Users, DestroyUser(t) PROVE NicksConsistent' /\ RenameTargetFree'
  BY <1>a, <1>6, GotoFacts, ReturnFacts, ReplyFacts, ArgumentFacts DEF DestroyUser, LockDiscipline, Registered, LocalOK, DataOK
<1>7. ASSUME NEW t \in Users, AddUserNick(t) PROVE NicksConsistent' /\ RenameTargetFree'
  <2> DEFINE n == cmd[t].nick
  <2>0. /\ n \in Nicks /\ nick[t] = NoNick /\ NoNick \notin Nicks
        /\ \A u \in Users : pc[u] \notin UserCritical
        /\ \A m \in Nicks : owner[m] # t
    BY <1>a, <1>7, ArgumentFacts DEF AddUserNick, LockDiscipline, Registered, DataOK
  <2>1. CASE owner[n] # NoUser
    BY <1>a, <1>7, <2>1, ReplyFacts DEF AddUserNick, LocalOK, DataOK
  <2>2. CASE owner[n] = NoUser
    <3>1. /\ owner' = [owner EXCEPT ![n] = t]
          /\ nick' = [nick EXCEPT ![t] = n]
          /\ pc'[t] = "lusers" /\ \A u \in Users \ {t} : pc'[u] = pc[u]
      BY <1>a, <1>7, <2>2, GotoFacts DEF AddUserNick
    <3>2. NicksConsistent'
      BY <1>a, <2>0, <2>2, <3>1 DEF DataOK
    <3>3. RenameTargetFree'
      BY <1>a, <2>0, <3>1 DEF DataOK
    <3> QED
      BY <3>2, <3>3
  <2> QED
    BY <2>1, <2>2
<1>8. ASSUME NEW t \in Users, CountChannels(t) PROVE NicksConsistent' /\ RenameTargetFree'
  BY <1>a, <1>8, GotoFacts, ReturnFacts, ReplyFacts DEF CountChannels, ReturnFromLusers, LocalOK, DataOK
<1>8a. ASSUME NEW t \in Users, SendCounts(t) PROVE NicksConsistent' /\ RenameTargetFree'
  BY <1>a, <1>8a, GotoFacts, ReturnFacts, ReplyFacts DEF SendCounts, ReturnFromLusers, LocalOK, DataOK
<1>9. ASSUME NEW t \in Users, Reply(t) PROVE NicksConsistent' /\ RenameTargetFree'
  BY <1>a, <1>9, GotoFacts, ReturnFacts, ReplyFacts DEF Reply, LocalOK, DataOK
<1>10. ASSUME NEW t \in Users, Oper(t) PROVE NicksConsistent' /\ RenameTargetFree'
  BY <1>a, <1>10, GotoFacts, ReturnFacts, ReplyFacts DEF Oper, LocalOK, DataOK
<1>11. ASSUME NEW t \in Users, GetUser(t) PROVE NicksConsistent' /\ RenameTargetFree'
  BY <1>a, <1>11, GotoFacts, ReturnFacts, ReplyFacts DEF GetUser, LocalOK, DataOK
<1>12. ASSUME NEW t \in Users, SendToUser(t) PROVE NicksConsistent' /\ RenameTargetFree'
  BY <1>a, <1>12, GotoFacts, ReturnFacts, ReplyFacts DEF SendToUser, LocalOK, DataOK
<1>13. ASSUME NEW t \in Users, Whois(t) PROVE NicksConsistent' /\ RenameTargetFree'
  BY <1>a, <1>13, GotoFacts, ReturnFacts, ReplyFacts DEF Whois, LocalOK, DataOK
<1>14. ASSUME NEW t \in Users, Snapshot(t) PROVE NicksConsistent' /\ RenameTargetFree'
  BY <1>a, <1>14, GotoFacts, ReturnFacts, ReplyFacts DEF Snapshot, LocalOK, DataOK
<1>15. ASSUME NEW t \in Users, LookupMember(t) PROVE NicksConsistent' /\ RenameTargetFree'
  BY <1>a, <1>15, GotoFacts, ReturnFacts, ReplyFacts DEF LookupMember, LocalOK, DataOK
<1>16. ASSUME NEW t \in Users, SendToMember(t) PROVE NicksConsistent' /\ RenameTargetFree'
  BY <1>a, <1>16, GotoFacts, ReturnFacts, ReplyFacts DEF SendToMember, LocalOK, DataOK
<1>17. ASSUME NEW t \in Users, EndNotify(t) PROVE NicksConsistent' /\ RenameTargetFree'
  BY <1>a, <1>17, GotoFacts, ReturnFacts, ReplyFacts DEF EndNotify, LocalOK, DataOK
<1>18. ASSUME NEW t \in Users, NextChannel(t) PROVE NicksConsistent' /\ RenameTargetFree'
  BY <1>a, <1>18, GotoFacts, ReturnFacts, ReplyFacts DEF NextChannel, LocalOK, DataOK
<1>19. ASSUME NEW t \in Users, NickLock(t) PROVE NicksConsistent' /\ RenameTargetFree'
  BY <1>a, <1>19, GotoFacts, ReturnFacts, ReplyFacts, ArgumentFacts DEF NickLock, LockDiscipline, Registered, LocalOK, DataOK
<1>20. ASSUME NEW t \in Users, NickLockChannels(t) PROVE NicksConsistent' /\ RenameTargetFree'
  BY <1>a, <1>20, GotoFacts, ReturnFacts, ReplyFacts DEF NickLockChannels, LocalOK, DataOK
<1>21. ASSUME NEW t \in Users, NickOnChannel(t) PROVE NicksConsistent' /\ RenameTargetFree'
  BY <1>a, <1>21, GotoFacts, ReturnFacts, ReplyFacts DEF NickOnChannel, LocalOK, DataOK
<1>22. ASSUME NEW t \in Users, NickUnlockChannels(t) PROVE NicksConsistent' /\ RenameTargetFree'
  BY <1>a, <1>22, GotoFacts, ReturnFacts, ReplyFacts DEF NickUnlockChannels, LocalOK, DataOK
<1>23. ASSUME NEW t \in Users, NickCommit(t) PROVE NicksConsistent' /\ RenameTargetFree'
  BY <1>a, <1>23, GotoFacts, ReturnFacts, ReplyFacts, ArgumentFacts DEF NickCommit, LockDiscipline, Registered, LocalOK, DataOK
<1>24. ASSUME NEW t \in Users, TryGetChannel(t) PROVE NicksConsistent' /\ RenameTargetFree'
  BY <1>a, <1>24, GotoFacts, ReturnFacts, ReplyFacts DEF TryGetChannel, LocalOK, DataOK
<1>25. ASSUME NEW t \in Users, JoinChannel(t) PROVE NicksConsistent' /\ RenameTargetFree'
  BY <1>a, <1>25, GotoFacts, ReturnFacts, ReplyFacts DEF JoinChannel, LocalOK, DataOK
<1>26. ASSUME NEW t \in Users, PartLock(t) PROVE NicksConsistent' /\ RenameTargetFree'
  BY <1>a, <1>26, GotoFacts, ReturnFacts, ReplyFacts DEF PartLock, LocalOK, DataOK
<1>27. ASSUME NEW t \in Users, LeaveChannel(t) PROVE NicksConsistent' /\ RenameTargetFree'
  BY <1>a, <1>27, GotoFacts, ReturnFacts, ReplyFacts DEF LeaveChannel, AfterLeave, LocalOK, DataOK
<1>28. ASSUME NEW t \in Users, PartReply(t) PROVE NicksConsistent' /\ RenameTargetFree'
  BY <1>a, <1>28, GotoFacts, ReturnFacts, ReplyFacts DEF PartReply, LocalOK, DataOK
<1>29. ASSUME NEW t \in Users, PartUnlock(t) PROVE NicksConsistent' /\ RenameTargetFree'
  BY <1>a, <1>29, GotoFacts, ReturnFacts, ReplyFacts DEF PartUnlock, LocalOK, DataOK
<1>30. ASSUME NEW t \in Users, ListLock(t) PROVE NicksConsistent' /\ RenameTargetFree'
  BY <1>a, <1>30, GotoFacts, ReturnFacts, ReplyFacts DEF ListLock, LocalOK, DataOK
<1>31. ASSUME NEW t \in Users, ListUnlock(t) PROVE NicksConsistent' /\ RenameTargetFree'
  BY <1>a, <1>31, GotoFacts, ReturnFacts, ReplyFacts DEF ListUnlock, LocalOK, DataOK
<1>32. ASSUME NEW t \in Users, GetChannel(t) PROVE NicksConsistent' /\ RenameTargetFree'
  BY <1>a, <1>32, GotoFacts, ReturnFacts, ReplyFacts DEF GetChannel, LocalOK, DataOK
<1>33. ASSUME NEW t \in Users, CheckOnChannel(t) PROVE NicksConsistent' /\ RenameTargetFree'
  BY <1>a, <1>33, GotoFacts, ReturnFacts, ReplyFacts DEF CheckOnChannel, LocalOK, DataOK
<1>34. ASSUME NEW t \in Users, ModeAuthorise(t) PROVE NicksConsistent' /\ RenameTargetFree'
  BY <1>a, <1>34, GotoFacts, ReturnFacts, ReplyFacts DEF ModeAuthorise, LocalOK, DataOK
<1>35. ASSUME NEW t \in Users, UpdateMemberMode(t) PROVE NicksConsistent' /\ RenameTargetFree'
  BY <1>a, <1>35, GotoFacts, ReturnFacts, ReplyFacts DEF UpdateMemberMode, LocalOK, DataOK
<1>36. ASSUME NEW t \in Users, QuitChannels(t) PROVE NicksConsistent' /\ RenameTargetFree'
  BY <1>a, <1>36, GotoFacts, ReturnFacts, ReplyFacts DEF QuitChannels, LocalOK, DataOK
<1>37. CASE UNCHANGED vars
  BY <1>a, <1>37 DEF vars
<1> QED
  BY <1>1, <1>2, <1>3, <1>4, <1>5, <1>6, <1>7, <1>8, <1>8a, <1>9, <1>10, <1>11, <1>12, <1>13, <1>14, <1>15, <1>16, <1>17, <1>18, <1>19, <1>20, <1>21, <1>22, <1>23, <1>24, <1>25, <1>26, <1>27, <1>28, <1>29, <1>30, <1>31, <1>32, <1>33, <1>34, <1>35, <1>36, <1>37 DEF Next, Step

LEMMA InvInit == Init => IInv
<1>1. Init => NickInv
  BY ServerAssumption DEF Init, NickInv, LockDiscipline, Registered, NicksConsistent,
                          RenameTargetFree, UserCritical, ChanCritical
<1> QED
  BY <1>1, TypeInit DEF IInv

LEMMA InvInductive == IInv /\ [Next]_vars => IInv'
  BY LocalInductive, DataInductive, LockInductive, RegisteredInductive, NickTableInductive
     DEF IInv, TypeInv, NickInv

\* Mutual exclusion on both big mutexes, also with every handler of the channel
\* code in play: two threads are never inside update_user_nick at once, and none
\* is inside a section of mutex_channel_table that another thread owns.
THEOREM MutualExclusion == Spec => []LockDiscipline
<1>1. IInv => LockDiscipline
  BY DEF IInv, NickInv
<1> QED
  BY InvInit, InvInductive, <1>1, PTL DEF Spec

\* The nickname table and the users' own nick fields agree at every moment.
THEOREM NicknamesConsistent == Spec => []NicksConsistent
<1>1. IInv => NicksConsistent
  BY DEF IInv, NickInv
<1> QED
  BY InvInit, InvInductive, <1>1, PTL DEF Spec

\* What add_user_nick, update_user_nick and delete_user do to the table is, step
\* by step, what NickRegistry allows on behalf of the thread's own user, and nothing
\* else touches it.
LEMMA RegistryStep ==
  ASSUME IInv, [Next]_vars
  PROVE  /\ [Registry!Next]_owner
         /\ \A t \in Users : Step(t) => Registry!Serves(t)
<1> USE ServerAssumption
<1>a. /\ LocalOK /\ DataOK
      /\ LockDiscipline /\ Registered /\ NicksConsistent /\ RenameTargetFree
  BY DEF IInv, TypeInv, NickInv
<1>1. ASSUME NEW t \in Users, AddUserNick(t) PROVE Registry!Serves(t)
  <2>1. cmd[t].nick \in Nicks /\ nick[t] = NoNick
    BY <1>a, <1>1, ArgumentFacts DEF AddUserNick, Registered
  <2>2. Registry!HeldBy(t) = {}
    BY <1>a, <2>1 DEF Registry!HeldBy, NicksConsistent
  <2>3. UNCHANGED owner \/ Registry!Claim(t, cmd[t].nick)
    BY <1>1, <2>2 DEF AddUserNick, Registry!Claim, InUse
  <2> QED
    BY <2>1, <2>3 DEF Registry!Serves, Registry!Call
<1>2. ASSUME NEW t \in Users, NickCommit(t) PROVE Registry!Serves(t)
  <2>1. cmd[t].nick \in Nicks /\ nick[t] \in Nicks /\ owner[nick[t]] = t /\ ~InUse(cmd[t].nick)
    BY <1>a, <1>2, ArgumentFacts
       DEF NickCommit, Registered, NicksConsistent, RenameTargetFree, UserCritical, DataOK
  <2>2. Registry!Rename(t, nick[t], cmd[t].nick)
    BY <1>2, <2>1 DEF NickCommit, Registry!Rename, InUse
  <2> QED
    BY <2>1, <2>2 DEF Registry!Serves, Registry!Call
<1>3. ASSUME NEW t \in Users, DeleteUser(t) PROVE Registry!Serves(t)
  <2>1. nick[t] \in Nicks /\ owner[nick[t]] = t
    BY <1>a, <1>3 DEF DeleteUser, Registered, NicksConsistent, DataOK
  <2>2. Registry!Release(t, nick[t])
    BY <1>3, <2>1 DEF DeleteUser, Registry!Release
  <2> QED
    BY <2>1, <2>2 DEF Registry!Serves, Registry!Call
<1>4. ASSUME NEW t \in Users,
             RecvCommand(t) \/ PeerGone(t) \/ RecvFails(t) \/ Close(t)
             \/ DestroyUser(t) \/ SendCounts(t) \/ CountChannels(t) \/ Reply(t) \/ Oper(t)
             \/ GetUser(t) \/ SendToUser(t) \/ Whois(t) \/ Snapshot(t)
             \/ LookupMember(t) \/ SendToMember(t) \/ EndNotify(t) \/ NextChannel(t)
             \/ NickLock(t) \/ NickLockChannels(t) \/ NickOnChannel(t) \/ NickUnlockChannels(t)
             \/ TryGetChannel(t) \/ JoinChannel(t) \/ PartLock(t) \/ LeaveChannel(t)
             \/ PartReply(t) \/ PartUnlock(t) \/ ListLock(t) \/ ListUnlock(t)
             \/ GetChannel(t) \/ CheckOnChannel(t) \/ ModeAuthorise(t) \/ UpdateMemberMode(t)
             \/ QuitChannels(t)
      PROVE  UNCHANGED owner
  BY <1>4
     DEF RecvCommand, PeerGone, RecvFails, Close, DestroyUser, SendCounts, CountChannels, Reply, Oper,
         GetUser, SendToUser, Whois, Snapshot, LookupMember, SendToMember, EndNotify,
         NextChannel, NickLock, NickLockChannels, NickOnChannel, NickUnlockChannels,
         TryGetChannel, JoinChannel, PartLock, LeaveChannel, PartReply, PartUnlock,
         ListLock, ListUnlock, GetChannel, CheckOnChannel, ModeAuthorise, UpdateMemberMode,
         QuitChannels, tableVars
<1>5. ASSUME UNCHANGED vars PROVE UNCHANGED owner
  BY <1>5 DEF vars, tableVars
<1>6. ASSUME NEW t \in Users, Step(t) PROVE Registry!Serves(t)
  BY <1>1, <1>2, <1>3, <1>4, <1>6 DEF Step, Registry!Serves
<1>7. ASSUME NEW t \in Users, RecvCommand(t) \/ PeerGone(t) \/ Step(t) PROVE [Registry!Next]_owner
  BY <1>4, <1>6, <1>7 DEF Registry!Serves, Registry!Next
<1> QED
  BY <1>5, <1>6, <1>7 DEF Next

\* The server implements NickRegistry, and no thread changes the nickname of a user
\* but its own.
THEOREM ImplementsRegistry == Spec => RegistrySpec
<1>1. Init => Registry!Init
  BY DEF Init, Registry!Init
<1>2. IInv /\ [Next]_vars => [Registry!Next]_owner
  BY RegistryStep
<1>3. IInv /\ [Next]_vars => [\A t \in Users : Step(t) => Registry!Serves(t)]_vars
  BY RegistryStep
<1> QED
  BY <1>1, <1>2, <1>3, InvInit, InvInductive, PTL DEF Spec, RegistrySpec, Registry!Spec
-------------------------------------------------------------------------------
(* The mutexes without PART *)

\* Nobody is at a PART, and mutex_channel_table belongs to a thread inside
\* update_nick_on_channel or inside LIST of all channels: at neither place does
\* the thread wait for another mutex.
ChannelMutexReturned ==
  \A t \in Users : /\ cmd[t].op # "PART"
                   /\ lockC = t => pc[t] \in {"nick_member", "list_unlock"}

\* What the end of a handler leaves of the command.
LEMMA ReturnCmd ==
  ASSUME LocalOK, NEW t \in Users, NEW r, Return(t, r)
  PROVE  /\ \A u \in Users \ {t} : pc'[u] = pc[u] /\ cmd'[u] = cmd[u]
         /\ cmd'[t].op = "NONE"
  BY DEF Return, Goto, LocalOK, NoCmd

LEMMA ReplyCmd ==
  ASSUME LocalOK, NEW t \in Users, ReplyAndReturn(t)
  PROVE  /\ \A u \in Users \ {t} : pc'[u] = pc[u] /\ cmd'[u] = cmd[u]
         /\ cmd'[t].op = "NONE"
  BY ReturnCmd DEF ReplyAndReturn

LEMMA ReturnedInductive ==
  ASSUME "PART" \notin Cmds, TypeInv, ChannelMutexReturned, [Next]_vars
  PROVE  ChannelMutexReturned'
<1> USE ServerAssumption DEF Free, ChannelMutexReturned, lockVars, threadVars, localVars
<1>a. LocalOK /\ DataOK
  BY DEF TypeInv
<1>0. ASSUME NEW t \in Users, RecvCommand(t) PROVE ChannelMutexReturned'
  <2>1. /\ \A u \in Users \ {t} : pc'[u] = pc[u] /\ cmd'[u] = cmd[u]
        /\ pc[t] = "idle" /\ lockC' = lockC
    BY <1>a, <1>0, RecvFacts DEF RecvCommand
  <2>2. cmd'[t].op # "PART"
    BY <1>a, <1>0 DEF RecvCommand, LocalOK
  <2> QED
    BY <2>1, <2>2
<1>1. ASSUME NEW t \in Users, PeerGone(t) PROVE ChannelMutexReturned'
  BY <1>a, <1>1, GotoFacts, ReturnCmd, ReplyCmd DEF PeerGone, LocalOK, Fits
<1>2. ASSUME NEW t \in Users, RecvFails(t) PROVE ChannelMutexReturned'
  BY <1>a, <1>2, GotoFacts, ReturnCmd, ReplyCmd DEF RecvFails, LocalOK, Fits
<1>3. ASSUME NEW t \in Users, Close(t) PROVE ChannelMutexReturned'
  BY <1>a, <1>3, GotoFacts, ReturnCmd, ReplyCmd DEF Close, LocalOK, Fits
<1>4. ASSUME NEW t \in Users, DeleteUser(t) PROVE ChannelMutexReturned'
  BY <1>a, <1>4, GotoFacts, ReturnCmd, ReplyCmd DEF DeleteUser, LocalOK, Fits
<1>5. ASSUME NEW t \in Users, DestroyUser(t) PROVE ChannelMutexReturned'
  BY <1>a, <1>5, GotoFacts, ReturnCmd, ReplyCmd DEF DestroyUser, LocalOK, Fits
<1>6. ASSUME NEW t \in Users, AddUserNick(t) PROVE ChannelMutexReturned'
  BY <1>a, <1>6, GotoFacts, ReturnCmd, ReplyCmd DEF AddUserNick, LocalOK, Fits
<1>7. ASSUME NEW t \in Users, CountChannels(t) PROVE ChannelMutexReturned'
  BY <1>a, <1>7, GotoFacts, ReturnCmd, ReplyCmd DEF CountChannels, ReturnFromLusers, LocalOK, Fits
<1>7a. ASSUME NEW t \in Users, SendCounts(t) PROVE ChannelMutexReturned'
  BY <1>a, <1>7a, GotoFacts, ReturnCmd, ReplyCmd DEF SendCounts, ReturnFromLusers, LocalOK, Fits
<1>8. ASSUME NEW t \in Users, Reply(t) PROVE ChannelMutexReturned'
  BY <1>a, <1>8, GotoFacts, ReturnCmd, ReplyCmd DEF Reply, LocalOK, Fits
<1>9. ASSUME NEW t \in Users, Oper(t) PROVE ChannelMutexReturned'
  BY <1>a, <1>9, GotoFacts, ReturnCmd, ReplyCmd DEF Oper, LocalOK, Fits
<1>10. ASSUME NEW t \in Users, GetUser(t) PROVE ChannelMutexReturned'
  BY <1>a, <1>10, GotoFacts, ReturnCmd, ReplyCmd DEF GetUser, LocalOK, Fits
<1>11. ASSUME NEW t \in Users, SendToUser(t) PROVE ChannelMutexReturned'
  BY <1>a, <1>11, GotoFacts, ReturnCmd, ReplyCmd DEF SendToUser, LocalOK, Fits
<1>12. ASSUME NEW t \in Users, Whois(t) PROVE ChannelMutexReturned'
  BY <1>a, <1>12, GotoFacts, ReturnCmd, ReplyCmd DEF Whois, LocalOK, Fits
<1>13. ASSUME NEW t \in Users, Snapshot(t) PROVE ChannelMutexReturned'
  BY <1>a, <1>13, GotoFacts, ReturnCmd, ReplyCmd DEF Snapshot, LocalOK, Fits
<1>14. ASSUME NEW t \in Users, LookupMember(t) PROVE ChannelMutexReturned'
  BY <1>a, <1>14, GotoFacts, ReturnCmd, ReplyCmd DEF LookupMember, LocalOK, Fits
<1>15. ASSUME NEW t \in Users, SendToMember(t) PROVE ChannelMutexReturned'
  BY <1>a, <1>15, GotoFacts, ReturnCmd, ReplyCmd DEF SendToMember, LocalOK, Fits
<1>16. ASSUME NEW t \in Users, EndNotify(t) PROVE ChannelMutexReturned'
  BY <1>a, <1>16, GotoFacts, ReturnCmd, ReplyCmd DEF EndNotify, LocalOK, Fits
<1>17. ASSUME NEW t \in Users, NextChannel(t) PROVE ChannelMutexReturned'
  BY <1>a, <1>17, GotoFacts, ReturnCmd, ReplyCmd DEF NextChannel, LocalOK, Fits
<1>18. ASSUME NEW t \in Users, NickLock(t) PROVE ChannelMutexReturned'
  BY <1>a, <1>18, GotoFacts, ReturnCmd, ReplyCmd DEF NickLock, LocalOK, Fits
<1>19. ASSUME NEW t \in Users, NickLockChannels(t) PROVE ChannelMutexReturned'
  BY <1>a, <1>19, GotoFacts, ReturnCmd, ReplyCmd DEF NickLockChannels, LocalOK, Fits
<1>20. ASSUME NEW t \in Users, NickOnChannel(t) PROVE ChannelMutexReturned'
  BY <1>a, <1>20, GotoFacts, ReturnCmd, ReplyCmd DEF NickOnChannel, LocalOK, Fits
<1>21. ASSUME NEW t \in Users, NickUnlockChannels(t) PROVE ChannelMutexReturned'
  BY <1>a, <1>21, GotoFacts, ReturnCmd, ReplyCmd DEF NickUnlockChannels, LocalOK, Fits
<1>22. ASSUME NEW t \in Users, NickCommit(t) PROVE ChannelMutexReturned'
  BY <1>a, <1>22, GotoFacts, ReturnCmd, ReplyCmd DEF NickCommit, LocalOK, Fits
<1>23. ASSUME NEW t \in Users, TryGetChannel(t) PROVE ChannelMutexReturned'
  BY <1>a, <1>23, GotoFacts, ReturnCmd, ReplyCmd DEF TryGetChannel, AfterGet, LocalOK, Fits
<1>24. ASSUME NEW t \in Users, JoinChannel(t) PROVE ChannelMutexReturned'
  BY <1>a, <1>24, GotoFacts, ReturnCmd, ReplyCmd DEF JoinChannel, LocalOK, Fits
<1>25. ASSUME NEW t \in Users, PartLock(t) PROVE ChannelMutexReturned'
  BY <1>a, <1>25, GotoFacts, ReturnCmd, ReplyCmd DEF PartLock, LocalOK, Fits
<1>26. ASSUME NEW t \in Users, LeaveChannel(t) PROVE ChannelMutexReturned'
  BY <1>a, <1>26, GotoFacts, ReturnCmd, ReplyCmd DEF LeaveChannel, AfterLeave, LocalOK, Fits
<1>27. ASSUME NEW t \in Users, PartReply(t) PROVE ChannelMutexReturned'
  BY <1>a, <1>27, GotoFacts, ReturnCmd, ReplyCmd DEF PartReply, LocalOK, Fits
<1>28. ASSUME NEW t \in Users, PartUnlock(t) PROVE ChannelMutexReturned'
  BY <1>a, <1>28, GotoFacts, ReturnCmd, ReplyCmd DEF PartUnlock, LocalOK, Fits
<1>29. ASSUME NEW t \in Users, ListLock(t) PROVE ChannelMutexReturned'
  BY <1>a, <1>29, GotoFacts, ReturnCmd, ReplyCmd DEF ListLock, LocalOK, Fits
<1>30. ASSUME NEW t \in Users, ListUnlock(t) PROVE ChannelMutexReturned'
  BY <1>a, <1>30, GotoFacts, ReturnCmd, ReplyCmd DEF ListUnlock, LocalOK, Fits
<1>31. ASSUME NEW t \in Users, GetChannel(t) PROVE ChannelMutexReturned'
  BY <1>a, <1>31, GotoFacts, ReturnCmd, ReplyCmd DEF GetChannel, LocalOK, Fits
<1>32. ASSUME NEW t \in Users, CheckOnChannel(t) PROVE ChannelMutexReturned'
  BY <1>a, <1>32, GotoFacts, ReturnCmd, ReplyCmd DEF CheckOnChannel, LocalOK, Fits
<1>33. ASSUME NEW t \in Users, ModeAuthorise(t) PROVE ChannelMutexReturned'
  BY <1>a, <1>33, GotoFacts, ReturnCmd, ReplyCmd DEF ModeAuthorise, LocalOK, Fits
<1>34. ASSUME NEW t \in Users, UpdateMemberMode(t) PROVE ChannelMutexReturned'
  BY <1>a, <1>34, GotoFacts, ReturnCmd, ReplyCmd DEF UpdateMemberMode, LocalOK, Fits
<1>35. ASSUME NEW t \in Users, QuitChannels(t) PROVE ChannelMutexReturned'
  BY <1>a, <1>35, GotoFacts, ReturnCmd, ReplyCmd DEF QuitChannels, LocalOK, Fits
<1>36. CASE UNCHANGED vars
  BY <1>36 DEF vars
<1> QED
  BY <1>0, <1>1, <1>2, <1>3, <1>4, <1>5, <1>6, <1>7, <1>7a, <1>8, <1>9, <1>10, <1>11, <1>12, <1>13, <1>14, <1>15, <1>16, <1>17, <1>18, <1>19, <1>20, <1>21, <1>22, <1>23, <1>24, <1>25, <1>26, <1>27, <1>28, <1>29, <1>30, <1>31, <1>32, <1>33, <1>34, <1>35, <1>36 DEF Next, Step

\* Without PART the server cannot deadlock on its two mutexes: whoever holds
\* mutex_channel_table gives it back without taking another mutex, so that the
\* rename waiting for it with mutex_user_table locked waits for no cycle.
THEOREM DeadlockNeedsPart ==
  "PART" \notin Cmds => (Spec => [](NoWaitCycle /\ ChannelMutexReturned))
<1> SUFFICES ASSUME "PART" \notin Cmds
             PROVE  Spec => [](NoWaitCycle /\ ChannelMutexReturned)
  OBVIOUS
<1>1. Init => ChannelMutexReturned
  BY ServerAssumption DEF Init, NoCmd, ChannelMutexReturned
<1>2. TypeInv /\ ChannelMutexReturned /\ [Next]_vars => TypeInv' /\ ChannelMutexReturned'
  BY LocalInductive, DataInductive, ReturnedInductive DEF TypeInv
<1>3. ChannelMutexReturned => NoWaitCycle
  BY DEF ChannelMutexReturned, NoWaitCycle
<1> QED
  BY TypeInit, <1>1, <1>2, <1>3, PTL DEF Spec
===============================================================================
