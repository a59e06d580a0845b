----------------------------- MODULE SessionProofs -----------------------------
(* Proofs about Session, for any clients, nicknames, channels and bound. *)
EXTENDS Session, TLAPS

\* A client that has yet to connect has nothing; one that has left has no nickname.
FreshOrGone ==
  \A c \in Clients :
    /\ conn[c] = "none" =>
         nick[c] = NULL /\ ~username[c] /\ ~registered[c] /\ state[c] = "unknown"
    /\ conn[c] = "closed" => nick[c] = NULL

\* The nickname table is the inverse of user_t.nick.
TableExact ==
  /\ \A n \in Nicks : table[n] # NULL => nick[table[n]] = n
  /\ \A c \in Clients : nick[c] # NULL => table[nick[c]] = c

\* An entry of a channel belongs to a client that is there, under its nickname.
Entry(e, S) ==
  /\ Present(e.by) /\ registered[e.by] /\ e.nick = nick[e.by]
  /\ \A f \in S : f.by = e.by => e = f
MembersExact == ~deserted => \A ch \in Chans : \A e \in members[ch] : Entry(e, members[ch])

IInv ==
  /\ TypeOK /\ StateTruthful /\ FreshOrGone /\ TableExact /\ MembersExact
  /\ RegularSessionSafe

\* What a step must do besides: the action properties.
Closed ==
  \A c \in Clients : conn[c] # "closing" /\ conn'[c] = "closing" =>
    \/ conn[c] = "reset"
    \/ last'.by = c /\ (last'.op = "QUIT" \/ last'.args = "hole")
    \/ /\ last'.by = c /\ last'.op \in {"PRIVMSG", "NOTICE"}
       /\ last'.to # NULL /\ \E u \in last'.to : conn[u] # "open"
Relayed ==
  ~deserted /\ last' # last /\ last'.to # NULL =>
    \/ last'.to = Audience
    \/ last'.op \in {"PRIVMSG", "NOTICE"} /\ last'.chan = NULL
Directed == [Directory!Next]_(Directory!vars)
Good == IInv' /\ Closed /\ Relayed /\ Directed /\ [Registry!Next]_table

\* A client whose command is handled, while the server runs.
Acting(c) == IInv /\ server = "up" /\ conn[c] \in {"open", "reset"}
-------------------------------------------------------------------------------
(* Steps of the directory *)

\* A command that leaves channels and operators alone, a step that is no command, and
\* any step once somebody has deserted a channel.
LEMMA IdleDirected ==
  ASSUME NEW c \in Clients, members' = members, ircop' = ircop, deserted' = deserted, last'.by = c
  PROVE  Directed
<1>1. UNCHANGED <<MembersOf, OperatorsOf, {d \in Clients : ircop[d]}>>
  BY DEF MembersOf, OperatorsOf
<1>2. CASE ~deserted
  BY <1>1, <1>2 DEF Directed, Directory!Next, Directory!Act, Directory!Look
<1>3. CASE deserted
  BY <1>3 DEF Directed, Directory!Next
<1> QED BY <1>2, <1>3

LEMMA StillDirected ==
  ASSUME members' = members, ircop' = ircop, deserted' = deserted, last' = last
  PROVE  Directed
BY DEF Directed, Directory!vars, MembersOf, OperatorsOf

LEMMA FreeDirected == deserted /\ deserted' => Directed
BY DEF Directed, Directory!Next

\* What the members of one channel make of the directory's functions.
LEMMA OneChannel ==
  ASSUME NEW ch \in Chans, \A x \in Chans \ {ch} : members'[x] = members[x]
  PROVE  /\ MembersOf' = [MembersOf EXCEPT ![ch] = {f.by : f \in members'[ch]}]
         /\ OperatorsOf' = [OperatorsOf EXCEPT ![ch] = {f.by : f \in {g \in members'[ch] : g.op}}]
         /\ MembersOf[ch] = {f.by : f \in members[ch]}
         /\ OperatorsOf[ch] = {f.by : f \in {g \in members[ch] : g.op}}
BY DEF MembersOf, OperatorsOf

\* JOIN, PART and MODE, of a channel on which a client has one entry.
LEMMA JoinDirected ==
  ASSUME NEW c \in Clients, NEW ch \in Chans, \A x \in Chans \ {ch} : members'[x] = members[x],
         \A f \in members[ch] : f.by # c,
         NEW e, e.by = c, e.op <=> members[ch] = {}, members'[ch] = members[ch] \cup {e},
         ircop' = ircop
  PROVE  Directory!Join(c, ch)
<1>1. c \notin MembersOf[ch] /\ (MembersOf[ch] = {} <=> members[ch] = {})
  BY OneChannel
<1>2. MembersOf' = [MembersOf EXCEPT ![ch] = MembersOf[ch] \cup {c}]
  <2>1. {f.by : f \in members'[ch]} = {f.by : f \in members[ch]} \cup {c}
    OBVIOUS
  <2> QED BY <2>1, OneChannel
<1>3. CASE members[ch] = {}
  <2>1. {f \in members'[ch] : f.op} = {e} /\ {f.by : f \in {e}} = {c}
    BY <1>3
  <2> QED BY <1>1, <1>2, <1>3, <2>1, OneChannel DEF Directory!Join
<1>4. CASE members[ch] # {}
  <2>1. {f \in members'[ch] : f.op} = {f \in members[ch] : f.op}
    BY <1>4
  <2>2. OperatorsOf' = [OperatorsOf EXCEPT ![ch] = OperatorsOf[ch]]
    BY <2>1, OneChannel
  <2>3. OperatorsOf' = OperatorsOf
    BY <2>2 DEF OperatorsOf
  <2> QED BY <1>1, <1>2, <1>4, <2>3 DEF Directory!Join
<1> QED BY <1>3, <1>4

LEMMA PartDirected ==
  ASSUME NEW c \in Clients, NEW ch \in Chans, \A x \in Chans \ {ch} : members'[x] = members[x],
         NEW e \in members[ch], \A f \in members[ch] : f.by = c <=> f = e,
         members'[ch] = members[ch] \ {e}, ircop' = ircop
  PROVE  Directory!Part(c, ch)
<1>1. c \in MembersOf[ch]
  BY OneChannel
<1>2. {f.by : f \in members'[ch]} = {f.by : f \in members[ch]} \ {c}
  OBVIOUS
<1>3. {f.by : f \in {g \in members'[ch] : g.op}} = {f.by : f \in {g \in members[ch] : g.op}} \ {c}
  OBVIOUS
<1> QED BY <1>1, <1>2, <1>3, OneChannel DEF Directory!Part

LEMMA ModeDirected ==
  ASSUME NEW c \in Clients, NEW ch \in Chans, \A x \in Chans \ {ch} : members'[x] = members[x],
         ircop[c] \/ \E g \in members[ch] : g.by = c /\ g.op,
         NEW e \in members[ch], \A f \in members[ch] : f.by = e.by <=> f = e,
         NEW d, d.by = e.by, members'[ch] = (members[ch] \ {e}) \cup {d}, ircop' = ircop
  PROVE  Directory!SetOperator(c, ch)
<1>1. e.by \in MembersOf[ch] /\ c \in OperatorsOf[ch] \cup {x \in Clients : ircop[x]}
  BY OneChannel
<1>2. {f.by : f \in members'[ch]} = {f.by : f \in members[ch]}
  OBVIOUS
<1>3. MembersOf' = MembersOf
  <2>1. MembersOf' = [MembersOf EXCEPT ![ch] = MembersOf[ch]]
    BY <1>2, OneChannel
  <2> QED BY <2>1 DEF MembersOf
<1>4. CASE d.op
  <2>1. {f.by : f \in {g \in members'[ch] : g.op}}
          = {f.by : f \in {g \in members[ch] : g.op}} \cup {e.by}
    BY <1>4
  <2> QED BY <1>1, <1>3, <2>1, OneChannel DEF Directory!SetOperator
<1>5. CASE ~d.op
  <2>1. {f.by : f \in {g \in members'[ch] : g.op}}
          = {f.by : f \in {g \in members[ch] : g.op}} \ {e.by}
    BY <1>5
  <2> QED BY <1>1, <1>3, <2>1, OneChannel DEF Directory!SetOperator
<1> QED BY <1>4, <1>5

\* Each is then a step of the directory, as is a command that leaves the channels alone.
LEMMA ActDirected ==
  ASSUME NEW c \in Clients, ~deserted, deserted' = deserted, last'.by = c,
         \/ \E ch \in Chans : \/ Directory!Join(c, ch) \/ Directory!Part(c, ch)
                              \/ Directory!SetOperator(c, ch)
         \/ Directory!BecomeIrcop(c) \/ Directory!Look
  PROVE  Directed
BY DEF Directed, Directory!Next, Directory!Act

-------------------------------------------------------------------------------
(* Commands *)

\* What the handlers may rely on in a command.
LEMMA CommandFacts ==
  ASSUME NEW m \in Commands
  PROVE  /\ m.op \in Ops /\ m.args \in Args /\ m.chan \in Chans \cup {NULL}
         /\ m.nick \in Nicks \cup {NULL}
         /\ m.op \in {"NICK", "QUIT"} => m.chan = NULL
         /\ m.op \in {"NICK", "WHOIS"} /\ m.args = "ok" => m.nick \in Nicks
         /\ m.op = "JOIN" /\ m.args = "ok" => m.chan \in Chans
         /\ m.op \in {"PART", "MODE"} /\ m.args \notin {"few", "hole"} => m.chan \in Chans
         /\ m.op = "MODE" /\ m.args \notin {"few", "hole"} => m.nick \in Nicks
         /\ m.op = "OPER" /\ m.args = "ok" => m.on \in BOOLEAN
         /\ m.op = "MODE" /\ m.args = "ok" => m.on \in BOOLEAN
         /\ m.op \in {"PRIVMSG", "NOTICE"} =>
              ~(m.nick # NULL /\ m.chan # NULL)
         /\ m.op # "PART" => m.args # "only_last"
         /\ m.op \in {"NICK", "WHOIS"} => m.args \in {"few", "hole", "ok"}
         /\ m.op \in {"USER", "JOIN", "OPER"} => m.args \in {"few", "hole", "ok"}
BY SessionAssumption DEF Commands, Cmd, Ops, Args

-------------------------------------------------------------------------------
(* Steps that change nothing but what the step itself leaves behind *)

\* The invariant after a return that leaves users and tables as they are.
LEMMA QuietKeeps ==
  ASSUME NEW c \in Clients, Acting(c), NEW m \in Commands,
         NEW r, NEW to \in (SUBSET Clients) \cup {NULL},
         Return(c, m, r, to), UNCHANGED <<userVars, tableVars>>
  PROVE  IInv' /\ Directed /\ [Registry!Next]_table
<1>1. /\ nick' = nick /\ username' = username /\ registered' = registered /\ ircop' = ircop
      /\ welcomed' = welcomed /\ state' = state /\ table' = table /\ members' = members
      /\ opNum' = opNum /\ server' = server /\ deserted' = deserted
  BY DEF userVars, tableVars, Return
<1>2. conn' = conn \/ conn' = [conn EXCEPT ![c] = "closing"]
  BY DEF Return
<1>3. last' = [by |-> c, op |-> m.op, args |-> m.args, chan |-> m.chan, to |-> to]
  BY DEF Return, Sent
<1>4. TypeOK BY DEF Acting, IInv
<1>5. conn' \in [Clients -> {"none", "open", "reset", "closing", "closed"}]
  BY <1>2, <1>4 DEF TypeOK
<1>6. \A d \in Clients : /\ Present(d)' <=> Present(d)
                         /\ conn'[d] = "none" <=> conn[d] = "none"
                         /\ conn'[d] = "closed" <=> conn[d] = "closed"
  BY <1>2, <1>4 DEF TypeOK, Present, Acting
<1>7. TypeOK'
  BY <1>1, <1>3, <1>4, <1>5, CommandFacts DEF TypeOK
<1>8. StateTruthful' /\ FreshOrGone' /\ TableExact'
  <2>1. StateTruthful'
    BY <1>1, <1>6 DEF Acting, IInv, StateTruthful
  <2>2. FreshOrGone'
    BY <1>1, <1>6 DEF Acting, IInv, FreshOrGone
  <2>3. TableExact'
    BY <1>1 DEF Acting, IInv, TableExact
  <2> QED BY <2>1, <2>2, <2>3
<1>9. MembersExact'
  <2> SUFFICES ASSUME ~deserted, NEW ch \in Chans, NEW e \in members[ch]
               PROVE  Entry(e, members[ch])'
    BY <1>1 DEF MembersExact
  <2>1. Entry(e, members[ch]) BY DEF Acting, IInv, MembersExact
  <2>2. e.by \in Clients BY <1>4 DEF TypeOK, Member
  <2> QED BY <1>1, <1>6, <2>1, <2>2 DEF Entry
<1>10. RegularSessionSafe'
  BY <1>1 DEF Acting, RegularSessionSafe, OnlyPartLocks
<1>11. Directed
  BY <1>1, <1>3, IdleDirected
<1> QED BY <1>1, <1>7, <1>8, <1>9, <1>10, <1>11 DEF IInv

\* A connection that closes for a cause.
LEMMA ReturnCloses ==
  ASSUME NEW c \in Clients, NEW m, NEW r, NEW to, Return(c, m, r, to), TypeOK,
         r = "FAILURE" =>
           \/ conn[c] = "reset"
           \/ m.op = "QUIT" \/ m.args = "hole"
           \/ m.op \in {"PRIVMSG", "NOTICE"} /\ to # NULL /\ \E u \in to : conn[u] # "open"
  PROVE  Closed
<1>1. last'.by = c /\ last'.op = m.op /\ last'.args = m.args /\ last'.to = to
  BY DEF Return, Sent
<1>2. conn' = IF r = "FAILURE" THEN [conn EXCEPT ![c] = "closing"] ELSE conn
  BY DEF Return
<1> QED BY <1>1, <1>2 DEF Closed, TypeOK

LEMMA ReplyResult ==
  ASSUME NEW c \in Clients, conn[c] \in {"open", "reset"}, NEW r \in SendResults(c), r = "FAILURE"
  PROVE  conn[c] = "reset"
BY DEF SendResults

LEMMA Unrelayed ==
  ASSUME NEW c, NEW m, Sent(c, m, NULL) PROVE Relayed
BY DEF Sent, Relayed

LEMMA RefuseGood ==
  ASSUME NEW c \in Clients, Acting(c), NEW m \in Commands, Refuse(c, m)
  PROVE  Good
<1>1. PICK r \in SendResults(c) : Return(c, m, r, NULL)
  BY DEF Refuse, Reply
<1>2. UNCHANGED <<userVars, tableVars>> BY DEF Refuse
<1>3. IInv' /\ Directed /\ [Registry!Next]_table BY <1>1, <1>2, QuietKeeps
<1>4. Closed BY <1>1, ReturnCloses, ReplyResult DEF Acting, IInv
<1>5. Relayed BY <1>1, Unrelayed DEF Return
<1> QED BY <1>3, <1>4, <1>5 DEF Good

LEMMA IgnoreGood ==
  ASSUME NEW c \in Clients, Acting(c), NEW m \in Commands, Ignore(c, m)
  PROVE  Good
<1>1. Return(c, m, "SUCCESS", NULL) /\ UNCHANGED <<userVars, tableVars>> BY DEF Ignore
<1>2. IInv' /\ Directed /\ [Registry!Next]_table BY <1>1, QuietKeeps
<1>3. Closed BY <1>1, ReturnCloses DEF Acting, IInv
<1>4. Relayed BY <1>1, Unrelayed DEF Return
<1> QED BY <1>2, <1>3, <1>4 DEF Good

\* NICK and JOIN with a hole.
LEMMA HoleGood ==
  ASSUME NEW c \in Clients, Acting(c), NEW m \in Commands, m.args = "hole",
         Return(c, m, "FAILURE", NULL), UNCHANGED <<userVars, tableVars>>
  PROVE  Good
<1>1. IInv' /\ Directed /\ [Registry!Next]_table BY QuietKeeps
<1>2. Closed BY ReturnCloses DEF Acting, IInv
<1>3. Relayed BY Unrelayed DEF Return
<1> QED BY <1>1, <1>2, <1>3 DEF Good
-------------------------------------------------------------------------------
(* The end of the server *)

\* What Regular says of the clients.
Calm ==
  /\ \A d \in Clients : conn[d] # "none" => registered[d] /\ conn[d] \in {"open", "closed"}
  /\ ~deserted

LEMMA StopKeeps ==
  ASSUME NEW c \in Clients, Acting(c), NEW m \in Commands, NEW how \in {"locked", "crashed", "undefined"},
         Stop(c, m, how), RegularSessionSafe'
  PROVE  Good
<1>1. /\ nick' = nick /\ username' = username /\ registered' = registered /\ ircop' = ircop
      /\ welcomed' = welcomed /\ state' = state /\ table' = table /\ members' = members
      /\ opNum' = opNum /\ deserted' = deserted /\ conn' = conn /\ server' = how
      /\ last' = [by |-> c, op |-> m.op, args |-> m.args, chan |-> m.chan, to |-> NULL]
  BY DEF userVars, tableVars, Stop, Sent
<1>2. TypeOK BY DEF Acting, IInv
<1>3. TypeOK' BY <1>1, <1>2, CommandFacts DEF TypeOK
<1>4. StateTruthful' BY <1>1 DEF Acting, IInv, StateTruthful, Present
<1>5. FreshOrGone' BY <1>1 DEF Acting, IInv, FreshOrGone
<1>6. TableExact' BY <1>1 DEF Acting, IInv, TableExact
<1>7. MembersExact' BY <1>1 DEF Acting, IInv, MembersExact, Entry, Present
<1>8. Closed BY <1>1 DEF Closed
<1>9. Relayed BY Unrelayed DEF Stop
<1>10. Directed BY <1>1, IdleDirected
<1> QED BY <1>1, <1>3, <1>4, <1>5, <1>6, <1>7, <1>8, <1>9, <1>10 DEF Good, IInv

\* A crash needs an irregular client or an irregular line.
LEMMA StopGood ==
  ASSUME NEW c \in Clients, Acting(c), NEW m \in Commands, NEW how \in {"crashed", "undefined"},
         Stop(c, m, how), Calm => m.args \in {"hole", "only_last"}
  PROVE  Good
<1>1. /\ registered' = registered /\ conn' = conn /\ deserted' = deserted
      /\ server' = how /\ last'.args = m.args
  BY DEF Stop, Sent, userVars
<1>2. OnlyPartLocks' BY <1>1 DEF OnlyPartLocks
<1>3. ~Regular' BY <1>1 DEF Regular, Calm
<1>4. RegularSessionSafe' BY <1>1, <1>2, <1>3 DEF RegularSessionSafe
<1> QED BY <1>4, StopKeeps

\* While everybody is regular, all who are there are registered and can be reached.
LEMMA CalmClients ==
  ASSUME IInv, Calm, NEW d \in Clients, Present(d)
  PROVE  conn[d] = "open" /\ registered[d] /\ nick[d] # NULL /\ username[d]
BY DEF IInv, Calm, Present, StateTruthful, TypeOK

LEMMA Holder ==
  ASSUME IInv, NEW n \in Nicks, table[n] # NULL
  PROVE  table[n] \in Clients /\ Present(table[n]) /\ nick[table[n]] = n
<1>1. table[n] \in Clients BY DEF IInv, TypeOK
<1>2. nick[table[n]] = n BY DEF IInv, TableExact
<1>3. n # NULL BY SessionAssumption
<1>4. conn[table[n]] \notin {"none", "closed"} BY <1>1, <1>2, <1>3 DEF IInv, FreshOrGone
<1>5. Present(table[n]) BY <1>1, <1>4 DEF IInv, TypeOK, Present
<1> QED BY <1>1, <1>2, <1>5

\* The entries of all channels.
Entries == UNION {members[ch] : ch \in Chans}

LEMMA EntryFacts ==
  ASSUME IInv, NEW e \in Entries
  PROVE  /\ e \in Member /\ e.by \in Clients /\ e.nick \in Nicks /\ e.nick # NULL
         /\ ~deserted => /\ Present(e.by) /\ registered[e.by] /\ e.nick = nick[e.by]
                          /\ table[e.nick] = e.by
<1>1. PICK ch \in Chans : e \in members[ch] BY DEF Entries
<1>2. e \in Member BY <1>1 DEF IInv, TypeOK
<1>3. e.by \in Clients /\ e.nick \in Nicks BY <1>2 DEF Member
<1>4. e.nick # NULL BY <1>3, SessionAssumption
<1>5. ASSUME ~deserted
      PROVE  Present(e.by) /\ registered[e.by] /\ e.nick = nick[e.by] /\ table[e.nick] = e.by
  <2>1. Entry(e, members[ch]) BY <1>1, <1>5 DEF IInv, MembersExact
  <2>2. table[nick[e.by]] = e.by BY <1>3, <1>4, <2>1 DEF Entry, IInv, TableExact
  <2> QED BY <2>1, <2>2 DEF Entry
<1> QED BY <1>2, <1>3, <1>4, <1>5

LEMMA CalmEntry ==
  ASSUME IInv, Calm, NEW e \in Entries
  PROVE  ~Freed(e) /\ (table[e.nick] # NULL => conn[table[e.nick]] = "open")
<1>1. ~deserted BY DEF Calm
<1>2. e.by \in Clients /\ Present(e.by) /\ table[e.nick] = e.by BY <1>1, EntryFacts
<1>3. conn[e.by] = "open" BY <1>2, CalmClients
<1> QED BY <1>2, <1>3 DEF Freed

\* So their relays do not fail.
LEMMA CalmRelay ==
  ASSUME IInv, Calm, NEW S, NEW c \in Clients,
         \A e \in S : \/ e \in Entries
                      \/ ~Freed(e) /\ e.nick = nick[c] /\ table[nick[c]] = c /\ conn[c] = "open"
  PROVE  ~RelayFails(S)
<1>1. ASSUME NEW e \in S PROVE ~Freed(e) /\ (table[e.nick] # NULL => conn[table[e.nick]] = "open")
  <2>1. CASE e \in Entries BY <2>1, CalmEntry
  <2>2. CASE e \notin Entries BY <2>2
  <2> QED BY <2>1, <2>2
<1>2. ASSUME NEW u \in Holders(S) PROVE conn[u] = "open"
  <2>1. PICK e \in S : u = table[e.nick] /\ u # NULL BY DEF Holders
  <2> QED BY <1>1, <2>1
<1> QED BY <1>1, <1>2 DEF RelayFails

\* Whom a relay reaches, until somebody has deserted a channel.
LEMMA RelayReaches ==
  ASSUME IInv, ~deserted, NEW S, NEW c \in Clients,
         \A e \in S : e \in Entries \/ (e.by = c /\ e.nick = nick[c] /\ table[nick[c]] = c)
  PROVE  Holders(S) = {e.by : e \in S}
<1>1. ASSUME NEW e \in S PROVE table[e.nick] = e.by /\ e.by \in Clients
  <2>1. CASE e \in Entries BY <2>1, EntryFacts
  <2>2. CASE e \notin Entries BY <2>2
  <2> QED BY <2>1, <2>2
<1>2. NULL \notin Clients BY SessionAssumption
<1> QED BY <1>1, <1>2 DEF Holders

LEMMA HoldersType ==
  ASSUME IInv, NEW S, \A e \in S : e.nick \in Nicks
  PROVE  Holders(S) \in SUBSET Clients
BY DEF Holders, IInv, TypeOK

\* A client that acts and is registered has its nickname in the table.
LEMMA ActorFacts ==
  ASSUME NEW c \in Clients, Acting(c), registered[c]
  PROVE  /\ Present(c) /\ nick[c] \in Nicks /\ nick[c] # NULL /\ username[c]
         /\ table[nick[c]] = c
         /\ Calm => conn[c] = "open"
<1>1. Present(c) BY DEF Acting, Present
<1>2. nick[c] # NULL /\ username[c] BY <1>1 DEF Acting, IInv, StateTruthful
<1>3. nick[c] \in Nicks BY <1>2 DEF Acting, IInv, TypeOK
<1>4. table[nick[c]] = c BY <1>2 DEF Acting, IInv, TableExact
<1>5. Calm => conn[c] = "open" BY <1>1, CalmClients DEF Acting
<1> QED BY <1>1, <1>2, <1>3, <1>4, <1>5
-------------------------------------------------------------------------------
(* Connections come and go *)

\* What the steps of connections leave alone, and a nickname table that stays.
LEMMA ConnectGood ==
  ASSUME IInv, server = "up", NEW c \in Clients, Connect(c)
  PROVE  Good
<1>1. /\ conn[c] = "none" /\ conn' = [conn EXCEPT ![c] = "open"]
      /\ nick' = nick /\ username' = username /\ registered' = registered /\ ircop' = ircop
      /\ welcomed' = welcomed /\ state' = state /\ table' = table /\ members' = members
      /\ opNum' = opNum /\ server' = server /\ deserted' = deserted /\ last' = last
  BY DEF Connect, userVars, tableVars
<1>2. TypeOK BY DEF IInv
<1>3. TypeOK' BY <1>1, <1>2 DEF TypeOK
<1>4. StateTruthful' BY <1>1, <1>2 DEF IInv, StateTruthful, FreshOrGone, Present, TypeOK
<1>5. FreshOrGone' BY <1>1, <1>2 DEF IInv, FreshOrGone, TypeOK
<1>6. TableExact' BY <1>1 DEF IInv, TableExact
<1>7. MembersExact'
  <2> SUFFICES ASSUME ~deserted, NEW ch \in Chans, NEW e \in members[ch] PROVE Entry(e, members[ch])'
    BY <1>1 DEF MembersExact
  <2>1. Entry(e, members[ch]) /\ e.by \in Clients BY <1>2 DEF IInv, MembersExact, TypeOK, Member
  <2> QED BY <1>1, <1>2, <2>1 DEF Entry, Present, TypeOK
<1>8. RegularSessionSafe' BY <1>1 DEF RegularSessionSafe, OnlyPartLocks
<1>9. Closed /\ Relayed BY <1>1, <1>2 DEF Closed, Relayed, TypeOK
<1>10. Directed BY <1>1, StillDirected
<1> QED BY <1>1, <1>3, <1>4, <1>5, <1>6, <1>7, <1>8, <1>9, <1>10 DEF Good, IInv

LEMMA GoneGood ==
  ASSUME IInv, server = "up", NEW c \in Clients, PeerGone(c) \/ RecvFails(c)
  PROVE  Good
<1>1. /\ \/ conn[c] = "open" /\ conn' = [conn EXCEPT ![c] = "reset"]
         \/ conn[c] = "reset" /\ conn' = [conn EXCEPT ![c] = "closing"]
      /\ nick' = nick /\ username' = username /\ registered' = registered /\ ircop' = ircop
      /\ welcomed' = welcomed /\ state' = state /\ table' = table /\ members' = members
      /\ opNum' = opNum /\ server' = server /\ deserted' = deserted /\ last' = last
  BY DEF PeerGone, RecvFails, userVars, tableVars
<1>2. TypeOK BY DEF IInv
<1>3. TypeOK' BY <1>1, <1>2 DEF TypeOK
<1>a. \A d \in Clients : /\ Present(d)' <=> Present(d)
                         /\ conn'[d] = "none" <=> conn[d] = "none"
                         /\ conn'[d] = "closed" <=> conn[d] = "closed"
  BY <1>1, <1>2 DEF TypeOK, Present
<1>4. StateTruthful' BY <1>1, <1>a DEF IInv, StateTruthful
<1>5. FreshOrGone' BY <1>1, <1>a DEF IInv, FreshOrGone
<1>6. TableExact' BY <1>1 DEF IInv, TableExact
<1>7. MembersExact'
  <2> SUFFICES ASSUME ~deserted, NEW ch \in Chans, NEW e \in members[ch] PROVE Entry(e, members[ch])'
    BY <1>1 DEF MembersExact
  <2>1. Entry(e, members[ch]) /\ e.by \in Clients BY <1>2 DEF IInv, MembersExact, TypeOK, Member
  <2> QED BY <1>1, <1>a, <2>1 DEF Entry
<1>8. RegularSessionSafe' BY <1>1 DEF RegularSessionSafe, OnlyPartLocks
<1>9. Closed BY <1>1, <1>2 DEF Closed, TypeOK
<1>10. Relayed BY <1>1 DEF Relayed
<1>11. Directed BY <1>1, StillDirected
<1> QED BY <1>1, <1>3, <1>4, <1>5, <1>6, <1>7, <1>8, <1>9, <1>10, <1>11 DEF Good, IInv

\* Only the entry of the client that leaves goes out of the nickname table.
LEMMA CloseGood ==
  ASSUME IInv, server = "up", NEW c \in Clients, Close(c)
  PROVE  Good
<1>1. /\ conn[c] = "closing" /\ conn' = [conn EXCEPT ![c] = "closed"]
      /\ username' = username /\ registered' = registered /\ ircop' = ircop
      /\ welcomed' = welcomed /\ state' = state /\ members' = members
      /\ opNum' = opNum /\ last' = last
      /\ deserted' = (deserted \/ \E ch \in Chans : \E e \in members[ch] : e.by = c)
  BY DEF Close
<1>2. TypeOK BY DEF IInv
<1>3. \/ /\ nick[c] = NULL /\ server' \in {"crashed", "undefined"} /\ nick' = nick /\ table' = table
      \/ /\ nick[c] # NULL /\ server' = server /\ table' = [table EXCEPT ![nick[c]] = NULL]
         /\ nick' = [nick EXCEPT ![c] = NULL]
  BY DEF Close
<1>4. nick'[c] = NULL /\ \A d \in Clients \ {c} : nick'[d] = nick[d]
  BY <1>2, <1>3 DEF TypeOK
<1>5. Present(c) /\ ~Present(c)' /\ \A d \in Clients \ {c} : Present(d)' <=> Present(d)
  BY <1>1, <1>2 DEF TypeOK, Present
<1>6. TypeOK'
  <2>1. nick' \in [Clients -> Nicks \cup {NULL}] BY <1>2, <1>3 DEF TypeOK
  <2>2. table' \in [Nicks -> Clients \cup {NULL}] BY <1>2, <1>3 DEF TypeOK
  <2>3. conn' \in [Clients -> {"none", "open", "reset", "closing", "closed"}] BY <1>1, <1>2 DEF TypeOK
  <2>4. server' \in {"up", "locked", "crashed", "undefined"} BY <1>2, <1>3 DEF TypeOK
  <2>5. deserted' \in BOOLEAN BY <1>1, <1>2 DEF TypeOK
  <2> QED BY <1>1, <1>2, <2>1, <2>2, <2>3, <2>4, <2>5 DEF TypeOK
<1>7. StateTruthful' BY <1>1, <1>4, <1>5 DEF IInv, StateTruthful
<1>8. FreshOrGone' BY <1>1, <1>2, <1>4 DEF IInv, FreshOrGone, TypeOK
<1>9. TableExact'
  <2>1. CASE nick[c] = NULL BY <2>1, <1>3 DEF IInv, TableExact
  <2>2. CASE nick[c] # NULL
    <3>1. nick[c] \in Nicks /\ table[nick[c]] = c BY <2>2, <1>2 DEF IInv, TableExact, TypeOK
    <3>2. ASSUME NEW n \in Nicks, table'[n] # NULL PROVE nick'[table'[n]] = n
      <4>1. n # nick[c] /\ table'[n] = table[n] BY <3>2, <2>2, <1>2, <1>3 DEF TypeOK
      <4>2. nick[table[n]] = n /\ table[n] \in Clients BY <3>2, <4>1, <1>2 DEF IInv, TableExact, TypeOK
      <4> QED BY <4>1, <4>2, <1>4
    <3>3. ASSUME NEW d \in Clients, nick'[d] # NULL PROVE table'[nick'[d]] = d
      <4>1. d # c /\ nick'[d] = nick[d] BY <3>3, <1>4
      <4>2. table[nick[d]] = d /\ nick[d] \in Nicks BY <3>3, <4>1, <1>2 DEF IInv, TableExact, TypeOK
      <4> QED BY <3>1, <4>1, <4>2, <2>2, <1>2, <1>3 DEF TypeOK
    <3> QED BY <3>2, <3>3 DEF TableExact
  <2> QED BY <2>1, <2>2
<1>10. MembersExact'
  <2> SUFFICES ASSUME ~deserted', NEW ch \in Chans, NEW e \in members[ch] PROVE Entry(e, members[ch])'
    BY <1>1 DEF MembersExact
  <2>1. Entry(e, members[ch]) /\ e.by \in Clients BY <1>1, <1>2 DEF IInv, MembersExact, TypeOK, Member
  <2>2. e.by # c BY <1>1
  <2> QED BY <1>1, <1>4, <1>5, <2>1, <2>2 DEF Entry
<1>11. RegularSessionSafe'
  <2>1. OnlyPartLocks' BY <1>3 DEF OnlyPartLocks
  <2>2. CASE nick[c] = NULL
    <3>1. ~registered'[c] BY <2>2, <1>1, <1>5 DEF IInv, StateTruthful
    <3>2. conn'[c] # "none" BY <1>1, <1>2 DEF TypeOK
    <3> QED BY <2>1, <3>1, <3>2 DEF RegularSessionSafe, Regular
  <2>3. CASE nick[c] # NULL BY <2>1, <2>3, <1>3 DEF RegularSessionSafe
  <2> QED BY <2>2, <2>3
<1>12. [Registry!Next]_table
  <2>1. CASE nick[c] = NULL BY <2>1, <1>3
  <2>2. CASE nick[c] # NULL
    <3>1. nick[c] \in Nicks /\ table[nick[c]] = c BY <2>2, <1>2 DEF IInv, TableExact, TypeOK
    <3>2. Registry!Release(c, nick[c]) BY <2>2, <3>1, <1>3 DEF Registry!Release
    <3> QED BY <3>1, <3>2 DEF Registry!Next, Registry!Call
  <2> QED BY <2>1, <2>2
<1>13. Closed BY <1>1, <1>2 DEF Closed, TypeOK
<1>14. Relayed BY <1>1 DEF Relayed
<1>15. Directed
  <2>1. CASE deserted BY <1>1, <2>1, FreeDirected
  <2>2. CASE deserted' = deserted BY <1>1, <2>2, StillDirected
  <2>3. CASE ~deserted /\ deserted'
    <3>1. PICK ch \in Chans : \E e \in members[ch] : e.by = c BY <1>1, <2>3
    <3>2. c \in MembersOf[ch] BY <3>1 DEF MembersOf
    <3>3. UNCHANGED <<MembersOf, OperatorsOf, {d \in Clients : ircop[d]}, last.by>>
      BY <1>1 DEF MembersOf, OperatorsOf
    <3>4. Directory!Desert(c) BY <2>3, <3>2, <3>3 DEF Directory!Desert
    <3> QED BY <2>3, <3>4 DEF Directed, Directory!Next
  <2> QED BY <1>1, <1>2, <2>1, <2>2, <2>3 DEF TypeOK
<1> QED BY <1>6, <1>7, <1>8, <1>9, <1>10, <1>11, <1>12, <1>13, <1>14, <1>15 DEF Good, IInv
-------------------------------------------------------------------------------
(* Registration *)

\* Nobody else is concerned when a client sends what it is registered with.
LEMMA AddUserNickGood ==
  ASSUME NEW c \in Clients, Acting(c), NEW m \in Commands, m.nick \in Nicks, AddUserNick(c, m)
  PROVE  Good
<1>1. /\ ~registered[c] /\ nick[c] = NULL /\ table[m.nick] = NULL
      /\ table' = [table EXCEPT ![m.nick] = c] /\ nick' = [nick EXCEPT ![c] = m.nick]
      /\ registered' = [registered EXCEPT ![c] = username[c]]
      /\ state' = [state EXCEPT ![c] = IF username[c] THEN "registered" ELSE "user"]
      /\ welcomed' = IF username[c] THEN [welcomed EXCEPT ![c] = @ + 1] ELSE welcomed
      /\ username' = username /\ ircop' = ircop /\ members' = members /\ opNum' = opNum
      /\ conn' = conn /\ server' = server /\ deserted' = deserted
      /\ last' = [by |-> c, op |-> m.op, args |-> m.args, chan |-> m.chan, to |-> NULL]
  BY DEF AddUserNick, Mark, Return, Sent
<1>2. TypeOK BY DEF Acting, IInv
<1>3. TypeOK'
  <2>1. /\ nick' \in [Clients -> Nicks \cup {NULL}] /\ table' \in [Nicks -> Clients \cup {NULL}]
        /\ registered' \in [Clients -> BOOLEAN] /\ welcomed' \in [Clients -> Nat]
    BY <1>1, <1>2 DEF TypeOK
  <2>2. state' \in [Clients -> {"unknown", "user", "registered"}]
    BY <1>1, <1>2 DEF TypeOK
  <2> QED BY <1>1, <1>2, <2>1, <2>2, CommandFacts DEF TypeOK
<1>4. StateTruthful'
  <2>1. welcomed[c] = 0 BY <1>1 DEF Acting, IInv, StateTruthful
  <2>2. m.nick # NULL BY SessionAssumption
  <2>3. ASSUME NEW d \in Clients \ {c}
        PROVE  /\ registered'[d] = registered[d] /\ welcomed'[d] = welcomed[d] /\ nick'[d] = nick[d]
               /\ state'[d] = state[d]
    BY <1>1, <1>2 DEF TypeOK
  <2>4. /\ registered'[c] = username[c] /\ welcomed'[c] = (IF username[c] THEN 1 ELSE 0)
        /\ nick'[c] = m.nick /\ state'[c] = (IF username[c] THEN "registered" ELSE "user")
    BY <1>1, <1>2, <2>1 DEF TypeOK
  <2> QED BY <1>1, <2>2, <2>3, <2>4 DEF Acting, IInv, StateTruthful, Present
<1>5. FreshOrGone' BY <1>1, <1>2 DEF Acting, IInv, FreshOrGone, TypeOK
<1>6. TableExact'
  <2>1. m.nick # NULL /\ c # NULL BY SessionAssumption
  <2>2. ASSUME NEW n \in Nicks, table'[n] # NULL PROVE nick'[table'[n]] = n
    <3>1. CASE n = m.nick BY <3>1, <1>1, <1>2 DEF TypeOK
    <3>2. CASE n # m.nick
      <4>1. table'[n] = table[n] /\ table[n] \in Clients /\ nick[table[n]] = n
        BY <3>2, <2>2, <1>1, <1>2 DEF TypeOK, Acting, IInv, TableExact
      <4>2. n # NULL BY SessionAssumption
      <4> QED BY <4>1, <4>2, <1>1, <1>2 DEF TypeOK
    <3> QED BY <3>1, <3>2
  <2>3. ASSUME NEW d \in Clients, nick'[d] # NULL PROVE table'[nick'[d]] = d
    <3>1. CASE d = c BY <3>1, <1>1, <1>2 DEF TypeOK
    <3>2. CASE d # c
      <4>1. nick'[d] = nick[d] /\ table[nick[d]] = d /\ nick[d] \in Nicks
        BY <3>2, <2>3, <1>1, <1>2 DEF TypeOK, Acting, IInv, TableExact
      <4>2. d # NULL BY SessionAssumption
      <4> QED BY <4>1, <4>2, <1>1, <1>2 DEF TypeOK
    <3> QED BY <3>1, <3>2
  <2> QED BY <2>2, <2>3 DEF TableExact
<1>7. MembersExact'
  <2> SUFFICES ASSUME ~deserted, NEW ch \in Chans, NEW e \in members[ch] PROVE Entry(e, members[ch])'
    BY <1>1 DEF MembersExact
  <2>1. Entry(e, members[ch]) /\ e.by \in Clients BY <1>2 DEF Acting, IInv, MembersExact, TypeOK, Member
  <2>2. e.by # c BY <1>1, <2>1 DEF Entry
  <2>3. nick'[e.by] = nick[e.by] /\ registered'[e.by] = registered[e.by] BY <1>1, <1>2, <2>1, <2>2 DEF TypeOK
  <2> QED BY <1>1, <2>1, <2>3 DEF Entry, Present
<1>8. RegularSessionSafe' BY <1>1 DEF Acting, RegularSessionSafe, OnlyPartLocks
<1>9. Closed BY <1>1 DEF Closed
<1>10. Relayed BY <1>1 DEF Relayed
<1>11. Directed BY <1>1, IdleDirected
<1>12. [Registry!Next]_table
  <2>1. ASSUME NEW n \in Nicks, table[n] = c PROVE FALSE
    <3>1. c # NULL /\ n # NULL BY SessionAssumption
    <3> QED BY <1>1, <2>1, <3>1 DEF Acting, IInv, TableExact
  <2>2. Registry!Claim(c, m.nick) BY <1>1, <2>1 DEF Registry!Claim, Registry!HeldBy
  <2> QED BY <2>2 DEF Registry!Next, Registry!Call
<1> QED BY <1>3, <1>4, <1>5, <1>6, <1>7, <1>8, <1>9, <1>10, <1>11, <1>12 DEF Good, IInv

\* USER, when nothing has registered the client yet.
UserSent(c, m) ==
  /\ ~registered[c]
  /\ username' = [username EXCEPT ![c] = TRUE]
  /\ Mark(c, nick[c] # NULL)
  /\ Return(c, m, "SUCCESS", NULL)
  /\ UNCHANGED <<nick, ircop, table, members, opNum>>

LEMMA UserSentGood ==
  ASSUME NEW c \in Clients, Acting(c), NEW m \in Commands, UserSent(c, m)
  PROVE  Good
<1>1. /\ ~registered[c] /\ username' = [username EXCEPT ![c] = TRUE]
      /\ registered' = [registered EXCEPT ![c] = nick[c] # NULL]
      /\ state' = [state EXCEPT ![c] = IF nick[c] # NULL THEN "registered" ELSE "user"]
      /\ welcomed' = IF nick[c] # NULL THEN [welcomed EXCEPT ![c] = @ + 1] ELSE welcomed
      /\ nick' = nick /\ table' = table /\ ircop' = ircop /\ members' = members /\ opNum' = opNum
      /\ conn' = conn /\ server' = server /\ deserted' = deserted
      /\ last' = [by |-> c, op |-> m.op, args |-> m.args, chan |-> m.chan, to |-> NULL]
  BY DEF UserSent, Mark, Return, Sent
<1>2. TypeOK BY DEF Acting, IInv
<1>3. TypeOK'
  <2>1. /\ username' \in [Clients -> BOOLEAN] /\ registered' \in [Clients -> BOOLEAN]
        /\ welcomed' \in [Clients -> Nat]
    BY <1>1, <1>2 DEF TypeOK
  <2>2. state' \in [Clients -> {"unknown", "user", "registered"}]
    BY <1>1, <1>2 DEF TypeOK
  <2> QED BY <1>1, <1>2, <2>1, <2>2, CommandFacts DEF TypeOK
<1>a. ASSUME NEW d \in Clients \ {c}
      PROVE  /\ registered'[d] = registered[d] /\ welcomed'[d] = welcomed[d]
             /\ state'[d] = state[d] /\ username'[d] = username[d]
  BY <1>1, <1>2 DEF TypeOK
<1>4. StateTruthful'
  <2>1. welcomed[c] = 0 BY <1>1 DEF Acting, IInv, StateTruthful
  <2>2. /\ registered'[c] <=> nick[c] # NULL
        /\ welcomed'[c] = (IF nick[c] # NULL THEN 1 ELSE 0)
        /\ username'[c] /\ state'[c] = (IF nick[c] # NULL THEN "registered" ELSE "user")
    <3>1. username'[c] /\ (registered'[c] <=> nick[c] # NULL)
      BY <1>1, <1>2, Zenon DEF TypeOK
    <3>2. CASE nick[c] = NULL
      <4>1. welcomed'[c] = 0 /\ state'[c] = "user" BY <3>2, <1>1, <1>2, <2>1 DEF TypeOK
      <4> QED BY <3>1, <3>2, <4>1
    <3>3. CASE nick[c] # NULL
      <4>1. welcomed'[c] = 1 /\ state'[c] = "registered" BY <3>3, <1>1, <1>2, <2>1 DEF TypeOK
      <4> QED BY <3>1, <3>3, <4>1
    <3> QED BY <3>2, <3>3
  <2> QED BY <1>1, <1>a, <2>2 DEF Acting, IInv, StateTruthful, Present
<1>5. FreshOrGone' BY <1>1, <1>a DEF Acting, IInv, FreshOrGone
<1>6. TableExact' BY <1>1 DEF Acting, IInv, TableExact
<1>7. MembersExact'
  <2> SUFFICES ASSUME ~deserted, NEW ch \in Chans, NEW e \in members[ch] PROVE Entry(e, members[ch])'
    BY <1>1 DEF MembersExact
  <2>1. Entry(e, members[ch]) /\ e.by \in Clients BY <1>2 DEF Acting, IInv, MembersExact, TypeOK, Member
  <2>2. e.by # c BY <1>1, <2>1 DEF Entry
  <2> QED BY <1>1, <1>a, <2>1, <2>2 DEF Entry, Present
<1>8. RegularSessionSafe' BY <1>1 DEF Acting, RegularSessionSafe, OnlyPartLocks
<1>9. Closed /\ Relayed BY <1>1 DEF Closed, Relayed
<1>10. Directed BY <1>1, IdleDirected
<1> QED BY <1>1, <1>3, <1>4, <1>5, <1>6, <1>7, <1>8, <1>9, <1>10 DEF Good, IInv

\* OPER with the right password.
LEMMA OperGood ==
  ASSUME NEW c \in Clients, Acting(c), NEW m \in Commands, opNum < MaxOper,
         ircop' = [ircop EXCEPT ![c] = TRUE], opNum' = IncreaseOpNum(opNum), Reply(c, m, NULL),
         UNCHANGED <<nick, username, registered, welcomed, state, table, members>>
  PROVE  Good
<1>1. PICK r \in SendResults(c) : Return(c, m, r, NULL) BY DEF Reply
<1>2. /\ conn' = conn \/ conn' = [conn EXCEPT ![c] = "closing"]
      /\ server' = server /\ deserted' = deserted
      /\ last' = [by |-> c, op |-> m.op, args |-> m.args, chan |-> m.chan, to |-> NULL]
  BY <1>1 DEF Return, Sent
<1>3. TypeOK BY DEF Acting, IInv
<1>4. opNum' \in 0..MaxOper /\ ircop' \in [Clients -> BOOLEAN]
  BY <1>3, SessionAssumption DEF TypeOK, IncreaseOpNum
<1>5. conn' \in [Clients -> {"none", "open", "reset", "closing", "closed"}] BY <1>2, <1>3 DEF TypeOK
<1>6. TypeOK' BY <1>2, <1>3, <1>4, <1>5, CommandFacts DEF TypeOK
<1>7. \A d \in Clients : /\ Present(d)' <=> Present(d)
                         /\ conn'[d] = "none" <=> conn[d] = "none"
                         /\ conn'[d] = "closed" <=> conn[d] = "closed"
  BY <1>2, <1>3 DEF TypeOK, Present, Acting
<1>8. StateTruthful' BY <1>7 DEF Acting, IInv, StateTruthful
<1>9. FreshOrGone' BY <1>7 DEF Acting, IInv, FreshOrGone
<1>10. TableExact' BY DEF Acting, IInv, TableExact
<1>11. MembersExact'
  <2> SUFFICES ASSUME ~deserted, NEW ch \in Chans, NEW e \in members[ch] PROVE Entry(e, members[ch])'
    BY <1>2 DEF MembersExact
  <2>1. Entry(e, members[ch]) /\ e.by \in Clients BY <1>3 DEF Acting, IInv, MembersExact, TypeOK, Member
  <2> QED BY <1>7, <2>1 DEF Entry
<1>12. RegularSessionSafe' BY <1>2 DEF Acting, RegularSessionSafe, OnlyPartLocks
<1>13. Closed BY <1>1, <1>3, ReturnCloses, ReplyResult DEF Acting
<1>14. Relayed BY <1>2 DEF Relayed
<1>15. Directed
  <2>1. CASE deserted BY <1>2, <2>1, FreeDirected
  <2>2. CASE ~deserted
    <3>1. UNCHANGED <<MembersOf, OperatorsOf>> BY DEF MembersOf, OperatorsOf
    <3>2. {d \in Clients : ircop'[d]} = {d \in Clients : ircop[d]} \cup {c}
      BY <1>3 DEF TypeOK
    <3>3. Directory!BecomeIrcop(c) BY <3>1, <3>2 DEF Directory!BecomeIrcop
    <3> QED BY <1>2, <2>2, <3>3, ActDirected
  <2> QED BY <2>1, <2>2
<1> QED BY <1>6, <1>8, <1>9, <1>10, <1>11, <1>12, <1>13, <1>14, <1>15 DEF Good, IInv
-------------------------------------------------------------------------------
(* Channels *)

\* A handler that changes member tables only, and keeps them exact.
LEMMA MembersStep ==
  ASSUME NEW c \in Clients, Acting(c), NEW m \in Commands, NEW r \in SendResults(c) \cup {"SUCCESS"},
         NEW to \in (SUBSET Clients) \cup {NULL},
         Return(c, m, r, to), UNCHANGED <<userVars, state, table, opNum>>,
         members' \in [Chans -> SUBSET Member],
         ~deserted => \A ch \in Chans : \A e \in members'[ch] : Entry(e, members'[ch])
  PROVE  IInv' /\ Closed /\ [Registry!Next]_table
<1>1. /\ nick' = nick /\ username' = username /\ registered' = registered /\ ircop' = ircop
      /\ welcomed' = welcomed /\ state' = state /\ table' = table
      /\ opNum' = opNum /\ server' = server /\ deserted' = deserted
  BY DEF userVars, Return
<1>2. conn' = conn \/ conn' = [conn EXCEPT ![c] = "closing"]
  BY DEF Return
<1>3. last' = [by |-> c, op |-> m.op, args |-> m.args, chan |-> m.chan, to |-> to]
  BY DEF Return, Sent
<1>4. TypeOK BY DEF Acting, IInv
<1>5. conn' \in [Clients -> {"none", "open", "reset", "closing", "closed"}]
  BY <1>2, <1>4 DEF TypeOK
<1>6. \A d \in Clients : /\ Present(d)' <=> Present(d)
                         /\ conn'[d] = "none" <=> conn[d] = "none"
                         /\ conn'[d] = "closed" <=> conn[d] = "closed"
  BY <1>2, <1>4 DEF TypeOK, Present, Acting
<1>7. TypeOK'
  BY <1>1, <1>3, <1>4, <1>5, CommandFacts DEF TypeOK
<1>8. StateTruthful' BY <1>1, <1>6 DEF Acting, IInv, StateTruthful
<1>9. FreshOrGone' BY <1>1, <1>6 DEF Acting, IInv, FreshOrGone
<1>10. TableExact' BY <1>1 DEF Acting, IInv, TableExact
<1>11. MembersExact'
  <2> SUFFICES ASSUME ~deserted, NEW ch \in Chans, NEW e \in members'[ch]
               PROVE  Entry(e, members[ch])'
    BY <1>1 DEF MembersExact
  <2>1. Entry(e, members'[ch]) OBVIOUS
  <2>2. e.by \in Clients BY DEF Member
  <2> QED BY <1>1, <1>6, <2>1, <2>2 DEF Entry
<1>12. RegularSessionSafe'
  BY <1>1 DEF Acting, RegularSessionSafe, OnlyPartLocks
<1>13. Closed
  <2>1. r = "FAILURE" => conn[c] = "reset" BY DEF SendResults, Acting
  <2> QED BY <2>1, <1>4, ReturnCloses
<1> QED BY <1>1, <1>7, <1>8, <1>9, <1>10, <1>11, <1>12, <1>13 DEF IInv

\* The entry of a client on a channel, until somebody has deserted one.
LEMMA OwnEntry ==
  ASSUME NEW c \in Clients, Acting(c), registered[c], ~deserted, NEW ch \in Chans
  PROVE  \A e \in members[ch] : e.nick = nick[c] <=> e.by = c
<1> SUFFICES ASSUME NEW e \in members[ch] PROVE e.nick = nick[c] <=> e.by = c
  OBVIOUS
<1>1. e \in Entries BY DEF Entries
<1>2. e.nick = nick[e.by] /\ table[e.nick] = e.by BY <1>1, EntryFacts DEF Acting
<1>3. table[nick[c]] = c BY ActorFacts
<1> QED BY <1>2, <1>3

LEMMA NamedIsOwn ==
  ASSUME NEW c \in Clients, Acting(c), registered[c], ~deserted, NEW ch \in Chans
  PROVE  Named(ch, nick[c]) = {e \in members[ch] : e.by = c}
BY OwnEntry DEF Named

LEMMA JoinedGood ==
  ASSUME NEW c \in Clients, Acting(c), registered[c], NEW m \in Commands, m.op = "JOIN",
         m.args = "ok", ~AlreadyOn(c, m.chan),
         NEW e, e = [by |-> c, nick |-> nick[c], op |-> members[m.chan] = {}, own |-> TRUE],
         NEW all, all = members[m.chan] \cup {e},
         members' = [members EXCEPT ![m.chan] = all],
         Reply(c, m, Holders(all)),
         UNCHANGED <<userVars, state, table, opNum>>
  PROVE  Good
<1>1. m.chan \in Chans BY CommandFacts
<1>2. TypeOK /\ IInv BY DEF Acting, IInv
<1>3. Present(c) /\ nick[c] \in Nicks /\ table[nick[c]] = c BY ActorFacts
<1>4. PICK r \in SendResults(c) : Return(c, m, r, Holders(all)) BY DEF Reply
<1>5. e \in Member BY <1>3 DEF Member
<1>6. all \subseteq Member BY <1>1, <1>2, <1>5 DEF TypeOK
<1>7. members' \in [Chans -> SUBSET Member] BY <1>1, <1>2, <1>6 DEF TypeOK
<1>8. Holders(all) \in SUBSET Clients BY <1>2, <1>6, HoldersType DEF Member
<1>9. members'[m.chan] = all /\ \A ch \in Chans \ {m.chan} : members'[ch] = members[ch]
  BY <1>1, <1>2 DEF TypeOK
<1>10. ASSUME ~deserted, NEW ch \in Chans, NEW f \in members'[ch] PROVE Entry(f, members'[ch])
  <2>1. CASE ch # m.chan BY <2>1, <1>2, <1>9, <1>10 DEF IInv, MembersExact
  <2>2. CASE ch = m.chan
    <3>1. {g \in members[ch] : g.by = c} = {} BY <2>2, <1>10, NamedIsOwn DEF AlreadyOn
    <3>2. CASE f = e BY <3>1, <3>2, <2>2, <1>3, <1>9 DEF Entry
    <3>3. CASE f \in members[ch]
      <4>1. Entry(f, members[ch]) BY <3>3, <1>2, <1>10 DEF IInv, MembersExact
      <4>2. f.by # c BY <3>1, <3>3
      <4> QED BY <4>1, <4>2, <2>2, <1>9 DEF Entry
    <3> QED BY <3>2, <3>3, <2>2, <1>9
  <2> QED BY <2>1, <2>2
<1>11. IInv' /\ Closed /\ [Registry!Next]_table BY <1>4, <1>7, <1>8, <1>10, MembersStep
<1>12. last'.op = "JOIN" /\ last'.chan = m.chan /\ last'.by = c /\ last'.to = Holders(all)
  BY <1>4 DEF Return, Sent
<1>13. Relayed
  <2> SUFFICES ASSUME ~deserted PROVE last'.to = Audience
    BY DEF Relayed
  <2>1. Holders(all) = {f.by : f \in all}
    <3>1. \A f \in all : f \in Entries \/ (f.by = c /\ f.nick = nick[c] /\ table[nick[c]] = c)
      BY <1>1, <1>3 DEF Entries
    <3> QED BY <3>1, <1>2, RelayReaches
  <2>2. m.chan # NULL BY <1>1, SessionAssumption
  <2> QED BY <2>1, <2>2, <1>9, <1>12 DEF Audience
<1>14. Directed
  <2>1. ircop' = ircop /\ deserted' = deserted BY <1>4 DEF userVars, Return
  <2>2. CASE deserted BY <2>1, <2>2, FreeDirected
  <2>3. CASE ~deserted
    <3>1. e.by = c /\ (e.op <=> members[m.chan] = {}) OBVIOUS
    <3>2. \A f \in members[m.chan] : f.by # c
      BY <2>3, <1>1, NamedIsOwn DEF AlreadyOn
    <3>3. members'[m.chan] = members[m.chan] \cup {e} BY <1>9
    <3>4. Directory!Join(c, m.chan) BY ONLY <1>1, <1>9, <2>1, <3>1, <3>2, <3>3, JoinDirected, Zenon
    <3> QED BY <1>1, <1>12, <2>1, <2>3, <3>4, ActDirected
  <2> QED BY <2>2, <2>3
<1> QED BY <1>11, <1>13, <1>14 DEF Good

LEMMA PartedGood ==
  ASSUME NEW c \in Clients, Acting(c), registered[c], NEW m \in Commands, m.op = "PART",
         m.args = "ok", NEW e \in Named(m.chan, nick[c]),
         NEW rest, rest = members[m.chan] \ {e},
         members' = [members EXCEPT ![m.chan] = rest],
         Return(c, m, "SUCCESS", Holders(rest)),
         UNCHANGED <<userVars, state, table, opNum>>
  PROVE  Good
<1>1. m.chan \in Chans BY CommandFacts
<1>2. TypeOK /\ IInv BY DEF Acting, IInv
<1>3. e \in members[m.chan] BY DEF Named
<1>4. rest \subseteq Member BY <1>1, <1>2 DEF TypeOK
<1>5. members' \in [Chans -> SUBSET Member] BY <1>1, <1>2, <1>4 DEF TypeOK
<1>6. Holders(rest) \in SUBSET Clients BY <1>2, <1>4, HoldersType DEF Member
<1>7. members'[m.chan] = rest /\ \A ch \in Chans \ {m.chan} : members'[ch] = members[ch]
  BY <1>1, <1>2 DEF TypeOK
<1>8. \A ch \in Chans : members'[ch] \subseteq members[ch] BY <1>7
<1>9. ASSUME ~deserted, NEW ch \in Chans, NEW f \in members'[ch] PROVE Entry(f, members'[ch])
  <2>1. Entry(f, members[ch]) BY <1>2, <1>8, <1>9 DEF IInv, MembersExact
  <2> QED BY <1>8, <2>1 DEF Entry
<1>10. IInv' /\ Closed /\ [Registry!Next]_table BY <1>5, <1>6, <1>9, MembersStep
<1>11. last'.op = "PART" /\ last'.chan = m.chan /\ last'.by = c /\ last'.to = Holders(rest)
  BY DEF Return, Sent
<1>12. Relayed
  <2> SUFFICES ASSUME ~deserted PROVE last'.to = Audience
    BY DEF Relayed
  <2>1. Holders(rest) = {f.by : f \in rest}
    <3>1. \A f \in rest : f \in Entries BY <1>1 DEF Entries
    <3> QED BY <3>1, <1>2, RelayReaches
  <2>2. m.chan # NULL BY <1>1, SessionAssumption
  <2>3. e.by = c BY <1>1, <1>3, OwnEntry DEF Named
  <2>4. Entry(e, members[m.chan]) BY <1>1, <1>2, <1>3 DEF IInv, MembersExact
  <2>5. \A f \in rest : f.by # c BY <2>3, <2>4 DEF Entry
  <2>6. {f.by : f \in rest} = {f.by : f \in rest} \ {c} BY <2>5
  <2>7. Audience = {f.by : f \in rest} \ {c} BY <2>2, <1>7, <1>11 DEF Audience
  <2> QED BY <2>1, <2>6, <2>7, <1>11
<1>13. Directed
  <2>1. ircop' = ircop /\ deserted' = deserted BY DEF userVars, Return
  <2>2. CASE deserted BY <2>1, <2>2, FreeDirected
  <2>3. CASE ~deserted
    <3>1. e.by = c BY <2>3, <1>1, <1>3, OwnEntry DEF Named
    <3>2. \A f \in members[m.chan] : f.by = c <=> f = e
      BY <2>3, <1>1, <1>2, <1>3, <3>1 DEF IInv, MembersExact, Entry
    <3>3. Directory!Part(c, m.chan) BY <1>1, <1>3, <1>7, <2>1, <3>2, PartDirected
    <3> QED BY <1>1, <1>11, <2>1, <2>3, <3>3, ActDirected
  <2> QED BY <2>2, <2>3
<1> QED BY <1>10, <1>12, <1>13 DEF Good

LEMMA ModeChangedGood ==
  ASSUME NEW c \in Clients, Acting(c), registered[c], NEW m \in Commands, m.op = "MODE",
         m.args = "ok",
         ircop[c] \/ \E g \in Named(m.chan, nick[c]) : MayChange(c, g),
         NEW e \in Named(m.chan, m.nick),
         NEW all, all = (members[m.chan] \ {e}) \cup {[e EXCEPT !.op = m.on]},
         members' = [members EXCEPT ![m.chan] = all],
         Return(c, m, "SUCCESS", Holders(all)),
         UNCHANGED <<userVars, state, table, opNum>>
  PROVE  Good
<1>1. m.chan \in Chans /\ m.on \in BOOLEAN BY CommandFacts
<1>2. TypeOK /\ IInv BY DEF Acting, IInv
<1>3. e \in members[m.chan] BY DEF Named
<1> DEFINE d == [e EXCEPT !.op = m.on]
<1>4. e \in Member BY <1>1, <1>2, <1>3 DEF TypeOK
<1>5. d \in Member /\ d.by = e.by /\ d.nick = e.nick /\ d.op = m.on BY <1>1, <1>4 DEF Member
<1>6. all = (members[m.chan] \ {e}) \cup {d} OBVIOUS
<1> HIDE DEF d
<1>7. all \subseteq Member BY <1>1, <1>2, <1>5, <1>6 DEF TypeOK
<1>8. members' \in [Chans -> SUBSET Member] BY <1>1, <1>2, <1>7 DEF TypeOK
<1>9. Holders(all) \in SUBSET Clients BY <1>2, <1>7, HoldersType DEF Member
<1>10. members'[m.chan] = all /\ \A ch \in Chans \ {m.chan} : members'[ch] = members[ch]
  BY <1>1, <1>2 DEF TypeOK
<1>11. ASSUME ~deserted, NEW ch \in Chans, NEW f \in members'[ch] PROVE Entry(f, members'[ch])
  <2>1. CASE ch # m.chan BY <2>1, <1>2, <1>10, <1>11 DEF IInv, MembersExact
  <2>2. CASE ch = m.chan
    <3>1. \A g \in members[ch] : Entry(g, members[ch]) BY <1>2, <1>11 DEF IInv, MembersExact
    <3>2. \A g \in all : g.by = f.by => g = f
      BY <3>1, <2>2, <1>3, <1>5, <1>6, <1>10 DEF Entry
    <3> QED BY <3>1, <3>2, <2>2, <1>3, <1>5, <1>6, <1>10 DEF Entry
  <2> QED BY <2>1, <2>2
<1>12. IInv' /\ Closed /\ [Registry!Next]_table BY <1>8, <1>9, <1>11, MembersStep
<1>13. last'.op = "MODE" /\ last'.chan = m.chan /\ last'.by = c /\ last'.to = Holders(all)
  BY DEF Return, Sent
<1>14. Relayed
  <2> SUFFICES ASSUME ~deserted PROVE last'.to = Audience
    BY DEF Relayed
  <2>1. Holders(all) = {f.by : f \in all}
    <3>1. ASSUME NEW f \in all PROVE table[f.nick] = f.by /\ f.by \in Clients
      <4>1. PICK g \in members[m.chan] : f.nick = g.nick /\ f.by = g.by BY <1>3, <1>5, <1>6
      <4>2. g \in Entries BY <1>1 DEF Entries
      <4> QED BY <4>1, <4>2, <1>2, EntryFacts
    <3>2. NULL \notin Clients BY SessionAssumption
    <3> QED BY <3>1, <3>2 DEF Holders
  <2>2. m.chan # NULL BY <1>1, SessionAssumption
  <2> QED BY <2>1, <2>2, <1>10, <1>13 DEF Audience
<1>15. Directed
  <2>1. ircop' = ircop /\ deserted' = deserted BY DEF userVars, Return
  <2>2. CASE deserted BY <2>1, <2>2, FreeDirected
  <2>3. CASE ~deserted
    <3>1. ircop[c] \/ \E g \in members[m.chan] : g.by = c /\ g.op
      BY <2>3, <1>1, OwnEntry DEF Named, MayChange
    <3>2. \A f \in members[m.chan] : f.by = e.by <=> f = e
      BY <2>3, <1>1, <1>2, <1>3 DEF IInv, MembersExact, Entry
    <3>3. Directory!SetOperator(c, m.chan)
      BY <1>1, <1>3, <1>5, <1>6, <1>10, <2>1, <3>1, <3>2, ModeDirected
    <3> QED BY <1>1, <1>13, <2>1, <2>3, <3>3, ActDirected
  <2> QED BY <2>2, <2>3
<1> QED BY <1>12, <1>14, <1>15 DEF Good

\* A rename once the new nickname is known to be free.
LEMMA RenamedGood ==
  ASSUME NEW c \in Clients, Acting(c), registered[c], NEW m \in Commands, m.op = "NICK",
         m.nick \in Nicks, table[m.nick] = NULL,
         NEW affected, affected = {ch \in Chans : Named(ch, nick[c]) # {}},
         NEW audience, audience = UNION {members[ch] : ch \in affected},
         NEW found, \A ch \in affected : found[ch] \in Named(ch, nick[c]),
         members' = [ch \in Chans |-> IF ch \in affected
                                     THEN Renamed(members[ch], found[ch], m.nick)
                                     ELSE members[ch]],
         table' = [table EXCEPT ![nick[c]] = NULL, ![m.nick] = c],
         nick' = [nick EXCEPT ![c] = m.nick],
         Return(c, m, "SUCCESS", Holders(audience)),
         UNCHANGED <<username, registered, ircop, welcomed, state, opNum>>
  PROVE  Good
<1>1. TypeOK /\ IInv BY DEF Acting, IInv
<1>2. Present(c) /\ nick[c] \in Nicks /\ nick[c] # NULL /\ username[c] /\ table[nick[c]] = c
  BY ActorFacts
<1>3. m.nick # NULL /\ c # NULL /\ m.nick # nick[c] BY <1>2, SessionAssumption
<1>4. /\ conn' = conn /\ server' = server /\ deserted' = deserted
      /\ last' = [by |-> c, op |-> m.op, args |-> m.args, chan |-> m.chan, to |-> Holders(audience)]
  BY DEF Return, Sent
<1>5. /\ nick' \in [Clients -> Nicks \cup {NULL}] /\ nick'[c] = m.nick
      /\ \A d \in Clients \ {c} : nick'[d] = nick[d]
  BY <1>1 DEF TypeOK
<1>6. /\ table' \in [Nicks -> Clients \cup {NULL}] /\ table'[m.nick] = c /\ table'[nick[c]] = NULL
      /\ \A n \in Nicks \ {m.nick, nick[c]} : table'[n] = table[n]
  BY <1>1, <1>2, <1>3 DEF TypeOK
<1>7. audience \subseteq Entries /\ audience \subseteq Member
  BY <1>1 DEF Entries, TypeOK
<1>8. Holders(audience) \in SUBSET Clients BY <1>1, <1>7, HoldersType DEF Member
\* How the entries of a channel change.
<1> DEFINE New(ch) == [found[ch] EXCEPT !.nick = m.nick, !.own = FALSE]
<1>9. ASSUME NEW ch \in affected
      PROVE  /\ ch \in Chans /\ found[ch] \in members[ch] /\ found[ch] \in Member
             /\ found[ch].nick = nick[c]
             /\ New(ch) \in Member /\ New(ch).nick = m.nick
             /\ New(ch).by = found[ch].by /\ New(ch).op = found[ch].op
             /\ members'[ch] = (members[ch] \ {found[ch]}) \cup {New(ch)}
  <2>1. ch \in Chans /\ found[ch] \in members[ch] /\ found[ch].nick = nick[c] BY DEF Named
  <2>2. found[ch] \in Member BY <2>1, <1>1 DEF TypeOK
  <2>3. /\ New(ch) \in Member /\ New(ch).nick = m.nick
        /\ New(ch).by = found[ch].by /\ New(ch).op = found[ch].op
    BY <2>2 DEF Member
  <2>4. members'[ch] = (members[ch] \ {found[ch]}) \cup {New(ch)} BY <2>1 DEF Renamed
  <2> QED BY <2>1, <2>2, <2>3, <2>4
<1>10. \A ch \in Chans : ch \notin affected => members'[ch] = members[ch] OBVIOUS
<1> HIDE DEF New
<1>11. members' \in [Chans -> SUBSET Member]
  <2>1. \A ch \in Chans : members'[ch] \subseteq Member BY <1>1, <1>9, <1>10 DEF TypeOK
  <2>2. members' = [ch \in Chans |-> members'[ch]] OBVIOUS
  <2> QED BY <2>1, <2>2
<1>12. TypeOK' BY <1>1, <1>4, <1>5, <1>6, <1>8, <1>11, CommandFacts DEF TypeOK
<1>13. StateTruthful' BY <1>1, <1>2, <1>3, <1>4, <1>5 DEF IInv, StateTruthful, Present
<1>14. FreshOrGone'
  BY <1>1, <1>2, <1>4, <1>5 DEF IInv, FreshOrGone, Present
<1>15. TableExact'
  <2>1. ASSUME NEW n \in Nicks, table'[n] # NULL PROVE nick'[table'[n]] = n
    <3>1. CASE n = m.nick BY <3>1, <1>5, <1>6
    <3>2. CASE n # m.nick
      <4>1. n # nick[c] /\ table'[n] = table[n] BY <3>2, <2>1, <1>6
      <4>2. table[n] \in Clients /\ nick[table[n]] = n BY <4>1, <2>1, <1>1 DEF IInv, TableExact, TypeOK
      <4> QED BY <4>1, <4>2, <1>5
    <3> QED BY <3>1, <3>2
  <2>2. ASSUME NEW d \in Clients, nick'[d] # NULL PROVE table'[nick'[d]] = d
    <3>1. CASE d = c BY <3>1, <1>5, <1>6
    <3>2. CASE d # c
      <4>1. nick'[d] = nick[d] /\ table[nick[d]] = d /\ nick[d] \in Nicks
        BY <3>2, <2>2, <1>1, <1>5 DEF IInv, TableExact, TypeOK
      <4>2. d # NULL BY SessionAssumption
      <4> QED BY <4>1, <4>2, <3>2, <1>2, <1>6
    <3> QED BY <3>1, <3>2
  <2> QED BY <2>1, <2>2 DEF TableExact
<1>16. ASSUME ~deserted, NEW ch \in affected PROVE found[ch].by = c
  BY <1>9, <1>16, OwnEntry
<1>17. MembersExact'
  <2> SUFFICES ASSUME ~deserted, NEW ch \in Chans, NEW e \in members'[ch]
               PROVE  /\ Present(e.by) /\ registered[e.by] /\ e.nick = nick'[e.by]
                      /\ \A f \in members'[ch] : f.by = e.by => e = f
    BY <1>4 DEF MembersExact, Entry, Present
  <2>1. \A g \in members[ch] : Entry(g, members[ch]) /\ g.by \in Clients
    BY <1>1 DEF IInv, MembersExact, TypeOK, Member
  <2>2. CASE ch \notin affected
    <3>1. members'[ch] = members[ch] /\ Named(ch, nick[c]) = {} BY <2>2, <1>10
    <3>2. e.by # c BY <3>1, OwnEntry DEF Named
    <3> QED BY <2>1, <3>1, <3>2, <1>5 DEF Entry
  <2>3. CASE ch \in affected
    <3>1. /\ found[ch].by = c /\ found[ch] \in members[ch] /\ New(ch).by = c /\ New(ch).nick = m.nick
          /\ members'[ch] = (members[ch] \ {found[ch]}) \cup {New(ch)}
      BY <2>3, <1>9, <1>16
    <3>2. \A g \in members[ch] \ {found[ch]} : g.by # c BY <2>1, <3>1 DEF Entry
    <3>3. CASE e = New(ch) BY <3>1, <3>2, <3>3, <1>2, <1>5
    <3>4. CASE e \in members[ch] \ {found[ch]} BY <2>1, <3>1, <3>2, <3>4, <1>5 DEF Entry
    <3> QED BY <3>1, <3>3, <3>4
  <2> QED BY <2>2, <2>3
<1>18. RegularSessionSafe' BY <1>4 DEF Acting, RegularSessionSafe, OnlyPartLocks
<1>19. Closed BY <1>4 DEF Closed
<1>20. Relayed
  <2> SUFFICES ASSUME ~deserted PROVE last'.to = Audience
    BY DEF Relayed
  <2> DEFINE By(ch) == {e.by : e \in members[ch]}
             ByNew(ch) == {e.by : e \in members'[ch]}
  <2>1. Holders(audience) = {e.by : e \in audience} BY <1>1, <1>7, RelayReaches
  <2>2. m.chan = NULL BY CommandFacts
  <2>3. ASSUME NEW ch \in Chans PROVE ByNew(ch) = By(ch)
    <3>1. CASE ch \notin affected BY <3>1, <1>10
    <3>2. CASE ch \in affected BY <3>2, <1>9
    <3> QED BY <3>1, <3>2
  <2>4. ASSUME NEW ch \in Chans PROVE ch \in affected <=> c \in By(ch)
    BY NamedIsOwn
  <2>5. Audience = UNION {ByNew(ch) : ch \in {x \in Chans : c \in ByNew(x)}}
    BY <1>4, <2>2 DEF Audience
  <2>6. {x \in Chans : c \in ByNew(x)} = affected BY <2>3, <2>4
  <2>7. UNION {ByNew(ch) : ch \in affected} = {e.by : e \in audience}
    <3>1. \A ch \in affected : ByNew(ch) = By(ch) BY <2>3
    <3>2. audience = UNION {members[ch] : ch \in affected} OBVIOUS
    <3>3. UNION {By(ch) : ch \in affected} = {e.by : e \in audience} BY ONLY <3>2
    <3> HIDE DEF By, ByNew
    <3>4. {ByNew(ch) : ch \in affected} = {By(ch) : ch \in affected} BY ONLY <3>1
    <3> QED BY <3>3, <3>4
  <2> QED BY <1>4, <2>1, <2>5, <2>6, <2>7
<1>21. Directed
  <2>1. CASE deserted BY <1>4, <2>1, FreeDirected
  <2>2. CASE ~deserted
    <3>1. ASSUME NEW ch \in Chans
          PROVE  LET Flagged(S) == {f \in S : f.op}
                 IN  /\ {e.by : e \in members'[ch]} = {e.by : e \in members[ch]}
                     /\ {e.by : e \in Flagged(members'[ch])} = {e.by : e \in Flagged(members[ch])}
      <4>1. CASE ch \notin affected BY <4>1, <1>10
      <4>2. CASE ch \in affected BY <4>2, <1>9
      <4> QED BY <4>1, <4>2
    <3>2. Directory!Look BY <3>1 DEF Directory!Look, MembersOf, OperatorsOf
    <3> QED BY <1>4, <2>2, <3>2, ActDirected
  <2> QED BY <2>1, <2>2
<1>22. [Registry!Next]_table
  <2>1. Registry!Rename(c, nick[c], m.nick) BY <1>2 DEF Registry!Rename
  <2> QED BY <2>1, <1>2 DEF Registry!Next, Registry!Call
<1> QED BY <1>12, <1>13, <1>14, <1>15, <1>17, <1>18, <1>19, <1>20, <1>21, <1>22 DEF Good, IInv
-------------------------------------------------------------------------------
(* Messages, and the last relay of a client *)

LEMMA ToChannelGood ==
  ASSUME NEW c \in Clients, Acting(c), registered[c], NEW m \in Commands,
         m.op \in {"PRIVMSG", "NOTICE"}, m.chan # NULL,
         Return(c, m, "SUCCESS", Holders(Others(c, m.chan))), UNCHANGED <<userVars, tableVars>>
  PROVE  Good
<1> DEFINE to == Others(c, m.chan)
<1>1. m.chan \in Chans BY CommandFacts
<1>2. TypeOK /\ IInv BY DEF Acting, IInv
<1>3. to \subseteq members[m.chan] BY DEF Others
<1>4. Holders(to) \in SUBSET Clients BY <1>1, <1>2, <1>3, HoldersType DEF TypeOK, Member
<1>5. IInv' /\ Directed /\ [Registry!Next]_table BY <1>4, QuietKeeps
<1>6. Closed BY <1>2, ReturnCloses
<1>7. Relayed
  <2> SUFFICES ASSUME ~deserted PROVE last'.to = Audience
    BY DEF Relayed
  <2>1. to = {e \in members[m.chan] : e.by # c} BY <1>1, OwnEntry DEF Others
  <2>2. last'.op = m.op /\ last'.chan = m.chan /\ last'.by = c /\ last'.to = Holders(to)
    BY DEF Return, Sent
  <2>3. \A e \in to : e \in Entries BY <1>1, <1>3 DEF Entries
  <2> HIDE DEF to
  <2>4. Holders(to) = {e.by : e \in to} BY <2>3, <1>2, RelayReaches
  <2>5. {e.by : e \in to} = {e.by : e \in members[m.chan]} \ {c} BY <2>1
  <2>6. members' = members BY DEF tableVars
  <2>7. Audience = {e.by : e \in members[m.chan]} \ {c} BY <2>2, <2>6 DEF Audience
  <2> QED BY <2>2, <2>4, <2>5, <2>7
<1> QED BY <1>5, <1>6, <1>7 DEF Good

LEMMA ToClientGood ==
  ASSUME NEW c \in Clients, Acting(c), NEW m \in Commands,
         m.op \in {"PRIVMSG", "NOTICE"}, m.nick # NULL, table[m.nick] # NULL,
         NEW r \in SendResults(table[m.nick]), Return(c, m, r, {table[m.nick]}),
         UNCHANGED <<userVars, tableVars>>
  PROVE  Good
<1>1. m.nick \in Nicks /\ m.chan = NULL BY CommandFacts
<1>2. TypeOK BY DEF Acting, IInv
<1>3. table[m.nick] \in Clients BY <1>1, <1>2 DEF TypeOK
<1>4. IInv' /\ Directed /\ [Registry!Next]_table BY <1>3, QuietKeeps
<1>5. r = "FAILURE" => conn[table[m.nick]] # "open" BY DEF SendResults
<1>6. {table[m.nick]} # NULL BY <1>3, SessionAssumption
<1>7. Closed BY <1>2, <1>5, <1>6, ReturnCloses
<1>8. Relayed BY <1>1 DEF Relayed, Return, Sent
<1> QED BY <1>4, <1>7, <1>8 DEF Good

LEMMA QuitGood ==
  ASSUME NEW c \in Clients, Acting(c), registered[c], NEW m \in Commands, m.op = "QUIT",
         NEW on, on = {ch \in Chans : Named(ch, nick[c]) # {}},
         NEW to, to = UNION {Others(c, ch) : ch \in on},
         Return(c, m, "FAILURE", Holders(to)), UNCHANGED <<userVars, tableVars>>
  PROVE  Good
<1>1. TypeOK /\ IInv BY DEF Acting, IInv
<1>2. \A e \in to : e \in Entries BY DEF Entries, Others
<1>3. Holders(to) \in SUBSET Clients BY <1>1, <1>2, EntryFacts, HoldersType
<1>4. IInv' /\ Directed /\ [Registry!Next]_table BY <1>3, QuietKeeps
<1>5. Closed BY <1>1, ReturnCloses
<1>6. Relayed
  <2> SUFFICES ASSUME ~deserted PROVE last'.to = Audience
    BY DEF Relayed
  <2> DEFINE By(ch) == {e.by : e \in members[ch]}
  <2>1. last'.op = "QUIT" /\ last'.chan = NULL /\ last'.by = c /\ last'.to = Holders(to)
    BY CommandFacts DEF Return, Sent
  <2>2. members' = members BY DEF tableVars
  <2>3. Audience = (UNION {By(ch) : ch \in {x \in Chans : c \in By(x)}}) \ {c}
    BY <2>1, <2>2 DEF Audience
  <2>4. ASSUME NEW ch \in Chans
        PROVE  ch \in on <=> c \in By(ch)
    BY NamedIsOwn
  <2>5. {x \in Chans : c \in By(x)} = on BY <2>4
  <2>6. ASSUME NEW ch \in on PROVE {e.by : e \in Others(c, ch)} = By(ch) \ {c}
    BY OwnEntry DEF Others
  <2>7. Holders(to) = {e.by : e \in to} BY <1>1, <1>2, RelayReaches
  <2>8. {e.by : e \in to} = UNION {{e.by : e \in Others(c, ch)} : ch \in on}
    <3>1. to = UNION {Others(c, ch) : ch \in on} OBVIOUS
    <3> QED BY ONLY <3>1
  <2> HIDE DEF By
  <2>9. UNION {{e.by : e \in Others(c, ch)} : ch \in on} = UNION {By(ch) \ {c} : ch \in on} BY <2>6
  <2>10. UNION {By(ch) \ {c} : ch \in on} = (UNION {By(ch) : ch \in on}) \ {c} OBVIOUS
  <2> QED BY <2>1, <2>3, <2>5, <2>7, <2>8, <2>9, <2>10
<1> QED BY <1>4, <1>5, <1>6 DEF Good
-------------------------------------------------------------------------------
(* The handlers *)

LEMMA NickGood ==
  ASSUME NEW c \in Clients, Acting(c), NEW m \in Commands, m.op = "NICK", Nick(c, m)
  PROVE  Good
<1>1. CASE Refuse(c, m) BY <1>1, RefuseGood
<1>2. CASE /\ m.args = "hole"
           /\ Return(c, m, "FAILURE", NULL) /\ UNCHANGED <<userVars, tableVars>>
  BY <1>2, HoleGood
<1>3. CASE m.args = "ok" /\ AddUserNick(c, m)
  BY <1>3, CommandFacts, AddUserNickGood
<1>4. CASE m.args = "ok" /\ UpdateUserNick(c, m)
  <2> DEFINE affected == {ch \in Chans : Named(ch, nick[c]) # {}}
             audience == UNION {members[ch] : ch \in affected}
  <2>1. m.nick \in Nicks /\ registered[c] /\ table[m.nick] = NULL
    BY <1>4, CommandFacts DEF UpdateUserNick
  <2>2. CASE RelayFails(audience) /\ Stop(c, m, "undefined")
    <3>1. \A e \in audience : e \in Entries BY DEF Entries
    <3> HIDE DEF audience
    <3>2. ~Calm BY <2>2, <3>1, CalmRelay DEF Acting
    <3> QED BY <2>2, <3>2, StopGood
  <2>3. CASE /\ \E found \in [affected -> audience] :
                  /\ \A ch \in affected : found[ch] \in Named(ch, nick[c])
                  /\ members' = [ch \in Chans |-> IF ch \in affected
                                                THEN Renamed(members[ch], found[ch], m.nick)
                                                ELSE members[ch]]
             /\ table' = [table EXCEPT ![nick[c]] = NULL, ![m.nick] = c]
             /\ nick' = [nick EXCEPT ![c] = m.nick]
             /\ Return(c, m, "SUCCESS", Holders(audience))
             /\ UNCHANGED <<username, registered, ircop, welcomed, state, opNum>>
    <3>1. PICK found \in [affected -> audience] :
            /\ \A ch \in affected : found[ch] \in Named(ch, nick[c])
            /\ members' = [ch \in Chans |-> IF ch \in affected
                                          THEN Renamed(members[ch], found[ch], m.nick)
                                          ELSE members[ch]]
      BY <2>3
    <3>2. affected = {ch \in Chans : Named(ch, nick[c]) # {}} OBVIOUS
    <3>3. audience = UNION {members[ch] : ch \in affected} OBVIOUS
    <3>4. /\ table' = [table EXCEPT ![nick[c]] = NULL, ![m.nick] = c]
          /\ nick' = [nick EXCEPT ![c] = m.nick]
          /\ Return(c, m, "SUCCESS", Holders(audience))
          /\ UNCHANGED <<username, registered, ircop, welcomed, state, opNum>>
      BY <2>3
    <3> HIDE DEF affected, audience
    <3> QED BY <2>1, <3>1, <3>2, <3>3, <3>4, RenamedGood
  <2> QED BY <1>4, <2>2, <2>3 DEF UpdateUserNick
<1> QED BY <1>1, <1>2, <1>3, <1>4 DEF Nick

LEMMA UserGood ==
  ASSUME NEW c \in Clients, Acting(c), NEW m \in Commands, m.op = "USER", User(c, m)
  PROVE  Good
<1>1. CASE Refuse(c, m) BY <1>1, RefuseGood
<1>2. CASE ~registered[c] /\ Stop(c, m, "crashed")
  <2>1. ~Calm BY <1>2 DEF Calm, Acting
  <2> QED BY <1>2, <2>1, StopGood
<1>3. CASE UserSent(c, m) BY <1>3, UserSentGood
<1> QED BY <1>1, <1>2, <1>3 DEF User, UserSent

LEMMA NotSentGood ==
  ASSUME NEW c \in Clients, Acting(c), NEW m \in Commands, NotSent(c, m)
  PROVE  Good
BY RefuseGood, IgnoreGood DEF NotSent

LEMMA MsgGood ==
  ASSUME NEW c \in Clients, Acting(c), NEW m \in Commands, m.op \in {"PRIVMSG", "NOTICE"}, Msg(c, m)
  PROVE  Good
<1>1. CASE NotSent(c, m) BY <1>1, NotSentGood
<1>2. CASE m.args = "hole" /\ Stop(c, m, "crashed") BY <1>2, StopGood
<1>3. CASE /\ m.nick # NULL /\ table[m.nick] # NULL
           /\ \E r \in SendResults(table[m.nick]) : Return(c, m, r, {table[m.nick]})
           /\ UNCHANGED <<userVars, tableVars>>
  BY <1>3, ToClientGood
<1>4. CASE m.chan # NULL /\ SendToChannel(c, m, Others(c, m.chan))
  <2>1. registered[c] /\ m.chan \in Chans BY <1>4, CommandFacts DEF Msg
  <2>2. CASE RelayFails(Others(c, m.chan)) /\ Stop(c, m, "undefined")
    <3> DEFINE to == Others(c, m.chan)
    <3>1. \A e \in to : e \in Entries BY <2>1 DEF Others, Entries
    <3>2. RelayFails(to) BY <2>2
    <3> HIDE DEF to
    <3>3. ~Calm BY <3>1, <3>2, CalmRelay DEF Acting
    <3> QED BY <2>2, <3>3, StopGood
  <2>3. CASE Return(c, m, "SUCCESS", Holders(Others(c, m.chan))) /\ UNCHANGED <<userVars, tableVars>>
    BY <1>4, <2>1, <2>3, ToChannelGood
  <2> QED BY <1>4, <2>2, <2>3 DEF SendToChannel
<1> QED BY <1>1, <1>2, <1>3, <1>4 DEF Msg

LEMMA WhoisGood ==
  ASSUME NEW c \in Clients, Acting(c), NEW m \in Commands, m.op = "WHOIS", Whois(c, m)
  PROVE  Good
<1>1. CASE Ignore(c, m) BY <1>1, IgnoreGood
<1>2. CASE m.args = "hole" /\ Stop(c, m, "crashed") BY <1>2, StopGood
<1>3. CASE Refuse(c, m) BY <1>3, RefuseGood
<1>4. CASE /\ m.args = "ok" /\ table[m.nick] # NULL /\ ~username[table[m.nick]]
           /\ Stop(c, m, "crashed")
  <2>1. m.nick \in Nicks BY <1>4, CommandFacts
  <2>2. table[m.nick] \in Clients /\ Present(table[m.nick]) BY <1>4, <2>1, Holder DEF Acting
  <2>3. ~Calm BY <1>4, <2>2, CalmClients DEF Acting
  <2> QED BY <1>4, <2>3, StopGood
<1> QED BY <1>1, <1>2, <1>3, <1>4 DEF Whois

LEMMA OperHandlerGood ==
  ASSUME NEW c \in Clients, Acting(c), NEW m \in Commands, Oper(c, m)
  PROVE  Good
<1>1. CASE m.args = "hole" /\ Stop(c, m, "crashed") BY <1>1, StopGood
<1>2. CASE Refuse(c, m) BY <1>2, RefuseGood
<1>3. CASE /\ opNum < MaxOper /\ ircop' = [ircop EXCEPT ![c] = TRUE]
           /\ opNum' = IncreaseOpNum(opNum) /\ Reply(c, m, NULL)
           /\ UNCHANGED <<nick, username, registered, welcomed, state, table, members>>
  BY <1>3, OperGood
<1> QED BY <1>1, <1>2, <1>3 DEF Oper

LEMMA JoinGood ==
  ASSUME NEW c \in Clients, Acting(c), NEW m \in Commands, m.op = "JOIN", Join(c, m)
  PROVE  Good
<1> DEFINE e == [by |-> c, nick |-> nick[c], op |-> members[m.chan] = {}, own |-> TRUE]
           all == members[m.chan] \cup {e}
<1>1. registered[c] BY DEF Join, Granted
<1>2. CASE /\ m.args = "hole"
           /\ Return(c, m, "FAILURE", NULL) /\ UNCHANGED <<userVars, tableVars>>
  BY <1>2, HoleGood
<1>3. CASE Ignore(c, m) BY <1>3, IgnoreGood
<1>4. CASE m.args = "ok" /\ RelayFails(all) /\ Stop(c, m, "undefined")
  <2>1. m.chan \in Chans BY <1>4, CommandFacts
  <2>2. ~Calm
    <3> SUFFICES ASSUME Calm PROVE FALSE
      OBVIOUS
    <3>1. conn[c] = "open" /\ table[nick[c]] = c BY <1>1, ActorFacts
    <3>2. \A f \in all : \/ f \in Entries
                         \/ ~Freed(f) /\ f.nick = nick[c] /\ table[nick[c]] = c /\ conn[c] = "open"
      BY <2>1, <3>1 DEF Entries, Freed
    <3> HIDE DEF all
    <3> QED BY <1>4, <3>2, CalmRelay DEF Acting
  <2> QED BY <1>4, <2>2, StopGood
<1>5. CASE /\ m.args = "ok" /\ ~AlreadyOn(c, m.chan)
           /\ members' = [members EXCEPT ![m.chan] = all]
           /\ Reply(c, m, Holders(all))
           /\ UNCHANGED <<userVars, state, table, opNum>>
  BY <1>1, <1>5, JoinedGood
<1> QED BY <1>2, <1>3, <1>4, <1>5 DEF Join

\* Of a channel the sender is not on: the one way a regular session ends.
LEMMA PartRefusedGood ==
  ASSUME NEW c \in Clients, Acting(c), registered[c], NEW m \in Commands, m.op = "PART",
         m.chan \in Chans, members[m.chan] # {}, PartRefused(c, m)
  PROVE  Good
<1>1. Stop(c, m, "locked") BY DEF PartRefused, Stop
<1>2. /\ members' = members /\ deserted' = deserted /\ server' = "locked"
      /\ last'.op = "PART" /\ last'.by = c
  BY <1>1 DEF Stop, Sent, tableVars
<1>3. OnlyPartLocks'
  <2> SUFFICES ASSUME ~deserted PROVE \A e \in members[m.chan] : e.by # c
    BY <1>2 DEF OnlyPartLocks
  <2> QED BY NamedIsOwn DEF PartRefused
<1>4. RegularSessionSafe' BY <1>2, <1>3 DEF RegularSessionSafe
<1> QED BY <1>1, <1>4, StopKeeps

LEMMA PartGood ==
  ASSUME NEW c \in Clients, Acting(c), NEW m \in Commands, m.op = "PART", Part(c, m)
  PROVE  Good
<1>1. registered[c] /\ m.args # "few" BY DEF Part, Granted
<1>2. CASE m.args = "hole" /\ Stop(c, m, "crashed") BY <1>2, StopGood
<1>3. CASE Refuse(c, m) BY <1>3, RefuseGood
<1>4. CASE m.args # "hole" /\ members[m.chan] # {} /\ PartRefused(c, m)
  BY <1>1, <1>4, CommandFacts, PartRefusedGood
<1>5. CASE m.args # "hole" /\ PartLeaves(c, m)
  <2>1. m.chan \in Chans BY <1>1, <1>5, CommandFacts
  <2>2. PICK e \in Named(m.chan, nick[c]) :
          \/ NamesMessage(m) /\ Stop(c, m, "crashed")
          \/ /\ m.args = "ok"
             /\ "FAILURE" \in SendResults(c) \/ RelayFails(members[m.chan] \ {e})
             /\ Stop(c, m, "undefined")
          \/ /\ m.args = "ok"
             /\ members' = [members EXCEPT ![m.chan] = members[m.chan] \ {e}]
             /\ Return(c, m, "SUCCESS", Holders(members[m.chan] \ {e}))
             /\ UNCHANGED <<userVars, state, table, opNum>>
    BY <1>5 DEF PartLeaves
  <2>3. CASE NamesMessage(m) /\ Stop(c, m, "crashed") BY <2>3, StopGood DEF NamesMessage
  <2>4. CASE /\ "FAILURE" \in SendResults(c) \/ RelayFails(members[m.chan] \ {e})
             /\ Stop(c, m, "undefined")
    <3> DEFINE rest == members[m.chan] \ {e}
    <3>1. \A f \in rest : f \in Entries BY <2>1 DEF Entries
    <3>a. "FAILURE" \in SendResults(c) \/ RelayFails(rest) BY <2>4
    <3> HIDE DEF rest
    <3>2. Calm => ~RelayFails(rest) BY <3>1, CalmRelay DEF Acting
    <3>3. Calm => "FAILURE" \notin SendResults(c) BY <1>1, ActorFacts DEF SendResults
    <3> QED BY <2>4, <3>a, <3>2, <3>3, StopGood
  <2>5. CASE /\ m.args = "ok"
             /\ members' = [members EXCEPT ![m.chan] = members[m.chan] \ {e}]
             /\ Return(c, m, "SUCCESS", Holders(members[m.chan] \ {e}))
             /\ UNCHANGED <<userVars, state, table, opNum>>
    BY <1>1, <2>5, PartedGood
  <2> QED BY <2>2, <2>3, <2>4, <2>5
<1> QED BY <1>2, <1>3, <1>4, <1>5 DEF Part

LEMMA ModeGood ==
  ASSUME NEW c \in Clients, Acting(c), NEW m \in Commands, m.op = "MODE", Mode(c, m)
  PROVE  Good
<1>1. registered[c] /\ m.args # "few" BY DEF Mode, Granted
<1>2. CASE m.args = "hole" /\ Stop(c, m, "crashed") BY <1>2, StopGood
<1>3. CASE Refuse(c, m) BY <1>3, RefuseGood
<1>4. ASSUME m.args = "ok", ircop[c] \/ \E g \in Named(m.chan, nick[c]) : MayChange(c, g),
             NEW e \in Named(m.chan, m.nick),
             NEW all, all = (members[m.chan] \ {e}) \cup {[e EXCEPT !.op = m.on]},
             \/ RelayFails(all) /\ Stop(c, m, "undefined")
             \/ /\ members' = [members EXCEPT ![m.chan] = all]
                /\ Return(c, m, "SUCCESS", Holders(all))
                /\ UNCHANGED <<userVars, state, table, opNum>>
      PROVE  Good
  <2>1. m.chan \in Chans /\ e \in members[m.chan] BY <1>4, CommandFacts DEF Named
  <2>2. CASE RelayFails(all) /\ Stop(c, m, "undefined")
    <3>1. e \in Member BY <2>1 DEF Acting, IInv, TypeOK
    <3>2. \A f \in all : \E g \in Entries : f.by = g.by /\ f.nick = g.nick /\ f.own = g.own
      BY <2>1, <3>1, <1>4 DEF Entries, Member
    <3>3. ASSUME Calm, NEW f \in all
          PROVE  ~Freed(f) /\ (table[f.nick] # NULL => conn[table[f.nick]] = "open")
      <4>1. PICK g \in Entries : f.by = g.by /\ f.nick = g.nick /\ f.own = g.own BY <3>2
      <4> QED BY <3>3, <4>1, CalmEntry DEF Freed, Acting
    <3>4. Calm => ~RelayFails(all) BY <3>3 DEF RelayFails, Holders
    <3> QED BY <2>2, <3>4, StopGood
  <2>3. CASE /\ members' = [members EXCEPT ![m.chan] = all]
             /\ Return(c, m, "SUCCESS", Holders(all))
             /\ UNCHANGED <<userVars, state, table, opNum>>
    BY <1>1, <1>4, <2>3, ModeChangedGood
  <2> QED BY <1>4, <2>2, <2>3
<1>5. CASE /\ m.args = "ok"
           /\ ircop[c] \/ \E g \in Named(m.chan, nick[c]) : MayChange(c, g)
           /\ \E e \in Named(m.chan, m.nick) :
                LET all == (members[m.chan] \ {e}) \cup {[e EXCEPT !.op = m.on]}
                IN  \/ RelayFails(all) /\ Stop(c, m, "undefined")
                    \/ /\ members' = [members EXCEPT ![m.chan] = all]
                       /\ Return(c, m, "SUCCESS", Holders(all))
                       /\ UNCHANGED <<userVars, state, table, opNum>>
  BY <1>4, <1>5
<1> QED BY <1>2, <1>3, <1>5 DEF Mode

LEMMA QuitHandlerGood ==
  ASSUME NEW c \in Clients, Acting(c), NEW m \in Commands, m.op = "QUIT", Quit(c, m)
  PROVE  Good
<1> DEFINE on == {ch \in Chans : Named(ch, nick[c]) # {}}
           to == UNION {Others(c, ch) : ch \in on}
<1>1. registered[c] BY DEF Quit
<1>2. CASE RelayFails(to) /\ Stop(c, m, "undefined")
  <2>1. \A e \in to : e \in Entries BY DEF Entries, Others
  <2> HIDE DEF to
  <2>2. ~Calm BY <1>2, <2>1, CalmRelay DEF Acting
  <2> QED BY <1>2, <2>2, StopGood
<1>3. CASE Return(c, m, "FAILURE", Holders(to)) /\ UNCHANGED <<userVars, tableVars>>
  BY <1>1, <1>3, QuitGood
<1> QED BY <1>2, <1>3 DEF Quit

LEMMA StaleGood ==
  ASSUME NEW c \in Clients, Acting(c), NEW m \in Commands, StaleKey(c, m), Stop(c, m, "undefined")
  PROVE  Good
<1>1. PICK ch \in Chans : \E e \in members[ch] : Freed(e) BY CommandFacts DEF StaleKey
<1>2. PICK e \in members[ch] : Freed(e) BY <1>1
<1>3. ~Calm BY <1>2, CalmEntry DEF Acting, Entries
<1> QED BY <1>3, StopGood
-------------------------------------------------------------------------------
(* Every step *)

LEMMA HandleGood ==
  ASSUME NEW c \in Clients, Acting(c), NEW m \in Commands, Handle(c, m)
  PROVE  Good
<1>1. CASE m.op = "NICK" /\ Nick(c, m) BY <1>1, NickGood
<1>2. CASE m.op = "USER" /\ User(c, m) BY <1>2, UserGood
<1>3. CASE Unknown(c, m) BY <1>3, RefuseGood, IgnoreGood DEF Unknown
<1>4. CASE CheckRegistered(c, m) \/ CheckParams(c, m) \/ Answer(c, m)
  BY <1>4, RefuseGood DEF CheckRegistered, CheckParams, Answer
<1>5. CASE m.op \in {"PRIVMSG", "NOTICE"} /\ Msg(c, m) BY <1>5, MsgGood
<1>6. CASE Pong(c, m) BY <1>6, IgnoreGood DEF Pong
<1>7. CASE m.op = "WHOIS" /\ Whois(c, m) BY <1>7, WhoisGood
<1>8. CASE m.op = "JOIN" /\ Join(c, m) BY <1>8, JoinGood
<1>9. CASE m.op = "PART" /\ Part(c, m) BY <1>9, PartGood
<1>10. CASE Oper(c, m) BY <1>10, OperHandlerGood
<1>11. CASE m.op = "MODE" /\ Mode(c, m) BY <1>11, ModeGood
<1>12. CASE m.op = "QUIT" /\ Quit(c, m) BY <1>12, QuitHandlerGood
<1> QED
  BY <1>1, <1>2, <1>3, <1>4, <1>5, <1>6, <1>7, <1>8, <1>9, <1>10, <1>11, <1>12 DEF Handle

LEMMA NextGood ==
  ASSUME IInv, Next
  PROVE  Good
<1>1. server = "up" BY DEF Next
<1>2. PICK c \in Clients :
        \/ Connect(c) \/ PeerGone(c) \/ RecvFails(c) \/ Close(c)
        \/ conn[c] \in {"open", "reset"} /\ \E m \in Commands :
             Handle(c, m) \/ (StaleKey(c, m) /\ Stop(c, m, "undefined"))
  BY DEF Next
<1>3. CASE Connect(c) BY <1>1, <1>3, ConnectGood
<1>4. CASE PeerGone(c) \/ RecvFails(c) BY <1>1, <1>4, GoneGood
<1>5. CASE Close(c) BY <1>1, <1>5, CloseGood
<1>6. CASE conn[c] \in {"open", "reset"} /\ \E m \in Commands :
             Handle(c, m) \/ (StaleKey(c, m) /\ Stop(c, m, "undefined"))
  <2>1. Acting(c) BY <1>1, <1>6 DEF Acting
  <2> QED BY <1>6, <2>1, HandleGood, StaleGood
<1> QED BY <1>2, <1>3, <1>4, <1>5, <1>6

LEMMA StutterKeeps == IInv /\ UNCHANGED vars => IInv'
<1> SUFFICES ASSUME IInv, UNCHANGED vars PROVE IInv'
  OBVIOUS
<1> USE DEF vars, userVars, tableVars
<1>1. TypeOK' BY DEF IInv, TypeOK
<1>2. StateTruthful' /\ FreshOrGone' /\ TableExact'
  BY DEF IInv, StateTruthful, FreshOrGone, TableExact, Present
<1>3. MembersExact' BY DEF IInv, MembersExact, Entry, Present
<1>4. RegularSessionSafe' BY DEF IInv, RegularSessionSafe, OnlyPartLocks, Regular
<1> QED BY <1>1, <1>2, <1>3, <1>4 DEF IInv

LEMMA InvInit == Init => IInv
<1> SUFFICES ASSUME Init PROVE IInv
  OBVIOUS
<1>1. TypeOK
  <2>1. opNum \in 0..MaxOper BY SessionAssumption DEF Init
  <2>2. last \in [by : Clients \cup {NULL}, op : Ops \cup {NULL}, args : Args \cup {NULL},
                  chan : Chans \cup {NULL}, to : (SUBSET Clients) \cup {NULL}]
    BY DEF Init
  <2>3. /\ conn \in [Clients -> {"none", "open", "reset", "closing", "closed"}]
        /\ state \in [Clients -> {"unknown", "user", "registered"}]
        /\ nick \in [Clients -> Nicks \cup {NULL}]
        /\ table \in [Nicks -> Clients \cup {NULL}] /\ members \in [Chans -> SUBSET Member]
    BY DEF Init
  <2>4. /\ username \in [Clients -> BOOLEAN] /\ registered \in [Clients -> BOOLEAN]
        /\ ircop \in [Clients -> BOOLEAN] /\ welcomed \in [Clients -> Nat]
        /\ server \in {"up", "locked", "crashed", "undefined"} /\ deserted \in BOOLEAN
    BY DEF Init
  <2> QED BY <2>1, <2>2, <2>3, <2>4 DEF TypeOK
<1>2. StateTruthful BY DEF Init, StateTruthful, Present
<1>3. FreshOrGone BY DEF Init, FreshOrGone
<1>4. TableExact BY DEF Init, TableExact
<1>5. MembersExact BY DEF Init, MembersExact
<1>6. RegularSessionSafe BY DEF Init, RegularSessionSafe, OnlyPartLocks
<1> QED BY <1>1, <1>2, <1>3, <1>4, <1>5, <1>6 DEF IInv

LEMMA InvAlways == Spec => []IInv
<1>1. IInv /\ [Next]_vars => IInv' BY NextGood, StutterKeeps DEF Good
<1> QED BY <1>1, InvInit, PTL DEF Spec
-------------------------------------------------------------------------------
(* Theorems *)

\* In every session the variables keep their types, the count of operators its bound.
THEOREM TypeCorrect == Spec => []TypeOK
<1>1. IInv => TypeOK BY DEF IInv
<1> QED BY <1>1, InvAlways, PTL

\* In every session connection_t.state, registered and the welcome say how far each
\* client has come, so that the counts of LUSERS are true.
THEOREM RegistrationsTruthful == Spec => []StateTruthful
<1>1. IInv => StateTruthful BY DEF IInv
<1> QED BY <1>1, InvAlways, PTL

\* Clients that register, PART before they leave and send no line with a hole do not
\* stop the server, but for a PART of a channel the sender is not on.
THEOREM RegularSafe == Spec => []RegularSessionSafe
<1>1. IInv => RegularSessionSafe BY DEF IInv
<1> QED BY <1>1, InvAlways, PTL

\* Until somebody has left the server without PART, no channel has two entries under
\* one nickname or for one client, whatever renames there were.
THEOREM OneEntry == Spec => []OneEntryEach
<1>1. ASSUME IInv PROVE OneEntryEach
  <2> SUFFICES ASSUME ~deserted, NEW ch \in Chans, NEW e \in members[ch], NEW f \in members[ch],
                      e.nick = f.nick \/ e.by = f.by
               PROVE  e = f
    BY DEF OneEntryEach
  <2>1. e \in Entries /\ f \in Entries BY DEF Entries
  <2>2. table[e.nick] = e.by /\ table[f.nick] = f.by BY <1>1, <2>1, EntryFacts
  <2>3. f.by = e.by BY <2>2
  <2>4. Entry(e, members[ch]) BY <1>1 DEF IInv, MembersExact
  <2> QED BY <2>3, <2>4 DEF Entry
<1> QED BY <1>1, InvAlways, PTL

\* The nickname table of a server with clients of every kind implements NickRegistry.
THEOREM ImplementsRegistry == Spec => RegistrySpec
<1>1. Init => Registry!Init BY DEF Init, Registry!Init
<1>2. ASSUME IInv, [Next]_vars PROVE [Registry!Next]_table
  <2>1. CASE Next BY <1>2, <2>1, NextGood DEF Good
  <2>2. CASE UNCHANGED vars BY <2>2 DEF vars, tableVars
  <2> QED BY <1>2, <2>1, <2>2
<1> QED BY <1>1, <1>2, InvAlways, PTL DEF Spec, RegistrySpec, Registry!Spec

\* The server closes a connection for a cause that lies with that client, or with the
\* client it sent a message to.
THEOREM ClosesForCause == Spec => ClosedForCause
<1>1. ASSUME IInv, [Next]_vars PROVE [Closed]_vars
  <2>1. CASE Next BY <1>1, <2>1, NextGood DEF Good
  <2>2. CASE UNCHANGED vars BY <2>2
  <2> QED BY <1>1, <2>1, <2>2
<1> QED BY <1>1, InvAlways, PTL DEF Spec, ClosedForCause, Closed

\* Until somebody has left a channel without PART, a relay goes to exactly the members
\* it is meant for, although members are found by nickname.
THEOREM RelaysCorrect == Spec => RelaysReachMembers
<1>1. ASSUME IInv, [Next]_vars PROVE [Relayed]_vars
  <2>1. CASE Next BY <1>1, <2>1, NextGood DEF Good
  <2>2. CASE UNCHANGED vars BY <2>2
  <2> QED BY <1>1, <2>1, <2>2
<1> QED BY <1>1, InvAlways, PTL DEF Spec, RelaysReachMembers, Relayed

\* Until somebody has left a channel without PART, the channels are those of
\* ChannelDirectory: everybody joins and parts for itself, and operators are made by
\* operators, although a member is found by its nickname and may change it.
THEOREM ImplementsDirectory == Spec => DirectorySpec
<1>1. Init => Directory!Init
  BY SessionAssumption DEF Init, Directory!Init, MembersOf, OperatorsOf
<1>2. ASSUME IInv, [Next]_vars PROVE Directed
  <2>1. CASE Next BY <1>2, <2>1, NextGood DEF Good
  <2>2. CASE UNCHANGED vars BY <2>2, StillDirected DEF vars, userVars, tableVars
  <2> QED BY <1>2, <2>1, <2>2
<1> QED BY <1>1, <1>2, InvAlways, PTL DEF Spec, DirectorySpec, Directory!Spec, Directed
===============================================================================
