\* Two clients that may leave at any moment: every command that loops, waits or holds
\* a mutex, but PART.
SPECIFICATION FairSpec
CONSTANTS
  Users = {u1, u2}
  Nicks = {a, b, c}
  Names = {chat}
  Chans = {k1}
  NoUser = NoUser
  NoNick = NoNick
  NoName = NoName
  NoChan = NoChan
  Cmds = {"NICK", "JOIN", "MSGCHAN", "MSGNICK", "LIST", "LUSERS", "QUIT", "DROP"}
  MaxCmds = 3
PROPERTIES CommandsComplete DisconnectsReclaimed
CHECK_DEADLOCK FALSE
