\* Two clients, every command, leaving at any moment.
SPECIFICATION Spec
CONSTANTS
  Users = {u1, u2}
  Nicks = {a, b, c}
  Names = {chat}
  Chans = {k1, k2}
  NoUser = NoUser
  NoNick = NoNick
  NoName = NoName
  NoChan = NoChan
  Cmds = {"NICK", "JOIN", "PART", "MODE", "MSGCHAN", "MSGNICK", "WHOIS", "LIST", "LUSERS", "OPER", "PING", "QUIT", "DROP"}
  MaxCmds = 3
SYMMETRY Symmetric
INVARIANTS TypeOK LockDiscipline NicksConsistent
PROPERTY RegistrySpec
CHECK_DEADLOCK FALSE
