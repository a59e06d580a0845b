\* A rename against a PART of the same channel.
SPECIFICATION Spec
CONSTANTS
  Users = {u1, u2}
  Nicks = {a, b, c}
  Names = {chat}
  Chans = {k1, k2}
  NoUser = NoUser
  NoNick = NoNick
  NoName = NoName
  NoChan = NoChan
  Cmds = {"NICK", "JOIN", "PART"}
  MaxCmds = 3
SYMMETRY Symmetric
INVARIANT NoWaitCycle
CHECK_DEADLOCK FALSE
