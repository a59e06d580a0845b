\* Two clients that stay: joining, parting and renaming race.
SPECIFICATION Spec
CONSTANTS
  Users = {u1, u2}
  Nicks = {a, b, c}
  Names = {chat}
  Chans = {k1, k2}
  NoUser = NoUser
  NoNick = NoNick
  NoName = NoName
  NoChan = NoChan
  Cmds = {"NICK", "JOIN", "PART"}
  MaxCmds = 5
SYMMETRY Symmetric
INVARIANTS InhabitedChannels MembersFaithful OneCreator
PROPERTY MembershipByOwnCommand
CHECK_DEADLOCK FALSE
