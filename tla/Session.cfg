\* Two clients, every command with good and bad arguments, peers that go at any moment.
SPECIFICATION Spec
CONSTANTS
  Clients = {c1, c2}
  Nicks = {n1, n2, n3}
  Chans = {d1}
  NULL = NULL
  MaxOper = 1
SYMMETRY Symmetric
INVARIANTS TypeOK StateTruthful RegularSessionSafe OneEntryEach
PROPERTIES RegistrySpec ClosedForCause RelaysReachMembers DirectorySpec
CHECK_DEADLOCK FALSE
