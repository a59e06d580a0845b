\* Four connections in a row on two descriptors, so that each is used again.
SPECIFICATION Spec
CONSTANTS
  MaxClients = 4
  MaxFds = 2
INVARIANTS TypeOK DescriptorsOwned TableBalanced FreedNotListed OwnEntryExact
CHECK_DEADLOCK FALSE
