\* A descriptor that is accepted again before its entry is deleted.
SPECIFICATION Spec
CONSTANTS
  MaxClients = 2
  MaxFds = 2
INVARIANT CountsExact
CHECK_DEADLOCK FALSE
