\* Every line of up to seven characters, for room for two parameters.
SPECIFICATION Spec
CONSTANTS
  a = a
  b = b
  Letters = {a, b}
  SP = SP
  COLON = COLON
  Names <- MCNames
  MaxParams = 2
  FirstSlots = 2
  MaxLine = 7
  NULL = NULL
  WILD = WILD
INVARIANTS TypeOK ParseInvertsJoin HolesOnlyFromEmptyWords DiesOnlyByLine DispatchedByName MemorySafe
CHECK_DEADLOCK FALSE
