\* Clients that may leave without a nickname.
SPECIFICATION Spec
CONSTANTS
  Elements = {u1, u2, u3}
  a1 = a1
  a2 = a2
  a3 = a3
  b1 = b1
  b2 = b2
  b3 = b3
  c1 = c1
  Keys = {a1, a2, a3, b1, b2, b3, c1}
  NULL = NULL
  HashOf <- MCHash
  InitialBuckets = 2
  Threshold = 3
  MaxBuckets = 8
  Habits = {"leave_nickless"}
SYMMETRY Symmetric
PROPERTY RegistrySpec
CHECK_DEADLOCK FALSE
