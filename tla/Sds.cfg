\* A string with and without free space in each of the five headers.
SPECIFICATION Spec
CONSTANTS
  x = x
  y = y
  Chars = {x, y}
  NUL = NUL
  JUNK = JUNK
  Args <- MCArgs
  Indices <- MCIndices
  MaxOf <- MCMaxOf
  Prealloc = 4
  MaxFmt = 2
  MaxRoom = 6
INVARIANTS TypeOK HeaderTruthful Terminated
PROPERTY ContentsAsDocumented
