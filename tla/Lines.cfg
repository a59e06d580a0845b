\* Streams of up to 8 bytes over CR, LF and two others, in chunks of 1 to 4 bytes.
SPECIFICATION Spec
CONSTANTS
  Other = {x, y}
  CR = CR
  LF = LF
  BufferSize = 4
  MaxStream = 8
SYMMETRY OtherSymmetric
INVARIANTS TypeOK FlagMarksCR LinesExact OverrunOnlyByLongLine
CHECK_DEADLOCK FALSE
