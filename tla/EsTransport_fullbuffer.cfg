CONSTANTS
  BufSize = 4
  SizeMax = 15
  Lengths = {0, 1, 3, 4, 5}
  MaxArrived = 3
  MaxErrors = 0
SPECIFICATION Spec
INVARIANT TerminatorInBuffer
CHECK_DEADLOCK FALSE
