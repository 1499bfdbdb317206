CONSTANTS
  BufSize = 4
  SizeMax = 15
  Lengths = {0, 1, 3, 4, 5}
  MaxArrived = 3
  MaxErrors = 2
SPECIFICATION FairSpec
INVARIANTS
  TypeOK
  DeliversWhatArrived
PROPERTY EventuallyRead
CHECK_DEADLOCK FALSE
