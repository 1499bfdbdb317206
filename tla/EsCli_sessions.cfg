CONSTANTS
  Conn = {k1, k2, k3}
  NoConn = NoConn
  MaxSessions = 2
  IdleLimit = 2
SPECIFICATION FairSpec
INVARIANTS
  TypeOK
  DescriptorBalance
  AloneOwnsStream
  CrashNeedsOverlap
PROPERTY AloneSilentIsClosed
CHECK_DEADLOCK FALSE
