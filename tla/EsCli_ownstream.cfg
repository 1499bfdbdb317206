CONSTANTS
  Conn = {k1, k2, k3}
  NoConn = NoConn
  MaxSessions = 2
  IdleLimit = 2
SPECIFICATION Spec
INVARIANT OwnStream
CHECK_DEADLOCK FALSE
