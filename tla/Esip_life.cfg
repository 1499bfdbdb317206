CONSTANTS
  t1 = t1  t2 = t2
  e1 = e1  e2 = e2
  Tid = {t1, t2}
  Ev = {e1, e2}
  Call = {c1}
  OldTag = {}
  NoTag = NoTag
  Udp = Udp
  NoEv = NoEv
  NoReq = NoReq
  NoDialog = NoDialog
  MemoryMayFail = FALSE
  Conn = {k1}
  NoConn = NoConn
  MaxSessions = 1
  IdleLimit = 1
SPECIFICATION MCSpec
INVARIANTS
  EsipTypeOK
  StopsBetweenRequests
  LeftAtExit
PROPERTIES
  ImplementsCli
  SigintEnds
CHECK_DEADLOCK FALSE
