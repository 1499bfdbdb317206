CONSTANTS
  Tid = {t1, t2}
  Ev = {e1, e2, e3}
  Call = {c1}
  OldTag = {}
  NoTag = NoTag
  Udp = Udp
  NoEv = NoEv
  NoReq = NoReq
  NoDialog = NoDialog
  MemoryMayFail = TRUE
  MaxFifo = 2
SPECIFICATION BoundedSpec
INVARIANTS
  NoDanglingEvent
  DialogPerInvite
PROPERTIES
  ReturnsToPoll
  KeepsUas
  WorkShrinks
CHECK_DEADLOCK FALSE
