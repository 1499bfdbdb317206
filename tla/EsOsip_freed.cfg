CONSTANTS
  Tid = {t1, t2}
  Ev = {e1, e2}
  Call = {c1}
  OldTag = {}
  NoTag = NoTag
  Udp = Udp
  NoEv = NoEv
  NoReq = NoReq
  NoDialog = NoDialog
  MemoryMayFail = TRUE
  MaxFifo = 2
SPECIFICATION Spec
INVARIANT FifoOwnsEvents
