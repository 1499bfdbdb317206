CONSTANTS
  Tid = {t1, t2, t3}
  Ev = {e1, e2}
  Call = {c1, c2}
  OldTag = {old}
  NoTag = NoTag
  Udp = Udp
  NoEv = NoEv
  NoReq = NoReq
  NoDialog = NoDialog
  MemoryMayFail = FALSE
  MaxFifo = 2
SPECIFICATION Spec
SYMMETRY Symmetry
INVARIANTS
  TypeOK
  NoDanglingEvent
  AtMostOnePending
  NoLeakedEvent
  AnsweredAtPoll
  DialogPerInvite
