CONSTANTS
  t1 = t1
  t2 = t2
  t3 = t3
  t4 = t4
  e1 = e1
  e2 = e2
  Tid = {t1, t2, t3, t4}
  Ev = {e1, e2}
  Call = {c1}
  OldTag = {}
  NoTag = NoTag
  Udp = Udp
  NoEv = NoEv
  NoReq = NoReq
  NoDialog = NoDialog
  MemoryMayFail = FALSE
  Methods = {"INVITE", "BYE"}
  Branch = {b1, b2}
  NoBranch = NoBranch
  MaxTries = 2
  MaxLoss = 1
  MaxQueue = 2
SPECIFICATION MCSpec
INVARIANTS
  NetTypeOK
  CallersDialogExists
  AckFindsDialog
  NoAmplification
PROPERTY EveryCallerAnswered
CHECK_DEADLOCK FALSE
