SPECIFICATION Spec
CONSTANTS
  Cards = {c1}
  Iccids = {i1}
  Tids = {s1}
  Threads = {t1}
  MaxOrders = 1
  Faults = {"write"}
  Forms = {"intact"}
  Kinds = {"result"}
  IccidOverride = FALSE
  MaxNotes = 2
  MaxMishaps = 0
  NoCard = NoCard
  NoIccid = NoIccid
  NoTid = NoTid
  c1 = c1
  i1 = i1
  s1 = s1
  t1 = t1
SYMMETRY Symmetry
INVARIANT NoNotificationLost
