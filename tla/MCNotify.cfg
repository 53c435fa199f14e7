SPECIFICATION Spec
CONSTANTS
  Cards = {c1, c2}
  Iccids = {i1, i2}
  Tids = {s1}
  Threads = {t1}
  MaxOrders = 1
  Faults = {}
  Forms = {"intact", "tampered"}
  Kinds = {"result", "other"}
  IccidOverride = TRUE
  MaxNotes = 2
  MaxMishaps = 1
  NoCard = NoCard
  NoIccid = NoIccid
  NoTid = NoTid
  c1 = c1
  c2 = c2
  i1 = i1
  i2 = i2
  s1 = s1
  t1 = t1
SYMMETRY Symmetry
INVARIANT NoNotificationLost
INVARIANT VerifiedByItsOwnEuicc
PROPERTY ImplementsLedger
