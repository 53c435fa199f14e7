SPECIFICATION Spec
CONSTANTS
  Cards = {c1, c2}
  Iccids = {i1}
  Tids = {s1, s2}
  Threads = {t1}
  MaxOrders = 2
  Faults = {"read"}
  Forms = {"intact"}
  Kinds = {}
  IccidOverride = FALSE
  MaxNotes = 2
  MaxMishaps = 1
  NoCard = NoCard
  NoIccid = NoIccid
  NoTid = NoTid
  c1 = c1
  c2 = c2
  i1 = i1
  s1 = s1
  s2 = s2
  t1 = t1
SYMMETRY Symmetry
INVARIANT TypeOK
INVARIANT PackageConsistent
INVARIANT ReceivedIsNotOffered
INVARIANT BoundHasEuicc
PROPERTY NotRebound
PROPERTY ImplementsLedger
