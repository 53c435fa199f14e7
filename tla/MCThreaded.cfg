SPECIFICATION Spec
CONSTANTS
  Cards = {c1}
  Iccids = {i1}
  Tids = {s1, s2}
  Threads = {t1, t2}
  MaxOrders = 2
  Faults = {"read", "write", "decode"}
  Forms = {"intact"}
  Kinds = {}
  IccidOverride = FALSE
  MaxNotes = 2
  MaxMishaps = 1
  NoCard = NoCard
  NoIccid = NoIccid
  NoTid = NoTid
  c1 = c1
  i1 = i1
  s1 = s1
  s2 = s2
  t1 = t1
  t2 = t2
SYMMETRY Symmetry
INVARIANT PackageConsistent
INVARIANT BuilderHoldsSession
