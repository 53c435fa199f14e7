SPECIFICATION Spec
CONSTANTS
  Cards = {c1}
  Iccids = {i1}
  Tids = {s1}
  Threads = {t1}
  MaxOrders = 1
  Faults = {}
  Forms = {"intact"}
  Kinds = {}
  IccidOverride = FALSE
  MaxNotes = 2
  MaxMishaps = 1
  NoCard = NoCard
  NoIccid = NoIccid
  NoTid = NoTid
  c1 = c1
  i1 = i1
  s1 = s1
  t1 = t1
SYMMETRY Symmetry
INVARIANT UnfinishedStaysWanted
