SPECIFICATION FairSpec
CONSTANTS
  Cards = {c1}
  Iccids = {i1}
  Tids = {s1}
  Threads = {t1}
  MaxOrders = 1
  Faults = {}
  Forms = {"intact", "tampered"}
  Kinds = {"result"}
  IccidOverride = FALSE
  MaxNotes = 1
  MaxMishaps = 2
  NoCard = NoCard
  NoIccid = NoIccid
  NoTid = NoTid
  c1 = c1
  i1 = i1
  s1 = s1
  t1 = t1
PROPERTY NotStranded
PROPERTY NotificationArrives
