SPECIFICATION ServersSpec
CONSTANTS
  w1 = w1
  w2 = w2
  t1 = t1
  t2 = t2
  t3 = t3
  e1 = e1
  e2 = e2
  i1 = i1
  i2 = i2
  n1 = n1
  Workers = {w1, w2}
  TaskIds = {t1, t2, t3}
  Types = {"image", "video"}
  Capabilities <- MCCapabilities
  MaxMishaps = 1
  Sockets = {e1, e2}
  Ids = {i1, i2}
  WorkerIds = {i1}
  Rooms = {"tasks"}
  Asked = {"tasks"}
  Notifiers = {n1}
  Nobody = Nobody
INVARIANTS MvpInv BusyAgrees ConnInv BroadcastReachesRoom
PROPERTIES SettledStays SettledIfNothingFails NotifiersFinish
CHECK_DEADLOCK FALSE
