SPECIFICATION IpcFairSpec
CONSTANTS
  WordMod = 1073741824
  Daemons = {d1, d2}
  Orphan = Orphan
  Absent = Absent
  Requests <- SomeRequests
  QueueLimit = 2
  MaxClients = 3
  MaxStarts = 3
INVARIANTS
  CalledAsAsked
  ReachableWhenSettled
PROPERTY
  SentIsCalled
CHECK_DEADLOCK FALSE
