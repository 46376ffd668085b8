\* Several processors, disk errors and refused requests.
SPECIFICATION Spec
CONSTANTS
  w1 = w1
  w2 = w2
  a1 = a1
  d1 = d1
  d2 = d2
  WaitRequests = {w1, w2}
  AheadRequests = {a1}
  Bins = {d1}
  Bin <- OneBin
  Callback = Callback
  NoThread = NoThread
  NoRequest = NoRequest
  SMP = TRUE
  MaxSubmits = 3
  Errors = TRUE
  Refusals = TRUE
INVARIANTS
  TypeOK
  OnOneList
  SignalsFindWaiter
  NoSleepOnWork
\* When all requests are served and all threads sleep the system is at rest.
CHECK_DEADLOCK FALSE
