\* One processor, two queues with a worker each, disk errors: what must happen in the end.
SPECIFICATION FairSpec
CONSTANTS
  w1 = w1
  w2 = w2
  a1 = a1
  d1 = d1
  d2 = d2
  WaitRequests = {w1, w2}
  AheadRequests = {a1}
  Bins = {d1, d2}
  Bin <- TwoBins
  Callback = Callback
  NoThread = NoThread
  NoRequest = NoRequest
  SMP = FALSE
  MaxSubmits = 3
  Errors = TRUE
  Refusals = FALSE
INVARIANTS
  SuccessReported
PROPERTIES
  RequestsComplete
\* When all requests are served and all threads sleep the system is at rest.
CHECK_DEADLOCK FALSE
