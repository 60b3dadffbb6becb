SPECIFICATION FairSpec
CONSTANTS
  urgent = urgent
  normal = normal
  other = other
  personal = personal
  t1 = t1
  t2 = t2
  h = h
  Nobody = Nobody
  Callers = {t1, t2, h}
  Handlers = {h}
  Batches <- TheBatches
  Request <- Requests
  Priority <- Priorities
  Adapter = "mini"
  MaxBatchSize = 2
INVARIANTS SingleFlight OnlyAllowedLeave EveryItemHasItsResult
PROPERTIES EveryCallerEnds
CHECK_DEADLOCK FALSE
