\* Two threads share one client and race over one key.
SPECIFICATION Spec
CONSTANTS
  k1 = k1
  k2 = k2
  k3 = k3
  p1 = p1
  p2 = p2
  Keys = {k1, k2, k3}
  Payloads = {p1, p2}
  NoPayload = NoPayload
  AnyRevision = AnyRevision
  NoRequest = NoRequest
  Requests <- MCRequests
  Threads = {t1, t2}
  max_retries = 2
  failure_threshold = 2
  MaxFaults = 3
SYMMETRY MCSymmetry
INVARIANT OperationsAppliedOnce
INVARIANT StoredTicketIsReturned
INVARIANT ReceiptsMatchRequests
INVARIANT BreakerCountsFailures
INVARIANT ProbeHasCaller
