\* A confirm whose last step, the consume of the session, fails.
SPECIFICATION Spec
CONSTANTS
  Requests = {r1, r2}
  Nobody = Nobody
  Stores = {s1}
  StoreOf <- OneStore
  a = a
  b = b
  Batches <- OneBatch
  MaxCrashes = 0
INVARIANT FailedConfirmLeavesDraft
\* Once every request of the run is answered nothing is left to do.
CHECK_DEADLOCK FALSE
