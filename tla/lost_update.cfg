\* The wiring of the HTTP layer again, against the promise of a locked compare.
SPECIFICATION Spec
CONSTANTS
  Requests = {r1, r2}
  Nobody = Nobody
  Stores = {r1, r2}
  StoreOf <- OwnStore
  a = a
  b = b
  Batches <- OneBatch
  MaxCrashes = 0
INVARIANT NoLostUpdate
\* Once every request of the run is answered nothing is left to do.
CHECK_DEADLOCK FALSE
