\* The wiring of the HTTP layer: a store object, hence lock tables, per request.
SPECIFICATION Spec
CONSTANTS
  Requests = {r1, r2, r3, r4}
  Nobody = Nobody
  Stores = {r1, r2, r3, r4}
  StoreOf <- OwnStore
  a = a
  b = b
  Batches <- TwoBatches
  MaxCrashes = 1
INVARIANTS
  TypeOK
  LostOnlyInOverlap
  AppliedTokenIsSpent
  NoDuplicateObjects
  FailureLeavesDraft
SYMMETRY Symmetric
\* Once every request of the run is answered nothing is left to do.
CHECK_DEADLOCK FALSE
