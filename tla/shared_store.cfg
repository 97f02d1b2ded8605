\* One store object for all requests, as in the store's own concurrency test.
SPECIFICATION FairSpec
CONSTANTS
  Requests = {r1, r2, r3}
  Nobody = Nobody
  Stores = {s1}
  StoreOf <- OneStore
  a = a
  b = b
  Batches <- TwoBatches
  MaxCrashes = 1
INVARIANTS
  NoLostUpdate
  OneMutationPerRevision
  ImportLandsOnPreviewedDraft
PROPERTIES
  ImplementsRegister
  EveryRequestAnswered
\* Once every request of the run is answered nothing is left to do.
CHECK_DEADLOCK FALSE
