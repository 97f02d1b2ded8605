\* A relation that is turned round after a person confirmed it.
SPECIFICATION Spec
CONSTANTS
  a = a
  b = b
  a1 = a1
  a2 = a2
  b1 = b1
  None = None
  Objects = {a, b}
  Fields = {a1, a2, b1}
  OwnerOf <- Owners
  TypeOf <- Types
  PartitionOf <- Partitions
  Relations = {r1}
  Editors = {e1}
  Deletes = {d1}
  MaxRevision = 4
INVARIANT PublishedDirectionConfirmed
CHECK_DEADLOCK FALSE
