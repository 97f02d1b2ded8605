\* One client that edits and one that deletes, their commits overlapping, and any
\* number of publications: import, relate, confirm, change, with a publication in
\* between.
SPECIFICATION Spec
CONSTANTS
  a = a
  b = b
  a1 = a1
  a2 = a2
  b1 = b1
  None = None
  Objects = {a, b}
  Fields = {a1, a2, b1}
  OwnerOf <- Owners
  TypeOf <- Types
  PartitionOf <- Partitions
  Relations = {r1}
  Editors = {e1}
  Deletes = {d1}
  MaxRevision = 4
SYMMETRY Symmetric
INVARIANTS TypeOK DraftReadable PublishedEndpointsConfirmed
PROPERTIES PublishedLostOnlyInRace AuditedImpactIsExact
\* The bound on revisions ends every behaviour.
CHECK_DEADLOCK FALSE
