SPECIFICATION Spec
CONSTANTS
  Workspaces = {evaluation}
  Managed = evaluation
  Versions = {v1, v2}
  Ops = {o1}
  None = None
  Inherited = v1
  Publishable <- PublishableDrafts
  MaxRevision = 1
  MaxCrashes = 0
  MaxDamages = 0
INVARIANT NoStrandedVersion
\* Once every request is answered and the bounds are spent, nothing is left to do.
CHECK_DEADLOCK FALSE
