SPECIFICATION FairSpec
CONSTANTS
  Workspaces = {evaluation, other}
  Managed = evaluation
  Versions = {v1, v2}
  Ops = {o1, o2}
  None = None
  Inherited = v1
  Publishable <- PublishableDrafts
  MaxRevision = 1
  MaxCrashes = 1
  MaxDamages = 1
INVARIANTS
  TypeOK
  RuntimeFollowsPointer
  VersionRecordsItsRevision
  PublishedAsReviewed
  FailedSwitchKeepsActive
  ActiveVersionIsListed
  ReadyWhenRecoverable
PROPERTIES
  NeverRebuilt
  EveryOperationAnswered
\* Once every request is answered and the bounds are spent, nothing is left to do.
CHECK_DEADLOCK FALSE
