SPECIFICATION FairSpec
CONSTANTS
  \* conversations
  Turns <- FourTurns
  Earlier = {1, 2}
  p1 = p1
  p2 = p2
  Processes = {p1, p2}
  Home <- TwoProcesses
  Polled = {3}
  KeepRecent = 1
  MaxCrashes = 1
  \* evaluations
  Cases = {1, 2}
  Starts = {s1, s2}
  Packages = {1, 2}
  \* execute
  Tasks = {t1, t2, t3}
  RowCounts = {1, 2, 3}
  FileThreshold = 2
  NoRef = noRef
  FileRef = fileRef
  \* feedback
  Requests = {q1, q2, q3}
  Notes = {n1, n2}
  Scripts = {d1}
  Answer = d0
  Null = null
  \* ontology tables
  x = x
  y = y
  e1 = e1
  e2 = e2
  r1 = r1
  r2 = r2
  Servers = {x, y}
  Editors = {e1, e2}
  Readers = {r1, r2}
  Fields = {f1, f2}
  ServerOf <- Elsewhere
INVARIANTS
  TypeOK
  VerdictsAreFinal
  HistoryIsWhole
  CompletedRunIsSound
  RecordIsTrue
  FeedbackIsConsistent
  MetadataIsConsistent
PROPERTIES
  DecidedCasesStay
  EveryServiceSettles
\* When every request is answered, nothing is left to do.
CHECK_DEADLOCK FALSE
