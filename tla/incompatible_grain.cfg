SPECIFICATION ProgramSpec
CONSTANTS
  Ontologies <- None
  StepDrafts <- None
  TextRequests <- None
  QueryWorlds <- None
  Periodical <- StatedTimes
  Calendar <- FourMonths
INVARIANT StatedTimeWins
CHECK_DEADLOCK FALSE
