SPECIFICATION EvaluationSpec
CONSTANTS
  Cases = {1}
  Starts = {s1, s2}
  Packages = {1}
PROPERTY RepeatedStartIsIdempotent
\* A run that is complete or deleted is left alone.
CHECK_DEADLOCK FALSE
