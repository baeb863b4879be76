\* One segment.  The startup timeout needs no more than a slow connection.
SPECIFICATION SessionSpec
CONSTANTS
  Reportable = {s1}
  Protected = TRUE
INVARIANT RunsStarted
CHECK_DEADLOCK FALSE
