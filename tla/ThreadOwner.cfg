\* An owner that starts, joins, waits and destroys when it likes.
CONSTANTS
  MaxStarts = 3
SPECIFICATION Spec
INVARIANTS
  ContextAgrees
  OverWhenPatient
  NoUseAfterFree
PROPERTIES
  NeverMidTarget
\* The wrapper is destroyed in the end, or never started again.
CHECK_DEADLOCK FALSE
