\* Any sequence of frame times, on time bases that rescale exactly and not.
CONSTANTS
  m_targetDuration = 2000
  Bases <- Several
  Pts <- Times
  IntHalf = 4096
  MaxCount = 6
SPECIFICATION Spec
INVARIANTS
  TypeOK
  DurationIsWindow
  CountIsWindow
  SteadyRate
\* MaxCount ends a window that time does not.
CHECK_DEADLOCK FALSE
