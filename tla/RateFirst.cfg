\* Frame times from 0 on, in any order; the stream may start anywhere.
CONSTANTS
  m_targetDuration = 2000
  Bases <- HalfSeconds
  Pts <- Forward
  IntHalf = 4096
  MaxCount = 6
SPECIFICATION Spec
INVARIANTS
  FirstRate
CHECK_DEADLOCK FALSE
