\* A caller that joins when it likes, as main does through FrameCounter::Stop.
CONSTANTS
  MaxStarts = 1
SPECIFICATION Spec
INVARIANTS
  ExitMeansOver
CHECK_DEADLOCK FALSE
