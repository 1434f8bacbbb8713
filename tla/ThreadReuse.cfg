\* A caller that starts a wrapper again whose thread has returned.
CONSTANTS
  MaxStarts = 2
SPECIFICATION Spec
INVARIANTS
  Reusable
CHECK_DEADLOCK FALSE
