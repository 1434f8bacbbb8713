\* One producer and one consumer, and a wakeup for no reason.
CONSTANTS
  cap = 2
  Producers = {p1}
  Consumers = {c1}
  Items = {a, b}
  None = None
  CanClear = FALSE
  MaxSpurious = 1
SPECIFICATION Spec
INVARIANTS
  WithinCapacity
CHECK_DEADLOCK FALSE
