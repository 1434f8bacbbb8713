\* The class on its own: several threads on both sides, clear() and spurious
\* wakeups.
CONSTANTS
  cap = 2
  Producers = {p1, p2, p3}
  Consumers = {c1, c2}
  Items = {a, b}
  None = None
  CanClear = TRUE
  MaxSpurious = 1
SPECIFICATION Spec
SYMMETRY Symmetry
INVARIANTS
  TypeOK
  OverrunBound
PROPERTIES
  ImplementsChannel
\* With clear() everyone may wait for a notification that nobody will send.
CHECK_DEADLOCK FALSE
