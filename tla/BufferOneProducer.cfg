\* The buffer as the program uses it: one thread pushes (the read thread of
\* AVPacketSource), one pops (the read thread of FrameCounter).
CONSTANTS
  cap = 3
  Producers = {p1}
  Consumers = {c1}
  Items = {a, b, c}
  None = None
  CanClear = FALSE
  MaxSpurious = 0
SPECIFICATION FairSpec
INVARIANTS
  WithinCapacity
  NoStrandedProducer
PROPERTIES
  ImplementsFairChannel
  PushReturns
