\* Two subscribers and two client threads against the read thread.
CONSTANTS
  cap = 1
  Subscribers = {s1, s2}
  Clients = {c1, c2}
  IdSpace = 2
SPECIFICATION SourceSpec
SYMMETRY Symmetry
INVARIANTS
  TypeOK
  ListWalk
  InLockStep
  WaitsForFullQueue
PROPERTIES
  NoGap
  OnlyListedGain
  RestartMutes
  StopMutes
  ImplementsBroadcast
\* The read thread may have ended and nobody have a packet left to read.
CHECK_DEADLOCK FALSE
