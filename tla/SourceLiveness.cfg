\* One client thread, two subscribers that read until they are terminated.
CONSTANTS
  cap = 1
  Subscribers = {s1, s2}
  Clients = {c1}
  IdSpace = 1
SPECIFICATION FairSourceSpec
PROPERTIES
  CallReturns
  StopEndsReader
CHECK_DEADLOCK FALSE
