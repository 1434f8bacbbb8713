\* The program with a queue of two packets. "quit" may come at any time.
CONSTANTS
  cap = 2
  Main = main
  Counter = frameCounter
  Clients = {main}
  Subscribers = {frameCounter}
  IdSpace = 3
SPECIFICATION FairSpec
INVARIANTS
  ProgramTypeOK
  StuckOnlyWithoutDecoder
  DecodeWhileOpen
  ThreadsEndFirst
PROPERTIES
  QuitEnds
  DecodesInOrder
\* The program ends, or hangs where ReaderIsStuck.
CHECK_DEADLOCK FALSE
