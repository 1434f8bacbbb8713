\* A codec that keeps two packets, three packets read, two Opens.
CONSTANTS
  DEFAULT_PACKET_CAPACITY = 3
  IntHalf = 2
  MaxHeld = 2
  MaxReads = 3
  MaxOpens = 2
  AVPackets <- Kinds
SPECIFICATION Spec
INVARIANTS
  TypeOK
  CodecGetsWhatWasRead
  MarksSurvive
  EmptiedBetweenCalls
  TrueMeansGiven
  LeakedByFailure
PROPERTIES
  OnceInOrder
  FrameReachesCallback
\* All packets are read and the decoder is closed.
CHECK_DEADLOCK FALSE
