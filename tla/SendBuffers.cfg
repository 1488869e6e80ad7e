\* Takion: two threads send, one send fails, the buffer overflows, acks overtake the
\* adding.  RUDP: four troubles, and four messages that pass half of the counters.
SPECIFICATION SpecEither
CONSTANTS
  SeqHalf = 4
  Senders = {t1, t2}
  Messages = 3
  FirstSeq = 7
  BufferSize = 2
  TriesMax = 1
  ResendTimeout = 1
  MaxLag = 1
  MaxFailures = 1
  None = None
  RudpHalf = 5
  FirstCounter = 2
  Tries = 3
  MaxTroubles = 4
  RudpMessages = 4
  RudpBufferSize = 3
  RudpTriesMax = 1
  RudpFailures = 1
INVARIANTS LateAnswersAreOutlived NeitherForgets
PROPERTY BufferDrains
\* Everything may have been sent and acknowledged or given up.
CHECK_DEADLOCK FALSE
