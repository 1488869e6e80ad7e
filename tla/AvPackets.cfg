\* Key positions 0..17 with 8 of them named by a packet, so that the low half turns
\* twice, and a ring of three chunks of two blocks that the requests outrun; or six
\* video packets of three-unit frames through a ring of four, wrapping on the way; or
\* five audio packets that repeat two frames each, from a number where the indices
\* wrap or from the very first.
SPECIFICATION SpecAv
CONSTANTS
  Block = 2
  ChunkBlocks = 2
  Chunks = 3
  KeyHalf = 4
  Refresh = 5
  MaxPos = 17
  MaxLen = 2
  MaxPending = 1
  SeqHalf = 8
  QSize = 4
  NoUser = NoUser
  LastVideo = 6
  FirstIndex = 13
  Units = 3
  PostponeSize = 2
  Timeout = 1
  Off = Off
  LastAudio = 5
  FirstFrames = {0, 13}
  Source = 1
  Fec = 2
  Prefill = 3
  BufferSize = 8
  NoCall = NoCall
  Concealed = Concealed
INVARIANTS RightStream RingIsStream NearAccepted SoundArrives
PROPERTIES RingCatchesUp SingleTimeout NobodyStuck
\* The frame counts end, and the key stream may be dropped.
CHECK_DEADLOCK FALSE
