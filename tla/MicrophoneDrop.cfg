\* The drop of the microphone is said to join its drain thread.
SPECIFICATION Spec
CONSTANTS
  Frame = 2
  RingFrames = 2
  Sizes = {1, 3}
  LastSample = 3
  Mutes = 1
PROPERTY DropEnds
CHECK_DEADLOCK FALSE
