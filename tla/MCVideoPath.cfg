\* Four frames across the turn of the 16-bit numbers, cut with and without FEC units,
\* two profiles; any unit may be lost and any answer of the surroundings may come.
SPECIFICATION Spec
CONSTANTS
  SeqHalf = 5
  Frames = 4
  FirstFrame = 8
  Shapes <- MCShapes
  References = {0}
  RefSlots = 3
  NoReference = 255
  Profiles = {0, 1}
  BadProfile = 9
INVARIANTS DecoderIsServed MissingIsReported UnitsCountedOnce
\* The console has sent its frames.
CHECK_DEADLOCK FALSE
