\* One part moves. Feedback: three changes of a controller with two keys, one event is
\* repeated, a queue of one packet overflows, any two packets are lost. Sessions: two
\* attempts, the first over PSN. Sound: pushes of up to nine samples into a ring of
\* eight. Microphone: frames of two samples in a ring of two frames, muted once.
\* Consoles: three, one at two addresses, and a list of two. Pictures: three frames, two of them intra, through
\* a slot of two, on every path to the screen.
SPECIFICATION SpecClient
CONSTANTS
  Sticks = {centre, left}
  Keys = {cross, circle}
  QueueSize = 1
  BufSize = 2
  Resend = 1
  Calls = 3
  Losses = 2
  Attempts = 2
  Remote = {1}
  Buffer = 1
  Sizes = {1, 3, 9}
  Periods = {1, 3}
  LastSample = 11
  Frame = 2
  RingFrames = 2
  MicSizes = {1, 3}
  LastCaptured = 7
  Mutes = 1
  Consoles = {c1, c2, c3}
  Roaming = {c1}
  HostsMax = 2
  DropPings = 1
  Frames = 3
  Intra = {1, 3}
  SlotSize = 2
  Gpus = {"none", "d3d11", "cuda"}
INVARIANTS InputArrives SoundInOrder
PROPERTIES ConsoleFollows NothingAfterDone StopCompletes DrainsServe ConsolesFollow
           NeverBack PictureFollows
\* The sender, the sound and the microphone may be dropped, and the user goes away.
CHECK_DEADLOCK FALSE
