\* Three messages of the console, in every order it may send them; sizes 4 .. 7,
\* two attempts and two troubles, so that they can and cannot be outlived. Each OFFER of
\* a remote console may be repeated once; PSN or the console may end it. One attempt of
\* the wizard, and a console that a stream registers, with a key of its own.
SPECIFICATION SpecAll
CONSTANTS
  MaxMessages = 3
  StopInCallback = FALSE
  MtuMin = 4
  MtuMax = 7
  Retries = 2
  Pings = 2
  MaxTroubles = 2
  Dropped = Dropped
  Repeats = 1
  Quits = TRUE
  Consoles = {c1}
  Keys = {1, 2}
  Missing = FALSE
  Attempts = 1
INVARIANTS ConnectedMeansReady JoinedByRun MtuIsThePaths HoleIsAgreed NoOfferLost ProfileKept
PROPERTIES RunEnds CancelEndsBoth
\* run() may have returned, or wait for the console in the idle state.
CHECK_DEADLOCK FALSE
