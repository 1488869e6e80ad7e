\* The manager is said to have at most one active session.
SPECIFICATION Spec
CONSTANTS
  Attempts = 2
  Remote = {}
INVARIANT AtMostOneActive
CHECK_DEADLOCK FALSE
