\* Three messages of the console, in every order it may send them.
SPECIFICATION Spec
CONSTANT MaxMessages = 3
INVARIANTS NothingAfterQuit PinsAnswerPrompts
PROPERTY AskedEnds
\* The session may be over, or wait for the user's PIN.
CHECK_DEADLOCK FALSE
