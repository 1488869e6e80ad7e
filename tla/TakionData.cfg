\* A clean network and one that damages; the sequence numbers wrap on the way.
SPECIFICATION Spec
CONSTANTS
  SeqHalf = 8
  QSize = 4
  NoUser = NoUser
  Messages = 5
  FirstSeq = 13
  Bang = 2
  MaxDamaged = 1
PROPERTIES ImplementsChannel EverythingFired NothingDamagedFired
\* The console may have sent everything and got every ack.
CHECK_DEADLOCK FALSE
