\* Both strategies; two transmissions of every number; a ring of four in a space of 16.
SPECIFICATION SpecQueue
CONSTANTS
  SeqHalf = 8
  QSize = 4
  NoUser = NoUser
  Copies = {c1, c2}
SYMMETRY Symmetry
INVARIANTS InPlace ClosedFormsAreTheLoops
PROPERTIES NothingLost NeverBack
