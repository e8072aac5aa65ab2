SPECIFICATION Spec
CONSTANTS
  Publics = {g1}
  NoPublic = NoPublic
  Privates = {p1}
  MaxFrames = 1
  EventCapacity = 1
  MaxChanges = 1
CHECK_DEADLOCK FALSE
INVARIANTS
  WholeFramesAreRead
