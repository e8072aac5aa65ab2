SPECIFICATION FairSpec
CONSTANTS
  Publics = {g1}
  NoPublic = NoPublic
  Privates = {p1}
  MaxFrames = 1
  EventCapacity = 1
  MaxChanges = 2
CHECK_DEADLOCK FALSE
INVARIANTS
  PublicOnlyAuthorized
PROPERTIES
  EndpointsConverge
