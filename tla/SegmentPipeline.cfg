SPECIFICATION FairSpec
CONSTANTS
  BlocksPerSegment = 3
  Depths = {1, 2}
INVARIANTS
  CommittedIsWhole
  BuffersAccounted
PROPERTIES
  BothHalvesEnd
  LeaseLife
