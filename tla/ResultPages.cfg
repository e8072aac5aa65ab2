SPECIFICATION FairPages
CONSTANTS
  Listings = {"svn", "git", "files"}
  MaxEntries = 3
  MaxLimit = 4
  PageLimit = 3
  FetchLimit = 3
  Sizes = {1, 3}
  Budget = 2
  FrameLimit = 3
INVARIANTS
  EachShownOnce
PROPERTIES
  ReadingEnds
