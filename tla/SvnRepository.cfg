SPECIFICATION FairSpec
CONSTANTS
  MaxPieces = 2
  StdoutLimit = 1
  PipeSize = 1
  Ranges = {"local", "span"}
  Kinds = {"changed", "unversioned"}
  MaxEdits = 1
  SourceItems = 2
  SourceLimit = 2
  PatchItems = 1
  PatchLimit = 1
  PreviewItems = 1
  PreviewLimit = 2
  MaxDiffSessions = 1
INVARIANTS
  AnswerIsWhole
  NoChildLeft
  CachesAccounted
  FreshAfterRefresh
PROPERTIES
  OperationEnds
