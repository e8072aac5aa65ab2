SPECIFICATION Spec
CONSTANTS
  Transfers = {t1, t2}
  NoTransfer = NoTransfer
  Sources = {f1}
  NoSource = NoSource
  NumSegments = 1
  BlocksPerSegment = 1
  NumConnections = 1
  LanesPerConnection = 1
  HttpParallelism = 2
  MaxSelected = 1
  Kinds = {"send", "receive"}
  Planes = {"lna", "wt"}
  Lapses = {"idle"}
SYMMETRY TransferSymmetry
INVARIANTS
  ExitIsClean
  CompletionIsExclusive
  ReservedIffLeased
PROPERTIES
  ContractKept
