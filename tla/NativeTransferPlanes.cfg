SPECIFICATION FairSpec
CONSTANTS
  Transfers = {t1}
  NoTransfer = NoTransfer
  Sources = {f1}
  NoSource = NoSource
  NumSegments = 3
  BlocksPerSegment = 1
  NumConnections = 2
  LanesPerConnection = 2
  HttpParallelism = 2
  MaxSelected = 1
  Kinds = {"send", "receive"}
  Planes = {"lna", "wt"}
  Lapses = {}
INVARIANTS
  InstalledIsWhole
  PartHasOwner
PROPERTIES
  InstalledIsFrozen
  OnlyPeersKeepHandle
  BridgeEndStopsAgent
