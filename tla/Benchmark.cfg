SPECIFICATION FairSpec
CONSTANTS
  LaneCount = 2
  BlockSize = 2
  ExtentSize = 2
  Totals = {1, 5, 6}
  MaxTransferSize = 5
  Tokens = {"t1"}
  Requests = {"q1", "q2"}
  RequestSizes = {1, 2}
  ActiveLimit = 1
  MaxPending = 1
INVARIANTS
  AcceptedIsWhole
  OneTicketOneTransfer
PROPERTIES
  BenchmarkEnds
