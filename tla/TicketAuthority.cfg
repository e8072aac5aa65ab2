SPECIFICATION Spec
CONSTANTS
  Callers = {c1, c2}
  Tokens = {k1, k2, k3}
  LaunchToken = LaunchToken
  WrongToken = WrongToken
  MaxPending = 2
  TTL = 1
  LaunchExpiry = 1
  MaxTime = 2
SYMMETRY TicketSymmetry
INVARIANTS
  AcceptedAtMostOnce
PROPERTIES
  OthersAreKept
  RefusedOnlyWhenFull
  PromiseKept
