SPECIFICATION PoolSpec
CONSTANTS
  Users = {u1, u2, u3, u4, u5}
  Permits = 2
  Planes = {"lna", "wt"}
SYMMETRY UserSymmetry
CHECK_DEADLOCK FALSE
INVARIANTS
  NeverExhausted
