SPECIFICATION QuietSpec
CONSTANTS
  Users = {1, 2, 3}
  Requests = {r1, r2, r3, r4}
  k1 = k1
  k2 = k2
  Keys = {k1, k2}
  BadKey = BadKey
  Null = Null
  Calls <- RingCalls
  Seed = 1
  Windows = {1}
  Window = 1
  MaxConns = 4
  MaxInt64 = 10
  MaxClock = 0
SYMMETRY Symmetry
INVARIANT NoDeadlock
