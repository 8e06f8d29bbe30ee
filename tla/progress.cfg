SPECIFICATION FairSpec
CONSTANTS
  Users = {1, 2}
  Requests = {r1, r2, r3}
  k1 = k1
  k2 = k2
  Keys = {k1, k2}
  BadKey = BadKey
  Null = Null
  Calls <- FairCalls
  Seed = 1
  Windows = {1}
  Window = 1
  MaxConns = 1
  MaxInt64 = 10
  MaxClock = 0
PROPERTY EveryRequestEnds
