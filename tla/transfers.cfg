SPECIFICATION Spec
CONSTANTS
  Users = {1, 2}
  Requests = {r1, r2, r3}
  k1 = k1
  k2 = k2
  Keys = {k1, k2}
  BadKey = BadKey
  Null = Null
  Calls <- TransferCalls
  Seed = 2
  Windows = {1}
  Window = 1
  MaxConns = 2
  MaxInt64 = 3
  MaxClock = 0
SYMMETRY Symmetry
INVARIANTS TypeOK BalancesReconcile RetriesAgree CreatedOnce NoStandstill
PROPERTIES RejectionMeansUnused LedgerSpec OnlyForward UnavailableExplained
