SPECIFICATION Spec
CONSTANTS
  Cap = 2
  NL = NL
  x1 = x1
  x2 = x2
  Writers = {w1, w2}
  Readers = {g1}
  Nobody = Nobody
  Payloads <- Strings
  Limits = {0, 1, 3}
  MaxWrites = 3
INVARIANTS TypeOK RingHoldsNewest ServedWhole RingFollowsStdout
