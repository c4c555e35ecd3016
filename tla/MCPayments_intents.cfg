\* Two intents that share the code and may name one group, two workers,
\* callbacks that name either intent.
CONSTANTS
  Intents = {i1, i2}
  Banks = {b1}
  Workers = {w1, w2}
  None = None
  Receipt = Receipt
  Bases = {20000}
  MinRial = 10000
  Percent = 50
  MaxUses = 1
  Items = 2
  TestGateways = FALSE
  PaymentsEnabled = TRUE
  CredsOK = TRUE
  LegacyCallback = TRUE
  MaxSettlements = 1
  MaxCrashes = 0
SPECIFICATION Spec
SYMMETRY Symmetry
INVARIANTS
  PaidIsBacked
  NeverOvercounts
CHECK_DEADLOCK FALSE
