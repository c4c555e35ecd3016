\* One worker: the gateway callback reopens a paid intent.
CONSTANTS
  Intents = {i1}
  Banks = {b1, b2}
  Workers = {w1}
  None = None
  Receipt = Receipt
  Bases = {20000}
  MinRial = 10000
  Percent = 50
  MaxUses = 1
  Items = 2
  TestGateways = FALSE
  PaymentsEnabled = TRUE
  CredsOK = TRUE
  LegacyCallback = TRUE
  MaxSettlements = 1
  MaxCrashes = 1
SPECIFICATION Spec
INVARIANTS
  SettledOnce
CHECK_DEADLOCK FALSE
