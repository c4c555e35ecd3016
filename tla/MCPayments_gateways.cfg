\* Two workers, all ways to pay: test gateways, free registrations, the bank,
\* and the gateway callback.
CONSTANTS
  Intents = {i1, i2}
  Banks = {b1}
  Workers = {w1, w2}
  None = None
  Receipt = Receipt
  Bases = {0, 20000}
  MinRial = 10000
  Percent = 50
  MaxUses = 1
  Items = 2
  TestGateways = TRUE
  PaymentsEnabled = TRUE
  CredsOK = TRUE
  LegacyCallback = TRUE
  MaxSettlements = 1
  MaxCrashes = 0
SPECIFICATION Spec
SYMMETRY Symmetry
PROPERTIES
  ImplementsContract
CHECK_DEADLOCK FALSE
