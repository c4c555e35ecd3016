\* One intent, two concurrent workers, two bank records, a crash.
CONSTANTS
  Intents = {i1}
  Banks = {b1, b2}
  Workers = {w1, w2}
  None = None
  Receipt = Receipt
  Bases = {20000}
  MinRial = 10000
  Percent = 50
  MaxUses = 1
  Items = 2
  TestGateways = FALSE
  PaymentsEnabled = TRUE
  CredsOK = TRUE
  LegacyCallback = TRUE
  MaxSettlements = 1
  MaxCrashes = 1
SPECIFICATION Spec
SYMMETRY Symmetry
INVARIANTS
  TypeOK
  GroupEnrolledOnce
  FirstAndLastResolve
PROPERTIES
  SettlesUnpaid
  PaidLostToEarlierOnly
CHECK_DEADLOCK FALSE
