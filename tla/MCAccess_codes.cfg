\* One phone, two workers, two codes of two minutes, one wrong entry.
CONSTANTS
  p1 = p1
  u1 = u1
  Phones = {p1}
  Codes = {1, 2}
  Workers = {1, 2}
  Users = {u1}
  Accounts <- MCAccounts
  Waiting <- MCWaiting
  Minutes = 2
  MaxTypos = 1
  None = None
SPECIFICATION Spec
INVARIANTS
  TwoCodesOverlap
PROPERTIES
  ResetLogsIn
  EveryoneGetsThrough
CHECK_DEADLOCK FALSE
