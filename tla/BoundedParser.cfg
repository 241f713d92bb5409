SPECIFICATION FairSpec
CONSTANTS
  t1 = t1
  t2 = t2
  t3 = t3
  Task = {t1, t2, t3}
  Workers = 2
INVARIANTS PermitAccounting AdmittedIsAccepted CloseWakesCallers
PROPERTIES NoLateValue EveryCallReturns CapacityReturns
\* After close() dropped queued work its permits are gone and the parser stops for good.
CHECK_DEADLOCK FALSE
