SPECIFICATION Spec
CONSTANTS
  None = None
  t1 = t1
  t2 = t2
  t3 = t3
  Transaction = {t1, t2}
  Kinds = {"activate", "expire_due", "admin_expire"}
  PAID_SUBSCRIPTION_DURATION = 1
  MaxPeriods = 3
  MaxTime = 2
SYMMETRY MCSymmetry
INVARIANTS
  TypeOK
  PaidIsSubscribed
PROPERTIES
  PeriodRunsOut
CHECK_DEADLOCK FALSE
