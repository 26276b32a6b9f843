SPECIFICATION Spec
CONSTANTS
  None = None
  t1 = t1
  t2 = t2
  t3 = t3
  Transaction = {t1}
  Kinds = {"activate", "expire_due"}
  PAID_SUBSCRIPTION_DURATION = 2
  MaxPeriods = 2
  MaxTime = 3
INVARIANTS
  ActiveIsPaid
CHECK_DEADLOCK FALSE
