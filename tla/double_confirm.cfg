SPECIFICATION Spec
CONSTANTS
  None = None
  s1 = s1
  s2 = s2
  s3 = s3
  u1 = u1
  u2 = u2
  i1 = i1
  i2 = i2
  p1 = p1
  p2 = p2
  d1 = d1
  d2 = d2
  User = {u1}
  Session = {s1, s2}
  Intent = {i1}
  Promo = {p1, p2}
  Date = {d1, d2}
  CreditPromos = {p1}
  Kinds = {"register", "create_payment", "confirm"}
  Amounts = {2}
  WelcomeBonus = 1
  GenerationCost = 1
  MaxTransactions = 5
  Value <- MCValue
  ValidUntil <- MCValidUntil
  MaxActivations <- MCMaxActivations
SYMMETRY MCSymmetry
INVARIANTS
  CreditedAtMostOnce
CHECK_DEADLOCK FALSE
