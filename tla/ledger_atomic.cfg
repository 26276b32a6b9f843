SPECIFICATION FairSpec
CONSTANTS
  None = None
  s1 = s1
  s2 = s2
  s3 = s3
  u1 = u1
  u2 = u2
  i1 = i1
  i2 = i2
  p1 = p1
  p2 = p2
  d1 = d1
  d2 = d2
  User = {u1, u2}
  Session = {s1, s2}
  Intent = {i1}
  Promo = {p1, p2}
  Date = {d1}
  CreditPromos = {p1}
  Kinds = {"register", "create_payment", "confirm", "fail", "cancel", "refund", "bot_redeem", "bot_top_up", "adjust", "debit"}
  Amounts = {2}
  WelcomeBonus = 1
  GenerationCost = 1
  MaxTransactions = 4
  Value <- MCValue
  ValidUntil <- MCOneDate
  MaxActivations <- MCMaxActivations
INVARIANTS
  TypeOK
  NonNegativeBalance
  SettledWasCredited
  LedgerChain
  PromoPaidOnce
  ActivationsCounted
  DiscountWasRedeemed
PROPERTIES
  RefinesAtomicLedger
  EveryRequestEnds
CHECK_DEADLOCK FALSE
