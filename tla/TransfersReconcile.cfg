SPECIFICATION MCSpec
CONSTANTS
  r1 = r1
  r2 = r2
  t1 = t1
  t2 = t2
  t3 = t3
  t4 = t4
  Free = Free
  Accounts <- TwoAccounts
  Requests = {r1, r2}
  Tokens = {t1, t2, t3, t4}
  Order <- Mixed
  Opening <- OpenTwo
  Limits <- TwoOrThree
  DefaultLimit <- Three
  QuickCap = 2
  QuickDailyCap = 2
  MaxDay = 1
INVARIANT BalancesReconcile
CHECK_DEADLOCK FALSE
