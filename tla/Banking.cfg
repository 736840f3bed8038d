SPECIFICATION BankingSpec
CONSTANTS
  h1 = h1
  h2 = h2
  x1 = x1
  x2 = x2
  y1 = y1
  y2 = y2
  Handlers = {h1, h2}
  Accounts = {a1}
  PayeeIds = {x1, x2}
  Tokens = {y1, y2}
  Cooldown = 1
  PendingTtl = 1
  MaxTime = 2
  Emails = {e1, e2, e3}
  Phones = {p1, p2}
  HomeEmail = e1
  HomePhone = p1
  Readable = {e1, e2}
  Codes = {x1, x2}
  Recipients = {r1}
  PayTokens = {y1, y2}
  AttemptLimit <- Attempts
  ChallengeTtl = 1
  LookupTtl = 0
  ConfirmTtl = 0
  QuietTime = 0
  MaxAge = 1
  MaxTick = 2
  Ttl = 3
  RequestTime = 1
  MaxNow = 6
  Browsers = {x1, x2}
  DeviceTokens = {y1, y2, t3}
  DeviceAge = 1
  MaxDay = 2
  Threshold = 2
  OpenTime = 1
  MaxFailures = 4
  MaxHour = 3
SYMMETRY Alike
INVARIANTS
  BankingTypeOK LedgerAsConfirmed ContactProved PayupPolicyHeld
  FirstUseUnlessSwept KnownMeansTold 
CHECK_DEADLOCK FALSE
