SPECIFICATION OfficeSpec
CONSTANTS
  h1 = h1
  h2 = h2
  x1 = x1
  x2 = x2
  y1 = y1
  y2 = y2
  z1 = z1
  z2 = z2
  k1 = k1
  l1 = l1
  Handlers = {h1, h2}
  Invites = {x1, x2}
  Browsers = {y1, y2}
  MaxStarts = 2
  MaxVerify = 2
  Cases = {x1, x2}
  Reporters = {y1, y2}
  Reviewers = {z1, z2}
  Payments = {p1}
  DailyLimit = 1
  Limit = 2
  MaxRows = 3
  MaxCount = 3
  Windows = {1, 2}
  MaxClock = 3
  Sources = {x1, x2}
  Period = 2
  DedupeTtl = 2
  BurstLimit <- Bursts
  MaxTime = 7
  MaxEvents = 2
  MaxRowsSeen = 3
  People = {u1, u2}
  Keks = {k1, k2}
  Seeds = {s1, s2, s3}
  LedgerRows = {r1, r2, r3}
  LedgerKeys = {l1, l2}
PROPERTY RewrapKeepsSecret
CHECK_DEADLOCK FALSE
