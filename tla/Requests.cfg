SPECIFICATION RequestsSpec
CONSTANTS
  t1 = t1
  t2 = t2
  t3 = t3
  Tokens = {t1, t2}
  HttpRequests = {r1, r2}
  Steps = {s1, s2}
  Wrong = Wrong
  MaxFailures = 2
  Nobody = Nobody
  NotLoaded = NotLoaded
INVARIANTS CodeBuysOneCredit
PROPERTIES NeverReopened EveryRequestEnds
CHECK_DEADLOCK FALSE
