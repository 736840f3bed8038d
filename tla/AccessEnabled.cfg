SPECIFICATION AccessSpec
CONSTANTS
  h1 = h1
  h2 = h2
  x1 = x1
  x2 = x2
  x3 = x3
  y1 = y1
  y2 = y2
  v1 = v1
  e1 = e1
  here = here
  there = there
  this = this
  that = that
  old = old
  new = new
  Handlers = {h1, h2}
  Sids = {x1, x2, x3}
  Contexts <- Places
  AdminMode = FALSE
  Inactivity = 2
  Lifetime = 3
  PendingAge = 1
  MaxClock = 4
  Visitors = {v1}
  Emails = {e1, e2}
  Names = {n1, n2}
  Bindings = {y1, y2}
  Reads <- Mailboxes
  RequestLimit = 1
  MaxTries = 2
  Secrets = {y1, y2}
  RecoveryCodes = {x1, x2, x3}
  CodeCount = 1
  Passwords = {p1, p2, p3, p4}
  Keep = 2
  LoginWindow = 1
  RiskWindow = 0
  MaxStep = 3
  Links = {y1, y2}
  ResetBrowsers = {b1}
  FailureLimit = 2
  MaxResets = 2
INVARIANT EnabledHasSecret
CHECK_DEADLOCK FALSE
