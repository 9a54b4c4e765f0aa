SPECIFICATION Spec
CONSTANTS
  m1 = m1  m2 = m2  m3 = m3  a1 = a1  a2 = a2  w1 = w1  w2 = w2  c1 = c1  c2 = c2
  g1 = g1  g2 = g2
  None = None
  Msgs = {m1, m2}
  Accounts = {a1}
  Workers = {w1, w2}
  Clients = {}
  Ops = {}
  MaxDeliver = 1
  Rcpts <- TwoMailsOneRcpt
  Size <- SizesTwoOne
  Quota <- QuotaTwo
  Content <- AllOk
  Faults = {}
  Collectors = {}
  Rank <- AnyRank
  PageSize = 1  MaxDeletes = 1  LockTTL = 2  RunBudget = 1  MaxFailures = 0
INVARIANT LiveWithinQuota
CHECK_DEADLOCK FALSE
