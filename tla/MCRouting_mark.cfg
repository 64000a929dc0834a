\* A rate limit answered concurrently replaces the mark of an exhausted quota.
CONSTANTS
  alchemy = alchemy
  quicknode = quicknode
  public = public
  rpc = rpc
  r1 = r1
  r2 = r2
  t1 = t1
  t2 = t2
  Vendor = {alchemy}
  Composite = {}
  Request = {r1, r2}
  Table = {t1}
  Order <- SoleOrder
  Usable <- AllUsable
  Limit <- Unlimited
  Throttled = {}
  Key = {"answer"}
  AnswerKind = {"rate_limited", "quota_exhausted"}
  Mode = {"failover"}
  Wanted = 1
  Retries = 0
  MayCancel = FALSE
  MaxOrder = 1
  UsedBound = 0
  Threshold = 2
  Cooldown = 2
  RateMark = 1
  QuotaMark = 3
  HeaderMark = 1
  Delay = {}
SPECIFICATION Spec
INVARIANTS
  MarkedUntilReset
