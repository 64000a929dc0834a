\* Two concurrent requests for one vendor, with retries, local rate limits and clients that
\* disconnect: the breaker, its probes and the reserve.
CONSTANTS
  alchemy = alchemy
  quicknode = quicknode
  public = public
  rpc = rpc
  r1 = r1
  r2 = r2
  t1 = t1
  t2 = t2
  Vendor = {alchemy}
  Composite = {}
  Request = {r1, r2}
  Table = {t1}
  Order <- SoleOrder
  Usable <- AllUsable
  Limit <- CappedFirst
  Throttled = {alchemy}
  Key = {"answer"}
  AnswerKind = {"transient", "fatal", "not_found", "quota_exhausted"}
  Mode = {"failover"}
  Wanted = 1
  Retries = 1
  MayCancel = TRUE
  MaxOrder = 1
  UsedBound = 8
  Threshold = 2
  Cooldown = 2
  RateMark = 1
  QuotaMark = 1
  HeaderMark = 1
  Delay = {2}
SPECIFICATION FairSpec
INVARIANTS
  TypeOK
  BreakerCountsFailures
  OvershootBounded
PROPERTIES
  FullCooldownBeforeProbe
  SentProbeReports
