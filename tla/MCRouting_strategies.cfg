\* Every strategy over three vendors, one of them composite, with retries and a reload that reorders them.
CONSTANTS
  alchemy = alchemy
  quicknode = quicknode
  public = public
  rpc = rpc
  r1 = r1
  r2 = r2
  t1 = t1
  t2 = t2
  Vendor = {alchemy, quicknode, rpc}
  Composite = {rpc}
  Request = {r1}
  Table = {t1, t2}
  Order <- ReloadOrder
  Usable <- ReloadUsable
  Limit <- Unlimited
  Throttled = {quicknode}
  Key = {"x", "y"}
  AnswerKind = {"transient", "unsupported", "not_found", "invalid", "fatal", "rate_limited", "quota_exhausted"}
  Mode = {"failover", "confirm", "quorum", "aggregate", "fan_out", "peek"}
  Wanted = 2
  Retries = 1
  MayCancel = FALSE
  MaxOrder = 3
  UsedBound = 0
  Threshold = 1
  Cooldown = 0
  RateMark = 0
  QuotaMark = 1
  HeaderMark = 0
  Delay = {}
SPECIFICATION FairSpec
INVARIANTS
  CompositeNeverBlocked
  FailoverHonest
  CollectsWhatItWants
PROPERTIES
  RequestsReturn
