\* Failover over two vendors leaves the probe of the second unused.
CONSTANTS
  alchemy = alchemy
  quicknode = quicknode
  public = public
  rpc = rpc
  r1 = r1
  r2 = r2
  t1 = t1
  t2 = t2
  Vendor = {alchemy, quicknode}
  Composite = {}
  Request = {r1}
  Table = {t1}
  Order <- PairOrder
  Usable <- AllUsable
  Limit <- Unlimited
  Throttled = {}
  Key = {"answer"}
  AnswerKind = {"transient"}
  Mode = {"failover"}
  Wanted = 1
  Retries = 0
  MayCancel = FALSE
  MaxOrder = 2
  UsedBound = 0
  Threshold = 1
  Cooldown = 2
  RateMark = 1
  QuotaMark = 1
  HeaderMark = 1
  Delay = {}
SPECIFICATION FairSpec
PROPERTIES
  ProbeSettles
