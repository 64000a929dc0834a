\* A keyless installation looks up a payment: only one vendor can be asked.
CONSTANTS
  alchemy = alchemy
  quicknode = quicknode
  public = public
  rpc = rpc
  r1 = r1
  r2 = r2
  t1 = t1
  t2 = t2
  Vendor = {alchemy, quicknode, public}
  Composite = {}
  Request = {r1}
  Table = {t1}
  Order <- ThreeOrder
  Usable <- KeylessUsable
  Limit <- Unlimited
  Throttled = {}
  Key = {"answer"}
  AnswerKind = {"not_found", "transient"}
  Mode = {"confirm"}
  Wanted = 1
  Retries = 0
  MayCancel = FALSE
  MaxOrder = 3
  UsedBound = 0
  Threshold = 2
  Cooldown = 2
  RateMark = 1
  QuotaMark = 3
  HeaderMark = 1
  Delay = {}
SPECIFICATION Spec
INVARIANTS
  NotFoundByTwo
