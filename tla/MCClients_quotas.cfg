\* One client, one operator, two requests: revocation as requests see it, and the counters.
CONSTANTS
  c1 = c1
  c2 = c2
  a1 = a1
  a2 = a2
  q1 = q1
  q2 = q2
  tight = tight
  standard = standard
  Client = {c1}
  Admin = {a1}
  Request = {q1, q2}
  Limits = {standard, tight}
  None = standard
  Daily <- DailyOf
  Monthly <- MonthlyOf
  MaxSpend = 1
  Ops = {"revoke", "limits"}
  Orphan = orphan
  MayFail = TRUE
  QueueBound = 1
  StopBound = 1
SPECIFICATION Spec
SYMMETRY Symmetry
INVARIANTS
  TypeOK
  RevokedRefused
  CountersAccounted
  DailyQuotaKept
  CreditsOvershootBounded
