\* Two operators at once and one client: the violated promise of a revocation.
CONSTANTS
  c1 = c1
  c2 = c2
  a1 = a1
  a2 = a2
  q1 = q1
  q2 = q2
  tight = tight
  standard = standard
  Client = {c1}
  Admin = {a1, a2}
  Request = {}
  Limits = {standard, tight}
  None = standard
  Daily <- DailyOf
  Monthly <- MonthlyOf
  MaxSpend = 0
  Ops = {"revoke", "limits"}
  Orphan = orphan
  MayFail = FALSE
  QueueBound = 1
  StopBound = 0
SPECIFICATION Spec
SYMMETRY Symmetry
INVARIANTS
  RevokedRefused
