\* Two operators at once, no requests: the records on disk and in memory.
CONSTANTS
  c1 = c1
  c2 = c2
  a1 = a1
  a2 = a2
  q1 = q1
  q2 = q2
  tight = tight
  standard = standard
  Client = {c1, c2}
  Admin = {a1, a2}
  Request = {}
  Limits = {standard, tight}
  None = standard
  Daily <- DailyOf
  Monthly <- MonthlyOf
  MaxSpend = 0
  Ops = {"create", "revoke", "limits"}
  Orphan = orphan
  MayFail = TRUE
  QueueBound = 1
  StopBound = 1
SPECIFICATION Spec
SYMMETRY Symmetry
INVARIANTS
  RevocationDurable
  IssuedKeyWorks
PROPERTIES
  DirectorySpec
