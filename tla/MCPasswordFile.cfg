\* Three processes start while two others reset the password, in every directory.
CONSTANTS
  Starter = {s1, s2, s3}
  Resetter = {r1, r2}
  Old = old
  Short = short
  Unsendable = unsendable
  None = none
SPECIFICATION Spec
SYMMETRY Symmetry
CHECK_DEADLOCK FALSE
INVARIANTS
  TypeOK
  SamePassword
  ResetStays
  MigrationKeepsPassword
  StartSucceeds
  NoBackupLeft
