\* The configuration under edits, failures and crashes; calls under edits; calls on a full
\* cache with restarts; the quota engine.
CONSTANTS
  unset = unset
  torn = torn
  missing = missing
  keep = keep
  reload = reload
  Path <- MCPath
  SecretPath = {"key"}
  Value = {"old", "new", "bad", "short", "off", "no", "astray"}
  Bad = {"bad"}
  Unset = unset
  Torn = torn
  Missing = missing
  Keep = keep
  Env <- MCEnv
  Conflicts <- MCConflicts
  Admin = {a1, a2}
  Nobody = nobody
  Reload = reload
  EditSets <- MCEditSets
  HandTexts <- MCHandTexts
  Starts <- MCStarts
  Caller = {c1, c2}
  Question = {q1, q2, q3}
  Endpoint = {"public", "astray"}
  Wrong = {"astray"}
  Default = "public"
  Seconds <- MCSeconds
  Cap = 2
  Nothing = nothing
  Poller = {p1, p2}
  AlertAt = {1}
  Effective = 1
  Limit = 2
  MaxUsed = 2
  LastDay = 1
  MaxPolls = 2
SPECIFICATION Spec
SYMMETRY Symmetry
INVARIANTS
  ConfigDurable
  AnswersHonest
  NeverUnderCounted
PROPERTY
  EvictsSoonest
