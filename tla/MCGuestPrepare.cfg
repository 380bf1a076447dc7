SPECIFICATION FairSpec
CONSTANTS
  Procs = {p1, p2}
  Dir = {repo, lab}
  Repo = repo
  Source = {s1, s2}
  MaxActs = 3
  MaxFaults = 1
  None = None
CHECK_DEADLOCK FALSE
INVARIANTS TypeOK RunsOwnBinary ServesOwnDirectories
PROPERTIES SomeoneIsServed RetryServes
