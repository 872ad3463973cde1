SPECIFICATION FairSpec
CONSTANTS
  Process = {p1, p2}
  Stale = 4
  Slack = 2
  MaxDelay = 1
INVARIANTS
  TypeOK NoIntrusion FailsOnlyIfContended
PROPERTIES
  LockEnds
