SPECIFICATION FairSpec
CONSTANTS
  Jobs = {j1}
  Pollers = {p1, p2}
  MaxAttempts = 3
  MaxWait = 2
  Backoff <- MCBackoff
  Delays = {0, 1}
  MaxCrashes = 1
INVARIANT NoJobLost
PROPERTY EveryJobSettles
