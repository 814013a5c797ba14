SPECIFICATION FairSpec
CONSTANTS
  r1 = r1
  RestThreads = {r1}
  NoThread = NoThread
  MaxCalls = 3
  PulseOn = TRUE
INVARIANT TypeOK
INVARIANT RequestCovered
INVARIANT FreshVisit
INVARIANT AssertHolds
PROPERTY InOrderAtMostOnce
PROPERTY CallReturns
CHECK_DEADLOCK FALSE
