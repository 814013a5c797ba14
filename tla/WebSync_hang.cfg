SPECIFICATION FairSpec
CONSTANTS
  r1 = r1
  RestThreads = {r1}
  NoThread = NoThread
  MaxCalls = 2
  PulseOn = FALSE
PROPERTY CallReturns
CHECK_DEADLOCK FALSE
