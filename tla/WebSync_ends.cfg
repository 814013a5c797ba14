SPECIFICATION FairSpec
CONSTANTS
  r1 = r1
  RestThreads = {r1}
  NoThread = NoThread
  MaxCalls = 1
  PulseOn = TRUE
PROPERTY ProgramEnds
CHECK_DEADLOCK FALSE
