SPECIFICATION Spec
CONSTANTS
  r1 = r1
  RestThreads = {r1}
  NoThread = NoThread
  MaxCalls = 2
  PulseOn = TRUE
INVARIANT ReplyAfterCommit
CHECK_DEADLOCK FALSE
