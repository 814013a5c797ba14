SPECIFICATION SrvFairSpec
CONSTANTS
  c1 = c1
  c2 = c2
  Clients = {c1, c2}
  Posting = {c1}
  Limit = 1
  Nobody = Nobody
  Script = Script
  MaxReplies = 1
INVARIANT SrvTypeOK
INVARIANT OwnAnswer
INVARIANT ReplyOnce
PROPERTY ServesRounds
PROPERTY EveryoneAnswered
CHECK_DEADLOCK FALSE
