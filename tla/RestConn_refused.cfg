SPECIFICATION FairSpec
CONSTANTS
  c1 = c1
  c2 = c2
  c3 = c3
  Clients = {c1, c2, c3}
  Posting = {c1}
  Limit = 1
PROPERTY AnsweredWhileRefusing
CHECK_DEADLOCK FALSE
