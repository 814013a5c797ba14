SPECIFICATION Spec
CONSTANTS
  d1 = d1
  d2 = d2
  p1 = p1
  p2 = p2
  Devs = {d1, d2}
  Unknown = Unknown
  Props = {p1, p2}
  NoProp = NoProp
  EDevs = {d2}
  MaxVal = 1
  MaxParams = 2
  MaxParts = 3
INVARIANT AskingOnlyReads
