SPECIFICATION Spec
CONSTANTS
  d1 = d1
  d2 = d2
  p1 = p1
  Devs = {d1, d2}
  Unknown = Unknown
  Props = {p1}
  NoProp = NoProp
  EDevs = {d2}
  MaxVal = 1
  MaxParams = 2
  MaxParts = 5
INVARIANT TypeOK
INVARIANT FreshAnswer
INVARIANT SettingsReached
INVARIANT SilentMeansAccepted
PROPERTY Addressed
