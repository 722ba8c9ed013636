CONSTANTS
  None = None
  old = old
  new = new
  c1 = c1
  c2 = c2
  c3 = c3
  Keys = {old, new}
  FirstKeys = {old}
  Calls = {c1, c2, c3}
  Kid <- KeyOf
  CacheTime = 1
  FetchTime = 1
  MaxTime = 2

SPECIFICATION FairSpec

\* All calls end, and time with them.
CHECK_DEADLOCK FALSE

INVARIANTS
  RotationRefusesNobody

PROPERTIES
  NoKeyIsForgotten
  WithdrawnKeysExpire
  EveryVerificationEnds
