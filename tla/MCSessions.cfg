\* One browser whose pages fetch while its user signs in, out and up; tokens of one and
\* two seconds.
SPECIFICATION FairSpec
CONSTANTS
  Browsers = {b1}
  Fetches = {f1}
  AccessLife = 0
  RefreshLife = 1
INVARIANTS
  SessionsTypeOK
PROPERTIES
  RevokedStaysRevoked
  CallsShrink
  BarredAgesOut
  CallsEnd
  RestrictionEndsAccess
CHECK_DEADLOCK FALSE
