SPECIFICATION Spec
CONSTANTS
  Key = {k1, k2}
  Request = {r1, r2}
  NULL = NULL
  Lifetime = {0, 3}
  OpaqueTTL = 1
  MaxTTL = 2
  Share = 2
  MaxFaults = 0
PROPERTY RevokedIsInactive
