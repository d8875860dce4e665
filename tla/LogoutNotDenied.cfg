SPECIFICATION Spec
CONSTANTS
  Key = {k1}
  Call = {c1}
  Token = {j1}
  NULL = NULL
  JwksTTL = 1
  MaxFaults = 0
  Request = {r1}
  Lifetime = 2
  Leeway = 1
INVARIANT LoggedOutIsDenied
