SPECIFICATION Spec
CONSTANTS
  Key = {k1, k2}
  Call = {c1, c2}
  Token = {j1}
  NULL = NULL
  JwksTTL = 1
  MaxFaults = 1
  Request = {r1, r2}
  Lifetime = 2
  Leeway = 1
SYMMETRY Symmetry
INVARIANTS
  TypeOK
  KeyIsRecent
  RevokedRefusedUntilExp
