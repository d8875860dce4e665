SPECIFICATION Spec
CONSTANTS
  Limiter = {"authorize", "password", "introspect", "mgmt"}
  Allowance <- MCAllowance
  ByBearer = {"introspect", "mgmt"}
  Address = {a1, p1}
  Proxy = {p1}
  Bearer = {b1}
  Request = {r1}
  NULL = NULL
  Window = 2
  MaxTime = 3
  Many = 3
INVARIANT OwnQuota
