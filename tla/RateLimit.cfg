SPECIFICATION Spec
CONSTANTS
  Limiter = {"authorize", "password"}
  Allowance <- MCAllowance
  ByBearer = {}
  Address = {a1}
  Proxy = {}
  Bearer = {}
  Request = {r1, r2}
  NULL = NULL
  Window = 2
  MaxTime = 3
  Many = 3
SYMMETRY Symmetry
INVARIANTS
  TypeOK
  QuotaKept
  RefusedMeansBusy
