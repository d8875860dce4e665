SPECIFICATION Spec
CONSTANTS
  User = {u1}
  OAuthClient = {c1, c2}
  InitialClients = {c1}
  ProjectClient = {p1}
  Code = {x1}
  Token = {t1, t2}
  Verifier = {v1}
  Request = {r1, r2}
  NULL = NULL
  CodeTTL = 1
  RefreshTTL = 1
  MaxTime = 1
  MaxFaults = 1
SYMMETRY Symmetry
INVARIANTS
  TypeOK
  ChainKeepsOwner
  PkceStored
  SuspendedOnlyRedeemsCodes
