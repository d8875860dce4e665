SPECIFICATION Spec
CONSTANTS
  s1 = s1
  s2 = s2
  User = {u1}
  InitialUsers = {}
  Role = {default, r1}
  DefaultRole = default
  Scope = {s1, s2}
  Known = {s1}
  DefaultScopes = {s1}
  Lists <- MCLists
  Request = {q1, q2}
  NULL = NULL
  TTL = 2
  MaxFaults = 1
INVARIANTS
  TypeOK
  CacheFollowsRoles
  UpdateReplacesScopes
PROPERTIES
  StaleScopesFade
  StaleIsBounded
