SPECIFICATION Spec
CONSTANTS
  User = {u1}
  OAuthClient = {c1}
  InitialClients = {c1}
  ProjectClient = {p1}
  Code = {x1}
  Token = {t1, t2, t3}
  Verifier = {}
  Request = {r1, r2}
  NULL = NULL
  CodeTTL = 1
  RefreshTTL = 1
  MaxTime = 2
  MaxFaults = 0
SYMMETRY Symmetry
INVARIANTS
  SingleUse
  RefreshedSessionsBeganWithACode
  ReplayEvidenceKept
  ReplayEndsSession
PROPERTY LedgerSpec
