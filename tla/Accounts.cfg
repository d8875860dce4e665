SPECIFICATION Spec
CONSTANTS
  u1 = u1
  a = a
  b = b
  User <- MCUser
  Password <- MCPassword
  InitialPassword <- MCInitialPassword
  ResetToken = {t1}
  Request = {r1, r2, r3}
  NULL = NULL
  Threshold = 2
  LockFor = 2
  ResetTTL = 1
  MaxFaults = 1
INVARIANTS
  TypeOK
  LockoutEngages
  ResetOnce
PROPERTIES
  LockExpires
  LockIsBounded
