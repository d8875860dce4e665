SPECIFICATION Spec
CONSTANTS
  Project = {aspectus, p1}
  Aspectus = aspectus
  Hash = {h1, h2, a1, a2}
  AdminHash = {a1, a2}
  Request = {r1, r2}
  NULL = NULL
  TTL = 2
  MaxFaults = 1
INVARIANTS
  TypeOK
  WithdrawnMeansRefused
PROPERTIES
  OnceRefusedAlwaysRefused
  WithdrawnTokensFade
  FadingIsBounded
