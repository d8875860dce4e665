---------------------------- MODULE MCRateLimit ----------------------------
(* Small instances of RateLimit for TLC.                                   *)
EXTENDS RateLimit, TLC

\* /login is allowed more than /reset-password, /introspect more than the rest.
MCAllowance == [l \in Limiter |-> IF l \in {"authorize", "introspect"} THEN 2 ELSE 1]

Symmetry == Permutations(Request)
=============================================================================
