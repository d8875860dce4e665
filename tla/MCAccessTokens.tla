--------------------------- MODULE MCAccessTokens ---------------------------
(* Small instances of AccessTokens for TLC.                                *)
EXTENDS AccessTokens, TLC

\* Requests, calls and keys are interchangeable.
Symmetry == Permutations(Request) \cup Permutations(Call) \cup Permutations(Key)
=============================================================================
