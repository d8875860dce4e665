--------------------------- MODULE MCOAuthTokens ----------------------------
(* Small instances of OAuthTokens for TLC.                                 *)
EXTENDS OAuthTokens, TLC

\* Requests, codes and tokens are interchangeable: no action and no
\* invariant names one of them.
Symmetry == Permutations(Request) \cup Permutations(Token) \cup Permutations(Code)
=============================================================================
