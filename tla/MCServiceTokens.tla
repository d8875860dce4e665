-------------------------- MODULE MCServiceTokens ---------------------------
(* Small instances of ServiceTokens for TLC.                               *)
EXTENDS ServiceTokens, TLC
=============================================================================
