----------------------------- MODULE MCApiKeys ------------------------------
(* Small instances of ApiKeys for TLC.                                     *)
EXTENDS ApiKeys, TLC
=============================================================================
