------------------------------ MODULE MCRoles -------------------------------
(* Small instances of Roles for TLC.                                       *)
EXTENDS Roles, TLC

CONSTANTS s1, s2

MCLists == {{s1}, {s1, s2}}
=============================================================================
