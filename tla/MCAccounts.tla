----------------------------- MODULE MCAccounts -----------------------------
(* Small instances of Accounts for TLC.                                    *)
EXTENDS Accounts, TLC

CONSTANTS u1, a, b

MCUser == {u1}
MCPassword == {a, b}
MCInitialPassword == [u \in MCUser |-> a]
=============================================================================
