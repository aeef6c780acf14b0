----------------------------- MODULE MCAccounts -----------------------------
(* Instances of Accounts for TLC.                                            *)
EXTENDS Accounts, TLC

CONSTANTS s1, e1

MCExisting == {[id |-> 1, subject |-> s1, email |-> e1, deleted |-> FALSE]}

AccountSymmetry == Permutations(Requests)
=============================================================================
