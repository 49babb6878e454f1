---------------------------- MODULE MCAccounts -----------------------------
(* Instances of Accounts for TLC: the values are in the .cfg files.        *)
EXTENDS Accounts, TLC

(* Requests, links and invitations are interchangeable.                    *)
Symmetry == Permutations(Requests) \cup Permutations(Links) \cup Permutations(Invitations)
=============================================================================
