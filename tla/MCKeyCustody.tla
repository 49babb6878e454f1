---------------------------- MODULE MCKeyCustody ----------------------------
(* Instances of KeyCustody for TLC: the values are in the .cfg files.      *)
EXTENDS KeyCustody

=============================================================================
