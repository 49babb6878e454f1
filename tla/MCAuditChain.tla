---------------------------- MODULE MCAuditChain ----------------------------
(* Instances of AuditChain for TLC: the values are in the .cfg files.      *)
EXTENDS AuditChain

=============================================================================
