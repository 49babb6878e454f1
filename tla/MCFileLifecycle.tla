-------------------------- MODULE MCFileLifecycle --------------------------
(* Instances of FileLifecycle for TLC: the values are in the .cfg files.   *)
EXTENDS FileLifecycle

=============================================================================
