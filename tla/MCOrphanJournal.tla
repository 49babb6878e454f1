-------------------------- MODULE MCOrphanJournal --------------------------
(* Instances of OrphanJournal for TLC: the values are in the .cfg files.   *)
EXTENDS OrphanJournal

=============================================================================
