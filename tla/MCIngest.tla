------------------------------ MODULE MCIngest ------------------------------
(* Instances of Ingest for TLC: the values are in the .cfg files.          *)
EXTENDS Ingest

=============================================================================
