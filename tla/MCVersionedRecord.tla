-------------------------- MODULE MCVersionedRecord --------------------------
(* The routes for TLC.                                                      *)
EXTENDS VersionedRecord, TLC

=============================================================================
