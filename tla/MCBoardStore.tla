---------------------------- MODULE MCBoardStore ----------------------------
(* Small sets of requests for TLC.                                          *)
EXTENDS BoardStore, TLC

=============================================================================
