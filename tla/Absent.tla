------------------------------- MODULE Absent -------------------------------
(* The value that stands for a field, a row or a call that is not there.    *)
CONSTANT None
=============================================================================
