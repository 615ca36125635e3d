----------------------------- MODULE MCPresence -----------------------------
(* A few settings for TLC.                                                  *)
EXTENDS Presence, TLC

Sessions == [subject : {"session"}, prompt : {FALSE}]
Rows == Sessions \cup [subject : {"machine"}, prompt : {FALSE}]
AllSettings == Rows \cup [subject : {"session"}, prompt : {TRUE}]
=============================================================================
