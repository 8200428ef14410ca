----------------------------- MODULE MCConsole -------------------------------
(* The instance of Console for TLC: a screen of three lines of three        *)
(* characters, and messages of one character and a new line.               *)
EXTENDS Console

MessagesDef == {<<65, LF>>}
=============================================================================
