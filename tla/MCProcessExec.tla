--------------------------- MODULE MCProcessExec ---------------------------
(* Small instances of ProcessExec for TLC.                                 *)
EXTENDS ProcessExec

CONSTANTS c1, c2
=============================================================================
