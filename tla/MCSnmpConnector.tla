-------------------------- MODULE MCSnmpConnector --------------------------
(* Small instances of SnmpConnector for TLC.                               *)
EXTENDS SnmpConnector

CONSTANTS o1, o2
=============================================================================
