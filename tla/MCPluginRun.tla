---------------------------- MODULE MCPluginRun ----------------------------
(* Small instances of PluginRun for TLC.                                   *)
EXTENDS PluginRun

CONSTANTS c1, c2
=============================================================================
