------------------------------ MODULE MCReload ------------------------------
(* Small instances of Reload for TLC.                                      *)
EXTENDS Reload

CONSTANTS a, b,    \* tool names
          s1, s2   \* API services

AllCfgs == (SUBSET Services) \cup {Bad}
SvcCfgs == {Services}
FewDocs == {{}, Bad} \cup {{n} : n \in Names}
FewDirs == Names \cup {Absent, Broken}
=============================================================================
