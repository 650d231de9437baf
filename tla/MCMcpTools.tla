----------------------------- MODULE MCMcpTools -----------------------------
(* A small instance of McpTools for TLC.                                   *)
EXTENDS McpTools, TLC

CONSTANTS a,       \* tool name
          s1,      \* API service
          r1, r2   \* goroutines that serve reloads

SomeCfgs == (SUBSET Services) \cup {Bad}
OneDoc == {Names}
FewDirs == Names \cup {Absent, Broken}

ReloaderSymmetry == Permutations({r1, r2})
=============================================================================
