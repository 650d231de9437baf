\* Two calls, local or remote.
SPECIFICATION FairSpec
CONSTANTS
  c1 = c1
  c2 = c2
  Calls = {c1, c2}
INVARIANTS
  TypeOK
  OutputSettled
  LeaderReaped
PROPERTIES
  ExecEnds
  RunnerEventuallyEnds
