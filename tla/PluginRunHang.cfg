\* One call whose script loops at top level.
SPECIFICATION FairSpec
CONSTANTS
  c1 = c1
  c2 = c2
  Calls = {c1}
PROPERTIES
  EveryCallAnswered
