\* One call; the other side may hinder it.
SPECIFICATION FairSpec
CONSTANTS
  c1 = c1
  c2 = c2
  Calls = {c1}
PROPERTIES
  ExecRespectsContext
