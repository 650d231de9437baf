\* One call whose process leaves a child.
SPECIFICATION Spec
CONSTANTS
  c1 = c1
  c2 = c2
  Calls = {c1}
INVARIANTS
  CancelKillsChildren
