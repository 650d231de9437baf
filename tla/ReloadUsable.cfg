\* One request whose tools fail to build after the configuration was replaced.
SPECIFICATION Spec
CONSTANTS
  a = a
  b = b
  s1 = s1
  s2 = s2
  Names = {a, b}
  Services = {s1, s2}
  NumDirs = 1
  Reloaders = {r1}
  CfgFiles <- AllCfgs
  DocFiles <- FewDocs
  DirFiles <- FewDirs
  MaxEdits = 1
  None = None
  Bad = Bad
  Absent = Absent
  Broken = Broken
  Unreadable = Unreadable
INVARIANTS
  FailedReloadKeepsSet
