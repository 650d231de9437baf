\* Two overlapping requests, one a config reload, one a plugin reload.
SPECIFICATION Spec
CONSTANTS
  a = a
  b = b
  s1 = s1
  s2 = s2
  Names = {a, b}
  Services = {s1}
  NumDirs = 1
  Reloaders = {r1, r2}
  CfgFiles <- SvcCfgs
  DocFiles <- FewDocs
  DirFiles <- FewDirs
  MaxEdits = 2
  None = None
  Bad = Bad
  Absent = Absent
  Broken = Broken
  Unreadable = Unreadable
INVARIANTS
  NamesUnique
