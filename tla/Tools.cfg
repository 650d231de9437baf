\* Overlapping reloads and a client that calls and lists tools.
SPECIFICATION McpSpec
CONSTANTS
  a = a
  s1 = s1
  r1 = r1
  r2 = r2
  Names = {a}
  Services = {s1}
  NumDirs = 1
  Reloaders = {r1, r2}
  Clients = {c1}
  CfgFiles <- SomeCfgs
  DocFiles <- OneDoc
  DirFiles <- FewDirs
  MaxEdits = 2
  None = None
  Bad = Bad
  Absent = Absent
  Broken = Broken
  Unreadable = Unreadable
SYMMETRY ReloaderSymmetry
INVARIANTS
  McpTypeOK
  LookupLinearizable
  ListComplete
  UniqueUnlessOverlap
  PluginsSurviveFailure
  LoneReloadReflectsDisk
PROPERTIES
  ImplementsToolTable
