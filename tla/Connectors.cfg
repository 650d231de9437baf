\* Any call of any connector; limits up to two, three elements, offsets up to two.
SPECIFICATION FairSpec
CONSTANTS
  e1 = e1
  e2 = e2
  e3 = e3
  MaxLimit = 2
  MaxReloads = 1
  Elems = {e1, e2, e3}
  Buckets = 3
  Bucket <- ElemBuckets
  MaxLen = 3
  Parts = {p1, p2}
  MaxOffset = 2
  MaxGroups = 2
  MaxLag = 1
  MaxRows = 3
  MaxBytes = 3
  MaxTimeout = 2
  MaxLines = 2
  Documents <- ApiDocuments
  Discoveries <- ApiDiscoveries
  Operations <- ApiOperations
  ArgNames = {"id", "q", "body"}
INVARIANTS
  TypeOK
  ClientReleased
  ScanComplete
  SampleExact
  OffsetsSound
  GroupsAccounted
  RowsAllOrNothing
  ResponseWhole
  TwoTimeouts
  RequestFaithful
  ToolsExact
PROPERTIES
  CallEnds
