\* A TCP peer that resets the connection in the middle of its response.
SPECIFICATION Spec
CONSTANTS
  e1 = e1
  e2 = e2
  e3 = e3
  MaxLimit = 2
  MaxReloads = 1
  Elems = {e1, e2, e3}
  Buckets = 3
  Bucket <- ElemBuckets
  MaxLen = 3
  Parts = {p1, p2}
  MaxOffset = 2
  MaxGroups = 2
  MaxLag = 1
  MaxRows = 3
  MaxBytes = 3
  MaxTimeout = 2
  MaxLines = 2
  Documents <- ApiDocuments
  Discoveries <- ApiDiscoveries
  Operations <- ApiOperations
  ArgNames = {"id", "q", "body"}
INVARIANTS
  ResponseEndsAsDocumented
