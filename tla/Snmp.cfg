\* Two operations, one device, one slot, limits up to two.
SPECIFICATION FairSpec
CONSTANTS
  o1 = o1
  o2 = o2
  Ops = {o1, o2}
  Slots = 1
  Devices = {d1}
  MaxLimit = 2
  MaxVars = 3
INVARIANTS
  TypeOK
  SlotsMatchHolders
  TruncationExact
PROPERTIES
  EveryOpEnds
