CONSTANTS
  Capacity = 4
  Items = {a, b}
  NullOpt = NullOpt
  Empty = Empty
SPECIFICATION FairSpec
INVARIANTS
  TypeOK
  NoDataRace
  NoOverwrite
  SizeApproxSafe
PROPERTIES
  ImplementsFIFO
  FIFOIsFair
