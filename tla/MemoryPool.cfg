CONSTANTS
  Pools = {p, q}
  NumBlocks = 2
  Handles = {h1, h2}
  Null = Null
  Data = Data
SPECIFICATION Spec
INVARIANTS
  NoSharedBlock
  FreeListExact
