SPECIFICATION Spec
CONSTANTS
  Objects = {o1, o2, o3}
  Blocks = {b1, b2, b3, b4}
  NoBlock = NoBlock
  Items = {v1}
  Junk = Junk
  N = 4
  Lengths = {0, 6}
  MaxCursor = 10
SYMMETRY Symmetry
INVARIANTS
  BlocksHaveOneOwner
  OffsetsKept
  StorageHoldsSize
