CONSTANTS
  u1 = u1  u2 = u2  Coord = Coord
  Genesis <- MCGenesis
  Selections <- MCSelections
  L1Batches <- MCL1Batches
  MaxBatch = 3

SPECIFICATION Spec

INVARIANTS
  TypeOK
  LocalExtendsChain
