CONSTANTS
  n1 = n1  n2 = n2  a1 = a1  a2 = a2  b1 = b1  b2 = b2
  ga = ga  gb = gb
  NoGroup = NoGroup
  NoTx = NoTx
  Precision = 2
  Pools <- MCPools

SPECIFICATION Spec

\* Filtering and sorting is a computation that ends: the sorted states
\* are final.
CHECK_DEADLOCK FALSE

INVARIANTS
  SortedPermutesPool
  RqOffsetsResolveInSortedList
  SortedByFee
