CONSTANTS
  u1 = u1  u2 = u2  u3 = u3
  t1 = t1  t2 = t2  t3 = t3  t4 = t4  t5 = t5  t6 = t6  t7 = t7  t8 = t8  t9 = t9
  g1 = g1  g2 = g2  g3 = g3
  NoGroup = NoGroup
  NoTx = NoTx
  Precision = 8
  Coord = Coord
  Users <- MCUsers
  Tokens <- MCTokens
  MaxTx = 7
  MaxL1Tx = 4
  PoolChoices <- MCLatePoolChoices
  L1UserTxs <- MCL1UserTxs
  InitStates <- MCInitStates
  AuthChoices <- MCAuthChoices
  LateSubmissions <- MCLateSubmissions

SPECIFICATION Spec

\* A selection is one call that returns: terminal states are expected.
CHECK_DEADLOCK FALSE

INVARIANTS
  AtomicGroupsAllOrNothing
  PendingTxsSelectedOrDiscardedOnce

PROPERTIES
  BatchSelectionRefined
