CONSTANTS
  e1 = e1  e2 = e2
  ga = ga  gb = gb  gx = gx  gd = gd  ge = ge  gu = gu  gs = gs  gp = gp
  NoGroup = NoGroup
  NoTx = NoTx
  Precision = 8
  Accounts <- MCAccounts
  EthReachable <- MCEthReachable
  Singles <- MCSingles
  Submissions <- MCSubmissions

SPECIFICATION Spec

INVARIANTS
  TypeOK
  PoolGroupsAreSingleAtomic
