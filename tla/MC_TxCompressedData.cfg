CONSTANTS
  a1 = a1  a2 = a2  y0 = y0  y1 = y1
  ByteBase = 2
  ChainID = 1
  ChainIDs = {1, 2}
  SignedTxs <- MCSignedTxs
  Tampering <- MCTampering

SPECIFICATION Spec

\* A request ends once its signature is verified.
CHECK_DEADLOCK FALSE

INVARIANTS
  SignatureBindsTx
