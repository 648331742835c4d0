--------------------------- MODULE TxCompressedData ---------------------------
(***************************************************************************)
(* The packing of a PoolL2Tx that its signature covers                     *)
(* (src/common/pooll2tx.go): TxCompressedData, TxCompressedDataV2,          *)
(* RqTxCompressedDataV2, HashToSign and VerifySignature.  The *big.Int of  *)
(* SetBytes is the byte array itself (SetBytes is injective on arrays of   *)
(* one length), Poseidon and EdDSA are taken as injective: a signature     *)
(* verifies exactly when the verifier's hash input is the signer's.        *)
(*                                                                         *)
(* A byte holds ByteBase values (256 in the code), so a field of n bytes  *)
(* overflows at ByteBase^n.  A tx is a record with the fields              *)
(*   toBJJ [sign, y], fee, nonce, token, amount, toIdx, fromIdx, toEthAddr *)
(*   rq    a record with the same fields: the Rq* fields                   *)
(* RqOffset, RqTxID, Type and AbsoluteFee are not signed and not here.     *)
(*                                                                         *)
(* A client signs a tx under the chain it targets; a relayer may post it   *)
(* with one field changed; the node verifies the posted tx under ChainID. *)
(***************************************************************************)
EXTENDS Integers, Sequences

CONSTANTS
  ByteBase,     \* values of a byte
  ChainID,      \* the node's chain id
  ChainIDs,     \* chain ids a client may sign for
  SignedTxs,    \* txs clients sign
  Tampering     \* field -> values a relayer may put in that field

VARIABLES
  signed,     \* [tx, chainID] the client signed
  posted,     \* the tx as the node receives it
  verdict     \* "none", "valid" or "invalid"

vars == << signed, posted, verdict >>

-----------------------------------------------------------------------------
(* Fixed-width big-endian bytes *)

RECURSIVE BigEndian(_, _)
BigEndian(v, n) ==
  IF n = 0 THEN << >> ELSE BigEndian(v \div ByteBase, n - 1) \o << v % ByteBase >>

\* Mutant: a nonce past 40 bits is truncated instead of rejected.
NonceBytesUnchecked(n) == [ok |-> TRUE, b |-> BigEndian(n, 5)]

\* Nonce.Bytes and Idx.Bytes: 5 and 6 bytes, an error past the width.
NonceBytes(n) == [ok |-> n < ByteBase^5, b |-> BigEndian(n, 5)]
IdxBytes(i)   == [ok |-> i < ByteBase^6, b |-> BigEndian(i, 6)]

\* NewFloat16: the 16-bit code of an amount; the code is the amount when it
\* fits (encode is injective on representable amounts, spec 8).
NewFloat16(a) == [ok |-> a < ByteBase^2, b |-> BigEndian(a, 2)]

\* SignatureConstantBytes, 4 bytes.
SignatureConstantBytes == BigEndian(3, 4)

\* The fields in packing order, the common part of both layouts: toBJJSign,
\* fee, nonce, tokenID, amountFloat16, toIdx, fromIdx.
Layout(sign, fee, nonce, token, amount, toIdx, fromIdx) ==
  LET n == NonceBytes(nonce)  f == NewFloat16(amount)
      t == IdxBytes(toIdx)    r == IdxBytes(fromIdx)
  IN  [ok |-> n.ok /\ f.ok /\ t.ok /\ r.ok,
       b  |-> << sign, fee >> \o n.b \o BigEndian(token, 4) \o f.b \o t.b \o r.b]

\* TxCompressedData: the layout, then chainID and the signature constant.
TxCompressedData(tx, chainID) ==
  LET l == Layout(tx.toBJJ.sign, tx.fee, tx.nonce, tx.token, tx.amount, tx.toIdx, tx.fromIdx)
  IN  [l EXCEPT !.b = @ \o BigEndian(chainID, 2) \o SignatureConstantBytes]

\* TxCompressedDataV2: the layout alone.
TxCompressedDataV2(tx) ==
  Layout(tx.toBJJ.sign, tx.fee, tx.nonce, tx.token, tx.amount, tx.toIdx, tx.fromIdx)

\* RqTxCompressedDataV2: the same layout over the Rq* fields.
RqTxCompressedDataV2(tx) ==
  Layout(tx.rq.toBJJ.sign, tx.rq.fee, tx.rq.nonce, tx.rq.token, tx.rq.amount,
         tx.rq.toIdx, tx.rq.fromIdx)

\* HashToSign: the inputs of the Poseidon hash.
HashToSign(tx, chainID) ==
  LET c == TxCompressedData(tx, chainID)
      rq == RqTxCompressedDataV2(tx)
  IN  [ok |-> c.ok /\ rq.ok,
       in |-> << c.b, tx.toEthAddr, tx.toBJJ.y, rq.b, tx.rq.toEthAddr, tx.rq.toBJJ.y >>]

\* VerifySignature: an error computing the hash is a failed verification.
VerifySignature(tx, chainID, sig) ==
  /\ HashToSign(tx, chainID).ok
  /\ HashToSign(tx, chainID).in = sig

-----------------------------------------------------------------------------
Init ==
  /\ signed \in { s \in [tx : SignedTxs, chainID : ChainIDs] :
                    HashToSign(s.tx, s.chainID).ok }
  /\ posted = signed.tx
  /\ verdict = "none"

\* A relayer changes one field of the tx, or of its Rq* fields.
Tamper ==
  /\ verdict = "none"
  /\ posted = signed.tx
  /\ \E f \in DOMAIN Tampering : \E v \in Tampering[f] :
       \/ posted' = [posted EXCEPT ![f] = v]
       \/ posted' = [posted EXCEPT !.rq[f] = v]
  /\ UNCHANGED << signed, verdict >>

\* The node checks the signature of the posted tx under its own chain.
Verify ==
  /\ verdict = "none"
  /\ verdict' = IF VerifySignature(posted, ChainID,
                                   HashToSign(signed.tx, signed.chainID).in)
                THEN "valid" ELSE "invalid"
  /\ UNCHANGED << signed, posted >>

Next == Tamper \/ Verify

Spec == Init /\ [][Next]_vars

-----------------------------------------------------------------------------
(* Properties *)

\* A signature binds every signed field: a posted tx that verifies is the
\* one the client signed, Rq* fields included, signed for this chain.  It
\* fails if a field is packed short or not at all, or if an out-of-width
\* Nonce or Idx is packed instead of rejected.
SignatureBindsTx ==
  verdict = "valid" => posted = signed.tx /\ signed.chainID = ChainID

=============================================================================
