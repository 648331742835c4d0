------------------------ MODULE MC_TxCompressedData ------------------------
(***************************************************************************)
(* Bytes of two values (ByteBase = 2), so a nonce overflows its 5 bytes   *)
(* at 32 and an Idx its 6 bytes at 64, and the boundary values are small. *)
(* A client signs one of two txs, for the node's chain (1) or another (2). *)
(* The relayer may set one field, of the tx or of its Rq* fields, to a    *)
(* neighbour value: a nonce one past 40 bits, an Idx one past 48 bits, a  *)
(* low-order change, the other BJJ sign, y or eth address.                 *)
(***************************************************************************)
EXTENDS TxCompressedData, TLC

CONSTANTS a1, a2, y0, y1

Empty == [toBJJ |-> [sign |-> 0, y |-> y0], fee |-> 0, nonce |-> 0, token |-> 0,
          amount |-> 0, toIdx |-> 0, fromIdx |-> 0, toEthAddr |-> a1]

Tx1 == [Empty EXCEPT !.fee = 1, !.nonce = 0, !.token = 1, !.amount = 3,
                     !.toIdx = 63, !.fromIdx = 62]

\* A tx carrying the Rq* fields rq.
WithRq(tx, rq) == [f \in DOMAIN tx \cup {"rq"} |-> IF f = "rq" THEN rq ELSE tx[f]]

MCSignedTxs ==
  { WithRq(Tx1, Empty),
    WithRq([Tx1 EXCEPT !.nonce = 31, !.toBJJ = [sign |-> 1, y |-> y1]],
           [Tx1 EXCEPT !.nonce = 1, !.fromIdx = 63]) }

MCTampering ==
  [nonce |-> {1, 32}, fromIdx |-> {0, 64}, toIdx |-> {62}, fee |-> {0},
   token |-> {0}, amount |-> {1}, toEthAddr |-> {a2},
   toBJJ |-> {[sign |-> 1, y |-> y0], [sign |-> 0, y |-> y1]}]

=============================================================================
