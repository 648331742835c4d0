--------------------------- MODULE MC_SortL2Txs ---------------------------
(***************************************************************************)
(* Pools of six pending txs, in the pool order                            *)
(*   n1, a1, b1, n2, a2, b2                                                 *)
(* n1, n2 are non-atomic txs of accounts 256 and 257; a1, a2 form group   *)
(* ga and b1, b2 group gb, their members interleaved with the other txs.  *)
(* ga's RqOffsets always resolve; gb's resolve or point outside the group. *)
(* Fees range over 1..3, so non-atomic fees equal to, above and below     *)
(* a group's average, and groups with equal averages, all occur.          *)
(***************************************************************************)
EXTENDS SortL2Txs

CONSTANTS n1, n2, a1, a2, b1, b2, ga, gb

Fees == 1..3

Tx(id, from, nonce, absFee, group, rqOffset, rqTx) ==
  [id |-> id, from |-> from, nonce |-> nonce, absFee |-> absFee,
   group |-> group, rqOffset |-> rqOffset, rqTx |-> rqTx]

MCPools ==
  { << Tx(n1, 256, 0, fn1, NoGroup, 0, NoTx),
       Tx(a1, 258, 0, fa1, ga, 1, a2),
       Tx(b1, 259, 0, fb, gb, 1, b2),
       Tx(n2, 257, 0, fn2, NoGroup, 0, NoTx),
       Tx(a2, 258, 1, fa2, ga, 7, a1),
       Tx(b2, 259, 1, fb, gb, rqB2, b1) >> :
    fn1 \in Fees, fn2 \in Fees, fa1 \in Fees, fa2 \in Fees, fb \in Fees,
    rqB2 \in {6, 7} }

=============================================================================
