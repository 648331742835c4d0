------------------------- MODULE MC_SelectorLifecycle -------------------------
(***************************************************************************)
(* Three accounts of token 0: 256 of u1 with 2, 257 of u2, 258 of the     *)
(* coordinator.  A selection returns nothing, x1 (256 -> 257, nonce 0,    *)
(* fee 1, paid to 258) or x2 (the same with nonce 1, no fee), so a batch  *)
(* replays only on the state it was built for; a batch may also forge an  *)
(* L1 deposit to 257.  Batches 0..3.                                       *)
(***************************************************************************)
EXTENDS SelectorLifecycle

CONSTANTS u1, u2, Coord

Account(user, balance) == [user |-> user, token |-> 0, balance |-> balance, nonce |-> 0]

MCGenesis == (256 :> Account(u1, 2)) @@ (257 :> Account(u2, 0)) @@ (258 :> Account(Coord, 0))

Transfer(nonce, fee) ==
  [from |-> 256, to |-> 257, type |-> "Transfer", token |-> 0,
   nonce |-> nonce, amount |-> 1, fee |-> fee]

MCSelections ==
  { [l1Coord |-> << >>, l2 |-> << >>, coordIdxs |-> << >>],
    [l1Coord |-> << >>, l2 |-> << Transfer(0, 1) >>, coordIdxs |-> << 258 >>],
    [l1Coord |-> << >>, l2 |-> << Transfer(1, 0) >>, coordIdxs |-> << >>] }

MCL1Batches == { << [type |-> "Deposit", from |-> 257, deposit |-> 1] >> }

=============================================================================
