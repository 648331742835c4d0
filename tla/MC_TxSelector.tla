--------------------------- MODULE MC_TxSelector ---------------------------
(***************************************************************************)
(* A batch selection over a small pool (or its atomic groups alone):      *)
(*   t1, t2   two transfers 256 -> 257 (token 0); t1 pays more but has    *)
(*            nonce 1, so it is selectable only after t2;                  *)
(*   t3, t4   an atomic group g1: t3 sends token 0 to u3 by BJJ, t4 sends  *)
(*            token 1 to u3 by EthAddr; u3 has no account, so each needs   *)
(*            an L1 coordinator tx, and t4 an AccountCreationAuth;         *)
(*   t5       an atomic group g2 whose RqOffset points outside it;         *)
(*   t6       an Exit of amount 0, which can never be forged.              *)
(* One L1 user deposit to 258.  The starting checkpoint varies the         *)
(* balances of 256 and 258 and whether the coordinator already has its     *)
(* token 0 / token 1 accounts; the auth of u3 may or may not be stored.    *)
(* With MaxL1Tx = 4 and MaxTx = 5 the group fits only when some of its     *)
(* accounts exist, so both the restart and the full batch happen.          *)
(***************************************************************************)
EXTENDS TxSelector

CONSTANTS u1, u2, u3, t1, t2, t3, t4, t5, t6, t7, t8, t9, g1, g2, g3

MCUsers == {u1, u2, u3}
MCTokens == {0, 1}

Tx(id, from, type, to, token, amount, fee, nonce, absFee, group, rqOffset, rqTx) ==
  [id |-> id, from |-> from, type |-> type, to |-> to, token |-> token,
   amount |-> amount, fee |-> fee, nonce |-> nonce, absFee |-> absFee,
   group |-> group, rqOffset |-> rqOffset, rqTx |-> rqTx]

MCPool ==
  << Tx(t1, 256, "Transfer", 257, 0, 1, 1, 1, 4, NoGroup, 0, NoTx),
     Tx(t2, 256, "Transfer", 257, 0, 1, 0, 0, 1, NoGroup, 0, NoTx),
     Tx(t3, 257, "TransferToBJJ", u3, 0, 1, 1, 0, 2, g1, 1, t4),
     Tx(t4, 258, "TransferToEthAddr", u3, 1, 2, 1, 0, 3, g1, 7, t3),
     Tx(t5, 257, "Transfer", 256, 0, 1, 0, 1, 5, g2, 1, t1),
     Tx(t6, 256, "Exit", 256, 0, 0, 0, 0, 0, NoGroup, 0, NoTx) >>

\* The whole pool, and the pool of the two atomic groups only (when g1
\* fails nothing is left to select).
MCPoolChoices == { MCPool, SelectSeq(MCPool, IsAtomic) }

\* Committed while the selection runs (run tx_selector_late): a zero
\* transfer t7 of 258 with the nonce after t4, selectable in an iteration
\* after g1 was selected, then
\* a group g3 whose nonces are never reached and whose fee sorts it first,
\* so reading it makes the attempt restart.
MCLateSubmissions ==
  << << Tx(t7, 258, "Transfer", 258, 1, 0, 0, 1, 1, NoGroup, 0, NoTx) >>,
     << Tx(t8, 257, "Transfer", 256, 0, 0, 0, 2, 9, g3, 1, t9),
        Tx(t9, 256, "Transfer", 257, 0, 0, 0, 3, 9, g3, 7, t8) >> >>

\* The late run starts from the whole pool only.
MCLatePoolChoices == { MCPool }

MCNoLateSubmissions == << >>

MCL1UserTxs == << [type |-> "Deposit", from |-> 258, deposit |-> 2] >>

Account(user, token, balance) ==
  [user |-> user, token |-> token, balance |-> balance, nonce |-> 0]

MCInitStates ==
  { (256 :> Account(u1, 0, b1)) @@ (257 :> Account(u2, 0, 2)) @@ (258 :> Account(u2, 1, b3))
      @@ (IF c0 THEN 259 :> Account(Coord, 0, 0) ELSE << >>)
      @@ (IF c1 THEN (IF c0 THEN 260 ELSE 259) :> Account(Coord, 1, 0) ELSE << >>) :
    b1 \in {1, 2}, b3 \in {0, 1}, c0 \in BOOLEAN, c1 \in BOOLEAN }

MCAuthChoices == { {}, { << u3, 1 >> } }

=============================================================================
