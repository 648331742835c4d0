---------------------------- MODULE TxProcessor ----------------------------
(***************************************************************************)
(* The local StateDB and the TxProcessor as the TxSelector and the        *)
(* BatchBuilder use them (spec 4.1, 4.2; not under src/).  An account set *)
(* is a function Idx -> [user, token, balance, nonce]; Idxs are given by a *)
(* gap-free counter.  Only the tx types a selection produces are covered:  *)
(* CreateAccountDeposit and Deposit L1 txs, and Transfer,                  *)
(* TransferToEthAddr, TransferToBJJ and Exit L2 txs.                       *)
(***************************************************************************)
EXTENDS Integers, Sequences, SequencesExt, FiniteSets, Functions

(* StateDB (spec: 4.1) *)

\* GetIdxByEthAddrBJJ: the account of user for token, or 0 when none.
IdxOf(accts, user, token) ==
  LET s == { i \in DOMAIN accts : accts[i].user = user /\ accts[i].token = token }
  IN  IF s = {} THEN 0 ELSE Min(s)

HasAccount(accts, user, token) == IdxOf(accts, user, token) # 0

\* CreateAccount at the next Idx of the gap-free counter.
CreateAccount(accts, user, token, balance) ==
  accts @@ ((Max(DOMAIN accts) + 1) :> [user |-> user, token |-> token,
                                         balance |-> balance, nonce |-> 0])

SumBalances(accts) == FoldFunction(LAMBDA a, acc : a.balance + acc, 0, accts)

-----------------------------------------------------------------------------
(* TxProcessor (spec: 4.2).  L1 txs here are CreateAccountDeposit and     *)
(* Deposit with a zero Amount, so the effective deposit is the deposit.   *)

ProcessL1Tx(accts, l1) ==
  IF l1.type = "CreateAccountDeposit"
  THEN CreateAccount(accts, l1.user, l1.token, l1.deposit)
  ELSE [accts EXCEPT ![l1.from].balance = @ + l1.deposit]

ProcessL1Txs(accts, l1s) == FoldLeft(ProcessL1Tx, accts, l1s)

\* The recipient's Idx: ToIdx, or the AuxToIdx found by (EthAddr|BJJ, token).
RecipientIdx(accts, tx) ==
  IF tx.type = "Transfer" THEN tx.to ELSE IdxOf(accts, tx.to, tx.token)

\* What the processor requires of an L2 tx (spec 4.2.2 steps 1-4).
L2TxProcessable(accts, tx) ==
  /\ tx.from \in DOMAIN accts
  /\ accts[tx.from].token = tx.token
  /\ accts[tx.from].nonce = tx.nonce
  /\ accts[tx.from].balance >= tx.amount + tx.fee
  /\ tx.type # "Exit" =>
       /\ RecipientIdx(accts, tx) \in DOMAIN accts
       /\ accts[RecipientIdx(accts, tx)].token = tx.token

\* Debit amount+fee and bump the nonce of the sender, credit the recipient
\* (an Exit moves the amount to the exit tree instead).
ProcessL2Tx(accts, tx) ==
  LET debited == [accts EXCEPT ![tx.from].balance = @ - tx.amount - tx.fee,
                               ![tx.from].nonce = @ + 1]
  IN  IF tx.type = "Exit" THEN debited
  ELSE [debited EXCEPT ![RecipientIdx(accts, tx)].balance = @ + tx.amount]

AddFee(fees, idx, fee) ==
  IF idx \in DOMAIN fees THEN [fees EXCEPT ![idx] = @ + fee] ELSE fees @@ (idx :> fee)

-----------------------------------------------------------------------------
\* TxProcessor.ProcessTxs (spec 4.2) of a whole batch in canonical order:
\* the L1 txs, then the L2 txs, each of which must be processable, then
\* the fees of each token paid to the one coordinator Idx of that token.
ProcessBatch(accts0, l1s, l2s, cIdxs) ==
  LET Step(st, tx) ==
        IF st.ok /\ L2TxProcessable(st.accts, tx)
        THEN [ok |-> TRUE, accts |-> ProcessL2Tx(st.accts, tx),
              fees |-> AddFee(st.fees, tx.token, tx.fee)]
        ELSE [st EXCEPT !.ok = FALSE]
      r == FoldLeft(Step, [ok |-> TRUE, accts |-> ProcessL1Txs(accts0, l1s),
                           fees |-> << >>], l2s)
      paid == { tk \in DOMAIN r.fees : r.fees[tk] > 0 }
      coordOf(tk) == { c \in Range(cIdxs) : c \in DOMAIN r.accts /\ r.accts[c].token = tk }
  IN  [ok |-> r.ok /\ \A tk \in paid : Cardinality(coordOf(tk)) = 1,
       accts |-> [i \in DOMAIN r.accts |->
                    IF i \in Range(cIdxs) /\ r.accts[i].token \in paid
                    THEN [r.accts[i] EXCEPT !.balance = @ + r.fees[r.accts[i].token]]
                    ELSE r.accts[i]]]

=============================================================================
