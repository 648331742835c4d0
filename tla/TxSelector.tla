----------------------------- MODULE TxSelector -----------------------------
(***************************************************************************)
(* TxSelector.getL1L2TxSelection (txselector, src/unnamed/part_002): one   *)
(* selection of a batch.  Two goroutines share the TxSelector's local      *)
(* StateDB:                                                                *)
(*   - the main goroutine (pc): processes the L1 user txs, reads and       *)
(*     filters the pool, sorts it, launches the verifier and then serves   *)
(*     the verifier's channels in its select loop;                          *)
(*   - the verifier goroutine (vState): walks the sorted txs, asks the     *)
(*     main goroutine to process the L1 coordinator txs a tx needs, waits  *)
(*     for them (l1TxsWg), applies the selected L2 txs and reports each    *)
(*     tx on a channel; a waiter goroutine reports verificationEnded.      *)
(* The channels are unbuffered: a send (msg) completes when the main      *)
(* goroutine receives it, and the verifier's next step waits for that.    *)
(* An atomic tx that cannot be selected makes the main goroutine Reset    *)
(* the local StateDB to its checkpoint and restart with the group         *)
(* excluded.  Meanwhile the pool API may commit further submissions to   *)
(* the pool, which the next START_SELECTION reads.                        *)
(***************************************************************************)
EXTENDS Integers, Sequences, SequencesExt, FiniteSets, Functions, AtomicGroups, TxProcessor

CONSTANTS
  Users,        \* user identities (EthAddr / BJJ) other than the coordinator
  Tokens,       \* token ids
  Coord,        \* the coordinator's identity (CoordAccount Addr/BJJ)
  MaxTx,        \* selectionConfig.MaxTx
  MaxL1Tx,      \* selectionConfig.MaxL1Tx
  PoolChoices,  \* possible contents of the pool's pending txs, in order
  L1UserTxs,    \* the L1 user txs this batch must forge, by Position
  InitStates,   \* possible checkpoints the local StateDB starts from
  AuthChoices,  \* possible sets of <<user, token>> with a stored
                \* AccountCreationAuth
  LateSubmissions  \* submissions the API commits to the pool while the
                   \* selection runs, in commit order

ASSUME MaxL1Tx \in Nat /\ MaxTx \in Nat /\ MaxL1Tx <= MaxTx

VARIABLES
  accounts,            \* localAccountsDB: Idx -> [user, token, balance, nonce]
  checkpoint,          \* localAccountsDB's last checkpoint (what Reset restores)
  batchNum,            \* localAccountsDB.CurrentBatch()
  auths,               \* the pool's AccountCreationAuths
  pool,                \* the L2DB pool's pending txs, in insertion order
  nLate,               \* how many of LateSubmissions are committed
  pending,             \* l2TxsFromDB: the pool as read by this attempt
  startState,          \* history: the checkpoint the selection started from
  failedAtomicGroups,  \* AtomicGroupID -> [failedTxID, reason] of earlier attempts
  info,                \* the Info / ErrorCode the pool filters wrote, per tx
  pc,                  \* main goroutine: "start", "loop", "done"
  accumulatedFees,     \* tp.AccumulatedFees: coordinator Idx -> fee
  exitAmount,          \* amount moved to the exit tree in this attempt
  l1CoordinatorTxs, selectedTxs, iteSelectedTxs, nonSelectedTxs,
  discardedTxs, coordIdxs, accAuths,
  vState,              \* verifier: "run", "l1", "idle" (ended / exited)
  vTxs,                \* txs the verifier has still to verify
  vNL1, vNL2,          \* L1 / L2 txs already in the batch, as it counts them
  vCur,                \* the tx waiting for its L1 coordinator txs
  vL1s,                \* messages still to send for vCur
  msg                  \* the message on offer on the unbuffered channels

dbVars   == << accounts, checkpoint, batchNum, auths, pool, nLate, pending, startState >>
selVars  == << failedAtomicGroups, info, pc, accumulatedFees, exitAmount,
              l1CoordinatorTxs, selectedTxs, iteSelectedTxs, nonSelectedTxs,
              discardedTxs, coordIdxs, accAuths >>
verVars  == << vState, vTxs, vNL1, vNL2, vCur, vL1s, msg >>
vars     == << dbVars, selVars, verVars >>

NoMsg == [kind |-> "none", tx |-> NoTx]

-----------------------------------------------------------------------------
(* Capacity checks of the selection loop *)

\* Mutant: the total bound checked with <= (off by one).
canAddL2TxThatNeedsNewCoordL1TxLe(nAddedL1Txs, nAddedL2txs) ==
  /\ nAddedL1Txs < MaxL1Tx
  /\ nAddedL1Txs + nAddedL2txs + 1 <= MaxTx

canAddL2TxThatNeedsNewCoordL1Tx(nAddedL1Txs, nAddedL2txs) ==
  /\ nAddedL1Txs < MaxL1Tx
  /\ nAddedL1Txs + nAddedL2txs + 1 < MaxTx

canAddL2Tx(nAddedL1Txs, nAddedL2txs) == nAddedL1Txs + nAddedL2txs < MaxTx

-----------------------------------------------------------------------------
(* The verifier's classification of one tx (spec 4.3, 4.3.3, 4.3.4) *)

L1Msg(user, token) ==
  [kind |-> "l1", tx |-> [type |-> "CreateAccountDeposit", user |-> user,
                          token |-> token, deposit |-> 0]]
AuthMsg(user, token) == [kind |-> "auth", tx |-> << user, token >>]

\* The L1 coordinator txs (and used authorisation) tx needs: a coordinator
\* account for its token when getCoordIdx finds none (coordAccountForTokenID),
\* then a recipient account for ToEthAddr / ToBJJ (spec 4.3.4).
NeededL1s(accts, tx) ==
  LET coord == IF HasAccount(accts, Coord, tx.token) THEN << >>
               ELSE << L1Msg(Coord, tx.token) >>
      rcpt  == IF tx.type \notin {"TransferToEthAddr", "TransferToBJJ"}
                  \/ HasAccount(accts, tx.to, tx.token) THEN << >>
               ELSE IF tx.type = "TransferToEthAddr"
                    THEN << AuthMsg(tx.to, tx.token), L1Msg(tx.to, tx.token) >>
                    ELSE << L1Msg(tx.to, tx.token) >>
  IN  coord \o rcpt

NumL1s(msgs) == Len(SelectSeq(msgs, LAMBDA m : m.kind = "l1"))

\* Can never be forged as it is: discarded (invalid in the pool).
Unforjable(accts, tx) ==
  \/ tx.type = "Exit" /\ tx.amount = 0
  \/ tx.from \notin DOMAIN accts
  \/ accts[tx.from].token # tx.token
  \/ tx.nonce < accts[tx.from].nonce
  \/ tx.type = "Transfer" /\ (tx.to \notin DOMAIN accts \/ accts[tx.to].token # tx.token)
  \/ /\ tx.type = "TransferToEthAddr"
     /\ ~HasAccount(accts, tx.to, tx.token)
     /\ << tx.to, tx.token >> \notin auths

\* The tx and its L1 coordinator txs fit in the batch.
Fits(nL1, nL2, k) ==
  IF k = 0 THEN canAddL2Tx(nL1, nL2)
  ELSE \A j \in 0..(k - 1) : canAddL2TxThatNeedsNewCoordL1Tx(nL1 + j, nL2)

\* Mutant: the sender's balance is not checked.
NotYetSelectableNoBalance(accts, tx, nL1, nL2) ==
  \/ tx.nonce > accts[tx.from].nonce
  \/ ~Fits(nL1, nL2, NumL1s(NeededL1s(accts, tx)))

\* Not selectable now, may become so later in this selection.
NotYetSelectable(accts, tx, nL1, nL2) ==
  \/ tx.nonce > accts[tx.from].nonce
  \/ accts[tx.from].balance < tx.amount + tx.fee
  \/ ~Fits(nL1, nL2, NumL1s(NeededL1s(accts, tx)))

Rejection(accts, tx, nL1, nL2) ==
  IF Unforjable(accts, tx) THEN "unforjable"
  ELSE IF NotYetSelectable(accts, tx, nL1, nL2) THEN "nonSelected"
  ELSE "none"

-----------------------------------------------------------------------------
Init ==
  /\ accounts \in InitStates
  /\ checkpoint = accounts
  /\ startState = accounts
  /\ batchNum = 0
  /\ auths \in AuthChoices
  /\ pool \in PoolChoices
  /\ nLate = 0
  /\ pending = << >>
  /\ failedAtomicGroups = << >>
  /\ info = << >>
  /\ pc = "start"
  /\ accumulatedFees = << >>
  /\ exitAmount = 0
  /\ l1CoordinatorTxs = << >> /\ selectedTxs = << >> /\ iteSelectedTxs = << >>
  /\ nonSelectedTxs = << >> /\ discardedTxs = << >> /\ coordIdxs = << >>
  /\ accAuths = << >>
  /\ vState = "idle" /\ vTxs = << >> /\ vNL1 = 0 /\ vNL2 = 0
  /\ vCur = NoTx /\ vL1s = << >> /\ msg = NoMsg

-----------------------------------------------------------------------------
(* Main goroutine *)

\* The pool after the two atomic-group filters.
Filtered ==
  LET f1 == FilterFailedAtomicGroups(pool, failedAtomicGroups)
      f2 == FilterInvalidAtomicGroups(f1[1])
  IN  [selectable |-> f2[1], discarded |-> f1[2] \o f2[2],
       info |-> FailedAtomicGroupsInfo(pool, failedAtomicGroups)
                  @@ InvalidAtomicGroupsInfo(f1[1])]

\* Mutant: selectedTxs is declared outside START_SELECTION and survives a
\* restart.
NewAttemptKeepSelected ==
  /\ accumulatedFees' = << >>
  /\ exitAmount' = 0
  /\ l1CoordinatorTxs' = << >> /\ selectedTxs' = selectedTxs /\ iteSelectedTxs' = << >>
  /\ nonSelectedTxs' = << >> /\ coordIdxs' = << >> /\ accAuths' = << >>

\* A fresh TxProcessor and fresh selection arrays for this attempt.
NewAttempt ==
  /\ accumulatedFees' = << >>
  /\ exitAmount' = 0
  /\ l1CoordinatorTxs' = << >> /\ selectedTxs' = << >> /\ iteSelectedTxs' = << >>
  /\ nonSelectedTxs' = << >> /\ coordIdxs' = << >> /\ accAuths' = << >>

\* go txsel.verifyTxs(verifier, txs, nL1, nL2)
LaunchVerifier(txs, nL1, nL2) ==
  /\ vState' = "run" /\ vTxs' = txs /\ vNL1' = nL1 /\ vNL2' = nL2
  /\ vCur' = NoTx /\ vL1s' = << >> /\ msg' = NoMsg

\* START_SELECTION: process the L1 user txs, read and filter the pool, sort
\* it and start verifying it.
StartSelection ==
  /\ pc = "start"
  /\ Filtered.selectable # << >>
  /\ accounts' = ProcessL1Txs(accounts, L1UserTxs)
  /\ pending' = pool
  /\ discardedTxs' = Filtered.discarded
  /\ info' = Filtered.info
  /\ NewAttempt
  /\ \E order \in GroupOrders(Filtered.selectable) :
       LaunchVerifier(SortL2Txs(Filtered.selectable, order), Len(L1UserTxs), 0)
  /\ pc' = "loop"
  /\ UNCHANGED << checkpoint, batchNum, auths, pool, nLate, startState, failedAtomicGroups >>

\* No L2 tx to forge: checkpoint the L1 user txs and return.
StartSelectionEmpty ==
  /\ pc = "start"
  /\ Filtered.selectable = << >>
  /\ accounts' = ProcessL1Txs(accounts, L1UserTxs)
  /\ checkpoint' = accounts'
  /\ batchNum' = batchNum + 1
  /\ pending' = pool
  /\ discardedTxs' = Filtered.discarded
  /\ info' = Filtered.info
  /\ NewAttempt
  /\ pc' = "done"
  /\ UNCHANGED << auths, pool, nLate, startState, failedAtomicGroups, verVars >>

Receive(kind) == pc = "loop" /\ msg.kind = kind /\ msg' = NoMsg

\* Mutant: the L1 coordinator tx is kept but never processed.
ReceiveL1NoProcess ==
  /\ Receive("l1")
  /\ l1CoordinatorTxs' = Append(l1CoordinatorTxs, msg.tx)
  /\ UNCHANGED << accounts, checkpoint, batchNum, auths, pool, nLate, pending, startState, failedAtomicGroups, info,
                  pc, accumulatedFees, exitAmount, selectedTxs, iteSelectedTxs,
                  nonSelectedTxs, discardedTxs, coordIdxs, accAuths,
                  vState, vTxs, vNL1, vNL2, vCur, vL1s >>

\* case txsL1ToBeProcessedChan: process it, keep it, l1TxsWg.Done()
ReceiveL1 ==
  /\ Receive("l1")
  /\ accounts' = ProcessL1Tx(accounts, msg.tx)
  /\ l1CoordinatorTxs' = Append(l1CoordinatorTxs, msg.tx)
  /\ UNCHANGED << checkpoint, batchNum, auths, pool, nLate, pending, startState, failedAtomicGroups, info, pc,
                  accumulatedFees, exitAmount, selectedTxs, iteSelectedTxs,
                  nonSelectedTxs, discardedTxs, coordIdxs, accAuths,
                  vState, vTxs, vNL1, vNL2, vCur, vL1s >>

ReceiveNonSelected ==
  /\ Receive("nonSelected")
  /\ nonSelectedTxs' = Append(nonSelectedTxs, msg.tx)
  /\ UNCHANGED << dbVars, failedAtomicGroups, info, pc, accumulatedFees, exitAmount,
                  l1CoordinatorTxs, selectedTxs, iteSelectedTxs, discardedTxs,
                  coordIdxs, accAuths, vState, vTxs, vNL1, vNL2, vCur, vL1s >>

\* Mutant: the coordinator Idx is never recorded in coordIdxs.
ReceiveSelectedNoCoordIdx ==
  /\ Receive("selected")
  /\ IdxOf(accounts, Coord, accounts[msg.tx.from].token) # 0
  /\ iteSelectedTxs' = Append(iteSelectedTxs, msg.tx)
  /\ selectedTxs' = Append(selectedTxs, msg.tx)
  /\ UNCHANGED << dbVars, failedAtomicGroups, info, pc, accumulatedFees, exitAmount,
                  l1CoordinatorTxs, nonSelectedTxs, discardedTxs, coordIdxs, accAuths,
                  vState, vTxs, vNL1, vNL2, vCur, vL1s >>

\* case selectedL2TxsChan: keep it and the coordinator Idx of its token.
ReceiveSelected ==
  /\ Receive("selected")
  /\ LET coordIdx == IdxOf(accounts, Coord, accounts[msg.tx.from].token)
     IN  /\ coordIdx # 0
         /\ coordIdxs' = IF coordIdx \in Range(coordIdxs) THEN coordIdxs
                         ELSE Append(coordIdxs, coordIdx)
  /\ iteSelectedTxs' = Append(iteSelectedTxs, msg.tx)
  /\ selectedTxs' = Append(selectedTxs, msg.tx)
  /\ UNCHANGED << dbVars, failedAtomicGroups, info, pc, accumulatedFees, exitAmount,
                  l1CoordinatorTxs, nonSelectedTxs, discardedTxs, accAuths,
                  vState, vTxs, vNL1, vNL2, vCur, vL1s >>

ReceiveUnforjable ==
  /\ Receive("unforjable")
  /\ discardedTxs' = Append(discardedTxs, msg.tx)
  /\ UNCHANGED << dbVars, failedAtomicGroups, info, pc, accumulatedFees, exitAmount,
                  l1CoordinatorTxs, selectedTxs, iteSelectedTxs, nonSelectedTxs,
                  coordIdxs, accAuths, vState, vTxs, vNL1, vNL2, vCur, vL1s >>

ReceiveAccAuth ==
  /\ Receive("auth")
  /\ accAuths' = Append(accAuths, msg.tx)
  /\ UNCHANGED << dbVars, failedAtomicGroups, info, pc, accumulatedFees, exitAmount,
                  l1CoordinatorTxs, selectedTxs, iteSelectedTxs, nonSelectedTxs,
                  discardedTxs, coordIdxs, vState, vTxs, vNL1, vNL2, vCur, vL1s >>

\* Mutant: goto START_SELECTION without the Reset of the local StateDB.
ReceiveFailedAtomicGroupNoReset ==
  /\ Receive("failedAG")
  /\ failedAtomicGroups' = (msg.tx.id :> msg.tx) @@ failedAtomicGroups
  /\ pc' = "start"
  /\ UNCHANGED << accounts, checkpoint, batchNum, auths, pool, nLate, pending, startState, info,
                  accumulatedFees, exitAmount, l1CoordinatorTxs, selectedTxs,
                  iteSelectedTxs, nonSelectedTxs, discardedTxs, coordIdxs, accAuths,
                  vState, vTxs, vNL1, vNL2, vCur, vL1s >>

\* case failedAGChan: exclude the group, Reset(CurrentBatch(), false) and
\* goto START_SELECTION.
ReceiveFailedAtomicGroup ==
  /\ Receive("failedAG")
  /\ failedAtomicGroups' = (msg.tx.id :> msg.tx) @@ failedAtomicGroups
  /\ accounts' = checkpoint
  /\ pc' = "start"
  /\ UNCHANGED << checkpoint, batchNum, auths, pool, nLate, pending, startState, info,
                  accumulatedFees, exitAmount, l1CoordinatorTxs, selectedTxs, iteSelectedTxs,
                  nonSelectedTxs, discardedTxs, coordIdxs, accAuths,
                  vState, vTxs, vNL1, vNL2, vCur, vL1s >>

\* Accumulated fees to pay: coordinator Idx -> fee, for fee > 0.
FeesToPay == { idx \in DOMAIN accumulatedFees : accumulatedFees[idx] > 0 }

\* case verificationEnded with nothing selected in this iteration: discard
\* the non-selected txs, sort coordIdxs, pay the accumulated fees to the
\* coordinator accounts, MakeCheckpoint and return.
ReceiveEndedFinish ==
  /\ Receive("ended")
  /\ iteSelectedTxs = << >>
  /\ FeesToPay \subseteq DOMAIN accounts
  /\ accounts' = [i \in DOMAIN accounts |->
                    IF i \in FeesToPay
                    THEN [accounts[i] EXCEPT !.balance = @ + accumulatedFees[i]]
                    ELSE accounts[i]]
  /\ checkpoint' = accounts'
  /\ batchNum' = batchNum + 1
  /\ discardedTxs' = discardedTxs \o nonSelectedTxs
  /\ coordIdxs' = SortSeq(coordIdxs, <)
  /\ pc' = "done"
  /\ UNCHANGED << auths, pool, nLate, pending, startState, failedAtomicGroups, info, accumulatedFees, exitAmount,
                  l1CoordinatorTxs, selectedTxs, iteSelectedTxs, nonSelectedTxs,
                  accAuths, vState, vTxs, vNL1, vNL2, vCur, vL1s >>

\* Mutant: nonSelectedTxs is not emptied before the next iteration.
ReceiveEndedNextIterationKeepNonSelected ==
  /\ Receive("ended")
  /\ iteSelectedTxs # << >>
  /\ iteSelectedTxs' = << >>
  /\ LaunchVerifier(nonSelectedTxs, Len(L1UserTxs) + Len(l1CoordinatorTxs),
                    Len(selectedTxs))
  /\ UNCHANGED << dbVars, failedAtomicGroups, info, pc, accumulatedFees, exitAmount,
                  l1CoordinatorTxs, selectedTxs, nonSelectedTxs, discardedTxs,
                  coordIdxs, accAuths >>

\* case verificationEnded after an iteration that selected something: verify
\* the non-selected txs again.
ReceiveEndedNextIteration ==
  /\ Receive("ended")
  /\ iteSelectedTxs # << >>
  /\ iteSelectedTxs' = << >>
  /\ nonSelectedTxs' = << >>
  /\ LaunchVerifier(nonSelectedTxs, Len(L1UserTxs) + Len(l1CoordinatorTxs),
                    Len(selectedTxs))
  /\ UNCHANGED << dbVars, failedAtomicGroups, info, pc, accumulatedFees, exitAmount,
                  l1CoordinatorTxs, selectedTxs, discardedTxs, coordIdxs, accAuths >>

-----------------------------------------------------------------------------
(* Verifier goroutine *)

\* tp.ProcessL2Tx: apply the tx, accrue its fee to the coordinator account
\* of its token.
ApplyL2Tx(tx) ==
  /\ accounts' = ProcessL2Tx(accounts, tx)
  /\ accumulatedFees' = AddFee(accumulatedFees, IdxOf(accounts, Coord, tx.token), tx.fee)
  /\ exitAmount' = exitAmount + (IF tx.type = "Exit" THEN tx.amount ELSE 0)

VerifierReady == vState = "run" /\ vTxs # << >> /\ msg = NoMsg

\* A tx that needs no new account: apply it and send it on selectedL2TxsChan.
VerifierSelect ==
  /\ VerifierReady
  /\ LET tx == Head(vTxs)
     IN  /\ Rejection(accounts, tx, vNL1, vNL2) = "none"
         /\ NeededL1s(accounts, tx) = << >>
         /\ ApplyL2Tx(tx)
         /\ msg' = [kind |-> "selected", tx |-> tx]
  /\ vTxs' = Tail(vTxs)
  /\ vNL2' = vNL2 + 1
  /\ UNCHANGED << checkpoint, batchNum, auths, pool, nLate, pending, startState, failedAtomicGroups, info, pc,
                  l1CoordinatorTxs, selectedTxs, iteSelectedTxs, nonSelectedTxs,
                  discardedTxs, coordIdxs, accAuths, vState, vNL1, vCur, vL1s >>

\* A tx that needs L1 coordinator txs: queue them (and the authorisation).
VerifierNeedsL1 ==
  /\ VerifierReady
  /\ LET tx == Head(vTxs)
     IN  /\ Rejection(accounts, tx, vNL1, vNL2) = "none"
         /\ NeededL1s(accounts, tx) # << >>
         /\ vL1s' = NeededL1s(accounts, tx)
         /\ vCur' = tx
  /\ vTxs' = Tail(vTxs)
  /\ vState' = "l1"
  /\ UNCHANGED << dbVars, selVars, vNL1, vNL2, msg >>

\* Send the next L1 coordinator tx or authorisation.
VerifierSendL1 ==
  /\ vState = "l1" /\ vL1s # << >> /\ msg = NoMsg
  /\ msg' = Head(vL1s)
  /\ vL1s' = Tail(vL1s)
  /\ vNL1' = vNL1 + (IF Head(vL1s).kind = "l1" THEN 1 ELSE 0)
  /\ UNCHANGED << dbVars, selVars, vState, vTxs, vNL2, vCur >>

\* l1TxsWg.Wait() has returned: apply the tx and send it as selected.
VerifierProcessL2 ==
  /\ vState = "l1" /\ vL1s = << >> /\ msg = NoMsg
  /\ ApplyL2Tx(vCur)
  /\ msg' = [kind |-> "selected", tx |-> vCur]
  /\ vNL2' = vNL2 + 1
  /\ vState' = "run"
  /\ vCur' = NoTx
  /\ UNCHANGED << checkpoint, batchNum, auths, pool, nLate, pending, startState, failedAtomicGroups, info, pc,
                  l1CoordinatorTxs, selectedTxs, iteSelectedTxs, nonSelectedTxs,
                  discardedTxs, coordIdxs, accAuths, vTxs, vNL1, vL1s >>

\* A non-atomic tx that cannot be selected: nonSelected or unforjable.
VerifierReject ==
  /\ VerifierReady
  /\ LET tx == Head(vTxs)
     IN  /\ ~IsAtomic(tx)
         /\ Rejection(accounts, tx, vNL1, vNL2) # "none"
         /\ msg' = [kind |-> Rejection(accounts, tx, vNL1, vNL2), tx |-> tx]
  /\ vTxs' = Tail(vTxs)
  /\ UNCHANGED << dbVars, selVars, vState, vNL1, vNL2, vCur, vL1s >>

\* The TxSelectorError the verifier attaches to a rejected tx.
RejectionError(kind) == [code |-> kind, msg |-> kind]

\* An atomic tx that cannot be selected: report the group as a
\* failedAtomicGroup [id, failedTxID, reason] and stop.
VerifierFailAtomic ==
  /\ VerifierReady
  /\ LET tx == Head(vTxs)
     IN  /\ IsAtomic(tx)
         /\ Rejection(accounts, tx, vNL1, vNL2) # "none"
         /\ msg' = [kind |-> "failedAG",
                    tx |-> [id |-> tx.group, failedTxID |-> tx.id,
                            reason |-> RejectionError(Rejection(accounts, tx, vNL1, vNL2))]]
  /\ vTxs' = << >>
  /\ vState' = "idle"
  /\ UNCHANGED << dbVars, selVars, vNL1, vNL2, vCur, vL1s >>

\* txsWg.Wait() returns: verificationEnded <- 1
VerificationEnded ==
  /\ vState = "run" /\ vTxs = << >> /\ msg = NoMsg
  /\ msg' = [kind |-> "ended", tx |-> NoTx]
  /\ vState' = "idle"
  /\ UNCHANGED << dbVars, selVars, vTxs, vNL1, vNL2, vCur, vL1s >>

-----------------------------------------------------------------------------
(* The pool API, concurrently *)

\* AddTxAPI / AddAtomicTxsAPI commits the next submission, all its txs in
\* one DB transaction, while the selection runs.
AddToPool ==
  /\ pc # "done"
  /\ nLate < Len(LateSubmissions)
  /\ pool' = pool \o LateSubmissions[nLate + 1]
  /\ nLate' = nLate + 1
  /\ UNCHANGED << accounts, checkpoint, batchNum, auths, pending, startState,
                  selVars, verVars >>

-----------------------------------------------------------------------------
Main ==
  \/ StartSelection \/ StartSelectionEmpty
  \/ ReceiveL1 \/ ReceiveNonSelected \/ ReceiveSelected
  \/ ReceiveUnforjable \/ ReceiveAccAuth \/ ReceiveFailedAtomicGroup
  \/ ReceiveEndedFinish \/ ReceiveEndedNextIteration

Verifier ==
  \/ VerifierSelect \/ VerifierNeedsL1 \/ VerifierSendL1 \/ VerifierProcessL2
  \/ VerifierReject \/ VerifierFailAtomic \/ VerificationEnded

Next == Main \/ Verifier \/ AddToPool

\* Both goroutines are scheduled whenever they can run; the API may or may
\* not commit more submissions.
Spec == Init /\ [][Next]_vars /\ WF_vars(Main) /\ WF_vars(Verifier)


-----------------------------------------------------------------------------
(* Properties *)

TypeOK ==
  /\ \A i \in DOMAIN accounts :
       accounts[i] \in [user : Users \cup {Coord}, token : Tokens,
                        balance : Nat, nonce : Nat]
  /\ checkpoint \in [DOMAIN checkpoint -> Range(checkpoint)]
  /\ pc \in {"start", "loop", "done"}
  /\ vState \in {"run", "l1", "idle"}
  /\ DOMAIN failedAtomicGroups \subseteq GroupsIn(pool)
  /\ selectedTxs \in Seq(Range(pool))
  /\ discardedTxs \in Seq(Range(pool))
  /\ msg.kind \in {"none", "l1", "auth", "selected", "nonSelected",
                   "unforjable", "failedAG", "ended"}
  /\ vNL1 \in Nat /\ vNL2 \in Nat

DepositSum == FoldSeq(LAMBDA l1, acc : l1.deposit + acc, 0, L1UserTxs)

\* The returned batch fits the protocol's limits (spec 8.4): the L1 user
\* txs plus the L1 coordinator txs the verifier synthesised stay within
\* MaxL1Tx, and with the selected L2 txs within MaxTx.  The verifier counts
\* these from numbers the main goroutine hands it at every iteration.
SelectionWithinCapacity ==
  pc = "done" =>
    /\ Len(L1UserTxs) + Len(l1CoordinatorTxs) <= MaxL1Tx
    /\ Len(L1UserTxs) + Len(l1CoordinatorTxs) + Len(selectedTxs) <= MaxTx

\* Atomic groups forge whole or not at all (spec 8.5): after any number of
\* restarts, every group of the pool has all or none of its txs selected.
AtomicGroupsAllOrNothing ==
  pc = "done" =>
    \A g \in GroupsIn(pending) :
      LET members == ToSet(Members(pending, g))
      IN  members \subseteq Range(selectedTxs) \/ members \cap Range(selectedTxs) = {}

\* The L2 txs of the batch are forged in the order of selectedTxs, and the
\* circuit resolves an atomic tx's RqOffset relative to that position: it
\* must land on the tx the Rq* fields describe, whatever iterations and
\* restarts built the list.
RqOffsetsResolveInSelection ==
  pc = "done" =>
    \A i \in DOMAIN selectedTxs :
      IsAtomic(selectedTxs[i]) =>
        LET rq == RequestOffset2RelativePosition(selectedTxs[i].rqOffset)
        IN  /\ rq.ok
            /\ i + rq.pos \in DOMAIN selectedTxs
            /\ selectedTxs[i + rq.pos].id = selectedTxs[i].rqTx

\* Every pending tx comes back exactly once, selected or discarded: no tx
\* is lost or duplicated across the iterations and restarts of the loop.
PendingTxsSelectedOrDiscardedOnce ==
  pc = "done" =>
    \A t \in Range(pending) :
      LET out == selectedTxs \o discardedTxs
      IN  Cardinality({ i \in DOMAIN out : out[i] = t }) = 1

\* Spec 7: when an atomic tx fails, its group is rolled back and excluded,
\* and "individual member error codes propagate to pool annotations".  In
\* the returned selection every member of a group that failed in an
\* earlier attempt is discarded and annotated: exactly one member, the tx
\* whose rejection failed the group, keeps its own error, and every other
\* member's error names the group, that tx and its error.
FailedGroupsAnnotated ==
  pc = "done" =>
    \A g \in DOMAIN failedAtomicGroups :
      LET ms == ToSet(Members(pending, g))
      IN  /\ ms \subseteq Range(discardedTxs) \cap DOMAIN info
          /\ \E o \in ms :
               /\ info[o].code # "InvalidAtomicGroup"
               /\ \A t \in ms \ {o} :
                    info[t] = [code |-> "InvalidAtomicGroup", msg |-> << g, o.id, info[o].msg >>]

\* The abstract specification under the refinement mapping: the selection
\* has returned when pc = "done", and what it returned is its L1
\* coordinator txs, selected and discarded txs and coordIdxs.
BS == INSTANCE BatchSelection WITH
        returned <- pc = "done",
        batch <- IF pc = "done"
                 THEN [l1Coord |-> l1CoordinatorTxs, l2 |-> selectedTxs,
                       discarded |-> discardedTxs, coordIdxs |-> coordIdxs]
                 ELSE [l1Coord |-> << >>, l2 |-> << >>, discarded |-> << >>,
                       coordIdxs |-> << >>]

\* getL1L2TxSelection implements BatchSelection: however the two goroutines
\* interleave and however often the selection restarts, the checkpoint and
\* batch number do not move until it returns, and then move once to what
\* the BatchBuilder reaches by replaying the returned batch from the same
\* start in canonical order (all L1 txs first), with the fees of each
\* token paid to the one coordinator Idx of that token, while the selector
\* applied the L1 coordinator txs interleaved with the L2 txs.
BatchSelectionRefined == BS!Spec

\* Conservation (spec 8.2): while selecting, balances plus fees accrued plus
\* exits equal the starting balances plus the L1 deposits; once returned,
\* the fees are in the coordinator accounts.  A restart must drop the
\* failed attempt's effects and fees.
BalancesConserved ==
  /\ pc = "loop" =>
       SumBalances(accounts) + SumFunction(accumulatedFees) + exitAmount
         = SumBalances(startState) + DepositSum
  /\ pc = "done" =>
       SumBalances(checkpoint) + exitAmount = SumBalances(startState) + DepositSum

\* The selection never takes one of its error returns: getCoordIdx finds a
\* coordinator account for the token of every tx the verifier reports as
\* selected, and every Idx that accrued a fee has an account to pay it to.
\* Both hold only if the verifier waited for the main goroutine to process
\* the L1 coordinator txs before applying the L2 tx.
NoSelectionError ==
  /\ pc = "loop" /\ msg.kind = "selected" =>
       HasAccount(accounts, Coord, accounts[msg.tx.from].token)
  /\ pc = "loop" /\ msg.kind = "ended" /\ iteSelectedTxs = << >> =>
       FeesToPay \subseteq DOMAIN accounts

\* Every selection returns (the restarts and iterations end), given that
\* the Go scheduler runs both goroutines.
SelectionTerminates == <>(pc = "done")

=============================================================================
