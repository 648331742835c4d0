--------------------------- MODULE BatchSelection ---------------------------
(***************************************************************************)
(* What one selection promises its caller (the BatchBuilder, spec 2):     *)
(* seen from the local StateDB, the selection of a batch is one atomic    *)
(* step.  Until it returns, the StateDB's checkpoint and batch number are *)
(* those it started from; when it returns they advance once, to the state *)
(* reached by replaying the returned batch (L1 user txs, L1 coordinator   *)
(* txs, L2 txs, coordinator Idxs) from that start in canonical order,     *)
(* and that replay succeeds.  TxSelector implements this specification.  *)
(***************************************************************************)
EXTENDS Integers, Sequences, SequencesExt, FiniteSets, Functions, TxProcessor

CONSTANTS
  L1UserTxs,    \* the L1 user txs this batch must forge
  InitStates    \* possible checkpoints the local StateDB starts from

VARIABLES
  startState,  \* the checkpoint the selection started from
  checkpoint,  \* the local StateDB's last checkpoint
  batchNum,    \* the local StateDB's current batch
  returned,    \* the selection has returned
  batch        \* what it returned: [l1Coord, l2, discarded, coordIdxs]

vars == << startState, checkpoint, batchNum, returned, batch >>

NoBatch == [l1Coord |-> << >>, l2 |-> << >>, discarded |-> << >>, coordIdxs |-> << >>]

Replay(b) == ProcessBatch(startState, L1UserTxs \o b.l1Coord, b.l2, b.coordIdxs)

Init ==
  /\ checkpoint \in InitStates
  /\ startState = checkpoint
  /\ batchNum = 0
  /\ returned = FALSE
  /\ batch = NoBatch

\* The selection returns a batch; the StateDB moves to its replay.
Select ==
  /\ ~returned
  /\ returned' = TRUE
  /\ Replay(batch').ok
  /\ checkpoint' = Replay(batch').accts
  /\ batchNum' = batchNum + 1
  /\ UNCHANGED startState

Spec == Init /\ [][Select]_vars

=============================================================================
