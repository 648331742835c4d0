# TLA+ models of the Hermez node's transaction selection

This directory holds TLA+ specifications of the transaction selector of the
Hermez zk-rollup node, the code that chooses which pool transactions go into
the next batch, and of the API endpoints that admit transactions into that
pool. Modules are checked with TLC. Every definition is translated
from the Go source under `src/`. Where the code a definition needs is not
under `src/` (StateDB, TxProcessor, the verifier's internals), it is
translated from `spec.md` and marked `spec_modelled` in `PROJECT.json`.

## 1. The system

| Part | Source | State | Operations | Talks to |
|---|---|---|---|---|
| TxSelector | `src/unnamed/part_002` | local StateDB (accounts, checkpoint), `failedAtomicGroups`, per-attempt selection arrays, fee accumulator | `getL1L2TxSelection` and its select loop; `Reset`; `getCoordIdx`; `coordAccountForTokenID` | L2DB (pending txs), verifier goroutine, TxProcessor, StateDB |
| Atomic-group filters and sort | `src/unnamed/part_002` 468-716 | none (pure) | `filterFailedAtomicGroups`, `filterInvalidAtomicGroups`, `isAtomicGroupValid`, `calculateAtomicGroupsAverageFee`, `sortL2Txs` | used at START_SELECTION |
| Verifier | launched at `part_002` 441-462; the body is not under `src/` | the txs still to verify, its L1/L2 counts, the tx waiting for its L1 coordinator txs | classify each tx; request L1 coordinator txs; apply selected L2 txs; report on channels | main goroutine, over eight unbuffered channels |
| Pool admission API | `src/api/txspool.go` | the L2DB pool (external) | `postPoolTx`, `postAtomicPool`, `requestOffset2RelativePosition`, `isSingleAtomicGroup`, `verifyPoolL2Tx` | HistoryDB (sender accounts), L2DB |
| PoolL2Tx type | `src/common/pooll2tx.go` | none | `NewPoolL2Tx`, `SetType`, `SetID`, `TxCompressedData*`, `HashToSign`, `VerifySignature` | pool admission (`verifyPoolL2Tx`) |
| StateDB, TxProcessor, L2DB | not under `src/` (spec 4.1, 4.2) | accounts, checkpoints, accumulated fees, pool rows | `ProcessL1Tx`, `ProcessL2Tx`, `Reset`, `MakeCheckpoint`, `GetPendingTxs` | selector |
| Coordinator `BatchInfo`, HistoryDB types, tests, CI | `src/coordinator/batch.go`, `src/unnamed/part_003`, tests, yml | data only | JSON dump | none |

**How one selection runs.** `getL1L2TxSelection` (`part_002` 224-439)
runs in five steps:

1. At `START_SELECTION` it applies the L1 user txs to the local StateDB.
2. It reads the pending txs and drops the groups that failed earlier in this
   call and the groups whose RqOffsets do not resolve.
3. It sorts the rest by fee. Each atomic group counts with its average fee
   and keeps its members together.
4. It starts the verifier goroutine on the sorted list and serves the
   verifier's channels in a `select` loop:
   - An L1 coordinator tx that the verifier asks for is processed on the
     main goroutine. The verifier waits for that before applying the L2 tx.
   - A selected tx is recorded with the coordinator Idx of its token.
   - Non-selected and unforjable txs are collected.
   - A failed atomic group causes `Reset(CurrentBatch(), false)` and a
     `goto START_SELECTION` with the group excluded.
   - On `verificationEnded`, if the iteration selected something, the
     non-selected txs are verified again. Otherwise the non-selected txs are
     discarded, the accumulated fees are paid into the coordinator accounts,
     the StateDB is checkpointed and the selection returns.
5. The caller (BatchBuilder) then replays the returned L1 user, L1
   coordinator and L2 txs in canonical order from the same checkpoint.

**What makes it hard.**
- Two goroutines share one StateDB and one TxProcessor.
- A restart must undo an attempt that is already half applied.
- Capacity is counted across iterations, from numbers handed to a fresh
  verifier each time.
- The order comes from a Go map iteration.
- The selector applies L1 coordinator txs interleaved with L2 txs, while the
  batch is replayed with all L1 txs first.
- The pool admits an atomic group by RqTxID. The selector validates it by
  RqOffset and the Rq* fields.
- Admission derives a tx's Type and TxID on a copy of the tx, and the
  signature binds the tx only as far as the byte packing keeps every field
  apart.

## 2. Modules

| Module | Models | Kind |
|---|---|---|
| `Float64` | Go's float64 `+=` and `/` as `calculateAtomicGroupsAverageFee` uses them: exact dyadic values rounded to `Precision` significant bits, ties to even | pure operators |
| `AtomicGroups` | `requestOffset2RelativePosition`, `isAtomicGroupValid`, `calculateAtomicGroupsAverageFee`, the two filters with the `Info` of the txs they discard (`setInfoForFailedAtomicTx`), and `sortL2Txs` (its merge loop as the RECURSIVE `MergeL2Txs`) | pure operators |
| `TxProcessor` | the StateDB and TxProcessor operations the selector and the BatchBuilder use (spec 4.1, 4.2), including `ProcessBatch`, a canonical replay of a batch | pure operators |
| `BatchSelection` | what a selection promises its caller: one atomic step from the start checkpoint to the replay of the returned batch | abstract specification |
| `TxSelector` | `getL1L2TxSelection` with the verifier goroutine, and the refinement mapping to `BatchSelection` | state machine |
| `MC_TxSelector` | a pool of 6 txs, 64 starting states; 3 txs the API may commit during the selection | model instance |
| `SelectorLifecycle` | the selector across batches: `NewTxSelector`, `Reset`, `GetL1L2TxSelection`/`GetL2TxSelection` as one step each, the error returns of `getL1L2TxSelection`, the caller that resets, drops and re-forks, and the chain the synchronizer follows | state machine over `TxProcessor` |
| `MC_SelectorLifecycle` | three accounts, two one-transfer batches that replay only in order, an L1 deposit, batches 0..3 | model instance |
| `SortL2Txs` | the filter and sort steps as two actions over a chosen pool | state machine over pure operators |
| `MC_SortL2Txs` | 486 pools of 6 txs (fees 1..3) | model instance |
| `PoolAdmission` | `postPoolTx`, `postAtomicPool` (Rq* copy, `isSingleAtomicGroup`), `verifyPoolL2Tx`, `SetType`/`SetID`/`NewPoolL2Tx` | state machine |
| `MC_PoolAdmission` | 3 accounts, 8 atomic submissions, 8 single txs; 4 more singles for `SetType` and one without TxID and Type | model instance |
| `TxCompressedData` | `TxCompressedData`, `TxCompressedDataV2`, `RqTxCompressedDataV2`, `HashToSign`, `VerifySignature`: a client signs, a relayer may change one field, the node verifies | state machine over pure operators |
| `MC_TxCompressedData` | bytes of two values, two signed txs, two chain ids, one-field changes at the width boundaries | model instance |

### TxSelector: state and actions against the code

The main goroutine's program counter is `pc`: `"start"` is the label
`START_SELECTION`, `"loop"` is the `for`/`select`, and `"done"` is the
return. The verifier goroutine's state is `vState`, `vTxs`, `vNL1`, `vNL2`,
`vCur` and `vL1s`. `failedAtomicGroups` maps a group ID to the
`failedAtomicGroup` record the verifier reported (`id`, `failedTxID`,
`reason`). `info` is the `Info`/`ErrorCode` that the two pool filters
write on the txs they discard. The one message on offer on the unbuffered channels is
`msg`. A send completes when the main goroutine receives it, and the
verifier's next step waits for that (`msg = NoMsg`).

| Action | Code |
|---|---|
| `StartSelection` / `StartSelectionEmpty` | 261-337: process L1 user txs, `GetPendingTxs`, both filters, either the early return with `MakeCheckpoint` (287-301) or a fresh selection (`NewAttempt`), `sortL2Txs`, `go verifyTxs` |
| `ReceiveL1` | case `txsL1ToBeProcessedChan` (346-352) |
| `ReceiveNonSelected`, `ReceiveUnforjable`, `ReceiveAccAuth` | the three collecting cases (353-354, 375-378) |
| `ReceiveSelected` | case `selectedL2TxsChan` (355-374), with `getCoordIdx` and `coordIdxsMap` |
| `ReceiveFailedAtomicGroup` | case `failedAGChan` (379-384): records the group in `failedAtomicGroups`, `Reset` restores the checkpoint, `pc` back to start |
| `ReceiveEndedFinish` | `verificationEnded` with nothing selected in the iteration (387-427): discard, sort `coordIdxs`, pay fees, `MakeCheckpoint` |
| `ReceiveEndedNextIteration` | `verificationEnded` otherwise (428-436): re-launch on the non-selected txs |
| `VerifierSelect`, `VerifierNeedsL1`, `VerifierSendL1`, `VerifierProcessL2`, `VerifierReject`, `VerifierFailAtomic` | the verifier's classification and channel protocol (spec 4.3.3, 4.3.4, section 5; spec_modelled) |
| `VerificationEnded` | the waiter goroutine of `verifyTxs` (456-461) |
| `AddToPool` | the API's insert of one submission (`AddTxAPI` / `AddAtomicTxsAPI`, `txspool.go` 97-101), committed while the selection runs |

The pool is the L2DB's pending txs. `pending` is `l2TxsFromDB`, which each
`START_SELECTION` reads again. The model takes `GetPendingTxs` to return
the txs in insertion order. The L2DB is not under `src/` and the spec does
not fix the order, but the package comment's "ordered with valid
`RqOffset` in the pool" needs this order.

The error returns of the loop (`getCoordIdx` failing, a fee Idx without an
account) are not actions. The invariant `NoSelectionError` states that
their conditions never hold.

### SelectorLifecycle: the selector across batches

`work` is the local StateDB's current state and `ckpt` its checkpoints by
BatchNum. `cur` is `CurrentBatch()`. `chain` and `synced` are the
synchronizer's checkpoints. `proposed` holds the batches the selector
returned that are not yet forged. Each one is kept with the state it was
built on.

| Action | Code |
|---|---|
| `Init` | `NewTxSelector` (104-123): the local StateDB forked from the synchronizer's |
| `GetL1L2TxSelection`, `GetL2TxSelection`, `Selection` | 182-208 and 260-264. A returned selection is one step, which the refinement of `BatchSelection` by `TxSelector` justifies: the replay of the batch, then `MakeCheckpoint`. The attempt starts from the StateDB as it is, or, after a failed group, from the checkpoint `Reset(CurrentBatch(), false)` restores (`AttemptStarts`, 379-384). `GetL2TxSelection` passes no L1 user txs |
| `SelectionError`, `PartialStates` | the error returns (266-292, 401-419). Each one leaves a prefix of the L1 user txs, L2 txs without their fees, or the whole batch, with no checkpoint |
| `Reset` | `TxSelector.Reset` (130-134) over `LocalStateDB.Reset` (spec 4.1): back to a local checkpoint, dropping the later ones, or re-forked from the synchronizer's |
| `ResetAfterError`, `DropBatch`, `Resync` | the caller (spec 5 and 7; spec_modelled): reset and retry after an error, drop the newest batch by a Reset to the prior BatchNum, and re-fork from the synchronizer once another coordinator has forged |
| `Forge`, `ForgeByOther` | the chain (spec_modelled). The oldest returned batch is forged only on the state it was built on (the proof's old root). Another coordinator may forge any batch that replays |

### PoolAdmission: state and actions against the code

The state is the L2DB `pool` and `last`, the HTTP response to the last
request. Each pool row is kept in insertion order with its `AtomicGroupID`,
RqOffset, RqTxID and the tx its Rq* fields describe. Any client may post any
of its requests at any time and repeat them, so `Next` chooses among the
candidate requests.

| Definition | Code |
|---|---|
| `PostPoolTx`, `SingleVerdict` | `postPoolTx` (18-42): reject Rq fields (25), `verifyPoolL2Tx`, `AddTxAPI` |
| `PostAtomicPool`, `AtomicVerdict` | `postAtomicPool` (44-104): `nTxs <= 1`, the offset loop, per-tx verification, `isSingleAtomicGroup`, `AddAtomicTxsAPI`, in that order |
| `OffsetsInBounds`, `RqCopied` | the offset loop (57-79). The Rq* fields are copied only when the tx at the offset has the TxID given in RqTxID |
| `IsSingleAtomicGroup` | 146-175: positions as nodes, `idToPos` keeping the last position of a TxID, one strong component (via `Graphs!ConnectionsIn`) |
| `VerifyPoolL2Tx` | 218-284: `NewPoolL2Tx` on its copy, sender token and nonce, signature, destination by the copy's Type, zero exit |
| `SetType`, `NewPoolL2Tx` | `pooll2tx.go` 61-103: the Type from ToIdx, ToEthAddr and ToBJJ, kept as sent when ToIdx is 0 and neither address pattern holds; a sent Type or TxID must match |
| `TxIDOf`, `SignatureOk` | `SetID`, `HashToSign`/`VerifySignature` in `pooll2tx.go` (the packing itself is `TxCompressedData`) |
| `Insertable`, `Stored` | L2DB inserts (not under `src/`; spec_modelled): all or none, each TxID present once. The row is `receivedTx`, with the TxID and Type the client sent, as the handlers pass it |

A signature is modelled by the Rq* content it covers. It verifies when the
Rq* fields the tx carries after the copy are the ones the client signed.

### TxCompressedData: the signed packing

`Layout` is the field order the three packings share (sign, fee, 5-byte
nonce, 4-byte token, 2-byte Float16, 6-byte ToIdx, 6-byte FromIdx).
`TxCompressedData` appends the chain id and the signature constant.
`RqTxCompressedDataV2` applies the layout to the Rq* fields. `HashToSign`
is the tuple of the six Poseidon inputs. The `*big.Int` of `SetBytes` is
represented by its byte array, which determines it. `Nonce.Bytes`,
`Idx.Bytes`, `TokenID.Bytes` and `NewFloat16` are not under `src/`, and are
modelled from spec 4.2.4 and 6 (spec_modelled). The state is the signed
tx and chain, the posted tx and the verdict. `Tamper` is a relayer changing
one field. `Verify` is the signature check of `verifyPoolL2Tx`
(`txspool.go` 245-248). RqOffset, RqTxID, Type and AbsoluteFee are not in
the hash, so they are not in the record.

### Refinement

`TxSelector` defines `BS == INSTANCE BatchSelection WITH returned <- pc =
"done", batch <- ...`. The mapping sends `batch` to the returned arrays
(`l1CoordinatorTxs`, `selectedTxs`, `discardedTxs`, `coordIdxs`) once
`pc = "done"`, and to the empty batch before that. The pool, start state,
checkpoint and batch number map to themselves. `BatchSelectionRefined ==
BS!Spec` is a PROPERTY of the `tx_selector` run. Every concrete step must
therefore be one of two kinds:
- a stutter of the abstract state, which covers every goroutine step,
  restart and iteration;
- the single `Select` step, whose replay succeeds and yields the new
  checkpoint.

## 3. Runs

| Run | Config | Expect | What it shows |
|---|---|---|---|
| `tx_selector` | `MC_TxSelector.cfg` | pass (1,224 states) | A selection returns a batch within `MaxTx`/`MaxL1Tx`. Every member of a failed group is discarded with an `Info`: the failing tx carries the verifier's reason, and the others carry `ErrInvalidAtomicGroup` naming the group, the failing tx and its reason. Atomic groups are whole and their RqOffsets resolve in the final L2 list. Every pending tx comes back once, selected or discarded. It refines `BatchSelection`: the checkpoint does not move until the selection returns, and then it moves to the batch builder's canonical replay of the returned batch. Balances are conserved through restarts. No error return is taken, and the selection terminates. |
| `tx_selector_late` | `MC_TxSelector_late.cfg` | pass (5,598 states) | The API commits a transfer and an atomic group while the selection runs. A restart re-reads the grown pool. The late group is read and fails (a restart), and the late transfer is selected in a later iteration. Groups stay whole or absent, every tx of the last read comes back once, and the refinement still holds. |
| `selector_lifecycle` | `MC_SelectorLifecycle.cfg` | pass (19,849 states) | Batches are selected, forged, dropped and forged by another coordinator, and selections fail part way. While the caller is idle and the chain has no foreign batch, the local StateDB is the checkpoint of `CurrentBatch()`. That checkpoint is the synchronizer's checkpoint followed by one checkpoint per returned, unforged batch, each the replay of that batch on the previous one. The caller (not under `src/`) is modelled as always resetting after an error and re-forking after a foreign batch, so the run checks the selector's restart and checkpoint steps, not a caller that skips them. |
| `sort_l2txs` | `MC_SortL2Txs.cfg` | pass (1,521 states) | Over every pool and every map iteration order, the filter and sort lose no tx, keep RqOffsets resolvable and give the order stated pairwise. |
| `pool_admission` | `MC_PoolAdmission.cfg` | pass (609 states) | Posts and re-posts are checked in every order. Every atomic group in the pool is one strongly connected RqTxID component with all its RqTxIDs inside (spec 4.4, 8.8). No tx outside a group requests another. Stored RqOffsets fit in 3 bits. |
| `pool_admission_selectable` | `MC_PoolAdmission_selectable.cfg` | violation | `postAtomicPool` admits a group that `isAtomicGroupValid` rejects at every selection. |
| `tx_compressed_data` | `MC_TxCompressedData.cfg` | pass (168 states) | A posted tx that verifies is the signed tx, for this chain, whatever single field a relayer changed, Rq* fields included. That includes a nonce one past 40 bits and an Idx one past 48 bits, which must fail rather than wrap. |
| `pool_admission_types` | `MC_PoolAdmission_types.cfg` | violation | A tx that claims Exit with ToIdx 0 and no address is admitted as an Exit. |
| `pool_admission_txid` | `MC_PoolAdmission_txid.cfg` | violation | A valid tx posted without TxID is stored, and answered, with the empty TxID. |
| `sort_l2txs_tie` | `MC_SortL2Txs_tie.cfg` | violation | `sortL2Txs` puts a group before a non-atomic tx whose fee equals the group's average. Spec 4.3.2 puts the tx first. |

**Bounds.** `MC_TxSelector` uses the following instance:
- Three users and two tokens.
- Accounts 256-258, with 0-2 coordinator accounts and two balance choices.
- An optional stored AccountCreationAuth.
- One L1 user deposit, `MaxTx = 5` and `MaxL1Tx = 4`.
- The pool:
  - `t1`, `t2`: two transfers from one account. The higher fee has the later
    nonce, so it is selected only in a second iteration.
  - `t3`, `t4`: an atomic group whose members need up to four L1
    coordinator txs (two coordinator accounts and two recipient accounts,
    one with an auth). Depending on the start state it fits, fails on
    balance, fails on a missing auth, or fails on capacity.
  - `t5`: a group with an invalid RqOffset.
  - `t6`: an unforjable zero-amount Exit.

`MC_TxSelector_late.cfg` starts from the whole pool. The API may commit
`t7` and then the group `g3` (`t8`, `t9`) at any point before the
selection returns:
- `t7` is a zero transfer from 258 that becomes selectable once `t4` is
  selected.
- `g3` has nonces that are never reached, and its fee sorts it first.

`MaxTx = 7` leaves room for `t7` next to `g1` and its L1 coordinator txs.

With this instance every action fires: both iteration paths, the restart,
the empty-pool return, L1 coordinator txs, auths, unforjable and non-selected
txs. `MC_SortL2Txs` takes every combination of fees 1..3 for two non-atomic
txs and two interleaved groups, with a valid or invalid second group. So
fees equal to, above and below a group's average occur, as do groups with
equal averages.

`MC_SelectorLifecycle` has three batches that a selection may return:
- an empty batch;
- a transfer from 256 with nonce 0 and a fee paid to the coordinator;
- the same transfer with nonce 1.

So a batch replays only on the state it was built for, and a fee left
unpaid by an error shows in the state. An L1 deposit may be forged with a
batch. Batch numbers go to 3. That allows two batches in flight, one
forged by another coordinator, and a drop after a forge. Every error
return happens with and without L1 txs, on a clean state and on the state
after a restart.

`MC_PoolAdmission` has one submission for each early return of
`postAtomicPool`:
- a valid pair;
- the same pair under a second group ID;
- a cycle whose first RqOffset disagrees with its RqTxID;
- two disjoint cycles;
- an empty RqTxID;
- RqOffset 8;
- a single tx;
- a TxID repeated inside the submission.

It also has single txs for each early return of `postPoolTx`, a Transfer
claimed for ToIdx 1 and a reserved ToIdx (5). One single tx has the TxID
of the valid pair's first tx, so the order of the two posts decides which
one gets the SQL error. The types run posts a TransferToBJJ and an Exit
claimed for ToIdx 0 with no address. The TxID run posts one valid transfer
with neither TxID nor Type. They are kept out of the passing run, where
more accepted singles only multiply the insertion orders.

`MC_TxCompressedData` takes a byte of two values. A nonce then overflows
its 5 bytes at 32 and an Idx its 6 bytes at 64, and the packing has the
same field widths as the code at a size TLC holds. The signed txs sit at
the boundaries: nonce 31, Idx 62 and 63. The relayer's values cross them
(nonce 32, Idx 64) or change a low-order digit, a sign, a y coordinate or
an address. The signer's chain is the node's or another.

**Precision.** `Float64` rounds to `Precision` bits, 53 in Go. Fees of
the model are small, so a small `Precision` puts them where float64 puts
fees near 2^53:
- `MC_SortL2Txs.cfg` and `MC_SortL2Txs_tie.cfg` use 2 bits. A sum of 5
  rounds to 4, so the passing sort properties are checked with inexact
  averages.
- The selector and admission configs use 8 bits, where their fees are
  exact.

No property orders by the exact mean: with small integer fees the float64
sum is exact, and the average differs from the mean by at most one ulp.
`SortedByFee` checks the order against the code's own rounded comparator.
TLC evaluates an operator's arguments again at each use
when it evaluates `ENABLED` for fairness. For that reason `Round` and
`FAdd` bind their arguments through a function on a one-point set, which
keeps nested float operations linear.

**Fairness.** `WF_vars(Main) /\ WF_vars(Verifier)`: the Go scheduler runs
every runnable goroutine, and each goroutine's enabled step stays enabled
until it is taken, because the other goroutine is blocked on the channel.
`SelectionTerminates` depends on it. `AddToPool` has no fairness, because
the API may or may not commit anything. The late run checks only safety.
With the API interleaved, the liveness check takes minutes, and the commits
are bounded. Deadlock checking is off in the selector and sort
configs because a returned selection is a final state;
`SelectionTerminates` checks that every behaviour reaches it. The pool
admission model states only safety. `SelectorLifecycle` has no fairness,
because the chain and the caller are free, and its deadlock check is on:
an error return can always happen. The pool admission configs check deadlock too, because a
request can always be posted. `MC_TxCompressedData` turns deadlock
checking off: a request ends once its signature is verified.

**Mutants.** Every property of a passing run has a mutant in
`PROJECT.json`, written next to the definition it replaces:
- an off-by-one capacity check;
- selection arrays that survive a restart;
- a restart without `Reset`;
- `nonSelectedTxs` not emptied between iterations;
- `coordIdxs` never filled;
- an L1 coordinator tx received but not processed;
- a failed-group restart that resets to the batch before `CurrentBatch()`;
- a re-fork that leaves `CurrentBatch()` where it was;
- `setInfoForFailedAtomicTx` that gives the origin of the failure the
  group error instead of its own reason;
- failed groups not filtered (which never terminates);
- a sort by fee that ignores groups;
- `>=` in the merge;
- a merge that drops the remaining non-atomic txs;
- a missing balance check;
- an RqOffset outside the table accepted as position 0;
- `isSingleAtomicGroup` without the count of strong components;
- a nonce past 40 bits truncated instead of rejected.

TLC finds each property violated under its mutant.

## 4. Findings

- **Tie order** (`part_002:532`, run `sort_l2txs_tie`): on a tie the code
  puts the atomic group before the non-atomic tx, while spec 4.3.2 puts the
  non-atomic tx first.
- **Admitted but never selectable** (`src/api/txspool.go:69`, run
  `pool_admission_selectable`):
  - The Rq* fields are copied only when the tx at RqOffset has the TxID
    given in RqTxID, and `isSingleAtomicGroup` looks only at RqTxID.
  - So a three-tx cycle whose first RqOffset points at the wrong member,
    signed with empty Rq* fields, is accepted.
  - The txselector package comment assumes that groups sit in the pool
    "with valid `RqOffset`".
  - `isAtomicGroupValid` rejects this group at every selection, so it is
    never forged and stays pending.
- **Type left as sent** (`src/common/pooll2tx.go:93`, run
  `pool_admission_types`): for ToIdx 0, `SetType` sets a Type only for a
  BJJ with the FF address or for an ordinary eth address. In every other
  case it returns no error and leaves the client's Type, so `NewPoolL2Tx`
  sees no mismatch. A tx that claims Exit with ToIdx 0 and no address passes
  `verifyPoolL2Tx`, where only the Exit amount check applies, and is
  admitted as an Exit. Spec 6 says admission validates type inference from
  ToIdx/ToEthAddr/ToBJJ.
- **TxID derived on a copy** (`src/api/txspool.go:220`, run
  `pool_admission_txid`): `verifyPoolL2Tx` takes the tx by value, so the
  TxID and Type that `NewPoolL2Tx` derives stay on its copy. `postPoolTx`
  inserts `receivedTx` and answers with `receivedTx.TxID` (lines 36, 41). A
  valid tx posted without TxID is stored and answered with the empty TxID.
  Spec 6 and 8 say the TxID is recomputed and that the stored one equals
  it. The L2DB is not under `src/`, and it is modelled as storing the row
  it is given.
- **Fee key** (`part_002:397-400`): spec 4.2.2 says fees accrue to
  `AccumulatedFees[senderIdx]`, but the selector pays `tp.AccumulatedFees`
  keyed by coordinator Idx. The model follows the code, and
  `BatchSelectionRefined` checks it against a per-token replay.
- **Pointer comparison** (`src/api/txspool.go:292`): `isAtomic` compares
  `tx.RqAmount != big.NewInt(0)` by pointer, which is always true for a
  non-nil RqAmount. The function is not called in this repository.

## 5. What is not modelled, and why

- A restart of the node. `NewTxSelector` reopens the local StateDB at its
  path, and what it finds there belongs to the LocalStateDB, which is not
  under `src/`. The `Keep` window of checkpoints is not modelled either:
  the callers here reset at most one batch back.
- Float64 overflow, subnormals and NaN. Fees are non-negative, so none of
  them occurs in an average.
- `CalcFeeAmount` at admission, because fees are abstract. JSON binding
  errors are not modelled either.
- The converse of spec 8.8 at the endpoint, "every single atomic group is
  accepted", is not a passing property. The endpoint's acceptance also
  depends on the Rq* copy, and that dependence is the finding above.

- Poseidon, EdDSA and the Float16 codec. They are arithmetic on 250-bit
  fields, out of TLC's reach. The hash and the signature are taken as
  injective, and Float16 as injective on representable amounts (spec 8).
  The byte packing under them is modelled at a reduced byte width.
- `PoolL2Tx.L2Tx`, `Tx`, `PoolL2TxsToL2Txs` and `TxIDsFromPoolL2Txs`. They
  are field copies that nothing under `src/` calls.
- The pool states `pend`, `fing`, `fged` and `invl`, and `BatchInfo.TxStatus`.
  Only the names are under `src/`. The transitions belong to the L2DB and
  the coordinator pipeline, which are not, and the spec names them without
  describing them.
- Effective amounts, exit-tree Merkle updates, ZKInputs, `NLevels` and
  `MaxFeeTx`. The code says these two constraints are not checked in the
  selector.
- Metrics, logging, the `Info` the verifier writes on the txs it rejects
  (the verifier is not under `src/`), the
  read handlers of the pool API, `BatchInfo.DebugStore`, and the HistoryDB
  struct definitions.
- The verifier's internals beyond the classification of spec 4.3.3, in
  particular where it calls `txsWg.Done` and what it does after reporting a
  failed group (see the hazards in `PROJECT.json`).

## 6. Plan

Modules, in order, each built from the source with its runs and mutants:

1. **Done.** `AtomicGroups` and `SortL2Txs`: the filters and the order,
   with the tie-order violation run.
2. **Done.** `TxSelector`: one selection with the verifier goroutine,
   restarts and iterations.
3. **Done.** `PoolAdmission`: both endpoints. The pool invariant is stated
   against `Relation!IsConnected`. A violation run covers groups that are
   admitted but never selectable.
4. **Done.** Pool commits concurrent with a selection: `AddToPool` in
   `TxSelector` and the run `tx_selector_late`. The committed submissions are
   given as constants rather than produced by `PoolAdmission`. The two
   modules store different tx fields, and admission is checked on its own.
5. **Done.** `BatchSelection`: one selection as a single atomic step to the
   replay of the returned batch, refined by `TxSelector`. It does not promise
   maximality: the code never claims that the batch is maximal.
6. **Done, for the StateDB.** `SelectorLifecycle`: selections across
   batches, error returns, `Reset(batchNum, fromSynchronizer)`, dropped
   batches and batches forged by another coordinator. Pool txs leaving
   the pending state once forged (`L2DB.StartForging` and the rest) are not
   modelled. That code is not under `src/`, and the spec names the states
   without describing them.
7. **Done.** PoolL2Tx: `SetType` and `NewPoolL2Tx` in `PoolAdmission`,
   with two violation runs (type left as sent, TxID derived on a copy), and
   the signed packing in `TxCompressedData`.
