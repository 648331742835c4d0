-------------------------- MODULE SelectorLifecycle --------------------------
(***************************************************************************)
(* The TxSelector across batches (src/unnamed/part_002): NewTxSelector,   *)
(* Reset, GetL1L2TxSelection and GetL2TxSelection, and the error returns  *)
(* of getL1L2TxSelection, with the caller that drives them and the chain  *)
(* the synchronizer follows.                                               *)
(*                                                                         *)
(* One selection that returns is one step: TxSelector refines             *)
(* BatchSelection, so it moves the local StateDB to the replay of the     *)
(* returned batch and makes a checkpoint (MakeCheckpoint, 417).  It       *)
(* starts from the local StateDB as it is (txselStateDB, 262), or, after  *)
(* a failed atomic group, from the checkpoint of CurrentBatch() (381).    *)
(* A selection that returns an error leaves the StateDB with what it had  *)
(* applied and no checkpoint.                                              *)
(*                                                                         *)
(* The caller, the LocalStateDB and the synchronizer are not under src/    *)
(* (spec 4.1 and 5): after an error the caller resets and retries, it may *)
(* drop the batch in progress by a Reset to the prior BatchNum, and when  *)
(* another coordinator forged a batch it re-forks from the synchronizer's *)
(* checkpoint.  A batch is forged on top of the chain's state only if it  *)
(* was built on that state (the proof's old root).                        *)
(***************************************************************************)
EXTENDS Integers, Sequences, SequencesExt, FiniteSets, Functions, TxProcessor

CONSTANTS
  Genesis,     \* accounts at batch 0, the synchronizer's and the local one
  L1Batches,   \* L1 user txs a batch may have to forge
  Selections,  \* [l1Coord, l2, coordIdxs] a selection may return
  MaxBatch     \* the highest batch number explored

VARIABLES
  work,          \* txsel.localAccountsDB's current state
  ckpt,          \* its checkpoints: BatchNum -> accounts
  cur,           \* CurrentBatch()
  caller,        \* "idle", or "failed" after an error return
  proposed,      \* returned batches not yet forged, oldest first
  chain,         \* the synchronizer's checkpoints: BatchNum -> accounts
  synced,        \* the synchronizer's last batch
  forgedByOther  \* the chain has a batch this coordinator did not return

vars == << work, ckpt, cur, caller, proposed, chain, synced, forgedByOther >>

\* A batch with its L1 user txs and the state it was built on.
Batch(l1, s, base) ==
  [l1 |-> l1, l1Coord |-> s.l1Coord, l2 |-> s.l2, coordIdxs |-> s.coordIdxs, base |-> base]

Replay(accts, b) == ProcessBatch(accts, b.l1 \o b.l1Coord, b.l2, b.coordIdxs)

\* The states an attempt may start from: the StateDB as it is, or the
\* checkpoint that failedAGChan's Reset(CurrentBatch(), false) restores.
\* Mutant: the restart resets to the batch before CurrentBatch().
AttemptStartsPrevBatch == { work, ckpt[IF cur - 1 \in DOMAIN ckpt THEN cur - 1 ELSE cur] }
AttemptStarts == { work, ckpt[cur] }

\* What an error return leaves in the StateDB: a prefix of the L1 user
\* txs (ProcessL1Tx, 270), all of them (GetPendingTxs, or MakeCheckpoint
\* of the empty selection, 277-292), L2 txs applied with the fees not yet
\* paid (the loop's returns, 380-411), or the whole batch (MakeCheckpoint,
\* 417).
PartialStates(start, l1) ==
     { ProcessL1Txs(start, SubSeq(l1, 1, k)) : k \in 0..Len(l1) }
  \cup UNION { { ProcessBatch(start, l1 \o s.l1Coord, SubSeq(s.l2, 1, k), << >>).accts :
                   k \in 0..Len(s.l2) } \cup { Replay(start, Batch(l1, s, start)).accts } :
               s \in { s \in Selections : Replay(start, Batch(l1, s, start)).ok } }

-----------------------------------------------------------------------------
\* NewTxSelector: the local StateDB forked from the synchronizer's.
Init ==
  /\ work = Genesis
  /\ ckpt = (0 :> Genesis)
  /\ cur = 0
  /\ caller = "idle"
  /\ proposed = << >>
  /\ chain = (0 :> Genesis)
  /\ synced = 0
  /\ forgedByOther = FALSE

\* Mutant: a re-fork that leaves CurrentBatch() where it was.
ResetKeepBatch(b, fromSynchronizer) ==
  IF fromSynchronizer
  THEN /\ work' = chain[b] /\ ckpt' = (b :> chain[b]) /\ cur' = cur
  ELSE /\ b \in DOMAIN ckpt /\ work' = ckpt[b]
       /\ ckpt' = Restrict(ckpt, { i \in DOMAIN ckpt : i <= b }) /\ cur' = b

\* TxSelector.Reset(batchNum, fromSynchronizer), i.e. LocalStateDB.Reset:
\* back to the local checkpoint b, dropping the later ones, or re-forked
\* from the synchronizer's checkpoint b (the local ones are not read again).
Reset(b, fromSynchronizer) ==
  IF fromSynchronizer
  THEN /\ work' = chain[b]
       /\ ckpt' = (b :> chain[b])
       /\ cur' = b
  ELSE /\ b \in DOMAIN ckpt
       /\ work' = ckpt[b]
       /\ ckpt' = Restrict(ckpt, { i \in DOMAIN ckpt : i <= b })
       /\ cur' = b

\* getL1L2TxSelection returning a batch: the StateDB moves to the replay of
\* the batch from where the attempt started, MakeCheckpoint adds batch
\* cur + 1, and the caller holds the batch until it is forged.
Selection(l1) ==
  /\ caller = "idle"
  /\ cur < MaxBatch
  /\ \E start \in AttemptStarts, s \in Selections :
       LET b == Batch(l1, s, start)
       IN  /\ Replay(start, b).ok
           /\ work' = Replay(start, b).accts
           /\ ckpt' = ckpt @@ (cur + 1 :> work')
           /\ cur' = cur + 1
           /\ proposed' = Append(proposed, b)
  /\ UNCHANGED << caller, chain, synced, forgedByOther >>

GetL1L2TxSelection == \E l1 \in L1Batches : Selection(l1)

\* GetL2TxSelection passes no L1 user txs.
GetL2TxSelection == Selection(<< >>)

\* getL1L2TxSelection returning an error part way.
SelectionError ==
  /\ caller = "idle"
  /\ \E l1 \in L1Batches \cup {<< >>}, start \in AttemptStarts :
       work' \in PartialStates(start, l1)
  /\ caller' = "failed"
  /\ UNCHANGED << ckpt, cur, proposed, chain, synced, forgedByOther >>

\* The caller resets to the current batch and retries (spec 7, Storage).
ResetAfterError ==
  /\ caller = "failed"
  /\ Reset(cur, FALSE)
  /\ caller' = "idle"
  /\ UNCHANGED << proposed, chain, synced, forgedByOther >>

\* The caller drops the newest batch in progress: Reset to the prior
\* BatchNum (spec 5, Cancellation).
DropBatch ==
  /\ caller = "idle"
  /\ proposed # << >>
  /\ Reset(cur - 1, FALSE)
  /\ proposed' = Front(proposed)
  /\ UNCHANGED << caller, chain, synced, forgedByOther >>

\* The oldest returned batch is forged; the synchronizer replays it.
Forge ==
  /\ proposed # << >>
  /\ synced < MaxBatch
  /\ Head(proposed).base = chain[synced]
  /\ Replay(chain[synced], Head(proposed)).ok
  /\ chain' = chain @@ (synced + 1 :> Replay(chain[synced], Head(proposed)).accts)
  /\ synced' = synced + 1
  /\ proposed' = Tail(proposed)
  /\ UNCHANGED << work, ckpt, cur, caller, forgedByOther >>

\* Another coordinator forges a batch.
ForgeByOther ==
  /\ synced < MaxBatch
  /\ \E l1 \in L1Batches \cup {<< >>}, s \in Selections :
       /\ Replay(chain[synced], Batch(l1, s, chain[synced])).ok
       /\ chain' = chain @@ (synced + 1 :> Replay(chain[synced], Batch(l1, s, chain[synced])).accts)
  /\ synced' = synced + 1
  /\ forgedByOther' = TRUE
  /\ UNCHANGED << work, ckpt, cur, caller, proposed >>

\* The caller drops its batches and re-forks from the synchronizer.
Resync ==
  /\ forgedByOther
  /\ Reset(synced, TRUE)
  /\ proposed' = << >>
  /\ forgedByOther' = FALSE
  /\ caller' = "idle"
  /\ UNCHANGED << chain, synced >>

Next ==
  \/ GetL1L2TxSelection \/ GetL2TxSelection \/ SelectionError
  \/ ResetAfterError \/ DropBatch \/ Forge \/ ForgeByOther \/ Resync

Spec == Init /\ [][Next]_vars

-----------------------------------------------------------------------------
(* Properties *)

TypeOK ==
  /\ caller \in {"idle", "failed"}
  /\ cur \in DOMAIN ckpt /\ synced \in DOMAIN chain
  /\ forgedByOther \in BOOLEAN

\* While the caller is idle and no other coordinator forged, the local
\* StateDB extends the chain by exactly the batches it returned: the state
\* is the checkpoint of CurrentBatch(), which is the synchronizer's
\* checkpoint followed by the replay, one checkpoint each, of the batches
\* not yet forged.  It fails when a selection starts from a state an error
\* left behind, when a restart or a Reset restores the wrong checkpoint,
\* or when a checkpoint is not made.
LocalExtendsChain ==
  caller = "idle" /\ ~forgedByOther =>
    /\ cur = synced + Len(proposed)
    /\ work = ckpt[cur]
    /\ synced \in DOMAIN ckpt /\ ckpt[synced] = chain[synced]
    /\ \A i \in 1..Len(proposed) :
         /\ proposed[i].base = ckpt[synced + i - 1]
         /\ Replay(proposed[i].base, proposed[i]).ok
         /\ ckpt[synced + i] = Replay(proposed[i].base, proposed[i]).accts

=============================================================================
