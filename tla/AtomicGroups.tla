---------------------------- MODULE AtomicGroups ----------------------------
(***************************************************************************)
(* Pure operators over pool L2 transactions that the TxSelector and the    *)
(* pool API use for atomic groups: the RqOffset table, the validation of a *)
(* materialised group, the per-group average fee, the filters that run     *)
(* before the selection loop and the ordering of the selectable txs.       *)
(*                                                                         *)
(* A tx is a record with (at least) the fields                            *)
(*   id, from, nonce, absFee, group, rqOffset, rqTx                        *)
(* where rqTx is the tx that the tx's Rq* fields describe (NoTx when they  *)
(* are all empty).  The Rq* fields of a tx copy FromIdx, Nonce, ToIdx,     *)
(* amount, fee ... of the requested tx; FromIdx and Nonce determine the    *)
(* TxID, so "all Rq* fields equal those of tx r" is "rqTx = r.id".         *)
(* absFee is the float64 AbsoluteFee; the model's fees are integers that  *)
(* fit in Precision bits, so they are float64 values as they stand, and   *)
(* only the sums and quotients of calculateAtomicGroupsAverageFee round.  *)
(***************************************************************************)
EXTENDS Integers, Sequences, SequencesExt, FiniteSets, Float64

CONSTANTS
  NoGroup,   \* common.EmptyAtomicGroupID
  NoTx       \* common.EmptyTxID: a tx whose Rq* fields are empty

\* Mutant: an RqOffset outside the table falls to the default case as
\* position 0 without an error.
RequestOffset2RelativePositionLenient(rqOffset) ==
  IF rqOffset \in 1..7
  THEN [ok |-> TRUE, pos |-> << 1, 2, 3, -4, -3, -2, -1 >>[rqOffset]]
  ELSE [ok |-> rqOffset # 0, pos |-> 0]

\* requestOffset2RelativePosition: RqOffset 1..3 look forward, 4..7 look
\* back; 0 (requests nothing) and anything above 7 are errors.
RequestOffset2RelativePosition(rqOffset) ==
  IF rqOffset \in 1..7
  THEN [ok |-> TRUE, pos |-> << 1, 2, 3, -4, -3, -2, -1 >>[rqOffset]]
  ELSE [ok |-> FALSE, pos |-> 0]

IsAtomic(tx) == tx.group # NoGroup

\* isAtomicGroupValid: every member's RqOffset lands inside the group and
\* the member there is the one its Rq* fields describe.
IsAtomicGroupValid(g) ==
  \A i \in 1..Len(g) :
    LET rq == RequestOffset2RelativePosition(g[i].rqOffset)
        requestedPosition == i + rq.pos
    IN  /\ rq.ok
        /\ requestedPosition \in 1..Len(g)
        /\ g[i].rqTx = g[requestedPosition].id

\* The members of group gid in txs, in the order they have in txs.
Members(txs, gid) == SelectSeq(txs, LAMBDA t : t.group = gid)

GroupsIn(txs) == { txs[i].group : i \in { j \in 1..Len(txs) : IsAtomic(txs[j]) } }

\* calculateAtomicGroupsAverageFee: the members' AbsoluteFees (float64)
\* summed with += in the order of txs, then divided by float64(count),
\* each operation rounded.
AverageFee(txs, gid) ==
  LET m == Members(txs, gid)
  IN  FDiv(FoldLeft(LAMBDA acc, t : FAdd(acc, F(t.absFee)), F(0), m), Len(m))

FeeAboveAverage(fee, avg) == FGreater(F(fee), avg)
AverageAbove(a1, a2) == FGreater(a1, a2)

\* Mutant: the failed groups are not filtered out.
FilterFailedAtomicGroupsNone(txs, failedGroups) ==
  << txs, SelectSeq(txs, LAMBDA t : FALSE) >>

\* filterFailedAtomicGroups: << txsToProcess, filteredTxs >>, both in the
\* order of txs; failedGroups maps an AtomicGroupID to its failedAtomicGroup
\* [failedTxID, reason].
FilterFailedAtomicGroups(txs, failedGroups) ==
  << SelectSeq(txs, LAMBDA t : ~IsAtomic(t) \/ t.group \notin DOMAIN failedGroups),
     SelectSeq(txs, LAMBDA t : IsAtomic(t) /\ t.group \in DOMAIN failedGroups) >>

\* A TxSelectorError is [code, msg]: Code and Type as one code, and the
\* Message as the values it is formatted from.
ErrInvalidAtomicGroup == [code |-> "InvalidAtomicGroup", msg |-> "invalid atomic group"]

\* Mutant: every member, the origin of the failure included, gets the
\* unselectable-group error.
SetInfoForFailedAtomicTxNoOrigin(isOriginOfFailure, failedAtomicGroupID, failedTxID, failMessage) ==
  [code |-> "InvalidAtomicGroup", msg |-> << failedAtomicGroupID, failedTxID, failMessage.msg >>]

\* setInfoForFailedAtomicTx: the tx that made the group fail keeps its own
\* error; the others get "unselectable atomic group <id>, tx <failedTxID>
\* failed due to: <message>" with ErrInvalidAtomicGroupCode.
SetInfoForFailedAtomicTx(isOriginOfFailure, failedAtomicGroupID, failedTxID, failMessage) ==
  IF isOriginOfFailure THEN failMessage
  ELSE [code |-> "InvalidAtomicGroup", msg |-> << failedAtomicGroupID, failedTxID, failMessage.msg >>]

\* The Info / ErrorCode filterFailedAtomicGroups writes on the txs it
\* filters, as a function of the tx.
FailedAtomicGroupsInfo(txs, failedGroups) ==
  [t \in ToSet(FilterFailedAtomicGroups(txs, failedGroups)[2]) |->
     SetInfoForFailedAtomicTx(t.id = failedGroups[t.group].failedTxID, t.group,
                              failedGroups[t.group].failedTxID, failedGroups[t.group].reason)]

\* filterInvalidAtomicGroups: non-atomic txs first, in order, then the
\* members of every valid group (the groups in map iteration order, which
\* sortL2Txs re-derives, so any fixed order stands for it).
FilterInvalidAtomicGroups(txs) ==
  LET valid   == { gid \in GroupsIn(txs) : IsAtomicGroupValid(Members(txs, gid)) }
      invalid == GroupsIn(txs) \ valid
      order(S) == SetToSeq(S)
      flatten(S) == FlattenSeq([i \in 1..Cardinality(S) |-> Members(txs, order(S)[i])])
  IN  << SelectSeq(txs, LAMBDA t : ~IsAtomic(t)) \o flatten(valid),
         flatten(invalid) >>

\* The Info / ErrorCode filterInvalidAtomicGroups writes on every member of
\* an invalid group.
InvalidAtomicGroupsInfo(txs) ==
  [t \in ToSet(FilterInvalidAtomicGroups(txs)[2]) |-> ErrInvalidAtomicGroup]

\* sortL2Txs, first step: the atomic groups of the (Go) map, stably sorted by
\* average fee descending.  Map iteration order is random, so groups with
\* equal averages come out in any order: every such order is possible.
GroupOrders(txs) ==
  { s \in SetToSeqs(GroupsIn(txs)) :
      \A i, j \in 1..Len(s) :
        i < j => ~AverageAbove(AverageFee(txs, s[j]), AverageFee(txs, s[i])) }

\* The non-atomic txs sorted by (AbsoluteFee desc, FromIdx asc, Nonce asc).
NonAtomicSorted(txs) ==
  SortSeq(SelectSeq(txs, LAMBDA t : ~IsAtomic(t)),
          LAMBDA a, b : \/ a.absFee > b.absFee
                        \/ a.absFee = b.absFee /\ a.from < b.from
                        \/ a.absFee = b.absFee /\ a.from = b.from /\ a.nonce < b.nonce)

\* Mutant: a non-atomic tx goes first also when its fee equals the average.
RECURSIVE MergeL2TxsTieFirst(_, _, _)
MergeL2TxsTieFirst(txs, nonAtomic, groups) ==
  IF groups = << >> THEN nonAtomic
  ELSE IF nonAtomic = << >>
  THEN Members(txs, Head(groups)) \o MergeL2TxsTieFirst(txs, nonAtomic, Tail(groups))
  ELSE IF ~FLess(F(Head(nonAtomic).absFee), AverageFee(txs, Head(groups)))
  THEN << Head(nonAtomic) >> \o MergeL2TxsTieFirst(txs, Tail(nonAtomic), groups)
  ELSE Members(txs, Head(groups)) \o MergeL2TxsTieFirst(txs, nonAtomic, Tail(groups))

\* Mutant: the remaining non-atomic txs are not appended after the last group.
RECURSIVE MergeL2TxsDropRest(_, _, _)
MergeL2TxsDropRest(txs, nonAtomic, groups) ==
  IF groups = << >> THEN << >>
  ELSE IF nonAtomic = << >>
  THEN Members(txs, Head(groups)) \o MergeL2TxsDropRest(txs, nonAtomic, Tail(groups))
  ELSE IF FeeAboveAverage(Head(nonAtomic).absFee, AverageFee(txs, Head(groups)))
  THEN << Head(nonAtomic) >> \o MergeL2TxsDropRest(txs, Tail(nonAtomic), groups)
  ELSE Members(txs, Head(groups)) \o MergeL2TxsDropRest(txs, nonAtomic, Tail(groups))

\* The merge loop of sortL2Txs: a non-atomic tx goes first only when its
\* fee is strictly above the next group's average; otherwise the whole
\* group goes, its members consecutive and in pool order.
RECURSIVE MergeL2Txs(_, _, _)
MergeL2Txs(txs, nonAtomic, groups) ==
  IF groups = << >> THEN nonAtomic
  ELSE IF nonAtomic = << >>
  THEN Members(txs, Head(groups)) \o MergeL2Txs(txs, nonAtomic, Tail(groups))
  ELSE IF FeeAboveAverage(Head(nonAtomic).absFee, AverageFee(txs, Head(groups)))
  THEN << Head(nonAtomic) >> \o MergeL2Txs(txs, Tail(nonAtomic), groups)
  ELSE Members(txs, Head(groups)) \o MergeL2Txs(txs, nonAtomic, Tail(groups))

\* Mutant: every tx sorted by its own fee, atomic or not.
SortL2TxsByFeeOnly(txs, groupOrder) ==
  SortSeq(txs, LAMBDA a, b : a.absFee > b.absFee)

\* sortL2Txs with the group order the map iteration produced.
SortL2Txs(txs, groupOrder) == MergeL2Txs(txs, NonAtomicSorted(txs), groupOrder)

=============================================================================
