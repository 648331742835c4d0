------------------------------ MODULE SortL2Txs ------------------------------
(***************************************************************************)
(* The two steps of getL1L2TxSelection (src/unnamed/part_002) that turn   *)
(* the pool's pending txs into the list the verifier walks:               *)
(*   filterInvalidAtomicGroups, which drops the atomic groups whose        *)
(*   RqOffsets do not resolve inside the group, and                        *)
(*   calculateAtomicGroupsAverageFee + sortL2Txs, which orders the rest.   *)
(* The input is one of a set of pools; the sort may see the atomic groups  *)
(* in any map iteration order, so every order is explored.  The result is *)
(* checked against a declarative statement of the order it should have.  *)
(***************************************************************************)
EXTENDS Integers, Sequences, SequencesExt, FiniteSets, Functions, AtomicGroups

CONSTANTS
  Pools   \* possible results of l2db.GetPendingTxs(), txs with unique ids

VARIABLES
  input,       \* the pending txs, in pool order
  stage,       \* "pool", "filtered", "sorted"
  selectable,  \* txsToProcess of filterInvalidAtomicGroups, then sorted
  discarded    \* filteredTxs of filterInvalidAtomicGroups

vars == << input, stage, selectable, discarded >>

Init ==
  /\ input \in Pools
  /\ stage = "pool"
  /\ selectable = << >>
  /\ discarded = << >>

\* selectableTxs, discardedTxsTmp := filterInvalidAtomicGroups(selectableTxsTmp)
FilterInvalid ==
  /\ stage = "pool"
  /\ selectable' = FilterInvalidAtomicGroups(input)[1]
  /\ discarded' = FilterInvalidAtomicGroups(input)[2]
  /\ stage' = "filtered"
  /\ UNCHANGED input

\* atomicFeeMap := calculateAtomicGroupsAverageFee(selectableTxs);
\* selectableTxs = sortL2Txs(selectableTxs, atomicFeeMap)
Sort ==
  /\ stage = "filtered"
  /\ \E order \in GroupOrders(selectable) :
       selectable' = SortL2Txs(selectable, order)
  /\ stage' = "sorted"
  /\ UNCHANGED << input, discarded >>

Next == FilterInvalid \/ Sort

Spec == Init /\ [][Next]_vars

-----------------------------------------------------------------------------
(* Properties *)

\* The first position of a member of group g in s.
FirstOf(s, g) == Min({ i \in DOMAIN s : s[i].group = g })

\* The filter and the sort lose and duplicate no tx: the sorted list and
\* the discarded txs together are the pending txs.
SortedPermutesPool ==
  stage = "sorted" =>
    /\ Len(selectable) + Len(discarded) = Len(input)
    /\ Range(selectable) \cup Range(discarded) = Range(input)

\* The RqOffset of every atomic tx, read relative to its position in the
\* sorted list the verifier walks (and so in the batch), lands on the tx
\* its Rq* fields describe: sortL2Txs keeps each group consecutive and in
\* pool order ("otherwise the RqOffsets will broke"), and only groups that
\* filterInvalidAtomicGroups accepted reach it.
RqOffsetsResolveInSortedList ==
  stage = "sorted" =>
    \A i \in DOMAIN selectable :
      IsAtomic(selectable[i]) =>
        LET rq == RequestOffset2RelativePosition(selectable[i].rqOffset)
        IN  /\ rq.ok
            /\ i + rq.pos \in DOMAIN selectable
            /\ selectable[i + rq.pos].id = selectable[i].rqTx

\* The order the sort promises, stated pairwise: non-atomic txs by
\* (AbsoluteFee desc, FromIdx asc, Nonce asc); groups by average fee desc;
\* a non-atomic tx before a group exactly when its fee is above the
\* group's average (the merge loop's strict comparison).
SortedByFee ==
  stage = "sorted" =>
    LET s == selectable
        na == { i \in DOMAIN s : ~IsAtomic(s[i]) }
    IN  /\ \A i, j \in na :
             i < j => \/ s[i].absFee > s[j].absFee
                      \/ s[i].absFee = s[j].absFee /\ s[i].from < s[j].from
                      \/ s[i].absFee = s[j].absFee /\ s[i].from = s[j].from
                                                   /\ s[i].nonce < s[j].nonce
        /\ \A g, h \in GroupsIn(s) :
             FirstOf(s, g) < FirstOf(s, h) =>
               ~AverageAbove(AverageFee(s, h), AverageFee(s, g))
        /\ \A i \in na, g \in GroupsIn(s) :
             i < FirstOf(s, g) <=> FeeAboveAverage(s[i].absFee, AverageFee(s, g))

\* The mean of group g's fees in s, as spec 4.3.2 states it: the exact sum
\* over the count, compared with a fee by cross-multiplication.
FeeSum(s, g) == FoldSeq(LAMBDA t, acc : t.absFee + acc, 0, Members(s, g))
MeanCmp(fee, s, g) == fee * Len(Members(s, g)) - FeeSum(s, g)

\* Spec 4.3.2: "on tie the non-atomic tx precedes".  sortL2Txs appends the
\* group when the tx's AbsoluteFee equals the group's average fee.
NonAtomicPrecedesGroupOnTie ==
  stage = "sorted" =>
    \A i \in DOMAIN selectable, g \in GroupsIn(selectable) :
      /\ ~IsAtomic(selectable[i])
      /\ MeanCmp(selectable[i].absFee, selectable, g) = 0
      => i < FirstOf(selectable, g)

=============================================================================
