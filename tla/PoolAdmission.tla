---------------------------- MODULE PoolAdmission ----------------------------
(***************************************************************************)
(* The pool admission endpoints of the API (src/api/txspool.go):          *)
(* postPoolTx admits one L2 tx, postAtomicPool a submission of several    *)
(* txs that must forge together.  Both validate every tx (verifyPoolL2Tx) *)
(* against the sender's account; postAtomicPool first copies the Rq*      *)
(* fields from the tx at each RqOffset and then checks that the RqTxIDs   *)
(* make the submission a single atomic group.  Accepted txs are inserted  *)
(* in the L2DB pool, all of a submission or none.  Clients post any of    *)
(* their candidate requests, any number of times, in any order.           *)
(*                                                                         *)
(* A client tx is a record with the fields                                 *)
(*   id        the TxID the client sent                                    *)
(*   from, nonce, token, amount, absFee                                    *)
(*   type      the Type the client sent ("" when none)                     *)
(*   toIdx, toEthAddr, toBJJ   the destination fields                      *)
(*   rqOffset, rqTxID                                                      *)
(*   rq        the tx the Rq* fields the client sent describe (NoTx: none) *)
(*   signedRq  the tx the Rq* fields covered by the signature describe    *)
(* A pool tx has the fields AtomicGroups uses (id, from, nonce, absFee,    *)
(* group, rqOffset, rqTx), rqTxID, type and the destination.              *)
(***************************************************************************)
EXTENDS Integers, Sequences, SequencesExt, FiniteSets, Functions, Graphs, Relation, AtomicGroups

CONSTANTS
  Accounts,      \* HistoryDB accounts: Idx -> [token, nonce]
  EthReachable,  \* << ethAddr, token >> with an account or an AccountCreationAuth
  Singles,       \* txs clients may post to postPoolTx
  Submissions    \* AtomicGroupID -> the txs a client may post to postAtomicPool

VARIABLES
  pool,   \* the L2DB pool's txs, in insertion order
  last    \* the response to the last request: [req, result]

vars == << pool, last >>

NoResponse == [req |-> NoTx, result |-> "none"]

Init ==
  /\ pool = << >>
  /\ last = NoResponse

-----------------------------------------------------------------------------
(* PoolL2Tx (src/common/pooll2tx.go) *)

\* SetID: the TxID is derived from (FromIdx, Nonce).
TxIDOf(tx) == << tx.from, tx.nonce >>

\* Special destination values and the first user Idx.
EmptyAddr == "EmptyAddr"
FFAddr == "FFAddr"
EmptyBJJComp == "EmptyBJJComp"
IdxUserThreshold == 256

\* SetType: the Type derived from the destination, "error" for a malformed
\* ToIdx.  With ToIdx = 0 and neither destination pattern the tx keeps the
\* Type it had.
SetType(tx) ==
  CASE tx.toIdx >= IdxUserThreshold -> "Transfer"
    [] tx.toIdx = 1 -> "Exit"
    [] tx.toIdx = 0 /\ tx.toBJJ # EmptyBJJComp /\ tx.toEthAddr = FFAddr -> "TransferToBJJ"
    [] tx.toIdx = 0 /\ tx.toEthAddr \notin {FFAddr, EmptyAddr} -> "TransferToEthAddr"
    [] tx.toIdx = 0 -> tx.type
    [] OTHER -> "error"

\* NewPoolL2Tx on verifyPoolL2Tx's copy: SetType must succeed and agree
\* with a Type the client sent, and a TxID the client sent must be the
\* derived one.  type is the Type the copy is left with.
NewPoolL2Tx(tx) ==
  LET type == SetType(tx)
  IN  [ok   |-> /\ type # "error"
                /\ tx.type \in {"", type}
                /\ tx.id \in {NoTx, TxIDOf(tx)},
       type |-> type]

\* VerifySignature over HashToSign, which covers the Rq* fields: it holds
\* when the Rq* fields the tx carries are the ones the client signed.
SignatureOk(tx, rq) == tx.signedRq = rq

-----------------------------------------------------------------------------
(* verifyPoolL2Tx, for tx carrying the Rq* fields rq *)

VerifyPoolL2Tx(tx, rq) ==
  LET type == NewPoolL2Tx(tx).type
  IN
  /\ NewPoolL2Tx(tx).ok
  /\ tx.from \in DOMAIN Accounts
  /\ tx.token = Accounts[tx.from].token
  /\ tx.nonce >= Accounts[tx.from].nonce
  /\ SignatureOk(tx, rq)
  /\ type = "Transfer" =>
       tx.toIdx \in DOMAIN Accounts /\ Accounts[tx.toIdx].token = tx.token
  /\ type = "TransferToEthAddr" => << tx.toEthAddr, tx.token >> \in EthReachable
  /\ type = "Exit" => tx.amount > 0

-----------------------------------------------------------------------------
(* L2DB (spec 5): an insert of several txs is one transaction; a TxID     *)
(* already in the pool, or repeated in the insert, makes it fail.          *)

Insertable(txs) ==
  /\ \A i, j \in DOMAIN txs : i # j => txs[i].id # txs[j].id
  /\ \A i \in DOMAIN txs : \A k \in DOMAIN pool : txs[i].id # pool[k].id

\* The row inserted: verifyPoolL2Tx recomputed TxID and Type on its own
\* copy, so the handler inserts the TxID and Type the client sent.
Stored(tx, rq, group) ==
  [id |-> tx.id, from |-> tx.from, nonce |-> tx.nonce, absFee |-> tx.absFee,
   group |-> group, rqOffset |-> tx.rqOffset, rqTx |-> rq, rqTxID |-> tx.rqTxID,
   type |-> tx.type, toIdx |-> tx.toIdx, toEthAddr |-> tx.toEthAddr,
   toBJJ |-> tx.toBJJ]

-----------------------------------------------------------------------------
(* postAtomicPool *)

\* Every RqOffset is one of the table's and lands inside the submission.
OffsetsInBounds(txs) ==
  \A i \in DOMAIN txs :
    LET rq == RequestOffset2RelativePosition(txs[i].rqOffset)
    IN  rq.ok /\ i + rq.pos \in DOMAIN txs

\* The Rq* fields after the copy: those of the tx at the RqOffset when its
\* TxID is the RqTxID, the client's own otherwise.
RqCopied(txs) ==
  [i \in DOMAIN txs |->
     LET requestedTx == txs[i + RequestOffset2RelativePosition(txs[i].rqOffset).pos]
     IN  IF txs[i].rqTxID = requestedTx.id THEN TxIDOf(requestedTx) ELSE txs[i].rq]

\* Mutant: the number of strongly connected components is not checked.
IsSingleAtomicGroupAnyComponents(txs) ==
  LET ids == { txs[i].id : i \in DOMAIN txs }
  IN  \A i \in DOMAIN txs : txs[i].rqTxID # NoTx /\ txs[i].rqTxID \in ids

\* isSingleAtomicGroup: nodes are positions, idToPos keeps the last
\* position of each TxID, an edge goes from a tx to the position of its
\* RqTxID; one strongly connected component.
IsSingleAtomicGroup(txs) ==
  LET ids == { txs[i].id : i \in DOMAIN txs }
      idToPos(id) == Max({ i \in DOMAIN txs : txs[i].id = id })
      g == [node |-> DOMAIN txs,
            edge |-> { << i, idToPos(txs[i].rqTxID) >> : i \in DOMAIN txs }]
      c == ConnectionsIn(g)
      strongComponents == { { m \in g.node : c[n, m] /\ c[m, n] } : n \in g.node }
  IN  /\ \A i \in DOMAIN txs : txs[i].rqTxID # NoTx /\ txs[i].rqTxID \in ids
      /\ Cardinality(strongComponents) = 1

\* The handler's response, in the order of its early returns.
AtomicVerdict(txs) ==
  IF Len(txs) <= 1 \/ ~OffsetsInBounds(txs) THEN "badRequest"
  ELSE IF \E i \in DOMAIN txs : ~VerifyPoolL2Tx(txs[i], RqCopied(txs)[i]) THEN "badRequest"
  ELSE IF ~IsSingleAtomicGroup(txs) THEN "badRequest"
  ELSE IF ~Insertable(txs) THEN "sqlError"
  ELSE "ok"

PostAtomicPool(group) ==
  LET txs == Submissions[group]
      verdict == AtomicVerdict(txs)
  IN  /\ \/ /\ verdict = "ok"
             /\ pool' = pool \o [i \in DOMAIN txs |-> Stored(txs[i], RqCopied(txs)[i], group)]
          \/ /\ verdict # "ok"
             /\ UNCHANGED pool
      /\ last' = [req |-> group, result |-> verdict]

-----------------------------------------------------------------------------
(* postPoolTx *)

SingleVerdict(tx) ==
  IF tx.rqOffset # 0 \/ tx.rqTxID # NoTx THEN "badRequest"
  ELSE IF ~VerifyPoolL2Tx(tx, tx.rq) THEN "badRequest"
  ELSE IF ~Insertable(<< tx >>) THEN "sqlError"
  ELSE "ok"

PostPoolTx(tx) ==
  /\ \/ /\ SingleVerdict(tx) = "ok"
        /\ pool' = Append(pool, Stored(tx, tx.rq, NoGroup))
     \/ /\ SingleVerdict(tx) # "ok"
        /\ UNCHANGED pool
  /\ last' = [req |-> tx.id, result |-> SingleVerdict(tx)]

-----------------------------------------------------------------------------
Next ==
  \/ \E tx \in Singles : PostPoolTx(tx)
  \/ \E group \in DOMAIN Submissions : PostAtomicPool(group)

Spec == Init /\ [][Next]_vars

-----------------------------------------------------------------------------
(* Properties *)

\* Every stored RqOffset fits the protocol's 3-bit field.
TypeOK ==
  /\ \A k \in DOMAIN pool : pool[k].rqOffset \in 0..7
  /\ last.result \in {"none", "ok", "badRequest", "sqlError"}

\* Spec 4.4 and 8.8: the pool holds an atomic group only if it is a single
\* strongly connected component of the RqTxID graph with every RqTxID
\* inside it, and a tx that requests another is always part of a group.
\* Both endpoints and every order of requests must keep this.
PoolGroupsAreSingleAtomic ==
  /\ \A k \in DOMAIN pool :
       pool[k].rqTxID # NoTx => pool[k].group # NoGroup
  /\ \A grp \in GroupsIn(pool) :
       LET m == Members(pool, grp)
           ids == { m[i].id : i \in DOMAIN m }
       IN  /\ Len(m) >= 2
           /\ \A i \in DOMAIN m : m[i].rqTxID \in ids
           /\ IsConnected([x, y \in ids |-> \E i \in DOMAIN m : m[i].id = x /\ m[i].rqTxID = y],
                          ids)

\* The TxSelector assumes that the txs of an atomic group are in the pool
\* with valid RqOffsets (txselector package comment): every group
\* postAtomicPool accepted passes isAtomicGroupValid, so that
\* filterInvalidAtomicGroups does not discard it at every selection.
AdmittedGroupsSelectable ==
  \A grp \in GroupsIn(pool) : IsAtomicGroupValid(Members(pool, grp))

\* Spec 6: admission "recomputes TxID", and spec 8: the TxID recomputed
\* from (FromIdx, Nonce) equals the stored one.  Every admitted tx is
\* stored, and answered, under its derived TxID.
AdmittedTxIDsDerived ==
  \A k \in DOMAIN pool : pool[k].id = TxIDOf(pool[k])

\* Spec 6: admission "validates type inference from ToIdx/ToEthAddr/ToBJJ",
\* and a pool tx is a Transfer, TransferToEthAddr, TransferToBJJ or Exit
\* (spec 3).  Every admitted tx has the type its destination denotes:
\* a user ToIdx a Transfer, ToIdx 1 an Exit, ToIdx 0 a TransferToBJJ
\* (BJJ with the FF address) or a TransferToEthAddr (an eth address).
AdmittedTypesInferred ==
  \A k \in DOMAIN pool :
    LET tx == pool[k]
    IN  \/ tx.toIdx >= IdxUserThreshold /\ tx.type = "Transfer"
        \/ tx.toIdx = 1 /\ tx.type = "Exit"
        \/ /\ tx.toIdx = 0 /\ tx.toBJJ # EmptyBJJComp /\ tx.toEthAddr = FFAddr
           /\ tx.type = "TransferToBJJ"
        \/ /\ tx.toIdx = 0 /\ tx.toEthAddr \notin {FFAddr, EmptyAddr}
           /\ tx.type = "TransferToEthAddr"

=============================================================================
