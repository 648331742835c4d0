------------------------- MODULE MC_PoolAdmission -------------------------
(***************************************************************************)
(* Three accounts: 256 and 257 of token 0 (257 has nonce 1), 258 of token *)
(* 1; eth address e1 can receive token 0, e2 nothing.  A TxID is the pair *)
(* << FromIdx, Nonce >>, every tx carries its own.  The submissions cover *)
(* each early return of postAtomicPool:                                    *)
(*   ga   a valid pair, accepted                                           *)
(*   gb   ga again under another AtomicGroupID (TxIDs already in the pool) *)
(*   gx   three txs whose RqTxIDs form one cycle, but the first tx's       *)
(*        RqOffset points at another tx than its RqTxID: no Rq* copy       *)
(*   gd   two disjoint request cycles                                      *)
(*   ge   a tx with an empty RqTxID                                        *)
(*   gu   an RqOffset (8) outside the table                                *)
(*   gs   a single tx                                                      *)
(*   gp   a TxID repeated inside the submission                            *)
(* and the single txs each of postPoolTx: a valid transfer, one with an    *)
(* RqTxID, a zero exit, a transfer to an unreachable eth address, a nonce *)
(* below the account's, a tx with the TxID of ga's first tx, a Transfer   *)
(* claimed for ToIdx 1 and a reserved ToIdx (5).  MCTypeSingles exercise  *)
(* SetType: a TransferToBJJ, an Exit claimed for ToIdx 0 with no address, *)
(* and the last two above; MCBareSingles a transfer sent without TxID and *)
(* Type.                                                                   *)
(***************************************************************************)
EXTENDS PoolAdmission

CONSTANTS e1, e2, ga, gb, gx, gd, ge, gu, gs, gp

ID(from, nonce) == << from, nonce >>

\* A tx with the raw destination fields and the Type the client sent.
D(from, nonce, type, toIdx, toEthAddr, toBJJ, amount, rqOffset, rqTxID, rq, signedRq) ==
  [id |-> ID(from, nonce), from |-> from, nonce |-> nonce, type |-> type,
   toIdx |-> toIdx, toEthAddr |-> toEthAddr, toBJJ |-> toBJJ,
   token |-> IF from = 258 THEN 1 ELSE 0, amount |-> amount,
   absFee |-> 1, rqOffset |-> rqOffset, rqTxID |-> rqTxID, rq |-> rq,
   signedRq |-> signedRq]

\* A tx of the given type with the destination fields that type has.
T(from, nonce, type, to, amount, rqOffset, rqTxID, rq, signedRq) ==
  D(from, nonce, type,
    CASE type = "Transfer" -> to [] type = "Exit" -> 1 [] OTHER -> 0,
    IF type = "TransferToEthAddr" THEN to ELSE EmptyAddr,
    EmptyBJJComp, amount, rqOffset, rqTxID, rq, signedRq)

MCAccounts ==
  (256 :> [token |-> 0, nonce |-> 0]) @@ (257 :> [token |-> 0, nonce |-> 1])
    @@ (258 :> [token |-> 1, nonce |-> 0])

MCEthReachable == { << e1, 0 >> }

PairA == << T(256, 0, "Transfer", 257, 1, 1, ID(256, 1), NoTx, ID(256, 1)),
            T(256, 1, "Transfer", 257, 1, 7, ID(256, 0), NoTx, ID(256, 0)) >>

MCSubmissions ==
  (ga :> PairA) @@ (gb :> PairA)
  @@ (gx :> << T(257, 1, "Transfer", 256, 1, 1, ID(257, 3), NoTx, NoTx),
               T(257, 2, "Exit", 1, 1, 7, ID(257, 1), NoTx, ID(257, 1)),
               T(257, 3, "TransferToEthAddr", e1, 1, 7, ID(257, 2), NoTx, ID(257, 2)) >>)
  @@ (gd :> << T(258, 0, "Exit", 1, 1, 1, ID(258, 1), NoTx, ID(258, 1)),
               T(258, 1, "Exit", 1, 1, 7, ID(258, 0), NoTx, ID(258, 0)),
               T(258, 2, "Exit", 1, 1, 1, ID(258, 3), NoTx, ID(258, 3)),
               T(258, 3, "Exit", 1, 1, 7, ID(258, 2), NoTx, ID(258, 2)) >>)
  @@ (ge :> << T(256, 2, "Transfer", 257, 1, 1, ID(256, 3), NoTx, ID(256, 3)),
               T(256, 3, "Transfer", 257, 1, 7, NoTx, NoTx, NoTx) >>)
  @@ (gu :> << T(256, 4, "Transfer", 257, 1, 8, ID(256, 5), NoTx, NoTx),
               T(256, 5, "Transfer", 257, 1, 7, ID(256, 4), NoTx, ID(256, 4)) >>)
  @@ (gs :> << T(256, 6, "Transfer", 257, 1, 1, ID(256, 6), NoTx, NoTx) >>)
  @@ (gp :> << T(256, 7, "Transfer", 257, 1, 1, ID(256, 8), NoTx, ID(256, 8)),
               T(256, 8, "Transfer", 257, 1, 7, ID(256, 7), NoTx, ID(256, 7)),
               T(256, 7, "Transfer", 257, 2, 7, ID(256, 8), NoTx, ID(256, 8)) >>)

MCSingles ==
  { T(256, 9, "Transfer", 257, 1, 0, NoTx, NoTx, NoTx),
    T(256, 10, "Transfer", 257, 1, 0, ID(256, 9), NoTx, NoTx),
    T(256, 11, "Exit", 1, 0, 0, NoTx, NoTx, NoTx),
    T(256, 12, "TransferToEthAddr", e2, 1, 0, NoTx, NoTx, NoTx),
    T(257, 0, "Transfer", 256, 1, 0, NoTx, NoTx, NoTx),
    T(256, 0, "Transfer", 257, 1, 0, NoTx, NoTx, NoTx),
    D(258, 7, "Transfer", 1, EmptyAddr, EmptyBJJComp, 1, 0, NoTx, NoTx, NoTx),
    D(258, 8, "Transfer", 5, EmptyAddr, EmptyBJJComp, 1, 0, NoTx, NoTx, NoTx) }

\* The singles that exercise SetType.
MCTypeSingles ==
  { D(258, 5, "TransferToBJJ", 0, FFAddr, "bjj", 1, 0, NoTx, NoTx, NoTx),
    D(258, 6, "Exit", 0, EmptyAddr, EmptyBJJComp, 1, 0, NoTx, NoTx, NoTx),
    D(258, 7, "Transfer", 1, EmptyAddr, EmptyBJJComp, 1, 0, NoTx, NoTx, NoTx),
    D(258, 8, "Transfer", 5, EmptyAddr, EmptyBJJComp, 1, 0, NoTx, NoTx, NoTx) }

\* A valid transfer posted with neither TxID nor Type: NewPoolL2Tx derives
\* both on verifyPoolL2Tx's copy.
MCBareSingles ==
  { [D(258, 4, "", IdxUserThreshold + 2, EmptyAddr, EmptyBJJComp, 1, 0, NoTx, NoTx, NoTx)
       EXCEPT !.id = NoTx] }

=============================================================================
