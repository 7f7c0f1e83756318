---------------------------- MODULE MCAccountReads ----------------------------
(***************************************************************************)
(* An instance of the reads for TLC: a deposit of two coins, of which a    *)
(* chain of own transactions spends one, and a shared transaction mixes    *)
(* the other with somebody else's coin.                                    *)
(***************************************************************************)
EXTENDS AccountReads

CONSTANTS deposit, payment, payment2, shared, elsewhere

OwnCoin(v)    == [own |-> TRUE, value |-> v]
OthersCoin(v) == [own |-> FALSE, value |-> v]

MCTxs == {deposit, payment, payment2, shared}

MCIns == deposit  :> {<<elsewhere, 1>>}
      @@ payment  :> {<<deposit, 1>>}
      @@ payment2 :> {<<payment, 2>>}
      @@ shared   :> {<<deposit, 2>>, <<elsewhere, 2>>}

MCOuts == elsewhere :> <<OthersCoin(16), OthersCoin(6)>>
       @@ deposit   :> <<OwnCoin(9), OwnCoin(4), OthersCoin(2)>>
       @@ payment   :> <<OthersCoin(3), OwnCoin(5)>>
       @@ payment2  :> <<OthersCoin(1), OwnCoin(3)>>
       @@ shared    :> <<OwnCoin(7), OthersCoin(2)>>

\* Calls of getTransfers.
Everything == [direction |-> "all", skip |-> 0, limit |-> 20]
IncomingPage == [direction |-> "incoming", skip |-> 1, limit |-> 1]

MCOptions == {Everything, IncomingPage}
=============================================================================
