----------------------------- MODULE AccountReads -----------------------------
(***************************************************************************)
(* The reads of an account over a Blockbook client: getTransfers           *)
(* (wallet-account-btc.js) and getTransaction                              *)
(* (wallet-account-read-only-btc.js).  Each is a row of requests between   *)
(* which the ledger moves on; each request may fail.                       *)
(*                                                                         *)
(* One call at a time: calls share nothing but the client, which has no    *)
(* state.                                                                  *)
(***************************************************************************)
EXTENDS BlockbookClient, FiniteSets

CONSTANTS
    Options,    \* calls of getTransfers: [direction, skip, limit]
    BatchSize,  \* REQUEST_BATCH_SIZE
    Final,      \* FINAL_CONFIRMATIONS
    None        \* null

ASSUME AccountReadsAssumption ==
    /\ Options \subseteq [direction : {"incoming", "outgoing", "all"},
                          skip : Nat, limit : Nat]
    /\ Options \cap Txs = {} /\ None \notin Options \cup Txs
    /\ BatchSize \in Nat \ {0} /\ Final \in Nat

VARIABLES
    pc,         \* the await the call is suspended at
    call,       \* its argument: options, or the transaction asked for
    page,       \* the next page of the history
    items,      \* the history read so far, with the heights it shows
    next,       \* history items getTransfers has processed
    fetched,    \* txCache: transactions fetched by this call
    transfers,  \* the result of getTransfers
    receipt,    \* the result of getTransaction
    mined,      \* history: what was mined when the call began
    blemished   \* history: a fetch failed, or a transaction was evicted, since

reader == <<pc, call, page, items, next, fetched, transfers, receipt, mined, blemished>>
vars == <<ledger, reader>>

Init ==
    /\ InitLedger
    /\ pc = "idle" /\ call = None /\ page = 1 /\ items = <<>> /\ next = 0
    /\ fetched = {} /\ transfers = <<>> /\ receipt = None
    /\ mined = {} /\ blemished = FALSE

\* An item of the history: blockHeight is -1 while a transaction waits.
Shown(t) == [tx |-> t, height |-> IF t \in Pending THEN -1 ELSE height[t]]

\* The server and the chain move on.  What getTransfers reads after the history,
\* and a result, are the same whatever the ledger does: it need not move then.
Environment ==
    /\ pc \in {"idle", "history", "raw", "tip"}
    /\ LedgerStep
    /\ blemished' = (blemished \/ ~(Known \subseteq Known'))
    /\ UNCHANGED <<pc, call, page, items, next, fetched, transfers, receipt, mined>>

\* A call begins: its first await is the first page of the history.
Begin(argument) ==
    /\ pc \in {"idle", "done"}
    /\ pc' = "history" /\ call' = argument
    /\ page' = 1 /\ items' = <<>> /\ next' = 0 /\ fetched' = {}
    /\ transfers' = <<>> /\ receipt' = None
    /\ mined' = Mined /\ blemished' = FALSE
    /\ UNCHANGED ledger

GetTransfers == \E o \in Options : Begin(o)
GetTransaction == \E t \in Txs : Begin(t)

\* Any request but the fetches of getTransfers rejects the call by failing.
RequestFails ==
    /\ pc \in {"history", "raw", "tip"}
    /\ pc' = "idle" /\ call' = None
    /\ UNCHANGED <<ledger, page, items, next, fetched, transfers, receipt, mined, blemished>>

\* getHistory: a page; after the last, the call goes on with what it has.
HistoryPage ==
    LET read == items \o [i \in DOMAIN Page(page) |-> Shown(Page(page)[i])]
    IN  /\ pc = "history"
        /\ items' = read
        /\ page' = page + 1
        /\ pc' = IF ~IsLastPage(page) THEN "history"
                 ELSE IF call \in Options THEN "batches"
                 ELSE IF \E i \in DOMAIN read : read[i].tx = call THEN "raw"
                 ELSE "idle"    \* NoSuchElementError
    /\ UNCHANGED <<ledger, call, next, fetched, transfers, receipt, mined, blemished>>

----------------------------------------------------------------------------
(* getTransfers *)

\* The rows of an item: its outputs that are transfers in the direction asked
\* for, as they appear when the previous outputs of lost could not be fetched.
Rows(item, direction, lost) ==
    LET outs     == Outs[item.tx]
        inputs   == Ins[item.tx] \ lost
        total    == Worth(inputs)
        outgoing == \E o \in inputs : Own(o)
        fee      == IF total > 0 THEN total - Worth(OutputsOf(item.tx)) ELSE None
        row(n)   == [tx |-> item.tx, height |-> item.height, vout |-> n, fee |-> fee,
                     direction |-> IF outgoing THEN "outgoing" ELSE "incoming"]
        rows     == [n \in DOMAIN outs |-> row(n)]
    IN  Only(rows, {r \in ToSet(rows) :
                        /\ outs[r.vout].own <=> r.direction = "incoming"
                        /\ direction \in {"all", r.direction}})

\* slice(from, to) of an array.
Slice(s, from, to) == SubSeq(s, from + 1, Min({to, Len(s)}))

\* Faulty variants: a batch begins one item too late; the limit is not kept
\* within a batch.
AfterBatchOffByOne == next + BatchSize + 1

NotTruncated(rows, limit) == rows

AfterBatch == next + BatchSize

Truncated(rows, limit) == Slice(rows, 0, limit)

\* history.slice(skip).
Considered == Slice(items, call.skip, Len(items))

\* A batch: its items are fetched concurrently, each with its previous
\* transactions, and taken in order.  What was fetched before is not fetched
\* again; an item that fails has no rows, an input that fails is skipped.  The
\* cache is taken to be large enough: an entry it dropped would be fetched again.
Batch ==
    LET window == Slice(Considered, next, next + BatchSize)
        txs    == {window[i].tx : i \in DOMAIN window}
    IN  /\ pc = "batches"
        /\ next < Len(Considered) /\ Len(transfers) < call.limit
        /\ \E missing \in SUBSET (txs \ fetched) :
           \E lost \in SUBSET {o \in SpentBy(txs \ missing) : o[1] \notin fetched} :
            LET rows(i) == IF window[i].tx \in missing THEN <<>>
                           ELSE Rows(window[i], call.direction, lost)
            IN  /\ transfers' = Truncated(
                        transfers \o FlattenSeq([i \in DOMAIN window |-> rows(i)]),
                        call.limit)
                /\ fetched' = fetched \cup (txs \ missing)
                                \cup {o[1] : o \in SpentBy(txs \ missing) \ lost}
                /\ blemished' = (blemished \/ missing # {} \/ lost # {})
        /\ next' = AfterBatch
        /\ UNCHANGED <<ledger, pc, call, page, items, receipt, mined>>

\* The loop ends.
Return ==
    /\ pc = "batches"
    /\ next >= Len(Considered) \/ Len(transfers) >= call.limit
    /\ pc' = "done"
    /\ UNCHANGED <<ledger, call, page, items, next, fetched, transfers, receipt, mined,
                   blemished>>

----------------------------------------------------------------------------
(* getTransaction *)

\* history.find.
Item == items[CHOOSE i \in DOMAIN items :
                /\ items[i].tx = call
                /\ \A j \in 1..(i - 1) : items[j].tx # call]

\* The raw transaction is fetched; without a block that is all.
RawTransaction ==
    /\ pc = "raw"
    /\ \/ /\ Item.height <= 0
          /\ receipt' = [finality |-> "pending", block |-> None, confirmations |-> 0]
          /\ pc' = "done"
       \/ /\ Item.height > 0
          /\ pc' = "tip"
          /\ UNCHANGED receipt
    /\ UNCHANGED <<ledger, call, page, items, next, fetched, transfers, mined, blemished>>

\* Faulty variant: a tip below the block is not noticed, nor the block counted.
ConfirmationsBelow(best, block) == best - block

\* _getConfirmations.
Confirmations(best, block) ==
    IF best = 0 \/ best < block THEN None ELSE best - block + 1

\* The tip, from a server that may be behind.
TipRead ==
    /\ pc = "tip"
    /\ \E best \in 0..tip :
        LET depth == Confirmations(best, Item.height)
        IN  receipt' = [finality |-> IF depth # None /\ depth >= Final
                                     THEN "final" ELSE "confirmed",
                        block |-> Item.height, confirmations |-> depth]
    /\ pc' = "done"
    /\ UNCHANGED <<ledger, call, page, items, next, fetched, transfers, mined, blemished>>

----------------------------------------------------------------------------
Next ==
    \/ Environment
    \/ GetTransfers \/ GetTransaction
    \/ RequestFails \/ HistoryPage
    \/ Batch \/ Return
    \/ RawTransaction \/ TipRead

Spec == Init /\ [][Next]_vars

----------------------------------------------------------------------------
(* Properties *)

\* Every variable has its type; getTransfers keeps within its limit.
TypeOK ==
    /\ Known \subseteq Txs /\ Len(history) = Cardinality(Known)
    /\ height \in [Txs -> 0..tip] /\ tip \in 0..MaxTip
    /\ pc \in {"idle", "history", "batches", "raw", "tip", "done"}
    /\ call \in Options \cup Txs \cup {None}
    /\ \A i \in DOMAIN items : items[i].tx \in Txs /\ items[i].height \in -1..tip
    /\ fetched \subseteq Txs \cup {Elsewhere}
    /\ call \in Options => Len(transfers) <= call.limit
    /\ mined \subseteq Mined

\* A list of transfers from the first (skip 0) that its limit does not cut short
\* has every transfer of every transaction mined before the call began, though
\* others came, or were mined, while the history was read page by page and
\* processed in batches; unless a fetch failed or a transaction was evicted
\* meanwhile.  That it has a transfer only once is not said.
TransfersComplete ==
    (/\ pc = "done" /\ call \in Options /\ ~blemished
     /\ call.skip = 0 /\ Len(transfers) < call.limit) =>
            \A t \in mined :
                ToSet(Rows(Shown(t), call.direction, {})) \subseteq ToSet(transfers)

\* "The direction of the transfer" and "the fee paid for the full transaction":
\* what is told of a transfer is true of it, whatever could be fetched.
TransfersTrue ==
    \A i \in DOMAIN transfers :
        LET r     == transfers[i]
            whole == Rows([tx |-> r.tx, height |-> r.height], "all", {})
        IN  \E j \in DOMAIN whole :
                /\ whole[j].vout = r.vout /\ whole[j].direction = r.direction
                /\ r.fee \in {whole[j].fee, None}

\* What a receipt says of a mined transaction stays true: its block, no more
\* confirmations than it has, and "final" only at that depth, though history and
\* tip are read in two requests, the second perhaps from a server behind.
ReceiptSound ==
    pc = "done" /\ call \in Txs /\ receipt.finality # "pending" =>
        LET depth == tip - height[call] + 1
        IN  /\ receipt.block = height[call]
            /\ receipt.confirmations \in 1..depth \cup {None}
            /\ receipt.finality = "final" => depth >= Final
=============================================================================
