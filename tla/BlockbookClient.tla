--------------------------- MODULE BlockbookClient ---------------------------
(***************************************************************************)
(* The Blockbook client (transports/blockbook-client.js) of one address,   *)
(* over the part of the ledger its server shows: transactions that wait,   *)
(* are mined, or are evicted with all that spends them.                    *)
(*                                                                         *)
(* An outpoint is a pair of a transaction and the number of its output.    *)
(* Each request sees the ledger as it is at that moment.                   *)
(***************************************************************************)
EXTENDS Integers, Sequences, FiniteSetsExt, SequencesExt

CONSTANTS
    Txs,        \* transactions that may touch the address
    Elsewhere,  \* a transaction that does not, and is mined
    Ins,        \* the outpoints each transaction spends
    Outs,       \* its outputs: a sequence of [own, value]
    PageSize,   \* transactions on a page of the history: 1000
    MaxTip      \* bound: blocks ever mined

OutputsOf(t) == {<<t, n>> : n \in DOMAIN Outs[t]}
Own(o) == Outs[o[1]][o[2]].own

OutsOf(ts) == UNION {OutputsOf(t) : t \in ts}

Outpoints == OutsOf(Txs \cup {Elsewhere})

\* What a set of outpoints is worth.
Value == [o \in Outpoints |-> Outs[o[1]][o[2]].value]
Worth(os) == MapThenSumSet(LAMBDA o : Value[o], os)

\* But for a miner's reward, no transaction pays more than it spends.
ASSUME BlockbookAssumption ==
    /\ Elsewhere \notin Txs /\ MaxTip \in Nat /\ PageSize \in Nat \ {0}
    /\ \A t \in Txs \cup {Elsewhere} : Outs[t] \in Seq([own : BOOLEAN, value : Nat])
    /\ \A o \in OutputsOf(Elsewhere) : ~Own(o)
    /\ \A t \in Txs : /\ Ins[t] \subseteq Outpoints /\ IsFiniteSet(Ins[t])
                      /\ Ins[t] # {} => Worth(OutputsOf(t)) <= Worth(Ins[t])

VARIABLES
    history,    \* the server's list: waiting transactions, then blocks, newest first
    height,     \* the block of each transaction, 0 while it has none
    tip         \* blocks mined

ledger == <<history, height, tip>>

InitLedger ==
    /\ history = <<>>
    /\ height = [t \in Txs |-> 0]
    /\ tip = 0

Known == ToSet(history)
Pending == {t \in Known : height[t] = 0}
Mined == Known \ Pending

SpentBy(ts) == UNION {Ins[t] : t \in ts}

----------------------------------------------------------------------------
(* The ledger *)

\* The elements of s that are in the set, in their order: SelectSeq, spelled
\* out as the function it is.
Only(s, set) ==
    LET only[i \in 0..Len(s)] ==
            IF i = 0 THEN <<>>
            ELSE IF s[i] \in set THEN Append(only[i - 1], s[i]) ELSE only[i - 1]
    IN  only[Len(s)]

\* A transaction reaches the server; it spends outputs nothing else spends.
Accept(t) ==
    /\ t \notin Known
    /\ \A o \in Ins[t] : o[1] \in Known \cup {Elsewhere} /\ o \notin SpentBy(Known)
    /\ history' = <<t>> \o history
    /\ UNCHANGED <<height, tip>>

\* A block, perhaps empty.
Mine(block) ==
    /\ tip < MaxTip
    /\ \A t \in block : \A o \in Ins[t] : o[1] \notin Pending \ block
    /\ tip' = tip + 1
    /\ height' = [t \in Txs |-> IF t \in block THEN tip' ELSE height[t]]
    /\ history' = Only(history, Pending \ block) \o Only(history, block)
                    \o Only(history, Mined)

\* A waiting transaction is replaced or expires, with its descendants.
Evict(gone) ==
    /\ gone # {}
    /\ \A t \in Pending : (\E o \in Ins[t] : o[1] \in gone) => t \in gone
    /\ history' = Only(history, Known \ gone)
    /\ UNCHANGED <<height, tip>>

LedgerStep ==
    \/ \E t \in Txs : Accept(t)
    \/ \E ts \in SUBSET Pending : Mine(ts) \/ Evict(ts)

----------------------------------------------------------------------------
(* getBalance *)

\* sumOwnedValues.
OwnedValue(os) == Worth({o \in os : Own(o)})

\* isTrusted: every input is the address's own, and none comes from a waiting
\* transaction that is not itself trusted.
IsTrusted[t \in Txs] ==
    /\ Ins[t] # {}
    /\ \A o \in Ins[t] : Own(o) /\ (o[1] \in Pending => IsTrusted[o[1]])

\* Faulty variant: change is counted although spent further.
NoneConsumed == {}

\* consumedOutpoints.
Consumed == {o \in SpentBy(Pending) : o[1] \in Pending}

\* Faulty variant: the outputs of any waiting transaction are counted.
ChangeOfAny(t) == OwnedValue(OutputsOf(t) \ Consumed)

Change(t) == IF IsTrusted[t] THEN OwnedValue(OutputsOf(t) \ Consumed) ELSE 0

\* getUnconfirmedOutgoing.  The code is given one page of transactions, newest
\* first: this is what it computes while the pending ones fit on that page.
UnconfirmedOutgoing ==
    LET spent(t) == OwnedValue({o \in Ins[t] : o[1] \notin Pending})
        outgoing == [t \in Pending |-> spent(t) - Change(t)]
    IN  MapThenSumSet(LAMBDA t : outgoing[t], Pending)

\* The server's balance: what mined transactions left unspent.
Confirmed == OwnedValue(OutsOf(Mined) \ SpentBy(Mined))

\* getBalance of the client, and of the account.
Balance == Confirmed - UnconfirmedOutgoing

----------------------------------------------------------------------------
(* getHistory *)

\* One page of the list, as it is now.
Page(n) == SubSeq(history, (n - 1) * PageSize + 1, Min({n * PageSize, Len(history)}))

\* Faulty variant: the last page is not read.
LastButOne(n) == (n + 1) * PageSize >= Len(history)

\* page >= totalPages.
IsLastPage(n) == n * PageSize >= Len(history)

----------------------------------------------------------------------------
(* Properties *)

\* What nobody else can undo: mined transactions, and waiting ones that come,
\* through own transactions alone, from mined ones.
Settled ==
    Mined \cup UNION {ts \in SUBSET Pending :
        \A t \in ts : /\ Ins[t] # {}
                      /\ \A o \in Ins[t] : Own(o) /\ o[1] \notin Pending \ ts}

\* The balance is the value of the address's unspent outputs of the settled
\* transactions: each is counted once along any chain, and nothing whose sender
\* could take it back.
BalanceIsSettled ==
    Balance = OwnedValue(OutsOf(Settled) \ SpentBy(Known))

\* Money once shown in the balance leaves it only by a transaction that spends
\* the address's coins: no block, and no eviction of anybody's, lowers it.
OnlySpendingLowers ==
    [][ledger' # ledger /\ Balance' < Balance =>
            \E o \in SpentBy(Known') \ SpentBy(Known) : Own(o)]_ledger
=============================================================================
