# A verification of wdk-wallet-btc

TLA+ models, model-checking runs and machine-checked proofs for
`@tetherto/wdk-wallet-btc`, a self-custodial bitcoin wallet in JavaScript: accounts
that plan, sign and send transactions, a manager that derives and caches them,
signers that hold keys, and clients of Electrum and Blockbook servers.

JavaScript runs one task at a time, so a step of a model is what the code runs
between two awaits; everything the code can be interrupted by happens at an await.

## The system

| Part | Code | State it keeps | Operations |
|---|---|---|---|
| Sending account | `src/wallet-account-btc.js` | none between calls but its signer and client; a call keeps its plan, transaction, fee and retries | `signTransaction`, `sendTransaction` (of a request or a signed transaction), `quoteSendTransaction`, `getTransfers`, `dispose` |
| Read-only account | `src/wallet-account-read-only-btc.js` | its clients, the cached dust limit | `_planSpend`, `getBalance`, `getTransaction`, `getMaxSpendable`, `getTransactionReceipt`, `verify`, `dispose` |
| Manager | `src/wallet-manager-btc.js` | the cache of accounts, the signers, the list of clients, of which it made some | `getAccount`, `getAccountByPath`, `addSigner` (base class), `getFeeRates`, `dispose` |
| Signers | `src/signers/` | a private key until `dispose` | `derive`, `signPsbt`, `sign`, `dispose` |
| WebSocket transport | `src/transports/ws.js` | socket, request counter, table of pending promises, `_connected`, `_connecting` | `connect`, `close`, `reconnect`, seven requests |
| TCP/TLS transport | `src/transports/mempool-electrum-client.js` | the library's client, `_connected`, `_connecting` | the same |
| Blockbook client | `src/transports/blockbook-client.js` | none | the same, over HTTP |
| Failover provider | external package | the list of clients | any request, retried on the next client |

How they interact: a call of an account awaits its client several times: to
connect, to list unspent outputs, to fetch previous transactions, to broadcast,
then to list again until its inputs are gone. Calls of one account share nothing
but the client and the network, so two of them can plan with the same coin. The
manager hands one list of clients to all its accounts; all of them share each
client's socket, and each can close it. A signer is either derived by the manager
(the account owns and erases it) or given by the caller (nobody but the caller
erases it).

What is hard: the provider's view lags behind the network; answers are lost after
their effect; retries; a fee corrected after signing, at the dust limit; a socket
replaced while its events are still to come; awaits between a test and the
assignment it guards; keys that outlive the object that should erase them.

What makes each part correct:

* Sending: an accepted transaction pays the recipient the amount asked, costs what
  the caller was told and no more than the limit, has no dust output, is paid once
  however often it is sent, and every call ends.
* WebSocket: a reply reaches the call it answers, no call waits for something that
  can no longer happen, a client knows whether its socket is open.
* Manager: the account returned is the one asked for, one per request; a
  dispose erases every key the wallet made and none it was given.
* TCP/TLS: callers share one handshake; `_connected` agrees with the library's session;
  a closed client stays closed, whatever the library still retries.
* Clients: each connection is closed by whoever made it, and by nobody else.
* Reads: the balance is what nobody else can undo; a list of transfers misses none
  that was mined before it was asked for, unless one is evicted meanwhile, and tells each as it is; a receipt claims
  no more than the chain does; the amount announced as spendable can be spent.

## The modules

**`SpendPlan`** is the arithmetic of a spend: `_toBigInt` on rates (written in
tenths of a sat/vB so that rounding is a real conversion), what `_planSpend` makes
of a coin selection (minimum fee, change, dust left to the fee), and what
`_getRawTransaction` does when the signed transaction is larger than estimated.
Coinselect is external: it may return any set of the coins reported that covers the
amount and the estimated fee, which includes whatever its algorithm would choose.

**`SendTransaction`** is `signTransaction` and `sendTransaction`, one action per
stretch between awaits. `pc[c]` names the await a call is suspended at; `tx[c]` is
the plan, then the transaction; `polls[c]` is `retries`. The network is the set of
accepted transactions, and each server shows a part of them (`indexed`) that grows
when it likes. `Broadcast` may be accepted with its answer lost; any request may
fail; `SendSigned` is a caller who sends, or sends again, the transaction it holds. A signed
transaction made elsewhere, which `sendTransaction(hex)` accepts as well, is not modelled.
`RealValue` also stands for the value the code computes from a previous transaction it
fetches: that the provider sent the right one is assumed but for legacy inputs, whose
values are checked.

| Action | Code |
|---|---|
| `Start`, `Connect` | the call, `_ensureConnected`, `estimateFee` |
| `PlanSpend` | `_planSpend` |
| `VerifyLegacyUtxos` | `_verifyLegacyUtxos` |
| `Sign` | `_getRawTransaction`: sign, correct, sign again, assert |
| `CheckMaxFee` | `transactionMaxFee` in both calls |
| `SendSigned`, `ResolveFee` | `sendTransaction(hex)`, `_getSignedTransactionFee` |
| `Broadcast` | `this._client.broadcast(hex)` |
| `Sleep`, `ListAgain`, `StopPolling` | the polling loop |
| `Index` | a server, external |

**`Payment`** is what that promises, without coins or servers: a sum becomes due, is
paid at most once and debits exactly that sum; what was refused is never paid; after
a failure of the provider the outcome is unknown, and the same payment may be tried
again, then or after the call returned. `SendTransaction` implements it under the mapping at the end of that module
(`KeepsPromise`), where the balance is the real value of the unspent outputs.

**`MaxSpendable`** is `getMaxSpendable` beside that plan: its own sizes per input and
output, its own rounding (`FeeFor` keeps the fraction of the rate, where the plan rounds
the rate first), the largest `MAX_UTXO_INPUTS` coins worth more than they cost, and an
amount with or without a change (`Announced`). `CanPlan` says that some selection of
coins for that amount is accepted by the plan, and that all of them are where coinselect
can go wrong in no way: a list within the limit of inputs, a rate whose fees reach the
minimum. It extends `SendTransaction`, so that the
lists it reads are those a call would plan from, in any state of the calls.

**`ElectrumWs`** is the WebSocket transport. Variables are the object's fields,
`ready` and `promise` the state of every socket ever made, `wire` the requests a
server has not answered. The seven requests are one action: they differ in the
method's name. Old sockets go on delivering events to the handlers of the object.
Microtasks run before any event; loading the `ws` package the first time is not one.
`CreateSocket` and `CreateFails` are the end of `connect()` after the await: there may be
no WebSocket class, or one whose constructor refuses the URL, then and always.

**`WalletManager`** is the manager as the keeper of keys: `cache` is `_accounts`,
`alive` the signers whose key is in memory. `GetAccountByPath` and
`FinishGetAccount` are the two sides of the await of `derive`. Names, paths and the
keys `name:path` are strings of one set (`Texts`); `Composed` is the string of a name and
a path, of which no more is assumed than that the colon before a valid path ends the
name. A signer's name may thus be another's composed key, and a request may pass any
string as either (`SameString` says which requests cannot be told apart). The same module
keeps the clients: `Given` is `config.client` as a list of instances and descriptors,
`AccountList` and `CopyList` what an account and its read-only copy find as theirs,
`Closed` what `dispose` closes by `_isExternalClient`, and `open` the clients with a
connection. `Use` is any operation of an account, which first calls `connect()` and
awaits it (`awaited`); `Connected` is its end. Both may come after the dispose: `late`
holds the clients awaited at the dispose and those used since.

**`MempoolElectrumClient`** is the TCP and TLS transport. `connected` and `connecting` are
the fields of the object; the library's client is external and modelled by what it can
do: hold a session, lose it, reconnect `maxRetry` times by the function the code replaces
in `close()` (`repair`). An attempt is one call of `initElectrum` with its `.then`,
`.catch` and `.finally`; one interrupted by `close()` or by a new socket settles late,
or over the next session, or never. That the library's `close()` ends the socket it uses,
also one it is just connecting, and that a handshake that was closed is not answered over
that socket, is assumed of it. `setBy` remembers which attempt set `_connected`.

| Action | Code |
|---|---|
| `Connect`, `Close`, `Reconnect` | the methods, up to their last line |
| `Succeed`, `Fail` | the promise of `initElectrum` settles: `.then`, `.catch`, `.finally` |
| `Lose`, `Retry`, `Redialled` | the library, external: it loses its socket, makes a new one by its own reconnect, and that one connects or closes |

**`BlockbookClient`** is the Blockbook client over a ledger: transactions that reach
the server, are mined, or are evicted with their descendants. `Balance` is
`getBalance`, with `isTrusted` as the recursive function `IsTrusted`; its reference,
`Settled`, says without recursion what nobody else can undo. The code reads one page of
transactions (`blockbook-client.js:188`), which holds the pending ones as long as they are
no more than a page of the server; the model takes them all. `Page` and `IsLastPage`
are the pages of `getHistory`, each read from the list as it is by then.

**`AccountReads`** is `getTransfers` and `getTransaction` over that client, request by
request: `HistoryPage` is a page, `Batch` one turn of the loop over 64 items
(`BatchSize`) with the fetches that fail in it and what the cache already holds (an entry
its limit drops is only fetched again, and left out),
`RawTransaction` and `TipRead` the end of a receipt. A waiting transaction has height
-1 in the history, as Blockbook gives it. The ledger rests during the batches and
after a result, since nothing read then depends on it.

`MCSendTransaction`, `MCElectrumWs`, `MCWalletManager`, `MCMempoolElectrum` and
`MCAccountReads` give TLC its instances. The modules with theorems are
`DataTheorems` (sums and finite sets), `SendTransactionProofs`, `PaymentProofs`,
`MaxSpendableProofs`, `ElectrumWsProofs`, `MempoolElectrumProofs`,
`WalletManagerProofs` and `ReadsProofs`.

## The runs

| Run | Instance | Shows |
|---|---|---|
| `send_segwit` | two calls, three coins, one server, limit 400 | `TypeOK`, `NoDustOutputs`, `CostWithinMaxFee`, `ClearedNeverReselected`, `KeepsPromise`, `Settles` |
| `send_rebalance` | two calls, four coins of which one is reported with more than it has, two servers, signatures 0 or 32 vB above the estimate, limit 450 | `NoDustOutputs`, `CostWithinDustOfFee`, `CostWithinDustOfMaxFee`, `TotalsAreReal`, `MaxSpendableFeasible` |
| `ws` | two callers, three sockets, three requests | `TypeOK`, `PendingCanSettle`, `ConnectedMeansOpen`, `NoCrossTalk`, `CallsSettle` |
| `mempool` | two callers, four handshakes, two retries of the library | `TypeOK`, `HandshakesShared`, `ConnectedMeansSession`, `ClosedStaysDown`, `NoWaitOnClosed` |
| `manager` | one caller, a seed and two named signers of which one is named `seed2:p` as the other's path is, one path, two clients of which one is the caller's | `TypeOK`, `ForeignSignersKept`, `DisposedHoldsNoKey`, `DerivedOnce`, `DisposedLeavesNoConnection`, `ReturnsWhatWasAsked`, `OnlyOwnersClose` |
| `reads` | one call at a time, four transactions, two blocks, pages and batches of two | `TypeOK`, `BalanceIsSettled`, `TransfersComplete`, `ReceiptSound`, `OnlySpendingLowers` |

`CHECK_DEADLOCK` is off everywhere: when every call has ended, or a bound is
reached, the systems may stop.

Bounds. Amounts, fees and sizes are the real ones (141 satoshis, dust 546 or 294,
68 or 148 vB per input). The values of coins are chosen so that each branch is
taken: a change of exactly the dust limit, a fee below the minimum, a correction the
change pays, one that drops the change, one the recipient pays, one that would leave
it dust. `MAX_UTXO_INPUTS` is 2 instead of 200 so that three coins exceed it. Two
calls are enough for a conflict over a coin and for spending a change; in
`send_segwit` a call polls at most once, which is enough for the loop to end both
ways; in `send_rebalance`, whose properties concern amounts only, it does not. For the WebSocket two
callers race, and three sockets let one be replaced, replaced again, and still
report. Four handshakes of the TCP transport let one be interrupted, the next begin, the
first settle late and clear the promise, and two more follow; the bound that
`HandshakesShared` states grows with every interruption and says less late in a history. One caller in `manager`
is not a bound but the hypothesis: `DisposedHoldsNoKey` and `DerivedOnce` fail with two,
the first as `manager_dispose` shows. Two clients, one of each kind, tell a test of the list from a
test of its first entry. For the reads four transactions make two
pages and two batches, so that a transaction that comes, is mined or is evicted
between two pages moves the others across them; they are a deposit, a payment from
it, a second payment from its change, and a shared transaction that mixes an own coin
with somebody else's. Two blocks and a depth of 2 instead of 6 tell a final receipt
from a confirmed one. The tip may come from a server that lags. No block is ever
disconnected.

Fairness. `Settles` asks that a call that can go on does, which is what settled
promises and timers give, and nothing of the servers: a server need never index.
`CallsSettle` asks that started calls go on, that a socket's handshake ends, that a
closing socket closes, and that the server answers over an open socket. The code has no timeout,
so without the last two it would not hold; a request whose promise `close()` forgot
never settles, and is excepted in the statement.

### What does not hold

Six runs end in a violation of something the sources say:

* `send_spare` (`InsufficientMeansShort`): the minimum fee is applied after coin
  selection, and a selection it exceeds is refused as an insufficient balance though
  other coins would cover it.
* `ws_connect` (`ConnectEstablishes`): two overlapping `connect()` make two sockets;
  one of the callers is told it is connected while the current socket is not. The
  socket no longer referred to is also out of the reach of `close()`.
* `ws_reconnect` (`OnlyOwnSocketFails`): the old socket's close event rejects the
  requests of the new session.
* `mempool_flag` (`ConnectEstablishes`): a session the server ends does not reset
  `_connected`; once the library's retries have failed, or after an earlier `close()`,
  which replaces the library's reconnect for good, every `connect()` returns at
  once, without a session and without making one.
* `manager_dispose` (`DisposedHoldsNoKey`): a `dispose()` during the await of
  `getAccount` misses the account being made, and after two overlapping
  `getAccount` of one path it misses the one the cache no longer holds.
* `reads_failed` (`TransfersTrue`): an input whose previous transaction cannot be
  fetched is skipped; the change of a payment is then told as an incoming transfer,
  and the fee of a transaction with several inputs is not that of the whole.

Also seen while reading, without a run of their own:

* The change dropped by the correction after signing is paid to the miner without being
  counted in the fee told (`wallet-account-btc.js:598-600`) or in the one compared with
  `transactionMaxFee` (228, 256); the assertion "Fee shortfall after output rebalance"
  compares with that same fee (615). It takes a signer heavier than the estimate.
  `CostWithinDustOfFee` and `CostWithinDustOfMaxFee` say what remains true: the
  difference is never more than one dust output.
* At a rate whose fraction is a half or more the plan rounds up and `getMaxSpendable`
  does not: the amount it announces may then exceed what the plan can pay.
  `MaxSpendableFeasible` is about the other rates.
* At a low rate the plan may refuse the amount announced although other coins pay for it:
  with coins of 10000 and 390 at 1 sat/vB on segwit 9881 is announced, and if coinselect
  takes the coin of 10000 alone, whose fee of 119 is then raised to 141, the change is
  -22. With more than 200 coins coinselect may return more than 200 inputs, which the plan
  refuses (636): of 200 coins of 10000, one of 5000 and one of 4900, at 1 sat/vB, 1986027
  is announced, and a selection that skips a large coin for the two small ones has 201.
* `getAccount(name)` with a path, or with `name:path`, finds the account derived there
  instead of failing with the `NoSuchElementError` of `wallet-manager-btc.js:137`, and a
  signer registered under such a name answers for the path.
* An operation that awaits `connect()` while the manager is disposed of (`ws.js:116`)
  makes its connection afterwards; `wallet-manager-btc.js:215` says that `dispose()`
  closes all internal connections. `DisposedLeavesNoConnection` excepts it by name.
* With the Blockbook client an unconfirmed transfer has height -1, where `BtcTransfer`
  says 0 (`wallet-account-btc.js:50`); and `skip` counts history items while `limit`
  counts transfers (411, 422), where both are said to count transfers (298-299).
* A descriptor of an unknown type makes an undefined client, on which `dispose` of the
  manager throws before it erases a key; the types forbid it.

## The proofs

Every safety property of the six passing runs is proved. The theorems are for any
number of calls, callers, coins, transactions, sockets, requests, names and paths, and
any value of the other constants, under the assumptions the modules name
(`SpendPlanAssumption`, `SendTransactionAssumption`, `MaxSpendableAssumption`,
`ElectrumWsAssumption`, `MempoolElectrumAssumption`, `WalletManagerAssumption`,
`BlockbookAssumption`, `AccountReadsAssumption`): limits and sizes are naturals, the sets
of calls and first coins are finite and apart, `None` is no value; of the ledger, that a
transaction spends outputs there are, each of a value that is a natural, and, unless it
is a miner's reward, pays no more than it spends. A few theorems have a hypothesis of
their own, named below.

* `DataTheorems`: what the sum of a finite set is. The models add up coins with
  `MapThenSumSet`, which the library defines by a recursive function on subsets.
  That this function exists, that it does not depend on the order of the elements, and
  that sums over unions, differences and families of disjoint sets behave as sums
  (`SumOfUnion`, `SumOfDifference`, `SumOfSubset`, `SumOfSmaller`, `SumOfSets`) is proved
  by a least counterexample: among the finite subsets of a set for which a claim fails
  there is a smallest one (`LeastSubset`), as among naturals (`LeastNumber`). This replaces
  an induction that the installed provers cannot instantiate.
* `SendTransactionProofs`: `NeverDust`, `CostNearFee`, `CostNearMaxFee`, `Shape`. The
  invariants are not inductive: that an accepted transaction has no dust is known
  when it is planned or corrected, many steps before. `IInv` says of each call
  (`CallOK`) that a transaction is `Sound` as soon as there is one (outputs clear the
  dust limit; the real fee is within a dust output of the one told), that a plan not
  yet signed accounts for every satoshi, and that nothing is held, sent or accepted
  before its fee passed the limit. The arithmetic is in lemmas on `SpendPlan`:
  `PlanSound` (from the plan's guard and its dust rule), `RebalancedSound` (a
  correction moves the shortfall and loses at most a dust output).
* `PaymentProofs`: the money. `BooksKept` adds `Books` to that invariant: the inputs of
  every plan are coins there have been (`Backed`), its total is what a server said they
  are worth, and what was said has been compared with the truth before a legacy
  signature, and by the network for any other (`Verified`). `TypeCorrect` and `TotalsReal`
  (`TotalsAreReal`) follow. With `AllExact`, that a transaction pays exactly the
  fee told and the amount asked, and that this fee covers its size, follow `CostWithinLimit` (`CostWithinMaxFee`) and `PromiseKept`
  (`KeepsPromise`): initial states of the account are initial states of `Payment`, and
  each step is a step of `Payment` or none. These two assume `Excess = {0}`, that
  signatures weigh what was estimated: with heavier ones the change may be dropped
  unaccounted, and `CostNearFee` and `CostNearMaxFee` say what is left. The run
  `send_rebalance` has such signatures. `ClearedStaysGone` (`ClearedNeverReselected`)
  assumes one server: its inputs, once absent from the list, are absent for good
  (`Gone`), as a server only learns; two servers can lag apart.
* `ElectrumWsProofs`: `TypeCorrect`, `NoLostPromise` (`PendingCanSettle`),
  `RepliesMatch` (`NoCrossTalk`), `FlagNotOverstated` (`ConnectedMeansOpen`). The invariant ties the table, the wire and the
  callers: ids in the table are distinct requests on the wire over sockets that are
  open or closing, each for the caller that awaits it. `ConnectedMeansOpen` is
  inductive because a connected client that replaces its socket leaves one behind. It is
  one-sided: after `reconnect()` the old socket's close may reset the flag of the new one.
* `MaxSpendableProofs`: `MaxSpendableIsPlannable` (`MaxSpendableFeasible`). Its sizes are
  no smaller than coinselect's and its fee, rounded up, no less than the plan's at a rate
  that does not round up (`FeeForBounds`, `SizeBounds`), so the coins it adds up are a
  selection the plan accepts, with a change that pays for itself or with none
  (`CanPlan`). That every other selection is accepted too, where it is stated, follows
  because a selection covers coinselect's own fee, which is then the plan's.
* `MempoolElectrumProofs`: `TypeCorrect`, `OneHandshake` (`HandshakesShared`),
  `FlagLiesInTwoWays` (`ConnectedMeansSession`), `CloseIsFinal` (`ClosedStaysDown`),
  `WaitersCanSettle` (`NoWaitOnClosed`). The first needs a count (`SharedStrictly`): every
  attempt in flight but the one `_connecting` names is paid for by an interrupted one that
  has settled. The second says what a `_connected` without a session can mean: a session
  lost meanwhile, or that the very attempt that set it had its socket replaced. The close is final because it leaves no attempt in flight and a library
  that no longer repairs (`ShutOK`).
* `WalletManagerProofs`: `TypeCorrect`, `ForeignSignersAreKept` from the invariant
  that an account which owns its signer was made from a derived one; `OwnersClose`
  and `NothingLeftOpen` for any list of clients, the latter with the invariant that
  whatever is awaited after a dispose was awaited then or called later. It covers overlapping callers, which
  the `manager` run does not.
  `NoKeyLeft` (`DisposedHoldsNoKey`) and `OneAccountEach` (`DerivedOnce`) are under the
  hypothesis that there is one caller. The invariant `Tidy` rests on `Unseen`, the part
  two callers break: what a pending call will store is not in the cache yet.
  `AccountAskedFor` (`ReturnsWhatWasAsked`) is for any number of callers and any
  strings as names: each account is under the key of its own request, and two requests of
  one key are one, or one string by two routes (`KeysDiffer`).
* `ReadsProofs`, in four parts. First, what the recursive functions on sequences
  (`Only`, the concatenation of a batch) yield, by rank: the elements kept, in their
  order. Then the ledger: every history shows each transaction once, no output is spent
  twice, nothing mined spends what waits, and the chain has no circle (`Ledger`); what is
  mined never moves nearer to the front (`MinedStay`).
  Third, `getTransfers` and `getTransaction`: a page shifts under the reader, so
  `TransfersComplete` needs `Reading`, that each transaction mined when the call began
  has been read or is still at a place beyond the pages read, then `Gathered` and
  `Listed` for the batches (`TransfersCompleteAlways`); `ReceiptsSound` (`ReceiptSound`)
  needs `Heights`, that a height once shown stays true. `ReadsInvariant` is the
  conjunction, `TypeCorrect` follows from it.
  Fourth, the balance. `isTrusted` recurses along a chain without a circle, and finds
  exactly the largest set of waiting transactions that come, through own ones, from
  mined ones (`Trusting`); adding and subtracting coin by coin gives `BalanceSettled`
  (`BalanceIsSettled`). `OnlySpendingLowersBalance` (`OnlySpendingLowers`) is a
  property of steps: an arrival or a block leaves all that was settled settled
  (`SettledStays`), and an eviction takes away outputs worth no more than the coins
  their transactions spent, which return (`EvictionPays`, from the assumption that a
  transaction pays no more than it spends).

Only model-checked: liveness (`Settles`, `CallsSettle`), which is out of this prover's
reach.

## Not modelled, and the plan

Of the plan of this project the sending account, the transports, the manager with its
clients, the reads and `getMaxSpendable` are done. What is left:

1. `getTransfers` called page after page with `skip` and `limit`: what two pages
   together hold.
2. An account made without a manager, which makes and owns its clients as the manager
   does; a read-only copy of it then shares them as here.
3. The order in which the failover provider retries, with a call that moves to another
   server between two of its requests and a transport that is closed meanwhile.

Left out for good: cryptography (derivation, signatures, scripts, address
encodings), the wording of errors, the TLS settings, parsing of transactions, the
entry points and the types. `getFeeRates`, `estimateFee`, `verify` and
`getTransactionReceipt` are single requests that change no state.
