--------------------------- MODULE SendTransaction ---------------------------
(***************************************************************************)
(* The calls of signTransaction and sendTransaction made on one account    *)
(* (wallet-account-btc.js), each suspended at every await, over a provider *)
(* whose list of unspent outputs lags behind the transactions it accepted. *)
(*                                                                         *)
(* A coin is an output of the account: one of the FirstCoins, or the       *)
(* change of a call, which the call itself names.  The network (external)  *)
(* is the set of calls whose transaction it accepted; a server is the part *)
(* of them it has indexed, which is all that listUnspent tells.            *)
(***************************************************************************)
EXTENDS SpendPlan

CONSTANTS
    Calls,          \* the calls made on the account
    FirstCoins,     \* the account's coins at the start
    FirstValue,     \* [FirstCoins -> Nat]: their values
    Reported,       \* [FirstCoins -> Nat]: the values the provider reports
    Requests,       \* what a caller may ask: amount, rate, polls, signOnly
    Excess,         \* how many vB a signature may exceed the estimate by
    MaxFee,         \* transactionMaxFee; NoMaxFee when it is not set
    NoMaxFee,
    Legacy,         \* TRUE for a BIP-44 account
    Servers,        \* one server, or the members of a failover list
    None            \* nothing yet

Coins == FirstCoins \cup Calls

\* The arguments of a call, and the transaction it makes.
Request == [amount : Nat, tenths : Nat, polls : Nat, signOnly : BOOLEAN]

Transaction == [ins : SUBSET Coins, total : Nat, to : Nat, fee : Nat,
                change : Nat, vsize : Nat]

\* Why a call is rejected.
Failures == {"provider", "dust", "insufficient", "inputs", "mismatch",
             "shortfall", "maxfee", "broadcast", "poll"}

ASSUME SendTransactionAssumption ==
    /\ FirstValue \in [FirstCoins -> Nat]
    /\ Reported \in [FirstCoins -> Nat]
    /\ Requests \subseteq Request
    /\ Excess \subseteq Nat
    /\ MaxFee \in Nat \cup {NoMaxFee}
    /\ NoMaxFee \notin Nat
    /\ Legacy \in BOOLEAN
    /\ Calls \cap FirstCoins = {}
    /\ IsFiniteSet(Calls) /\ IsFiniteSet(FirstCoins)
    /\ None \notin Transaction \cup Request \cup Nat \cup Failures

VARIABLES
    pc,         \* where each call is suspended
    why,        \* why a call was rejected
    req,        \* its arguments
    seen,       \* the unspent outputs its plan was made from
    tx,         \* the plan, then the transaction built from it
    fee,        \* the fee the caller is told
    polls,      \* the polls it has left
    held,       \* calls whose signed transaction the caller holds
    accepted,   \* the network: calls whose transaction was accepted
    indexed,    \* each server: the accepted transactions it shows
    cleared     \* history: calls that saw their inputs gone

callVars == <<why, req, seen, tx, fee, polls, held>>
netVars  == <<accepted, indexed>>
vars     == <<pc, callVars, netVars, cleared>>

Init ==
    /\ pc = [c \in Calls |-> "idle"]
    /\ why = [c \in Calls |-> None]
    /\ req = [c \in Calls |-> None]
    /\ seen = [c \in Calls |-> {}]
    /\ tx = [c \in Calls |-> None]
    /\ fee = [c \in Calls |-> 0]
    /\ polls = [c \in Calls |-> 0]
    /\ held = {}
    /\ accepted = {}
    /\ indexed = [s \in Servers |-> {}]
    /\ cleared = {}

----------------------------------------------------------------------------
(* The network and its servers, external *)

SpentBy(calls) == UNION {tx[d].ins : d \in calls}

ChangeOf(calls) == {d \in calls : tx[d].change > 0}

\* The account's unspent outputs once these transactions are applied.
UnspentAfter(calls) == (FirstCoins \cup ChangeOf(calls)) \ SpentBy(calls)

Unspent == UnspentAfter(accepted)

\* The value of a coin, also as the code computes it from the transaction it
\* asks for: that the one it gets is the one it asked for, which only the check
\* of legacy inputs verifies, is taken for granted.
RealValue(k) == IF k \in FirstCoins THEN FirstValue[k] ELSE tx[k].change

\* listUnspent as a server answers it: coins with the values it reports.
ListUnspent(s) ==
    [k \in UnspentAfter(indexed[s]) |->
        IF k \in FirstCoins THEN Reported[k] ELSE tx[k].change]

\* A segwit signature commits to the values it spends, a legacy one does not.
SignatureValid(t) ==
    Legacy \/ \A k \in t.ins \cap FirstCoins : Reported[k] = FirstValue[k]

\* A broadcast is accepted when its inputs are unspent; one that is already
\* accepted changes nothing.
Admissible(c) == tx[c].ins \subseteq Unspent /\ SignatureValid(tx[c])

\* A server shows one more transaction, after those it spends from.
Index(s) ==
    \E c \in accepted \ indexed[s] :
        /\ tx[c].ins \cap Calls \subseteq indexed[s]
        /\ indexed' = [indexed EXCEPT ![s] = @ \cup {c}]
        /\ UNCHANGED <<pc, callVars, accepted, cleared>>

----------------------------------------------------------------------------
(* One call, from await to await *)

Goto(c, p) == pc' = [pc EXCEPT ![c] = p]

Reject(c, reason) ==
    /\ Goto(c, "rejected")
    /\ why' = [why EXCEPT ![c] = reason]

\* The caller calls sendTransaction, or signTransaction.
Start(c) ==
    /\ pc[c] = "idle"
    /\ Goto(c, "connecting")
    /\ \E r \in Requests : req' = [req EXCEPT ![c] = r]
    /\ UNCHANGED <<why, seen, tx, fee, polls, held, netVars, cleared>>

\* _ensureConnected, and estimateFee when no rate is given.
Connect(c) ==
    /\ pc[c] = "connecting"
    /\ \/ Goto(c, "planning") /\ UNCHANGED why
       \/ Reject(c, "provider")
    /\ UNCHANGED <<req, seen, tx, fee, polls, held, netVars, cleared>>

\* _planSpend: listUnspent, coin selection, fee and change.
PlanSpend(c) ==
    /\ pc[c] = "planning"
    /\ \E s \in Servers :
        LET list    == ListUnspent(s)
            amount  == req[c].amount
            options == Selections(list, amount, WholeRate(req[c].tenths))
        IN  \/ /\ amount <= DustLimit
               /\ Reject(c, "dust")
               /\ UNCHANGED <<seen, tx>>
            \/ /\ amount > DustLimit
               /\ seen' = [seen EXCEPT ![c] = DOMAIN list]
               /\ \/ options = {} /\ Reject(c, "insufficient") /\ UNCHANGED tx
                  \/ \E o \in options :
                        \/ /\ Cardinality(o.ins) > MAX_UTXO_INPUTS
                           /\ Reject(c, "inputs")
                           /\ UNCHANGED tx
                        \/ /\ Cardinality(o.ins) <= MAX_UTXO_INPUTS
                           /\ PlanChange(o, amount) < 0
                           /\ Reject(c, "insufficient")
                           /\ UNCHANGED tx
                        \/ /\ Cardinality(o.ins) <= MAX_UTXO_INPUTS
                           /\ PlanChange(o, amount) >= 0
                           /\ tx' = [tx EXCEPT ![c] = Plan(o, amount)]
                           /\ Goto(c, IF Legacy THEN "verifying" ELSE "signing")
                           /\ UNCHANGED why
            \/ /\ amount > DustLimit
               /\ Reject(c, "provider")
               /\ UNCHANGED <<seen, tx>>
    /\ UNCHANGED <<req, fee, polls, held, netVars, cleared>>

\* _verifyLegacyUtxos: the previous transaction of each input is fetched and
\* its value compared with the one reported.
\* Faulty variant: the provider's report is trusted as it is.
ValuesTrusted(c) == TRUE

ValuesMatch(c) ==
    \A k \in tx[c].ins \cap FirstCoins : Reported[k] = FirstValue[k]

VerifyLegacyUtxos(c) ==
    /\ pc[c] = "verifying"
    /\ \/ ValuesMatch(c) /\ Goto(c, "signing") /\ UNCHANGED why
       \/ ~ValuesMatch(c) /\ Reject(c, "mismatch")
       \/ Reject(c, "provider")
    /\ UNCHANGED <<req, seen, tx, fee, polls, held, netVars, cleared>>

\* _getRawTransaction: sign, and when the signed transaction is larger than
\* the plan's fee pays for, move the difference and sign again.  The recipient
\* is never left dust, and the fee must cover the size signed last.
Sign(c) ==
    LET rate == WholeRate(req[c].tenths)
        Signed(p, excess) == [p EXCEPT !.vsize = SignedVSize(p, excess)]
        Covered(p) == rate * p.vsize <= p.fee
        Done(p) == /\ tx' = [tx EXCEPT ![c] = p]
                   /\ fee' = [fee EXCEPT ![c] = p.fee]
                   /\ Goto(c, "signed")
                   /\ UNCHANGED why
        Fail(reason) == Reject(c, reason) /\ UNCHANGED <<tx, fee>>
    IN  /\ pc[c] = "signing"
        /\ \E e, f \in Excess :
             LET first == Signed(tx[c], e)
                 again == Signed(Rebalanced(first, rate * first.vsize), f)
             IN  \/ Covered(first) /\ Done(first)
                 \/ ~Covered(first) /\ again.to <= DustLimit /\ Fail("dust")
                 \/ /\ ~Covered(first) /\ again.to > DustLimit
                    /\ ~Covered(again) /\ Fail("shortfall")
                 \/ /\ ~Covered(first) /\ again.to > DustLimit
                    /\ Covered(again) /\ Done(again)
        /\ UNCHANGED <<req, seen, polls, held, netVars, cleared>>

\* transactionMaxFee, when it is set.
\* Faulty variant: it is never compared.
Unlimited(f) == TRUE

WithinMaxFee(f) == MaxFee # NoMaxFee => f <= MaxFee

\* The limit on the fee both calls check.  signTransaction then hands the
\* transaction over; sendTransaction fixes its retries and broadcasts.
CheckMaxFee(c) ==
    /\ pc[c] \in {"signed", "resolved"}
    /\ \/ /\ ~WithinMaxFee(fee[c])
          /\ Reject(c, "maxfee")
          /\ UNCHANGED <<polls, held>>
       \/ /\ WithinMaxFee(fee[c])
          /\ pc[c] = "signed" /\ req[c].signOnly
          /\ Goto(c, "handed")
          /\ held' = held \cup {c}
          /\ UNCHANGED <<why, polls>>
       \/ /\ WithinMaxFee(fee[c])
          /\ pc[c] = "resolved" \/ ~req[c].signOnly
          /\ Goto(c, "broadcasting")
          /\ polls' = [polls EXCEPT ![c] = req[c].polls]
          /\ UNCHANGED <<why, held>>
    /\ UNCHANGED <<req, seen, tx, fee, netVars, cleared>>

\* sendTransaction(hex): the caller sends what signTransaction gave it, and
\* sends it again, after a failure or although the call returned.
SendSigned(c) ==
    /\ c \in held
    /\ pc[c] \in {"handed", "rejected", "returned"}
    /\ Goto(c, "resolving")
    /\ why' = [why EXCEPT ![c] = None]
    /\ UNCHANGED <<req, seen, tx, fee, polls, held, netVars, cleared>>

\* _getSignedTransactionFee: the value of every input is fetched.
ResolveFee(c) ==
    LET inputs == Total([k \in tx[c].ins |-> RealValue(k)], tx[c].ins)
    IN  /\ pc[c] = "resolving"
        /\ \/ /\ fee' = [fee EXCEPT ![c] = inputs - tx[c].to - tx[c].change]
              /\ Goto(c, "resolved")
              /\ UNCHANGED why
           \/ Reject(c, "provider") /\ UNCHANGED fee
        /\ UNCHANGED <<req, seen, tx, polls, held, netVars, cleared>>

\* broadcast: accepted, or refused, or accepted with its answer lost.
Broadcast(c) ==
    /\ pc[c] = "broadcasting"
    /\ \/ /\ c \in accepted \/ Admissible(c)
          /\ accepted' = accepted \cup {c}
          /\ \/ Goto(c, "polling") /\ UNCHANGED why
             \/ Reject(c, "broadcast")
       \/ Reject(c, "broadcast") /\ UNCHANGED accepted
    /\ UNCHANGED <<req, seen, tx, fee, polls, held, indexed, cleared>>

\* The polling loop: sleep while retries are left, then list.
\* Faulty variant: one turn too many.
HasRetriesOffByOne(c) == polls[c] >= 0

HasRetries(c) == polls[c] > 0

\* Faulty variant: the retries are never used up.
RetriesKept(c) == polls[c]

RetriesAfterTurn(c) == polls[c] - 1

Sleep(c) ==
    /\ pc[c] = "polling"
    /\ HasRetries(c)
    /\ polls' = [polls EXCEPT ![c] = RetriesAfterTurn(c)]
    /\ Goto(c, "listing")
    /\ UNCHANGED <<why, req, seen, tx, fee, held, netVars, cleared>>

\* Some input is still listed.
\* Faulty variant: the loop leaves while its inputs are still listed.
NoSpentOutpoints(c, list) == tx[c].ins \cap DOMAIN list = {}

HasSpentOutpoints(c, list) == tx[c].ins \cap DOMAIN list # {}

\* The call returns when its inputs are gone, and fails when the list does.
ListAgain(c) ==
    /\ pc[c] = "listing"
    /\ \/ /\ \E s \in Servers :
               IF HasSpentOutpoints(c, ListUnspent(s))
               THEN Goto(c, "polling") /\ UNCHANGED cleared
               ELSE Goto(c, "returned") /\ cleared' = cleared \cup {c}
          /\ UNCHANGED why
       \/ Reject(c, "poll") /\ UNCHANGED cleared
    /\ UNCHANGED <<req, seen, tx, fee, polls, held, netVars>>

\* The retries are used up: the call returns without having seen them go.
StopPolling(c) ==
    /\ pc[c] = "polling" /\ ~HasRetries(c)
    /\ Goto(c, "returned")
    /\ UNCHANGED <<callVars, netVars, cleared>>

----------------------------------------------------------------------------
\* What the account does with a call once it is made.
Step(c) ==
    \/ Connect(c) \/ PlanSpend(c) \/ VerifyLegacyUtxos(c) \/ Sign(c)
    \/ CheckMaxFee(c) \/ ResolveFee(c) \/ Broadcast(c)
    \/ Sleep(c) \/ ListAgain(c) \/ StopPolling(c)

Next ==
    \/ \E c \in Calls : Start(c) \/ SendSigned(c) \/ Step(c)
    \/ \E s \in Servers : Index(s)

Spec == Init /\ [][Next]_vars

\* Every request of the provider is answered or fails, every promise settles;
\* nothing obliges a caller to call, nor a server to index.
FairSpec == Spec /\ \A c \in Calls : WF_vars(Step(c))

----------------------------------------------------------------------------
(* Properties *)

Places == {"idle", "connecting", "planning", "verifying", "signing", "signed",
           "handed", "resolving", "resolved", "broadcasting", "polling",
           "listing", "returned", "rejected"}

Reasons == Failures \cup {None}

\* The variables but fee: no plan and no correction of it ever produces a
\* negative output, fee or size.
ShapeOK ==
    /\ pc \in [Calls -> Places]
    /\ why \in [Calls -> Reasons]
    /\ req \in [Calls -> Request \cup {None}]
    /\ seen \in [Calls -> SUBSET Coins]
    /\ tx \in [Calls -> Transaction \cup {None}]
    /\ polls \in [Calls -> Nat]
    /\ held \subseteq Calls
    /\ accepted \subseteq Calls
    /\ indexed \in [Servers -> SUBSET Calls]
    /\ cleared \subseteq Calls

\* Every variable has its type.
TypeOK == ShapeOK /\ fee \in [Calls -> Int]

\* No transaction the account puts on the network has a dust output: the
\* recipient's and the change both clear the limit, or the change is absent,
\* whatever the plan, the correction after signing and the rounding did.
NoDustOutputs ==
    \A c \in accepted :
        /\ tx[c].to > DustLimit
        /\ tx[c].change = 0 \/ tx[c].change > DustLimit

\* transactionMaxFee holds for what a transaction really costs, inputs minus
\* outputs at their real values, not only for the fee the caller was told.
CostWithinMaxFee ==
    MaxFee # NoMaxFee =>
        \A c \in accepted :
            LET inputs == Total([k \in tx[c].ins |-> RealValue(k)], tx[c].ins)
            IN  inputs - tx[c].to - tx[c].change <= MaxFee

\* What an accepted transaction is believed to bring is what its inputs really
\* hold: a provider that misreports a coin does not turn the difference into fee.
TotalsAreReal ==
    \A c \in accepted :
        tx[c].total = Total([k \in tx[c].ins |-> RealValue(k)], tx[c].ins)

\* The caller is never told a fee that is more than a dust output below what
\* the transaction pays: the change a correction drops is the only difference.
CostWithinDustOfFee ==
    \A c \in Calls : c \in accepted => ActualFee(tx[c]) <= tx[c].fee + DustLimit

\* transactionMaxFee, as far as the code keeps it: what an accepted transaction
\* takes from its inputs is never more than one dust output above the limit,
\* by whichever of the two calls, and however often, it was sent.
CostWithinDustOfMaxFee ==
    MaxFee # NoMaxFee =>
        \A c \in accepted : ActualFee(tx[c]) <= MaxFee + DustLimit

\* A coin that a finished call saw disappear is never selected again by a call
\* that reads its unspent outputs later: waiting for the poll is enough to
\* send again without conflict.
ClearedNeverReselected ==
    [][\A d \in Calls : (seen'[d] # seen[d]) =>
            \A c \in cleared : tx[c].ins \cap seen'[d] = {}]_vars

\* "Insufficient" is only ever said when no choice of at most MAX_UTXO_INPUTS
\* of the unspent outputs read covers the amount and its fee.
InsufficientMeansShort ==
    \A c \in Calls : why[c] = "insufficient" =>
        ~ \E ins \in SUBSET seen[c] :
            LET sel == [fee |-> WholeRate(req[c].tenths)
                                  * VSize(Cardinality(ins), 1)]
                value == [k \in ins |-> IF k \in FirstCoins THEN Reported[k]
                                        ELSE tx[k].change]
            IN  /\ ins # {} /\ Cardinality(ins) <= MAX_UTXO_INPUTS
                /\ Total(value, ins) >= req[c].amount + PlanFee(sel)

\* Every call that is made comes to an end, however slowly the server indexes
\* and whatever the provider answers: the polls are bounded.
Settles ==
    \A c \in Calls :
        pc[c] \in {"connecting", "resolving"}
            ~> pc[c] \in {"handed", "returned", "rejected"}

\* The promise of module Payment.  A sum is due once the fee has passed its
\* limit; the balance is the real value of the account's unspent outputs.
Committed(c) ==
    \/ c \in held
    \/ pc[c] \in {"broadcasting", "polling", "listing", "returned"}
    \/ why[c] \in {"broadcast", "poll"}

Outcome(c) ==
    CASE pc[c] = "returned" -> "returned"
      [] pc[c] = "rejected" -> IF Committed(c) THEN "unknown" ELSE "refused"
      [] OTHER              -> "open"

Payments == INSTANCE Payment WITH
    Nothing <- None,
    balance <- Total([k \in Unspent |-> RealValue(k)], Unspent),
    due     <- [c \in Calls |-> IF Committed(c) THEN req[c].amount + tx[c].fee
                                ELSE None],
    paid    <- accepted,
    outcome <- [c \in Calls |-> Outcome(c)]

\* The account keeps that promise: each accepted transaction takes exactly the
\* amount asked and the fee told from the account, once, whatever is lost,
\* retried or interleaved.
KeepsPromise == Payments!Spec
=============================================================================
