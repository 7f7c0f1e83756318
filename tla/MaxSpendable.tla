---------------------------- MODULE MaxSpendable ----------------------------
(***************************************************************************)
(* getMaxSpendable (wallet-account-read-only-btc.js): the amount it tells a *)
(* caller can be sent in one transaction, computed by sizes and roundings   *)
(* of its own, beside the plan that a call for that amount then makes.      *)
(***************************************************************************)
EXTENDS SendTransaction

\* Its sizes, by address type; coinselect has its own.
InputVBytes == IF Legacy THEN 148 ELSE 68
TxOverheadVBytes == 11
OutputVBytes == 34

ASSUME MaxSpendableAssumption ==
    /\ OverheadVB <= TxOverheadVBytes
    /\ InputVB <= InputVBytes
    /\ OutputVB <= OutputVBytes
    /\ \A r \in Requests : r.tenths \in Nat

\* Math.ceil(vbytes * feeRate): the rate keeps its fraction here.
FeeFor(vbytes, tenths) == (vbytes * tenths + 9) \div 10

\* The fee of a transaction with this many inputs and outputs.
EstimatedFee(inputs, outputs, tenths) ==
    LET sats == FeeFor(TxOverheadVBytes + inputs * InputVBytes
                         + outputs * OutputVBytes, tenths)
    IN  IF sats > MIN_TX_FEE_SATS THEN sats ELSE MIN_TX_FEE_SATS

\* The unspent outputs worth more than they cost to spend.
SpendableUtxos(value, tenths) ==
    {k \in DOMAIN value : value[k] - FeeFor(InputVBytes, tenths) > 0}

\* Faulty variant: the limit on inputs is left to the plan.
AllOf(value, coins) == {coins}

\* The largest of them, as many as a transaction may spend; which ones among
\* equals depends on the order of the list.
Largest(value, coins) ==
    {top \in SUBSET coins :
        /\ Cardinality(top) <= MAX_UTXO_INPUTS
        /\ \A k \in coins \ top :
            /\ Cardinality(top) = MAX_UTXO_INPUTS
            /\ \A j \in top : value[j] >= value[k]}

Nothing == [amount |-> 0, fee |-> 0, changeValue |-> 0]

\* What it announces for these inputs: a recipient and a change of exactly the
\* dust limit, or a recipient alone, or nothing.
Announced(value, ins, tenths) ==
    LET total   == Total(value, ins)
        n       == Cardinality(ins)
        twoFee  == EstimatedFee(n, 2, tenths)
        oneFee  == EstimatedFee(n, 1, tenths)
    IN  IF ins = {}
        THEN Nothing
        ELSE IF total - twoFee - DustLimit > DustLimit
        THEN [amount |-> total - twoFee - DustLimit, fee |-> twoFee,
              changeValue |-> DustLimit]
        ELSE IF total - oneFee <= DustLimit
        THEN Nothing
        ELSE [amount |-> total - oneFee, fee |-> oneFee, changeValue |-> 0]

----------------------------------------------------------------------------
(* Properties *)

\* A rate the plan does not round up to a dearer one.
RateKept(tenths) == 10 * WholeRate(tenths) <= tenths

\* A rate at which coinselect's own fee is never below the minimum.
MinimumMet(tenths) == WholeRate(tenths) * VSize(1, 1) >= MIN_TX_FEE_SATS

\* _planSpend does not refuse this selection.
Accepted(s, amount) ==
    Cardinality(s.ins) <= MAX_UTXO_INPUTS /\ PlanChange(s, amount) >= 0

\* Some selection of these coins is accepted, and every one that coinselect may
\* return instead of it is too, if there are no more coins than a transaction
\* may spend and the minimum fee does not come on top.
CanPlan(value, amount, tenths) ==
    LET options == Selections(value, amount, WholeRate(tenths))
    IN  /\ \E s \in options : Accepted(s, amount)
        /\ Cardinality(DOMAIN value) <= MAX_UTXO_INPUTS /\ MinimumMet(tenths) =>
                \A s \in options : Accepted(s, amount)

\* The amount announced from a server's list is above the dust limit, and some
\* choice of coins of that list pays for it by the plan's own estimate of sizes
\* and rounding, as long as the rate is not one that rounds up.  That the plan
\* takes such a choice is said only of a list no longer than the limit of
\* inputs and a rate whose fees reach the minimum: else coinselect, which knows
\* of neither, may return another choice, which the plan refuses.
MaxSpendableFeasible ==
    \A s \in Servers, r \in Requests :
        LET value == ListUnspent(s)
        IN  RateKept(r.tenths) =>
                \A ins \in Largest(value, SpendableUtxos(value, r.tenths)) :
                    LET amount == Announced(value, ins, r.tenths).amount
                    IN  amount > 0 /\ Total(value, ins) \in 0..MAX_MONEY =>
                            /\ amount > DustLimit
                            /\ CanPlan(value, amount, r.tenths)
=============================================================================
