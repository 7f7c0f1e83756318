------------------------------ MODULE SpendPlan ------------------------------
(***************************************************************************)
(* The arithmetic of a spend, without the client calls around it: how      *)
(* WalletAccountReadOnlyBtc._planSpend turns a coin selection into a fee   *)
(* and a change, and how WalletAccountBtc._getRawTransaction corrects them *)
(* when the signed transaction is larger than the selection estimated.     *)
(*                                                                         *)
(* Amounts are satoshis, sizes virtual bytes.  A fee rate as the caller    *)
(* gives it is a number with a fraction: it is written in tenths of a      *)
(* sat/vB, so that the rounding of _toBigInt is a real conversion.         *)
(***************************************************************************)
EXTENDS Integers, FiniteSets, FiniteSetsExt

CONSTANTS
    MIN_TX_FEE_SATS,    \* 141 in the code
    MAX_UTXO_INPUTS,    \* 200 in the code; the runs lower it to reach it
    DustLimit,          \* 546 for a legacy account, 294 for a segwit one
    MAX_MONEY,          \* the values the protocol allows
    RemainderDust,      \* coinselect: the least remainder it pays back
    OverheadVB, InputVB, OutputVB   \* coinselect: its estimate of the size

ASSUME SpendPlanAssumption ==
    /\ {MIN_TX_FEE_SATS, MAX_UTXO_INPUTS, DustLimit, MAX_MONEY, RemainderDust,
        OverheadVB, InputVB, OutputVB} \subseteq Nat
    /\ MIN_TX_FEE_SATS > 0

----------------------------------------------------------------------------
(* Rates *)

\* BigInt(Math.round(v)) of a number of tenths: halves go up.
ToBigInt(tenths) == (tenths + 5) \div 10

\* The whole rate both the plan and the signing use.
WholeRate(tenths) == IF ToBigInt(tenths) < 1 THEN 1 ELSE ToBigInt(tenths)

----------------------------------------------------------------------------
(* Coin selection, external (@bitcoinerlab/coinselect)                     *)

VSize(inputs, outputs) == OverheadVB + InputVB * inputs + OutputVB * outputs

\* The sum of the values of a set of coins.
Total(value, coins) == MapThenSumSet(LAMBDA k : value[k], coins)

\* What coinselect makes of one set of inputs: the rest goes to a remainder
\* output when it is worth one, and to the fee otherwise.
Selected(value, ins, amount, rate) ==
    LET total    == Total(value, ins)
        twoOuts  == rate * VSize(Cardinality(ins), 2)
    IN  [ins |-> ins, total |-> total,
         fee |-> IF total - amount - twoOuts >= RemainderDust
                 THEN twoOuts ELSE total - amount]

\* The selections coinselect may return for the coins reported: any set of
\* them that covers the amount and the estimated fee.
Selections(value, amount, rate) ==
    {s \in {Selected(value, ins, amount, rate) : ins \in SUBSET DOMAIN value} :
        /\ s.ins # {}
        /\ s.total \in 0..MAX_MONEY
        /\ s.fee \in 0..MAX_MONEY
        /\ s.total >= amount + s.fee
        /\ s.fee >= rate * VSize(Cardinality(s.ins), 1)}

----------------------------------------------------------------------------
(* _planSpend *)

PlanFee(s) == IF s.fee > MIN_TX_FEE_SATS THEN s.fee ELSE MIN_TX_FEE_SATS

\* Faulty variant: the change ignores that the fee was raised to its minimum.
ChangeBeforeMinimum(s, amount) == s.total - s.fee - amount

PlanChange(s, amount) == s.total - PlanFee(s) - amount

\* Faulty variants: a change of exactly the dust limit is paid back; a change
\* that is dust is dropped without telling the caller what it adds to the fee.
PlanWithDust(s, amount) ==
    [ins |-> s.ins, total |-> s.total, to |-> amount, fee |-> PlanFee(s),
     change |-> PlanChange(s, amount), vsize |-> 0]

PlanUntold(s, amount) ==
    [PlanWithDust(s, amount) EXCEPT !.change = IF @ <= DustLimit THEN 0 ELSE @]

\* The funding plan; a change that is dust is left to the fee.
Plan(s, amount) ==
    LET fee    == PlanFee(s)
        change == PlanChange(s, amount)
    IN  IF change <= DustLimit
        THEN [ins |-> s.ins, total |-> s.total, to |-> amount,
              fee |-> fee + change, change |-> 0, vsize |-> 0]
        ELSE [ins |-> s.ins, total |-> s.total, to |-> amount,
              fee |-> fee, change |-> change, vsize |-> 0]

----------------------------------------------------------------------------
(* _getRawTransaction *)

\* The size once signed; excess is what the signatures weigh over the estimate.
SignedVSize(p, excess) ==
    VSize(Cardinality(p.ins), IF p.change > 0 THEN 2 ELSE 1) + excess

\* Faulty variants: the change left by the correction is kept though it is
\* dust; the fee told is the one of the plan.
RebalancedWithDust(p, required) ==
    IF p.change > 0
    THEN [p EXCEPT !.fee = required,
                   !.change = IF @ <= required - p.fee THEN 0
                              ELSE @ - (required - p.fee)]
    ELSE [p EXCEPT !.fee = required, !.to = @ - (required - p.fee)]

RebalancedUntold(p, required) ==
    [RebalancedWithDust(p, required) EXCEPT
        !.fee = p.fee, !.change = IF @ <= DustLimit THEN 0 ELSE @]

\* The correction of a shortfall.  With a change output the change pays for
\* it, and is dropped when what is left is dust; without one the recipient
\* pays.  The fee reported is the one required before the correction.
Rebalanced(p, required) ==
    LET delta == required - p.fee
    IN  IF p.change > 0
        THEN [p EXCEPT !.fee = required,
                       !.change = IF p.change - delta <= DustLimit
                                  THEN 0 ELSE p.change - delta]
        ELSE [p EXCEPT !.fee = required, !.to = p.to - delta]

\* What the transaction really pays to the miner.
ActualFee(p) == p.total - p.to - p.change
=============================================================================
