-------------------------- MODULE MaxSpendableProofs --------------------------
(***************************************************************************)
(* For the amount getMaxSpendable announces there is a selection the plan  *)
(* accepts, for any coins, requests, servers, dust limit and sizes         *)
(* coinselect estimates, as long as its estimates are not above            *)
(* getMaxSpendable's; and in a short list every selection is accepted.     *)
(*                                                                         *)
(* The witness is the selection of the very inputs it counted.  Its fee by *)
(* the plan's sizes and its whole rate is at most the fee announced, so    *)
(* what is left after the amount covers it, whichever of the two coinselect*)
(* makes of the rest.                                                      *)
(***************************************************************************)
EXTENDS MaxSpendable, SendTransactionProofs

LEMMA ProductGrows ==
  ASSUME NEW x \in Nat, NEW y \in Nat, NEW z \in Nat, x <= y
  PROVE  x * z <= y * z
  <1>1. PICK d \in Nat : y = x + d
    <2>1. y - x \in Nat /\ y = x + (y - x)
      OBVIOUS
    <2> QED BY <2>1
  <1>2. y * z = x * z + d * z
    BY <1>1
  <1>3. d * z \in Nat /\ x * z \in Nat
    BY ProductType
  <1> QED BY <1>2, <1>3

\* The ceiling of a fee at a rate with a fraction is no less than the fee of a
\* smaller size at a whole rate that is not dearer.
LEMMA FeeForBounds ==
  ASSUME NEW v \in Nat, NEW t \in Nat, NEW w \in Nat, NEW rate \in Nat,
         10 * rate <= t, w <= v
  PROVE  FeeFor(v, t) \in Nat /\ rate * w <= FeeFor(v, t)
  <1>1. w * (10 * rate) <= v * (10 * rate)
    BY ProductGrows
  <1>2. (10 * rate) * v <= t * v
    BY ProductGrows
  <1>3. v * t \in Nat /\ rate * w \in Nat
    BY ProductType
  <1>4. w * (10 * rate) = 10 * (rate * w)
    OBVIOUS
  <1>5. v * (10 * rate) = (10 * rate) * v /\ t * v = v * t
    OBVIOUS
  <1>6. 10 * (rate * w) <= v * t
    BY <1>1, <1>2, <1>4, <1>5
  <1> DEFINE p == v * t
             q == rate * w
  <1>7. p \in Nat /\ q \in Nat /\ 10 * q <= p
    BY <1>3, <1>6
  <1> HIDE DEF p, q
  <1>8. (p + 9) \div 10 \in Nat /\ q <= (p + 9) \div 10
    BY <1>7
  <1> QED BY <1>8 DEF p, q, FeeFor

LEMMA OwnSizeTypes ==
  InputVBytes \in Nat /\ TxOverheadVBytes \in Nat /\ OutputVBytes \in Nat
  BY DEF InputVBytes, TxOverheadVBytes, OutputVBytes

\* The size it takes is no less than coinselect's.
LEMMA SizeBounds ==
  ASSUME NEW n \in Nat, NEW m \in {1, 2}
  PROVE  LET v == TxOverheadVBytes + n * InputVBytes + m * OutputVBytes
         IN  v \in Nat /\ VSize(n, m) \in Nat /\ VSize(n, m) <= v
  <1>1. InputVB * n <= InputVBytes * n
    BY ProductGrows, OwnSizeTypes, ConstantTypes, MaxSpendableAssumption
  <1>2. OutputVB * m <= OutputVBytes * m
    BY OwnSizeTypes, ConstantTypes, MaxSpendableAssumption
  <1>3. InputVBytes * n = n * InputVBytes /\ OutputVBytes * m = m * OutputVBytes
    BY OwnSizeTypes
  <1>4. InputVB * n \in Nat /\ InputVBytes * n \in Nat
    BY ProductType, OwnSizeTypes, ConstantTypes
  <1>5. OutputVB * m \in Nat /\ OutputVBytes * m \in Nat
    BY OwnSizeTypes, ConstantTypes
  <1>6. OverheadVB <= TxOverheadVBytes
    BY MaxSpendableAssumption
  <1> QED BY <1>1, <1>2, <1>3, <1>4, <1>5, <1>6, OwnSizeTypes, ConstantTypes DEF VSize

\* The fee it estimates covers the minimum and what coinselect asks for.
LEMMA EstimateBounds ==
  ASSUME NEW n \in Nat, NEW m \in {1, 2}, NEW t \in Nat, RateKept(t)
  PROVE  /\ EstimatedFee(n, m, t) \in Nat
         /\ WholeRate(t) * VSize(n, m) \in Nat
         /\ WholeRate(t) * VSize(n, m) <= EstimatedFee(n, m, t)
         /\ MIN_TX_FEE_SATS <= EstimatedFee(n, m, t)
  <1> DEFINE v == TxOverheadVBytes + n * InputVBytes + m * OutputVBytes
             w == VSize(n, m)
  <1>1. v \in Nat /\ w \in Nat /\ w <= v
    BY SizeBounds
  <1>2. WholeRate(t) \in Nat /\ 10 * WholeRate(t) <= t
    BY WholeRateType DEF RateKept
  <1>3. EstimatedFee(n, m, t) =
          IF FeeFor(v, t) > MIN_TX_FEE_SATS THEN FeeFor(v, t) ELSE MIN_TX_FEE_SATS
    BY DEF EstimatedFee
  <1> HIDE DEF v, w
  <1>4. FeeFor(v, t) \in Nat /\ WholeRate(t) * w <= FeeFor(v, t)
    BY <1>1, <1>2, FeeForBounds
  <1>5. WholeRate(t) * w \in Nat
    BY <1>1, <1>2, ProductType
  <1>6. WholeRate(t) * w <= EstimatedFee(n, m, t)
    BY <1>3, <1>4, <1>5, ConstantTypes
  <1>7. EstimatedFee(n, m, t) \in Nat /\ MIN_TX_FEE_SATS <= EstimatedFee(n, m, t)
    BY <1>3, <1>4, ConstantTypes
  <1> QED BY <1>5, <1>6, <1>7 DEF w

\* A second output costs no less.
LEMMA SecondOutput ==
  ASSUME NEW n \in Nat, NEW rate \in Nat
  PROVE  rate * VSize(n, 1) \in Nat /\ rate * VSize(n, 1) <= rate * VSize(n, 2)
  <1>1. VSize(n, 1) \in Nat /\ VSize(n, 2) \in Nat
    BY SizeBounds
  <1>2. VSize(n, 1) <= VSize(n, 2)
    BY ConstantTypes, ProductType DEF VSize
  <1>3. VSize(n, 1) * rate <= VSize(n, 2) * rate
    BY <1>1, <1>2, ProductGrows
  <1>4. VSize(n, 1) * rate = rate * VSize(n, 1) /\ VSize(n, 2) * rate = rate * VSize(n, 2)
    BY <1>1
  <1>5. VSize(n, 1) * rate \in Nat
    BY <1>1, ProductType
  <1> QED BY <1>3, <1>4, <1>5

\* What coinselect may make of the inputs counted, when the amount leaves at
\* least the fees of one and of two outputs, or all of what they leave is fee.
LEMMA Plannable ==
  ASSUME NEW value, NEW ins \in SUBSET DOMAIN value, ins # {}, IsFiniteSet(ins),
         Cardinality(ins) <= MAX_UTXO_INPUTS,
         NEW t \in Nat, NEW amount \in Nat,
         Total(value, ins) \in 0..MAX_MONEY, amount <= Total(value, ins),
         WholeRate(t) * VSize(Cardinality(ins), 1) <= Total(value, ins) - amount,
         MIN_TX_FEE_SATS <= Total(value, ins) - amount
  PROVE  \E s \in Selections(value, amount, WholeRate(t)) : Accepted(s, amount)
  <1> DEFINE rate == WholeRate(t)
             n == Cardinality(ins)
             total == Total(value, ins)
             two == rate * VSize(n, 2)
             one == rate * VSize(n, 1)
             s == Selected(value, ins, amount, rate)
  <1>1. n \in Nat /\ rate \in Nat
    BY FS_CardinalityType, WholeRateType
  <1>2. VSize(n, 2) \in Nat
    BY <1>1, SizeBounds
  <1>3. one \in Nat /\ two \in Nat /\ one <= two
    BY <1>1, <1>2, SecondOutput, ProductType
  <1>4. total \in Nat /\ total <= MAX_MONEY /\ MAX_MONEY \in Nat /\ RemainderDust \in Nat
    BY SpendPlanAssumption
  <1>5. /\ s.ins = ins /\ s.total = total
        /\ s.fee = IF total - amount - two >= RemainderDust THEN two ELSE total - amount
    BY DEF Selected
  <1>6. one <= total - amount /\ MIN_TX_FEE_SATS <= total - amount /\ amount <= total
    OBVIOUS
  <1> HIDE DEF n, total, two, one, rate
  <1>7. s.fee \in Nat /\ s.fee <= total - amount /\ one <= s.fee
    BY <1>3, <1>4, <1>5, <1>6
  <1>8. s.total \in 0..MAX_MONEY /\ s.fee \in 0..MAX_MONEY /\ s.total >= amount + s.fee
    BY <1>4, <1>5, <1>7
  <1>9. PlanChange(s, amount) >= 0
    BY <1>4, <1>5, <1>6, <1>7, ConstantTypes DEF PlanChange, PlanFee
  <1>10. s.fee >= rate * VSize(Cardinality(s.ins), 1)
    BY <1>3, <1>5, <1>7 DEF one, n
  <1>11. s \in Selections(value, amount, rate)
    BY <1>5, <1>8, <1>10 DEF Selections
  <1>12. Cardinality(s.ins) <= MAX_UTXO_INPUTS
    BY <1>5
  <1> HIDE DEF s
  <1> QED BY <1>9, <1>11, <1>12 DEF Accepted, rate

\* A selection of a list no longer than the limit is accepted, when its fee is
\* not raised to the minimum.
LEMMA AnyAccepted ==
  ASSUME NEW value, IsFiniteSet(DOMAIN value), Cardinality(DOMAIN value) <= MAX_UTXO_INPUTS,
         NEW t \in Nat, MinimumMet(t), NEW amount \in Nat,
         NEW s \in Selections(value, amount, WholeRate(t))
  PROVE  Accepted(s, amount)
  <1> DEFINE rate == WholeRate(t)
             n == Cardinality(s.ins)
  <1>1. /\ s.ins \subseteq DOMAIN value /\ s.ins # {}
        /\ s.total \in 0..MAX_MONEY /\ s.fee \in 0..MAX_MONEY
        /\ s.total >= amount + s.fee /\ s.fee >= rate * VSize(n, 1)
    BY DEF Selections, Selected
  <1>2. IsFiniteSet(s.ins) /\ n \in Nat /\ n <= Cardinality(DOMAIN value)
    BY <1>1, FS_Subset, FS_CardinalityType
  <1>3. Cardinality(DOMAIN value) \in Nat
    BY FS_CardinalityType
  <1>4. n >= 1
    BY <1>1, <1>2, FS_EmptySet
  <1>5. rate \in Nat /\ VSize(1, 1) \in Nat /\ VSize(n, 1) \in Nat
    BY <1>2, WholeRateType, SizeBounds
  <1>6. VSize(1, 1) <= VSize(n, 1)
    <2>1. 1 * InputVB <= n * InputVB
      BY <1>2, <1>4, ProductGrows, ConstantTypes
    <2>2. 1 * InputVB = InputVB * 1 /\ n * InputVB = InputVB * n
      BY <1>2, ConstantTypes
    <2>3. InputVB * n \in Nat /\ InputVB * 1 \in Nat
      BY <1>2, ProductType, ConstantTypes
    <2> QED BY <2>1, <2>2, <2>3, ConstantTypes DEF VSize
  <1>7. rate * VSize(1, 1) <= rate * VSize(n, 1)
    <2>1. VSize(1, 1) * rate <= VSize(n, 1) * rate
      BY <1>5, <1>6, ProductGrows
    <2> QED BY <1>5, <2>1
  <1>8. rate * VSize(1, 1) \in Nat /\ rate * VSize(n, 1) \in Nat
    BY <1>5, ProductType
  <1>9. MIN_TX_FEE_SATS <= rate * VSize(1, 1)
    BY DEF MinimumMet
  <1> HIDE DEF rate
  <1>10. s.fee >= MIN_TX_FEE_SATS
    BY <1>1, <1>7, <1>8, <1>9, ConstantTypes
  <1>11. PlanFee(s) = s.fee
    BY <1>1, <1>10, ConstantTypes DEF PlanFee
  <1>12. PlanChange(s, amount) >= 0
    BY <1>1, <1>11, ConstantTypes DEF PlanChange
  <1>13. n <= MAX_UTXO_INPUTS
    BY <1>2, <1>3, SpendPlanAssumption
  <1> QED BY <1>12, <1>13 DEF Accepted

\* The amount announced leaves that much, in either of its two cases.
LEMMA AnnouncedLeaves ==
  ASSUME NEW value, NEW ins, IsFiniteSet(ins), NEW t \in Nat, RateKept(t),
         Total(value, ins) \in Nat,
         Announced(value, ins, t).amount > 0
  PROVE  LET total  == Total(value, ins)
             amount == Announced(value, ins, t).amount
         IN  /\ ins # {} /\ amount \in Nat /\ amount > DustLimit /\ amount <= total
             /\ WholeRate(t) * VSize(Cardinality(ins), 1) <= total - amount
             /\ MIN_TX_FEE_SATS <= total - amount
  <1> DEFINE total == Total(value, ins)
             n == Cardinality(ins)
             amount == Announced(value, ins, t).amount
             twoFee == EstimatedFee(n, 2, t)
             oneFee == EstimatedFee(n, 1, t)
             one == WholeRate(t) * VSize(n, 1)
             two == WholeRate(t) * VSize(n, 2)
  <1>1. n \in Nat /\ WholeRate(t) \in Nat
    BY FS_CardinalityType, WholeRateType
  <1>2. /\ twoFee \in Nat /\ two <= twoFee /\ MIN_TX_FEE_SATS <= twoFee /\ two \in Nat
        /\ oneFee \in Nat /\ one <= oneFee /\ MIN_TX_FEE_SATS <= oneFee /\ one \in Nat
    BY <1>1, EstimateBounds
  <1>3. one <= two
    BY <1>1, SecondOutput
  <1>4. Nothing.amount = 0
    BY DEF Nothing
  <1>5. ins # {}
    BY <1>4 DEF Announced
  <1>6. \/ total - twoFee - DustLimit > DustLimit /\ amount = total - twoFee - DustLimit
        \/ ~(total - oneFee <= DustLimit) /\ amount = total - oneFee
    BY <1>4, <1>5 DEF Announced
  <1>7. total \in Nat
    OBVIOUS
  <1> HIDE DEF total, n, amount, twoFee, oneFee, one, two
  <1>8. /\ amount \in Nat /\ amount > DustLimit /\ amount <= total
        /\ one <= total - amount /\ MIN_TX_FEE_SATS <= total - amount
    BY <1>2, <1>3, <1>6, <1>7, ConstantTypes
  <1> QED BY <1>5, <1>8 DEF total, n, amount, one

\* For the amount getMaxSpendable announces from a server's list there are coins
\* in that list which _planSpend accepts for it at that rate, and it accepts
\* whatever coinselect returns when the list is no longer than the limit of
\* inputs and the rate keeps fees above the minimum
\* (wallet-account-read-only-btc.js), for any coins, sizes and minimum fee.
THEOREM MaxSpendableIsPlannable == Spec => []MaxSpendableFeasible
  <1>1. IInv => MaxSpendableFeasible
    <2> SUFFICES ASSUME IInv, NEW s \in Servers, NEW r \in Requests, RateKept(r.tenths),
                        NEW ins \in Largest(ListUnspent(s),
                                            SpendableUtxos(ListUnspent(s), r.tenths)),
                        Announced(ListUnspent(s), ins, r.tenths).amount > 0,
                        Total(ListUnspent(s), ins) \in 0..MAX_MONEY
                 PROVE  LET amount == Announced(ListUnspent(s), ins, r.tenths).amount
                        IN  amount > DustLimit /\ CanPlan(ListUnspent(s), amount, r.tenths)
      BY DEF MaxSpendableFeasible
    <2> DEFINE value == ListUnspent(s)
    <2>1. ins \in SUBSET DOMAIN value /\ Cardinality(ins) <= MAX_UTXO_INPUTS
      BY DEF Largest, SpendableUtxos
    <2>2. IsFiniteSet(ins)
      BY <2>1, ListedCoins, FS_Subset, FS_Union, SendTransactionAssumption DEF Coins
    <2>3. r.tenths \in Nat
      BY MaxSpendableAssumption
    <2>4. Total(value, ins) \in Nat
      BY ConstantTypes
    <2>5. IsFiniteSet(DOMAIN value)
      BY ListedCoins, FS_Subset, FS_Union, SendTransactionAssumption DEF Coins
    <2> DEFINE amount == Announced(value, ins, r.tenths).amount
               options == Selections(value, amount, WholeRate(r.tenths))
    <2>6. amount \in Nat /\ amount > DustLimit
      BY <2>2, <2>3, <2>4, AnnouncedLeaves
    <2>7. \E o \in options : Accepted(o, amount)
      BY <2>1, <2>2, <2>3, <2>4, AnnouncedLeaves, Plannable
    <2> HIDE DEF value, amount
    <2>8. ASSUME Cardinality(DOMAIN value) <= MAX_UTXO_INPUTS, MinimumMet(r.tenths)
          PROVE  \A o \in options : Accepted(o, amount)
      BY <2>3, <2>5, <2>6, <2>8, AnyAccepted
    <2>9. CanPlan(value, amount, r.tenths)
      BY <2>7, <2>8 DEF CanPlan
    <2> QED BY <2>6, <2>9 DEF value, amount
  <1> QED BY <1>1, Invariance, PTL
=============================================================================
