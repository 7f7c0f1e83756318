----------------------------- MODULE PaymentProofs -----------------------------
(***************************************************************************)
(* The money: what the inputs of a transaction are worth, and that the     *)
(* account keeps the promise of module Payment, for any coins, calls,      *)
(* requests, servers and reports.                                          *)
(***************************************************************************)
EXTENDS SendTransactionProofs, DataTheorems

----------------------------------------------------------------------------
(* Values of coins *)

LEMMA TotalIsSum == ASSUME NEW v, NEW S PROVE Total(v, S) = SumOf(v, S)
  BY DEF Total, SumOf

\* What a server reports of a coin.
ListedValue(k) == IF k \in FirstCoins THEN Reported[k] ELSE tx[k].change

\* The coins there have ever been.
Minted == FirstCoins \cup accepted

LEMMA FiniteCoins ==
  ASSUME NEW S \in SUBSET Coins PROVE IsFiniteSet(S)
  BY FS_Subset, FS_Union, SendTransactionAssumption DEF Coins

\* Every coin there has been has a value.
LEMMA ValueTypes ==
  ASSUME IInv, NEW k \in Minted
  PROVE  /\ k \in Coins /\ ListedValue(k) \in Nat /\ RealValue(k) \in Nat
         /\ k \notin FirstCoins => tx[k] \in Transaction
  <1>1. CASE k \in FirstCoins
    BY <1>1, SendTransactionAssumption DEF ListedValue, RealValue, Coins
  <1>2. CASE k \notin FirstCoins
    <2>1. k \in accepted /\ k \in Calls /\ tx[k] \in Transaction
      BY <1>2 DEF Minted, IInv, ShapeOK, CallOK
    <2> QED BY <1>2, <2>1 DEF ListedValue, RealValue, Transaction, Coins
  <1> QED BY <1>1, <1>2

----------------------------------------------------------------------------
(* The books: an invariant beside IInv *)

\* The inputs of a plan exist, and its total is what a server said of them.
Backed(c) ==
    tx[c] # None =>
        /\ tx[c].ins \subseteq FirstCoins \cup ChangeOf(accepted)
        /\ tx[c].total = SumOf([k \in tx[c].ins |-> ListedValue(k)], tx[c].ins)

\* What was reported of the inputs has been compared with the truth: before a
\* legacy signature, and by the network for any other.
Verified(c) ==
    /\ Legacy /\ (c \in held \/ pc[c] \in {"signing", "signed"} \cup Sending) =>
            ValuesMatch(c)
    /\ c \in accepted => ValuesMatch(c)

\* Where a call stands says what has happened to it.
Placed(c) ==
    /\ pc[c] \in {"polling", "listing", "returned"} => c \in accepted
    /\ pc[c] # "rejected" => why[c] = None
    /\ why[c] \in {"broadcast", "poll"} => tx[c] # None

Books ==
    /\ fee \in [Calls -> Int]
    /\ \A c \in Calls : Backed(c) /\ Verified(c) /\ Placed(c)
    /\ \A s \in Servers : indexed[s] \subseteq accepted
    /\ cleared \subseteq accepted

\* A transaction that stays keeps its inputs and their total, as long as what
\* the network accepted stays.
LEMMA BackedKept ==
  ASSUME IInv, NEW c \in Calls, Backed(c), tx'[c] = tx[c],
         accepted \subseteq accepted', \A d \in accepted : tx'[d] = tx[d]
  PROVE  Backed(c)'
  <1> SUFFICES ASSUME tx[c] # None
               PROVE  /\ tx[c].ins \subseteq FirstCoins \cup ChangeOf(accepted)'
                      /\ tx[c].total = SumOf([k \in tx[c].ins |-> ListedValue(k)'],
                                             tx[c].ins)
    BY DEF Backed, ListedValue
  <1> DEFINE v == [k \in tx[c].ins |-> ListedValue(k)]
             w == [k \in tx[c].ins |-> ListedValue(k)']
  <1>1. tx[c].ins \subseteq FirstCoins \cup ChangeOf(accepted)
    BY DEF Backed
  <1>2. ChangeOf(accepted) \subseteq ChangeOf(accepted)'
    BY DEF ChangeOf
  <1>3. \A k \in tx[c].ins : v[k] = w[k]
    BY <1>1 DEF ListedValue, ChangeOf
  <1>4. tx[c].ins \in SUBSET Coins
    BY DEF IInv, ShapeOK, Transaction
  <1>5. IsFiniteSet(tx[c].ins)
    BY <1>4, FiniteCoins
  <1> HIDE DEF v, w
  <1>6. SumOf(v, tx[c].ins) = SumOf(w, tx[c].ins)
    BY <1>3, <1>5, SumOfEqual
  <1>7. tx[c].total = SumOf(v, tx[c].ins)
    BY DEF Backed, v
  <1> QED BY <1>1, <1>2, <1>6, <1>7 DEF w

\* A step of one call that leaves the accepted transactions as they are keeps
\* the books, if it keeps those of the call itself.
LEMMA OthersKeepBooks ==
  ASSUME IInv, Books, NEW c \in Calls,
         \A d \in Calls \ {c} :
            /\ pc'[d] = pc[d] /\ why'[d] = why[d] /\ tx'[d] = tx[d]
            /\ (d \in held') = (d \in held)
            /\ (d \in accepted') = (d \in accepted),
         accepted \subseteq accepted', c \in accepted => tx'[c] = tx[c],
         Backed(c)', Verified(c)', Placed(c)',
         fee' \in [Calls -> Int], indexed' = indexed, cleared' \subseteq accepted'
  PROVE  Books'
  <1>1. accepted \subseteq Calls /\ \A d \in accepted : tx'[d] = tx[d]
    BY DEF IInv, ShapeOK
  <1>2. ASSUME NEW d \in Calls, d # c
        PROVE  Backed(d)' /\ Verified(d)' /\ Placed(d)'
    <2>1. Backed(d)'
      BY <1>1, <1>2, BackedKept DEF Books
    <2>2. Verified(d)'
      BY <1>2 DEF Books, Verified, ValuesMatch
    <2>3. Placed(d)'
      BY <1>2 DEF Books, Placed
    <2> QED BY <2>1, <2>2, <2>3
  <1> QED BY <1>2 DEF Books

\* The same for a step that makes no transaction and has none accepted.
LEMMA MoveBooks ==
  ASSUME IInv, Books, NEW c \in Calls,
         UNCHANGED <<tx, accepted, indexed>>, fee' \in [Calls -> Int],
         \A d \in Calls \ {c} :
            /\ pc'[d] = pc[d] /\ why'[d] = why[d]
            /\ (d \in held') = (d \in held),
         Verified(c)', Placed(c)', cleared' \subseteq accepted'
  PROVE  Books'
  <1>1. Backed(c)'
    BY BackedKept DEF Books
  <1> QED BY <1>1, OthersKeepBooks

LEMMA InitBooks == ASSUME Init PROVE Books
  <1>1. None \notin {"broadcast", "poll"}
    BY SendTransactionAssumption DEF Failures
  <1>2. ASSUME NEW c \in Calls PROVE Backed(c) /\ Verified(c) /\ Placed(c)
    BY <1>1, <1>2 DEF Init, Backed, Verified, Placed, Sending
  <1>3. fee \in [Calls -> Int]
    BY DEF Init
  <1> QED BY <1>2, <1>3 DEF Init, Books

LEMMA EarlyBooks ==
  ASSUME IInv, Books, NEW c \in Calls,
         Start(c) \/ Connect(c) \/ VerifyLegacyUtxos(c) \/ SendSigned(c)
  PROVE  Books'
  <1>1. CASE Start(c) \/ Connect(c)
    <2>1. UNCHANGED <<tx, accepted, indexed, fee, cleared, held>>
      BY <1>1 DEF Start, Connect, netVars
    <2>2. /\ pc[c] \in {"idle", "connecting"} /\ pc'[c] \in {"connecting", "planning", "rejected"}
          /\ why'[c] \in {None, "provider"}
          /\ pc'[c] # "rejected" => why'[c] = why[c]
          /\ \A d \in Calls \ {c} : pc'[d] = pc[d] /\ why'[d] = why[d]
      BY <1>1 DEF Start, Connect, Goto, Reject, IInv, ShapeOK, Books, Placed
    <2>3. c \notin held /\ c \notin accepted
      BY <2>2 DEF IInv, CallOK, Building
    <2>4. Verified(c)' /\ Placed(c)'
      BY <2>1, <2>2, <2>3 DEF Books, Verified, Placed, Sending
    <2> QED BY <2>1, <2>2, <2>4, MoveBooks DEF Books
  <1>2. CASE VerifyLegacyUtxos(c)
    <2>1. UNCHANGED <<tx, accepted, indexed, fee, cleared, held>>
      BY <1>2 DEF VerifyLegacyUtxos, netVars
    <2>2. /\ pc[c] = "verifying" /\ pc'[c] \in {"signing", "rejected"}
          /\ pc'[c] = "signing" => ValuesMatch(c) /\ why'[c] = why[c]
          /\ why'[c] \in {None, "provider", "mismatch"}
          /\ \A d \in Calls \ {c} : pc'[d] = pc[d] /\ why'[d] = why[d]
      BY <1>2 DEF VerifyLegacyUtxos, Goto, Reject, IInv, ShapeOK, Books, Placed
    <2>3. c \notin held /\ c \notin accepted
      BY <2>2 DEF IInv, CallOK, Building
    <2>4. Verified(c)' /\ Placed(c)'
      BY <2>1, <2>2, <2>3 DEF Books, Verified, Placed, Sending, ValuesMatch
    <2> QED BY <2>1, <2>2, <2>4, MoveBooks DEF Books
  <1>3. CASE SendSigned(c)
    <2>1. UNCHANGED <<tx, accepted, indexed, fee, cleared, held>>
      BY <1>3 DEF SendSigned, netVars
    <2>2. /\ c \in held /\ pc'[c] = "resolving" /\ why'[c] = None
          /\ \A d \in Calls \ {c} : pc'[d] = pc[d] /\ why'[d] = why[d]
      BY <1>3 DEF SendSigned, Goto, IInv, ShapeOK
    <2>3. Verified(c)' /\ Placed(c)'
      BY <2>1, <2>2 DEF IInv, CallOK, Books, Verified, Placed, Sending, ValuesMatch
    <2> QED BY <2>1, <2>2, <2>3, MoveBooks DEF Books
  <1> QED BY <1>1, <1>2, <1>3

\* What the caller is told is a sum of coins.
LEMMA ResolvedFeeType ==
  ASSUME IInv, Books, NEW c \in held
  PROVE  Total([k \in tx[c].ins |-> RealValue(k)], tx[c].ins) \in Nat
  <1> DEFINE v == [k \in tx[c].ins |-> RealValue(k)]
  <1>1. c \in Calls /\ tx[c] # None /\ tx[c] \in Transaction
    BY DEF IInv, ShapeOK, CallOK
  <1>2. tx[c].ins \subseteq Minted /\ tx[c].ins \in SUBSET Coins
    BY <1>1 DEF Books, Backed, Minted, ChangeOf, Transaction
  <1>3. IsFiniteSet(tx[c].ins)
    BY <1>2, FiniteCoins
  <1>4. \A k \in tx[c].ins : v[k] \in Nat
    BY <1>2, ValueTypes
  <1> HIDE DEF v
  <1>5. SumOf(v, tx[c].ins) \in Nat
    BY <1>3, <1>4, SumOfType
  <1> QED BY <1>5, TotalIsSum DEF v

LEMMA FeeBooks ==
  ASSUME IInv, Books, NEW c \in Calls, ResolveFee(c) \/ CheckMaxFee(c)
  PROVE  Books'
  <1>1. CASE ResolveFee(c)
    <2> DEFINE f == Total([k \in tx[c].ins |-> RealValue(k)], tx[c].ins)
                      - tx[c].to - tx[c].change
    <2>1. UNCHANGED <<tx, accepted, indexed, cleared, held>> /\ pc[c] = "resolving"
      BY <1>1 DEF ResolveFee, netVars
    <2>2. c \in held /\ tx[c] \in Transaction
      BY <2>1 DEF IInv, ShapeOK, CallOK
    <2>3. f \in Int
      BY <2>2, ResolvedFeeType DEF Transaction
    <2>4. fee' = [fee EXCEPT ![c] = f] \/ fee' = fee
      BY <1>1 DEF ResolveFee
    <2> HIDE DEF f
    <2>5. fee' \in [Calls -> Int]
      BY <2>3, <2>4 DEF Books
    <2>6. /\ pc'[c] \in {"resolved", "rejected"}
          /\ why'[c] \in {None, "provider"}
          /\ pc'[c] # "rejected" => why'[c] = None
          /\ \A d \in Calls \ {c} : pc'[d] = pc[d] /\ why'[d] = why[d]
      BY <1>1 DEF ResolveFee, Goto, Reject, IInv, ShapeOK, Books, Placed
    <2>7. Verified(c)' /\ Placed(c)'
      BY <2>1, <2>2, <2>6 DEF Books, Verified, Placed, Sending, ValuesMatch
    <2> QED BY <2>1, <2>5, <2>6, <2>7, MoveBooks DEF Books
  <1>2. CASE CheckMaxFee(c)
    <2>1. /\ UNCHANGED <<tx, accepted, indexed, cleared, fee>>
          /\ pc[c] \in {"signed", "resolved"}
          /\ \A d \in Calls \ {c} : (d \in held') = (d \in held)
      BY <1>2 DEF CheckMaxFee, netVars
    <2>2. /\ pc'[c] \in {"handed", "broadcasting", "rejected"}
          /\ why'[c] \in {None, "maxfee"}
          /\ pc'[c] # "rejected" => why'[c] = None
          /\ pc'[c] = "rejected" => held' = held
          /\ \A d \in Calls \ {c} : pc'[d] = pc[d] /\ why'[d] = why[d]
      BY <1>2 DEF CheckMaxFee, Goto, Reject, IInv, ShapeOK, Books, Placed
    <2>3. pc[c] = "signed" \/ c \in held
      BY <2>1 DEF IInv, CallOK
    <2>4. Verified(c)' /\ Placed(c)'
      BY <2>1, <2>2, <2>3 DEF Books, Verified, Placed, Sending, ValuesMatch
    <2> QED BY <2>1, <2>2, <2>4, MoveBooks DEF Books
  <1> QED BY <1>1, <1>2

\* The total of a selection is the sum of its coins.
LEMMA SelectionTotal ==
  ASSUME NEW value, NEW amount, NEW rate, NEW o \in Selections(value, amount, rate)
  PROVE  o.ins \subseteq DOMAIN value /\ o.total = SumOf(value, o.ins)
  <1>1. PICK ins \in SUBSET DOMAIN value : o = Selected(value, ins, amount, rate)
    BY DEF Selections
  <1>2. o.ins = ins /\ o.total = Total(value, ins)
    BY <1>1 DEF Selected
  <1> QED BY <1>1, <1>2, TotalIsSum

LEMMA PlanKeepsTotal ==
  ASSUME NEW o, NEW amount
  PROVE  Plan(o, amount).ins = o.ins /\ Plan(o, amount).total = o.total
  BY DEF Plan

LEMMA PlanSpendBooks == ASSUME IInv, Books, NEW c \in Calls, PlanSpend(c) PROVE Books'
  <1> DEFINE amount == req[c].amount
             rate   == WholeRate(req[c].tenths)
  <1>1. /\ pc[c] = "planning" /\ c \notin held /\ c \notin accepted /\ why[c] = None
        /\ UNCHANGED <<fee, held, accepted, indexed, cleared>>
    BY DEF PlanSpend, IInv, CallOK, Building, Books, Placed, netVars
  <1>2. PICK s \in Servers :
          \/ \E r \in Failures \ {"broadcast", "poll"} : Reject(c, r) /\ UNCHANGED tx
          \/ /\ \E o \in Selections(ListUnspent(s), amount, rate) :
                  tx' = [tx EXCEPT ![c] = Plan(o, amount)]
             /\ Goto(c, IF Legacy THEN "verifying" ELSE "signing")
             /\ UNCHANGED why
    BY DEF PlanSpend, Failures
  <1>3. CASE \E r \in Failures \ {"broadcast", "poll"} : Reject(c, r) /\ UNCHANGED tx
    <2>1. /\ pc'[c] = "rejected" /\ why'[c] \notin {"broadcast", "poll"}
          /\ \A d \in Calls \ {c} : pc'[d] = pc[d] /\ why'[d] = why[d]
      BY <1>3 DEF Reject, Goto, IInv, ShapeOK
    <2>2. Verified(c)' /\ Placed(c)'
      BY <1>1, <2>1 DEF Verified, Placed, Sending
    <2> QED BY <1>1, <1>3, <2>1, <2>2, MoveBooks DEF Books
  <1>4. ASSUME NEW o \in Selections(ListUnspent(s), amount, rate),
               tx' = [tx EXCEPT ![c] = Plan(o, amount)],
               Goto(c, IF Legacy THEN "verifying" ELSE "signing"), UNCHANGED why
        PROVE  Books'
    <2> DEFINE list == ListUnspent(s)
               plan == Plan(o, amount)
               v == [k \in plan.ins |-> ListedValue(k)']
    <2>1. plan.ins \subseteq DOMAIN list /\ plan.total = SumOf(list, plan.ins)
      BY SelectionTotal, PlanKeepsTotal
    <2> HIDE DEF plan
    <2>2. /\ tx'[c] = plan /\ \A d \in Calls \ {c} : tx'[d] = tx[d]
      BY <1>4 DEF plan, IInv, ShapeOK
    <2>3. /\ pc'[c] \in {"verifying", "signing"} /\ (Legacy => pc'[c] = "verifying")
          /\ \A d \in Calls \ {c} : pc'[d] = pc[d]
      BY <1>4 DEF Goto, IInv, ShapeOK
    <2>4. DOMAIN list \subseteq FirstCoins \cup ChangeOf(accepted)
      BY DEF ListUnspent, UnspentAfter, ChangeOf, Books
    <2>5. ChangeOf(accepted)' = ChangeOf(accepted)
      BY <1>1, <2>2 DEF ChangeOf, IInv, ShapeOK
    <2>6. ASSUME NEW k \in plan.ins PROVE list[k] = v[k]
      <3>1. k \in DOMAIN list /\ (k \notin FirstCoins => k \in Calls /\ k # c)
        BY <1>1, <2>1, <2>4 DEF ChangeOf, IInv, ShapeOK
      <3>2. list[k] = ListedValue(k)
        BY <3>1 DEF ListUnspent, ListedValue
      <3> QED BY <2>2, <3>1, <3>2 DEF ListedValue
    <2>7. IsFiniteSet(plan.ins)
      BY <2>1, ListedCoins, FiniteCoins
    <2> HIDE DEF list, v
    <2>8. SumOf(list, plan.ins) = SumOf(v, plan.ins)
      BY <2>6, <2>7, SumOfEqual
    <2>9. Backed(c)'
      BY <2>1, <2>2, <2>4, <2>5, <2>8 DEF Backed, v
    <2>10. Verified(c)' /\ Placed(c)'
      BY <1>1, <1>4, <2>3, SendTransactionAssumption
         DEF Verified, Placed, Sending, Failures
    <2> QED BY <1>1, <1>4, <2>2, <2>3, <2>9, <2>10, OthersKeepBooks DEF Books
  <1> QED BY <1>2, <1>3, <1>4

\* A correction takes nothing from the inputs.
LEMMA RebalancedKeepsTotal ==
  ASSUME NEW p \in Transaction, NEW r
  PROVE  Rebalanced(p, r).ins = p.ins /\ Rebalanced(p, r).total = p.total
  BY DEF Rebalanced, Transaction

LEMMA WithSizeKeepsTotal ==
  ASSUME NEW p, NEW n
  PROVE  WithSize(p, n).ins = p.ins /\ WithSize(p, n).total = p.total
  BY DEF WithSize

\* What signing makes has the inputs of the plan, and their total.
LEMMA SignKeepsInputs ==
  ASSUME IInv, NEW c \in Calls, Sign(c)
  PROVE  /\ tx'[c].ins = tx[c].ins /\ tx'[c].total = tx[c].total
         /\ \A d \in Calls \ {c} : tx'[d] = tx[d]
  <1> DEFINE rate == WholeRate(req[c].tenths)
             first(e) == WithSize(tx[c], SignedVSize(tx[c], e))
             fixed(e) == Rebalanced(first(e), rate * first(e).vsize)
             again(e, f) == WithSize(fixed(e), SignedVSize(fixed(e), f))
  <1>1. tx[c] \in Transaction
    BY DEF Sign, IInv, ShapeOK, CallOK
  <1>2. PICK e \in Excess, f \in Excess :
          \/ UNCHANGED tx
          \/ \E p : /\ p = first(e) \/ p = again(e, f)
                    /\ tx' = [tx EXCEPT ![c] = p]
    BY DEF Sign, WithSize
  <1>3. ASSUME NEW p, p = first(e) \/ p = again(e, f)
        PROVE  p.ins = tx[c].ins /\ p.total = tx[c].total
    <2>1. SignedVSize(tx[c], e) \in Nat
      BY <1>1, SignedVSizeType, SendTransactionAssumption DEF Transaction
    <2>2. first(e) \in Transaction
      BY <1>1, <2>1, WithSizeSound
    <2> HIDE DEF first
    <2>3. first(e).ins = tx[c].ins /\ first(e).total = tx[c].total
      BY WithSizeKeepsTotal DEF first
    <2>4. fixed(e).ins = first(e).ins /\ fixed(e).total = first(e).total
      BY <2>2, RebalancedKeepsTotal
    <2> HIDE DEF fixed
    <2>5. again(e, f).ins = fixed(e).ins /\ again(e, f).total = fixed(e).total
      BY WithSizeKeepsTotal
    <2> HIDE DEF again
    <2> QED BY <1>3, <2>3, <2>4, <2>5
  <1> HIDE DEF first, fixed, again
  <1> QED BY <1>2, <1>3 DEF IInv, ShapeOK

LEMMA SignBooks == ASSUME IInv, Books, NEW c \in Calls, Sign(c) PROVE Books'
  <1>1. /\ pc[c] = "signing" /\ tx[c] # None
        /\ c \notin held /\ c \notin accepted /\ why[c] = None
        /\ UNCHANGED <<held, accepted, indexed, cleared>>
    BY DEF Sign, IInv, ShapeOK, CallOK, Building, Books, Placed, netVars
  <1>2. \/ \E r \in Failures \ {"broadcast", "poll"} :
              Reject(c, r) /\ UNCHANGED <<tx, fee>>
        \/ \E p : /\ tx' = [tx EXCEPT ![c] = p]
                  /\ fee' = [fee EXCEPT ![c] = p.fee]
                  /\ Goto(c, "signed")
                  /\ UNCHANGED why
    BY DEF Sign, Failures
  <1>3. CASE \E r \in Failures \ {"broadcast", "poll"} :
                Reject(c, r) /\ UNCHANGED <<tx, fee>>
    <2>1. /\ pc'[c] = "rejected" /\ why'[c] \notin {"broadcast", "poll"}
          /\ \A d \in Calls \ {c} : pc'[d] = pc[d] /\ why'[d] = why[d]
      BY <1>3 DEF Reject, Goto, IInv, ShapeOK
    <2>2. Verified(c)' /\ Placed(c)'
      BY <1>1, <2>1 DEF Verified, Placed, Sending
    <2> QED BY <1>1, <1>3, <2>1, <2>2, MoveBooks DEF Books
  <1>4. ASSUME NEW p, tx' = [tx EXCEPT ![c] = p], fee' = [fee EXCEPT ![c] = p.fee],
               Goto(c, "signed"), UNCHANGED why
        PROVE  Books'
    <2>1. pc'[c] = "signed" /\ \A d \in Calls \ {c} : pc'[d] = pc[d]
      BY <1>4 DEF Goto, IInv, ShapeOK
    <2>2. /\ tx'[c] = p /\ p.ins = tx[c].ins /\ p.total = tx[c].total
          /\ \A d \in Calls \ {c} : tx'[d] = tx[d]
      BY <1>4, SignKeepsInputs DEF IInv, ShapeOK
    <2>3. p \in Transaction /\ p # None /\ p.fee \in Nat
      BY <2>1, <2>2, SignIInv DEF IInv, ShapeOK, CallOK, Transaction
    <2>4. fee' \in [Calls -> Int]
      BY <1>4, <2>3 DEF Books
    <2>5. \A d \in accepted : tx'[d] = tx[d]
      BY <1>1, <2>2 DEF IInv, ShapeOK
    <2>6. Backed(c)'
      <3> DEFINE v == [k \in p.ins |-> ListedValue(k)]
                 w == [k \in p.ins |-> ListedValue(k)']
      <3>1. /\ p.ins \subseteq FirstCoins \cup ChangeOf(accepted)
            /\ p.total = SumOf(v, p.ins)
        BY <1>1, <2>2 DEF Books, Backed
      <3>2. \A k \in p.ins : v[k] = w[k]
        BY <2>5, <3>1 DEF ListedValue, ChangeOf
      <3>3. IsFiniteSet(p.ins)
        BY <2>3, FiniteCoins DEF Transaction
      <3> HIDE DEF v, w
      <3>4. p.total = SumOf(w, p.ins)
        BY <3>1, <3>2, <3>3, SumOfEqual
      <3>5. ChangeOf(accepted)' = ChangeOf(accepted)
        BY <1>1, <2>5 DEF ChangeOf
      <3> QED BY <2>2, <3>1, <3>4, <3>5 DEF Backed, w
    <2>7. ValuesMatch(c)' = ValuesMatch(c)
      BY <2>2 DEF ValuesMatch
    <2>8. Verified(c)' /\ Placed(c)'
      BY <1>1, <1>4, <2>1, <2>7, SendTransactionAssumption
         DEF Books, Verified, Placed, Sending, Failures
    <2> QED BY <1>1, <1>4, <2>1, <2>2, <2>4, <2>6, <2>8, OthersKeepBooks DEF Books
  <1> QED BY <1>2, <1>3, <1>4

\* The network checks what nobody has checked yet.
LEMMA BroadcastBooks == ASSUME IInv, Books, NEW c \in Calls, Broadcast(c) PROVE Books'
  <1>1. /\ pc[c] = "broadcasting" /\ tx[c] # None
        /\ UNCHANGED <<tx, fee, held, indexed, cleared>>
    BY DEF Broadcast, IInv, CallOK, Sending
  <1>2. /\ pc'[c] \in {"polling", "rejected"} /\ why'[c] \in {None, "broadcast"}
        /\ pc'[c] = "polling" => c \in accepted' /\ why'[c] = None
        /\ \A d \in Calls \ {c} : pc'[d] = pc[d] /\ why'[d] = why[d]
    BY DEF Broadcast, Goto, Reject, IInv, ShapeOK, Books, Placed
  <1>3. /\ accepted' = accepted \/ accepted' = accepted \cup {c}
        /\ accepted' # accepted => Admissible(c)
    BY DEF Broadcast
  <1>4. c \in accepted' => ValuesMatch(c)
    BY <1>1, <1>3 DEF Admissible, SignatureValid, ValuesMatch, Books, Verified, Sending
  <1>5. Verified(c)' /\ Placed(c)'
    BY <1>1, <1>2, <1>4 DEF Books, Verified, Placed, ValuesMatch, Sending
  <1>6. Backed(c)'
    BY <1>1, <1>3, BackedKept DEF Books
  <1>7. accepted \subseteq accepted' /\ cleared' \subseteq accepted'
    BY <1>1, <1>3 DEF Books
  <1> QED BY <1>1, <1>2, <1>3, <1>5, <1>6, <1>7, OthersKeepBooks DEF Books

LEMMA PollingBooks ==
  ASSUME IInv, Books, NEW c \in Calls, Sleep(c) \/ ListAgain(c) \/ StopPolling(c)
  PROVE  Books'
  <1>1. /\ UNCHANGED <<tx, accepted, indexed, fee, held>>
        /\ pc[c] \in {"polling", "listing"}
    BY DEF Sleep, ListAgain, StopPolling, netVars, callVars
  <1>2. /\ pc'[c] \in {"polling", "listing", "returned", "rejected"}
        /\ why'[c] \in {None, "poll"} /\ (pc'[c] # "rejected" => why'[c] = None)
        /\ cleared' \subseteq cleared \cup {c}
        /\ \A d \in Calls \ {c} : pc'[d] = pc[d] /\ why'[d] = why[d]
    BY DEF Sleep, ListAgain, StopPolling, Goto, Reject, callVars, IInv, ShapeOK,
           Books, Placed
  <1>3. c \in accepted /\ tx[c] # None
    BY <1>1 DEF Books, Placed, IInv, CallOK
  <1>4. Verified(c)' /\ Placed(c)'
    BY <1>1, <1>2, <1>3 DEF Books, Verified, Placed, ValuesMatch
  <1> QED BY <1>1, <1>2, <1>3, <1>4, MoveBooks DEF Books

LEMMA IndexBooks == ASSUME IInv, Books, NEW s \in Servers, Index(s) PROVE Books'
  <1>1. UNCHANGED <<pc, why, tx, fee, held, accepted, cleared>>
    BY DEF Index, callVars
  <1>2. \A z \in Servers : indexed'[z] \subseteq accepted
    BY DEF Index, IInv, ShapeOK, Books
  <1>3. ASSUME NEW c \in Calls PROVE Backed(c)' /\ Verified(c)' /\ Placed(c)'
    BY <1>1, BackedKept DEF Books, Verified, Placed, ValuesMatch
  <1> QED BY <1>1, <1>2, <1>3 DEF Books

LEMMA StutterBooks == ASSUME IInv, Books, UNCHANGED vars PROVE Books'
  <1>1. UNCHANGED <<pc, why, tx, fee, held, accepted, indexed, cleared>>
    BY DEF vars, callVars, netVars
  <1>2. ASSUME NEW c \in Calls PROVE Backed(c)' /\ Verified(c)' /\ Placed(c)'
    BY <1>1, BackedKept DEF Books, Verified, Placed, ValuesMatch
  <1> QED BY <1>1, <1>2 DEF Books

\* The books are an invariant beside IInv.
THEOREM BooksKept == Spec => [](IInv /\ Books)
  <1>1. ASSUME IInv, Books, [Next]_vars PROVE Books'
    <2>1. ASSUME NEW c \in Calls, Start(c) \/ SendSigned(c) \/ Step(c) PROVE Books'
      BY <1>1, <2>1, EarlyBooks, FeeBooks, PlanSpendBooks, SignBooks, BroadcastBooks,
         PollingBooks DEF Step
    <2> QED BY <1>1, <2>1, IndexBooks, StutterBooks DEF Next
  <1> QED BY InitBooks, Invariance, <1>1, PTL DEF Spec

\* Every variable has its type: the fee told, a sum of coins, included.
THEOREM TypeCorrect == Spec => []TypeOK
  <1>1. IInv /\ Books => TypeOK
    BY DEF IInv, Books, TypeOK
  <1> QED BY <1>1, BooksKept, PTL

LEMMA AcceptedTotal ==
  ASSUME IInv, NEW c \in Calls, Backed(c), ValuesMatch(c), tx[c] # None
  PROVE  tx[c].total = SumOf([k \in tx[c].ins |-> RealValue(k)], tx[c].ins)
  <1> DEFINE v == [k \in tx[c].ins |-> ListedValue(k)]
             w == [k \in tx[c].ins |-> RealValue(k)]
  <1>1. \A k \in tx[c].ins : v[k] = w[k]
    BY DEF ListedValue, RealValue, ValuesMatch
  <1>2. IsFiniteSet(tx[c].ins)
    BY FiniteCoins DEF IInv, ShapeOK, Transaction
  <1>3. tx[c].total = SumOf(v, tx[c].ins)
    BY DEF Backed
  <1> HIDE DEF v, w
  <1>4. tx[c].total = SumOf(w, tx[c].ins)
    BY <1>1, <1>2, <1>3, SumOfEqual
  <1> QED BY <1>4 DEF w

\* An accepted transaction's inputs really hold what its plan was told, for
\* any coins, any misreport of the provider and both kinds of signature.
THEOREM TotalsReal == Spec => []TotalsAreReal
  <1>1. ASSUME IInv, Books PROVE TotalsAreReal
    <2>1. ASSUME NEW c \in accepted
          PROVE  tx[c].total = Total([k \in tx[c].ins |-> RealValue(k)], tx[c].ins)
      <3>1. c \in Calls /\ tx[c] # None
        BY <1>1 DEF IInv, ShapeOK, CallOK
      <3>2. Backed(c) /\ ValuesMatch(c)
        BY <1>1, <3>1 DEF Books, Verified
      <3> QED BY <1>1, <3>1, <3>2, AcceptedTotal, TotalIsSum
    <2> QED BY <2>1 DEF TotalsAreReal
  <1> QED BY <1>1, BooksKept, PTL

----------------------------------------------------------------------------
(* Signatures that weigh no more than estimated *)

\* A transaction pays exactly the fee told and the amount asked, and that fee
\* covers its size: signing has nothing to correct.
Exact(c) ==
    /\ pc[c] \in {"idle", "connecting", "planning"} => tx[c] = None
    /\ tx[c] # None =>
        /\ ActualFee(tx[c]) = tx[c].fee
        /\ tx[c].to = req[c].amount
        /\ WholeRate(req[c].tenths) * SignedVSize(tx[c], 0) <= tx[c].fee

AllExact == \A c \in Calls : Exact(c)

\* The fee of a plan covers its own size: a plan that has a change was made for
\* two outputs, since a selection for one leaves nothing over.
LEMMA PlanCovers ==
  ASSUME IInv, NEW amount \in Nat, NEW rate \in Nat, NEW s \in Servers,
         NEW o \in Selections(ListUnspent(s), amount, rate),
         PlanChange(o, amount) >= 0
  PROVE  rate * SignedVSize(Plan(o, amount), 0) <= Plan(o, amount).fee
  <1> DEFINE n == Cardinality(o.ins)
  <1>1. o.ins \in SUBSET Coins /\ o.total \in Nat /\ o.fee \in Nat
    BY ListedCoins, SelectionTypes
  <1>2. n \in Nat
    BY <1>1, FiniteCoins, FS_CardinalityType
  <1>3. VSize(n, 1) \in Nat /\ VSize(n, 2) \in Nat
    <2>1. InputVB * n \in Nat
      BY <1>2, ConstantTypes, ProductType
    <2> QED BY <2>1, ConstantTypes DEF VSize
  <1>4. rate * VSize(n, 1) \in Nat /\ rate * VSize(n, 2) \in Nat
    BY <1>3, ProductType
  <1>5. o.fee >= rate * VSize(n, 1)
    BY DEF Selections
  <1>6. o.fee = rate * VSize(n, 2) \/ o.fee = o.total - amount
    <2>1. PICK ins \in SUBSET DOMAIN ListUnspent(s) :
                 o = Selected(ListUnspent(s), ins, amount, rate)
      BY DEF Selections
    <2> QED BY <2>1 DEF Selected
  <1> HIDE DEF n
  <1>7. PlanFee(o) \in Nat /\ PlanFee(o) >= o.fee
    BY <1>1, ConstantTypes DEF PlanFee
  <1>8. PlanChange(o, amount) \in Nat /\ PlanChange(o, amount) = o.total - PlanFee(o) - amount
    BY <1>1, <1>7 DEF PlanChange
  <1>9. CASE PlanChange(o, amount) <= DustLimit
    <2>1. /\ Plan(o, amount).ins = o.ins /\ Plan(o, amount).change = 0
          /\ Plan(o, amount).fee = PlanFee(o) + PlanChange(o, amount)
      BY <1>9 DEF Plan
    <2>2. SignedVSize(Plan(o, amount), 0) = VSize(n, 1)
      BY <1>3, <2>1 DEF SignedVSize, n
    <2> QED BY <1>1, <1>4, <1>5, <1>7, <1>8, <2>1, <2>2
  <1>10. CASE ~(PlanChange(o, amount) <= DustLimit)
    <2>1. /\ Plan(o, amount).ins = o.ins /\ Plan(o, amount).fee = PlanFee(o)
          /\ Plan(o, amount).change = PlanChange(o, amount)
      BY <1>10 DEF Plan
    <2>2. PlanChange(o, amount) > 0
      BY <1>8, <1>10, ConstantTypes
    <2>3. SignedVSize(Plan(o, amount), 0) = VSize(n, 2)
      BY <1>3, <2>1, <2>2 DEF SignedVSize, n
    <2>4. o.fee = rate * VSize(n, 2)
      BY <1>1, <1>6, <1>7, <1>8, <2>2
    <2> QED BY <1>1, <1>4, <1>7, <2>1, <2>3, <2>4
  <1> QED BY <1>9, <1>10

LEMMA InitExact == Init => AllExact
  BY DEF Init, AllExact, Exact

\* A step of one call that makes no transaction, and does not go back to
\* planning, keeps every transaction exact.
LEMMA MoveExact ==
  ASSUME IInv, AllExact, NEW c \in Calls, tx' = tx,
         pc'[c] \in {"connecting", "planning"} => pc[c] \in {"idle", "connecting"},
         pc'[c] # "idle", req'[c] = req[c] \/ pc[c] = "idle",
         \A d \in Calls \ {c} : pc'[d] = pc[d] /\ req'[d] = req[d]
  PROVE  AllExact'
  <1>1. Exact(c)'
    BY DEF AllExact, Exact, ActualFee
  <1>2. ASSUME NEW d \in Calls, d # c PROVE Exact(d)'
    BY <1>2 DEF AllExact, Exact, ActualFee
  <1> QED BY <1>1, <1>2 DEF AllExact

LEMMA QuietExact ==
  ASSUME IInv, AllExact, NEW c \in Calls,
         \/ Start(c) \/ Connect(c) \/ VerifyLegacyUtxos(c) \/ SendSigned(c)
         \/ CheckMaxFee(c) \/ ResolveFee(c) \/ Broadcast(c)
         \/ Sleep(c) \/ ListAgain(c) \/ StopPolling(c)
  PROVE  AllExact'
  <1>1. CASE Start(c)
    BY <1>1, MoveExact DEF Start, Goto, IInv, ShapeOK
  <1>2. CASE Connect(c)
    BY <1>2, MoveExact DEF Connect, Goto, Reject, IInv, ShapeOK
  <1>3. CASE VerifyLegacyUtxos(c)
    BY <1>3, MoveExact DEF VerifyLegacyUtxos, Goto, Reject, IInv, ShapeOK
  <1>4. CASE SendSigned(c) \/ ResolveFee(c)
    BY <1>4, MoveExact DEF SendSigned, ResolveFee, Goto, Reject, IInv, ShapeOK
  <1>5. CASE CheckMaxFee(c)
    BY <1>5, MoveExact DEF CheckMaxFee, Goto, Reject, IInv, ShapeOK
  <1>6. CASE Broadcast(c)
    BY <1>6, MoveExact DEF Broadcast, Goto, Reject, IInv, ShapeOK
  <1>7. CASE Sleep(c) \/ StopPolling(c)
    BY <1>7, MoveExact DEF Sleep, StopPolling, Goto, callVars, IInv, ShapeOK
  <1>8. CASE ListAgain(c)
    BY <1>8, MoveExact DEF ListAgain, Goto, Reject, IInv, ShapeOK
  <1> QED BY <1>1, <1>2, <1>3, <1>4, <1>5, <1>6, <1>7, <1>8

LEMMA PlanSpendExact == ASSUME IInv, AllExact, NEW c \in Calls, PlanSpend(c) PROVE AllExact'
  <1> DEFINE amount == req[c].amount
             rate   == WholeRate(req[c].tenths)
  <1>1. /\ pc[c] = "planning" /\ req[c] \in Request /\ UNCHANGED req
    BY DEF PlanSpend, IInv, ShapeOK, CallOK
  <1>2. amount \in Nat /\ rate \in Nat
    BY <1>1, WholeRateType DEF Request
  <1>3. PICK s \in Servers :
          \/ \E r \in Failures : Reject(c, r) /\ UNCHANGED tx
          \/ \E o \in Selections(ListUnspent(s), amount, rate) :
                  /\ amount > DustLimit /\ PlanChange(o, amount) >= 0
                  /\ tx' = [tx EXCEPT ![c] = Plan(o, amount)]
                  /\ Goto(c, IF Legacy THEN "verifying" ELSE "signing")
    BY DEF PlanSpend, Failures
  <1>4. CASE \E r \in Failures : Reject(c, r) /\ UNCHANGED tx
    BY <1>1, <1>4, MoveExact DEF Reject, Goto, IInv, ShapeOK
  <1>5. ASSUME NEW o \in Selections(ListUnspent(s), amount, rate),
               amount > DustLimit, PlanChange(o, amount) >= 0,
               tx' = [tx EXCEPT ![c] = Plan(o, amount)],
               Goto(c, IF Legacy THEN "verifying" ELSE "signing")
        PROVE  AllExact'
    <2> DEFINE plan == Plan(o, amount)
    <2>1. o.ins \in SUBSET Coins /\ o.total \in Nat /\ o.fee \in Nat
      BY ListedCoins, SelectionTypes
    <2>2. ActualFee(plan) = plan.fee
      BY <1>2, <1>5, <2>1, PlanSound
    <2>3. plan.to = amount
      BY DEF Plan
    <2>4. rate * SignedVSize(plan, 0) <= plan.fee
      BY <1>2, <1>5, PlanCovers
    <2> HIDE DEF plan
    <2>5. tx'[c] = plan /\ \A d \in Calls \ {c} : tx'[d] = tx[d]
      BY <1>5 DEF plan, IInv, ShapeOK
    <2>6. /\ pc'[c] \in {"verifying", "signing"}
          /\ \A d \in Calls \ {c} : pc'[d] = pc[d]
      BY <1>5 DEF Goto, IInv, ShapeOK
    <2>7. Exact(c)'
      BY <1>1, <2>2, <2>3, <2>4, <2>5, <2>6 DEF Exact, ActualFee
    <2>8. ASSUME NEW d \in Calls, d # c PROVE Exact(d)'
      BY <1>1, <2>5, <2>6, <2>8 DEF AllExact, Exact, ActualFee
    <2> QED BY <2>7, <2>8 DEF AllExact
  <1> QED BY <1>3, <1>4, <1>5

\* With nothing to correct, signing keeps the plan.
LEMMA SignExact ==
  ASSUME Excess = {0}, IInv, AllExact, NEW c \in Calls, Sign(c) PROVE AllExact'
  <1> DEFINE rate == WholeRate(req[c].tenths)
             size == SignedVSize(tx[c], 0)
             first == WithSize(tx[c], size)
  <1>1. /\ pc[c] = "signing" /\ tx[c] \in Transaction /\ tx[c] # None
        /\ UNCHANGED req
    BY DEF Sign, IInv, ShapeOK, CallOK
  <1>2. size \in Nat
    BY <1>1, SignedVSizeType DEF Transaction
  <1>3. /\ first \in Transaction /\ first.vsize = size /\ first.fee = tx[c].fee
        /\ first.to = tx[c].to /\ first.ins = tx[c].ins
        /\ ActualFee(first) = ActualFee(tx[c]) /\ first.change = tx[c].change
    BY <1>1, <1>2, WithSizeSound DEF WithSize, Transaction
  <1>4. SignedVSize(first, 0) = size
    BY <1>3 DEF SignedVSize
  <1>5. rate * first.vsize <= first.fee
    BY <1>1, <1>3 DEF AllExact, Exact
  <1>6. tx' = [tx EXCEPT ![c] = first] /\ Goto(c, "signed")
    BY <1>5 DEF Sign, WithSize
  <1> HIDE DEF first, size
  <1>7. tx'[c] = first /\ \A d \in Calls \ {c} : tx'[d] = tx[d]
    BY <1>6 DEF IInv, ShapeOK
  <1>8. pc'[c] = "signed" /\ \A d \in Calls \ {c} : pc'[d] = pc[d]
    BY <1>6 DEF Goto, IInv, ShapeOK
  <1>9. Exact(c)
    BY DEF AllExact
  <1>10. Exact(c)'
    BY <1>1, <1>3, <1>4, <1>7, <1>8, <1>9 DEF Exact, ActualFee, size
  <1>11. ASSUME NEW d \in Calls, d # c PROVE Exact(d)'
    BY <1>1, <1>7, <1>8, <1>11 DEF AllExact, Exact, ActualFee
  <1> QED BY <1>10, <1>11 DEF AllExact

\* With signatures of the size estimated, the fee told is the fee paid, at every
\* await of a call.
THEOREM ExactKept == ASSUME Excess = {0} PROVE Spec => [](IInv /\ Books /\ AllExact)
  <1>1. ASSUME IInv, AllExact, [Next]_vars PROVE AllExact'
    <2>1. ASSUME NEW c \in Calls, Start(c) \/ SendSigned(c) \/ Step(c) PROVE AllExact'
      BY <1>1, <2>1, QuietExact, PlanSpendExact, SignExact DEF Step
    <2>2. ASSUME NEW s \in Servers, Index(s) PROVE AllExact'
      BY <1>1, <2>2 DEF Index, callVars, AllExact, Exact, ActualFee
    <2>3. CASE UNCHANGED vars
      BY <1>1, <2>3 DEF vars, callVars, AllExact, Exact, ActualFee
    <2> QED BY <1>1, <2>1, <2>2, <2>3 DEF Next
  <1> QED BY InitExact, BooksKept, <1>1, PTL DEF Spec

\* transactionMaxFee holds for what a transaction really costs, as long as the
\* signatures weigh no more than the size estimated from the inputs.
THEOREM CostWithinLimit ==
  ASSUME Excess = {0} PROVE Spec => []CostWithinMaxFee
  <1>1. ASSUME IInv, Books, AllExact PROVE CostWithinMaxFee
    <2>1. ASSUME MaxFee # NoMaxFee, NEW c \in accepted
          PROVE  Total([k \in tx[c].ins |-> RealValue(k)], tx[c].ins)
                    - tx[c].to - tx[c].change <= MaxFee
      <3>1. c \in Calls /\ tx[c] # None /\ WithinMaxFee(tx[c].fee)
        BY <1>1 DEF IInv, ShapeOK, CallOK
      <3>2. Backed(c) /\ ValuesMatch(c) /\ Exact(c)
        BY <1>1, <3>1 DEF Books, Verified, AllExact
      <3>3. Total([k \in tx[c].ins |-> RealValue(k)], tx[c].ins) = tx[c].total
        BY <1>1, <3>1, <3>2, AcceptedTotal, TotalIsSum
      <3> QED BY <2>1, <3>1, <3>2, <3>3 DEF Exact, ActualFee, WithinMaxFee
    <2> QED BY <2>1 DEF CostWithinMaxFee
  <1> QED BY <1>1, ExactKept, PTL

----------------------------------------------------------------------------
(* The account keeps the promise of module Payment *)

Balance == Total([k \in Unspent |-> RealValue(k)], Unspent)

DueOf(c) == IF Committed(c) THEN req[c].amount + tx[c].fee ELSE None

Due == [c \in Calls |-> DueOf(c)]

Outcomes == [c \in Calls |-> Outcome(c)]

Kept == IInv /\ Books /\ AllExact

\* The coins of the account are finitely many and have values.
LEMMA UnspentTypes ==
  ASSUME IInv
  PROVE  /\ Unspent \subseteq Minted /\ IsFiniteSet(Unspent)
         /\ \A k \in Unspent : RealValue(k) \in Nat
  <1>1. Unspent \subseteq Minted /\ Unspent \in SUBSET Coins
    BY DEF Unspent, UnspentAfter, ChangeOf, Minted, Coins, IInv, ShapeOK
  <1> QED BY <1>1, FiniteCoins, ValueTypes

LEMMA InitPromise == ASSUME Init PROVE Payments!Init
  <1>1. IInv
    BY InitIInv
  <1>2. Balance \in Nat
    <2> DEFINE v == [k \in Unspent |-> RealValue(k)]
    <2>1. \A k \in Unspent : v[k] \in Nat
      BY <1>1, UnspentTypes
    <2> HIDE DEF v
    <2>2. SumOf(v, Unspent) \in Nat
      BY <1>1, <2>1, UnspentTypes, SumOfType
    <2> QED BY <2>2, TotalIsSum DEF Balance, v
  <1>3. None \notin {"broadcast", "poll"}
    BY SendTransactionAssumption DEF Failures
  <1>4. ASSUME NEW c \in Calls PROVE ~Committed(c) /\ Outcome(c) = "open"
    BY <1>3 DEF Init, Committed, Outcome
  <1>5. Due = [c \in Calls |-> None] /\ Outcomes = [c \in Calls |-> "open"]
    BY <1>4 DEF Due, DueOf, Outcomes
  <1>6. accepted = {}
    BY DEF Init
  <1> QED BY <1>2, <1>5, <1>6 DEF Payments!Init, Balance, Due, DueOf, Outcomes

\* The balance is a matter of what the network accepted.
LEMMA BalanceKept ==
  ASSUME IInv, accepted' = accepted, \A d \in accepted : tx'[d] = tx[d]
  PROVE  Balance' = Balance
  <1>1. Unspent' = Unspent
    BY DEF Unspent, UnspentAfter, ChangeOf, SpentBy
  <1>2. \A k \in Unspent : RealValue(k)' = RealValue(k)
    BY DEF RealValue, Unspent, UnspentAfter, ChangeOf
  <1>3. [k \in Unspent |-> RealValue(k)]' = [k \in Unspent |-> RealValue(k)]
    BY <1>1, <1>2
  <1> QED BY <1>1, <1>3 DEF Balance

\* The step concerns no other call.
OthersStay(c) ==
    \A d \in Calls \ {c} :
        /\ pc'[d] = pc[d] /\ why'[d] = why[d] /\ req'[d] = req[d]
        /\ tx'[d] = tx[d] /\ (d \in held') = (d \in held)

LEMMA OthersSee ==
  ASSUME NEW c \in Calls, OthersStay(c)
  PROVE  /\ Due' = [Due EXCEPT ![c] = DueOf(c)']
         /\ Outcomes' = [Outcomes EXCEPT ![c] = Outcome(c)']
  <1>1. ASSUME NEW d \in Calls, d # c
        PROVE  DueOf(d)' = DueOf(d) /\ Outcome(d)' = Outcome(d)
    <2>1. Committed(d)' = Committed(d)
      BY <1>1 DEF Committed, OthersStay
    <2> QED BY <1>1, <2>1 DEF DueOf, Outcome, OthersStay
  <1> QED BY <1>1 DEF Due, Outcomes

\* The step of the payment that a step of the call is, from what it does to
\* that call alone.
LEMMA AbstractStep ==
  ASSUME NEW c \in Calls, OthersStay(c), accepted' = accepted, Balance' = Balance
  PROVE  /\ /\ DueOf(c)' = DueOf(c)
            /\ Outcome(c)' = Outcome(c)
            => UNCHANGED Payments!vars
         /\ /\ DueOf(c)' = DueOf(c) /\ c \notin accepted
            /\ Outcome(c) = "open" /\ Outcome(c)' = "refused"
            => Payments!Refuse(c)
         /\ /\ DueOf(c)' = DueOf(c)
            /\ Outcome(c) = "open" /\ Outcome(c)' = "unknown"
            => Payments!Fail(c)
         /\ /\ DueOf(c)' = DueOf(c) /\ c \in accepted
            /\ Outcome(c) = "open" /\ Outcome(c)' = "returned"
            => Payments!Return(c)
         /\ /\ DueOf(c)' = DueOf(c) /\ DueOf(c) # None
            /\ Outcome(c) \in {"unknown", "returned"} /\ Outcome(c)' = "open"
            => Payments!Retry(c)
         /\ /\ DueOf(c) = None /\ DueOf(c)' \in Nat
            /\ Outcome(c) = "open" /\ Outcome(c)' = "open"
            => Payments!Commit(c)
  <1>1. /\ Due' = [Due EXCEPT ![c] = DueOf(c)']
        /\ Outcomes' = [Outcomes EXCEPT ![c] = Outcome(c)']
    BY OthersSee
  <1>2. Due[c] = DueOf(c) /\ Outcomes[c] = Outcome(c) /\ Due'[c] = DueOf(c)'
    BY DEF Due, Outcomes
  <1>3. /\ DueOf(c)' = DueOf(c) => Due' = Due
        /\ Outcome(c)' = Outcome(c) => Outcomes' = Outcomes
    BY <1>1, <1>2 DEF Due, Outcomes
  <1>4. ASSUME DueOf(c)' = DueOf(c), Outcome(c)' = Outcome(c)
        PROVE  UNCHANGED Payments!vars
    BY <1>3, <1>4 DEF Payments!vars, Balance, Due, DueOf, Outcomes
  <1>5. ASSUME DueOf(c)' = DueOf(c), c \notin accepted,
               Outcome(c) = "open", Outcome(c)' = "refused"
        PROVE  Payments!Refuse(c)
    BY <1>1, <1>2, <1>3, <1>5 DEF Payments!Refuse, Balance, Due, DueOf, Outcomes
  <1>6. ASSUME DueOf(c)' = DueOf(c), Outcome(c) = "open", Outcome(c)' = "unknown"
        PROVE  Payments!Fail(c)
    BY <1>1, <1>2, <1>3, <1>6 DEF Payments!Fail, Balance, Due, DueOf, Outcomes
  <1>7. ASSUME DueOf(c)' = DueOf(c), c \in accepted,
               Outcome(c) = "open", Outcome(c)' = "returned"
        PROVE  Payments!Return(c)
    BY <1>1, <1>2, <1>3, <1>7 DEF Payments!Return, Balance, Due, DueOf, Outcomes
  <1>8. ASSUME DueOf(c)' = DueOf(c), DueOf(c) # None,
               Outcome(c) \in {"unknown", "returned"}, Outcome(c)' = "open"
        PROVE  Payments!Retry(c)
    BY <1>1, <1>2, <1>3, <1>8 DEF Payments!Retry, Balance, Due, DueOf, Outcomes
  <1>9. ASSUME DueOf(c) = None, DueOf(c)' \in Nat,
               Outcome(c) = "open", Outcome(c)' = "open"
        PROVE  Payments!Commit(c)
    BY <1>1, <1>2, <1>3, <1>9 DEF Payments!Commit, Balance, Due, DueOf, Outcomes
  <1> QED BY <1>4, <1>5, <1>6, <1>7, <1>8, <1>9

Promised == [Payments!Next]_(Payments!vars)

\* A call that has not committed: nothing is due, and nothing was sent.
LEMMA NotCommitted ==
  ASSUME Kept, NEW c \in Calls, pc[c] \in Building
  PROVE  /\ ~Committed(c) /\ DueOf(c) = None /\ Outcome(c) = "open"
         /\ c \notin held /\ c \notin accepted
  <1>1. why[c] = None /\ c \notin held /\ c \notin accepted
    BY DEF Kept, IInv, CallOK, Books, Placed, Building
  <1>2. None \notin {"broadcast", "poll"}
    BY SendTransactionAssumption DEF Failures
  <1> QED BY <1>1, <1>2 DEF Committed, DueOf, Outcome, Building

\* One that is handed over or on its way: its sum is due.
LEMMA SumDue ==
  ASSUME Kept, NEW c \in Calls, Committed(c), tx[c] # None
  PROVE  /\ DueOf(c) = req[c].amount + tx[c].fee /\ DueOf(c) \in Nat /\ DueOf(c) # None
         /\ req[c] \in Request /\ tx[c] \in Transaction
  <1>1. tx[c] \in Transaction
    BY DEF Kept, IInv, ShapeOK
  <1>2. pc[c] # "idle"
    BY DEF Kept, AllExact, Exact
  <1>3. req[c] \in Request
    BY <1>2 DEF Kept, IInv, ShapeOK, CallOK
  <1>4. DueOf(c) = req[c].amount + tx[c].fee
    BY DEF DueOf
  <1>5. DueOf(c) \in Nat
    BY <1>1, <1>3, <1>4 DEF Request, Transaction
  <1> QED BY <1>1, <1>3, <1>4, <1>5, SendTransactionAssumption

\* Up to the signed transaction: nothing of it is seen, but a refusal.
LEMMA BuildingKeeps ==
  ASSUME Kept, NEW c \in Calls,
         Start(c) \/ Connect(c) \/ PlanSpend(c) \/ VerifyLegacyUtxos(c) \/ Sign(c)
  PROVE  Promised
  <1>1. /\ pc[c] \in Building
        /\ UNCHANGED <<held, accepted>>
    BY DEF Start, Connect, PlanSpend, VerifyLegacyUtxos, Sign, Building, netVars
  <1>2. /\ ~Committed(c) /\ DueOf(c) = None /\ Outcome(c) = "open"
        /\ c \notin held /\ c \notin accepted /\ why[c] = None
    BY <1>1, NotCommitted DEF Kept, Books, Placed, Building
  <1>3. /\ \/ pc'[c] \in Building /\ why'[c] = None
           \/ pc'[c] = "rejected" /\ why'[c] \in Failures \ {"broadcast", "poll"}
        /\ OthersStay(c)
    <2>1. CASE Start(c)
      BY <2>1, <1>2 DEF Start, Goto, Kept, IInv, ShapeOK, Building, OthersStay
    <2>2. CASE Connect(c)
      BY <2>2, <1>2 DEF Connect, Goto, Reject, Kept, IInv, ShapeOK, Building, OthersStay,
                        Failures
    <2>3. CASE PlanSpend(c)
      <3>1. /\ \/ \E p \in {"verifying", "signing"} : Goto(c, p) /\ UNCHANGED why
               \/ \E r \in Failures \ {"broadcast", "poll"} : Reject(c, r)
            /\ UNCHANGED <<req, held>>
            /\ tx' = tx \/ \E p : tx' = [tx EXCEPT ![c] = p]
        BY <2>3 DEF PlanSpend, Failures
      <3> QED BY <1>2, <3>1 DEF Goto, Reject, Kept, IInv, ShapeOK, Building, OthersStay
    <2>4. CASE VerifyLegacyUtxos(c)
      BY <2>4, <1>2 DEF VerifyLegacyUtxos, Goto, Reject, Kept, IInv, ShapeOK, Building,
                        OthersStay, Failures
    <2>5. CASE Sign(c)
      <3>1. /\ \/ Goto(c, "signed") /\ UNCHANGED why
               \/ \E r \in Failures \ {"broadcast", "poll"} : Reject(c, r)
            /\ UNCHANGED <<req, held>>
            /\ tx' = tx \/ \E p : tx' = [tx EXCEPT ![c] = p]
        BY <2>5 DEF Sign, Failures
      <3> QED BY <1>2, <3>1 DEF Goto, Reject, Kept, IInv, ShapeOK, Building, OthersStay
    <2> QED BY <2>1, <2>2, <2>3, <2>4, <2>5
  <1>4. Balance' = Balance
    <2>1. \A d \in accepted : d \in Calls /\ d # c
      BY <1>2 DEF Kept, IInv, ShapeOK
    <2> QED BY <1>1, <1>3, <2>1, BalanceKept DEF Kept, OthersStay
  <1>5. DueOf(c)' = None
    <2>1. None \notin {"broadcast", "poll"}
      BY SendTransactionAssumption DEF Failures
    <2>2. ~Committed(c)'
      BY <1>1, <1>2, <1>3, <2>1 DEF Committed, Building
    <2> QED BY <2>2 DEF DueOf
  <1>6. CASE pc'[c] \in Building /\ why'[c] = None
    <2>1. Outcome(c)' = "open"
      BY <1>6 DEF Outcome, Building
    <2> QED BY <1>1, <1>2, <1>3, <1>4, <1>5, <2>1, AbstractStep DEF Promised
  <1>7. CASE pc'[c] = "rejected" /\ why'[c] \in Failures \ {"broadcast", "poll"}
    <2>1. Outcome(c)' = "refused"
      BY <1>1, <1>2, <1>7 DEF Outcome, Committed
    <2> QED BY <1>1, <1>2, <1>3, <1>4, <1>5, <2>1, AbstractStep
            DEF Promised, Payments!Next
  <1> QED BY <1>3, <1>6, <1>7

\* A step of a call that is handed over or on its way, while the network
\* accepts nothing: what it is seen to do is said by where it goes.
LEMMA LaterStep ==
  ASSUME Kept, NEW c \in Calls, Committed(c), tx[c] # None,
         UNCHANGED <<req, tx, accepted>>, OthersStay(c), Committed(c)',
         \/ Outcome(c)' = Outcome(c)
         \/ Outcome(c) = "open" /\ Outcome(c)' = "unknown"
         \/ Outcome(c) \in {"unknown", "returned"} /\ Outcome(c)' = "open"
         \/ Outcome(c) = "open" /\ Outcome(c)' = "returned" /\ c \in accepted
  PROVE  Promised
  <1>1. Balance' = Balance
    BY BalanceKept DEF Kept
  <1>2. DueOf(c)' = DueOf(c) /\ DueOf(c) # None
    BY SumDue DEF DueOf
  <1> QED BY <1>1, <1>2, AbstractStep DEF Promised, Payments!Next

LEMMA CheckMaxFeeKeeps == ASSUME Kept, NEW c \in Calls, CheckMaxFee(c) PROVE Promised
  <1>1. /\ pc[c] \in {"signed", "resolved"} /\ tx[c] # None /\ why[c] = None
        /\ pc[c] = "resolved" => c \in held
        /\ UNCHANGED <<req, tx, accepted>>
    BY DEF CheckMaxFee, Kept, IInv, CallOK, Books, Placed, netVars
  <1>2. /\ \/ /\ pc'[c] = "rejected" /\ why'[c] = "maxfee" /\ held' = held
           \/ /\ pc'[c] = "handed" /\ why'[c] = None /\ held' = held \cup {c}
           \/ /\ pc'[c] = "broadcasting" /\ why'[c] = None /\ held' = held
        /\ OthersStay(c)
    BY <1>1 DEF CheckMaxFee, Goto, Reject, Kept, IInv, ShapeOK, OthersStay
  <1>3. CASE pc[c] = "resolved"
    <2>1. c \in held /\ c \in held'
      BY <1>1, <1>2, <1>3
    <2>2. Committed(c) /\ Committed(c)'
      BY <2>1 DEF Committed
    <2>3. Outcome(c) = "open" /\ Outcome(c)' \in {"open", "unknown"}
      BY <1>2, <1>3, <2>2 DEF Outcome
    <2> QED BY <1>1, <1>2, <2>2, <2>3, LaterStep
  <1>4. CASE pc[c] = "signed"
    <2>1. /\ ~Committed(c) /\ DueOf(c) = None /\ Outcome(c) = "open"
          /\ c \notin held /\ c \notin accepted
      BY <1>4, NotCommitted DEF Building
    <2>2. Balance' = Balance
      BY <1>1, BalanceKept DEF Kept
    <2>3. CASE pc'[c] = "rejected" /\ why'[c] = "maxfee" /\ held' = held
      <3>1. ~Committed(c)' /\ Outcome(c)' = "refused" /\ DueOf(c)' = None
        BY <2>1, <2>3 DEF Committed, Outcome, DueOf
      <3> QED BY <1>1, <1>2, <2>1, <2>2, <3>1, AbstractStep DEF Promised, Payments!Next
    <2>4. CASE \/ pc'[c] = "handed" /\ held' = held \cup {c}
               \/ pc'[c] = "broadcasting"
      <3>1. Committed(c)' /\ Outcome(c)' = "open"
        BY <2>4 DEF Committed, Outcome
      <3>2. DueOf(c)' = req[c].amount + tx[c].fee
        BY <1>1, <3>1 DEF DueOf
      <3>3. req[c] \in Request /\ tx[c] \in Transaction
        BY <1>1, <1>4 DEF Kept, IInv, ShapeOK, CallOK
      <3>4. DueOf(c)' \in Nat
        BY <3>2, <3>3 DEF Request, Transaction
      <3> QED BY <1>1, <1>2, <2>1, <2>2, <3>1, <3>4, AbstractStep
              DEF Promised, Payments!Next
    <2> QED BY <1>2, <2>3, <2>4
  <1> QED BY <1>1, <1>3, <1>4

\* sendTransaction(hex): the caller sends the same again.
LEMMA HexKeeps ==
  ASSUME Kept, NEW c \in Calls, SendSigned(c) \/ ResolveFee(c) PROVE Promised
  <1>1. /\ c \in held /\ c \in held' /\ tx[c] # None
        /\ pc[c] \in {"handed", "rejected", "returned", "resolving"}
        /\ UNCHANGED <<req, tx, accepted>>
    BY DEF SendSigned, ResolveFee, Kept, IInv, CallOK, netVars
  <1>2. Committed(c) /\ Committed(c)'
    BY <1>1 DEF Committed
  <1>3. /\ \/ pc'[c] \in {"resolving", "resolved"}
           \/ pc[c] = "resolving" /\ pc'[c] = "rejected"
        /\ OthersStay(c)
    BY DEF SendSigned, ResolveFee, Goto, Reject, Kept, IInv, ShapeOK, OthersStay
  <1>4. \/ Outcome(c)' = "open" /\ Outcome(c) \in {"open", "unknown", "returned"}
        \/ Outcome(c) = "open" /\ Outcome(c)' = "unknown"
    BY <1>1, <1>2, <1>3 DEF Outcome
  <1> QED BY <1>1, <1>2, <1>3, <1>4, LaterStep

LEMMA PollingKeeps ==
  ASSUME Kept, NEW c \in Calls, Sleep(c) \/ ListAgain(c) \/ StopPolling(c)
  PROVE  Promised
  <1>1. /\ pc[c] \in {"polling", "listing"} /\ c \in accepted /\ tx[c] # None
        /\ UNCHANGED <<req, tx, accepted, held>>
    BY DEF Sleep, ListAgain, StopPolling, Kept, IInv, CallOK, Sending, Books, Placed,
           netVars, callVars
  <1>2. /\ \/ pc'[c] \in {"polling", "listing", "returned"}
           \/ pc'[c] = "rejected" /\ why'[c] = "poll"
        /\ OthersStay(c)
    BY DEF Sleep, ListAgain, StopPolling, Goto, Reject, callVars, Kept, IInv, ShapeOK,
           OthersStay
  <1>3. Committed(c) /\ Committed(c)'
    BY <1>1, <1>2 DEF Committed
  <1>4. Outcome(c) = "open" /\ Outcome(c)' \in {"open", "unknown", "returned"}
    BY <1>1, <1>2, <1>3 DEF Outcome
  <1> QED BY <1>1, <1>2, <1>3, <1>4, LaterStep

\* What a new transaction takes from the account is the sum that was due.
LEMMA BalanceDebited ==
  ASSUME Kept, NEW c \in Calls, c \notin accepted, tx[c] # None, Admissible(c),
         ValuesMatch(c), accepted' = accepted \cup {c}, UNCHANGED tx
  PROVE  Balance' = Balance - (req[c].amount + tx[c].fee)
  <1> DEFINE ins == tx[c].ins
             rest == Unspent \ ins
             change == IF tx[c].change > 0 THEN {c} ELSE {}
             v == [k \in Unspent \cup {c} |-> RealValue(k)]
             list == [k \in Unspent |-> RealValue(k)]
             paid == [k \in ins |-> RealValue(k)]
             after == [k \in Unspent' |-> RealValue(k)]
  <1>1. /\ tx[c] \in Transaction /\ c \notin FirstCoins
        /\ \A d \in accepted : d \in Calls /\ tx[d] # None
    BY SendTransactionAssumption DEF Kept, IInv, ShapeOK, CallOK
  <1>2. /\ Unspent \subseteq Minted /\ IsFiniteSet(Unspent) /\ c \notin Unspent
        /\ \A k \in Unspent : RealValue(k) \in Nat
    BY <1>1, UnspentTypes DEF Kept, Minted
  <1>3. ins \subseteq Unspent
    BY DEF Admissible
  <1>4. \A d \in accepted \cup {c} : c \notin tx[d].ins
    BY <1>1 DEF Kept, Books, Backed, ChangeOf
  <1>5. Unspent' = rest \cup change
    <2>1. SpentBy(accepted)' = SpentBy(accepted) \cup ins
      BY DEF SpentBy
    <2>2. ChangeOf(accepted)' = ChangeOf(accepted) \cup change
      BY DEF ChangeOf
    <2>3. c \notin SpentBy(accepted) \cup ins
      BY <1>4 DEF SpentBy
    <2> HIDE DEF ins, change
    <2> QED BY <2>1, <2>2, <2>3 DEF Unspent, UnspentAfter, change
  <1>6. \A k \in Unspent \cup {c} : v[k] \in Int
    BY <1>1, <1>2 DEF RealValue, Transaction
  <1>7. IsFiniteSet(rest) /\ IsFiniteSet(ins) /\ IsFiniteSet(change)
    BY <1>2, <1>3, FS_Subset, FS_EmptySet, FS_Singleton
  <1>8. Balance = SumOf(v, Unspent)
    <2>1. \A k \in Unspent : list[k] = v[k]
      OBVIOUS
    <2> HIDE DEF list, v
    <2>2. SumOf(list, Unspent) = SumOf(v, Unspent)
      BY <1>2, <2>1, SumOfEqual
    <2> QED BY <2>2, TotalIsSum DEF Balance, list
  <1>9. Balance' = SumOf(v, rest \cup change)
    <2>1. \A k \in Unspent' : after[k] = v[k]
      BY <1>5, <1>2
    <2>2. [k \in Unspent |-> RealValue(k)]' = after
      BY DEF RealValue
    <2> HIDE DEF v, rest, change, after
    <2>3. IsFiniteSet(Unspent')
      BY <1>5, <1>7, FS_Union
    <2>4. SumOf(after, Unspent') = SumOf(v, Unspent')
      BY <2>1, <2>3, SumOfEqual
    <2> QED BY <1>5, <2>2, <2>4, TotalIsSum DEF Balance
  <1>10. SumOf(v, ins) = tx[c].total
    <2>1. \A k \in ins : paid[k] = v[k]
      BY <1>3
    <2>2. tx[c].total = SumOf(paid, ins)
      BY AcceptedTotal DEF Kept, Books
    <2> HIDE DEF v, ins, paid
    <2>3. SumOf(paid, ins) = SumOf(v, ins)
      BY <1>7, <2>1, SumOfEqual
    <2> QED BY <2>2, <2>3
  <1>11. SumOf(v, change) = tx[c].change
    <2>1. CASE tx[c].change > 0
      <3>1. v[c] = tx[c].change
        BY <1>1 DEF RealValue
      <3> HIDE DEF v
      <3>2. SumOf(v, {c}) = v[c] + SumOf(v, {c} \ {c})
        BY <1>6, FS_Singleton, SumOfRemove
      <3>3. SumOf(v, {}) = 0 /\ {c} \ {c} = {}
        BY SumOfNothing
      <3>4. tx[c].change \in Nat
        BY <1>1 DEF Transaction
      <3> QED BY <2>1, <3>1, <3>2, <3>3, <3>4
    <2>2. CASE ~(tx[c].change > 0)
      BY <1>1, <2>2, SumOfNothing DEF Transaction
    <2> QED BY <2>1, <2>2
  <1>12. rest \cap ins = {} /\ rest \cup ins = Unspent /\ rest \cap change = {}
         /\ change \subseteq {c}
    BY <1>2, <1>3
  <1>13. /\ tx[c].total - tx[c].to - tx[c].change = tx[c].fee
         /\ tx[c].to = req[c].amount
    BY DEF Kept, AllExact, Exact, ActualFee
  <1> HIDE DEF v, rest, change, ins
  <1>14. SumOf(v, Unspent) = SumOf(v, rest) + SumOf(v, ins)
    BY <1>6, <1>7, <1>12, SumOfUnion
  <1>15. SumOf(v, rest \cup change) = SumOf(v, rest) + SumOf(v, change)
    BY <1>6, <1>7, <1>12, SumOfUnion
  <1>16. SumOf(v, rest) \in Int
    BY <1>6, <1>7, <1>12, SumOfType
  <1> QED BY <1>1, <1>8, <1>9, <1>10, <1>11, <1>13, <1>14, <1>15, <1>16 DEF Transaction

LEMMA PayStep ==
  ASSUME NEW c \in Calls, OthersStay(c), c \notin accepted,
         accepted' = accepted \cup {c}, DueOf(c) # None, DueOf(c)' = DueOf(c),
         Balance' = Balance - DueOf(c),
         Outcome(c) = "open", Outcome(c)' \in {"open", "unknown"}
  PROVE  Payments!Pay(c)
  <1>1. /\ Due' = [Due EXCEPT ![c] = DueOf(c)']
        /\ Outcomes' = [Outcomes EXCEPT ![c] = Outcome(c)']
    BY OthersSee
  <1>2. Due[c] = DueOf(c) /\ Outcomes[c] = Outcome(c)
    BY DEF Due, Outcomes
  <1>3. /\ Due' = Due
        /\ Outcome(c)' = Outcome(c) => Outcomes' = Outcomes
    BY <1>1, <1>2 DEF Due, Outcomes
  <1> QED BY <1>1, <1>2, <1>3 DEF Payments!Pay, Balance, Due, DueOf, Outcomes

LEMMA BroadcastKeeps == ASSUME Kept, NEW c \in Calls, Broadcast(c) PROVE Promised
  <1>1. /\ pc[c] = "broadcasting" /\ tx[c] # None
        /\ UNCHANGED <<req, tx, held>>
    BY DEF Broadcast, Kept, IInv, CallOK, Sending
  <1>2. /\ \/ pc'[c] = "polling"
           \/ pc'[c] = "rejected" /\ why'[c] = "broadcast"
        /\ OthersStay(c)
    BY DEF Broadcast, Goto, Reject, Kept, IInv, ShapeOK, OthersStay
  <1>3. Committed(c) /\ Committed(c)'
    BY <1>1, <1>2 DEF Committed
  <1>4. Outcome(c) = "open" /\ Outcome(c)' \in {"open", "unknown"}
    BY <1>1, <1>2, <1>3 DEF Outcome
  <1>5. CASE accepted' = accepted
    BY <1>1, <1>2, <1>3, <1>4, <1>5, LaterStep
  <1>6. CASE accepted' # accepted
    <2>1. c \notin accepted /\ accepted' = accepted \cup {c} /\ Admissible(c)
      BY <1>6 DEF Broadcast
    <2>2. ValuesMatch(c)
      BY <1>1, <2>1 DEF Admissible, SignatureValid, ValuesMatch, Kept, Books, Verified,
                        Sending
    <2>3. Balance' = Balance - (req[c].amount + tx[c].fee)
      BY <1>1, <2>1, <2>2, BalanceDebited
    <2>4. /\ DueOf(c) = req[c].amount + tx[c].fee /\ DueOf(c) # None
          /\ DueOf(c)' = DueOf(c)
      BY <1>1, <1>3, SumDue DEF DueOf
    <2> QED BY <1>2, <1>4, <2>1, <2>3, <2>4, PayStep DEF Promised, Payments!Next
  <1> QED BY <1>5, <1>6

\* What a server indexes changes nothing the caller is promised.
LEMMA UnseenKeeps ==
  ASSUME Kept, UNCHANGED <<pc, why, req, tx, held, accepted>> PROVE Promised
  <1>1. Balance' = Balance
    BY BalanceKept DEF Kept
  <1>2. ASSUME NEW c \in Calls PROVE DueOf(c)' = DueOf(c) /\ Outcome(c)' = Outcome(c)
    BY DEF DueOf, Outcome, Committed
  <1>3. Due' = Due /\ Outcomes' = Outcomes
    BY <1>2 DEF Due, Outcomes
  <1> QED BY <1>1, <1>3 DEF Promised, Payments!vars, Balance, Due, DueOf, Outcomes

\* The account implements Payment, for any coins, calls, requests, servers,
\* reports and kind of account, as long as the signatures weigh no more than
\* estimated: every accepted transaction takes exactly the amount asked and the
\* fee told, once, whatever is lost, retried or interleaved.
THEOREM PromiseKept == ASSUME Excess = {0} PROVE Spec => KeepsPromise
  <1>1. ASSUME Kept, [Next]_vars PROVE Promised
    <2>1. ASSUME NEW c \in Calls, Start(c) \/ SendSigned(c) \/ Step(c) PROVE Promised
      BY <1>1, <2>1, BuildingKeeps, CheckMaxFeeKeeps, HexKeeps, BroadcastKeeps,
         PollingKeeps DEF Step
    <2>2. ASSUME NEW s \in Servers, Index(s) PROVE Promised
      BY <1>1, <2>2, UnseenKeeps DEF Index, callVars
    <2>3. CASE UNCHANGED vars
      BY <1>1, <2>3, UnseenKeeps DEF vars, callVars, netVars
    <2> QED BY <1>1, <2>1, <2>2, <2>3 DEF Next
  <1>2. Spec => []Kept
    BY ExactKept DEF Kept
  <1> QED BY InitPromise, <1>1, <1>2, PTL DEF Spec, KeepsPromise, Payments!Spec, Promised

----------------------------------------------------------------------------
(* One server: what a finished poll has seen go stays gone *)

\* The inputs of a plan had been indexed by the server it was made from; what a
\* finished call saw gone is not listed.
Gone(s) ==
    /\ \A c \in Calls : tx[c] # None => tx[c].ins \subseteq FirstCoins \cup indexed[s]
    /\ \A c \in cleared : tx[c].ins \cap UnspentAfter(indexed[s]) = {}

\* A step that leaves the server as it is, and the transactions but one that
\* was not accepted.
LEMMA MoveGone ==
  ASSUME IInv, Books, NEW s \in Servers, Gone(s), UNCHANGED <<indexed, cleared>>,
         NEW c \in Calls, c \in accepted => tx'[c] = tx[c],
         \A d \in Calls \ {c} : tx'[d] = tx[d],
         tx'[c] # None => tx'[c].ins \subseteq FirstCoins \cup indexed[s]
  PROVE  Gone(s)'
  <1>1. \A d \in accepted : d \in Calls /\ tx'[d] = tx[d]
    BY DEF IInv, ShapeOK
  <1>2. cleared \subseteq accepted /\ indexed[s] \subseteq accepted
    BY DEF Books
  <1>3. UnspentAfter(indexed[s])' = UnspentAfter(indexed[s])
    BY <1>1, <1>2 DEF UnspentAfter, ChangeOf, SpentBy
  <1> QED BY <1>1, <1>2, <1>3 DEF Gone

\* The steps of a call: a plan only takes coins the server lists.
LEMMA StepGone ==
  ASSUME IInv, Books, NEW s, Servers = {s}, Gone(s), NEW c \in Calls,
         Start(c) \/ SendSigned(c) \/ Step(c)
  PROVE  Gone(s)'
  <1>1. CASE PlanSpend(c)
    <2>1. /\ c \notin accepted /\ UNCHANGED <<indexed, cleared>>
      BY <1>1 DEF PlanSpend, IInv, CallOK, Building, netVars
    <2>2. \/ tx' = tx
          \/ \E o : \E amount, rate : /\ o \in Selections(ListUnspent(s), amount, rate)
                                      /\ tx' = [tx EXCEPT ![c] = Plan(o, amount)]
      BY <1>1 DEF PlanSpend
    <2>3. ASSUME NEW o, NEW amount, NEW rate,
                 o \in Selections(ListUnspent(s), amount, rate),
                 tx' = [tx EXCEPT ![c] = Plan(o, amount)]
          PROVE  Gone(s)'
      <3> DEFINE plan == Plan(o, amount)
      <3>1. plan.ins \subseteq DOMAIN ListUnspent(s)
        BY <2>3, SelectionTotal, PlanKeepsTotal
      <3> HIDE DEF plan
      <3>2. tx'[c] = plan /\ \A d \in Calls \ {c} : tx'[d] = tx[d]
        BY <2>3 DEF plan, IInv, ShapeOK
      <3>3. DOMAIN ListUnspent(s) \subseteq FirstCoins \cup indexed[s]
        BY DEF ListUnspent, UnspentAfter, ChangeOf
      <3> QED BY <2>1, <3>1, <3>2, <3>3, MoveGone
    <2> QED BY <2>1, <2>2, <2>3, MoveGone DEF Gone
  <1>2. CASE Sign(c)
    <2>1. c \notin accepted /\ tx[c] # None /\ UNCHANGED <<accepted, indexed, cleared>>
      BY <1>2 DEF Sign, IInv, CallOK, Building, netVars
    <2>2. tx'[c].ins = tx[c].ins /\ \A d \in Calls \ {c} : tx'[d] = tx[d]
      BY <1>2, SignKeepsInputs
    <2> QED BY <2>1, <2>2, MoveGone DEF Gone
  <1>3. CASE ListAgain(c)
    <2>1. /\ tx' = tx /\ indexed' = indexed /\ pc[c] = "listing"
          /\ \/ cleared' = cleared
             \/ /\ cleared' = cleared \cup {c}
                /\ tx[c].ins \cap DOMAIN ListUnspent(s) = {}
      BY <1>3 DEF ListAgain, HasSpentOutpoints, netVars
    <2>2. UnspentAfter(indexed[s])' = UnspentAfter(indexed[s])
      BY <2>1 DEF UnspentAfter, ChangeOf, SpentBy
    <2>3. DOMAIN ListUnspent(s) = UnspentAfter(indexed[s])
      BY DEF ListUnspent
    <2> QED BY <2>1, <2>2, <2>3 DEF Gone
  <1>4. ASSUME \/ Start(c) \/ SendSigned(c) \/ Connect(c) \/ VerifyLegacyUtxos(c)
               \/ CheckMaxFee(c) \/ ResolveFee(c) \/ Broadcast(c) \/ Sleep(c)
               \/ StopPolling(c)
        PROVE  Gone(s)'
    <2>1. UNCHANGED <<tx, indexed, cleared>>
      BY <1>4 DEF Start, SendSigned, Connect, VerifyLegacyUtxos, CheckMaxFee, ResolveFee,
                  Broadcast, Sleep, StopPolling, netVars, callVars
    <2> QED BY <2>1, MoveGone DEF Gone
  <1> QED BY <1>1, <1>2, <1>3, <1>4 DEF Step

\* The server shows one more: only its change is new, and no plan made before
\* can have taken that.
LEMMA IndexGone ==
  ASSUME IInv, Books, NEW s, Servers = {s}, Gone(s), Index(s) PROVE Gone(s)'
  <1>1. UNCHANGED <<tx, cleared>>
    BY DEF Index, callVars
  <1>2. PICK e \in accepted \ indexed[s] : indexed'[s] = indexed[s] \cup {e}
    BY DEF Index, IInv, ShapeOK
  <1>3. e \notin FirstCoins
    BY SendTransactionAssumption DEF IInv, ShapeOK
  <1>4. UnspentAfter(indexed[s])' \subseteq UnspentAfter(indexed[s]) \cup {e}
    BY <1>1, <1>2 DEF UnspentAfter, ChangeOf, SpentBy
  <1>5. ASSUME NEW c \in cleared PROVE e \notin tx[c].ins
    <2>1. c \in Calls /\ tx[c] # None
      BY DEF Books, IInv, ShapeOK, CallOK
    <2> QED BY <1>2, <1>3, <2>1 DEF Gone
  <1> QED BY <1>1, <1>2, <1>4, <1>5 DEF Gone

\* With one server, a coin that a finished call saw disappear is never listed
\* to a later one: waiting for the poll is enough to send again without conflict.
THEOREM ClearedStaysGone ==
  ASSUME NEW s, Servers = {s} PROVE Spec => ClearedNeverReselected
  <1>1. Init => Gone(s)
    BY DEF Init, Gone
  <1>2. ASSUME IInv, Books, Gone(s), [Next]_vars PROVE Gone(s)'
    <2>1. CASE UNCHANGED vars
      BY <1>2, <2>1 DEF vars, callVars, netVars, Gone, UnspentAfter, ChangeOf, SpentBy
    <2>2. ASSUME NEW c \in Calls, Start(c) \/ SendSigned(c) \/ Step(c) PROVE Gone(s)'
      BY <1>2, <2>2, StepGone
    <2>3. ASSUME NEW z \in Servers, Index(z) PROVE Gone(s)'
      BY <1>2, <2>3, IndexGone
    <2> QED BY <1>2, <2>1, <2>2, <2>3 DEF Next
  <1>3. ASSUME IInv, Books, Gone(s), [Next]_vars,
               NEW d \in Calls, seen'[d] # seen[d], NEW c \in cleared
        PROVE  tx[c].ins \cap seen'[d] = {}
    <2>1. \E b \in Calls : PlanSpend(b)
      BY <1>3 DEF Next, Step, Start, Connect, VerifyLegacyUtxos, Sign, CheckMaxFee,
         SendSigned, ResolveFee, Broadcast, Sleep, ListAgain, StopPolling, Index,
         callVars, vars
    <2>2. PICK b \in Calls : PlanSpend(b)
      BY <2>1
    <2>3. seen' = seen \/ seen' = [seen EXCEPT ![b] = DOMAIN ListUnspent(s)]
      BY <2>2 DEF PlanSpend
    <2>4. seen'[d] = DOMAIN ListUnspent(s)
      BY <1>3, <2>3 DEF IInv, ShapeOK
    <2> QED BY <1>3, <2>4 DEF ListUnspent, Gone
  <1>4. ASSUME IInv, Books, Gone(s), [Next]_vars
        PROVE  [\A d \in Calls : (seen'[d] # seen[d]) =>
                    \A c \in cleared : tx[c].ins \cap seen'[d] = {}]_vars
    BY <1>3, <1>4
  <1> QED BY <1>1, <1>2, <1>4, BooksKept, PTL DEF Spec, ClearedNeverReselected
=============================================================================
