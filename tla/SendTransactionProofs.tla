------------------------ MODULE SendTransactionProofs ------------------------
(***************************************************************************)
(* What holds of the transactions an account makes, for any coins, calls,  *)
(* requests, rates, dust limit, signer and provider.                       *)
(***************************************************************************)
EXTENDS SendTransaction, FiniteSetTheorems, TLAPS

----------------------------------------------------------------------------
(* Lemmas about the arithmetic *)

LEMMA ConstantTypes ==
  /\ MIN_TX_FEE_SATS \in Nat /\ DustLimit \in Nat /\ MAX_MONEY \in Nat
  /\ OverheadVB \in Nat /\ InputVB \in Nat /\ OutputVB \in Nat
  BY SpendPlanAssumption

LEMMA WholeRateType == ASSUME NEW t \in Nat PROVE WholeRate(t) \in Nat
  BY DEF WholeRate, ToBigInt

LEMMA ProductType == ASSUME NEW x \in Nat, NEW y \in Nat PROVE x * y \in Nat
  OBVIOUS

LEMMA SignedVSizeType ==
  ASSUME NEW p, p.ins \in SUBSET Coins, NEW e \in Nat
  PROVE  SignedVSize(p, e) \in Nat
  <1>1. IsFiniteSet(p.ins)
    BY FS_Subset, FS_Union, SendTransactionAssumption DEF Coins
  <1>2. Cardinality(p.ins) \in Nat
    BY <1>1, FS_CardinalityType
  <1>3. InputVB * Cardinality(p.ins) \in Nat
    BY <1>2, ConstantTypes, ProductType
  <1>4. ASSUME NEW n \in {1, 2} PROVE OutputVB * n \in Nat
    BY <1>4, ConstantTypes
  <1>5. ASSUME NEW n \in {1, 2} PROVE VSize(Cardinality(p.ins), n) \in Nat
    BY <1>3, <1>4, <1>5, ConstantTypes DEF VSize
  <1> QED BY <1>5 DEF SignedVSize

LEMMA SelectionTypes ==
  ASSUME NEW value, NEW amount, NEW rate, NEW o \in Selections(value, amount, rate)
  PROVE  o.ins \subseteq DOMAIN value /\ o.total \in Nat /\ o.fee \in Nat
  <1>1. o.total \in Nat /\ o.fee \in Nat
    BY ConstantTypes DEF Selections
  <1>2. PICK ins \in SUBSET DOMAIN value : o = Selected(value, ins, amount, rate)
    BY DEF Selections
  <1>3. o.ins = ins
    BY <1>2 DEF Selected
  <1> QED BY <1>1, <1>3

\* Neither output is dust; the fee told is within a dust output of the real one.
Sound(p) ==
    /\ p.to > DustLimit
    /\ p.change = 0 \/ p.change > DustLimit
    /\ ActualFee(p) <= p.fee + DustLimit

\* A plan accounts for every satoshi of its inputs.
LEMMA PlanSound ==
  ASSUME NEW s, s.ins \in SUBSET Coins, s.total \in Nat, s.fee \in Nat,
         NEW amount \in Nat, amount > DustLimit, PlanChange(s, amount) >= 0
  PROVE  /\ Plan(s, amount) \in Transaction
         /\ Sound(Plan(s, amount))
         /\ ActualFee(Plan(s, amount)) = Plan(s, amount).fee
  <1>1. PlanFee(s) \in Nat
    BY ConstantTypes DEF PlanFee
  <1>2. PlanChange(s, amount) \in Nat
    BY <1>1 DEF PlanChange
  <1>3. s.total - PlanFee(s) - amount = PlanChange(s, amount)
    BY DEF PlanChange
  <1>4. CASE PlanChange(s, amount) <= DustLimit
    <2>1. Plan(s, amount) =
            [ins |-> s.ins, total |-> s.total, to |-> amount,
             fee |-> PlanFee(s) + PlanChange(s, amount), change |-> 0, vsize |-> 0]
      BY <1>4 DEF Plan
    <2> QED BY <2>1, <1>1, <1>2, <1>3, ConstantTypes DEF Transaction, Sound, ActualFee
  <1>5. CASE ~(PlanChange(s, amount) <= DustLimit)
    <2>1. Plan(s, amount) =
            [ins |-> s.ins, total |-> s.total, to |-> amount, fee |-> PlanFee(s),
             change |-> PlanChange(s, amount), vsize |-> 0]
      BY <1>5 DEF Plan
    <2> QED BY <2>1, <1>1, <1>2, <1>3, <1>5, ConstantTypes
            DEF Transaction, Sound, ActualFee
  <1> QED BY <1>4, <1>5

\* Signing changes nothing but the size.
LEMMA SignedSound ==
  ASSUME NEW p \in Transaction, NEW n \in Nat
  PROVE  LET q == [p EXCEPT !.vsize = n]
         IN  /\ q \in Transaction
             /\ q.ins = p.ins /\ q.total = p.total /\ q.to = p.to
             /\ q.fee = p.fee /\ q.change = p.change /\ q.vsize = n
  BY DEF Transaction

\* A correction moves the shortfall between the outputs and the fee, and loses
\* at most a dust output on the way.
LEMMA RebalancedSound ==
  ASSUME NEW p \in Transaction, Sound(p), ActualFee(p) = p.fee,
         NEW required \in Nat, required > p.fee,
         Rebalanced(p, required).to > DustLimit
  PROVE  Rebalanced(p, required) \in Transaction /\ Sound(Rebalanced(p, required))
  <1> DEFINE delta == required - p.fee
  <1>1. /\ p.total \in Nat /\ p.to \in Nat /\ p.fee \in Nat /\ p.change \in Nat
        /\ p.total - p.to - p.change = p.fee
    BY DEF Transaction, ActualFee
  <1>2. CASE p.change > 0
    <2> DEFINE left == IF p.change - delta <= DustLimit THEN 0 ELSE p.change - delta
               q == Rebalanced(p, required)
    <2>0. q = [p EXCEPT !.fee = required, !.change = left]
      BY <1>2 DEF Rebalanced
    <2>2. /\ left \in Nat
          /\ left = 0 \/ left > DustLimit
          /\ p.change - delta - left <= DustLimit
      BY <1>1, ConstantTypes
    <2> HIDE DEF left, q
    <2>3. /\ q \in Transaction /\ q.to = p.to /\ q.total = p.total
          /\ q.change = left /\ q.fee = required
      BY <2>0, <2>2 DEF Transaction
    <2>4. ActualFee(q) = p.total - p.to - left
      BY <2>3 DEF ActualFee
    <2>5. ActualFee(q) <= required + DustLimit
      BY <2>4, <2>2, <1>1, ConstantTypes
    <2> QED BY <2>2, <2>3, <2>5 DEF Sound, q
  <1>3. CASE ~(p.change > 0)
    <2> DEFINE left == p.to - delta
               q == Rebalanced(p, required)
    <2>0. q = [p EXCEPT !.fee = required, !.to = left]
      BY <1>3 DEF Rebalanced
    <2>1. q.to > DustLimit
      OBVIOUS
    <2> HIDE DEF q
    <2>2. q.to = left
      BY <2>0 DEF Transaction
    <2>3. left \in Nat
      BY <1>1, <2>1, <2>2, ConstantTypes
    <2> HIDE DEF left
    <2>4. /\ q \in Transaction /\ q.total = p.total
          /\ q.change = p.change /\ q.fee = required
      BY <2>0, <2>3 DEF Transaction
    <2>5. ActualFee(q) = required
      BY <1>1, <1>3, <2>2, <2>4 DEF ActualFee, left
    <2> QED BY <1>1, <1>3, <2>1, <2>4, <2>5, ConstantTypes DEF Sound, q
  <1> QED BY <1>1, <1>2, <1>3

----------------------------------------------------------------------------
(* The inductive invariant *)

Building == {"idle", "connecting", "planning", "verifying", "signing", "signed"}

Sending == {"broadcasting", "polling", "listing"}

\* What holds of one call: a plan or a transaction is sound as soon as there is
\* one, a plan is exact until it is signed, and nothing is handed over or sent
\* before its fee has passed the limit.
CallOK(c) ==
    /\ tx[c] # None => Sound(tx[c])
    /\ pc[c] # "idle" => req[c] # None
    /\ pc[c] \in {"verifying", "signing"} =>
          tx[c] # None /\ ActualFee(tx[c]) = tx[c].fee
    /\ pc[c] = "signed" => tx[c] # None /\ fee[c] = tx[c].fee
    /\ pc[c] \in Building => c \notin held /\ c \notin accepted
    /\ pc[c] \in {"handed", "resolving", "resolved"} => c \in held
    /\ (c \in held \/ c \in accepted \/ pc[c] \in Sending) =>
          tx[c] # None /\ WithinMaxFee(tx[c].fee)

\* The fee told is a function; its values, sums of coins, are left to TLC.
FeeIsFunction == fee = [c \in Calls |-> fee[c]]

IInv == ShapeOK /\ FeeIsFunction /\ \A c \in Calls : CallOK(c)

\* A step of one call leaves the others as they are.
LEMMA OthersKeep ==
  ASSUME IInv, ShapeOK', FeeIsFunction', NEW c \in Calls, CallOK(c)',
         \A d \in Calls \ {c} :
            /\ pc'[d] = pc[d] /\ req'[d] = req[d] /\ tx'[d] = tx[d]
            /\ fee'[d] = fee[d]
            /\ (d \in held') = (d \in held)
            /\ (d \in accepted') = (d \in accepted)
  PROVE  IInv'
  <1>1. ASSUME NEW d \in Calls, d # c PROVE CallOK(d)'
    BY <1>1 DEF IInv, CallOK, ActualFee, Sound, WithinMaxFee
  <1> QED BY <1>1 DEF IInv

LEMMA InitIInv == Init => IInv
  BY DEF Init, IInv, ShapeOK, FeeIsFunction, CallOK, Places, Reasons, Failures, Building,
         Sending

\* Starting, connecting, verifying: no transaction is made or moved.
LEMMA StartIInv == ASSUME IInv, NEW c \in Calls, Start(c) PROVE IInv'
  <1>1. ShapeOK'
    BY SendTransactionAssumption
    DEF Start, Goto, IInv, ShapeOK, callVars, netVars, Places
  <1>2. CallOK(c)'
    BY SendTransactionAssumption
    DEF Start, Goto, IInv, ShapeOK, CallOK, netVars, Building, Sending, WithinMaxFee,
        Request
  <1> QED BY <1>1, <1>2, OthersKeep
          DEF Start, Goto, IInv, ShapeOK, FeeIsFunction, netVars

\* A step that only moves one call along, and perhaps rejects it, counts down
\* its polls or records what it saw.
LEMMA MoveIInv ==
  ASSUME IInv, NEW c \in Calls, ShapeOK',
         UNCHANGED <<req, tx, fee, held, accepted>>,
         \A d \in Calls \ {c} : pc'[d] = pc[d],
         CallOK(c)'
  PROVE  IInv'
  BY OthersKeep DEF IInv, FeeIsFunction

LEMMA ConnectIInv == ASSUME IInv, NEW c \in Calls, Connect(c) PROVE IInv'
  <1>1. ShapeOK'
    BY DEF Connect, Goto, Reject, IInv, ShapeOK, netVars, Places, Reasons, Failures
  <1>2. CallOK(c)'
    BY DEF Connect, Goto, Reject, IInv, ShapeOK, CallOK, netVars, Building,
           Sending, WithinMaxFee, Sound, ActualFee
  <1> QED BY <1>1, <1>2, MoveIInv DEF Connect, Goto, Reject, IInv, ShapeOK, netVars

LEMMA VerifyIInv == ASSUME IInv, NEW c \in Calls, VerifyLegacyUtxos(c) PROVE IInv'
  <1>1. ShapeOK'
    BY DEF VerifyLegacyUtxos, Goto, Reject, IInv, ShapeOK, netVars, Places, Reasons, Failures
  <1>2. CallOK(c)'
    BY DEF VerifyLegacyUtxos, Goto, Reject, IInv, ShapeOK, CallOK, netVars,
           Building, Sending, WithinMaxFee, Sound, ActualFee
  <1> QED BY <1>1, <1>2, MoveIInv
          DEF VerifyLegacyUtxos, Goto, Reject, IInv, ShapeOK, netVars

\* The limit on the fee: for a call of signTransaction or sendTransaction the
\* fee compared is the transaction's, and what was handed over has passed it.
LEMMA CheckMaxFeeIInv == ASSUME IInv, NEW c \in Calls, CheckMaxFee(c) PROVE IInv'
  <1>1. req[c] \in Request
    BY DEF CheckMaxFee, IInv, ShapeOK, CallOK
  <1>2. ShapeOK'
    BY <1>1 DEF CheckMaxFee, Goto, Reject, IInv, ShapeOK, netVars, Places, Reasons, Failures,
           Request
  <1>3. tx[c] # None /\ (c \in held' => WithinMaxFee(tx[c].fee))
    BY DEF CheckMaxFee, Goto, Reject, IInv, ShapeOK, CallOK
  <1>4. pc'[c] = "broadcasting" => WithinMaxFee(tx[c].fee)
    BY DEF CheckMaxFee, Goto, Reject, IInv, ShapeOK, CallOK
  <1>5. CallOK(c)'
    BY <1>3, <1>4 DEF CheckMaxFee, Goto, Reject, IInv, ShapeOK, CallOK, netVars,
           Building, Sending, WithinMaxFee, Sound, ActualFee
  <1> QED BY <1>2, <1>5, OthersKeep
          DEF CheckMaxFee, Goto, Reject, IInv, ShapeOK, netVars, FeeIsFunction

LEMMA SendSignedIInv == ASSUME IInv, NEW c \in Calls, SendSigned(c) PROVE IInv'
  <1>1. ShapeOK'
    BY DEF SendSigned, Goto, IInv, ShapeOK, netVars, Places, Reasons, Failures
  <1>2. CallOK(c)'
    BY DEF SendSigned, Goto, IInv, ShapeOK, CallOK, netVars, Building, Sending,
           WithinMaxFee, Sound, ActualFee
  <1> QED BY <1>1, <1>2, MoveIInv DEF SendSigned, Goto, IInv, ShapeOK, netVars

LEMMA ResolveFeeIInv == ASSUME IInv, NEW c \in Calls, ResolveFee(c) PROVE IInv'
  <1>1. ShapeOK'
    BY DEF ResolveFee, Goto, Reject, IInv, ShapeOK, netVars, Places, Reasons, Failures
  <1>2. CallOK(c)'
    BY DEF ResolveFee, Goto, Reject, IInv, ShapeOK, CallOK, netVars, Building,
           Sending, WithinMaxFee, Sound, ActualFee
  <1>3. FeeIsFunction' /\ \A d \in Calls \ {c} : fee'[d] = fee[d]
    BY DEF ResolveFee, IInv, FeeIsFunction
  <1> QED BY <1>1, <1>2, <1>3, OthersKeep
          DEF ResolveFee, Goto, Reject, IInv, ShapeOK, netVars

LEMMA BroadcastIInv == ASSUME IInv, NEW c \in Calls, Broadcast(c) PROVE IInv'
  <1>1. ShapeOK'
    BY DEF Broadcast, Goto, Reject, IInv, ShapeOK, Places, Reasons, Failures
  <1>2. CallOK(c)'
    BY DEF Broadcast, Goto, Reject, IInv, ShapeOK, CallOK, Building, Sending,
           WithinMaxFee, Sound, ActualFee
  <1> QED BY <1>1, <1>2, OthersKeep
          DEF Broadcast, Goto, Reject, IInv, ShapeOK, FeeIsFunction

\* The polling loop.
LEMMA PollingIInv ==
  ASSUME IInv, NEW c \in Calls, Sleep(c) \/ ListAgain(c) \/ StopPolling(c)
  PROVE  IInv'
  <1>1. CASE Sleep(c)
    <2>1. ShapeOK'
      BY <1>1 DEF Sleep, HasRetries, RetriesAfterTurn, Goto, IInv, ShapeOK, netVars,
                  Places
    <2>2. CallOK(c)'
      BY <1>1 DEF Sleep, Goto, IInv, ShapeOK, CallOK, netVars, Building, Sending,
                  WithinMaxFee, Sound, ActualFee
    <2> QED BY <1>1, <2>1, <2>2, MoveIInv DEF Sleep, Goto, IInv, ShapeOK, netVars
  <1>2. CASE ListAgain(c)
    <2>1. ShapeOK'
      BY <1>2 DEF ListAgain, Goto, Reject, IInv, ShapeOK, netVars, Places, Reasons, Failures
    <2>2. CallOK(c)'
      BY <1>2 DEF ListAgain, Goto, Reject, IInv, ShapeOK, CallOK, netVars, Building,
                  Sending, WithinMaxFee, Sound, ActualFee
    <2> QED BY <1>2, <2>1, <2>2, MoveIInv
            DEF ListAgain, Goto, Reject, IInv, ShapeOK, netVars
  <1>3. CASE StopPolling(c)
    <2>1. ShapeOK'
      BY <1>3 DEF StopPolling, Goto, IInv, ShapeOK, callVars, netVars, Places
    <2>2. CallOK(c)'
      BY <1>3 DEF StopPolling, Goto, IInv, ShapeOK, CallOK, callVars, netVars,
                  Building, Sending, WithinMaxFee, Sound, ActualFee
    <2> QED BY <1>3, <2>1, <2>2, MoveIInv
            DEF StopPolling, Goto, IInv, ShapeOK, callVars, netVars
  <1> QED BY <1>1, <1>2, <1>3

LEMMA IndexIInv == ASSUME IInv, NEW s \in Servers, Index(s) PROVE IInv'
  <1>1. ShapeOK'
    BY DEF Index, IInv, ShapeOK, callVars
  <1>2. ASSUME NEW c \in Calls PROVE CallOK(c)'
    BY <1>2 DEF Index, IInv, CallOK, callVars, WithinMaxFee, Sound, ActualFee
  <1> QED BY <1>1, <1>2 DEF Index, IInv, FeeIsFunction, callVars

\* A server only ever lists outputs of the account.
LEMMA ListedCoins ==
  ASSUME IInv, NEW s \in Servers PROVE DOMAIN ListUnspent(s) \subseteq Coins
  BY DEF IInv, ShapeOK, ListUnspent, UnspentAfter, ChangeOf, Coins

\* A plan, when there is one, is sound and exact.
LEMMA PlanSpendIInv == ASSUME IInv, NEW c \in Calls, PlanSpend(c) PROVE IInv'
  <1> DEFINE amount == req[c].amount
             rate   == WholeRate(req[c].tenths)
  <1>1. /\ pc[c] = "planning" /\ req[c] # None /\ amount \in Nat
        /\ c \notin held /\ c \notin accepted
    BY DEF PlanSpend, IInv, ShapeOK, CallOK, Building, Request
  <1>2. PICK s \in Servers :
          \/ \E r \in Reasons : Reject(c, r) /\ UNCHANGED <<seen, tx>>
          \/ \E r \in Reasons : /\ Reject(c, r) /\ UNCHANGED tx
                                /\ seen' = [seen EXCEPT ![c] = DOMAIN ListUnspent(s)]
          \/ /\ seen' = [seen EXCEPT ![c] = DOMAIN ListUnspent(s)]
             /\ amount > DustLimit
             /\ \E o \in Selections(ListUnspent(s), amount, rate) :
                  /\ PlanChange(o, amount) >= 0
                  /\ tx' = [tx EXCEPT ![c] = Plan(o, amount)]
                  /\ Goto(c, IF Legacy THEN "verifying" ELSE "signing")
                  /\ UNCHANGED why
    BY DEF PlanSpend, Reasons, Failures
  <1>3. DOMAIN ListUnspent(s) \subseteq Coins
    BY ListedCoins
  <1>4. seen' \in [Calls -> SUBSET Coins]
    BY <1>2, <1>3 DEF IInv, ShapeOK
  <1>5. UNCHANGED <<req, fee, polls, held, accepted, indexed, cleared>>
    BY DEF PlanSpend, netVars
  <1>6. CASE \E r \in Reasons : Reject(c, r) /\ UNCHANGED tx
    <2>1. ShapeOK'
      BY <1>4, <1>5, <1>6 DEF Reject, Goto, IInv, ShapeOK, Places
    <2>2. CallOK(c)'
      BY <1>1, <1>5, <1>6 DEF Reject, Goto, IInv, ShapeOK, CallOK, Building, Sending,
                              Sound, ActualFee
    <2> QED BY <1>5, <1>6, <2>1, <2>2, MoveIInv DEF Reject, Goto, IInv, ShapeOK
  <1>7. ASSUME amount > DustLimit,
               NEW o \in Selections(ListUnspent(s), amount, rate),
               PlanChange(o, amount) >= 0,
               tx' = [tx EXCEPT ![c] = Plan(o, amount)],
               Goto(c, IF Legacy THEN "verifying" ELSE "signing"),
               UNCHANGED why
        PROVE  IInv'
    <2> DEFINE plan == Plan(o, amount)
    <2>1. o.ins \in SUBSET Coins /\ o.total \in Nat /\ o.fee \in Nat
      BY <1>3, SelectionTypes
    <2>2. plan \in Transaction /\ Sound(plan) /\ ActualFee(plan) = plan.fee
      BY <1>1, <1>7, <2>1, PlanSound
    <2> HIDE DEF plan
    <2>3. tx' = [tx EXCEPT ![c] = plan] /\ tx'[c] = plan
      BY <1>7 DEF plan, IInv, ShapeOK
    <2>4. /\ pc' \in [Calls -> Places] /\ pc'[c] \in {"verifying", "signing"}
          /\ \A d \in Calls \ {c} : pc'[d] = pc[d]
      BY <1>7 DEF Goto, IInv, ShapeOK, Places
    <2>5. ShapeOK'
      BY <1>4, <1>5, <1>7, <2>2, <2>3, <2>4 DEF IInv, ShapeOK
    <2>6. plan # None
      BY <2>2, SendTransactionAssumption
    <2>7. CallOK(c)'
      BY <1>1, <1>5, <2>2, <2>3, <2>4, <2>6
         DEF CallOK, Building, Sending, Sound, ActualFee
    <2> QED BY <1>5, <2>3, <2>4, <2>5, <2>7, OthersKeep
            DEF IInv, ShapeOK, FeeIsFunction
  <1> QED BY <1>2, <1>6, <1>7

\* A transaction with the size it was signed with.
WithSize(p, n) == [p EXCEPT !.vsize = n]

LEMMA WithSizeSound ==
  ASSUME NEW p \in Transaction, NEW n \in Nat
  PROVE  /\ WithSize(p, n) \in Transaction
         /\ WithSize(p, n).to = p.to /\ WithSize(p, n).fee = p.fee
         /\ WithSize(p, n).ins = p.ins /\ WithSize(p, n).vsize = n
         /\ ActualFee(WithSize(p, n)) = ActualFee(p)
         /\ Sound(p) => Sound(WithSize(p, n))
  <1>1. /\ WithSize(p, n) \in Transaction /\ WithSize(p, n).total = p.total
        /\ WithSize(p, n).to = p.to /\ WithSize(p, n).fee = p.fee
        /\ WithSize(p, n).ins = p.ins /\ WithSize(p, n).vsize = n
        /\ WithSize(p, n).change = p.change
    BY DEF WithSize, Transaction
  <1>2. ActualFee(WithSize(p, n)) = ActualFee(p)
    BY <1>1 DEF ActualFee
  <1> QED BY <1>1, <1>2 DEF Sound

\* The recipient's output is what the correction left, before it is known not
\* to be negative.
LEMMA RecipientAfterRebalance ==
  ASSUME NEW p \in Transaction, NEW r \in Nat, NEW n
  PROVE  WithSize(Rebalanced(p, r), n).to = Rebalanced(p, r).to
  <1>1. CASE p.change > 0
    <2> DEFINE v == IF p.change - (r - p.fee) <= DustLimit
                    THEN 0 ELSE p.change - (r - p.fee)
               q == Rebalanced(p, r)
    <2>1. q = [p EXCEPT !.fee = r, !.change = v]
      BY <1>1 DEF Rebalanced
    <2> HIDE DEF q, v
    <2>2. WithSize(q, n).to = q.to
      BY <2>1 DEF WithSize, Transaction
    <2> QED BY <2>2 DEF q
  <1>2. CASE ~(p.change > 0)
    <2> DEFINE v == p.to - (r - p.fee)
               q == Rebalanced(p, r)
    <2>1. q = [p EXCEPT !.fee = r, !.to = v]
      BY <1>2 DEF Rebalanced
    <2> HIDE DEF q, v
    <2>2. WithSize(q, n).to = q.to
      BY <2>1 DEF WithSize, Transaction
    <2> QED BY <2>2 DEF q
  <1> QED BY <1>1, <1>2

\* Signing: as planned, or once corrected.
LEMMA SignIInv == ASSUME IInv, NEW c \in Calls, Sign(c) PROVE IInv'
  <1> DEFINE rate == WholeRate(req[c].tenths)
             first(e) == WithSize(tx[c], SignedVSize(tx[c], e))
             fixed(e) == Rebalanced(first(e), rate * first(e).vsize)
             again(e, f) == WithSize(fixed(e), SignedVSize(fixed(e), f))
  <1>1. /\ pc[c] = "signing" /\ tx[c] \in Transaction
        /\ Sound(tx[c]) /\ ActualFee(tx[c]) = tx[c].fee
        /\ req[c] \in Request /\ c \notin held /\ c \notin accepted
    BY DEF Sign, IInv, ShapeOK, CallOK, Building
  <1>2. rate \in Nat
    BY <1>1, WholeRateType DEF Request
  <1>3. UNCHANGED <<req, seen, polls, held, accepted, indexed, cleared>>
    BY DEF Sign, netVars
  <1>4. PICK e \in Excess, f \in Excess :
          \/ \E r \in Reasons : Reject(c, r) /\ UNCHANGED <<tx, fee>>
          \/ \E p : /\ \/ p = first(e)
                       \/ /\ p = again(e, f) /\ p.to > DustLimit
                          /\ ~(rate * first(e).vsize <= first(e).fee)
                    /\ tx' = [tx EXCEPT ![c] = p]
                    /\ fee' = [fee EXCEPT ![c] = p.fee]
                    /\ Goto(c, "signed")
                    /\ UNCHANGED why
    <2>1. {"dust", "shortfall"} \subseteq Reasons
      BY DEF Reasons, Failures
    <2> QED BY <2>1, ZenonT(40) DEF Sign, WithSize
  <1>5. CASE \E r \in Reasons : Reject(c, r) /\ UNCHANGED <<tx, fee>>
    <2>1. ShapeOK'
      BY <1>3, <1>5 DEF Reject, Goto, IInv, ShapeOK, Places
    <2>2. CallOK(c)'
      BY <1>1, <1>3, <1>5 DEF Reject, Goto, IInv, ShapeOK, CallOK, Building, Sending,
                              Sound, ActualFee
    <2> QED BY <1>3, <1>5, <2>1, <2>2, MoveIInv DEF Reject, Goto, IInv, ShapeOK
  <1>6. ASSUME NEW p,
               \/ p = first(e)
               \/ /\ p = again(e, f) /\ p.to > DustLimit
                  /\ ~(rate * first(e).vsize <= first(e).fee),
               tx' = [tx EXCEPT ![c] = p], fee' = [fee EXCEPT ![c] = p.fee],
               Goto(c, "signed"), UNCHANGED why
        PROVE  IInv'
    <2>1. e \in Nat /\ f \in Nat
      BY SendTransactionAssumption
    <2>2. SignedVSize(tx[c], e) \in Nat
      BY <1>1, <2>1, SignedVSizeType DEF Transaction
    <2>3. /\ first(e) \in Transaction /\ Sound(first(e))
          /\ ActualFee(first(e)) = first(e).fee /\ first(e).vsize \in Nat
      BY <1>1, <2>2, WithSizeSound
    <2>4. ASSUME p = again(e, f), p.to > DustLimit,
                 ~(rate * first(e).vsize <= first(e).fee)
          PROVE  p \in Transaction /\ Sound(p)
      <3> DEFINE required == rate * first(e).vsize
      <3>1. required \in Nat /\ first(e).fee \in Nat
        BY <1>2, <2>3, ProductType DEF Transaction
      <3> HIDE DEF required
      <3>2. required > first(e).fee
        BY <2>4, <3>1 DEF required
      <3>3. p = WithSize(Rebalanced(first(e), required), SignedVSize(fixed(e), f))
        BY <2>4 DEF required
      <3> HIDE DEF first
      <3>4. Rebalanced(first(e), required).to > DustLimit
        BY <2>3, <2>4, <3>1, <3>3, RecipientAfterRebalance
      <3>5. /\ Rebalanced(first(e), required) \in Transaction
            /\ Sound(Rebalanced(first(e), required))
        BY <2>3, <3>1, <3>2, <3>4, RebalancedSound
      <3>6. fixed(e) \in Transaction /\ Sound(fixed(e))
        BY <3>5 DEF required
      <3>7. SignedVSize(fixed(e), f) \in Nat
        BY <2>1, <3>6, SignedVSizeType DEF Transaction
      <3> QED BY <3>3, <3>5, <3>7, WithSizeSound
    <2>5. p \in Transaction /\ Sound(p)
      BY <1>6, <2>3, <2>4
    <2>6. tx' = [tx EXCEPT ![c] = p] /\ tx'[c] = p
      BY <1>6 DEF IInv, ShapeOK
    <2>7. FeeIsFunction' /\ fee'[c] = p.fee /\ \A d \in Calls \ {c} : fee'[d] = fee[d]
      BY <1>6 DEF IInv, FeeIsFunction
    <2>8. /\ pc' \in [Calls -> Places] /\ pc'[c] = "signed"
          /\ \A d \in Calls \ {c} : pc'[d] = pc[d]
      BY <1>6 DEF Goto, IInv, ShapeOK, Places
    <2>9. ShapeOK'
      BY <1>3, <1>6, <2>5, <2>6, <2>8 DEF IInv, ShapeOK
    <2>10. p # None /\ req[c] # None
      BY <1>1, <2>5, SendTransactionAssumption
    <2>11. CallOK(c)'
      BY <1>1, <1>3, <2>5, <2>6, <2>7, <2>8, <2>10
         DEF CallOK, Building, Sending, Sound, ActualFee
    <2> QED BY <1>3, <2>6, <2>7, <2>8, <2>9, <2>11, OthersKeep DEF IInv, ShapeOK
  <1> QED BY <1>4, <1>5, <1>6

----------------------------------------------------------------------------
(* The theorems *)

\* IInv is an invariant: it holds at the start and every step keeps it.
THEOREM Invariance == Spec => []IInv
  <1>1. ASSUME IInv, [Next]_vars PROVE IInv'
    <2>1. CASE UNCHANGED vars
      <3>1. UNCHANGED <<pc, why, req, seen, tx, fee, polls, held, accepted, indexed,
                        cleared>>
        BY <2>1 DEF vars, callVars, netVars
      <3>2. ShapeOK' /\ FeeIsFunction'
        BY <1>1, <3>1 DEF IInv, ShapeOK, FeeIsFunction
      <3>3. ASSUME NEW c \in Calls PROVE CallOK(c)'
        BY <1>1, <3>1 DEF IInv, CallOK, Sound, ActualFee, WithinMaxFee
      <3> QED BY <3>2, <3>3 DEF IInv
    <2>2. ASSUME NEW c \in Calls, Start(c) \/ SendSigned(c) \/ Step(c) PROVE IInv'
      BY <1>1, <2>2, StartIInv, SendSignedIInv, ConnectIInv, PlanSpendIInv,
         VerifyIInv, SignIInv, CheckMaxFeeIInv, ResolveFeeIInv, BroadcastIInv,
         PollingIInv DEF Step
    <2>3. ASSUME NEW s \in Servers, Index(s) PROVE IInv'
      BY <1>1, <2>3, IndexIInv
    <2> QED BY <1>1, <2>1, <2>2, <2>3 DEF Next
  <1> QED BY InitIInv, <1>1, PTL DEF Spec

\* No plan, correction or retry ever makes a transaction with a negative
\* output, fee or size, or leaves a call outside its places.
THEOREM Shape == Spec => []ShapeOK
  <1>1. IInv => ShapeOK
    BY DEF IInv
  <1> QED BY <1>1, Invariance, PTL

\* No accepted transaction has a dust output, for any dust limit, rate, signer
\* weight, coins and provider.
THEOREM NeverDust == Spec => []NoDustOutputs
  <1>1. IInv => NoDustOutputs
    BY DEF IInv, ShapeOK, CallOK, Sound, NoDustOutputs
  <1> QED BY <1>1, Invariance, PTL

\* What an accepted transaction pays is at most a dust output above the fee the
\* caller was told.
THEOREM CostNearFee == Spec => []CostWithinDustOfFee
  <1>1. IInv => CostWithinDustOfFee
    BY DEF IInv, CallOK, Sound, CostWithinDustOfFee
  <1> QED BY <1>1, Invariance, PTL

\* What an accepted transaction pays is at most a dust output above
\* transactionMaxFee, whichever call it was made and sent by.
THEOREM CostNearMaxFee == Spec => []CostWithinDustOfMaxFee
  <1>1. ASSUME IInv PROVE CostWithinDustOfMaxFee
    <2> SUFFICES ASSUME MaxFee # NoMaxFee, NEW c \in accepted
                 PROVE  ActualFee(tx[c]) <= MaxFee + DustLimit
      BY DEF CostWithinDustOfMaxFee
    <2>1. tx[c] \in Transaction /\ tx[c].fee <= MaxFee
          /\ ActualFee(tx[c]) <= tx[c].fee + DustLimit
      BY <1>1 DEF IInv, ShapeOK, CallOK, Sound, WithinMaxFee
    <2>2. MaxFee \in Nat /\ tx[c].fee \in Nat /\ ActualFee(tx[c]) \in Int
      BY <2>1, SendTransactionAssumption DEF Transaction, ActualFee
    <2> QED BY <2>1, <2>2, ConstantTypes
  <1> QED BY <1>1, Invariance, PTL
=============================================================================
