-------------------------- MODULE MCSendTransaction --------------------------
(***************************************************************************)
(* Small accounts for TLC, with the real dust limits, fees and sizes.      *)
(***************************************************************************)
EXTENDS MaxSpendable, TLC

CONSTANTS c1, c2, a, b, d, e, s1, s2

CallServerSymmetry == Permutations(Calls) \cup Permutations(Servers)

Ask(amount, tenths, turns, signOnly) ==
    [amount |-> amount, tenths |-> tenths, polls |-> turns, signOnly |-> signOnly]

\* Segwit: at 1 sat/vB coin a pays 1000 with a change of exactly the dust
\* limit, which is folded into the fee; b leaves a fee below the minimum;
\* d leaves a change that can be spent again.
SegwitValue == (a :> 1435) @@ (b :> 1120) @@ (d :> 4000)

SegwitRequests ==
    {Ask(1000, 10, 1, FALSE), Ask(1000, 15, 0, FALSE), Ask(294, 10, 1, FALSE),
     Ask(2500, 4, 1, TRUE)}

\* Legacy, where a signature with an uncompressed key weighs 32 vB more than
\* estimated.  Coin a then leaves a change the correction drops, b and d no
\* change, so that the recipient pays: b can afford it, d becomes dust.
LegacyValue == (a :> 1800) @@ (b :> 1210) @@ (d :> 745)

LegacyRequests ==
    {Ask(1000, 10, 0, FALSE), Ask(551, 10, 0, FALSE), Ask(1400, 10, 0, TRUE)}

\* One more, at a rate whose fee is far above the limit, and which rounds down.
RebalanceRequests == LegacyRequests \cup {Ask(1000, 34, 0, FALSE)}

\* The same coins, with one that is reported with more than it has.
RebalanceValue == LegacyValue @@ (e :> 800)

RebalanceReported == LegacyValue @@ (e :> 1810)

\* Segwit, one coin short of the minimum fee and one that covers everything.
SpareValue == (b :> 1120) @@ (d :> 4000)

SpareRequests == {Ask(1000, 10, 0, FALSE)}
=============================================================================
