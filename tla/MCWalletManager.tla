--------------------------- MODULE MCWalletManager ---------------------------
(***************************************************************************)
(* Instances of the wallet manager for TLC.                                *)
(***************************************************************************)
EXTENDS WalletManager, TLC

CONSTANTS c1, c2, root, seed2, p, seed2p

CallerSymmetry == Permutations(Callers)

MixedClients == <<"instance", "descriptor">>
OneDescriptor == <<"descriptor">>

\* seed2p is the string `seed2:p`; nobody passes the other composed strings.
Strings == [np \in Texts \X Texts |-> IF np = <<seed2, p>> THEN seed2p ELSE np]
=============================================================================
