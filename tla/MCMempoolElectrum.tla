-------------------------- MODULE MCMempoolElectrum --------------------------
(***************************************************************************)
(* Instances of the TCP and TLS transport for TLC.                         *)
(***************************************************************************)
EXTENDS MempoolElectrumClient, TLC

CONSTANTS c1, c2

CallerSymmetry == Permutations(Callers)
=============================================================================
