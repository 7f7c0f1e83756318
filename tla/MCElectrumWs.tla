----------------------------- MODULE MCElectrumWs -----------------------------
(***************************************************************************)
(* Instances of the WebSocket transport for TLC.                           *)
(***************************************************************************)
EXTENDS ElectrumWs, TLC

CONSTANTS c1, c2

CallerSymmetry == Permutations(Callers)
=============================================================================
