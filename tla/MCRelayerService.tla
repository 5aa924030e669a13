-------------------------- MODULE MCRelayerService --------------------------
(***************************************************************************)
(* Instances of RelayerService for TLC.                                    *)
(***************************************************************************)
EXTENDS RelayerService, TLC

CONSTANTS c1, c2

\* Executions are alike.
CallSymmetry == Permutations(Calls \ Deploys)
=============================================================================
