------------------------------ MODULE MCWsBook ------------------------------
(***************************************************************************)
(* Instances of WsBook for TLC.                                            *)
(***************************************************************************)
EXTENDS WsBook, TLC

CONSTANTS t1, t2

\* Nothing tells the tokens apart.
TokenSymmetry == Permutations({t1, t2})
=============================================================================
