------------------------------ MODULE MCWsUser ------------------------------
(***************************************************************************)
(* Instances of WsUser for TLC: every call passes the same user id, so     *)
(* that all of them meet on one stream and its successors.                 *)
(***************************************************************************)
EXTENDS WsUser, TLC

CONSTANTS s1, s2, s3, u1

OneUser == [s \in Subs |-> u1]

\* Order subscribers are alike.
OrderSymmetry == Permutations(OrderSubs)
=============================================================================
