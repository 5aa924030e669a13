----------------------------- MODULE MCListings -----------------------------
(***************************************************************************)
(* An instance of Listings for TLC: pages of at most two elements, half a  *)
(* minute between trades, bounds that float32 moves either way.            *)
(***************************************************************************)
EXTENDS Listings

WindowsOf ==
  {[after |-> None, before |-> None],
   [after |-> Base + 150, before |-> None],
   [after |-> None, before |-> Base + 90],
   [after |-> Base + 40, before |-> Base + 200]}
=============================================================================
