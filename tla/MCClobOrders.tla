---------------------------- MODULE MCClobOrders ----------------------------
(***************************************************************************)
(* An instance of ClobOrders for TLC: c1 makes any of the six calls with   *)
(* up to two ids and three requests; c2, at the same time or after it,     *)
(* cancels an old order or the first one that c1 placed, or places two     *)
(* orders of its own with a signer that signs text.                        *)
(***************************************************************************)
EXTENDS ClobOrders, TLC

CONSTANTS c1, c2, o1, o2

Call(op, ids, n) == [op |-> op, ids |-> ids, n |-> n]

IdLists == {<<>>, <<NoId, o1>>, <<o1, o2>>}

AnyCall ==
  {Call("PlaceOrder", <<>>, 1), Call("CancelByTokenID", <<>>, 0)}
  \cup {Call("CancelOrder", <<id>>, 0) : id \in {o1, NoId}}
  \cup {Call("PlaceOrders", <<>>, n) : n \in {0, 3}}
  \cup {Call("CancelOrders", ids, 0) : ids \in IdLists}
  \cup {Call("ReplaceOrders", <<NoId, o1>>, 2), Call("ReplaceOrders", <<o1, o2>>, 1)}

SmallCall ==
  {Call("PlaceOrders", <<>>, 2), Call("CancelOrders", <<<<c1, 1>>>>, 0),
   Call("ReplaceOrders", <<o1>>, 0)}

ArgumentsOf == [c \in Calls |-> IF c = c1 THEN AnyCall ELSE SmallCall]

\* Ten price steps of a USDC, four parts of a base unit.
Req(side, price, size, expiration, fee, type, maker) ==
  [side |-> side, price |-> price, size |-> size, tif |-> "",
   expiration |-> expiration, tokenID |-> [decimal |-> TRUE, value |-> 7],
   fee |-> fee, signatureType |-> type, maker |-> maker]

\* A sale through a Safe whose notional is no whole unit, a purchase of more
\* than six decimals and a plain one.  c2, whose signer signs text: a purchase
\* through a Safe without Maker, which is refused, and a sale of more than six
\* decimals.
RequestsOf ==
  [c \in Calls |->
    IF c = c1
    THEN <<Req("SELL", 3, 36, 0, 5, 2, "safe"), Req("BUY", 6, 15, 9, 0, 0, ZeroAddr),
           Req("BUY", 7, 8, 0, 0, 0, Eoa)>>
    ELSE [i \in 1..MaxOrders |-> IF i = 1 THEN Req("BUY", 7, 8, 0, 0, 2, ZeroAddr)
                                         ELSE Req("SELL", 7, 10, 0, 0, 0, Eoa)]]
=============================================================================
