---------------------------- MODULE OrderSigning ----------------------------
(***************************************************************************)
(* signOne of pkg/clob/client.go: what makes an order request a signed     *)
(* order.  Only operators; ClobOrders uses them.  Amounts are fixed-point  *)
(* numbers: a price counts Ticks of one USDC, a size counts the Fine parts *)
(* of one base unit (10^-6 of a token), as a size may have more than six   *)
(* decimals.  The signed struct and the wire order are records of the same *)
(* fields, so that they can be compared; the fields that are constant in   *)
(* both (taker, nonce, signer, scopeId) are left out.  A signer that can   *)
(* only sign bytes signs a line of text instead, and the order is sent all *)
(* the same, without scopeId.                                              *)
(***************************************************************************)
EXTENDS Integers

CONSTANTS
  Tick,  \* price steps of one USDC
  Fine,  \* size steps of one base unit
  Wrap   \* 2^64, the width of the signed fee

ASSUME ScaleAssumption ==
  /\ Tick \in Nat \ {0}
  /\ Fine \in Nat \ {0}
  /\ Wrap \in Nat \ {0}

Eoa      == "eoa"  \* the signer's address
ZeroAddr == "0x0"
GnosisSafe == 2    \* SignatureTypePolyGnosisSafe

OrderReq == [side : {"BUY", "SELL", "?"}, price : Int, size : Int,
             tif : {"", "GTC", "GTD", "FOK", "FAK", "?"}, expiration : Nat,
             tokenID : [decimal : BOOLEAN, value : Nat], fee : Int,
             signatureType : 0..255, maker : {Eoa, ZeroAddr, "safe"}]

\* Fault, for a mutation check: rounds to the nearest unit
ToBaseUnitsRounded(x, scale) == (x + scale \div 2) \div scale

\* toBaseUnits: the part of a positive decimal below a base unit is cut off.
ToBaseUnits(x, scale) == x \div scale

\* computeAmounts: the maker gives USDC for tokens, or tokens for USDC.
ComputeAmounts(r) ==
  LET notional == ToBaseUnits(r.price * r.size, Tick * Fine)
      tokens   == ToBaseUnits(r.size, Fine)
  IN  IF r.side = "BUY" THEN [maker |-> notional, taker |-> tokens]
                        ELSE [maker |-> tokens, taker |-> notional]

\* The requests signOne turns down before it signs (all with ErrPrecondition).
Refused(r) ==
  \/ r.signatureType = GnosisSafe /\ r.maker = ZeroAddr
  \/ r.price <= 0 \/ r.size <= 0
  \/ r.side \notin {"BUY", "SELL"}
  \/ r.tif \notin {"", "GTC", "GTD", "FOK", "FAK"}

Maker(r) == IF r.maker = ZeroAddr THEN Eoa ELSE r.maker

\* mapSdkSideToOrderSide
OrderSide(side) == IF side = "SELL" THEN "SELL" ELSE "BUY"

\* mapSignatureTypeWire: a type without a value of its own becomes "0".
SignatureTypeWire(t) == IF t \in {1, GnosisSafe} THEN t ELSE 0

\* What the EIP-712 signature of an order signer covers: numbers as uint256, the fee through a
\* uint64, a token id that is no decimal number as 0.
SignedFields(r, salt) ==
  [salt |-> salt, maker |-> Maker(r),
   tokenID |-> [decimal |-> TRUE,
                value |-> IF r.tokenID.decimal THEN r.tokenID.value ELSE 0],
   amounts |-> ComputeAmounts(r), expiration |-> r.expiration,
   fee |-> r.fee % Wrap,
   side |-> OrderSide(r.side),
   signatureType |-> r.signatureType]

\* Fault: the wire order keeps the default salt
SentFieldsSaltZero(r, salt) ==
  [salt |-> 0, maker |-> Maker(r), tokenID |-> r.tokenID,
   amounts |-> ComputeAmounts(r), expiration |-> r.expiration, fee |-> r.fee,
   side |-> r.side, signatureType |-> SignatureTypeWire(r.signatureType)]

\* What the wire order says: the same fields as decimal strings.
SentFields(r, salt) ==
  [salt |-> salt, maker |-> Maker(r), tokenID |-> r.tokenID,
   amounts |-> ComputeAmounts(r), expiration |-> r.expiration, fee |-> r.fee,
   side |-> r.side, signatureType |-> SignatureTypeWire(r.signatureType)]

\* The line of text that any other signer signs, but for the market's and the
\* client's names.
SignedText(r) ==
  [tokenID |-> r.tokenID, side |-> r.side, price |-> r.price, size |-> r.size]

\* normalizeECDSAv: the recovery byte as the contracts expect it.
NormalizeV(v) == IF v < 27 THEN v + 27 ELSE v

\* The signature that is sent, v being the recovery byte the signer chose.  An
\* order signer has SignOrder and ScopeID.
Signature(r, salt, v, orderSigner) ==
  IF orderSigner
  THEN [form |-> "EIP-712", over |-> SignedFields(r, salt), v |-> NormalizeV(v)]
  ELSE [form |-> "text", over |-> SignedText(r), v |-> v]

\* The exchange recovers the signer only from an EIP-712 signature over what it
\* reads, with a recovery byte of 27 or 28.
Verifies(sig, sent) ==
  sig.form = "EIP-712" /\ sig.over = sent /\ sig.v \in {27, 28}

\* The requests that mean something to the exchange; signOne lets others pass.
WellFormed(r) ==
  /\ r.signatureType \in 0..2
  /\ r.fee \in 0..(Wrap - 1)
  /\ r.tokenID.decimal

\* The USDC n and the tokens t that are signed keep to the price, by less than
\* one unit of either: a buyer pays less than the price of t + 1 units, a seller
\* is not asked for tokens worth n + 1.  If the size is a whole number of units,
\* a buyer never pays more than the price of t.
WithinLimit(r) ==
  LET a == ComputeAmounts(r)
      n == IF r.side = "BUY" THEN a.maker ELSE a.taker
      t == IF r.side = "BUY" THEN a.taker ELSE a.maker
  IN  /\ n * Tick < r.price * (t + 1)
      /\ r.price * t < (n + 1) * Tick
      /\ r.size % Fine = 0 => n * Tick <= r.price * t
=============================================================================
