------------------------- MODULE OrderSigningProofs -------------------------
(***************************************************************************)
(* What the operators of OrderSigning compute, for any scale.              *)
(***************************************************************************)
EXTENDS OrderSigning, TLAPS

\* Quotient and remainder of natural numbers.
LEMMA DivLemma ==
  ASSUME NEW x \in Nat, NEW y \in Nat \ {0}
  PROVE  /\ x \div y \in Nat /\ x % y \in Nat /\ x % y < y
         /\ x = y * (x \div y) + (x % y)
<1>1. x % y \in Int
  OBVIOUS
<1>2. 0 <= x % y /\ x % y < y
  OBVIOUS
<1>3. x \div y \in Int
  OBVIOUS
<1>4. x = y * (x \div y) + (x % y)
  OBVIOUS
<1>5. 0 <= x \div y
  OBVIOUS
<1> QED
  BY <1>1, <1>2, <1>3, <1>4, <1>5

\* What is smaller than the divisor is its own remainder: a fee that fits into
\* 64 bits is signed as it is.
LEMMA ModSmall ==
  ASSUME NEW x \in Nat, NEW y \in Nat \ {0}, x < y
  PROVE  x % y = x
  OBVIOUS

\* A common positive factor can be cancelled from a comparison.
LEMMA CancelFactor ==
  ASSUME NEW x \in Int, NEW y \in Int, NEW f \in Nat \ {0}
  PROVE  /\ x * f <= y * f => x <= y
         /\ x * f < y * f => x < y
  OBVIOUS

\* Size and notional cut off at their units: each is less than a unit off the
\* price, and the notional is never above it if nothing of the size is cut off.
LEMMA NotionalLemma ==
  ASSUME NEW p \in Nat \ {0}, NEW s \in Nat
  PROVE  LET m == ToBaseUnits(p * s, Tick * Fine)
             t == ToBaseUnits(s, Fine)
         IN  /\ m \in Nat /\ t \in Nat
             /\ m * Tick < p * (t + 1)
             /\ p * t < (m + 1) * Tick
             /\ s % Fine = 0 => m * Tick <= p * t
<1> DEFINE m == (p * s) \div (Tick * Fine)
           r == (p * s) % (Tick * Fine)
           t == s \div Fine
           q == s % Fine
<1>1. Tick \in Nat \ {0} /\ Fine \in Nat \ {0}
  BY ScaleAssumption
<1>2. p * s \in Nat /\ Tick * Fine \in Nat \ {0}
  BY <1>1
<1>3. m \in Nat /\ r \in Nat /\ r < Tick * Fine /\ p * s = (Tick * Fine) * m + r
  BY <1>2, DivLemma
<1>4. t \in Nat /\ q \in Nat /\ q < Fine /\ s = Fine * t + q
  BY <1>1, DivLemma
<1> HIDE DEF m, r, t, q
<1> DEFINE a == (m * Tick) * Fine
           b == (p * t) * Fine
<1>5. /\ p * s = a + r /\ ((m + 1) * Tick) * Fine = a + Tick * Fine
      /\ a \in Nat /\ b \in Nat /\ p * q \in Nat /\ p * Fine \in Nat /\ Tick * Fine \in Nat
  BY <1>1, <1>3, <1>4
<1>6. p * s = b + p * q /\ (p * (t + 1)) * Fine = b + p * Fine
  <2>1. p * s = p * (Fine * t) + p * q
    BY <1>1, <1>4
  <2>2. p * (Fine * t) = b
    BY <1>1, <1>4
  <2> QED
    BY <1>1, <1>4, <2>1, <2>2
<1>7. p * q < p * Fine /\ (q = 0 => p * q = 0)
  BY <1>1, <1>4
<1>8. /\ m * Tick \in Nat /\ p * (t + 1) \in Nat /\ p * t \in Nat /\ (m + 1) * Tick \in Nat
  BY <1>1, <1>3, <1>4
<1>9. /\ a < (p * (t + 1)) * Fine
      /\ b < ((m + 1) * Tick) * Fine
      /\ q = 0 => a <= b
  <2> HIDE DEF a, b
  <2> QED
    BY <1>3, <1>5, <1>6, <1>7
<1>10. m * Tick < p * (t + 1) /\ p * t < (m + 1) * Tick /\ (q = 0 => m * Tick <= p * t)
  BY <1>1, <1>8, <1>9, CancelFactor
<1> QED
  BY <1>3, <1>4, <1>10 DEF m, t, q, ToBaseUnits

\* The signature an order signer makes of a request that signOne lets pass, and
\* that means something to the exchange, covers what the wire order says
\* (client.go:176-210, 221-238).
LEMMA RequestVerifies ==
  ASSUME NEW r \in OrderReq, ~Refused(r), WellFormed(r), NEW salt, NEW v \in {0, 1},
         NEW orderSigner, orderSigner
  PROVE  Verifies(Signature(r, salt, v, orderSigner), SentFields(r, salt))
<1>1. r.fee \in Nat /\ r.fee < Wrap /\ Wrap \in Nat \ {0}
  BY ScaleAssumption DEF WellFormed
<1>2. r.fee % Wrap = r.fee
  BY <1>1, ModSmall
<1>3. r.side \in {"BUY", "SELL"}
  BY DEF Refused
<1>4. r.signatureType \in {0, 1, 2}
  BY DEF WellFormed
<1>5. r.tokenID = [decimal |-> TRUE, value |-> r.tokenID.value]
  BY DEF OrderReq, WellFormed
<1>6. SignedFields(r, salt).tokenID = r.tokenID
  <2>1. (IF r.tokenID.decimal THEN r.tokenID.value ELSE 0) = r.tokenID.value
    BY DEF WellFormed
  <2> QED
    BY <1>5, <2>1 DEF SignedFields
<1>7. OrderSide(r.side) = r.side
  BY <1>3 DEF OrderSide
<1>8. SignatureTypeWire(r.signatureType) = r.signatureType
  BY <1>4 DEF SignatureTypeWire, GnosisSafe
<1>9. SignedFields(r, salt) = SentFields(r, salt)
  BY <1>2, <1>6, <1>7, <1>8 DEF SignedFields, SentFields
<1>10. NormalizeV(v) \in {27, 28}
  BY DEF NormalizeV
<1> QED
  BY <1>9, <1>10 DEF Verifies, Signature

\* Cutting off below the base unit keeps the price limit of a request
\* (client.go:456-481).
LEMMA RequestLimit ==
  ASSUME NEW r \in OrderReq, ~Refused(r)
  PROVE  WithinLimit(r)
<1> DEFINE m == ToBaseUnits(r.price * r.size, Tick * Fine)
           t == ToBaseUnits(r.size, Fine)
<1>1. r.price \in Nat \ {0} /\ r.size \in Nat /\ r.side \in {"BUY", "SELL"}
  <2>1. r.price \in Int /\ r.size \in Int
    BY DEF OrderReq
  <2>2. ~(r.price <= 0) /\ ~(r.size <= 0) /\ r.side \in {"BUY", "SELL"}
    BY DEF Refused
  <2> QED
    BY <2>1, <2>2
<1>2. /\ m * Tick < r.price * (t + 1)
      /\ r.price * t < (m + 1) * Tick
      /\ r.size % Fine = 0 => m * Tick <= r.price * t
  BY <1>1, NotionalLemma
<1>3. CASE r.side = "BUY"
  <2>1. ComputeAmounts(r) = [maker |-> m, taker |-> t]
    BY <1>3 DEF ComputeAmounts
  <2> HIDE DEF m, t
  <2> QED
    BY <1>2, <1>3, <2>1 DEF WithinLimit
<1>4. CASE r.side = "SELL"
  <2>1. ComputeAmounts(r) = [maker |-> t, taker |-> m]
    BY <1>4 DEF ComputeAmounts
  <2> HIDE DEF m, t
  <2> QED
    BY <1>2, <1>4, <2>1 DEF WithinLimit
<1> QED
  BY <1>1, <1>3, <1>4
=============================================================================
