--------------------------- MODULE ListingsProofs ---------------------------
(***************************************************************************)
(* Proofs about Listings, for any number of elements, any limits and pages *)
(* of any length: what a walk page by page misses and repeats is no more   *)
(* than the listing's changes explain.                                     *)
(***************************************************************************)
EXTENDS Listings, FiniteSetTheorems, SequenceTheorems, TLAPS

\* The elements that stand before the offset of the next page.
Front == {i \in live : Cardinality(Ahead(live, i, walk.ascending)) < cursor}

\* How many elements were returned again.
Again == Len(got) - Cardinality(Returned)

\* Elements that are added first push others behind the offset.
Allowed == IF walk.ascending THEN 0 ELSE added

\* By offset: what stands before the offset has been returned, but for as many
\* elements as moved there when others were removed; and what has been returned
\* stands before it, but for as many as were pushed back by others.
EventsInv ==
  walk.kind = "events" =>
    /\ cursor # None =>
         /\ Cardinality((start \cap Front) \ Returned) <= removed
         /\ Again + Cardinality((Returned \cap live) \ Front) <= Allowed
    /\ cursor = None =>
         /\ walk.limit \in 1..Cap => Cardinality((start \cap live) \ Returned) <= removed
         /\ Again <= Allowed

\* By the orders' cursor: everything up to it has been returned, once.
OrdersInv ==
  walk.kind = "orders" =>
    /\ Again = 0
    /\ cursor # None => /\ Returned \subseteq 1..cursor
                        /\ \A i \in start \cap live : i <= cursor => i \in Returned
    /\ cursor = None => start \cap live \subseteq Returned

\* By the last trade's id: all of the window up to it has been returned, in order.
TradesInv ==
  walk.kind = "trades" =>
    /\ cursor \in 0..last
    /\ Returned \subseteq 1..cursor
    /\ \A k \in 2..Len(got) : got[k - 1] < got[k]
    /\ \A i \in Returned : Within(i, SentWindow(walk.window))
    /\ \A i \in live : i <= cursor /\ i \notin Returned
         => ~Within(i, SentWindow(walk.window))

Counted == last = Initial + added

IInv == TypeOK /\ Counted /\ EventsInv /\ OrdersInv /\ TradesInv

-----------------------------------------------------------------------------
(* Places in a listing and pages of it                                     *)

\* i comes before j.
Precedes(i, j, up) == IF up THEN i < j ELSE i > j

\* Fewer than all elements stand before one of them.
LEMMA AheadCount ==
  ASSUME NEW S, S \subseteq Nat, IsFiniteSet(S), NEW up, NEW i \in S
  PROVE  /\ IsFiniteSet(Ahead(S, i, up))
         /\ Cardinality(Ahead(S, i, up)) \in Nat
         /\ Cardinality(S) \in Nat
         /\ Cardinality(Ahead(S, i, up)) < Cardinality(S)
<1>1. IsFiniteSet(S \ {i}) /\ Cardinality(S \ {i}) = Cardinality(S) - 1
  BY FS_RemoveElement
<1>2. Ahead(S, i, up) \in SUBSET (S \ {i})
  BY DEF Ahead
<1>3. /\ IsFiniteSet(Ahead(S, i, up))
      /\ Cardinality(Ahead(S, i, up)) <= Cardinality(S \ {i})
  BY <1>1, <1>2, FS_Subset
<1>4. Cardinality(Ahead(S, i, up)) \in Nat /\ Cardinality(S) \in Nat
  BY <1>3, FS_CardinalityType
<1> QED
  BY <1>1, <1>3, <1>4

\* More elements stand before a later one.
LEMMA AheadGrows ==
  ASSUME NEW S, S \subseteq Nat, IsFiniteSet(S), NEW up,
         NEW i \in S, NEW j \in S, Precedes(i, j, up)
  PROVE  Cardinality(Ahead(S, i, up)) < Cardinality(Ahead(S, j, up))
<1> DEFINE A == Ahead(S, i, up)
           B == Ahead(S, j, up)
<1>1. A \in SUBSET B /\ A # B
  <2>1. i \in B /\ i \notin A
    BY DEF Ahead, Precedes
  <2>2. ASSUME NEW x \in A
        PROVE  x \in B
    BY <2>2 DEF Ahead, Precedes
  <2> QED
    BY <2>1, <2>2
<1>2. IsFiniteSet(B) /\ Cardinality(A) \in Nat /\ Cardinality(B) \in Nat
  <2>1. Cardinality(A) \in Nat
    BY AheadCount
  <2>2. IsFiniteSet(B) /\ Cardinality(B) \in Nat
    BY AheadCount
  <2> QED
    BY <2>1, <2>2
<1> HIDE DEF A, B
<1>3. Cardinality(A) <= Cardinality(B) /\ (Cardinality(B) = Cardinality(A) => B = A)
  BY <1>1, <1>2, FS_Subset
<1>4. Cardinality(A) < Cardinality(B)
  BY <1>1, <1>2, <1>3
<1> QED
  BY <1>4 DEF A, B

\* Different elements stand at different places.
LEMMA AheadDiffers ==
  ASSUME NEW S, S \subseteq Nat, IsFiniteSet(S), NEW up,
         NEW i \in S, NEW j \in S,
         Cardinality(Ahead(S, i, up)) = Cardinality(Ahead(S, j, up))
  PROVE  i = j
<1>1. Cardinality(Ahead(S, i, up)) \in Nat
  BY AheadCount
<1>2. ASSUME Precedes(i, j, up)
      PROVE  FALSE
  <2>1. Cardinality(Ahead(S, i, up)) < Cardinality(Ahead(S, j, up))
    BY <1>2, AheadGrows
  <2> QED
    BY <1>1, <2>1
<1>4. ASSUME Precedes(j, i, up)
      PROVE  FALSE
  <2>1. Cardinality(Ahead(S, j, up)) < Cardinality(Ahead(S, i, up))
    BY <1>4, AheadGrows
  <2> QED
    BY <1>1, <2>1
<1>3. i \in Nat /\ j \in Nat
  OBVIOUS
<1> QED
  BY <1>2, <1>3, <1>4 DEF Precedes

\* Every place is taken.
LEMMA AheadExists ==
  ASSUME NEW S, S \subseteq Nat, IsFiniteSet(S), NEW up,
         NEW k \in 0..(Cardinality(S) - 1)
  PROVE  \E i \in S : Cardinality(Ahead(S, i, up)) = k
<1> DEFINE n == Cardinality(S)
           f == [i \in S |-> Cardinality(Ahead(S, i, up)) + 1]
<1>1. n \in Nat
  BY FS_CardinalityType
<1>2. \A i \in S : /\ Cardinality(Ahead(S, i, up)) \in Nat
                   /\ Cardinality(Ahead(S, i, up)) < n
  BY AheadCount
<1>3. f \in Injection(S, 1..n)
  <2>1. f \in [S -> 1..n]
    BY <1>1, <1>2
  <2>2. ASSUME NEW i \in S, NEW j \in S, f[i] = f[j]
        PROVE  i = j
    <3>1. Cardinality(Ahead(S, i, up)) = Cardinality(Ahead(S, j, up))
      BY <1>1, <1>2, <2>2
    <3> QED
      BY <3>1, AheadDiffers
  <2> QED
    BY <2>1, <2>2 DEF Injection, IsInjective
<1>4. IsFiniteSet(1..n) /\ Cardinality(1..n) = n
  BY <1>1, FS_Interval
<1>5. f \in Surjection(S, 1..n)
  BY <1>3, <1>4, FS_Injection
<1> HIDE DEF f, n
<1>6. PICK i \in S : f[i] = k + 1
  <2>1. k + 1 \in 1..n
    BY <1>1 DEF n
  <2> QED
    BY <2>1, <1>5 DEF Surjection
<1>7. Cardinality(Ahead(S, i, up)) = k
  BY <1>1, <1>2, <1>6 DEF f, n
<1> QED
  BY <1>7

\* p is in order the elements of S after the first k, n of them or all.
IsPage(p, S, up, k, n) ==
  /\ p \in Seq(S)
  /\ Len(p) \in Nat
  /\ Len(p) <= n
  /\ \A m \in 1..Len(p) : Cardinality(Ahead(S, p[m], up)) = k + m - 1
  /\ Len(p) < n \/ Len(p) >= Cardinality(S) => Cardinality(S) <= k + Len(p)

\* What a page has: the elements at the places after the first k, in order.
LEMMA PageLemma ==
  ASSUME NEW S, S \subseteq Nat, IsFiniteSet(S), NEW up, NEW k \in Nat, NEW n \in Nat
  PROVE  IsPage(Page(S, up, k, n), S, up, k, n)
<1> DEFINE p    == Page(S, up, k, n)
           c    == Cardinality(S)
           left == IF k < c THEN c - k ELSE 0
           len  == IF n < left THEN n ELSE left
<1>1. c \in Nat
  BY FS_CardinalityType
<1>2. left \in Nat /\ len \in Nat /\ len <= n /\ len <= left
  BY <1>1
<1>3. p = [m \in 1..len |->
             CHOOSE i \in S : Cardinality(Ahead(S, i, up)) = k + m - 1]
  BY DEF Page
<1>4. ASSUME NEW m \in 1..len
      PROVE  p[m] \in S /\ Cardinality(Ahead(S, p[m], up)) = k + m - 1
  <2>1. k + m - 1 \in 0..(c - 1)
    BY <1>1, <1>2
  <2>2. \E i \in S : Cardinality(Ahead(S, i, up)) = k + m - 1
    BY <2>1, AheadExists
  <2>3. p[m] = CHOOSE i \in S : Cardinality(Ahead(S, i, up)) = k + m - 1
    BY <1>3
  <2> QED
    BY <2>2, <2>3
<1>5. p \in [1..len -> S]
  BY <1>3, <1>4
<1>6. p \in Seq(S) /\ Len(p) = len
  BY <1>2, <1>5
<1>7. len < n \/ len >= c => c <= k + len
  BY <1>1
<1> QED
  BY <1>2, <1>4, <1>6, <1>7 DEF IsPage

\* Whatever stands at one of its places is in the page.
LEMMA PageHolds ==
  ASSUME NEW S, S \subseteq Nat, IsFiniteSet(S), NEW up, NEW k \in Nat, NEW n \in Nat,
         NEW p, IsPage(p, S, up, k, n),
         NEW i \in S, k <= Cardinality(Ahead(S, i, up)),
         Cardinality(Ahead(S, i, up)) < k + Len(p)
  PROVE  i \in Range(p)
<1> DEFINE m == Cardinality(Ahead(S, i, up)) - k + 1
<1>1. /\ p \in Seq(S) /\ Len(p) \in Nat
      /\ \A j \in 1..Len(p) : Cardinality(Ahead(S, p[j], up)) = k + j - 1
  BY DEF IsPage
<1>2. Cardinality(Ahead(S, i, up)) \in Nat
  BY AheadCount
<1>3. m \in 1..Len(p)
  BY <1>1, <1>2
<1>4. p[m] \in S /\ Cardinality(Ahead(S, p[m], up)) = Cardinality(Ahead(S, i, up))
  BY <1>1, <1>2, <1>3
<1>5. p[m] = i
  BY <1>4, AheadDiffers
<1> QED
  BY <1>1, <1>3, <1>5 DEF Range

LEMMA IntervalCount ==
  ASSUME NEW n \in Nat
  PROVE  IsFiniteSet(1..n) /\ Cardinality(1..n) = n
  BY FS_Interval

\* A page is in order and has no element twice.
LEMMA PageInOrder ==
  ASSUME NEW S, S \subseteq Nat, IsFiniteSet(S), NEW up, NEW k \in Nat, NEW n \in Nat,
         NEW p, IsPage(p, S, up, k, n)
  PROVE  /\ \A a, b \in 1..Len(p) : a < b => Precedes(p[a], p[b], up)
         /\ Range(p) \subseteq S
         /\ IsFiniteSet(Range(p)) /\ Cardinality(Range(p)) = Len(p)
<1>1. /\ p \in Seq(S) /\ Len(p) \in Nat
      /\ \A m \in 1..Len(p) : Cardinality(Ahead(S, p[m], up)) = k + m - 1
  BY DEF IsPage
<1>2. p \in [1..Len(p) -> S]
  BY <1>1
<1>3. Range(p) \subseteq S
  BY <1>2 DEF Range
<1>4. ASSUME NEW a \in 1..Len(p), NEW b \in 1..Len(p), a < b
      PROVE  Precedes(p[a], p[b], up)
  <2>1. p[a] \in S /\ p[b] \in S /\ p[a] \in Nat /\ p[b] \in Nat
    BY <1>2
  <2>2. Cardinality(Ahead(S, p[a], up)) < Cardinality(Ahead(S, p[b], up))
    BY <1>1, <1>4
  <2>3. p[a] # p[b]
    BY <2>2, <1>1, <1>4
  <2>4. ASSUME Precedes(p[b], p[a], up)
        PROVE  FALSE
    <3>1. Cardinality(Ahead(S, p[b], up)) < Cardinality(Ahead(S, p[a], up))
      BY <2>1, <2>4, AheadGrows
    <3>2. k + b - 1 < k + a - 1
      BY <1>1, <3>1
    <3> QED
      BY <3>2, <1>4
  <2> QED
    BY <2>1, <2>3, <2>4 DEF Precedes
<1>5. \A a, b \in 1..Len(p) : p[a] = p[b] => a = b
  <2> SUFFICES ASSUME NEW a \in 1..Len(p), NEW b \in 1..Len(p), p[a] = p[b]
               PROVE  a = b
    OBVIOUS
  <2>1. k + a - 1 = k + b - 1
    BY <1>1
  <2> QED
    BY <2>1
<1>6. p \in Surjection(1..Len(p), Range(p)) /\ p \in Injection(1..Len(p), Range(p))
  BY <1>2, <1>5 DEF Range, Surjection, Injection, IsInjective
<1>7. IsFiniteSet(1..Len(p)) /\ Cardinality(1..Len(p)) = Len(p)
  BY <1>1, IntervalCount
<1>8. IsFiniteSet(Range(p)) /\ Cardinality(Range(p)) = Cardinality(1..Len(p))
  BY <1>6, <1>7, FS_Surjection
<1> QED
  BY <1>3, <1>4, <1>7, <1>8

\* A page upwards from the beginning has all elements up to its last one.
LEMMA PageEnd ==
  ASSUME NEW S, S \subseteq Nat, IsFiniteSet(S), NEW n \in Nat,
         NEW p, IsPage(p, S, TRUE, 0, n), Len(p) >= 1
  PROVE  /\ p[Len(p)] \in S
         /\ \A x \in Range(p) : x <= p[Len(p)]
         /\ \A i \in S : i <= p[Len(p)] => i \in Range(p)
<1> DEFINE e == p[Len(p)]
<1>1. /\ p \in Seq(S) /\ Len(p) \in Nat
      /\ \A m \in 1..Len(p) : Cardinality(Ahead(S, p[m], TRUE)) = 0 + m - 1
  BY DEF IsPage
<1>2. p \in [1..Len(p) -> S] /\ Len(p) \in 1..Len(p)
  BY <1>1
<1>3. e \in S /\ e \in Nat /\ Cardinality(Ahead(S, e, TRUE)) = Len(p) - 1
  <2>1. Cardinality(Ahead(S, e, TRUE)) = 0 + Len(p) - 1
    BY <1>1, <1>2
  <2>2. 0 + Len(p) - 1 = Len(p) - 1
    BY <1>1
  <2> QED
    BY <1>2, <2>1, <2>2
<1> HIDE DEF e
<1>4. ASSUME NEW x \in Range(p)
      PROVE  x <= e
  <2> USE DEF e
  <2>1. PICK m \in 1..Len(p) : x = p[m]
    BY <1>2 DEF Range
  <2>2. CASE m = Len(p)
    BY <2>1, <2>2, <1>3
  <2>3. CASE m < Len(p)
    <3>1. Precedes(p[m], e, TRUE)
      BY <1>2, <2>3, PageInOrder
    <3>2. p[m] \in Nat
      BY <1>2
    <3> QED
      BY <2>1, <3>1, <3>2, <1>3 DEF Precedes
  <2> QED
    BY <1>1, <2>2, <2>3
<1>5. ASSUME NEW i \in S, i <= e
      PROVE  i \in Range(p)
  <2>1. CASE i = e
    BY <2>1, <1>2 DEF Range, e
  <2>2. CASE i # e
    <3>1. Precedes(i, e, TRUE)
      BY <1>3, <1>5, <2>2 DEF Precedes
    <3>2. Cardinality(Ahead(S, i, TRUE)) < Cardinality(Ahead(S, e, TRUE))
      BY <1>3, <3>1, AheadGrows
    <3>3. Cardinality(Ahead(S, i, TRUE)) \in Nat
      BY AheadCount
    <3> DEFINE r == Cardinality(Ahead(S, i, TRUE))
    <3>5. r < Len(p) - 1 /\ r \in Nat
      BY <1>3, <3>2, <3>3
    <3>6. Len(p) \in Nat
      BY <1>1
    <3> HIDE DEF r
    <3>4. 0 <= r /\ r < 0 + Len(p)
      BY <3>5, <3>6
    <3> QED
      BY <3>4, PageHolds DEF r
  <2> QED
    BY <2>1, <2>2
<1> QED
  BY <1>3, <1>4, <1>5 DEF e

-----------------------------------------------------------------------------
(* Counting                                                                *)

LEMMA SubsetCount ==
  ASSUME NEW B, IsFiniteSet(B), NEW A, A \subseteq B
  PROVE  /\ IsFiniteSet(A)
         /\ Cardinality(A) \in Nat /\ Cardinality(B) \in Nat
         /\ Cardinality(A) <= Cardinality(B)
<1>1. IsFiniteSet(A) /\ Cardinality(A) <= Cardinality(B)
  BY FS_Subset
<1> QED
  BY <1>1, FS_CardinalityType

\* Elements that are all one and the same count for one at most.
LEMMA OneMore ==
  ASSUME NEW B, IsFiniteSet(B), NEW C, \A x, y \in C : x = y,
         NEW A, A \subseteq B \cup C
  PROVE  /\ Cardinality(A) \in Nat /\ Cardinality(B) \in Nat
         /\ Cardinality(A) <= Cardinality(B) + 1
<1>1. Cardinality(B) \in Nat
  BY FS_CardinalityType
<1>2. CASE C = {}
  <2>1. A \subseteq B
    BY <1>2
  <2> QED
    BY <1>1, <2>1, SubsetCount
<1>3. CASE C # {}
  <2>1. PICK c \in C : TRUE
    BY <1>3
  <2>2. A \subseteq B \cup {c}
    BY <2>1
  <2>3. /\ IsFiniteSet(B \cup {c})
        /\ Cardinality(B \cup {c}) = IF c \in B THEN Cardinality(B) ELSE Cardinality(B) + 1
    BY FS_AddElement
  <2>4. Cardinality(A) \in Nat /\ Cardinality(A) <= Cardinality(B \cup {c})
    BY <2>2, <2>3, SubsetCount
  <2> QED
    BY <1>1, <2>3, <2>4
<1> QED
  BY <1>2, <1>3

LEMMA DisjointCount ==
  ASSUME NEW C, IsFiniteSet(C), NEW A, NEW B, A \cup B \subseteq C, A \cap B = {}
  PROVE  /\ Cardinality(A) \in Nat /\ Cardinality(B) \in Nat /\ Cardinality(C) \in Nat
         /\ Cardinality(A) + Cardinality(B) <= Cardinality(C)
<1>1. A \subseteq C /\ B \subseteq C
  OBVIOUS
<1>2. /\ IsFiniteSet(A) /\ IsFiniteSet(B)
      /\ Cardinality(A) \in Nat /\ Cardinality(B) \in Nat /\ Cardinality(C) \in Nat
  BY <1>1, SubsetCount
<1>3. Cardinality(A \cap B) = 0
  BY FS_EmptySet
<1>4. Cardinality(A \cup B) = Cardinality(A) + Cardinality(B) - Cardinality(A \cap B)
  BY <1>2, FS_Union
<1>5. Cardinality(A \cup B) <= Cardinality(C)
  BY SubsetCount
<1> QED
  BY <1>2, <1>3, <1>4, <1>5

\* What a sequence repeats after a page is appended to it.
LEMMA Concatenated ==
  ASSUME NEW T, NEW s \in Seq(T), NEW p \in Seq(T),
         IsFiniteSet(Range(s)), IsFiniteSet(Range(p)), Cardinality(Range(p)) = Len(p)
  PROVE  /\ Range(s \o p) = Range(s) \cup Range(p)
         /\ Len(s \o p) - Cardinality(Range(s \o p)) =
              Len(s) - Cardinality(Range(s)) + Cardinality(Range(s) \cap Range(p))
<1>1. Range(s \o p) = Range(s) \cup Range(p)
  BY RangeConcatenation
<1>2. Cardinality(Range(s \o p)) =
        Cardinality(Range(s)) + Cardinality(Range(p)) - Cardinality(Range(s) \cap Range(p))
  BY <1>1, FS_Union
<1>3. /\ Cardinality(Range(s)) \in Nat /\ Cardinality(Range(p)) \in Nat
      /\ Cardinality(Range(s) \cap Range(p)) \in Nat
  BY FS_CardinalityType, SubsetCount
<1>4. Len(s \o p) = Len(s) + Len(p) /\ Len(s) \in Nat /\ Len(p) \in Nat
  OBVIOUS
<1> QED
  BY <1>1, <1>2, <1>3, <1>4

-----------------------------------------------------------------------------
(* The invariant                                                           *)

\* All sets of elements are finite sets of numbers.
LEMMA Small ==
  ASSUME TypeOK, NEW A, A \subseteq 1..last
  PROVE  A \subseteq Nat /\ IsFiniteSet(A) /\ Cardinality(A) \in Nat
<1>1. last \in Nat
  BY ListingsAssumption DEF TypeOK
<1>2. A \subseteq Nat /\ IsFiniteSet(1..last)
  BY <1>1, IntervalCount
<1> QED
  BY <1>2, SubsetCount

LEMMA ReturnedRange == Returned = Range(got)
  BY DEF Returned, Range

LEMMA Types ==
  ASSUME TypeOK
  PROVE  /\ live \subseteq Nat /\ IsFiniteSet(live)
         /\ Returned \subseteq 1..last
         /\ IsFiniteSet(Returned) /\ Cardinality(Returned) \in Nat
         /\ Len(got) \in Nat /\ Again \in Int
         /\ None \notin Int /\ last \in Nat /\ Cap \in Nat \ {0}
<1>1. Returned \subseteq 1..last /\ Len(got) \in Nat
  BY DEF TypeOK, Returned
<1>2. IsFiniteSet(Returned) /\ Cardinality(Returned) \in Nat
  BY <1>1, Small
<1>3. live \subseteq Nat /\ IsFiniteSet(live)
  BY Small DEF TypeOK
<1>4. None \notin Int /\ last \in Nat /\ Cap \in Nat \ {0}
  BY ListingsAssumption DEF TypeOK
<1> QED
  BY <1>1, <1>2, <1>3, <1>4 DEF Again

LEMMA InitInv == Init => IInv
<1> SUFFICES ASSUME Init
             PROVE  IInv
  OBVIOUS
<1>1. TypeOK
  BY ListingsAssumption DEF Init, TypeOK
<1>2. Returned = {} /\ Len(got) = 0
  BY DEF Init, Returned
<1>3. Cardinality(Returned) = 0 /\ Again = 0
  BY <1>2, FS_EmptySet DEF Again
<1>4. Front = {}
  <2> SUFFICES ASSUME NEW i \in live, Cardinality(Ahead(live, i, walk.ascending)) < 0
               PROVE  FALSE
    BY DEF Init, Front
  <2>1. Cardinality(Ahead(live, i, walk.ascending)) \in Nat
    BY <1>1, Types, AheadCount
  <2> QED
    BY <2>1
<1>5. Cardinality((start \cap Front) \ Returned) = 0
      /\ Cardinality((Returned \cap live) \ Front) = 0
  BY <1>2, <1>4, FS_EmptySet
<1>6. EventsInv
  BY <1>1, <1>3, <1>5, Types DEF Init, EventsInv, Allowed
<1>7. OrdersInv
  BY <1>1, <1>2, <1>3, Types DEF Init, OrdersInv
<1>8. TradesInv
  BY <1>1, <1>2, Types DEF Init, TradesInv
<1>9. Counted
  BY ListingsAssumption DEF Init, Counted
<1> QED
  BY <1>1, <1>6, <1>7, <1>8, <1>9 DEF IInv

\* Reading a page keeps the types.
LEMMA ReadTypes ==
  ASSUME TypeOK, NEW p \in Seq(live), got' = got \o p, cursor' \in Nat \cup {None},
         UNCHANGED <<walk, start, listVars>>
  PROVE  TypeOK'
<1>1. p \in Seq(1..last)
  BY SeqMonotonic DEF TypeOK
<1>2. got' \in Seq(1..last)
  BY <1>1, ConcatProperties DEF TypeOK
<1> QED
  BY <1>2 DEF TypeOK, listVars, Walk

\* ... and what is returned again is what the page has of what was returned.
LEMMA ReadCounts ==
  ASSUME TypeOK, NEW S, S \subseteq live, NEW up, NEW k \in Nat, NEW n \in Nat,
         NEW p, IsPage(p, S, up, k, n), got' = got \o p
  PROVE  /\ p \in Seq(live)
         /\ Range(p) \subseteq S
         /\ Returned' = Returned \cup Range(p)
         /\ Again' = Again + Cardinality(Returned \cap Range(p))
         /\ Cardinality(Returned \cap Range(p)) \in Nat
<1>1. S \subseteq Nat /\ IsFiniteSet(S)
  BY Small DEF TypeOK
<1>2. /\ Range(p) \subseteq S
      /\ IsFiniteSet(Range(p)) /\ Cardinality(Range(p)) = Len(p)
  BY <1>1, PageInOrder
<1>3. p \in Seq(live)
  BY SeqMonotonic DEF IsPage
<1>4. p \in Seq(1..last) /\ got \in Seq(1..last)
  BY <1>3, SeqMonotonic DEF TypeOK
<1>5. IsFiniteSet(Range(got))
  BY Types, ReturnedRange
<1>6. /\ Range(got \o p) = Range(got) \cup Range(p)
      /\ Len(got \o p) - Cardinality(Range(got \o p)) =
           Len(got) - Cardinality(Range(got)) + Cardinality(Range(got) \cap Range(p))
  <2> DEFINE T == 1..last
  <2>1. p \in Seq(T) /\ got \in Seq(T)
    BY <1>4
  <2> HIDE DEF T
  <2> QED
    <3>1. Range(got \o p) = Range(got) \cup Range(p)
      BY <2>1, RangeConcatenation
    <3>2. IsFiniteSet(Range(p))
      BY <1>2
    <3>3. Cardinality(Range(p)) = Len(p)
      BY <1>2
    <3>4. Len(got \o p) - Cardinality(Range(got \o p)) =
           Len(got) - Cardinality(Range(got)) + Cardinality(Range(got) \cap Range(p))
      BY <3>2, <3>3, <1>5, <2>1, Concatenated
    <3> QED
      BY <3>1, <3>4
<1>7. Returned' = Range(got \o p)
  BY DEF Returned, Range
<1>8. Again' = Len(got \o p) - Cardinality(Range(got \o p))
  BY <1>7 DEF Again
<1>9. Cardinality(Returned \cap Range(p)) \in Nat
  BY Types, SubsetCount
<1>10. Returned' = Returned \cup Range(p)
  BY <1>6, <1>7, ReturnedRange
<1>11. Again' = Again + Cardinality(Returned \cap Range(p))
  BY <1>6, <1>8, ReturnedRange DEF Again
<1> QED
  BY <1>2, <1>3, <1>9, <1>10, <1>11

-----------------------------------------------------------------------------
(* A walk by offset                                                        *)

\* What stands before the offset is before the page or in it.
LEMMA ReadEventsStep ==
  ASSUME IInv, ReadEvents
  PROVE  TypeOK' /\ EventsInv'
<1> DEFINE up   == walk.ascending
           n    == PageSize(walk.limit)
           page == Page(live, up, cursor, n)
           R    == Returned
           P    == Range(page)
           left == (start \cap Front) \ R
           back == (R \cap live) \ Front
<1>1. /\ walk.kind = "events" /\ cursor # None
      /\ got' = got \o page
      /\ cursor' = NextOffset(cursor, walk.limit, Len(page))
      /\ UNCHANGED <<walk, start, listVars>>
  BY DEF ReadEvents, EventPage
<1>2. /\ TypeOK /\ cursor \in Nat
      /\ Cardinality(left) <= removed
      /\ Again + Cardinality(back) <= Allowed
  BY <1>1 DEF IInv, TypeOK, EventsInv
<1>3. walk.limit \in Nat /\ n \in Nat
  <2>1. walk.limit \in Nat
    BY <1>2, ListingsAssumption DEF TypeOK, Walk
  <2> QED
    BY <2>1, ListingsAssumption DEF PageSize
<1>4. live \subseteq Nat /\ IsFiniteSet(live) /\ Again \in Int /\ IsFiniteSet(R)
  BY <1>2, Types
<1>5. IsPage(page, live, up, cursor, n)
  BY <1>2, <1>3, <1>4, PageLemma
<1> HIDE DEF n, page
<1>6. /\ page \in Seq(live)
      /\ P \subseteq live
      /\ Returned' = R \cup P
      /\ Again' = Again + Cardinality(R \cap P)
      /\ Cardinality(R \cap P) \in Nat
  BY <1>1, <1>2, <1>3, <1>5, ReadCounts
<1>7. /\ page \in [1..Len(page) -> live] /\ Len(page) \in Nat /\ Len(page) <= n
      /\ \A m \in 1..Len(page) : Cardinality(Ahead(live, page[m], up)) = cursor + m - 1
  BY <1>5 DEF IsPage
<1>8. \A i \in live : Cardinality(Ahead(live, i, up)) \in Nat
  BY <1>4, AheadCount
<1>9. cursor' \in Nat \cup {None}
  BY <1>1, <1>2, <1>3 DEF NextOffset
<1>10. TypeOK'
  BY <1>1, <1>2, <1>6, <1>9, ReadTypes
\* A place in the page is not before it.
<1>11. ASSUME NEW i \in P
       PROVE  /\ i \in live /\ cursor <= Cardinality(Ahead(live, i, up))
              /\ Cardinality(Ahead(live, i, up)) < cursor + Len(page)
  <2>1. PICK m \in 1..Len(page) : i = page[m]
    BY <1>7 DEF Range
  <2>2. Cardinality(Ahead(live, i, up)) = cursor + m - 1
    BY <1>7, <2>1
  <2>3. m \in Nat /\ 1 <= m /\ m <= Len(page)
    BY <1>7
  <2> QED
    BY <1>2, <1>6, <1>7, <2>2, <2>3
<1>12. P \cap Front = {}
  BY <1>2, <1>8, <1>11 DEF Front
<1>13. IsFiniteSet(left) /\ IsFiniteSet(back)
       /\ Cardinality(left) \in Nat /\ Cardinality(back) \in Nat
  <2>1. left \subseteq live /\ back \subseteq live
    BY DEF Front
  <2> HIDE DEF left, back
  <2> QED
    BY <1>4, <2>1, SubsetCount
<1>14. UNCHANGED <<walk, start, live, removed, added>> /\ Allowed' = Allowed
  BY <1>1 DEF listVars, Allowed
<1>15. CASE cursor' # None
  <2>1. /\ walk.limit > 0 /\ Len(page) >= walk.limit
        /\ cursor' = cursor + walk.limit
    BY <1>1, <1>15 DEF NextOffset
  <2>2. n <= walk.limit
    BY <1>3, <2>1 DEF n, PageSize
  <2>3. Len(page) = walk.limit /\ cursor' = cursor + Len(page)
    BY <1>3, <1>7, <2>1, <2>2
  <2>4. Front' = {i \in live : Cardinality(Ahead(live, i, up)) < cursor + Len(page)}
    BY <1>14, <2>3 DEF Front
  <2>5. Front' \subseteq Front \cup P
    <3> SUFFICES ASSUME NEW i \in live, i \notin Front,
                        Cardinality(Ahead(live, i, up)) < cursor + Len(page)
                 PROVE  i \in P
      BY <2>4
    <3>1. cursor <= Cardinality(Ahead(live, i, up))
      BY <1>2, <1>8 DEF Front
    <3> QED
      BY <1>2, <1>3, <1>4, <1>5, <3>1, PageHolds
  <2>6. Front \cup P \subseteq Front'
    <3>1. P \subseteq Front'
      BY <1>11, <2>4
    <3>2. Front \subseteq Front'
      BY <1>2, <1>7, <1>8, <2>4 DEF Front
    <3> QED
      BY <3>1, <3>2
  <2>7. Cardinality((start' \cap Front') \ Returned') <= removed'
    <3>1. (start' \cap Front') \ Returned' \subseteq left
      BY <1>6, <1>14, <2>5
    <3>2. Cardinality((start' \cap Front') \ Returned') <= Cardinality(left)
          /\ Cardinality((start' \cap Front') \ Returned') \in Nat
      BY <1>13, <3>1, SubsetCount
    <3>3. removed \in Nat
      BY <1>2 DEF TypeOK
    <3> QED
      BY <1>2, <1>13, <1>14, <3>2, <3>3
  <2>8. Again' + Cardinality((Returned' \cap live') \ Front') <= Allowed'
    <3> DEFINE back2 == (Returned' \cap live') \ Front'
    <3>1. back2 \cup (R \cap P) \subseteq back
      BY <1>6, <1>12, <1>14, <2>6
    <3>2. back2 \cap (R \cap P) = {}
      BY <2>6
    <3>3. Cardinality(back2) + Cardinality(R \cap P) <= Cardinality(back)
          /\ Cardinality(back2) \in Nat
      BY <1>13, <3>1, <3>2, DisjointCount
    <3>4. Allowed \in Nat
      BY <1>2, ListingsAssumption DEF TypeOK, Allowed
    <3> HIDE DEF back2, back
    <3> QED
      BY <1>2, <1>4, <1>6, <1>13, <1>14, <3>3, <3>4 DEF back2
  <2> HIDE DEF up, R, P, left, back
  <2> QED
    BY <1>10, <1>15, <2>7, <2>8 DEF EventsInv
<1>16. CASE cursor' = None
  <2>1. Again' <= Allowed'
    <3>1. R \cap P \subseteq back
      BY <1>6, <1>12
    <3>2. Cardinality(R \cap P) <= Cardinality(back)
      BY <1>13, <3>1, SubsetCount
    <3>3. Allowed \in Nat
      BY <1>2, ListingsAssumption DEF TypeOK, Allowed
    <3> HIDE DEF back
    <3> QED
      BY <1>2, <1>4, <1>6, <1>13, <1>14, <3>2, <3>3
  <2>2. ASSUME walk.limit \in 1..Cap
        PROVE  Cardinality((start' \cap live') \ Returned') <= removed'
    <3>1. n = walk.limit /\ walk.limit > 0
      BY <2>2, <1>3, ListingsAssumption DEF n, PageSize
    <3>2. Len(page) < n
      <4>1. cursor + walk.limit # None
        BY <1>2, <1>3, ListingsAssumption
      <4> QED
        BY <1>1, <1>3, <1>7, <1>16, <3>1, <4>1 DEF NextOffset
    <3>3. Cardinality(live) <= cursor + Len(page) /\ Cardinality(live) \in Nat
      BY <1>4, <1>5, <3>2, FS_CardinalityType DEF IsPage
    <3>4. ASSUME NEW i \in live, i \notin Front
          PROVE  i \in P
      <4>1. cursor <= Cardinality(Ahead(live, i, up))
        BY <1>2, <1>8, <3>4 DEF Front
      <4>2. /\ Cardinality(Ahead(live, i, up)) < Cardinality(live)
            /\ Cardinality(Ahead(live, i, up)) \in Nat
        BY <1>4, AheadCount
      <4>3. Cardinality(Ahead(live, i, up)) < cursor + Len(page)
        BY <1>2, <1>7, <3>3, <4>2
      <4> QED
        BY <1>2, <1>3, <1>4, <1>5, <4>1, <4>3, PageHolds
    <3>5. (start' \cap live') \ Returned' \subseteq left
      BY <1>6, <1>14, <3>4
    <3>6. Cardinality((start' \cap live') \ Returned') <= Cardinality(left)
          /\ Cardinality((start' \cap live') \ Returned') \in Nat
      BY <1>13, <3>5, SubsetCount
    <3>7. removed \in Nat
      BY <1>2 DEF TypeOK
    <3> QED
      BY <1>2, <1>13, <1>14, <3>6, <3>7
  <2>3. walk'.limit \in 1..Cap => Cardinality((start' \cap live') \ Returned') <= removed'
    BY <1>14, <2>2
  <2> HIDE DEF up, R, P, left, back
  <2> QED
    BY <1>10, <1>16, <2>1, <2>3 DEF EventsInv
<1> QED
  BY <1>15, <1>16

\* An element is added at one end.  Downwards it pushes the last element that
\* stands before the offset behind it.
LEMMA AddEventsStep ==
  ASSUME IInv, Add
  PROVE  TypeOK' /\ Counted' /\ EventsInv'
<1> DEFINE up   == walk.ascending
           x    == last + 1
           left == (start \cap Front) \ Returned
           back == (Returned \cap live) \ Front
<1>1. /\ x <= MaxId /\ last' = x /\ live' = live \cup {x} /\ added' = added + 1
      /\ UNCHANGED <<walk, cursor, got, start, removed>>
  <2>1. last \in Nat /\ MaxId \in Nat
    BY ListingsAssumption DEF IInv, TypeOK
  <2> QED
    BY <2>1 DEF Add
<1>2. TypeOK /\ Counted /\ EventsInv /\ last \in Nat /\ added \in Nat
  BY ListingsAssumption DEF IInv, TypeOK
<1>3. TypeOK' /\ Counted'
  <2>1. got' \in Seq(1..last')
    BY <1>1, <1>2, SeqMonotonic DEF TypeOK
  <2>2. added' <= MaxId
    BY <1>1, <1>2, ListingsAssumption DEF Counted
  <2>3. Counted'
    BY <1>1, <1>2, ListingsAssumption DEF Counted
  <2> QED
    BY <1>1, <1>2, <2>1, <2>2, <2>3, ListingsAssumption DEF TypeOK, Walk
<1>4. Returned' = Returned /\ Again' = Again /\ x \notin Returned /\ x \notin start /\ x \notin live
  <2>1. Returned \subseteq 1..last /\ start \subseteq 1..last /\ live \subseteq 1..last
    BY <1>2, Types DEF TypeOK
  <2>2. x \notin 1..last
    BY <1>2
  <2>3. Returned' = Returned /\ Again' = Again
    BY <1>1 DEF Returned, Again
  <2> QED
    BY <2>1, <2>2, <2>3
<1>5. live \subseteq Nat /\ IsFiniteSet(live) /\ Again \in Int /\ IsFiniteSet(Returned)
  BY <1>2, Types
<1>7. \A i \in live : /\ Cardinality(Ahead(live, i, up)) \in Nat
                      /\ IsFiniteSet(Ahead(live, i, up))
  BY <1>5, AheadCount
<1>8. ASSUME NEW i \in live
      PROVE  Cardinality(Ahead(live', i, up)) =
               IF up THEN Cardinality(Ahead(live, i, up))
                     ELSE Cardinality(Ahead(live, i, up)) + 1
  <2>0. i \in Nat /\ i < x
    BY <1>2 DEF TypeOK
  <2>1. CASE up
    <3>1. Ahead(live', i, up) = Ahead(live, i, up)
      BY <1>1, <2>0, <2>1 DEF Ahead
    <3> QED
      BY <2>1, <3>1
  <2>2. CASE ~up
    <3>1. Ahead(live', i, up) = Ahead(live, i, up) \cup {x} /\ x \notin Ahead(live, i, up)
      BY <1>1, <1>4, <2>0, <2>2 DEF Ahead
    <3> QED
      BY <1>7, <2>2, <3>1, FS_AddElement
  <2> QED
    BY <2>1, <2>2
<1>9. IsFiniteSet(left) /\ IsFiniteSet(back) /\ Cardinality(left) \in Nat /\ Cardinality(back) \in Nat
  <2>1. left \subseteq live /\ back \subseteq live
    BY DEF Front
  <2> HIDE DEF left, back
  <2> QED
    BY <1>5, <2>1, SubsetCount
<1>10. CASE walk.kind = "events" /\ cursor # None
  <2>1. /\ cursor \in Nat
        /\ Cardinality(left) <= removed
        /\ Again + Cardinality(back) <= Allowed
    BY <1>2, <1>10 DEF EventsInv, TypeOK
  <2>2. \A i \in live : i \in Front' <=> Cardinality(Ahead(live', i, up)) < cursor
    BY <1>1 DEF Front
  <2>3. Cardinality((start' \cap Front') \ Returned') <= removed'
    <3>1. ASSUME NEW i \in start \cap Front'
          PROVE  i \in Front
      <4>1. i \in live
        BY <1>1, <1>4, <3>1 DEF Front
      <4>2. Cardinality(Ahead(live, i, up)) < cursor
        BY <1>7, <1>8, <2>1, <2>2, <3>1, <4>1
      <4> QED
        BY <4>1, <4>2 DEF Front
    <3>2. (start' \cap Front') \ Returned' \subseteq left
      BY <1>1, <1>4, <3>1
    <3>3. Cardinality((start' \cap Front') \ Returned') <= Cardinality(left)
          /\ Cardinality((start' \cap Front') \ Returned') \in Nat
      BY <1>9, <3>2, SubsetCount
    <3>4. removed \in Nat /\ removed' = removed
      BY <1>1, <1>2 DEF TypeOK
    <3> HIDE DEF left
    <3> QED
      BY <1>9, <2>1, <3>3, <3>4
  <2>4. Again' + Cardinality((Returned' \cap live') \ Front') <= Allowed'
    <3> DEFINE back2 == (Returned' \cap live') \ Front'
               last1 == {i \in live : Cardinality(Ahead(live, i, up)) = cursor - 1}
    <3>1. back2 \subseteq live /\ back2 \subseteq Returned
      BY <1>1, <1>4
    <3>2. CASE up
      <4>1. back2 \subseteq back
        BY <1>8, <2>2, <3>1, <3>2 DEF Front
      <4>2. Cardinality(back2) <= Cardinality(back) /\ Cardinality(back2) \in Nat
        BY <1>9, <4>1, SubsetCount
      <4>3. Allowed' = 0 /\ Allowed = 0
        BY <1>1, <3>2 DEF Allowed
      <4> HIDE DEF back, back2
      <4> QED
        BY <1>4, <1>5, <1>9, <2>1, <4>2, <4>3 DEF back2
    <3>3. CASE ~up
      <4>1. back2 \subseteq back \cup last1
        <5> SUFFICES ASSUME NEW i \in back2, i \notin last1
                     PROVE  i \in back
          OBVIOUS
        <5>1. ~(Cardinality(Ahead(live, i, up)) + 1 < cursor)
          BY <1>8, <2>2, <3>1, <3>3
        <5>2. Cardinality(Ahead(live, i, up)) \in Nat /\ Cardinality(Ahead(live, i, up)) # cursor - 1
          BY <1>7, <3>1
        <5>3. ~(Cardinality(Ahead(live, i, up)) < cursor)
          BY <2>1, <5>1, <5>2
        <5> QED
          BY <3>1, <5>3 DEF Front
      <4>2. \A i, j \in last1 : i = j
        BY <1>5, AheadDiffers
      <4>3. Cardinality(back2) <= Cardinality(back) + 1 /\ Cardinality(back2) \in Nat
        BY <1>9, <4>1, <4>2, OneMore
      <4>4. Allowed = added /\ Allowed' = added + 1
        BY <1>1, <3>3 DEF Allowed
      <4> HIDE DEF back, back2
      <4> QED
        BY <1>2, <1>4, <1>5, <1>9, <2>1, <4>3, <4>4 DEF back2
    <3> QED
      BY <3>2, <3>3
  <2> HIDE DEF left, back, up, x
  <2> QED
    BY <1>1, <1>3, <1>10, <2>3, <2>4 DEF EventsInv
<1>11. CASE walk.kind = "events" /\ cursor = None
  <2>1. start \cap live' = start \cap live
    BY <1>1, <1>4
  <2>2. Allowed <= Allowed' /\ Allowed \in Nat /\ Allowed' \in Nat
    BY <1>1, <1>2 DEF Allowed
  <2>3. Again' <= Allowed'
    BY <1>2, <1>4, <1>5, <1>11, <2>2 DEF EventsInv
  <2>4. walk'.limit \in 1..Cap => Cardinality((start' \cap live') \ Returned') <= removed'
    BY <1>1, <1>2, <1>4, <1>11, <2>1 DEF EventsInv
  <2> QED
    BY <1>1, <1>3, <1>11, <2>3, <2>4 DEF EventsInv
<1>12. CASE walk.kind # "events"
  BY <1>1, <1>3, <1>12 DEF EventsInv
<1> QED
  BY <1>10, <1>11, <1>12

\* An element leaves.  Those behind it move up, one of them before the offset.
LEMMA LeaveEventsStep ==
  ASSUME IInv, NEW x \in 1..MaxId, Leave(x)
  PROVE  TypeOK' /\ Counted' /\ EventsInv'
<1> DEFINE up   == walk.ascending
           left == (start \cap Front) \ Returned
           back == (Returned \cap live) \ Front
<1>1. /\ x \in live /\ live' = live \ {x} /\ removed' = removed + 1
      /\ UNCHANGED <<walk, cursor, got, start, last, added>>
  BY DEF Leave
<1>2. TypeOK /\ Counted /\ EventsInv /\ removed \in Nat
  BY DEF IInv, TypeOK
<1>3. TypeOK' /\ Counted'
  BY <1>1, <1>2 DEF TypeOK, Counted, Walk
<1>4. Returned' = Returned /\ Again' = Again /\ Allowed' = Allowed
  BY <1>1 DEF Returned, Again, Allowed
<1>5. live \subseteq Nat /\ IsFiniteSet(live) /\ Again \in Int
  BY <1>2, Types
<1>6. \A i \in live : /\ Cardinality(Ahead(live, i, up)) \in Nat
                      /\ IsFiniteSet(Ahead(live, i, up))
  BY <1>5, AheadCount
<1>7. ASSUME NEW i \in live
      PROVE  /\ Cardinality(Ahead(live', i, up)) \in Nat
             /\ Cardinality(Ahead(live', i, up)) <= Cardinality(Ahead(live, i, up))
             /\ Cardinality(Ahead(live, i, up)) <= Cardinality(Ahead(live', i, up)) + 1
  <2>1. Ahead(live', i, up) = Ahead(live, i, up) \ {x}
    BY <1>1 DEF Ahead
  <2>2. Cardinality(Ahead(live', i, up)) =
          IF x \in Ahead(live, i, up) THEN Cardinality(Ahead(live, i, up)) - 1
                                      ELSE Cardinality(Ahead(live, i, up))
    BY <1>6, <2>1, FS_RemoveElement
  <2>3. Cardinality(Ahead(live', i, up)) \in Nat
    BY <1>6, <2>1, SubsetCount
  <2> QED
    BY <1>6, <2>2, <2>3
<1>8. IsFiniteSet(left) /\ IsFiniteSet(back) /\ Cardinality(left) \in Nat /\ Cardinality(back) \in Nat
  <2>1. left \subseteq live /\ back \subseteq live
    BY DEF Front
  <2> HIDE DEF left, back
  <2> QED
    BY <1>5, <2>1, SubsetCount
<1>9. CASE walk.kind = "events" /\ cursor # None
  <2>1. /\ cursor \in Nat
        /\ Cardinality(left) <= removed
        /\ Again + Cardinality(back) <= Allowed
    BY <1>2, <1>9 DEF EventsInv, TypeOK
  <2>2. \A i \in live' : i \in Front' <=> Cardinality(Ahead(live', i, up)) < cursor
    BY <1>1 DEF Front
  <2>3. Cardinality((start' \cap Front') \ Returned') <= removed'
    <3> DEFINE left2  == (start' \cap Front') \ Returned'
               first1 == {i \in live : Cardinality(Ahead(live, i, up)) = cursor}
    <3>1. ASSUME NEW i \in left2, i \notin first1
          PROVE  i \in left
      <4>1. i \in live /\ i \in live' /\ i \in Front'
        BY <1>1 DEF Front
      <4>2. Cardinality(Ahead(live', i, up)) < cursor
        BY <2>2, <4>1
      <4>3. /\ Cardinality(Ahead(live, i, up)) \in Nat
            /\ Cardinality(Ahead(live', i, up)) \in Nat
            /\ Cardinality(Ahead(live, i, up)) <= Cardinality(Ahead(live', i, up)) + 1
            /\ Cardinality(Ahead(live, i, up)) # cursor
        BY <1>6, <1>7, <3>1, <4>1
      <4>4. Cardinality(Ahead(live, i, up)) < cursor
        BY <2>1, <4>2, <4>3
      <4>5. i \in start /\ i \notin Returned
        BY <1>1, <1>4
      <4> QED
        BY <4>1, <4>4, <4>5 DEF Front
    <3>2. left2 \subseteq left \cup first1
      BY <3>1
    <3>3. \A i, j \in first1 : i = j
      BY <1>5, AheadDiffers
    <3>4. Cardinality(left2) <= Cardinality(left) + 1 /\ Cardinality(left2) \in Nat
      BY <1>8, <3>2, <3>3, OneMore
    <3> HIDE DEF left, left2
    <3> QED
      BY <1>1, <1>2, <1>8, <2>1, <3>4 DEF left2
  <2>4. Again' + Cardinality((Returned' \cap live') \ Front') <= Allowed'
    <3> DEFINE back2 == (Returned' \cap live') \ Front'
    <3>1. ASSUME NEW i \in back2
          PROVE  i \in back
      <4>1. i \in live' /\ i \in live /\ i \in Returned /\ i \notin Front'
        BY <1>1, <1>4
      <4>2. ~(Cardinality(Ahead(live', i, up)) < cursor)
        BY <2>2, <4>1
      <4>3. ~(Cardinality(Ahead(live, i, up)) < cursor)
        BY <1>6, <1>7, <2>1, <4>1, <4>2
      <4> QED
        BY <4>1, <4>3 DEF Front
    <3>2. Cardinality(back2) <= Cardinality(back) /\ Cardinality(back2) \in Nat
      <4>1. back2 \subseteq back
        BY <3>1
      <4> QED
        BY <1>8, <4>1, SubsetCount
    <3>3. Allowed \in Nat
      BY <1>2, ListingsAssumption DEF TypeOK, Allowed
    <3> HIDE DEF back, back2
    <3> QED
      BY <1>4, <1>5, <1>8, <2>1, <3>2, <3>3 DEF back2
  <2> HIDE DEF left, back, up
  <2> QED
    BY <1>1, <1>3, <1>9, <2>3, <2>4 DEF EventsInv
<1>10. CASE walk.kind = "events" /\ cursor = None
  <2>1. Again' <= Allowed'
    BY <1>2, <1>4, <1>10 DEF EventsInv
  <2>2. ASSUME walk.limit \in 1..Cap
        PROVE  Cardinality((start' \cap live') \ Returned') <= removed'
    <3> DEFINE miss == (start \cap live) \ Returned
    <3>1. (start' \cap live') \ Returned' \subseteq miss
      BY <1>1, <1>4
    <3>2. IsFiniteSet(miss)
      BY <1>5, SubsetCount
    <3>3. /\ Cardinality((start' \cap live') \ Returned') <= Cardinality(miss)
          /\ Cardinality((start' \cap live') \ Returned') \in Nat
          /\ Cardinality(miss) \in Nat
      BY <3>1, <3>2, SubsetCount
    <3>4. Cardinality(miss) <= removed
      BY <1>2, <1>10, <2>2 DEF EventsInv
    <3> HIDE DEF miss
    <3> QED
      BY <1>1, <1>2, <3>3, <3>4
  <2>3. walk'.limit \in 1..Cap => Cardinality((start' \cap live') \ Returned') <= removed'
    BY <1>1, <2>2
  <2> QED
    BY <1>1, <1>3, <1>10, <2>1, <2>3 DEF EventsInv
<1>11. CASE walk.kind # "events"
  BY <1>1, <1>3, <1>11 DEF EventsInv
<1> QED
  BY <1>9, <1>10, <1>11

-----------------------------------------------------------------------------
(* A walk by the orders' cursor                                            *)

\* A page that decodes has the orders next after the cursor.
LEMMA ReadOrdersStep ==
  ASSUME IInv, ReadOrders
  PROVE  TypeOK' /\ OrdersInv'
<1> DEFINE rest == {i \in live : i > cursor}
           page == Page(rest, TRUE, 0, Cap)
           P    == Range(page)
<1>1. /\ walk.kind = "orders" /\ cursor # None
      /\ got' = got \o page
      /\ cursor' = IF Len(page) < Cardinality(rest) THEN page[Len(page)] ELSE None
      /\ UNCHANGED <<walk, start, listVars>>
  <2>1. /\ walk.kind = "orders" /\ cursor # None
        /\ UNCHANGED <<walk, start, listVars>>
    BY DEF ReadOrders
  <2>2. PICK a \in OrderAnswers : /\ DecodeOrders(a).ok
                                 /\ got' = got \o DecodeOrders(a).orders
                                 /\ cursor' = a.next
    BY DEF ReadOrders
  <2>3. a.complete = TRUE
    BY <2>2 DEF DecodeOrders, OrderAnswers
  <2>4. /\ a.data = page
        /\ a.next = IF Len(page) < Cardinality(rest) THEN page[Len(page)] ELSE None
    <3>1. OrderAnswers =
            {[complete |-> TRUE, data |-> page,
              next |-> IF Len(page) < Cardinality(rest) THEN page[Len(page)] ELSE None],
             [complete |-> FALSE, data |-> <<>>, next |-> None]}
      BY DEF OrderAnswers
    <3> HIDE DEF page, rest
    <3> QED
      BY <2>2, <2>3, <3>1
  <2>5. DecodeOrders(a).orders = a.data
    BY DEF DecodeOrders
  <2> QED
    BY <2>1, <2>2, <2>4, <2>5
<1>2. /\ TypeOK /\ cursor \in Nat /\ Again = 0 /\ Returned \subseteq 1..cursor
      /\ \A i \in start \cap live : i <= cursor => i \in Returned
  BY <1>1 DEF IInv, TypeOK, OrdersInv
<1>3. Cap \in Nat \ {0} /\ 0 \in Nat /\ live \subseteq Nat /\ None \notin Int
  BY <1>2, Types
<1>4. rest \subseteq live /\ rest \subseteq Nat /\ IsFiniteSet(rest)
  <2>1. rest \subseteq live
    OBVIOUS
  <2>2. rest \subseteq 1..last
    BY <1>2 DEF TypeOK
  <2> HIDE DEF rest
  <2>3. IsFiniteSet(rest) /\ rest \subseteq Nat
    BY <1>2, <2>2, Small
  <2> QED
    BY <2>1, <2>3
<1>5. IsPage(page, rest, TRUE, 0, Cap)
  BY <1>3, <1>4, PageLemma
<1>6. \A i \in rest : i > cursor
  OBVIOUS
<1>7. \A i \in live : i > cursor => i \in rest
  OBVIOUS
<1> HIDE DEF page, rest
<1>8. /\ page \in Seq(live) /\ P \subseteq rest
      /\ Returned' = Returned \cup P
      /\ Again' = Again + Cardinality(Returned \cap P)
  BY <1>1, <1>2, <1>3, <1>4, <1>5, ReadCounts
<1>9. Again' = 0
  <2>1. Returned \cap P = {}
    <3> SUFFICES ASSUME NEW i \in Returned, i \in P
                 PROVE  FALSE
      OBVIOUS
    <3>1. i \in Nat /\ i <= cursor
      BY <1>2
    <3>2. i > cursor
      BY <1>6, <1>8
    <3> QED
      BY <1>2, <3>1, <3>2
  <2>2. Cardinality(Returned \cap P) = 0
    BY <2>1, FS_EmptySet
  <2> QED
    BY <1>2, <1>8, <2>2
<1>10. /\ Len(page) \in Nat /\ Len(page) <= Cap
       /\ Len(page) < Cap \/ Len(page) >= Cardinality(rest) => Cardinality(rest) <= 0 + Len(page)
       /\ Cardinality(rest) \in Nat
  BY <1>4, <1>5, FS_CardinalityType DEF IsPage
<1>11. start' = start /\ live' = live /\ walk' = walk
  BY <1>1 DEF listVars
<1>12. CASE Len(page) < Cardinality(rest)
  <2>1. Len(page) >= 1
    BY <1>3, <1>10, <1>12
  <2>2. /\ cursor' = page[Len(page)] /\ page[Len(page)] \in rest
        /\ \A y \in P : y <= page[Len(page)]
        /\ \A i \in rest : i <= page[Len(page)] => i \in P
    BY <1>1, <1>3, <1>4, <1>5, <1>12, <2>1, PageEnd
  <2>3. cursor' \in Nat /\ cursor' > cursor
    BY <1>4, <1>6, <2>2
  <2>4. TypeOK'
    BY <1>1, <1>2, <1>8, <2>3, ReadTypes
  <2>5. Returned' \subseteq 1..cursor'
    <3>1. ASSUME NEW i \in Returned
          PROVE  i \in 1..cursor'
      <4>1. i \in Nat /\ 1 <= i /\ i <= cursor
        BY <1>2
      <4> QED
        BY <1>2, <2>3, <4>1
    <3>2. ASSUME NEW i \in P
          PROVE  i \in 1..cursor'
      <4>1. i \in Nat /\ i > cursor /\ i <= cursor'
        BY <1>4, <1>6, <1>8, <2>2
      <4> QED
        BY <1>2, <2>3, <4>1
    <3> QED
      BY <1>8, <3>1, <3>2
  <2>6. \A i \in start' \cap live' : i <= cursor' => i \in Returned'
    <3> SUFFICES ASSUME NEW i \in start \cap live, i <= cursor'
                 PROVE  i \in Returned \cup P
      BY <1>8, <1>11
    <3>1. CASE i <= cursor
      BY <1>2, <3>1
    <3>2. CASE i > cursor
      BY <1>7, <2>2, <3>2
    <3>3. i \in Nat
      BY <1>3
    <3> QED
      BY <1>2, <3>1, <3>2, <3>3
  <2>7. cursor' # None
    BY <1>3, <2>3
  <2> HIDE DEF P
  <2> QED
    BY <1>9, <2>4, <2>5, <2>6, <2>7 DEF OrdersInv
<1>13. CASE ~(Len(page) < Cardinality(rest))
  <2>1. cursor' = None
    BY <1>1, <1>13
  <2>2. TypeOK'
    BY <1>1, <1>2, <1>8, <2>1, ReadTypes
  <2>3. Cardinality(rest) <= 0 + Len(page)
    BY <1>10, <1>13
  <2>4. ASSUME NEW i \in rest
        PROVE  i \in P
    <3>1. /\ Cardinality(Ahead(rest, i, TRUE)) \in Nat
          /\ Cardinality(Ahead(rest, i, TRUE)) < Cardinality(rest)
      BY <1>4, AheadCount
    <3> DEFINE r == Cardinality(Ahead(rest, i, TRUE))
    <3>2. r \in Nat /\ r < Cardinality(rest)
      BY <3>1
    <3>3. Len(page) \in Nat /\ Cardinality(rest) \in Nat
      BY <1>10
    <3> HIDE DEF r
    <3>4. 0 <= r /\ r < 0 + Len(page)
      BY <2>3, <3>2, <3>3
    <3> QED
      BY <1>3, <1>4, <1>5, <3>4, PageHolds DEF r
  <2>5. start' \cap live' \subseteq Returned'
    <3> SUFFICES ASSUME NEW i \in start \cap live
                 PROVE  i \in Returned \cup P
      BY <1>8, <1>11
    <3>1. CASE i <= cursor
      BY <1>2, <3>1
    <3>2. CASE i > cursor
      BY <1>7, <2>4, <3>2
    <3>3. i \in Nat
      BY <1>3
    <3> QED
      BY <1>2, <3>1, <3>2, <3>3
  <2> HIDE DEF P
  <2> QED
    BY <1>9, <2>1, <2>2, <2>5 DEF OrdersInv
<1> QED
  BY <1>12, <1>13

-----------------------------------------------------------------------------
(* A walk by the last trade's id                                           *)

\* A page has the trades of the window next after the last one seen.
LEMMA ReadTradesStep ==
  ASSUME IInv, ReadTrades
  PROVE  TypeOK' /\ TradesInv'
<1> DEFINE w     == SentWindow(walk.window)
           found == {i \in live : AfterID(i, SentFromID(cursor)) /\ Within(i, w)}
           page  == Page(found, TRUE, 0, Cap)
           P     == Range(page)
<1>1. /\ walk.kind = "trades" /\ page # <<>>
      /\ got' = got \o page
      /\ cursor' = page[Len(page)]
      /\ UNCHANGED <<walk, start, listVars>>
  BY DEF ReadTrades
<1>2. /\ TypeOK /\ cursor \in 0..last /\ Returned \subseteq 1..cursor
      /\ \A k \in 2..Len(got) : got[k - 1] < got[k]
      /\ \A i \in Returned : Within(i, w)
      /\ \A i \in live : i <= cursor /\ i \notin Returned => ~Within(i, w)
  BY <1>1 DEF IInv, TradesInv
<1>3. Cap \in Nat \ {0} /\ 0 \in Nat /\ live \subseteq Nat /\ last \in Nat /\ cursor \in Nat
  BY <1>2, Types
<1>4. found \subseteq live /\ found \subseteq Nat /\ IsFiniteSet(found)
  <2>1. found \subseteq live
    OBVIOUS
  <2>2. found \subseteq 1..last
    BY <1>2 DEF TypeOK
  <2> HIDE DEF found
  <2>3. IsFiniteSet(found) /\ found \subseteq Nat
    BY <1>2, <2>2, Small
  <2> QED
    BY <2>1, <2>3
<1>5. IsPage(page, found, TRUE, 0, Cap)
  BY <1>3, <1>4, PageLemma
<1>6. /\ \A i \in found : i > cursor /\ Within(i, w)
      /\ \A i \in live : i > cursor /\ Within(i, w) => i \in found
  <2>1. \A i \in live : AfterID(i, SentFromID(cursor)) <=> i > cursor
    <3>1. \A i \in live : i \in Nat /\ i > 0
      BY <1>2, <1>3 DEF TypeOK
    <3>2. None \notin Nat
      BY ListingsAssumption
    <3> QED
      BY <1>3, <3>1, <3>2 DEF AfterID, SentFromID
  <2> QED
    BY <2>1
<1>7. \A i \in live : i > cursor /\ Within(i, w) => i \in found
  BY <1>6
<1> HIDE DEF page, found, w
<1>8. /\ page \in Seq(live) /\ P \subseteq found
      /\ Returned' = Returned \cup P
  BY <1>1, <1>2, <1>3, <1>4, <1>5, ReadCounts
<1>9. page \in [1..Len(page) -> live] /\ Len(page) \in Nat /\ Len(page) >= 1
  <2>1. Len(page) \in Nat /\ Len(page) # 0
    BY <1>1, <1>8, EmptySeq
  <2> QED
    BY <1>8, <2>1
<1>10. /\ page[Len(page)] \in found
       /\ \A y \in P : y <= page[Len(page)]
       /\ \A i \in found : i <= page[Len(page)] => i \in P
  BY <1>3, <1>4, <1>5, <1>9, PageEnd
<1>11. cursor' \in Nat /\ cursor' > cursor /\ cursor' \in 0..last
  <2>1. cursor' \in live /\ cursor' > cursor
    BY <1>1, <1>4, <1>6, <1>10
  <2> QED
    BY <1>2, <1>3, <2>1 DEF TypeOK
<1>12. TypeOK'
  BY <1>1, <1>2, <1>8, <1>11, ReadTypes
<1>13. start' = start /\ live' = live /\ walk' = walk /\ last' = last
       /\ SentWindow(walk'.window) = w
  BY <1>1 DEF listVars, w
<1>14. Returned' \subseteq 1..cursor'
  <2>1. ASSUME NEW i \in Returned
        PROVE  i \in 1..cursor'
    <3>1. i \in Nat /\ 1 <= i /\ i <= cursor
      BY <1>2
    <3> QED
      BY <1>3, <1>11, <3>1
  <2>2. ASSUME NEW i \in P
        PROVE  i \in 1..cursor'
    <3>1. i \in Nat /\ i > cursor /\ i <= cursor'
      BY <1>1, <1>4, <1>6, <1>8, <1>10
    <3> QED
      BY <1>3, <1>11, <3>1
  <2> QED
    BY <1>8, <2>1, <2>2
<1>15. \A k \in 2..Len(got') : got'[k - 1] < got'[k]
  <2>1. got \in [1..Len(got) -> 1..last] /\ Len(got) \in Nat
    BY <1>2 DEF TypeOK
  <2>2. Len(got') = Len(got) + Len(page)
        /\ \A k \in 1..(Len(got) + Len(page)) :
             got'[k] = IF k <= Len(got) THEN got[k] ELSE page[k - Len(got)]
    <3> DEFINE T == 1..last
    <3>1. page \in Seq(T) /\ got \in Seq(T)
      BY <1>2, <1>8, SeqMonotonic DEF TypeOK
    <3> HIDE DEF T
    <3> QED
      BY <1>1, <3>1, ConcatProperties
  <2>3. \A a, b \in 1..Len(page) : a < b => page[a] < page[b]
    BY <1>3, <1>4, <1>5, PageInOrder DEF Precedes
  <2> SUFFICES ASSUME NEW k \in 2..Len(got')
               PROVE  got'[k - 1] < got'[k]
    OBVIOUS
  <2>4. CASE k <= Len(got)
    BY <1>2, <1>9, <2>1, <2>2, <2>4
  <2>5. CASE k = Len(got) + 1
    <3>1. got'[k - 1] = got[k - 1] /\ k - 1 \in 1..Len(got) /\ got'[k] = page[1]
      BY <1>9, <2>1, <2>2, <2>5
    <3>2. got[k - 1] \in Returned
      BY <3>1, <2>1, ReturnedRange DEF Range
    <3>3. page[1] \in P
      BY <1>9 DEF Range
    <3>4. page[1] \in Nat /\ page[1] > cursor
      BY <1>4, <1>6, <1>8, <3>3
    <3>5. got[k - 1] \in Nat /\ got[k - 1] <= cursor
      <4>1. got[k - 1] \in 1..cursor
        BY <1>2, <3>2
      <4> QED
        BY <1>3, <4>1
    <3>6. got[k - 1] < page[1]
      BY <1>3, <3>4, <3>5
    <3> QED
      BY <3>1, <3>6
  <2>6. CASE k > Len(got) + 1
    <3>1. /\ k - 1 - Len(got) \in 1..Len(page) /\ k - Len(got) \in 1..Len(page)
          /\ k - 1 - Len(got) < k - Len(got)
      BY <1>9, <2>1, <2>2, <2>6
    <3>2. got'[k - 1] = page[k - 1 - Len(got)] /\ got'[k] = page[k - Len(got)]
      BY <1>9, <2>1, <2>2, <2>6
    <3> QED
      BY <2>3, <3>1, <3>2
  <2> QED
    BY <1>9, <2>1, <2>2, <2>4, <2>5, <2>6
<1>16. \A i \in Returned' : Within(i, w)
  BY <1>2, <1>6, <1>8
<1>17. \A i \in live : i <= cursor' /\ i \notin Returned' => ~Within(i, w)
  <2> SUFFICES ASSUME NEW i \in live, i <= cursor', i \notin Returned', Within(i, w)
               PROVE  FALSE
    OBVIOUS
  <2>1. i \in Nat /\ i \notin Returned /\ i \notin P
    BY <1>3, <1>8
  <2>2. i > cursor
    BY <1>2, <1>3, <2>1
  <2>3. i \in found
    BY <1>7, <2>2
  <2> QED
    BY <1>1, <1>10, <2>1, <2>3
<1>18. /\ \A i \in Returned' : Within(i, w)'
       /\ \A i \in live' : i <= cursor' /\ i \notin Returned' => ~Within(i, w)'
  BY <1>13, <1>16, <1>17 DEF Within, w
<1> HIDE DEF P
<1> QED
  BY <1>11, <1>12, <1>13, <1>14, <1>15, <1>18 DEF TradesInv, w

-----------------------------------------------------------------------------
(* The listing changes under a walk by cursor                              *)

\* An element that is added comes after every cursor.
LEMMA AddCursorsStep ==
  ASSUME IInv, Add
  PROVE  OrdersInv' /\ TradesInv'
<1> DEFINE x == last + 1
<1>1. /\ last' = x /\ live' = live \cup {x}
      /\ UNCHANGED <<walk, cursor, got, start, removed>>
  BY DEF Add
<1>2. TypeOK /\ OrdersInv /\ TradesInv /\ last \in Nat
  BY Types DEF IInv
<1>3. Returned' = Returned /\ Again' = Again
  BY <1>1 DEF Returned, Again
<1>4. start' \cap live' = start \cap live
  <2>1. x \notin start
    BY <1>2 DEF TypeOK
  <2> QED
    BY <1>1, <2>1
<1>5. OrdersInv'
  BY <1>1, <1>2, <1>3, <1>4 DEF OrdersInv
<1>6. TradesInv'
  <2> SUFFICES ASSUME walk.kind = "trades"
               PROVE  TradesInv'
    BY <1>1 DEF TradesInv
  <2>1. cursor \in 0..last /\ cursor < x /\ cursor' \in 0..last'
    BY <1>1, <1>2 DEF TradesInv
  <2>2. \A i \in live' : i <= cursor => i \in live
    BY <1>1, <1>2, <2>1
  <2>3. \A i : Within(i, SentWindow(walk.window))' <=> Within(i, SentWindow(walk.window))
    BY <1>1 DEF Within
  <2> QED
    BY <1>1, <1>2, <1>3, <2>1, <2>2, <2>3 DEF TradesInv
<1> QED
  BY <1>5, <1>6

\* Orders that leave need not be returned any more; trades do not leave.
LEMMA LeaveCursorsStep ==
  ASSUME IInv, NEW x \in 1..MaxId, Leave(x)
  PROVE  OrdersInv' /\ TradesInv'
<1>1. /\ walk.kind # "trades" /\ live' = live \ {x}
      /\ UNCHANGED <<walk, cursor, got, start, last>>
  BY DEF Leave
<1>2. Returned' = Returned /\ Again' = Again
  BY <1>1 DEF Returned, Again
<1>3. OrdersInv'
  BY <1>1, <1>2 DEF IInv, OrdersInv
<1> QED
  BY <1>1, <1>3 DEF TradesInv

\* The invariant holds in every state.
LEMMA Invariance == Spec => []IInv
<1>1. Init => IInv
  BY InitInv
<1>2. IInv /\ [Next]_vars => IInv'
  <2> SUFFICES ASSUME IInv, [Next]_vars
               PROVE  IInv'
    OBVIOUS
  <2>1. CASE ReadEvents
    <3>1. walk.kind = "events" /\ walk' = walk /\ last' = last /\ added' = added
      BY <2>1 DEF ReadEvents, listVars
    <3>2. Counted' /\ OrdersInv' /\ TradesInv'
      BY <3>1 DEF IInv, Counted, OrdersInv, TradesInv
    <3> QED
      BY <2>1, <3>2, ReadEventsStep DEF IInv
  <2>2. CASE ReadOrders
    <3>1. walk.kind = "orders" /\ walk' = walk /\ last' = last /\ added' = added
      BY <2>2 DEF ReadOrders, listVars
    <3>2. Counted' /\ EventsInv' /\ TradesInv'
      BY <3>1 DEF IInv, Counted, EventsInv, TradesInv
    <3> QED
      BY <2>2, <3>2, ReadOrdersStep DEF IInv
  <2>3. CASE ReadTrades
    <3>1. walk.kind = "trades" /\ walk' = walk /\ last' = last /\ added' = added
      BY <2>3 DEF ReadTrades, listVars
    <3>2. Counted' /\ EventsInv' /\ OrdersInv'
      BY <3>1 DEF IInv, Counted, EventsInv, OrdersInv
    <3> QED
      BY <2>3, <3>2, ReadTradesStep DEF IInv
  <2>4. CASE Add
    BY <2>4, AddEventsStep, AddCursorsStep DEF IInv
  <2>5. ASSUME NEW x \in 1..MaxId, Leave(x)
        PROVE  IInv'
    BY <2>5, LeaveEventsStep, LeaveCursorsStep DEF IInv
  <2>6. CASE UNCHANGED vars
    <3>1. UNCHANGED <<walk, cursor, got, start, live, last, removed, added>>
      BY <2>6 DEF vars, listVars
    <3>2. UNCHANGED <<Returned, Again, Front, Allowed>>
      BY <3>1 DEF Returned, Again, Front, Allowed
    <3>3. TypeOK' /\ Counted'
      BY <3>1 DEF IInv, TypeOK, Counted, Walk
    <3>4. EventsInv' /\ OrdersInv'
      BY <3>1, <3>2 DEF IInv, EventsInv, OrdersInv
    <3>5. \A i : Within(i, SentWindow(walk.window))' <=> Within(i, SentWindow(walk.window))
      BY <3>1 DEF Within
    <3>6. TradesInv'
      BY <3>1, <3>2, <3>5 DEF IInv, TradesInv
    <3> QED
      BY <3>3, <3>4, <3>6 DEF IInv
  <2> QED
    BY <2>1, <2>2, <2>3, <2>4, <2>5, <2>6 DEF Next
<1> QED
  BY <1>1, <1>2, PTL DEF Spec

-----------------------------------------------------------------------------
(* Theorems                                                                *)

\* The cursor is an offset, an order, a trade or the end, and what is returned
\* are elements of the listing (gamma/client.go:159-169, client.go:382-445).
THEOREM TypeCorrect == Spec => []TypeOK
<1>1. IInv => TypeOK
  BY DEF IInv
<1> QED
  BY <1>1, Invariance, PTL

\* A walk by offset that has ended missed no more elements than were removed
\* meanwhile, for limits the service keeps to: a removal moves one element at
\* most before the next offset unseen (gamma/client.go:159-169, 221-225).
THEOREM MissesExplained == Spec => []MissedAtMostRemoved
<1>1. IInv => MissedAtMostRemoved
  BY DEF IInv, EventsInv, MissedAtMostRemoved
<1> QED
  BY <1>1, Invariance, PTL

\* A walk by offset repeats no more elements than were added meanwhile, and
\* none upwards, with any limit (gamma/client.go:159-169, 221-225).
THEOREM RepeatsExplained == Spec => []RepeatedAtMostAdded
<1>1. IInv => RepeatedAtMostAdded
  <2> SUFFICES ASSUME IInv, walk.kind = "events"
               PROVE  Again <= Allowed
    BY DEF RepeatedAtMostAdded, Again, Allowed
  <2>1. Again \in Int /\ Allowed \in Int
    BY Types, ListingsAssumption DEF IInv, TypeOK, Allowed
  <2>2. Cardinality((Returned \cap live) \ Front) \in Nat
    BY Types, SubsetCount DEF IInv
  <2> QED
    BY <2>1, <2>2 DEF IInv, EventsInv
<1> QED
  BY <1>1, Invariance, PTL

\* A walk through the orders that has ended has every order that stayed, and no
\* walk has one twice, whichever answers are refused (orders_json.go:19-52).
THEOREM OrdersWalkComplete == Spec => []OrdersComplete
<1>1. IInv => OrdersComplete
  <2> SUFFICES ASSUME IInv, walk.kind = "orders"
               PROVE  /\ Len(got) = Cardinality(Returned)
                      /\ cursor = None => start \cap live \subseteq Returned
    BY DEF OrdersComplete
  <2>1. Len(got) = Cardinality(Returned)
    BY Types DEF IInv, OrdersInv, Again
  <2> QED
    BY <2>1 DEF IInv, OrdersInv
<1> QED
  BY <1>1, Invariance, PTL

\* Passing on the id of the last trade gives each trade of the window once, in
\* order and without a gap, however many trades there are and whenever they are
\* added (client.go:382-445, withFromIDQuery at 722-729).
THEOREM TradesInOrder == Spec => []TradesOnceInOrder
<1>1. IInv => TradesOnceInOrder
  BY DEF IInv, TradesInv, TradesOnceInOrder
<1> QED
  BY <1>1, Invariance, PTL

-----------------------------------------------------------------------------
(* Bounds of the window of trades                                          *)

\* A time is at most 64 seconds from the float32 sent for it.
LEMMA Float32Near ==
  ASSUME NEW t \in Nat
  PROVE  Float32(t) \in Int /\ Float32(t) - t <= 64 /\ t - Float32(t) <= 64
<1> DEFINE q == t \div 128
           r == t % 128
<1>1. q \in Nat /\ r \in 0..127 /\ t = 128 * q + r
  OBVIOUS
<1>2. Float32(t) = 128 * (IF r > 64 \/ (r = 64 /\ q % 2 = 1) THEN q + 1 ELSE q)
  BY DEF Float32
<1> HIDE DEF q, r
<1>3. Float32(t) \in {128 * q, 128 * q + 128}
      /\ (Float32(t) = 128 * q => r <= 64)
      /\ (Float32(t) = 128 * q + 128 => r >= 64)
  BY <1>1, <1>2
<1> QED
  BY <1>1, <1>3

\* Its shortest decimal form is at most 64 seconds from the float32.
LEMMA DecimalNear ==
  ASSUME NEW f \in Int
  PROVE  Decimal(f) \in Int /\ Decimal(f) - f <= 64 /\ f - Decimal(f) <= 64
<1> DEFINE tens == {1, 10, 100, 1000, 10000, 100000, 1000000, 10000000, 100000000}
           ok   == {p \in tens : Tells(f, p)}
           best == CHOOSE p \in ok : \A q \in ok : q <= p
<1>1. Tells(f, 1)
  <2>1. Nearest(f, 1) = f
    BY DEF Nearest
  <2> QED
    BY <2>1 DEF Tells, Abs
<1>2. 1 \in ok /\ ok \subseteq tens
  BY <1>1
<1>3. Decimal(f) = Nearest(f, best)
  BY DEF Decimal
<1>4. \A p \in ok : Tells(f, p)
  OBVIOUS
<1>5. \E p \in ok : \A q \in ok : q <= p
  <2> HIDE DEF ok
  <2>1. CASE 100000000 \in ok
    BY <1>2, <2>1
  <2>2. CASE 100000000 \notin ok /\ 10000000 \in ok
    BY <1>2, <2>2
  <2>3. CASE 100000000 \notin ok /\ 10000000 \notin ok /\ 1000000 \in ok
    BY <1>2, <2>3
  <2>4. CASE /\ 100000000 \notin ok /\ 10000000 \notin ok /\ 1000000 \notin ok
             /\ 100000 \in ok
    BY <1>2, <2>4
  <2>5. CASE /\ 100000000 \notin ok /\ 10000000 \notin ok /\ 1000000 \notin ok
             /\ 100000 \notin ok
    <3>1. ok \subseteq {1, 10, 100, 1000, 10000}
      BY <1>2, <2>5
    <3> QED
      BY <1>2, <3>1
  <2> QED
    BY <2>1, <2>2, <2>3, <2>4, <2>5
<1> HIDE DEF ok
<1>6. best \in ok
  BY <1>5
<1> HIDE DEF best
<1>7. best \in Nat \ {0} /\ Tells(f, best)
  BY <1>2, <1>4, <1>6
<1>8. Nearest(f, best) \in Int
  <2>1. best \div 2 \in Int
    BY <1>7
  <2> DEFINE h == f + best \div 2
  <2>2. h \in Int
    BY <2>1
  <2> HIDE DEF h
  <2>3. h \div best \in Int
    BY <1>7, <2>2
  <2> DEFINE d == h \div best
  <2>4. Nearest(f, best) = d * best
    BY DEF Nearest, h
  <2> HIDE DEF d
  <2> QED
    BY <1>7, <2>3, <2>4 DEF d
<1>9. Abs(Nearest(f, best) - f) <= 64
  BY <1>7, <1>8 DEF Tells, Abs
<1> QED
  BY <1>3, <1>8, <1>9 DEF Abs

\* A bound as the service gets it is at most 128 seconds off, and there is one
\* where the caller set one.
LEMMA SentBoundNear ==
  ASSUME NEW t \in Nat \cup {None}
  PROVE  IF t = None THEN SentBound(t) = None
                     ELSE /\ SentBound(t) \in Int /\ SentBound(t) # None
                          /\ SentBound(t) - t <= 128 /\ t - SentBound(t) <= 128
<1>1. CASE t = None
  BY <1>1 DEF SentBound
<1>2. CASE t # None
  <2> DEFINE f == Float32(t)
             d == Decimal(f)
  <2>1. t \in Nat
    BY <1>2
  <2>2. f \in Int /\ f - t <= 64 /\ t - f <= 64
    BY <2>1, Float32Near
  <2> HIDE DEF f
  <2>3. d \in Int /\ d - f <= 64 /\ f - d <= 64
    BY <2>2, DecimalNear
  <2>4. SentBound(t) = d
    BY <1>2 DEF SentBound, f
  <2> HIDE DEF d
  <2>5. d \in Int /\ d # None /\ d - t <= 128 /\ t - d <= 128
    BY <2>1, <2>2, <2>3, ListingsAssumption
  <2> QED
    BY <1>2, <2>4, <2>5
<1> QED
  BY <1>1, <1>2

\* What is returned lies within the window asked for, and nothing of it is left
\* out, but for 128 seconds at either end (client.go:396-402).
THEOREM WindowKept == Spec => []WindowNearlyKept
<1> DEFINE Move(t, d) == IF t = None THEN None ELSE t + d
           Wider(d)   == [after  |-> Move(walk.window.after, -d),
                          before |-> Move(walk.window.before, d)]
<1>1. ASSUME IInv, walk.kind = "trades"
      PROVE  /\ \A i \in Returned : Within(i, Wider(128))
             /\ \A i \in live : i <= cursor /\ Within(i, Wider(-128)) => i \in Returned
  <2> DEFINE a  == walk.window.after
             b  == walk.window.before
             sa == SentBound(a)
             sb == SentBound(b)
  <2>1. a \in Nat \cup {None} /\ b \in Nat \cup {None}
    <3>1. walk.window \in Windows
      BY <1>1 DEF IInv, TypeOK, Walk
    <3> QED
      BY <3>1, ListingsAssumption
  <2>2. IF a = None THEN sa = None
        ELSE sa \in Int /\ sa # None /\ sa - a <= 128 /\ a - sa <= 128
    BY <2>1, SentBoundNear
  <2>3. IF b = None THEN sb = None
        ELSE sb \in Int /\ sb # None /\ sb - b <= 128 /\ b - sb <= 128
    BY <2>1, SentBoundNear
  <2>4. SentWindow(walk.window) = [after |-> sa, before |-> sb]
    BY DEF SentWindow
  <2>5. None \notin Int /\ live \subseteq Nat /\ Returned \subseteq Nat
    BY <1>1, Types DEF IInv
  <2>6. \A i \in Nat : Time(i) \in Int
    BY ListingsAssumption DEF Time
  <2>7. Wider(128) = [after  |-> IF a = None THEN None ELSE a + (-128),
                      before |-> IF b = None THEN None ELSE b + 128]
    OBVIOUS
  <2>8. Wider(-128) = [after  |-> IF a = None THEN None ELSE a + (-(-128)),
                       before |-> IF b = None THEN None ELSE b + (-128)]
    OBVIOUS
  <2> HIDE DEF a, b, sa, sb, Wider
  <2>9. ASSUME NEW i \in Returned
        PROVE  Within(i, Wider(128))
    <3>1. Within(i, [after |-> sa, before |-> sb])
      BY <1>1, <2>4 DEF IInv, TradesInv
    <3>2. sa = None \/ Time(i) >= sa
      BY <3>1 DEF Within
    <3>3. sb = None \/ Time(i) <= sb
      BY <3>1 DEF Within
    <3>4. Time(i) \in Int
      BY <2>5, <2>6
    <3> DEFINE x == IF a = None THEN None ELSE a + (-128)
               y == IF b = None THEN None ELSE b + 128
    <3>5. x = None \/ Time(i) >= x
      BY <2>1, <2>2, <2>5, <3>2, <3>4
    <3>6. y = None \/ Time(i) <= y
      BY <2>1, <2>3, <2>5, <3>3, <3>4
    <3> HIDE DEF x, y
    <3>7. Wider(128) = [after |-> x, before |-> y]
      BY <2>7 DEF x, y
    <3> QED
      BY <3>5, <3>6, <3>7 DEF Within
  <2>10. ASSUME NEW i \in live, i <= cursor, Within(i, Wider(-128))
         PROVE  i \in Returned
    <3> DEFINE x == IF a = None THEN None ELSE a + (-(-128))
               y == IF b = None THEN None ELSE b + (-128)
    <3>1. Wider(-128) = [after |-> x, before |-> y]
      BY <2>8
    <3> HIDE DEF x, y
    <3>2. (x = None \/ Time(i) >= x) /\ (y = None \/ Time(i) <= y)
      BY <2>10, <3>1 DEF Within
    <3>3. Time(i) \in Int
      BY <2>5, <2>6
    <3>4. sa = None \/ Time(i) >= sa
      BY <2>1, <2>2, <2>5, <3>2, <3>3 DEF x
    <3>5. sb = None \/ Time(i) <= sb
      BY <2>1, <2>3, <2>5, <3>2, <3>3 DEF y
    <3>6. Within(i, SentWindow(walk.window))
      BY <2>4, <3>4, <3>5 DEF Within
    <3> QED
      BY <1>1, <2>10, <3>6 DEF IInv, TradesInv
  <2> QED
    BY <2>9, <2>10
<1>2. IInv => WindowNearlyKept
  BY <1>1 DEF WindowNearlyKept
<1> QED
  BY <1>2, Invariance, PTL

=============================================================================
