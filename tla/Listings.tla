------------------------------ MODULE Listings ------------------------------
(***************************************************************************)
(* A caller that walks through a listing of the gamma or clob service page *)
(* by page while the listing changes: ListEvents and ListSeries, whose     *)
(* cursor is an offset; ListOrders, whose cursor is the service's own; and *)
(* GetTrades with FromID and a time window.  The services are modelled     *)
(* from how the facades use them: a listing holds numbered elements and is *)
(* sorted by number; new elements get the next number; the cursor of the   *)
(* orders names the last order it has delivered.  A request and its answer *)
(* are one step, at the moment the service looks at its listing; a failure *)
(* leaves the caller where it was.                                         *)
(***************************************************************************)
EXTENDS Integers, Sequences, FiniteSets

CONSTANTS
  MaxId,    \* bound: elements the listing ever has
  Initial,  \* elements it has at first: 1 .. Initial
  Limits,   \* values of filter.Limit
  Default,  \* page of a service that is given no limit
  Cap,      \* longest page of a service
  Broken,   \* orders that do not decode
  Windows,  \* values of filter.After and filter.Before, in Unix seconds
  Base, Step, \* trade number i is made at Base + i * Step
  None      \* no bound; no further page

\* Times from 2004 to 2038, which are 31 bits long.
Seconds == {t \in Nat : 1073741824 <= t /\ t <= 2147483647}

ASSUME ListingsAssumption ==
  /\ MaxId \in Nat /\ Initial \in 0..MaxId
  /\ Limits \subseteq Nat
  /\ Default \in Nat \ {0} /\ Cap \in Nat \ {0}
  /\ Base \in Nat /\ Step \in Nat
  /\ None \notin Int
  /\ \A w \in Windows : /\ w \in [after : Nat \cup {None}, before : Nat \cup {None}]
                        /\ {w.after, w.before} \subseteq Seconds \cup {None}

VARIABLES
  walk,    \* what is walked through, and the filter
  cursor,  \* where the next page begins; None at the end
  got,     \* the elements returned so far
  live,    \* the elements of the listing
  last,    \* the number given last
  start,   \* the elements when the walk began (history)
  removed, \* elements removed since (history)
  added    \* elements added since (history)

listVars == <<live, last, removed, added>>
vars == <<walk, cursor, got, start, listVars>>

Walk == [kind : {"events", "orders", "trades"}, limit : Limits,
         ascending : BOOLEAN, window : Windows]

Init ==
  /\ walk \in Walk
  /\ cursor = 0
  /\ got = <<>>
  /\ last = Initial
  /\ live = 1..Initial
  /\ start = live
  /\ removed = 0
  /\ added = 0

\* The elements of S that come before i, upwards or downwards.
Ahead(S, i, up) == {j \in S : IF up THEN j < i ELSE j > i}

\* The page of at most n elements of S, in order, after the first k.
Page(S, up, k, n) ==
  LET left == IF k < Cardinality(S) THEN Cardinality(S) - k ELSE 0
  IN  [m \in 1..(IF n < left THEN n ELSE left) |->
         CHOOSE i \in S : Cardinality(Ahead(S, i, up)) = k + m - 1]

-----------------------------------------------------------------------------
(* ListEvents, ListSeries                                                  *)

PageSize(limit) == IF limit = 0 THEN Default ELSE IF limit < Cap THEN limit ELSE Cap

EventPage(offset) ==
  Page(live, walk.ascending, offset, PageSize(walk.limit))

\* Faults, for mutation checks: beyond the page
NextOffsetPast(offset, limit, len) ==
  IF limit > 0 /\ len >= limit THEN offset + limit + 1 ELSE None

\* the last element of the page again
NextOffsetBehind(offset, limit, len) ==
  IF limit > 0 /\ len >= limit THEN offset + limit - 1 ELSE None

\* any page is full when no limit is set
NextOffsetNoLimit(offset, limit, len) ==
  IF len >= limit THEN offset + limit ELSE None

\* backwards
NextOffsetBack(offset, limit, len) ==
  IF limit > 0 /\ len >= limit THEN offset - limit ELSE None

\* The cursor after a page of len elements: a full page may have a next one.
NextOffset(offset, limit, len) ==
  IF limit > 0 /\ len >= limit THEN offset + limit ELSE None

ReadEvents ==
  /\ walk.kind = "events" /\ cursor # None
  /\ LET page == EventPage(cursor) IN
     /\ got' = got \o page
     /\ cursor' = NextOffset(cursor, walk.limit, Len(page))
  /\ UNCHANGED <<walk, start, listVars>>

-----------------------------------------------------------------------------
(* ListOrders                                                              *)

\* Fault: goes on without the orders that do not decode
DecodeOrdersSkips(a) ==
  [ok |-> a.complete, orders |-> SelectSeq(a.data, LAMBDA i : i \notin Broken)]

\* decodeListOrdersResponse: the whole page or nothing; data and next_cursor
\* must be there.
DecodeOrders(a) ==
  [ok |-> a.complete /\ \A k \in DOMAIN a.data : a.data[k] \notin Broken,
   orders |-> a.data]

\* An answer: the next page, with a cursor as long as there are further orders,
\* or a 200 without data and cursor.
OrderAnswers ==
  LET rest == {i \in live : i > cursor}
      page == Page(rest, TRUE, 0, Cap)
  IN  {[complete |-> TRUE, data |-> page,
        next |-> IF Len(page) < Cardinality(rest) THEN page[Len(page)] ELSE None],
       [complete |-> FALSE, data |-> <<>>, next |-> None]}

ReadOrders ==
  /\ walk.kind = "orders" /\ cursor # None
  /\ \E a \in OrderAnswers :
       /\ DecodeOrders(a).ok
       /\ got' = got \o DecodeOrders(a).orders
       /\ cursor' = a.next
  /\ UNCHANGED <<walk, start, listVars>>

-----------------------------------------------------------------------------
(* GetTrades                                                               *)

Abs(x) == IF x < 0 THEN -x ELSE x

\* Bounds are sent as float32: for times from 2004 to 2038 a multiple of 128,
\* and of two equally near the one with the even mantissa ...
Float32(t) ==
  LET q == t \div 128
      r == t % 128
  IN  128 * (IF r > 64 \/ (r = 64 /\ q % 2 = 1) THEN q + 1 ELSE q)

\* ... which is written with as few digits as tell it from its neighbours.
Nearest(f, p) == ((f + p \div 2) \div p) * p
Tells(f, p) ==
  \/ Abs(Nearest(f, p) - f) < 64
  \/ Abs(Nearest(f, p) - f) = 64 /\ (f \div 128) % 2 = 0
Decimal(f) ==
  LET ok == {p \in {1, 10, 100, 1000, 10000, 100000, 1000000, 10000000, 100000000} :
               Tells(f, p)}
  IN  Nearest(f, CHOOSE p \in ok : \A q \in ok : q <= p)

\* A bound as the service gets it.
SentBound(t) == IF t = None THEN None ELSE Decimal(Float32(t))

\* Fault: each bound in the other's place
SentWindowSwapped(w) == [after |-> SentBound(w.before), before |-> SentBound(w.after)]

\* The window as the service gets it.
SentWindow(w) == [after |-> SentBound(w.after), before |-> SentBound(w.before)]

Time(i) == Base + i * Step

\* Whether a trade is within a window, for the service.
Within(i, w) ==
  /\ w.after = None \/ Time(i) >= w.after
  /\ w.before = None \/ Time(i) <= w.before

\* Fault: from_id is left out of the query
SentFromIDNever(id) == None

\* The from_id that is sent: none for the 0 of a caller that has seen no trade.
SentFromID(id) == IF id > 0 THEN id ELSE None

\* What the service makes of it: WHERE id > ?
AfterID(i, from) == from = None \/ i > from

\* The next page of trades, for a caller that passes the id of the last trade
\* it has seen, and goes on for ever.  Without from_id the service is taken to
\* begin with the oldest trade.
ReadTrades ==
  /\ walk.kind = "trades"
  /\ LET found == {i \in live : AfterID(i, SentFromID(cursor)) /\ Within(i, SentWindow(walk.window))}
         page == Page(found, TRUE, 0, Cap)
     IN  /\ page # <<>>
         /\ got' = got \o page
         /\ cursor' = page[Len(page)]
  /\ UNCHANGED <<walk, start, listVars>>

-----------------------------------------------------------------------------
(* The listing                                                             *)

\* A new element.
Add ==
  /\ last < MaxId
  /\ last' = last + 1
  /\ live' = live \cup {last + 1}
  /\ added' = added + 1
  /\ UNCHANGED <<walk, cursor, got, start, removed>>

\* An element leaves the listing or no longer passes the filter; trades stay.
Leave(i) ==
  /\ walk.kind # "trades" /\ i \in live
  /\ live' = live \ {i}
  /\ removed' = removed + 1
  /\ UNCHANGED <<walk, cursor, got, start, last, added>>

Next == ReadEvents \/ ReadOrders \/ ReadTrades \/ Add \/ \E i \in 1..MaxId : Leave(i)

Spec == Init /\ [][Next]_vars

\* The caller goes on as long as there is a cursor.
FairSpec == Spec /\ WF_vars(ReadEvents)

-----------------------------------------------------------------------------
(* Properties                                                              *)

Returned == {got[k] : k \in DOMAIN got}

TypeOK ==
  /\ walk \in Walk
  /\ cursor \in Nat \cup {None}
  /\ last \in 0..MaxId /\ live \subseteq 1..last
  /\ got \in Seq(1..last)
  /\ start \subseteq 1..last
  /\ removed \in Nat /\ added \in 0..MaxId

\* A walk by offset that has come to its end missed at most as many of the
\* elements that were there all the time as were removed meanwhile, if its
\* limit is one the service keeps to (gamma/client.go:159-169, 221-225).
MissedAtMostRemoved ==
  walk.kind = "events" /\ walk.limit \in 1..Cap /\ cursor = None
    => Cardinality((start \cap live) \ Returned) <= removed

\* A walk by offset returns at most as many elements again as were added
\* meanwhile, and none if new ones come last (gamma/client.go:159-169, 221-225).
RepeatedAtMostAdded ==
  walk.kind = "events" =>
    Len(got) - Cardinality(Returned) <= IF walk.ascending THEN 0 ELSE added

\* A walk through the orders that has come to its end has returned every order
\* that was there all the time, and none twice: a page that does not decode
\* ends no walk and is not passed over (orders_json.go:19-52).
OrdersComplete ==
  walk.kind = "orders" =>
    /\ Len(got) = Cardinality(Returned)
    /\ cursor = None => start \cap live \subseteq Returned

\* A caller that passes on the id of the last trade it has seen gets each trade
\* once and in order, without a gap up to the last one, however late trades are
\* added (client.go:382-445, withFromIDQuery at 722-729).
TradesOnceInOrder ==
  walk.kind = "trades" =>
    /\ \A k \in 2..Len(got) : got[k - 1] < got[k]
    /\ \A i \in live : i <= cursor /\ i \notin Returned
         => ~Within(i, SentWindow(walk.window))

\* What is returned lies within the window that was asked for, and what lies
\* within it is returned, but for the two minutes that float32 bounds cost at
\* either end (client.go:396-402).
WindowNearlyKept ==
  walk.kind = "trades" =>
    LET Move(t, d) == IF t = None THEN None ELSE t + d
        Wider(d)   == [after  |-> Move(walk.window.after, -d),
                       before |-> Move(walk.window.before, d)]
    IN  /\ \A i \in Returned : Within(i, Wider(128))
        /\ \A i \in live : i <= cursor /\ Within(i, Wider(-128)) => i \in Returned

\* A walk by offset through a listing of bounded length ends, with any limit
\* and also with none (gamma/client.go:159-169, 221-225).
WalkEnds == walk.kind = "events" ~> cursor = None
=============================================================================
