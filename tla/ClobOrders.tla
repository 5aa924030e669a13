----------------------------- MODULE ClobOrders -----------------------------
(***************************************************************************)
(* The calls of clob.Facade that change orders: PlaceOrder, PlaceOrders,   *)
(* CancelOrder, CancelOrders, CancelByTokenID and ReplaceOrders.  A call   *)
(* checks and signs its items one by one, sends one request of those that  *)
(* passed, and fits the answer back to its arguments.  The request lives   *)
(* on its own: the exchange carries it out item by item, may stop in the   *)
(* middle, and goes on after the call has given up (ctx done, connection   *)
(* lost); the answer may be cut short or unreadable.                       *)
(*                                                                         *)
(* The exchange is modelled from the OpenAPI document and the tests.  It   *)
(* tells the truth about what it names, but need not name everything, and  *)
(* it gives an id only to a request that it made an order of: PlaceOrder,  *)
(* which does not read success, would return any other id as placed.  An   *)
(* order has the name of the request item it was made from: <<c, i>> for   *)
(* reqs[i-1] of call c.  All orders are of one token.                      *)
(***************************************************************************)
EXTENDS OrderSigning, Sequences

CONSTANTS
  Calls,       \* calls made
  Old,         \* orders of the account from before
  NoId,        \* the empty order id
  MaxOrders,   \* bound: requests in one call
  Arguments,   \* Arguments[c]: what call c may be made with
  Requests,    \* Requests[c][i]: the order request at i, if c is given so many
  OrderSigners,\* the calls whose signer can sign orders; the others sign text
  RefuseCodes, \* HTTP statuses of a request that was turned away untouched
  StopCodes    \* HTTP statuses of one that was stopped on the way

Items == Calls \X (1..MaxOrders)
Ids   == Old \cup Items

Placing   == {"PlaceOrder", "PlaceOrders", "ReplaceOrders"}
Cancelling == {"CancelOrder", "CancelOrders", "CancelByTokenID", "ReplaceOrders"}
Argument  == [op : Placing \cup Cancelling, ids : Seq(Ids \cup {NoId}), n : 0..MaxOrders]

ASSUME ArgumentsAssumption ==
  /\ MaxOrders \in Nat
  /\ NoId \notin Ids
  /\ Old \cap Items = {}
  /\ \A c \in Calls : Arguments[c] \subseteq Argument
  /\ \A c \in Calls : \A a \in Arguments[c] :
       /\ a.op \notin Placing => a.n = 0
       /\ a.op \notin Cancelling => a.ids = <<>>
       /\ a.op = "PlaceOrder" => a.n = 1
       /\ a.op = "CancelOrder" => Len(a.ids) = 1
       /\ a.op = "CancelByTokenID" => a.ids = <<>>
  /\ \A c \in Calls : \A i \in 1..MaxOrders : Requests[c][i] \in OrderReq
  /\ OrderSigners \subseteq Calls
  /\ RefuseCodes \subseteq {400, 401, 404, 412, 422, 429}
  /\ StopCodes \subseteq {403, 500, 503}

VARIABLES
  \* the calls
  pc,        \* where each call stands
  args,      \* its arguments
  next,      \* the next item its loops look at
  cancelIdx, \* wireIdx: positions of the ids that are sent
  orderIdx,  \* signedIdx: positions of the requests that are sent
  cancels,   \* its CancelResults
  places,    \* its PlaceResults
  err,       \* the error it returned
  \* the exchange
  net,       \* the request: not there, being carried out, ended in some way
  cancelLog, \* what became of the ids carried out so far
  placeLog,  \* whether an order was made of the requests so far
  open,      \* orders that can be filled or cancelled
  taken      \* orders ever made

callVars == <<pc, args, next, cancelIdx, orderIdx, cancels, places, err>>
logVars  == <<net, cancelLog, placeLog>>
bookVars == <<open, taken>>
vars     == <<callVars, logVars, bookVars>>

Errors == {"nil", "ErrSign", "ErrPrecondition", "ErrNotFound", "ErrRateLimit",
           "ErrUpstream", "ErrCancelled"}

\* What becomes of an id; "failed" stands for every refusal.
Statuses == {"canceled", "not_found", "failed"}

\* wrapHTTPError
HTTPError(code) ==
  CASE code \in {401, 403} -> "ErrSign"
    [] code = 404          -> "ErrNotFound"
    [] code \in {412, 422} -> "ErrPrecondition"
    [] code = 429          -> "ErrRateLimit"
    [] OTHER               -> "ErrUpstream"

NoArgs == [op |-> "none", ids |-> <<>>, n |-> 0]

Init ==
  /\ pc        = [c \in Calls |-> "idle"]
  /\ args      = [c \in Calls |-> NoArgs]
  /\ next      = [c \in Calls |-> 1]
  /\ cancelIdx = [c \in Calls |-> <<>>]
  /\ orderIdx  = [c \in Calls |-> <<>>]
  /\ cancels   = [c \in Calls |-> <<>>]
  /\ places    = [c \in Calls |-> <<>>]
  /\ err       = [c \in Calls |-> "nil"]
  /\ net       = [c \in Calls |-> "none"]
  /\ cancelLog = [c \in Calls |-> <<>>]
  /\ placeLog  = [c \in Calls |-> <<>>]
  /\ open      = Old
  /\ taken     = Old

-----------------------------------------------------------------------------
(* A call up to its request                                                *)

Return(c, e) ==
  /\ pc' = [pc EXCEPT ![c] = "done"]
  /\ err' = [err EXCEPT ![c] = e]

\* A call is made.  ReplaceOrders starts from "result not received"; the others
\* from results without error.
Start(c) ==
  /\ pc[c] = "idle"
  /\ \E a \in Arguments[c] :
       LET e == IF a.op = "ReplaceOrders" THEN "ErrUpstream" ELSE "nil" IN
       /\ \A k \in 1..Len(a.ids) : a.ids[k] \in taken \cup {NoId}
       /\ args' = [args EXCEPT ![c] = a]
       /\ cancels' = [cancels EXCEPT ![c] = [k \in 1..Len(a.ids) |-> e]]
       /\ places' = [places EXCEPT ![c] = [i \in 1..a.n |-> [id |-> NoId, err |-> e]]]
  /\ pc' = [pc EXCEPT ![c] = "scan"]
  /\ UNCHANGED <<next, cancelIdx, orderIdx, err, logVars, bookVars>>

\* An empty id is not sent.
ScanId(c) ==
  LET k == next[c] IN
  /\ pc[c] = "scan" /\ k <= Len(args[c].ids)
  /\ next' = [next EXCEPT ![c] = k + 1]
  /\ \/ /\ args[c].ids[k] = NoId
        /\ cancels' = [cancels EXCEPT ![c][k] = "ErrPrecondition"]
        /\ UNCHANGED cancelIdx
     \/ /\ args[c].ids[k] # NoId
        /\ cancelIdx' = [cancelIdx EXCEPT ![c] = Append(@, k)]
        /\ UNCHANGED cancels
  /\ UNCHANGED <<pc, args, orderIdx, places, err, logVars, bookVars>>

Scanned(c) ==
  /\ pc[c] = "scan" /\ next[c] > Len(args[c].ids)
  /\ pc' = [pc EXCEPT ![c] = "sign"]
  /\ next' = [next EXCEPT ![c] = 1]
  /\ UNCHANGED <<args, cancelIdx, orderIdx, cancels, places, err, logVars, bookVars>>

\* Fault, for a mutation check: counts positions from zero
SignItemZeroBased(c) ==
  LET i == next[c] IN
  /\ pc[c] = "sign" /\ i <= args[c].n
  /\ next' = [next EXCEPT ![c] = i + 1]
  /\ ~Refused(Requests[c][i])
  /\ orderIdx' = [orderIdx EXCEPT ![c] = Append(@, i - 1)]
  /\ UNCHANGED <<pc, args, cancelIdx, cancels, places, err, logVars, bookVars>>

\* signOne: the request may be refused, the signer may fail or be missing.
SignItem(c) ==
  LET i == next[c] IN
  /\ pc[c] = "sign" /\ i <= args[c].n
  /\ next' = [next EXCEPT ![c] = i + 1]
  /\ \/ /\ ~Refused(Requests[c][i])
        /\ orderIdx' = [orderIdx EXCEPT ![c] = Append(@, i)]
        /\ UNCHANGED places
     \/ /\ \E e \in {"ErrSign", "ErrPrecondition"} :
             /\ e = "ErrPrecondition" => Refused(Requests[c][i])
             /\ places' = [places EXCEPT ![c][i].err = e]
        /\ UNCHANGED orderIdx
  /\ UNCHANGED <<pc, args, cancelIdx, cancels, err, logVars, bookVars>>

SignFailed(c) == Len(orderIdx[c]) < args[c].n
Single(c) == args[c].op \in {"PlaceOrder", "CancelOrder"}

\* The end of the loops with nothing to send.  The calls for one item return
\* that item's error.
SendNothing(c) ==
  /\ pc[c] = "sign" /\ next[c] > args[c].n
  /\ cancelIdx[c] = <<>> /\ orderIdx[c] = <<>> /\ args[c].op # "CancelByTokenID"
  /\ Return(c, IF ~Single(c) THEN "nil"
               ELSE IF args[c].op = "PlaceOrder" THEN places[c][1].err ELSE cancels[c][1])
  /\ UNCHANGED <<args, next, cancelIdx, orderIdx, cancels, places, logVars, bookVars>>

\* ReplaceOrders cancels nothing when it could not sign everything.
SendHeldBack(c) ==
  /\ pc[c] = "sign" /\ next[c] > args[c].n
  /\ args[c].op = "ReplaceOrders" /\ SignFailed(c) /\ cancelIdx[c] # <<>>
  /\ Return(c, "ErrSign")
  /\ UNCHANGED <<args, next, cancelIdx, orderIdx, cancels, places, logVars, bookVars>>

\* Fault, for a mutation check: sends what there is
SendAnyway(c) ==
  /\ pc[c] = "sign" /\ next[c] > args[c].n
  /\ cancelIdx[c] # <<>> \/ orderIdx[c] # <<>> \/ args[c].op = "CancelByTokenID"
  /\ pc' = [pc EXCEPT ![c] = "wait"]
  /\ net' = [net EXCEPT ![c] = "sent"]
  /\ UNCHANGED <<args, next, cancelIdx, orderIdx, cancels, places, err,
                 cancelLog, placeLog, bookVars>>

Send(c) ==
  /\ pc[c] = "sign" /\ next[c] > args[c].n
  /\ cancelIdx[c] # <<>> \/ orderIdx[c] # <<>> \/ args[c].op = "CancelByTokenID"
  /\ ~(SignFailed(c) /\ cancelIdx[c] # <<>>)
  /\ pc' = [pc EXCEPT ![c] = "wait"]
  /\ net' = [net EXCEPT ![c] = "sent"]
  /\ UNCHANGED <<args, next, cancelIdx, orderIdx, cancels, places, err,
                 cancelLog, placeLog, bookVars>>

-----------------------------------------------------------------------------
(* The exchange                                                            *)

\* The next id to cancel.
ServeCancel(c) ==
  LET k == Len(cancelLog[c]) + 1 IN
  /\ net[c] = "sent" /\ k <= Len(cancelIdx[c])
  /\ LET id == args[c].ids[cancelIdx[c][k]] IN
     \E s \in Statuses :
       /\ s = "canceled"  => id \in open
       /\ s = "not_found" => id \notin open
       /\ cancelLog' = [cancelLog EXCEPT ![c] = Append(@, s)]
       /\ open' = IF s = "canceled" THEN open \ {id} ELSE open
  /\ UNCHANGED <<callVars, net, placeLog, taken>>

\* The next request to place, after all cancels: rejected, made an order that
\* rests, or made one that is filled at once.
ServePlace(c) ==
  LET k == Len(placeLog[c]) + 1 IN
  /\ net[c] = "sent"
  /\ Len(cancelLog[c]) = Len(cancelIdx[c]) /\ k <= Len(orderIdx[c])
  /\ LET id == <<c, orderIdx[c][k]>> IN
     \E made \in BOOLEAN : \E rests \in BOOLEAN :
       /\ rests => made
       /\ placeLog' = [placeLog EXCEPT ![c] = Append(@, made)]
       /\ taken' = IF made THEN taken \cup {id} ELSE taken
       /\ open' = IF rests THEN open \cup {id} ELSE open
  /\ UNCHANGED <<callVars, net, cancelLog>>

\* DELETE /cancel-market-orders
ServeToken(c) ==
  /\ net[c] = "sent" /\ args[c].op = "CancelByTokenID"
  /\ net' = [net EXCEPT ![c] = "served"]
  /\ open' = {}
  /\ UNCHANGED <<callVars, cancelLog, placeLog, taken>>

\* The request ends: carried out, turned away untouched, or stopped on the way.
ServeEnd(c) ==
  /\ net[c] = "sent"
  /\ \/ /\ args[c].op # "CancelByTokenID"
        /\ Len(cancelLog[c]) = Len(cancelIdx[c]) /\ Len(placeLog[c]) = Len(orderIdx[c])
        /\ net' = [net EXCEPT ![c] = "served"]
     \/ /\ cancelLog[c] = <<>> /\ placeLog[c] = <<>>
        /\ net' = [net EXCEPT ![c] = "refused"]
     \/ net' = [net EXCEPT ![c] = "stopped"]
  /\ UNCHANGED <<callVars, cancelLog, placeLog, bookVars>>

\* An order is filled or expires.
Fill(id) ==
  /\ id \in open
  /\ open' = open \ {id}
  /\ UNCHANGED <<callVars, logVars, taken>>

-----------------------------------------------------------------------------
(* A call from its request on                                              *)

Waits(c, ops) == pc[c] = "wait" /\ args[c].op \in ops

\* The transport fails or ctx is done, whatever becomes of the request.  The
\* results stay as they are.
TransportError(c) ==
  /\ pc[c] = "wait"
  /\ \E e \in {"ErrUpstream", "ErrCancelled"} : Return(c, e)
  /\ UNCHANGED <<args, next, cancelIdx, orderIdx, cancels, places, logVars, bookVars>>

\* The status of an answer that is not 2xx.
Codes(c) == IF net[c] = "refused" THEN RefuseCodes
            ELSE IF net[c] = "stopped" THEN StopCodes ELSE {}

TakeStatus(c) ==
  /\ Waits(c, (Placing \cup Cancelling) \ {"ReplaceOrders"})
  /\ \E code \in Codes(c) : Return(c, HTTPError(code))
  /\ UNCHANGED <<args, next, cancelIdx, orderIdx, cancels, places, logVars, bookVars>>

\* A 2xx answer that cannot be decoded.
TakeGarbled(c) ==
  /\ Waits(c, {"PlaceOrder", "PlaceOrders", "CancelOrders", "ReplaceOrders"})
  /\ net[c] = "served"
  /\ Return(c, "ErrUpstream")
  /\ UNCHANGED <<args, next, cancelIdx, orderIdx, cancels, places, logVars, bookVars>>

\* CancelOrder and CancelByTokenID look at the status only.
TakeCancelled(c) ==
  /\ Waits(c, {"CancelOrder", "CancelByTokenID"}) /\ net[c] = "served"
  /\ Return(c, "nil")
  /\ UNCHANGED <<args, next, cancelIdx, orderIdx, cancels, places, logVars, bookVars>>

\* The positions an index holds, and where position i stands in it.
Sent(idx)  == {idx[k] : k \in DOMAIN idx}
At(idx, i) == CHOOSE k \in DOMAIN idx : idx[k] = i

NotPlaced == [id |-> NoId, err |-> "ErrUpstream"]

\* What the exchange can say of the k-th request it was sent.
Entry(c, k) ==
  [success |-> placeLog[c][k],
   id      |-> IF placeLog[c][k] THEN <<c, orderIdx[c][k]>> ELSE NoId]

\* The result of a request after the k-th entry of the answer, e its error
\* before.  PlaceOrder does not look at success.
Placed(c, k, e) ==
  LET entry == Entry(c, k) IN
  IF (args[c].op = "PlaceOrder" \/ entry.success) /\ entry.id # NoId
  THEN [id |-> entry.id, err |-> e] ELSE NotPlaced

\* Fault: the entry at a request's own position
PlaceResultsByPosition(c, m) ==
  [i \in 1..args[c].n |-> IF i <= m THEN Placed(c, i, places[c][i].err) ELSE places[c][i]]

\* Fault: says nothing of the requests a short answer leaves out
PlaceResultsShort(c, m) ==
  [i \in 1..args[c].n |->
     IF i \in Sent(orderIdx[c]) /\ At(orderIdx[c], i) <= m
     THEN Placed(c, At(orderIdx[c], i), places[c][i].err) ELSE places[c][i]]

\* The results of PlaceOrders after an answer of the first m entries.
PlaceResults(c, m) ==
  [i \in 1..args[c].n |->
     IF i \notin Sent(orderIdx[c]) THEN places[c][i]
     ELSE IF At(orderIdx[c], i) <= m THEN Placed(c, At(orderIdx[c], i), places[c][i].err)
     ELSE NotPlaced]

\* PlaceOrder and PlaceOrders; the former returns the error of its one item.
TakePlaced(c) ==
  /\ Waits(c, {"PlaceOrder", "PlaceOrders"}) /\ net[c] = "served"
  /\ \E m \in 0..Len(placeLog[c]) :
       /\ places' = [places EXCEPT ![c] = PlaceResults(c, m)]
       /\ Return(c, IF Single(c) THEN places'[c][1].err ELSE "nil")
  /\ UNCHANGED <<args, next, cancelIdx, orderIdx, cancels, logVars, bookVars>>

\* The ids the exchange is done with in one of the ways s.
Listed(c, s) ==
  {args[c].ids[cancelIdx[c][k]] : k \in {j \in DOMAIN cancelLog[c] : cancelLog[c][j] \in s}}

\* The error of an id after an answer with these two lists.
CancelError(id, e, canceled, notCanceled) ==
  IF id \in notCanceled \/ (canceled # {} /\ id \notin canceled) THEN "ErrUpstream" ELSE e

\* CancelOrders: the exchange lists every id it did not cancel, and may leave
\* out the list of those it did.
TakeCancels(c) ==
  /\ Waits(c, {"CancelOrders"}) /\ net[c] = "served"
  /\ \E canceled \in SUBSET Listed(c, {"canceled"}) :
       cancels' = [cancels EXCEPT ![c] =
         [k \in 1..Len(args[c].ids) |->
            IF args[c].ids[k] = NoId THEN cancels[c][k]
            ELSE CancelError(args[c].ids[k], cancels[c][k], canceled,
                             Listed(c, {"not_found", "failed"}))]]
  /\ Return(c, "nil")
  /\ UNCHANGED <<args, next, cancelIdx, orderIdx, places, logVars, bookVars>>

Cancelled(s) == s \in {"canceled", "not_found"}

\* Fault: goes by position alone
ReplaceCancelByPosition(c, k, pos) ==
  IF k <= Len(pos) /\ Cancelled(cancelLog[c][pos[k]]) THEN "nil" ELSE "ErrUpstream"

\* mapReplaceCancels: the error of the k-th id that was sent, when the answer
\* lists the entries of the log at pos.  An entry counts if it names the id.
ReplaceCancel(c, k, pos) ==
  IF /\ k <= Len(pos)
     /\ args[c].ids[cancelIdx[c][pos[k]]] = args[c].ids[cancelIdx[c][k]]
     /\ Cancelled(cancelLog[c][pos[k]])
  THEN "nil" ELSE "ErrUpstream"

ReplaceCancels(c, pos) ==
  [j \in 1..Len(args[c].ids) |->
     IF j \in Sent(cancelIdx[c]) THEN ReplaceCancel(c, At(cancelIdx[c], j), pos)
     ELSE cancels[c][j]]

\* mapReplacePlacements: entries carry the index of the request on the wire.
\* The answer has those for the indices named, in any order.
ReplacePlacements(c, named) ==
  [i \in 1..args[c].n |->
     IF i \notin Sent(orderIdx[c]) THEN places[c][i]
     ELSE IF At(orderIdx[c], i) \in named THEN Placed(c, At(orderIdx[c], i), "nil")
     ELSE NotPlaced]

\* The error ReplaceOrders returns with its results.
ReplaceErrors(c) == IF net[c] = "served" THEN {"nil"} ELSE {HTTPError(code) : code \in Codes(c)}

\* ReplaceOrders fits in what the answer says, whatever its status.
TakeReplaced(c) ==
  /\ Waits(c, {"ReplaceOrders"}) /\ net[c] \in {"served", "stopped"}
  /\ \E len \in 0..Len(cancelLog[c]) :
     \E pos \in [1..len -> 1..Len(cancelLog[c])] :
       cancels' = [cancels EXCEPT ![c] = ReplaceCancels(c, pos)]
  /\ \E named \in SUBSET (1..Len(placeLog[c])) :
       places' = [places EXCEPT ![c] = ReplacePlacements(c, named)]
  /\ \E e \in ReplaceErrors(c) : Return(c, e)
  /\ UNCHANGED <<args, next, cancelIdx, orderIdx, logVars, bookVars>>

\* An answer without body, or one that is an error and no envelope.
TakeNoEnvelope(c) ==
  /\ Waits(c, {"ReplaceOrders"}) /\ net[c] \in {"served", "refused", "stopped"}
  /\ \E e \in ReplaceErrors(c) : Return(c, e)
  /\ UNCHANGED <<args, next, cancelIdx, orderIdx, cancels, places, logVars, bookVars>>

CallStep(c) ==
  \/ Start(c) \/ ScanId(c) \/ Scanned(c) \/ SignItem(c)
  \/ SendNothing(c) \/ SendHeldBack(c) \/ Send(c)
  \/ TransportError(c) \/ TakeStatus(c) \/ TakeGarbled(c) \/ TakeCancelled(c)
  \/ TakePlaced(c) \/ TakeCancels(c) \/ TakeReplaced(c) \/ TakeNoEnvelope(c)

ExchangeStep(c) == ServeCancel(c) \/ ServePlace(c) \/ ServeToken(c) \/ ServeEnd(c)

Next ==
  \/ \E c \in Calls : CallStep(c) \/ ExchangeStep(c)
  \/ \E id \in Ids : Fill(id)

Spec == Init /\ [][Next]_vars

-----------------------------------------------------------------------------
(* Properties                                                              *)

\* The errors of signOne.
SignErrors  == {"ErrSign", "ErrPrecondition"}
PlaceResult == [id : Items \cup {NoId}, err : {"nil", "ErrUpstream"} \cup SignErrors]

CallTypeOK ==
  /\ pc \in [Calls -> {"idle", "scan", "sign", "wait", "done"}]
  /\ args \in [Calls -> Argument \cup {NoArgs}]
  /\ next \in [Calls -> Nat \ {0}]
  /\ cancelIdx \in [Calls -> Seq(Nat)]
  /\ orderIdx \in [Calls -> Seq(Nat)]
  /\ cancels \in [Calls -> Seq(Errors)]
  /\ places \in [Calls -> Seq(PlaceResult)]
  /\ err \in [Calls -> Errors]

ExchangeTypeOK ==
  /\ net \in [Calls -> {"none", "sent", "served", "refused", "stopped"}]
  /\ cancelLog \in [Calls -> Seq(Statuses)]
  /\ placeLog \in [Calls -> Seq(BOOLEAN)]
  /\ open \subseteq taken
  /\ taken \subseteq Ids

PositionsOK(c) ==
  /\ Sent(cancelIdx[c]) \subseteq DOMAIN args[c].ids
  /\ Sent(orderIdx[c]) \subseteq 1..args[c].n
  /\ Len(cancels[c]) = Len(args[c].ids)
  /\ Len(places[c]) = args[c].n
  /\ Len(cancelLog[c]) <= Len(cancelIdx[c])
  /\ Len(placeLog[c]) <= Len(orderIdx[c])

TypeOK == CallTypeOK /\ ExchangeTypeOK /\ \A c \in Calls : PositionsOK(c)

\* What a call has said of the request at i once it has returned.  A request
\* is refused if its own error says so, or if the call for it returned an error
\* of the exchange's other than ErrSign, ErrUpstream and ErrCancelled.
Refusals == {"ErrPrecondition", "ErrNotFound", "ErrRateLimit"}

Said(c, i) ==
  IF pc[c] # "done" \/ i > args[c].n THEN [verdict |-> "none", id |-> NoId]
  ELSE LET r == places[c][i] IN
       IF r.err = "nil" /\ r.id # NoId THEN [verdict |-> "placed", id |-> r.id]
       ELSE IF \/ r.err \in {"ErrSign", "ErrPrecondition"}
               \/ args[c].op # "ReplaceOrders" /\ err[c] \in Refusals
            THEN [verdict |-> "refused", id |-> NoId]
            ELSE [verdict |-> "unknown", id |-> NoId]

Promise == INSTANCE OrderPromise WITH
  placed <- taken \ Old,
  word   <- [it \in Items |-> Said(it[1], it[2])]

\* The placing calls keep the promise of OrderPromise through local refusals,
\* short answers, fail-stops and lost answers: an id is returned only for the
\* request it was made from, and what is reported refused never gets placed
\* (client_batch.go:53-115, client_replace.go:169-199, client.go:86-113).
PromiseKept == Promise!Spec

\* An id reported as cancelled is not open, and stays so: by CancelOrders if
\* the exchange lists what it did not cancel, by ReplaceOrders in any case
\* (client_batch.go:177-210, client_replace.go:138-167).  CancelOrder is not
\* among them: it does not read the list of refusals in the answer.
CancelledAsReported ==
  \A c \in Calls : \A k \in DOMAIN cancels[c] :
    /\ pc[c] = "done" /\ cancels[c][k] = "nil"
    /\ args[c].op = "ReplaceOrders" \/ (args[c].op = "CancelOrders" /\ err[c] = "nil")
    => args[c].ids[k] \notin open

\* Nothing is cancelled for a replacement that is not sent: once an id of a
\* ReplaceOrders has been looked at by the exchange, every request of the call
\* has been signed and sent along (client_replace.go:89-91).
ReplaceWhole ==
  \A c \in Calls :
    args[c].op = "ReplaceOrders" /\ cancelLog[c] # <<>> => Len(orderIdx[c]) = args[c].n

\* After the return every request has an id or an error and not both
\* (client_batch.go:11-17), of ReplaceOrders always, of the other two unless
\* the call as a whole failed.
EveryItemAnswered ==
  \A c \in Calls : \A i \in 1..args[c].n :
    pc[c] = "done" /\ (args[c].op = "ReplaceOrders" \/ err[c] = "nil")
      => (places[c][i].err = "nil" <=> places[c][i].id # NoId)

\* Whatever an order signer signs and is sent verifies: the signature covers the
\* very fields that the wire order has, salt included, and its recovery byte is
\* what the contracts expect (client.go:176-210, 221-238, helpers.go:25-46).  The
\* orders of any other signer are sent too, and do not verify (211-219).
OrdersVerify ==
  \A c \in Calls : \A k \in DOMAIN orderIdx[c] : \A v \in {0, 1} :
    LET i == orderIdx[c][k]
        r == Requests[c][i]
    IN  WellFormed(r) =>
          (Verifies(Signature(r, i, v, c \in OrderSigners), SentFields(r, i))
             <=> c \in OrderSigners)

\* What is signed keeps to the limit price: by less than one base unit of tokens
\* or of USDC for every size, and never above it in what a buyer pays if the size
\* has no more than six decimals (client.go:456-481).
LimitKept ==
  \A c \in Calls : \A k \in DOMAIN orderIdx[c] : WithinLimit(Requests[c][orderIdx[c][k]])
=============================================================================
