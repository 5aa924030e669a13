-------------------------- MODULE ClobOrdersProofs --------------------------
(***************************************************************************)
(* Proofs about ClobOrders, for any number of calls, ids and requests.     *)
(* Inv relates what a call has found out about its items to the positions  *)
(* it sends and to what the exchange has done with them.                   *)
(***************************************************************************)
EXTENDS ClobOrders, OrderSigningProofs, TLAPS

\* A call before its request: nothing is sent, and no request is carried out
\* in part unless it was sent and not turned away.
Fresh(c) ==
  /\ pc[c] = "idle" => args[c] = NoArgs /\ cancelIdx[c] = <<>> /\ next[c] = 1
  /\ pc[c] \in {"idle", "scan"} => orderIdx[c] = <<>>
  /\ pc[c] \in {"idle", "scan", "sign"} => net[c] = "none"
  /\ pc[c] # "idle" => args[c] \in Arguments[c]
  /\ net[c] \in {"none", "refused"} => cancelLog[c] = <<>> /\ placeLog[c] = <<>>

\* The ids: an empty one has its error, the others are sent and name orders.
Scan(c) ==
  /\ \A k \in DOMAIN args[c].ids : args[c].ids[k] \in taken \cup {NoId}
  /\ \A j \in DOMAIN cancelIdx[c] : args[c].ids[cancelIdx[c][j]] # NoId
  /\ \A k \in DOMAIN args[c].ids : (pc[c] = "scan" => k < next[c]) =>
       IF args[c].ids[k] = NoId THEN cancels[c][k] = "ErrPrecondition"
                                ELSE k \in Sent(cancelIdx[c])

\* The requests: each is sent once or has its error, as soon as it is tried.
Sign(c) ==
  /\ Len(orderIdx[c]) <= args[c].n
  /\ \A j, k \in DOMAIN orderIdx[c] : j # k => orderIdx[c][j] # orderIdx[c][k]
  /\ \A k \in DOMAIN orderIdx[c] : ~Refused(Requests[c][orderIdx[c][k]])
  /\ pc[c] = "sign" => /\ Len(orderIdx[c]) < next[c]
                       /\ \A k \in DOMAIN orderIdx[c] : orderIdx[c][k] < next[c]
  /\ \A i \in 1..args[c].n :
       /\ places[c][i].err \in SignErrors => i \notin Sent(orderIdx[c])
       /\ pc[c] = "scan" \/ (pc[c] = "sign" /\ next[c] <= i)
            => places[c][i].err \notin SignErrors
       /\ pc[c] \in {"wait", "done"} \/ (pc[c] = "sign" /\ i < next[c])
            => i \in Sent(orderIdx[c]) \/ places[c][i].err \in SignErrors

\* The exchange: it does what its log says, completely if it says so.
Log(c) ==
  /\ net[c] = "served" /\ args[c].op # "CancelByTokenID" =>
       /\ Len(cancelLog[c]) = Len(cancelIdx[c])
       /\ Len(placeLog[c]) = Len(orderIdx[c])
  /\ \A k \in DOMAIN placeLog[c] : placeLog[c][k] => <<c, orderIdx[c][k]>> \in taken
  /\ \A i \in 1..MaxOrders : <<c, i>> \in taken =>
       \E k \in DOMAIN placeLog[c] : placeLog[c][k] /\ orderIdx[c][k] = i
  /\ \A k \in DOMAIN cancelLog[c] :
       Cancelled(cancelLog[c][k]) => args[c].ids[cancelIdx[c][k]] \notin open
  /\ args[c].op = "ReplaceOrders" /\ net[c] # "none" /\ cancelIdx[c] # <<>>
       => Len(orderIdx[c]) = args[c].n

\* The results.
Told(c) ==
  /\ \A i \in 1..args[c].n : places[c][i].id # NoId =>
       places[c][i].id = <<c, i>> /\ <<c, i>> \in taken
  /\ args[c].op # "ReplaceOrders" /\ pc[c] # "done" => \A i \in 1..args[c].n :
       places[c][i].id = NoId /\ places[c][i].err # "ErrUpstream"
  /\ args[c].op = "ReplaceOrders" => \A i \in 1..args[c].n :
       places[c][i].err = "nil" <=> places[c][i].id # NoId
  /\ args[c].op # "ReplaceOrders" /\ pc[c] = "done" /\ err[c] = "nil" =>
       \A i \in 1..args[c].n : places[c][i].err = "nil" <=> places[c][i].id # NoId
  /\ args[c].op = "ReplaceOrders" /\ pc[c] # "done" =>
       \A k \in DOMAIN args[c].ids : cancels[c][k] # "nil"
  /\ pc[c] = "wait" /\ args[c].op = "PlaceOrder" => 1 \in Sent(orderIdx[c])
  /\ pc[c] = "done" /\ args[c].op # "ReplaceOrders" /\ err[c] \in Refusals
       => net[c] \in {"none", "refused"}
  /\ \A k \in DOMAIN cancels[c] :
       /\ pc[c] = "done" /\ cancels[c][k] = "nil"
       /\ args[c].op = "ReplaceOrders" \/ (args[c].op = "CancelOrders" /\ err[c] = "nil")
       => args[c].ids[k] \notin open

CallInv(c) == Fresh(c) /\ Scan(c) /\ Sign(c) /\ Log(c) /\ Told(c)

Inv == TypeOK /\ \A c \in Calls : CallInv(c)

-----------------------------------------------------------------------------
(* Types                                                                   *)

\* Where a position that is sent stands in its index (client_batch.go:87-114).
LEMMA AtLemma ==
  ASSUME NEW idx, NEW i \in Sent(idx)
  PROVE  At(idx, i) \in DOMAIN idx /\ idx[At(idx, i)] = i
<1>1. PICK k \in DOMAIN idx : idx[k] = i
  BY DEF Sent
<1> QED
  BY <1>1 DEF At

\* A function on 1..n is a sequence.
LEMMA FunIsSeq ==
  ASSUME NEW S, NEW n \in Nat, NEW f \in [1..n -> S]
  PROVE  f \in Seq(S) /\ Len(f) = n
  OBVIOUS

\* What a position more makes of an index (client_batch.go:53-61, 137-145).
LEMMA AppendLemma ==
  ASSUME NEW S, NEW idx \in Seq(S), NEW x \in S
  PROVE  LET new == Append(idx, x) IN
         /\ new \in Seq(S) /\ Len(idx) \in Nat /\ Len(new) = Len(idx) + 1
         /\ DOMAIN new = 1..(Len(idx) + 1)
         /\ DOMAIN idx = 1..Len(idx)
         /\ \A j \in DOMAIN idx : j \in DOMAIN new /\ new[j] = idx[j]
         /\ new[Len(idx) + 1] = x
         /\ Sent(new) = Sent(idx) \cup {x}
<1> DEFINE new == Append(idx, x)
<1>1. /\ new \in Seq(S) /\ Len(idx) \in Nat /\ Len(new) = Len(idx) + 1
      /\ DOMAIN new = 1..(Len(idx) + 1)
      /\ DOMAIN idx = 1..Len(idx)
      /\ \A j \in DOMAIN idx : j \in DOMAIN new /\ new[j] = idx[j]
      /\ new[Len(idx) + 1] = x
  OBVIOUS
<1>2. \A j \in DOMAIN new : j \in DOMAIN idx \/ j = Len(idx) + 1
  BY <1>1
<1>3. Sent(new) = Sent(idx) \cup {x}
  <2> HIDE DEF new
  <2>1. Sent(new) \subseteq Sent(idx) \cup {x}
    BY <1>1, <1>2 DEF Sent
  <2>2. Sent(idx) \subseteq Sent(new)
    BY <1>1 DEF Sent
  <2>3. Len(idx) + 1 \in DOMAIN new
    BY <1>1
  <2>4. x \in Sent(new)
    BY <1>1, <2>3 DEF Sent
  <2> QED
    BY <2>1, <2>2, <2>4
<1> QED
  BY <1>1, <1>3

\* Nothing is sent of an empty index.
LEMMA SentNothing == Sent(<<>>) = {}
  BY DEF Sent

\* What the assumption says of the arguments a call can have.
LEMMA ArgsLemma ==
  ASSUME TypeOK, NEW c \in Calls
  PROVE  /\ args[c].n \in Nat /\ args[c].n <= MaxOrders
         /\ args[c].ids \in Seq(Ids \cup {NoId})
         /\ DOMAIN args[c].ids = 1..Len(args[c].ids)
         /\ args[c] = NoArgs \/ args[c] \in Argument
<1> MaxOrders \in Nat
  BY ArgumentsAssumption
<1>1. args[c] = NoArgs \/ args[c] \in Argument
  BY DEF TypeOK, CallTypeOK
<1>2. CASE args[c] = NoArgs
  BY <1>2 DEF NoArgs
<1>3. CASE args[c] \in Argument
  BY <1>3 DEF Argument
<1> QED
  BY <1>1, <1>2, <1>3

\* What the types say of a call.
LEMMA CallTypes ==
  ASSUME TypeOK, NEW c \in Calls
  PROVE  /\ cancelIdx[c] \in Seq(Nat) /\ Len(cancelIdx[c]) \in Nat
         /\ DOMAIN cancelIdx[c] = 1..Len(cancelIdx[c])
         /\ orderIdx[c] \in Seq(Nat) /\ Len(orderIdx[c]) \in Nat
         /\ DOMAIN orderIdx[c] = 1..Len(orderIdx[c])
         /\ cancels[c] \in Seq(Errors)
         /\ DOMAIN cancels[c] = DOMAIN args[c].ids
         /\ places[c] \in Seq(PlaceResult)
         /\ DOMAIN places[c] = 1..args[c].n
         /\ next[c] \in Nat \ {0}
         /\ cancelLog[c] \in Seq(Statuses) /\ Len(cancelLog[c]) \in Nat
         /\ DOMAIN cancelLog[c] = 1..Len(cancelLog[c])
         /\ DOMAIN cancelLog[c] \subseteq DOMAIN cancelIdx[c]
         /\ placeLog[c] \in Seq(BOOLEAN) /\ Len(placeLog[c]) \in Nat
         /\ DOMAIN placeLog[c] = 1..Len(placeLog[c])
         /\ DOMAIN placeLog[c] \subseteq DOMAIN orderIdx[c]
         /\ \A i \in 1..args[c].n : places[c][i] \in PlaceResult
         /\ \A k \in DOMAIN args[c].ids : cancels[c][k] \in Errors
         /\ \A k \in DOMAIN cancelLog[c] : cancelLog[c][k] \in Statuses
         /\ \A k \in DOMAIN placeLog[c] : placeLog[c][k] \in BOOLEAN
         /\ \A k \in DOMAIN orderIdx[c] : orderIdx[c][k] \in 1..args[c].n
         /\ \A k \in DOMAIN cancelIdx[c] : cancelIdx[c][k] \in DOMAIN args[c].ids
<1>1. /\ cancelIdx[c] \in Seq(Nat) /\ orderIdx[c] \in Seq(Nat)
      /\ cancels[c] \in Seq(Errors) /\ places[c] \in Seq(PlaceResult)
      /\ cancelLog[c] \in Seq(Statuses) /\ placeLog[c] \in Seq(BOOLEAN)
      /\ next[c] \in Nat \ {0}
  BY DEF TypeOK, CallTypeOK, ExchangeTypeOK
<1>2. /\ Len(cancels[c]) = Len(args[c].ids) /\ Len(places[c]) = args[c].n
      /\ Len(cancelLog[c]) <= Len(cancelIdx[c]) /\ Len(placeLog[c]) <= Len(orderIdx[c])
  BY DEF TypeOK, PositionsOK
<1>3. /\ \A k \in DOMAIN orderIdx[c] : orderIdx[c][k] \in 1..args[c].n
      /\ \A k \in DOMAIN cancelIdx[c] : cancelIdx[c][k] \in DOMAIN args[c].ids
  BY DEF TypeOK, PositionsOK, Sent
<1>4. DOMAIN args[c].ids = 1..Len(args[c].ids) /\ args[c].n \in Nat
  BY ArgsLemma
<1>5. /\ \A i \in 1..args[c].n : places[c][i] \in PlaceResult
      /\ \A k \in DOMAIN args[c].ids : cancels[c][k] \in Errors
  BY <1>1, <1>2, <1>4
<1>6. /\ \A k \in DOMAIN cancelLog[c] : cancelLog[c][k] \in Statuses
      /\ \A k \in DOMAIN placeLog[c] : placeLog[c][k] \in BOOLEAN
  BY <1>1
<1> QED
  BY <1>1, <1>2, <1>3, <1>4, <1>5, <1>6

\* The results of the answers are results.
LEMMA PlacedType ==
  ASSUME TypeOK, NEW c \in Calls, NEW k \in DOMAIN placeLog[c],
         NEW e \in {"nil", "ErrUpstream"} \cup SignErrors
  PROVE  Placed(c, k, e) \in PlaceResult
<1>1. k \in DOMAIN orderIdx[c] /\ placeLog[c][k] \in BOOLEAN
  BY CallTypes
<1>2. orderIdx[c][k] \in 1..args[c].n
  BY <1>1, CallTypes
<1>3. <<c, orderIdx[c][k]>> \in Items
  BY <1>2, ArgsLemma, ArgumentsAssumption DEF Items
<1>4. Placed(c, k, e) \in {[id |-> <<c, orderIdx[c][k]>>, err |-> e], NotPlaced}
  BY <1>1 DEF Placed, Entry
<1> QED
  BY <1>3, <1>4 DEF NotPlaced, PlaceResult

\* PlaceResults keeps one result per request (client_batch.go:86-115).
LEMMA PlaceResultsType ==
  ASSUME TypeOK, NEW c \in Calls, NEW m \in 0..Len(placeLog[c])
  PROVE  /\ PlaceResults(c, m) \in Seq(PlaceResult)
         /\ Len(PlaceResults(c, m)) = args[c].n
<1>1. \A i \in 1..args[c].n : places[c][i] \in PlaceResult
  BY CallTypes
<1>2. NotPlaced \in PlaceResult
  BY DEF NotPlaced, PlaceResult
<1>3. ASSUME NEW i \in 1..args[c].n, i \in Sent(orderIdx[c]), At(orderIdx[c], i) <= m
      PROVE  Placed(c, At(orderIdx[c], i), places[c][i].err) \in PlaceResult
  <2>1. At(orderIdx[c], i) \in DOMAIN orderIdx[c]
    BY <1>3, AtLemma
  <2>2. At(orderIdx[c], i) \in DOMAIN placeLog[c]
    BY <1>3, <2>1, CallTypes
  <2> QED
    BY <2>2, <1>1, PlacedType DEF PlaceResult
<1>4. \A i \in 1..args[c].n : PlaceResults(c, m)[i] \in PlaceResult
  BY <1>1, <1>2, <1>3 DEF PlaceResults
<1>5. args[c].n \in Nat
  BY ArgsLemma
<1> PlaceResults(c, m) \in [1..args[c].n -> PlaceResult]
  BY <1>4, <1>5 DEF PlaceResults
<1> QED
  BY <1>5, FunIsSeq

\* So does mapReplacePlacements (client_replace.go:169-200) ...
LEMMA ReplacePlacementsType ==
  ASSUME TypeOK, NEW c \in Calls, NEW named \in SUBSET (1..Len(placeLog[c]))
  PROVE  /\ ReplacePlacements(c, named) \in Seq(PlaceResult)
         /\ Len(ReplacePlacements(c, named)) = args[c].n
<1>1. \A i \in 1..args[c].n : places[c][i] \in PlaceResult
  BY CallTypes
<1>2. NotPlaced \in PlaceResult
  BY DEF NotPlaced, PlaceResult
<1>3. ASSUME NEW i \in 1..args[c].n, i \in Sent(orderIdx[c]), At(orderIdx[c], i) \in named
      PROVE  Placed(c, At(orderIdx[c], i), "nil") \in PlaceResult
  <2>1. At(orderIdx[c], i) \in DOMAIN placeLog[c]
    BY <1>3, CallTypes
  <2> QED
    BY <2>1, PlacedType
<1>4. \A i \in 1..args[c].n : ReplacePlacements(c, named)[i] \in PlaceResult
  BY <1>1, <1>2, <1>3 DEF ReplacePlacements
<1>5. args[c].n \in Nat
  BY ArgsLemma
<1> ReplacePlacements(c, named) \in [1..args[c].n -> PlaceResult]
  BY <1>4, <1>5 DEF ReplacePlacements
<1> QED
  BY <1>5, FunIsSeq

\* ... and mapReplaceCancels one per id (client_replace.go:138-167).
LEMMA ReplaceCancelsType ==
  ASSUME TypeOK, NEW c \in Calls, NEW pos
  PROVE  /\ ReplaceCancels(c, pos) \in Seq(Errors)
         /\ Len(ReplaceCancels(c, pos)) = Len(args[c].ids)
<1>1. \A k \in 1..Len(args[c].ids) : cancels[c][k] \in Errors
  BY ArgsLemma, CallTypes
<1>2. \A k \in 1..Len(args[c].ids) : ReplaceCancels(c, pos)[k] \in Errors
  BY <1>1 DEF ReplaceCancels, ReplaceCancel, Errors
<1>3. Len(args[c].ids) \in Nat
  BY ArgsLemma
<1> ReplaceCancels(c, pos) \in [1..Len(args[c].ids) -> Errors]
  BY <1>2, <1>3 DEF ReplaceCancels
<1> QED
  BY <1>3, FunIsSeq

\* wrapHTTPError gives an error of the package (errors.go:147-161).
LEMMA HTTPErrorType ==
  ASSUME NEW code \in RefuseCodes \cup StopCodes
  PROVE  /\ HTTPError(code) \in Errors \ {"nil"}
         /\ code \in StopCodes => HTTPError(code) \notin Refusals
<1>1. code \in {400, 401, 403, 404, 412, 422, 429, 500, 503}
  BY ArgumentsAssumption
<1>2. code \in StopCodes => code \in {403, 500, 503}
  BY ArgumentsAssumption
<1> QED
  BY <1>1, <1>2 DEF HTTPError, Errors, Refusals

-----------------------------------------------------------------------------
(* What the steps of a call leave alone                                    *)

Unchanged(d) ==
  /\ pc'[d] = pc[d] /\ args'[d] = args[d] /\ next'[d] = next[d]
  /\ cancelIdx'[d] = cancelIdx[d] /\ orderIdx'[d] = orderIdx[d]
  /\ cancels'[d] = cancels[d] /\ places'[d] = places[d] /\ err'[d] = err[d]
  /\ net'[d] = net[d] /\ cancelLog'[d] = cancelLog[d] /\ placeLog'[d] = placeLog[d]

\* Every variable is a function on the calls.
LEMMA Domains ==
  ASSUME TypeOK
  PROVE  /\ DOMAIN pc = Calls /\ DOMAIN args = Calls /\ DOMAIN next = Calls
         /\ DOMAIN cancelIdx = Calls /\ DOMAIN orderIdx = Calls
         /\ DOMAIN cancels = Calls /\ DOMAIN places = Calls /\ DOMAIN err = Calls
         /\ DOMAIN net = Calls /\ DOMAIN cancelLog = Calls /\ DOMAIN placeLog = Calls
  BY DEF TypeOK, CallTypeOK, ExchangeTypeOK

\* A step of one call leaves the others alone.
LEMMA Others ==
  ASSUME TypeOK, NEW c \in Calls, CallStep(c) \/ ExchangeStep(c), NEW d \in Calls \ {c}
  PROVE  Unchanged(d)
<1> USE Domains DEF Unchanged, callVars, logVars, bookVars
<1>1. CASE Start(c)
  BY <1>1 DEF Start
<1>2. CASE ScanId(c)
  BY <1>2 DEF ScanId
<1>3. CASE Scanned(c)
  BY <1>3 DEF Scanned
<1>4. CASE SignItem(c)
  BY <1>4 DEF SignItem
<1>5. CASE SendNothing(c)
  BY <1>5 DEF SendNothing, Return
<1>6. CASE SendHeldBack(c)
  BY <1>6 DEF SendHeldBack, Return
<1>7. CASE Send(c)
  BY <1>7 DEF Send
<1>8. CASE TransportError(c)
  BY <1>8 DEF TransportError, Return
<1>9. CASE TakeStatus(c)
  BY <1>9 DEF TakeStatus, Return
<1>10. CASE TakeGarbled(c)
  BY <1>10 DEF TakeGarbled, Return
<1>11. CASE TakeCancelled(c)
  BY <1>11 DEF TakeCancelled, Return
<1>12. CASE TakePlaced(c)
  BY <1>12 DEF TakePlaced, Return
<1>13. CASE TakeCancels(c)
  BY <1>13 DEF TakeCancels, Return
<1>14. CASE TakeReplaced(c)
  BY <1>14 DEF TakeReplaced, Return
<1>15. CASE TakeNoEnvelope(c)
  BY <1>15 DEF TakeNoEnvelope, Return
<1>16. CASE ServeCancel(c)
  BY <1>16 DEF ServeCancel
<1>17. CASE ServePlace(c)
  BY <1>17 DEF ServePlace
<1>18. CASE ServeToken(c)
  BY <1>18 DEF ServeToken
<1>19. CASE ServeEnd(c)
  BY <1>19 DEF ServeEnd
<1> QED
  BY <1>1, <1>2, <1>3, <1>4, <1>5, <1>6, <1>7, <1>8, <1>9, <1>10, <1>11, <1>12, <1>13, <1>14, <1>15, <1>16, <1>17, <1>18, <1>19 DEF CallStep, ExchangeStep

\* The return of a call, with its error and its results.
Returns(c, e, cs, ps) ==
  /\ pc[c] \in {"sign", "wait"}
  /\ pc[c] = "sign" => args[c].n < next[c]
  /\ Return(c, e)
  /\ cancels' = [cancels EXCEPT ![c] = cs]
  /\ places' = [places EXCEPT ![c] = ps]
  /\ UNCHANGED <<args, next, cancelIdx, orderIdx, logVars, bookVars>>

\* What keeps Inv true when a call returns with e, cs and ps.
Good(c, e, cs, ps) ==
  /\ e \in Errors
  /\ cs \in Seq(Errors) /\ Len(cs) = Len(args[c].ids)
  /\ ps \in Seq(PlaceResult) /\ Len(ps) = args[c].n
  /\ \A k \in DOMAIN args[c].ids : args[c].ids[k] = NoId => cs[k] = "ErrPrecondition"
  /\ \A i \in 1..args[c].n :
       IF i \in Sent(orderIdx[c]) THEN ps[i].err \notin SignErrors ELSE ps[i] = places[c][i]
  /\ \A i \in 1..args[c].n : ps[i].id # NoId => ps[i].id = <<c, i>> /\ <<c, i>> \in taken
  /\ args[c].op = "ReplaceOrders" \/ e = "nil" =>
       \A i \in 1..args[c].n : ps[i].err = "nil" <=> ps[i].id # NoId
  /\ args[c].op # "ReplaceOrders" /\ e \in Refusals => net[c] \in {"none", "refused"}
  /\ \A k \in DOMAIN args[c].ids :
       /\ cs[k] = "nil"
       /\ args[c].op = "ReplaceOrders" \/ (args[c].op = "CancelOrders" /\ e = "nil")
       => args[c].ids[k] \notin open

\* A return that leaves the results as they are.
LEMMA SameResults ==
  ASSUME Inv, NEW c \in Calls, NEW e \in Errors,
         pc[c] \in {"sign", "wait"},
         pc[c] = "sign" => args[c].n < next[c],
         args[c].op # "ReplaceOrders" /\ e \in Refusals => net[c] \in {"none", "refused"},
         args[c].op # "ReplaceOrders" /\ e = "nil" =>
           \A i \in 1..args[c].n : i \notin Sent(orderIdx[c]),
         args[c].op = "CancelOrders" /\ e = "nil" => cancelIdx[c] = <<>>
  PROVE  Good(c, e, cancels[c], places[c])
<1> USE DEF Inv, CallInv
<1>1. /\ cancels[c] \in Seq(Errors) /\ Len(cancels[c]) = Len(args[c].ids)
      /\ places[c] \in Seq(PlaceResult) /\ Len(places[c]) = args[c].n
  BY CallTypes DEF TypeOK, PositionsOK
<1>2. \A k \in DOMAIN args[c].ids : args[c].ids[k] = NoId => cancels[c][k] = "ErrPrecondition"
  BY DEF Scan
<1>3. \A i \in 1..args[c].n : i \in Sent(orderIdx[c]) => places[c][i].err \notin SignErrors
  BY DEF Sign
<1>4. \A i \in 1..args[c].n : places[c][i].id # NoId =>
        places[c][i].id = <<c, i>> /\ <<c, i>> \in taken
  BY DEF Told
<1>5. ASSUME args[c].op # "ReplaceOrders", e = "nil", NEW i \in 1..args[c].n
      PROVE  places[c][i].err = "nil" <=> places[c][i].id # NoId
  <2>1. places[c][i].id = NoId
    BY <1>5 DEF Told
  <2>2. i < next[c] \/ pc[c] = "wait"
    BY ArgsLemma, CallTypes
  <2>3. places[c][i].err \in SignErrors
    BY <1>5, <2>2 DEF Sign
  <2> QED
    BY <2>1, <2>3 DEF SignErrors
<1>6. args[c].op = "ReplaceOrders" =>
        \A i \in 1..args[c].n : places[c][i].err = "nil" <=> places[c][i].id # NoId
  BY DEF Told
<1>7. ASSUME NEW k \in DOMAIN args[c].ids, cancels[c][k] = "nil",
             args[c].op = "ReplaceOrders" \/ (args[c].op = "CancelOrders" /\ e = "nil")
      PROVE  FALSE
  <2>1. CASE args[c].op = "ReplaceOrders"
    BY <1>7, <2>1 DEF Told
  <2>2. CASE args[c].op = "CancelOrders" /\ e = "nil"
    <3>1. Sent(cancelIdx[c]) = {}
      BY <2>2 DEF Sent
    <3> QED
      BY <1>7, <3>1 DEF Scan
  <2> QED
    BY <1>7, <2>1, <2>2
<1> QED
  BY <1>1, <1>2, <1>3, <1>4, <1>5, <1>6, <1>7 DEF Good

\* A call that waits, or is about to, has arguments the environment may give.
LEMMA Begun ==
  ASSUME Inv, NEW c \in Calls, pc[c] \in {"sign", "wait"}
  PROVE  /\ args[c] \in Argument
         /\ args[c].op \notin Placing => args[c].n = 0
         /\ args[c].op \notin Cancelling => args[c].ids = <<>>
         /\ args[c].op = "PlaceOrder" => args[c].n = 1
         /\ args[c].op = "CancelOrder" => Len(args[c].ids) = 1
         /\ args[c].op = "CancelByTokenID" => args[c].ids = <<>>
<1>1. args[c] \in Arguments[c]
  BY DEF Inv, CallInv, Fresh
<1> QED
  BY <1>1, ArgumentsAssumption

Answered(c) == \E e, cs, ps : Returns(c, e, cs, ps) /\ Good(c, e, cs, ps)

\* A call that had said nothing and returns with its results as they are keeps
\* the invariant: a local refusal, a transport error, an HTTP error.
LEMMA PlainReturn ==
  ASSUME Inv, NEW c \in Calls, NEW e \in Errors,
         pc[c] \in {"sign", "wait"},
         pc[c] = "sign" => args[c].n < next[c],
         args[c].op # "ReplaceOrders" /\ e \in Refusals => net[c] \in {"none", "refused"},
         args[c].op # "ReplaceOrders" /\ e = "nil" =>
           \A i \in 1..args[c].n : i \notin Sent(orderIdx[c]),
         args[c].op = "CancelOrders" /\ e = "nil" => cancelIdx[c] = <<>>,
         Return(c, e),
         UNCHANGED <<args, next, cancelIdx, orderIdx, cancels, places, logVars, bookVars>>
  PROVE  Answered(c)
<1>1. Good(c, e, cancels[c], places[c])
  BY SameResults
<1>2. /\ cancels = [cancels EXCEPT ![c] = cancels[c]]
      /\ places = [places EXCEPT ![c] = places[c]]
  BY DEF Inv, TypeOK, CallTypeOK
<1>3. Returns(c, e, cancels[c], places[c])
  BY <1>2 DEF Returns
<1> QED
  BY <1>1, <1>3 DEF Answered

\* The returns that leave the results as they are.
LEMMA PlainReturns ==
  ASSUME Inv, NEW c \in Calls,
         \/ SendNothing(c) \/ SendHeldBack(c) \/ TransportError(c) \/ TakeStatus(c)
         \/ TakeGarbled(c) \/ TakeCancelled(c) \/ TakeNoEnvelope(c)
  PROVE  Answered(c)
<1> TypeOK
  BY DEF Inv
<1> USE DEF Waits
<1>1. CASE SendNothing(c)
  <2> DEFINE e == IF ~Single(c) THEN "nil"
                  ELSE IF args[c].op = "PlaceOrder" THEN places[c][1].err ELSE cancels[c][1]
  <2>1. /\ pc[c] = "sign" /\ args[c].n < next[c]
        /\ cancelIdx[c] = <<>> /\ orderIdx[c] = <<>>
        /\ Return(c, e)
        /\ UNCHANGED <<args, next, cancelIdx, orderIdx, cancels, places, logVars, bookVars>>
    BY <1>1, ArgsLemma, CallTypes DEF SendNothing
  <2>2. ~Single(c) => e \in Errors
    BY DEF Errors
  <2>3. args[c].op = "PlaceOrder" => e \in Errors
    BY <2>1, CallTypes, Begun DEF Single, PlaceResult, SignErrors, Errors
  <2>4. args[c].op = "CancelOrder" => e \in Errors
    BY <2>1, CallTypes, Begun, ArgsLemma DEF Single
  <2>5. e \in Errors
    BY <2>2, <2>3, <2>4 DEF Single
  <2>6. net[c] = "none"
    BY <2>1 DEF Inv, CallInv, Fresh
  <2>7. Sent(orderIdx[c]) = {}
    BY <2>1 DEF Sent
  <2> QED
    BY <2>1, <2>5, <2>6, <2>7, PlainReturn
<1>2. CASE SendHeldBack(c)
  <2>1. /\ pc[c] = "sign" /\ args[c].n < next[c] /\ args[c].op = "ReplaceOrders"
    BY <1>2, ArgsLemma, CallTypes DEF SendHeldBack
  <2> QED
    BY <1>2, <2>1, PlainReturn DEF SendHeldBack, Errors
<1>3. CASE TransportError(c)
  <2>1. PICK e \in {"ErrUpstream", "ErrCancelled"} : Return(c, e)
    BY <1>3 DEF TransportError
  <2>2. e \in Errors /\ e \notin Refusals /\ e # "nil"
    BY DEF Errors, Refusals
  <2> QED
    BY <1>3, <2>1, <2>2, PlainReturn DEF TransportError
<1>4. CASE TakeStatus(c)
  <2>1. PICK code \in Codes(c) : Return(c, HTTPError(code))
    BY <1>4 DEF TakeStatus
  <2>2. code \in RefuseCodes \cup StopCodes
    BY <2>1 DEF Codes
  <2>3. net[c] = "refused" \/ code \in StopCodes
    BY <2>1 DEF Codes
  <2> QED
    BY <1>4, <2>1, <2>2, <2>3, HTTPErrorType, PlainReturn DEF TakeStatus
<1>5. CASE TakeGarbled(c)
  BY <1>5, PlainReturn DEF TakeGarbled, Errors, Refusals
<1>6. CASE TakeCancelled(c)
  <2>1. args[c].n = 0
    BY <1>6, Begun DEF TakeCancelled, Placing
  <2> QED
    BY <1>6, <2>1, PlainReturn DEF TakeCancelled, Errors, Refusals
<1>7. CASE TakeNoEnvelope(c)
  <2>1. PICK e \in ReplaceErrors(c) : Return(c, e)
    BY <1>7 DEF TakeNoEnvelope
  <2>2. e \in Errors
    BY <2>1, HTTPErrorType DEF ReplaceErrors, Codes, Errors
  <2> QED
    BY <1>7, <2>1, <2>2, PlainReturn DEF TakeNoEnvelope
<1> QED
  BY <1>1, <1>2, <1>3, <1>4, <1>5, <1>6, <1>7

\* What a request that is sent and was answered by its entry k is told.
LEMMA PlacedGood ==
  ASSUME Inv, NEW c \in Calls, NEW i \in 1..args[c].n, i \in Sent(orderIdx[c]),
         At(orderIdx[c], i) \in DOMAIN placeLog[c]
  PROVE  LET r == Placed(c, At(orderIdx[c], i), "nil") IN
         /\ r.err \notin SignErrors
         /\ r.id # NoId => r.id = <<c, i>> /\ <<c, i>> \in taken
         /\ r.err = "nil" <=> r.id # NoId
<1> DEFINE k == At(orderIdx[c], i)
<1>1. orderIdx[c][k] = i
  BY AtLemma
<1>2. placeLog[c][k] => <<c, i>> \in taken
  BY <1>1 DEF Inv, CallInv, Log
<1>3. <<c, i>> \in Items /\ <<c, i>> # NoId
  BY ArgsLemma, ArgumentsAssumption DEF Inv, Items, Ids
<1>4. CASE placeLog[c][k]
  <2>1. Placed(c, k, "nil") = [id |-> <<c, i>>, err |-> "nil"]
    BY <1>1, <1>3, <1>4 DEF Placed, Entry
  <2> QED
    BY <1>2, <1>3, <1>4, <2>1 DEF SignErrors
<1>5. CASE ~placeLog[c][k]
  <2>1. Placed(c, k, "nil") = NotPlaced
    BY <1>5 DEF Placed, Entry
  <2> QED
    BY <2>1 DEF NotPlaced, SignErrors
<1> QED
  BY <1>4, <1>5

\* The answer of PlaceOrder and PlaceOrders.
LEMMA PlacedReturn ==
  ASSUME Inv, NEW c \in Calls, TakePlaced(c)
  PROVE  Answered(c)
<1> TypeOK
  BY DEF Inv
<1>1. PICK m \in 0..Len(placeLog[c]) :
        /\ places' = [places EXCEPT ![c] = PlaceResults(c, m)]
        /\ Return(c, IF Single(c) THEN places'[c][1].err ELSE "nil")
  BY DEF TakePlaced
<1>2. /\ pc[c] = "wait" /\ args[c].op \in {"PlaceOrder", "PlaceOrders"} /\ net[c] = "served"
      /\ UNCHANGED <<args, next, cancelIdx, orderIdx, cancels, logVars, bookVars>>
  BY DEF TakePlaced, Waits
<1> DEFINE ps == PlaceResults(c, m)
           e  == IF Single(c) THEN ps[1].err ELSE "nil"
<1>3. ps \in Seq(PlaceResult) /\ Len(ps) = args[c].n
  BY PlaceResultsType
<1>4. places'[c] = ps
  BY <1>1, Domains
<1>5. args[c].ids = <<>> /\ (Single(c) => args[c].n = 1)
  BY <1>2, Begun DEF Cancelling, Single
<1>6. ASSUME NEW i \in 1..args[c].n
      PROVE  /\ IF i \in Sent(orderIdx[c]) THEN ps[i].err \notin SignErrors
                                          ELSE ps[i] = places[c][i]
             /\ ps[i].id # NoId => ps[i].id = <<c, i>> /\ <<c, i>> \in taken
             /\ ps[i].err = "nil" <=> ps[i].id # NoId
             /\ i \in Sent(orderIdx[c]) => ps[i].err \in {"nil", "ErrUpstream"}
  <2>1. places[c][i].id = NoId /\ places[c][i].err # "ErrUpstream"
    BY <1>2 DEF Inv, CallInv, Told
  <2>2. CASE i \notin Sent(orderIdx[c])
    <3>1. ps[i] = places[c][i]
      BY <2>2 DEF PlaceResults
    <3>2. places[c][i].err \in SignErrors
      BY <1>2, <2>2 DEF Inv, CallInv, Sign
    <3> QED
      BY <2>1, <2>2, <3>1, <3>2 DEF SignErrors
  <2>3. CASE i \in Sent(orderIdx[c]) /\ At(orderIdx[c], i) <= m
    <3>1. At(orderIdx[c], i) \in DOMAIN orderIdx[c]
      BY <2>3, AtLemma
    <3>2. At(orderIdx[c], i) \in DOMAIN placeLog[c]
      BY <2>3, <3>1, CallTypes
    <3>3. places[c][i].err \notin SignErrors
      BY <2>3 DEF Inv, CallInv, Sign
    <3>4. places[c][i].err = "nil"
      BY <2>1, <3>3, CallTypes DEF PlaceResult
    <3>5. ps[i] = Placed(c, At(orderIdx[c], i), "nil")
      BY <2>3, <3>4 DEF PlaceResults
    <3>6. ps[i] \in PlaceResult
      BY <3>2, <3>5, PlacedType
    <3> QED
      BY <2>3, <3>2, <3>5, <3>6, PlacedGood DEF PlaceResult
  <2>4. CASE i \in Sent(orderIdx[c]) /\ ~(At(orderIdx[c], i) <= m)
    <3>1. ps[i] = NotPlaced
      BY <2>4 DEF PlaceResults
    <3> QED
      BY <2>4, <3>1 DEF NotPlaced, SignErrors
  <2> QED
    BY <2>2, <2>3, <2>4
<1>7. e \in {"nil", "ErrUpstream"}
  <2>1. CASE Single(c)
    <3>1. args[c].n = 1 /\ args[c].op = "PlaceOrder"
      BY <1>2, <1>5, <2>1 DEF Single
    <3>2. 1 \in Sent(orderIdx[c])
      BY <1>2, <3>1 DEF Inv, CallInv, Told
    <3> QED
      BY <2>1, <3>1, <3>2, <1>6
  <2> QED
    BY <2>1
<1>8. cancels[c] \in Seq(Errors) /\ Len(cancels[c]) = Len(args[c].ids)
  BY CallTypes DEF TypeOK, PositionsOK
<1>9. Good(c, e, cancels[c], ps)
  <2> HIDE DEF ps, e
  <2>1. e \in Errors /\ e \notin Refusals
    BY <1>7 DEF Errors, Refusals
  <2>2. DOMAIN args[c].ids = {}
    BY <1>5
  <2> QED
    BY <1>2, <1>3, <1>6, <1>8, <2>1, <2>2 DEF Good
<1>10. cancels = [cancels EXCEPT ![c] = cancels[c]]
  BY DEF TypeOK, CallTypeOK
<1>11. cancels' = [cancels EXCEPT ![c] = cancels[c]]
  BY <1>2, <1>10
<1>12. Returns(c, e, cancels[c], ps)
  BY <1>1, <1>2, <1>4, <1>11 DEF Returns
<1> QED
  BY <1>9, <1>12 DEF Answered

\* The answer of CancelOrders.
LEMMA CancelsReturn ==
  ASSUME Inv, NEW c \in Calls, TakeCancels(c)
  PROVE  Answered(c)
<1> TypeOK
  BY DEF Inv
<1> DEFINE refused == Listed(c, {"not_found", "failed"})
<1>1. PICK canceled \in SUBSET Listed(c, {"canceled"}) :
        cancels' = [cancels EXCEPT ![c] =
          [k \in 1..Len(args[c].ids) |->
             IF args[c].ids[k] = NoId THEN cancels[c][k]
             ELSE CancelError(args[c].ids[k], cancels[c][k], canceled, refused)]]
  BY DEF TakeCancels
<1>2. /\ pc[c] = "wait" /\ args[c].op = "CancelOrders" /\ net[c] = "served"
      /\ Return(c, "nil")
      /\ UNCHANGED <<args, next, cancelIdx, orderIdx, places, logVars, bookVars>>
  BY DEF TakeCancels, Waits
<1> DEFINE cs == [k \in 1..Len(args[c].ids) |->
                    IF args[c].ids[k] = NoId THEN cancels[c][k]
                    ELSE CancelError(args[c].ids[k], cancels[c][k], canceled, refused)]
<1>3. Len(args[c].ids) \in Nat /\ DOMAIN args[c].ids = 1..Len(args[c].ids)
  BY ArgsLemma
<1>4. cs \in [1..Len(args[c].ids) -> Errors]
  <2> SUFFICES ASSUME NEW k \in 1..Len(args[c].ids)
               PROVE  cs[k] \in Errors
    OBVIOUS
  <2>1. cancels[c][k] \in Errors
    BY <1>3, CallTypes
  <2> QED
    BY <2>1 DEF CancelError, Errors
<1>5. cs \in Seq(Errors) /\ Len(cs) = Len(args[c].ids)
  BY <1>3, <1>4, FunIsSeq
<1>6. \A k \in DOMAIN args[c].ids : args[c].ids[k] = NoId => cs[k] = "ErrPrecondition"
  BY <1>2, <1>3 DEF Inv, CallInv, Scan
<1>7. ASSUME NEW k \in DOMAIN args[c].ids, cs[k] = "nil"
      PROVE  args[c].ids[k] \notin open
  <2>1. args[c].ids[k] # NoId
    BY <1>6, <1>7
  <2>2. k \in Sent(cancelIdx[c])
    BY <1>2, <2>1 DEF Inv, CallInv, Scan
  <2>3. PICK j \in DOMAIN cancelIdx[c] : cancelIdx[c][j] = k
    BY <2>2 DEF Sent
  <2>4. j \in DOMAIN cancelLog[c]
    <3>1. Len(cancelLog[c]) = Len(cancelIdx[c])
      BY <1>2 DEF Inv, CallInv, Log
    <3> QED
      BY <2>3, <3>1, CallTypes
  <2>5. args[c].ids[k] \notin refused
    BY <1>3, <1>7, <2>1 DEF CancelError
  <2>6. cancelLog[c][j] \notin {"not_found", "failed"}
    BY <2>3, <2>4, <2>5 DEF Listed
  <2>7. cancelLog[c][j] = "canceled"
    BY <2>4, <2>6, CallTypes DEF Statuses
  <2> QED
    BY <2>3, <2>4, <2>7 DEF Inv, CallInv, Log, Cancelled
<1>8. Good(c, "nil", cs, places[c])
  <2>1. args[c].n = 0
    BY <1>2, Begun DEF Placing
  <2>2. places[c] \in Seq(PlaceResult) /\ Len(places[c]) = args[c].n
    BY CallTypes DEF TypeOK, PositionsOK
  <2> HIDE DEF cs
  <2> QED
    BY <1>2, <1>5, <1>6, <1>7, <2>1, <2>2 DEF Good, Errors, Refusals
<1>9. places' = [places EXCEPT ![c] = places[c]]
  BY <1>2 DEF TypeOK, CallTypeOK
<1>10. Returns(c, "nil", cs, places[c])
  BY <1>1, <1>2, <1>9 DEF Returns
<1> QED
  BY <1>8, <1>10 DEF Answered

\* The answer of ReplaceOrders.
LEMMA ReplacedReturn ==
  ASSUME Inv, NEW c \in Calls, TakeReplaced(c)
  PROVE  Answered(c)
<1> TypeOK
  BY DEF Inv
<1>1. PICK len \in 0..Len(cancelLog[c]) :
      \E pos \in [1..len -> 1..Len(cancelLog[c])] :
        cancels' = [cancels EXCEPT ![c] = ReplaceCancels(c, pos)]
  BY DEF TakeReplaced
<1>2. PICK pos \in [1..len -> 1..Len(cancelLog[c])] :
        cancels' = [cancels EXCEPT ![c] = ReplaceCancels(c, pos)]
  BY <1>1
<1>3. PICK named \in SUBSET (1..Len(placeLog[c])) :
        places' = [places EXCEPT ![c] = ReplacePlacements(c, named)]
  BY DEF TakeReplaced
<1>4. PICK e \in ReplaceErrors(c) : Return(c, e)
  BY DEF TakeReplaced
<1>5. /\ pc[c] = "wait" /\ args[c].op = "ReplaceOrders"
      /\ UNCHANGED <<args, next, cancelIdx, orderIdx, logVars, bookVars>>
  BY DEF TakeReplaced, Waits
<1>6. e \in Errors
  BY <1>4, HTTPErrorType DEF ReplaceErrors, Codes, Errors
<1> DEFINE cs == ReplaceCancels(c, pos)
           ps == ReplacePlacements(c, named)
<1>7. /\ cs \in Seq(Errors) /\ Len(cs) = Len(args[c].ids)
      /\ ps \in Seq(PlaceResult) /\ Len(ps) = args[c].n
  BY ReplaceCancelsType, ReplacePlacementsType
<1>8. ASSUME NEW k \in DOMAIN args[c].ids
      PROVE  /\ args[c].ids[k] = NoId => cs[k] = "ErrPrecondition"
             /\ cs[k] = "nil" => args[c].ids[k] \notin open
  <2>1. k \in 1..Len(args[c].ids)
    BY ArgsLemma
  <2>2. CASE k \notin Sent(cancelIdx[c])
    <3>1. cs[k] = cancels[c][k]
      BY <2>1, <2>2 DEF ReplaceCancels
    <3>2. cancels[c][k] = "ErrPrecondition"
      BY <1>5, <2>2 DEF Inv, CallInv, Scan
    <3> QED
      BY <2>2, <3>1, <3>2
  <2>3. CASE k \in Sent(cancelIdx[c])
    <3> DEFINE j == At(cancelIdx[c], k)
    <3>1. j \in DOMAIN cancelIdx[c] /\ cancelIdx[c][j] = k
      BY <2>3, AtLemma
    <3>2. args[c].ids[k] # NoId
      BY <3>1 DEF Inv, CallInv, Scan
    <3>3. cs[k] = ReplaceCancel(c, j, pos)
      BY <2>1, <2>3 DEF ReplaceCancels
    <3>4. ASSUME cs[k] = "nil"
          PROVE  args[c].ids[k] \notin open
      <4>1. /\ j <= Len(pos)
            /\ args[c].ids[cancelIdx[c][pos[j]]] = args[c].ids[k]
            /\ Cancelled(cancelLog[c][pos[j]])
        BY <3>1, <3>3, <3>4 DEF ReplaceCancel
      <4>2. Len(pos) = len
        <5>1. len \in Nat
          BY CallTypes
        <5> QED
          BY <5>1, FunIsSeq
      <4>3. pos[j] \in DOMAIN cancelLog[c]
        BY <3>1, <4>1, <4>2, CallTypes, SMTT(30)
      <4> QED
        BY <4>1, <4>3 DEF Inv, CallInv, Log
    <3> QED
      BY <3>2, <3>4
  <2> QED
    BY <2>2, <2>3
<1>9. ASSUME NEW i \in 1..args[c].n
      PROVE  /\ IF i \in Sent(orderIdx[c]) THEN ps[i].err \notin SignErrors
                                          ELSE ps[i] = places[c][i]
             /\ ps[i].id # NoId => ps[i].id = <<c, i>> /\ <<c, i>> \in taken
             /\ ps[i].err = "nil" <=> ps[i].id # NoId
  <2>1. CASE i \notin Sent(orderIdx[c])
    <3>1. ps[i] = places[c][i]
      BY <2>1 DEF ReplacePlacements
    <3> QED
      BY <1>5, <2>1, <3>1 DEF Inv, CallInv, Told
  <2>2. CASE i \in Sent(orderIdx[c]) /\ At(orderIdx[c], i) \in named
    <3>1. ps[i] = Placed(c, At(orderIdx[c], i), "nil")
      BY <2>2 DEF ReplacePlacements
    <3>2. At(orderIdx[c], i) \in DOMAIN placeLog[c]
      BY <2>2, CallTypes
    <3> QED
      BY <2>2, <3>1, <3>2, PlacedGood
  <2>3. CASE i \in Sent(orderIdx[c]) /\ At(orderIdx[c], i) \notin named
    <3>1. ps[i] = NotPlaced
      BY <2>3 DEF ReplacePlacements
    <3> QED
      BY <2>3, <3>1 DEF NotPlaced, SignErrors
  <2> QED
    BY <2>1, <2>2, <2>3
<1>10. Good(c, e, cs, ps)
  <2> HIDE DEF cs, ps
  <2> QED
    BY <1>5, <1>6, <1>7, <1>8, <1>9 DEF Good
<1>11. Returns(c, e, cs, ps)
  BY <1>2, <1>3, <1>4, <1>5 DEF Returns
<1> QED
  BY <1>10, <1>11 DEF Answered

-----------------------------------------------------------------------------
(* Steps                                                                   *)

\* What a step of others leaves of the invariant of a call: orders of its own
\* do not appear, and no order comes back.
LEMMA Frame ==
  ASSUME Inv, NEW d \in Calls, Unchanged(d), taken \subseteq taken',
         \A i \in 1..MaxOrders : <<d, i>> \in taken' => <<d, i>> \in taken,
         \A id \in taken : id \in open' => id \in open
  PROVE  CallInv(d)'
<1> USE DEF Unchanged
<1>1. Fresh(d) /\ Scan(d) /\ Sign(d) /\ Log(d) /\ Told(d)
  BY DEF Inv, CallInv
<1>2. Fresh(d)'
  BY <1>1 DEF Fresh
<1>3. Scan(d)'
  BY <1>1 DEF Scan, Sent
<1>4. Sign(d)'
  BY <1>1 DEF Sign, Sent
<1>5. Log(d)'
  <2>1. \A k \in DOMAIN cancelLog[d] : args[d].ids[cancelIdx[d][k]] \in taken
    BY <1>1, CallTypes DEF Scan, Inv
  <2> QED
    BY <1>1, <2>1 DEF Log
<1>6. Told(d)'
  <2>1. \A k \in DOMAIN cancels[d] : cancels[d][k] = "nil" /\ pc[d] # "scan" =>
          args[d].ids[k] \in taken
    BY <1>1, CallTypes DEF Scan, Inv
  <2>2. \A k \in DOMAIN cancels'[d] :
       /\ pc'[d] = "done" /\ cancels'[d][k] = "nil"
       /\ args'[d].op = "ReplaceOrders" \/ (args'[d].op = "CancelOrders" /\ err'[d] = "nil")
       => args'[d].ids[k] \notin open'
    BY <1>1, <2>1 DEF Told
  <2> QED
    BY <1>1, <2>2 DEF Told, Sent
<1> QED
  BY <1>2, <1>3, <1>4, <1>5, <1>6 DEF CallInv

\* The return of a call keeps the types and its part of the invariant.
LEMMA ReturnsTypes ==
  ASSUME Inv, NEW c \in Calls, NEW e, NEW cs, NEW ps,
         Returns(c, e, cs, ps), Good(c, e, cs, ps)
  PROVE  CallTypeOK' /\ ExchangeTypeOK' /\ PositionsOK(c)'
<1> USE DEF Returns, Return, Good, logVars, bookVars
<1>1. CallTypeOK /\ ExchangeTypeOK /\ PositionsOK(c)
  BY DEF Inv, TypeOK
<1>2. CallTypeOK'
  BY <1>1 DEF CallTypeOK
<1>3. ExchangeTypeOK'
  BY <1>1 DEF ExchangeTypeOK
<1>4. cancels'[c] = cs /\ places'[c] = ps
  BY Domains DEF Inv
<1>5. PositionsOK(c)'
  BY <1>1, <1>4 DEF PositionsOK, Sent
<1> QED
  BY <1>2, <1>3, <1>5

\* Whatever way a call returns, the whole invariant is kept.
LEMMA ReturnsKeep ==
  ASSUME Inv, NEW c \in Calls, NEW e, NEW cs, NEW ps,
         Returns(c, e, cs, ps), Good(c, e, cs, ps)
  PROVE  CallInv(c)'
<1> TypeOK
  BY DEF Inv
<1>1. /\ pc'[c] = "done" /\ err'[c] = e /\ cancels'[c] = cs /\ places'[c] = ps
      /\ args'[c] = args[c] /\ next'[c] = next[c]
      /\ cancelIdx'[c] = cancelIdx[c] /\ orderIdx'[c] = orderIdx[c]
      /\ net'[c] = net[c] /\ cancelLog'[c] = cancelLog[c] /\ placeLog'[c] = placeLog[c]
      /\ taken' = taken /\ open' = open
  BY Domains DEF Returns, Return, logVars, bookVars
<1>2. pc[c] = "wait" \/ (pc[c] = "sign" /\ args[c].n < next[c])
  BY DEF Returns
<1>3. Fresh(c) /\ Scan(c) /\ Sign(c) /\ Log(c)
  BY DEF Inv, CallInv
<1>4. Fresh(c)'
  BY <1>1, <1>2, <1>3 DEF Fresh
<1>5. Scan(c)'
  BY <1>1, <1>2, <1>3 DEF Scan, Sent, Good
<1>6. Sign(c)'
  <2>1. ASSUME NEW i \in 1..args[c].n
        PROVE  /\ ps[i].err \in SignErrors => i \notin Sent(orderIdx[c])
               /\ i \in Sent(orderIdx[c]) \/ ps[i].err \in SignErrors
    <3>1. pc[c] = "wait" \/ (pc[c] = "sign" /\ i < next[c])
      BY <1>2, ArgsLemma, CallTypes
    <3> QED
      BY <1>3, <3>1 DEF Sign, Good
  <2> QED
    BY <1>1, <1>3, <2>1 DEF Sign, Sent
<1>7. Log(c)'
  BY <1>1, <1>3 DEF Log
<1>8. Told(c)'
  <2>1. DOMAIN cs = DOMAIN args[c].ids
    BY ArgsLemma DEF Good
  <2> QED
    BY <1>1, <2>1 DEF Told, Good, Sent
<1> QED
  BY <1>4, <1>5, <1>6, <1>7, <1>8 DEF CallInv

\* What a step of a call has to show.
Keeps(c) == CallTypeOK' /\ ExchangeTypeOK' /\ PositionsOK(c)' /\ CallInv(c)'

\* The making of a call (client_batch.go:45, 129, client_replace.go:49-60).
LEMMA StartKeeps ==
  ASSUME Inv, NEW c \in Calls, Start(c)
  PROVE  Keeps(c)
<1> TypeOK /\ CallTypeOK /\ ExchangeTypeOK /\ PositionsOK(c)
  BY DEF Inv, TypeOK
<1>1. PICK a \in Arguments[c] :
        LET e == IF a.op = "ReplaceOrders" THEN "ErrUpstream" ELSE "nil" IN
        /\ \A k \in 1..Len(a.ids) : a.ids[k] \in taken \cup {NoId}
        /\ args' = [args EXCEPT ![c] = a]
        /\ cancels' = [cancels EXCEPT ![c] = [k \in 1..Len(a.ids) |-> e]]
        /\ places' = [places EXCEPT ![c] = [i \in 1..a.n |-> [id |-> NoId, err |-> e]]]
  BY DEF Start
<1> DEFINE e  == IF a.op = "ReplaceOrders" THEN "ErrUpstream" ELSE "nil"
           cs == [k \in 1..Len(a.ids) |-> e]
           ps == [i \in 1..a.n |-> [id |-> NoId, err |-> e]]
<1>2. /\ a \in Argument /\ a.n \in Nat
      /\ a.ids \in Seq(Ids \cup {NoId}) /\ Len(a.ids) \in Nat
      /\ DOMAIN a.ids = 1..Len(a.ids)
  BY ArgumentsAssumption DEF Argument
<1>3. e \in Errors /\ [id |-> NoId, err |-> e] \in PlaceResult
  BY DEF Errors, PlaceResult
<1>4. /\ cs \in Seq(Errors) /\ Len(cs) = Len(a.ids)
      /\ ps \in Seq(PlaceResult) /\ Len(ps) = a.n
  <2>1. cs \in [1..Len(a.ids) -> Errors] /\ ps \in [1..a.n -> PlaceResult]
    BY <1>3
  <2> QED
    BY <1>2, <2>1, FunIsSeq, SMTT(30)
<1>5. /\ pc[c] = "idle" /\ pc'[c] = "scan" /\ args'[c] = a
      /\ cancels'[c] = cs /\ places'[c] = ps /\ err'[c] = err[c] /\ next'[c] = next[c]
      /\ cancelIdx'[c] = cancelIdx[c] /\ orderIdx'[c] = orderIdx[c]
      /\ net'[c] = net[c] /\ cancelLog'[c] = cancelLog[c] /\ placeLog'[c] = placeLog[c]
      /\ taken' = taken /\ open' = open
  BY <1>1, Domains DEF Start, logVars, bookVars
<1>6. /\ next[c] = 1 /\ cancelIdx[c] = <<>> /\ orderIdx[c] = <<>> /\ net[c] = "none"
      /\ cancelLog[c] = <<>> /\ placeLog[c] = <<>>
  BY <1>5 DEF Inv, CallInv, Fresh
<1>7. CallTypeOK'
  BY <1>1, <1>2, <1>4 DEF CallTypeOK, Start
<1>8. ExchangeTypeOK'
  BY DEF ExchangeTypeOK, Start, logVars, bookVars
<1>9. PositionsOK(c)'
  BY <1>4, <1>5, <1>6, SentNothing DEF PositionsOK
<1>10. Fresh(c)'
  BY <1>5, <1>6 DEF Fresh
<1>11. Scan(c)'
  BY <1>1, <1>2, <1>5, <1>6 DEF Scan
<1>12. Sign(c)'
  BY <1>2, <1>5, <1>6 DEF Sign, SignErrors, Sent
<1>13. Log(c)'
  BY <1>5, <1>6 DEF Log, Inv, CallInv
<1>14. Told(c)'
  BY <1>2, <1>5 DEF Told
<1> QED
  BY <1>7, <1>8, <1>9, <1>10, <1>11, <1>12, <1>13, <1>14 DEF Keeps, CallInv

\* A step of the loop over the ids (client_batch.go:137-145).
LEMMA ScanIdKeeps ==
  ASSUME Inv, NEW c \in Calls, ScanId(c)
  PROVE  Keeps(c)
<1> TypeOK /\ CallTypeOK /\ ExchangeTypeOK /\ PositionsOK(c)
  BY DEF Inv, TypeOK
<1> DEFINE k == next[c]
<1>1. /\ pc[c] = "scan" /\ k \in DOMAIN args[c].ids
      /\ k \in Nat \ {0} /\ DOMAIN args[c].ids = 1..Len(args[c].ids)
  BY ArgsLemma, CallTypes DEF ScanId
<1>2. /\ pc'[c] = pc[c] /\ args'[c] = args[c] /\ next'[c] = k + 1
      /\ orderIdx'[c] = orderIdx[c] /\ places'[c] = places[c] /\ err'[c] = err[c]
      /\ net'[c] = net[c] /\ cancelLog'[c] = cancelLog[c] /\ placeLog'[c] = placeLog[c]
      /\ taken' = taken /\ open' = open
  BY Domains DEF ScanId, logVars, bookVars
<1>3. Fresh(c) /\ Scan(c) /\ Sign(c) /\ Log(c) /\ Told(c)
  BY DEF Inv, CallInv
<1>4. net[c] = "none" /\ cancelLog[c] = <<>> /\ placeLog[c] = <<>> /\ orderIdx[c] = <<>>
  BY <1>1, <1>3 DEF Fresh
<1>5. ExchangeTypeOK'
  BY DEF ExchangeTypeOK, ScanId, logVars, bookVars
<1>6. Fresh(c)' /\ Sign(c)'
  BY <1>1, <1>2, <1>3 DEF Fresh, Sign, Sent
<1>7. CASE args[c].ids[k] = NoId
  <2>1. cancels' = [cancels EXCEPT ![c][k] = "ErrPrecondition"] /\ cancelIdx' = cancelIdx
    BY <1>7 DEF ScanId
  <2>2. cancels'[c] = [cancels[c] EXCEPT ![k] = "ErrPrecondition"]
    BY <2>1, Domains
  <2>3. /\ cancels'[c] \in Seq(Errors) /\ Len(cancels'[c]) = Len(cancels[c])
        /\ DOMAIN cancels'[c] = DOMAIN cancels[c]
    BY <1>1, <2>2, CallTypes DEF Errors
  <2>4. CallTypeOK'
    BY <1>1, <2>1, <2>2, <2>3 DEF CallTypeOK, ScanId
  <2>5. PositionsOK(c)'
    BY <1>2, <2>1, <2>3 DEF PositionsOK, Sent
  <2>6. Scan(c)'
    <3>1. \A j \in DOMAIN args[c].ids : j < next'[c] /\ args[c].ids[j] = NoId =>
            cancels'[c][j] = "ErrPrecondition"
      BY <1>1, <1>2, <1>3, <2>2, CallTypes DEF Scan
    <3>2. \A j \in DOMAIN args[c].ids : j < next'[c] /\ args[c].ids[j] # NoId =>
            j \in Sent(cancelIdx[c])
      BY <1>1, <1>2, <1>3, <1>7, CallTypes DEF Scan
    <3> QED
      BY <1>1, <1>2, <1>3, <2>1, <3>1, <3>2 DEF Scan
  <2>7. Log(c)'
    BY <1>2, <1>3, <2>1 DEF Log
  <2>8. Told(c)'
    <3>1. \A j \in DOMAIN args[c].ids : cancels[c][j] # "nil" => cancels'[c][j] # "nil"
      BY <1>1, <2>2, CallTypes
    <3> QED
      BY <1>1, <1>2, <1>3, <3>1 DEF Told
  <2> QED
    BY <1>5, <1>6, <2>4, <2>5, <2>6, <2>7, <2>8 DEF Keeps, CallInv
<1>8. CASE args[c].ids[k] # NoId
  <2>1. cancelIdx' = [cancelIdx EXCEPT ![c] = Append(@, k)] /\ cancels' = cancels
    BY <1>8 DEF ScanId
  <2>2. cancelIdx'[c] = Append(cancelIdx[c], k)
    BY <2>1, Domains
  <2>3. /\ cancelIdx'[c] \in Seq(Nat) /\ Len(cancelIdx'[c]) = Len(cancelIdx[c]) + 1
        /\ DOMAIN cancelIdx'[c] = 1..(Len(cancelIdx[c]) + 1)
        /\ \A j \in DOMAIN cancelIdx[c] : cancelIdx'[c][j] = cancelIdx[c][j]
        /\ cancelIdx'[c][Len(cancelIdx[c]) + 1] = k
        /\ Sent(cancelIdx'[c]) = Sent(cancelIdx[c]) \cup {k}
    <3>1. cancelIdx[c] \in Seq(Nat) /\ k \in Nat
      BY <1>1, CallTypes
    <3> QED
      BY <2>2, <3>1, AppendLemma, SMTT(30)
  <2>4. /\ Sent(cancelIdx'[c]) \subseteq DOMAIN args[c].ids
        /\ \A j \in DOMAIN cancelIdx'[c] : j \in DOMAIN cancelIdx[c] \/ cancelIdx'[c][j] = k
    BY <1>1, <2>3, CallTypes, SMTT(30) DEF PositionsOK
  <2>5. CallTypeOK'
    BY <1>1, <2>1, <2>2, <2>3 DEF CallTypeOK, ScanId
  <2>6. PositionsOK(c)'
    BY <1>2, <1>4, <2>1, <2>3, <2>4, CallTypes DEF PositionsOK
  <2>7. Scan(c)'
    <3>1. \A j \in DOMAIN cancelIdx'[c] : args[c].ids[cancelIdx'[c][j]] # NoId
      BY <1>3, <1>8, <2>3, <2>4 DEF Scan
    <3>2. \A j \in DOMAIN args[c].ids : j < next'[c] =>
            IF args[c].ids[j] = NoId THEN cancels[c][j] = "ErrPrecondition"
                                     ELSE j \in Sent(cancelIdx'[c])
      BY <1>1, <1>2, <1>3, <1>8, <2>3 DEF Scan
    <3> QED
      BY <1>1, <1>2, <1>3, <2>1, <3>1, <3>2 DEF Scan
  <2>8. Log(c)'
    BY <1>2, <1>3, <1>4, <2>1 DEF Log
  <2>9. Told(c)'
    BY <1>1, <1>2, <1>3, <2>1 DEF Told
  <2> QED
    BY <1>5, <1>6, <2>5, <2>6, <2>7, <2>8, <2>9 DEF Keeps, CallInv
<1> QED
  BY <1>7, <1>8

\* From the ids to the requests (client_replace.go:76-79).
LEMMA ScannedKeeps ==
  ASSUME Inv, NEW c \in Calls, Scanned(c)
  PROVE  Keeps(c)
<1> TypeOK /\ CallTypeOK /\ ExchangeTypeOK /\ PositionsOK(c)
  BY DEF Inv, TypeOK
<1>1. /\ pc[c] = "scan" /\ \A k \in DOMAIN args[c].ids : k < next[c]
  BY ArgsLemma, CallTypes DEF Scanned
<1>2. /\ pc'[c] = "sign" /\ args'[c] = args[c] /\ next'[c] = 1
      /\ cancelIdx'[c] = cancelIdx[c] /\ orderIdx'[c] = orderIdx[c]
      /\ cancels'[c] = cancels[c] /\ places'[c] = places[c] /\ err'[c] = err[c]
      /\ net'[c] = net[c] /\ cancelLog'[c] = cancelLog[c] /\ placeLog'[c] = placeLog[c]
      /\ taken' = taken /\ open' = open
  BY Domains DEF Scanned, logVars, bookVars
<1>3. Fresh(c) /\ Scan(c) /\ Sign(c) /\ Log(c) /\ Told(c)
  BY DEF Inv, CallInv
<1>4. orderIdx[c] = <<>>
  BY <1>1, <1>3 DEF Fresh
<1>5. CallTypeOK'
  BY DEF CallTypeOK, Scanned
<1>6. ExchangeTypeOK'
  BY DEF ExchangeTypeOK, Scanned, logVars, bookVars
<1>7. PositionsOK(c)'
  BY <1>2 DEF PositionsOK, Sent
<1>8. Fresh(c)' /\ Scan(c)'
  BY <1>1, <1>2, <1>3 DEF Fresh, Scan, Sent
<1>9. Sign(c)'
  BY <1>1, <1>2, <1>3, <1>4, ArgsLemma DEF Sign, Sent
<1>10. Log(c)'
  BY <1>2, <1>3 DEF Log
<1>11. Told(c)'
  BY <1>1, <1>2, <1>3 DEF Told
<1> QED
  BY <1>5, <1>6, <1>7, <1>8, <1>9, <1>10, <1>11 DEF Keeps, CallInv

\* A step of the loop over the requests (client_batch.go:53-61).
LEMMA SignItemKeeps ==
  ASSUME Inv, NEW c \in Calls, SignItem(c)
  PROVE  Keeps(c)
<1> TypeOK /\ CallTypeOK /\ ExchangeTypeOK /\ PositionsOK(c)
  BY DEF Inv, TypeOK
<1> DEFINE i == next[c]
<1>1. /\ pc[c] = "sign" /\ i \in 1..args[c].n /\ i \in Nat \ {0}
      /\ args[c].n \in Nat
  BY ArgsLemma, CallTypes DEF SignItem
<1>2. /\ pc'[c] = pc[c] /\ args'[c] = args[c] /\ next'[c] = i + 1
      /\ cancelIdx'[c] = cancelIdx[c] /\ cancels'[c] = cancels[c] /\ err'[c] = err[c]
      /\ net'[c] = net[c] /\ cancelLog'[c] = cancelLog[c] /\ placeLog'[c] = placeLog[c]
      /\ taken' = taken /\ open' = open
  BY Domains DEF SignItem, logVars, bookVars
<1>3. Fresh(c) /\ Scan(c) /\ Sign(c) /\ Log(c) /\ Told(c)
  BY DEF Inv, CallInv
<1>4. net[c] = "none" /\ cancelLog[c] = <<>> /\ placeLog[c] = <<>>
  BY <1>1, <1>3 DEF Fresh
<1>5. ExchangeTypeOK'
  BY DEF ExchangeTypeOK, SignItem, logVars, bookVars
<1>6. Fresh(c)' /\ Scan(c)'
  BY <1>1, <1>2, <1>3 DEF Fresh, Scan, Sent
<1>7. i \notin Sent(orderIdx[c]) /\ places[c][i].err \notin SignErrors
  BY <1>1, <1>3, CallTypes DEF Sign, Sent
<1>8. CASE ~Refused(Requests[c][i])
        /\ orderIdx' = [orderIdx EXCEPT ![c] = Append(@, i)] /\ places' = places
  <2>1. orderIdx[c] \in Seq(Nat) /\ i \in Nat
    BY <1>1, CallTypes
  <2>2. orderIdx'[c] = Append(orderIdx[c], i)
    BY <1>8, Domains
  <2>3. /\ orderIdx'[c] \in Seq(Nat) /\ Len(orderIdx[c]) \in Nat
        /\ Len(orderIdx'[c]) = Len(orderIdx[c]) + 1
        /\ DOMAIN orderIdx'[c] = 1..(Len(orderIdx[c]) + 1)
        /\ DOMAIN orderIdx[c] = 1..Len(orderIdx[c])
        /\ \A j \in DOMAIN orderIdx[c] : orderIdx'[c][j] = orderIdx[c][j]
        /\ orderIdx'[c][Len(orderIdx[c]) + 1] = i
        /\ Sent(orderIdx'[c]) = Sent(orderIdx[c]) \cup {i}
    BY <2>1, <2>2, AppendLemma
  <2>4. CallTypeOK'
    <3>1. next' \in [Calls -> Nat \ {0}]
      BY <1>1 DEF CallTypeOK, SignItem
    <3>2. orderIdx' \in [Calls -> Seq(Nat)]
      BY <1>8, <2>2, <2>3 DEF CallTypeOK
    <3> QED
      BY <1>8, <3>1, <3>2 DEF CallTypeOK, SignItem
  <2>5. PositionsOK(c)'
    BY <1>1, <1>2, <1>4, <1>8, <2>3 DEF PositionsOK
  <2>6. Sign(c)'
    <3>1. Len(orderIdx[c]) < i /\ \A k \in DOMAIN orderIdx[c] : orderIdx[c][k] < i
      BY <1>1, <1>3 DEF Sign
    <3>2. \A j \in DOMAIN orderIdx'[c] :
            j \in DOMAIN orderIdx[c] \/ (j = Len(orderIdx[c]) + 1 /\ j \notin DOMAIN orderIdx[c])
      BY <2>3
    <3>3. \A j \in DOMAIN orderIdx[c] : orderIdx[c][j] \in Nat
      BY CallTypes
    <3>4. \A j, k \in DOMAIN orderIdx'[c] : j # k => orderIdx'[c][j] # orderIdx'[c][k]
      <4> SUFFICES ASSUME NEW j \in DOMAIN orderIdx'[c], NEW k \in DOMAIN orderIdx'[c], j # k
                   PROVE  orderIdx'[c][j] # orderIdx'[c][k]
        OBVIOUS
      <4>1. CASE j \in DOMAIN orderIdx[c] /\ k \in DOMAIN orderIdx[c]
        BY <1>3, <2>3, <4>1 DEF Sign
      <4>2. CASE j \notin DOMAIN orderIdx[c] \/ k \notin DOMAIN orderIdx[c]
        BY <1>1, <2>3, <3>1, <3>2, <3>3, <4>2
      <4> QED
        BY <4>1, <4>2
    <3>5. \A k \in DOMAIN orderIdx'[c] : /\ ~Refused(Requests[c][orderIdx'[c][k]])
                                        /\ orderIdx'[c][k] < i + 1
      BY <1>1, <1>3, <1>8, <2>3, <3>1, <3>2, <3>3 DEF Sign
    <3>6. Len(orderIdx'[c]) <= args[c].n /\ Len(orderIdx'[c]) < i + 1
      BY <1>1, <2>3, <3>1
    <3>7. ASSUME NEW j \in 1..args[c].n
          PROVE  /\ places[c][j].err \in SignErrors => j \notin Sent(orderIdx'[c])
                 /\ i + 1 <= j => places[c][j].err \notin SignErrors
                 /\ j < i + 1 => j \in Sent(orderIdx'[c]) \/ places[c][j].err \in SignErrors
      BY <1>1, <1>3, <1>7, <2>3 DEF Sign
    <3> QED
      BY <1>1, <1>2, <1>8, <3>4, <3>5, <3>6, <3>7 DEF Sign
  <2>7. Log(c)'
    BY <1>2, <1>3, <1>4 DEF Log
  <2>8. Told(c)'
    BY <1>1, <1>2, <1>3, <1>8 DEF Told
  <2> QED
    BY <1>5, <1>6, <2>4, <2>5, <2>6, <2>7, <2>8 DEF Keeps, CallInv
<1>9. ASSUME NEW e \in SignErrors,
             places' = [places EXCEPT ![c][i].err = e], orderIdx' = orderIdx
      PROVE  Keeps(c)
  <2>1. places'[c] = [places[c] EXCEPT ![i].err = e]
    BY <1>9, Domains
  <2>2. places[c][i] \in PlaceResult
    BY <1>1, CallTypes
  <2>3. [places[c][i] EXCEPT !.err = e] \in PlaceResult
    BY <2>2 DEF PlaceResult
  <2>4. places[c] \in Seq(PlaceResult) /\ DOMAIN places[c] = 1..args[c].n
    BY CallTypes
  <2>5. places'[c] = [places[c] EXCEPT ![i] = [places[c][i] EXCEPT !.err = e]]
    BY <1>1, <2>1, <2>4
  <2>6. /\ places'[c] \in Seq(PlaceResult) /\ Len(places'[c]) = Len(places[c])
        /\ \A j \in 1..args[c].n : j # i => places'[c][j] = places[c][j]
        /\ places'[c][i].err = e /\ places'[c][i].id = places[c][i].id
    BY <1>1, <2>2, <2>3, <2>4, <2>5 DEF PlaceResult
  <2>7. places' = [places EXCEPT ![c] = places'[c]]
    BY <1>9 DEF CallTypeOK
  <2>8. CallTypeOK'
    BY <1>1, <1>9, <2>6, <2>7 DEF CallTypeOK, SignItem
  <2>9. PositionsOK(c)'
    BY <1>2, <1>9, <2>6 DEF PositionsOK
  <2>10. Sign(c)'
    <3>1. Len(orderIdx[c]) < i + 1 /\ \A k \in DOMAIN orderIdx[c] : orderIdx[c][k] < i + 1
      BY <1>1, <1>3, CallTypes DEF Sign
    <3>2. ASSUME NEW j \in 1..args[c].n
          PROVE  /\ places'[c][j].err \in SignErrors => j \notin Sent(orderIdx[c])
                 /\ i + 1 <= j => places'[c][j].err \notin SignErrors
                 /\ j < i + 1 => j \in Sent(orderIdx[c]) \/ places'[c][j].err \in SignErrors
      BY <1>1, <1>3, <1>7, <1>9, <2>6 DEF Sign
    <3> QED
      BY <1>1, <1>2, <1>3, <1>9, <3>1, <3>2 DEF Sign
  <2>11. Log(c)'
    BY <1>2, <1>3, <1>9 DEF Log
  <2>12. Told(c)'
    <3>1. e # "nil" /\ e # "ErrUpstream"
      BY <1>9 DEF SignErrors
    <3>2. places[c][i].err = "nil" \/ places[c][i].err = "ErrUpstream"
      BY <1>7, <2>2 DEF PlaceResult
    <3>3. places[c][i].id = NoId
      <4>1. places[c][i].id # NoId => <<c, i>> \in taken
        BY <1>1, <1>3 DEF Told
      <4>2. i \in 1..MaxOrders
        BY <1>1, ArgsLemma, ArgumentsAssumption
      <4> QED
        BY <1>3, <1>4, <4>1, <4>2 DEF Log
    <3> QED
      BY <1>1, <1>2, <1>3, <1>9, <2>6, <3>1, <3>2, <3>3, SMTT(30) DEF Told
  <2> QED
    BY <1>5, <1>6, <2>8, <2>9, <2>10, <2>11, <2>12 DEF Keeps, CallInv
<1> QED
  BY <1>8, <1>9 DEF SignItem, SignErrors

\* The request leaves; all of ReplaceOrders or nothing (client_replace.go:89-111).
LEMMA SendKeeps ==
  ASSUME Inv, NEW c \in Calls, Send(c)
  PROVE  Keeps(c)
<1> TypeOK /\ CallTypeOK /\ ExchangeTypeOK /\ PositionsOK(c)
  BY DEF Inv, TypeOK
<1>1. /\ pc[c] = "sign" /\ args[c].n < next[c]
      /\ cancelIdx[c] # <<>> \/ orderIdx[c] # <<>> \/ args[c].op = "CancelByTokenID"
      /\ cancelIdx[c] # <<>> => ~(Len(orderIdx[c]) < args[c].n)
  BY ArgsLemma, CallTypes DEF Send, SignFailed
<1>2. /\ pc'[c] = "wait" /\ args'[c] = args[c] /\ next'[c] = next[c]
      /\ cancelIdx'[c] = cancelIdx[c] /\ orderIdx'[c] = orderIdx[c]
      /\ cancels'[c] = cancels[c] /\ places'[c] = places[c] /\ err'[c] = err[c]
      /\ net'[c] = "sent" /\ cancelLog'[c] = cancelLog[c] /\ placeLog'[c] = placeLog[c]
      /\ taken' = taken /\ open' = open
  BY Domains DEF Send, bookVars
<1>3. Fresh(c) /\ Scan(c) /\ Sign(c) /\ Log(c) /\ Told(c)
  BY DEF Inv, CallInv
<1>4. CallTypeOK'
  BY DEF CallTypeOK, Send
<1>5. ExchangeTypeOK'
  BY DEF ExchangeTypeOK, Send, bookVars
<1>6. PositionsOK(c)'
  BY <1>2 DEF PositionsOK
<1>7. Fresh(c)' /\ Scan(c)'
  BY <1>1, <1>2, <1>3 DEF Fresh, Scan
<1>8. Sign(c)'
  <2>1. \A i \in 1..args[c].n : i < next[c]
    BY <1>1, ArgsLemma, CallTypes, SMTT(30)
  <2> QED
    BY <1>1, <1>2, <1>3, <2>1 DEF Sign
<1>9. Log(c)'
  <2>1. cancelIdx[c] # <<>> => Len(orderIdx[c]) = args[c].n
    BY <1>1, <1>3, ArgsLemma, CallTypes DEF Sign
  <2> QED
    BY <1>2, <1>3, <2>1 DEF Log
<1>10. Told(c)'
  <2>1. ASSUME args[c].op = "PlaceOrder"
        PROVE  1 \in Sent(orderIdx[c])
    <3>1. args[c].n = 1 /\ args[c].ids = <<>>
      BY <1>1, <2>1, Begun DEF Cancelling
    <3>2. cancelIdx[c] = <<>>
      <4>1. DOMAIN args[c].ids = {}
        BY <3>1
      <4>2. 1 \notin DOMAIN cancelIdx[c]
        BY <4>1, CallTypes
      <4> QED
        BY <4>2, CallTypes
    <3>3. 1 \in DOMAIN orderIdx[c]
      BY <1>1, <2>1, <3>2, CallTypes
    <3> QED
      BY <3>1, <3>3, CallTypes DEF Sent
  <2> QED
    BY <1>1, <1>2, <1>3, <2>1 DEF Told
<1> QED
  BY <1>4, <1>5, <1>6, <1>7, <1>8, <1>9, <1>10 DEF Keeps, CallInv

\* The exchange looks at one id, also after the call has given up.
LEMMA ServeCancelKeeps ==
  ASSUME Inv, NEW c \in Calls, ServeCancel(c)
  PROVE  Keeps(c)
<1> TypeOK /\ CallTypeOK /\ ExchangeTypeOK /\ PositionsOK(c)
  BY DEF Inv, TypeOK
<1> DEFINE k  == Len(cancelLog[c]) + 1
           id == args[c].ids[cancelIdx[c][k]]
<1>1. net[c] = "sent" /\ k \in DOMAIN cancelIdx[c]
  BY CallTypes DEF ServeCancel
<1>2. /\ pc'[c] = pc[c] /\ args'[c] = args[c] /\ next'[c] = next[c]
      /\ cancelIdx'[c] = cancelIdx[c] /\ orderIdx'[c] = orderIdx[c]
      /\ cancels'[c] = cancels[c] /\ places'[c] = places[c] /\ err'[c] = err[c]
      /\ net'[c] = net[c] /\ placeLog'[c] = placeLog[c] /\ taken' = taken
  BY DEF ServeCancel, callVars
<1>3. Fresh(c) /\ Scan(c) /\ Sign(c) /\ Log(c) /\ Told(c)
  BY DEF Inv, CallInv
<1>4. PICK s \in Statuses :
        /\ s = "canceled"  => id \in open
        /\ s = "not_found" => id \notin open
        /\ cancelLog' = [cancelLog EXCEPT ![c] = Append(@, s)]
        /\ open' = IF s = "canceled" THEN open \ {id} ELSE open
  BY DEF ServeCancel
<1>5. cancelLog'[c] = Append(cancelLog[c], s) /\ cancelLog[c] \in Seq(Statuses)
  BY <1>4, Domains, CallTypes
<1>6. /\ cancelLog'[c] \in Seq(Statuses) /\ Len(cancelLog[c]) \in Nat
      /\ Len(cancelLog'[c]) = k /\ DOMAIN cancelLog'[c] = 1..k
      /\ DOMAIN cancelLog[c] = 1..(k - 1)
      /\ \A j \in DOMAIN cancelLog[c] : cancelLog'[c][j] = cancelLog[c][j]
      /\ cancelLog'[c][k] = s
  BY <1>5, AppendLemma
<1>7. CallTypeOK'
  BY DEF CallTypeOK, ServeCancel, callVars
<1>8. ExchangeTypeOK'
  BY <1>4, <1>5, <1>6 DEF ExchangeTypeOK, ServeCancel
<1>9. PositionsOK(c)'
  BY <1>1, <1>2, <1>6, CallTypes, SMTT(30) DEF PositionsOK
<1>10. Fresh(c)' /\ Scan(c)' /\ Sign(c)'
  BY <1>1, <1>2, <1>3 DEF Fresh, Scan, Sign
<1>11. Log(c)'
  <2>1. \A j \in DOMAIN cancelLog'[c] : j \in DOMAIN cancelLog[c] \/ j = k
    BY <1>6
  <2>2. Cancelled(s) => id \notin open'
    BY <1>4 DEF Cancelled
  <2>4. open' \subseteq open
    BY <1>4
  <2>3. \A j \in DOMAIN cancelLog'[c] : Cancelled(cancelLog'[c][j]) =>
          args[c].ids[cancelIdx[c][j]] \notin open'
    <3> SUFFICES ASSUME NEW j \in DOMAIN cancelLog'[c], Cancelled(cancelLog'[c][j])
                 PROVE  args[c].ids[cancelIdx[c][j]] \notin open'
      OBVIOUS
    <3>1. CASE j \in DOMAIN cancelLog[c]
      <4>1. Cancelled(cancelLog[c][j])
        BY <1>6, <3>1
      <4>2. args[c].ids[cancelIdx[c][j]] \notin open
        BY <1>3, <3>1, <4>1 DEF Log
      <4> QED
        BY <2>4, <4>2
    <3>2. CASE j = k
      BY <1>6, <2>2, <3>2
    <3> QED
      BY <2>1, <3>1, <3>2
  <2> QED
    BY <1>1, <1>2, <1>3, <2>3 DEF Log
<1>12. Told(c)'
  <2>1. open' \subseteq open
    BY <1>4
  <2> QED
    BY <1>2, <1>3, <2>1 DEF Told
<1> QED
  BY <1>7, <1>8, <1>9, <1>10, <1>11, <1>12 DEF Keeps, CallInv

\* The exchange looks at one request; what it makes an order of is new.
LEMMA ServePlaceKeeps ==
  ASSUME Inv, NEW c \in Calls, ServePlace(c)
  PROVE  /\ Keeps(c)
         /\ \E i \in 1..MaxOrders : /\ taken \subseteq taken' /\ taken' \subseteq taken \cup {<<c, i>>}
                                    /\ open' \subseteq open \cup (taken' \ taken)
<1> TypeOK /\ CallTypeOK /\ ExchangeTypeOK /\ PositionsOK(c)
  BY DEF Inv, TypeOK
<1> DEFINE k  == Len(placeLog[c]) + 1
           id == <<c, orderIdx[c][k]>>
<1>1. /\ net[c] = "sent" /\ k \in DOMAIN orderIdx[c]
      /\ Len(cancelLog[c]) = Len(cancelIdx[c])
  BY CallTypes DEF ServePlace
<1>2. /\ pc'[c] = pc[c] /\ args'[c] = args[c] /\ next'[c] = next[c]
      /\ cancelIdx'[c] = cancelIdx[c] /\ orderIdx'[c] = orderIdx[c]
      /\ cancels'[c] = cancels[c] /\ places'[c] = places[c] /\ err'[c] = err[c]
      /\ net'[c] = net[c] /\ cancelLog'[c] = cancelLog[c]
  BY DEF ServePlace, callVars
<1>3. Fresh(c) /\ Scan(c) /\ Sign(c) /\ Log(c) /\ Told(c)
  BY DEF Inv, CallInv
<1>4. PICK made \in BOOLEAN, rests \in BOOLEAN :
        /\ rests => made
        /\ placeLog' = [placeLog EXCEPT ![c] = Append(@, made)]
        /\ taken' = IF made THEN taken \cup {id} ELSE taken
        /\ open' = IF rests THEN open \cup {id} ELSE open
  BY DEF ServePlace
<1>5. placeLog'[c] = Append(placeLog[c], made) /\ placeLog[c] \in Seq(BOOLEAN)
  BY <1>4, Domains, CallTypes
<1>6. /\ placeLog'[c] \in Seq(BOOLEAN) /\ Len(placeLog[c]) \in Nat
      /\ Len(placeLog'[c]) = k /\ DOMAIN placeLog'[c] = 1..k
      /\ DOMAIN placeLog[c] = 1..(k - 1)
      /\ \A j \in DOMAIN placeLog[c] : j \in DOMAIN placeLog'[c]
                                     /\ placeLog'[c][j] = placeLog[c][j]
      /\ placeLog'[c][k] = made
  BY <1>5, AppendLemma
<1>7. /\ orderIdx[c][k] \in 1..args[c].n /\ orderIdx[c][k] \in 1..MaxOrders
      /\ id \in Items /\ id \in Ids
  BY <1>1, CallTypes, ArgsLemma, ArgumentsAssumption DEF Items, Ids
<1>8. id \notin taken
  <2>1. \A j \in DOMAIN placeLog[c] : j \in DOMAIN orderIdx[c] /\ j # k
    BY <1>6, CallTypes
  <2>2. \A j \in DOMAIN placeLog[c] : orderIdx[c][j] # orderIdx[c][k]
    BY <1>1, <1>3, <2>1 DEF Sign
  <2> QED
    BY <1>3, <1>7, <2>2 DEF Log
<1>9. CallTypeOK'
  BY DEF CallTypeOK, ServePlace, callVars
<1>10. ExchangeTypeOK'
  BY <1>4, <1>5, <1>6, <1>7 DEF ExchangeTypeOK, ServePlace
<1>11. PositionsOK(c)'
  BY <1>1, <1>2, <1>6, CallTypes, SMTT(30) DEF PositionsOK
<1>12. Fresh(c)' /\ Sign(c)'
  BY <1>1, <1>2, <1>3 DEF Fresh, Sign
<1>13. Scan(c)'
  BY <1>2, <1>3, <1>4 DEF Scan
<1>14. \A k1 \in DOMAIN args[c].ids : args[c].ids[k1] # NoId /\ args[c].ids[k1] \notin open
         => args[c].ids[k1] \notin open'
  BY <1>3, <1>4, <1>8 DEF Scan
<1>15. Log(c)'
  <2>1. \A j \in DOMAIN placeLog'[c] : j \in DOMAIN placeLog[c] \/ j = k
    BY <1>6
  <2>2. \A j \in DOMAIN placeLog'[c] : placeLog'[c][j] => <<c, orderIdx[c][j]>> \in taken'
    BY <1>3, <1>4, <1>6, <2>1 DEF Log
  <2>3. ASSUME NEW i \in 1..MaxOrders, <<c, i>> \in taken'
        PROVE  \E j \in DOMAIN placeLog'[c] : placeLog'[c][j] /\ orderIdx[c][j] = i
    <3>1. CASE <<c, i>> \in taken
      <4>1. PICK j \in DOMAIN placeLog[c] : placeLog[c][j] /\ orderIdx[c][j] = i
        BY <1>3, <3>1 DEF Log
      <4>2. j \in DOMAIN placeLog'[c] /\ placeLog'[c][j] = placeLog[c][j]
        BY <1>6, <4>1
      <4> QED
        BY <4>1, <4>2
    <3>2. CASE <<c, i>> \notin taken
      <4>1. made /\ i = orderIdx[c][k]
        BY <1>4, <2>3, <3>2
      <4>2. k \in DOMAIN placeLog'[c]
        BY <1>6
      <4> QED
        BY <1>6, <4>1, <4>2
    <3> QED
      BY <3>1, <3>2
  <2>4. \A j \in DOMAIN cancelLog[c] : Cancelled(cancelLog[c][j]) =>
          args[c].ids[cancelIdx[c][j]] \notin open'
    BY <1>3, <1>14, CallTypes DEF Log, Scan
  <2> QED
    BY <1>1, <1>2, <1>3, <2>2, <2>3, <2>4 DEF Log
<1>16. Told(c)'
  <2>1. \A k1 \in DOMAIN cancels[c] : pc[c] # "scan" /\ cancels[c][k1] = "nil" =>
          args[c].ids[k1] # NoId
    BY <1>3, CallTypes DEF Scan
  <2>2. \A k1 \in DOMAIN cancels[c] :
       /\ pc[c] = "done" /\ cancels[c][k1] = "nil"
       /\ args[c].op = "ReplaceOrders" \/ (args[c].op = "CancelOrders" /\ err[c] = "nil")
       => args[c].ids[k1] \notin open'
    BY <1>3, <1>14, <2>1, CallTypes DEF Told
  <2>3. taken \subseteq taken'
    BY <1>4
  <2> QED
    BY <1>2, <1>3, <2>2, <2>3 DEF Told
<1> QED
  BY <1>4, <1>7, <1>8, <1>9, <1>10, <1>11, <1>12, <1>13, <1>15, <1>16 DEF Keeps, CallInv

\* The exchange cancels everything (DELETE /cancel-market-orders).
LEMMA ServeTokenKeeps ==
  ASSUME Inv, NEW c \in Calls, ServeToken(c) \/ ServeEnd(c)
  PROVE  Keeps(c)
<1> TypeOK /\ CallTypeOK /\ ExchangeTypeOK /\ PositionsOK(c)
  BY DEF Inv, TypeOK
<1>1. /\ net[c] = "sent" /\ net'[c] \in {"served", "refused", "stopped"}
      /\ net'[c] = "refused" => cancelLog[c] = <<>> /\ placeLog[c] = <<>>
      /\ net'[c] = "served" /\ args[c].op # "CancelByTokenID" =>
           /\ Len(cancelLog[c]) = Len(cancelIdx[c])
           /\ Len(placeLog[c]) = Len(orderIdx[c])
      /\ open' = open \/ open' = {}
  BY Domains DEF ServeToken, ServeEnd, bookVars
<1>2. /\ pc'[c] = pc[c] /\ args'[c] = args[c] /\ next'[c] = next[c]
      /\ cancelIdx'[c] = cancelIdx[c] /\ orderIdx'[c] = orderIdx[c]
      /\ cancels'[c] = cancels[c] /\ places'[c] = places[c] /\ err'[c] = err[c]
      /\ cancelLog'[c] = cancelLog[c] /\ placeLog'[c] = placeLog[c] /\ taken' = taken
  BY DEF ServeToken, ServeEnd, callVars, bookVars
<1>3. Fresh(c) /\ Scan(c) /\ Sign(c) /\ Log(c) /\ Told(c)
  BY DEF Inv, CallInv
<1>4. CallTypeOK'
  BY DEF CallTypeOK, ServeToken, ServeEnd, callVars
<1>5. ExchangeTypeOK'
  BY DEF ExchangeTypeOK, ServeToken, ServeEnd, bookVars
<1>6. PositionsOK(c)'
  BY <1>2 DEF PositionsOK
<1>7. Fresh(c)' /\ Scan(c)' /\ Sign(c)'
  BY <1>1, <1>2, <1>3 DEF Fresh, Scan, Sign
<1>8. Log(c)'
  BY <1>1, <1>2, <1>3 DEF Log
<1>9. Told(c)'
  BY <1>1, <1>2, <1>3 DEF Told
<1> QED
  BY <1>4, <1>5, <1>6, <1>7, <1>8, <1>9 DEF Keeps, CallInv

\* A step of call c: its own part, and what it leaves of the others.
LEMMA CallKeeps ==
  ASSUME Inv, NEW c \in Calls, CallStep(c) \/ ExchangeStep(c)
  PROVE  /\ Keeps(c)
         /\ taken \subseteq taken' /\ open' \subseteq open \cup (taken' \ taken)
         /\ \A d \in Calls \ {c} : \A i \in 1..MaxOrders :
              <<d, i>> \in taken' => <<d, i>> \in taken
<1> DEFINE Rest == taken' = taken /\ open' \subseteq open
<1>1. CASE Start(c)
  BY <1>1, StartKeeps DEF Start, bookVars
<1>2. CASE ScanId(c)
  BY <1>2, ScanIdKeeps DEF ScanId, bookVars
<1>3. CASE Scanned(c)
  BY <1>3, ScannedKeeps DEF Scanned, bookVars
<1>4. CASE SignItem(c)
  BY <1>4, SignItemKeeps DEF SignItem, bookVars
<1>5. CASE Send(c)
  BY <1>5, SendKeeps DEF Send, bookVars
<1>6. CASE \/ SendNothing(c) \/ SendHeldBack(c) \/ TransportError(c) \/ TakeStatus(c)
           \/ TakeGarbled(c) \/ TakeCancelled(c) \/ TakeNoEnvelope(c)
           \/ TakePlaced(c) \/ TakeCancels(c) \/ TakeReplaced(c)
  <2>1. Answered(c)
    BY <1>6, PlainReturns, PlacedReturn, CancelsReturn, ReplacedReturn
  <2>2. PICK e, cs, ps : Returns(c, e, cs, ps) /\ Good(c, e, cs, ps)
    BY <2>1 DEF Answered
  <2>3. Keeps(c)
    BY <2>2, ReturnsTypes, ReturnsKeep DEF Keeps
  <2> QED
    BY <2>2, <2>3 DEF Returns, bookVars
<1>7. CASE ServeCancel(c)
  <2>1. taken' = taken /\ open' \subseteq open
    BY <1>7 DEF ServeCancel
  <2> QED
    BY <1>7, <2>1, ServeCancelKeeps
<1>8. CASE ServePlace(c)
  <2>1. PICK i \in 1..MaxOrders :
          /\ taken \subseteq taken' /\ taken' \subseteq taken \cup {<<c, i>>}
          /\ open' \subseteq open \cup (taken' \ taken)
    BY <1>8, ServePlaceKeeps
  <2> QED
    BY <1>8, <2>1, ServePlaceKeeps
<1>9. CASE ServeToken(c) \/ ServeEnd(c)
  <2>1. taken' = taken /\ open' \subseteq open
    BY <1>9 DEF ServeToken, ServeEnd, bookVars
  <2> QED
    BY <1>9, <2>1, ServeTokenKeeps
<1> QED
  BY <1>1, <1>2, <1>3, <1>4, <1>5, <1>6, <1>7, <1>8, <1>9 DEF CallStep, ExchangeStep

\* The invariant holds at the start ...
LEMMA InvInit == Init => Inv
<1> SUFFICES ASSUME Init PROVE Inv
  OBVIOUS
<1> USE DEF Init
<1>1. CallTypeOK /\ ExchangeTypeOK
  BY DEF CallTypeOK, ExchangeTypeOK, Errors, Ids
<1>2. ASSUME NEW c \in Calls
      PROVE  PositionsOK(c) /\ CallInv(c)
  <2>1. PositionsOK(c)
    BY SentNothing DEF PositionsOK, NoArgs
  <2>2. Fresh(c) /\ Scan(c) /\ Sign(c)
    BY DEF Fresh, Scan, Sign, NoArgs
  <2>3. \A i \in 1..MaxOrders : <<c, i>> \notin taken
    BY ArgumentsAssumption DEF Items
  <2>4. Log(c) /\ Told(c)
    BY <2>3 DEF Log, Told, NoArgs
  <2> QED
    BY <2>1, <2>2, <2>4 DEF CallInv
<1> QED
  BY <1>1, <1>2 DEF Inv, TypeOK

\* ... and every step of a call, of the exchange or of the market keeps it.
LEMMA InvStep == Inv /\ [Next]_vars => Inv'
<1> SUFFICES ASSUME Inv, [Next]_vars PROVE Inv'
  OBVIOUS
<1>1. ASSUME NEW c \in Calls, CallStep(c) \/ ExchangeStep(c)
      PROVE  Inv'
  <2>1. CallTypeOK' /\ ExchangeTypeOK' /\ PositionsOK(c)' /\ CallInv(c)'
    BY <1>1, CallKeeps DEF Keeps
  <2>2. ASSUME NEW d \in Calls \ {c}
        PROVE  PositionsOK(d)' /\ CallInv(d)'
    <3>1. Unchanged(d)
      BY <1>1, Others DEF Inv
    <3>2. PositionsOK(d)'
      BY <3>1 DEF PositionsOK, Unchanged, Inv, TypeOK
    <3>3. /\ taken \subseteq taken' /\ open' \subseteq open \cup (taken' \ taken)
          /\ \A i \in 1..MaxOrders : <<d, i>> \in taken' => <<d, i>> \in taken
      BY <1>1, CallKeeps
    <3>4. \A id \in taken : id \in open' => id \in open
      BY <3>3
    <3> QED
      BY <3>1, <3>2, <3>3, <3>4, Frame
  <2>3. \A d \in Calls : PositionsOK(d)' /\ CallInv(d)'
    BY <2>1, <2>2
  <2> QED
    BY <2>1, <2>3 DEF Inv, TypeOK
<1>2. ASSUME open' \subseteq open, UNCHANGED <<callVars, logVars, taken>>
      PROVE  Inv'
  <2>1. CallTypeOK' /\ ExchangeTypeOK'
    BY <1>2 DEF CallTypeOK, ExchangeTypeOK, callVars, logVars, Inv, TypeOK
  <2>2. ASSUME NEW d \in Calls
        PROVE  PositionsOK(d)' /\ CallInv(d)'
    <3>1. Unchanged(d)
      BY <1>2 DEF Unchanged, callVars, logVars
    <3>2. PositionsOK(d)'
      BY <3>1 DEF PositionsOK, Unchanged, Inv, TypeOK
    <3> QED
      BY <1>2, <3>1, <3>2, Frame
  <2> QED
    BY <2>1, <2>2 DEF Inv, TypeOK
<1>3. CASE \E id \in Ids : Fill(id)
  BY <1>2, <1>3 DEF Fill
<1>4. CASE UNCHANGED vars
  BY <1>2, <1>4 DEF vars, bookVars
<1> QED
  BY <1>1, <1>3, <1>4 DEF Next

-----------------------------------------------------------------------------
(* Theorems                                                                *)

\* The inductive invariant: where every call stands, what it has sent, what the
\* exchange did with it and what the caller was told agree.
THEOREM InvHolds == Spec => []Inv
  BY InvInit, InvStep, PTL DEF Spec

\* The variables keep their types, and positions that are sent are positions of
\* arguments (client_batch.go:44-63, 128-148, client_replace.go:49-94).
THEOREM TypeCorrect == Spec => []TypeOK
<1>1. Inv => TypeOK
  BY DEF Inv
<1> QED
  BY <1>1, InvHolds, PTL

\* An id reported as cancelled by CancelOrders or ReplaceOrders is not open and
\* stays so, whatever other calls do (client_batch.go:177-210,
\* client_replace.go:138-167).
THEOREM CancelCorrect == Spec => []CancelledAsReported
<1>1. Inv => CancelledAsReported
  BY DEF Inv, CallInv, Told, CancelledAsReported
<1> QED
  BY <1>1, InvHolds, PTL

\* ReplaceOrders has nothing cancelled unless all its orders are signed and sent
\* along (client_replace.go:89-94).
THEOREM ReplaceCorrect == Spec => []ReplaceWhole
<1>1. ASSUME Inv
      PROVE  ReplaceWhole
  <2> SUFFICES ASSUME NEW c \in Calls, args[c].op = "ReplaceOrders", cancelLog[c] # <<>>
               PROVE  Len(orderIdx[c]) = args[c].n
    BY DEF ReplaceWhole
  <2>1. Fresh(c) /\ Log(c) /\ TypeOK
    BY <1>1 DEF Inv, CallInv
  <2>2. net[c] # "none"
    BY <2>1 DEF Fresh
  <2>3. cancelIdx[c] # <<>>
    BY <2>1, CallTypes
  <2> QED
    BY <2>1, <2>2, <2>3 DEF Log
<1> QED
  BY <1>1, InvHolds, PTL

\* Every request of a call that returned its results has an id or an error
\* (client_batch.go:84-115, client_replace.go:169-199).
THEOREM AnswerCorrect == Spec => []EveryItemAnswered
<1>1. Inv => EveryItemAnswered
  BY DEF Inv, CallInv, Told, EveryItemAnswered
<1> QED
  BY <1>1, InvHolds, PTL

\* What is sent was made from a request that signOne let pass.
LEMMA SentRequest ==
  ASSUME Inv, NEW c \in Calls, NEW k \in DOMAIN orderIdx[c]
  PROVE  /\ Requests[c][orderIdx[c][k]] \in OrderReq
         /\ ~Refused(Requests[c][orderIdx[c][k]])
<1>1. TypeOK /\ ~Refused(Requests[c][orderIdx[c][k]])
  BY DEF Inv, CallInv, Sign
<1>2. orderIdx[c][k] \in 1..MaxOrders
  BY <1>1, CallTypes, ArgsLemma, ArgumentsAssumption, SMTT(30)
<1> QED
  BY <1>1, <1>2, ArgumentsAssumption

\* What is signed and sent verifies if an order signer signed it and the request
\* means something to the exchange, and does not if it was signed as text
\* (client.go:176-238, helpers.go:25-46).
THEOREM OrdersCorrect == Spec => []OrdersVerify
<1>1. ASSUME Inv
      PROVE  OrdersVerify
  <2> SUFFICES ASSUME NEW c \in Calls, NEW k \in DOMAIN orderIdx[c], NEW v \in {0, 1},
                      WellFormed(Requests[c][orderIdx[c][k]])
               PROVE  Verifies(Signature(Requests[c][orderIdx[c][k]], orderIdx[c][k], v,
                                         c \in OrderSigners),
                               SentFields(Requests[c][orderIdx[c][k]], orderIdx[c][k]))
                        <=> c \in OrderSigners
    BY DEF OrdersVerify
  <2> DEFINE r == Requests[c][orderIdx[c][k]]
  <2>1. r \in OrderReq /\ ~Refused(r)
    BY <1>1, SentRequest
  <2>2. CASE c \in OrderSigners
    BY <2>1, <2>2, RequestVerifies
  <2>3. CASE c \notin OrderSigners
    <3>1. Signature(r, orderIdx[c][k], v, c \in OrderSigners).form = "text"
      BY <2>3 DEF Signature
    <3> QED
      BY <2>3, <3>1 DEF Verifies
  <2> QED
    BY <2>2, <2>3
<1> QED
  BY <1>1, InvHolds, PTL

\* Amounts keep the limit price, for every price, size and scale: by less than a
\* base unit, and without one against the buyer if the size has no more than six
\* decimals (client.go:456-481).
THEOREM AmountsCorrect == Spec => []LimitKept
<1>1. ASSUME Inv
      PROVE  LimitKept
  <2> SUFFICES ASSUME NEW c \in Calls, NEW k \in DOMAIN orderIdx[c]
               PROVE  WithinLimit(Requests[c][orderIdx[c][k]])
    BY DEF LimitKept
  <2> QED
    BY <1>1, SentRequest, RequestLimit
<1> QED
  BY <1>1, InvHolds, PTL

-----------------------------------------------------------------------------
(* ClobOrders implements OrderPromise                                      *)

\* What has been said is true.
Truth ==
  \A c \in Calls : \A i \in 1..MaxOrders :
    /\ Said(c, i) \in Promise!Word
    /\ Said(c, i).verdict = "placed"  => Said(c, i).id = <<c, i>> /\ <<c, i>> \in taken
    /\ Said(c, i).verdict = "refused" => <<c, i>> \notin taken

\* In every state what was said of a request is true of the exchange.
LEMMA SaidTrue == Inv => Truth
<1> SUFFICES ASSUME Inv, NEW c \in Calls, NEW i \in 1..MaxOrders
             PROVE  /\ Said(c, i) \in Promise!Word
                    /\ Said(c, i).verdict = "placed" =>
                         Said(c, i).id = <<c, i>> /\ <<c, i>> \in taken
                    /\ Said(c, i).verdict = "refused" => <<c, i>> \notin taken
  BY DEF Truth
<1> TypeOK
  BY DEF Inv
<1> DEFINE r == places[c][i]
           silent == pc[c] # "done" \/ i > args[c].n
<1>1. CASE silent
  <2>1. Said(c, i) = [verdict |-> "none", id |-> NoId]
    BY <1>1 DEF Said
  <2> QED
    BY <2>1 DEF Promise!Word
<1>2. CASE ~silent /\ r.err = "nil" /\ r.id # NoId
  <2>1. Said(c, i) = [verdict |-> "placed", id |-> r.id]
    BY <1>2 DEF Said
  <2>2. i \in 1..args[c].n
    BY <1>2, ArgsLemma
  <2>3. r.id = <<c, i>> /\ <<c, i>> \in taken
    BY <1>2, <2>2 DEF Inv, CallInv, Told
  <2>4. r.id \in Items
    BY <1>2, <2>2, CallTypes DEF PlaceResult
  <2> QED
    BY <2>1, <2>3, <2>4 DEF Promise!Word
<1>3. CASE /\ ~silent /\ ~(r.err = "nil" /\ r.id # NoId)
           /\ \/ r.err \in {"ErrSign", "ErrPrecondition"}
              \/ args[c].op # "ReplaceOrders" /\ err[c] \in Refusals
  <2>1. Said(c, i) = [verdict |-> "refused", id |-> NoId]
    BY <1>3 DEF Said
  <2>2. i \in 1..args[c].n
    BY <1>3, ArgsLemma
  <2>3. ASSUME <<c, i>> \in taken
        PROVE  FALSE
    <3>1. PICK k \in DOMAIN placeLog[c] : placeLog[c][k] /\ orderIdx[c][k] = i
      BY <2>3 DEF Inv, CallInv, Log
    <3>2. i \in Sent(orderIdx[c])
      BY <3>1, CallTypes DEF Sent
    <3>3. r.err \notin SignErrors
      BY <2>2, <3>2 DEF Inv, CallInv, Sign
    <3>4. net[c] \in {"none", "refused"}
      BY <1>3, <3>3 DEF Inv, CallInv, Told, SignErrors
    <3>5. placeLog[c] = <<>>
      BY <3>4 DEF Inv, CallInv, Fresh
    <3> QED
      BY <3>1, <3>5
  <2> QED
    BY <2>1, <2>3 DEF Promise!Word
<1>4. CASE /\ ~silent /\ ~(r.err = "nil" /\ r.id # NoId)
           /\ ~(\/ r.err \in {"ErrSign", "ErrPrecondition"}
                \/ args[c].op # "ReplaceOrders" /\ err[c] \in Refusals)
  <2>1. Said(c, i) = [verdict |-> "unknown", id |-> NoId]
    BY <1>4 DEF Said
  <2> QED
    BY <2>1 DEF Promise!Word
<1> QED
  BY <1>1, <1>2, <1>3, <1>4

\* A call that has returned says nothing else later.
LEMMA DoneStays ==
  ASSUME TypeOK, [Next]_vars, NEW c \in Calls, pc[c] = "done"
  PROVE  pc'[c] = "done" /\ args'[c] = args[c] /\ places'[c] = places[c] /\ err'[c] = err[c]
<1>1. CASE CallStep(c)
  BY <1>1 DEF CallStep, Start, ScanId, Scanned, SignItem, SendNothing, SendHeldBack, Send,
     TransportError, TakeStatus, TakeGarbled, TakeCancelled, TakePlaced, TakeCancels,
     TakeReplaced, TakeNoEnvelope, Waits
<1>2. CASE ExchangeStep(c)
  BY <1>2 DEF ExchangeStep, ServeCancel, ServePlace, ServeToken, ServeEnd, callVars
<1>3. ASSUME NEW d \in Calls, d # c, CallStep(d) \/ ExchangeStep(d)
      PROVE  Unchanged(c)
  BY <1>3, Others
<1>4. CASE (\E id \in Ids : Fill(id)) \/ UNCHANGED vars
  BY <1>4 DEF Fill, vars, callVars
<1> QED
  BY <1>1, <1>2, <1>3, <1>4 DEF Next, Unchanged

\* Orders are made only by ServePlace, and a call says nothing at that moment.
LEMMA MadeSilently ==
  ASSUME Inv, [Next]_vars
  PROVE  taken' = taken \/ (taken \subseteq taken' /\ UNCHANGED callVars)
<1>1. ASSUME NEW c \in Calls, ServePlace(c)
      PROVE  taken \subseteq taken' /\ UNCHANGED callVars
  BY <1>1 DEF ServePlace
<1>2. ASSUME NEW c \in Calls, CallStep(c)
      PROVE  taken' = taken
  BY <1>2 DEF CallStep, Start, ScanId, Scanned, SignItem, SendNothing, SendHeldBack, Send,
     TransportError, TakeStatus, TakeGarbled, TakeCancelled, TakePlaced, TakeCancels,
     TakeReplaced, TakeNoEnvelope, bookVars
<1>3. ASSUME NEW c \in Calls, ServeCancel(c) \/ ServeToken(c) \/ ServeEnd(c)
      PROVE  taken' = taken
  BY <1>3 DEF ServeCancel, ServeToken, ServeEnd, bookVars
<1>4. CASE (\E id \in Ids : Fill(id)) \/ UNCHANGED vars
  BY <1>4 DEF Fill, vars, bookVars
<1> QED
  BY <1>1, <1>2, <1>3, <1>4 DEF Next, ExchangeStep

\* Every step is one of OrderPromise or changes nothing there.
LEMMA PromiseStep ==
  ASSUME Inv, Truth, Truth', TypeOK', [Next]_vars
  PROVE  Promise!Next
<1> DEFINE w == [it \in Items |-> Said(it[1], it[2])]
<1> TypeOK
  BY DEF Inv
<1>1. ASSUME NEW it \in Items
      PROVE  it[1] \in Calls /\ it[2] \in 1..MaxOrders /\ it = <<it[1], it[2]>> /\ it \notin Old
  BY ArgumentsAssumption DEF Items
<1>2. taken' \subseteq Ids
  BY DEF TypeOK, ExchangeTypeOK
<1>3. CASE taken \subseteq taken' /\ UNCHANGED callVars
  <2>1. w' = w
    BY <1>3 DEF callVars, Said
  <2>2. ASSUME NEW it \in (taken' \ Old) \ (taken \ Old)
        PROVE  it \in Items /\ w[it].verdict # "refused"
    <3>1. it \in Items /\ it \in taken'
      BY <1>2, <2>2 DEF Ids
    <3>2. Said(it[1], it[2])'.verdict # "refused"
      BY <1>1, <3>1 DEF Truth
    <3>3. Said(it[1], it[2])' = Said(it[1], it[2])
      BY <1>3 DEF callVars, Said
    <3> QED
      BY <3>1, <3>2, <3>3
  <2>3. taken' \ Old \subseteq Items
    BY <1>2 DEF Ids
  <2>4. Promise!Place
    BY <1>3, <2>1, <2>2, <2>3 DEF Promise!Place
  <2> QED
    BY <2>4 DEF Promise!Next
<1>4. CASE taken' = taken
  <2>1. w' \in [Items -> Promise!Word]
    BY <1>1 DEF Truth
  <2>2. ASSUME NEW it \in Items, w'[it] # w[it]
        PROVE  /\ w[it] = Promise!Silent
               /\ w'[it].verdict = "placed"  => it \in taken \ Old /\ w'[it].id = it
               /\ w'[it].verdict = "refused" => it \notin taken \ Old
    <3> DEFINE c == it[1]
               i == it[2]
    <3>1. w[it] = Said(c, i) /\ w'[it] = Said(c, i)'
      OBVIOUS
    <3>2. Said(c, i) = Promise!Silent
      <4>1. CASE pc[c] = "done"
        <5>1. Said(c, i)' = Said(c, i)
          BY <1>1, <4>1, DoneStays DEF Said
        <5> QED
          BY <2>2, <3>1, <5>1
      <4>2. CASE pc[c] # "done"
        BY <4>2 DEF Said, Promise!Silent
      <4> QED
        BY <4>1, <4>2
    <3>3. /\ Said(c, i)'.verdict = "placed" => Said(c, i)'.id = it /\ it \in taken'
          /\ Said(c, i)'.verdict = "refused" => it \notin taken'
      BY <1>1 DEF Truth
    <3> QED
      BY <1>1, <1>4, <3>1, <3>2, <3>3
  <2>3. Promise!Tell
    <3> HIDE DEF w
    <3>1. \A it \in Items : w'[it] # w[it] =>
            /\ w[it] = Promise!Silent
            /\ w'[it].verdict = "placed"  => it \in taken \ Old /\ w'[it].id = it
            /\ w'[it].verdict = "refused" => it \notin taken \ Old
      BY <2>2
    <3> USE DEF w
    <3> QED
      BY <1>4, <2>1, <3>1 DEF Promise!Tell
  <2> QED
    BY <2>3 DEF Promise!Next
<1> QED
  BY <1>3, <1>4, MadeSilently

\* The calls that place orders implement OrderPromise: ids belong to the request
\* they are returned for, and a refusal is final (client_batch.go:44-116,
\* client_replace.go:169-199, client.go:86-113).
THEOREM PromiseCorrect == Spec => PromiseKept
<1>1. Init => Promise!Init
  <2> SUFFICES ASSUME Init PROVE Promise!Init
    OBVIOUS
  <2>1. \A it \in Items : it[1] \in Calls
    BY DEF Items
  <2>2. \A it \in Items : Said(it[1], it[2]) = Promise!Silent
    BY <2>1 DEF Init, Said, Promise!Silent
  <2> QED
    BY <2>2 DEF Init, Promise!Init
<1>2. Inv /\ Truth /\ Truth' /\ TypeOK' /\ [Next]_vars =>
        [Promise!Next]_<<taken \ Old, [it \in Items |-> Said(it[1], it[2])]>>
  BY PromiseStep
<1>3. Inv => Truth
  BY SaidTrue
<1> QED
  BY <1>1, <1>2, <1>3, InvHolds, TypeCorrect, PTL DEF Spec, PromiseKept, Promise!Spec
=============================================================================
