------------------------------- MODULE WsUser -------------------------------
(***************************************************************************)
(* The user channel of pkg/ws: SubscribeOrders and SubscribeTrades calls   *)
(* of one user id share one /ws/user connection.  A call attaches a        *)
(* subscriber to the user's stream (creating stream and connect loop when  *)
(* there is none) and a goroutine detaches it once the call's context is   *)
(* done; the last one out stops the loop.  Two locks order all this: userMu *)
(* guards the registry userStreams, and each stream's mu guards its subs,  *)
(* the dispatch to their channels and the closing of those channels.       *)
(*                                                                         *)
(* A subscriber stands for one Subscribe call.  A call creates at most one *)
(* stream, so a stream is named by the call that created it.               *)
(***************************************************************************)
EXTENDS Naturals, Sequences

CONSTANTS
  Subs,       \* the Subscribe calls made
  Users,      \* user ids
  UserOf,     \* the user id each call passes
  OrderSubs,  \* the calls of SubscribeOrders; the others are SubscribeTrades
  Cap,        \* channel capacity (64 in the code)
  MaxOrders,  \* bound: order events a stream's connections deliver
  MaxTrades,  \* bound: trade events a stream's connections deliver
  None        \* no stream, nobody

ASSUME ConstantsAssumption ==
  /\ UserOf \in [Subs -> Users]
  /\ OrderSubs \subseteq Subs
  /\ Cap \in Nat \ {0}
  /\ MaxOrders \in Nat
  /\ MaxTrades \in Nat
  /\ None \notin Subs

VARIABLES
  pc,          \* where each call, then its detach goroutine, stands
  ctxDone,     \* the caller's context is done
  streamOf,    \* the stream a call attached to
  userMu,      \* who holds Facade.userMu
  userStreams, \* the registry
  subs,        \* userStream.subs
  cancelled,   \* userStream.cancel has been called
  loop,        \* where each stream's runUserLoop stands
  disconnect,  \* runUserLoop's disconnect > 0: back off before connecting
  stMu,        \* the loop holds userStream.mu (others hold it for one step)
  at,          \* dispatchOrder's index into subs
  orders,      \* order events whose dispatch has begun, by stream
  trades,      \* trade events dispatched, by stream
  chan,        \* orderCh or tradeCh: the numbers of the buffered events
  closed,      \* the channel is closed
  last,        \* number of the event the consumer received last; on attaching,
               \* of the stream's last event then
  panicked     \* a send on, or close of, a closed channel

callVars   == <<pc, ctxDone, streamOf>>
lockVars   == <<userMu, stMu>>
streamVars == <<userStreams, subs, cancelled>>
loopVars   == <<loop, disconnect, at, orders, trades>>
chanVars   == <<chan, closed, last, panicked>>
vars == <<callVars, lockVars, streamVars, loopVars, chanVars>>

Elems(q) == {q[i] : i \in 1..Len(q)}

\* append(subs[:i], subs[i+1:]...) for the i that holds s (no slice holds a
\* subscriber twice)
Without(q, s) ==
  LET i == CHOOSE i \in 1..Len(q) : q[i] = s
  IN  IF s \in Elems(q)
      THEN [j \in 1..(Len(q) - 1) |-> IF j < i THEN q[j] ELSE q[j+1]]
      ELSE q

CallState == {"idle", "call", "join", "live", "empty", "recheck", "done"}
LoopState == {"none", "top", "sleep", "dial", "read", "order", "sending",
              "trade", "end"}

Init ==
  /\ pc          = [s \in Subs |-> "idle"]
  /\ ctxDone     = [s \in Subs |-> FALSE]
  /\ streamOf    = [s \in Subs |-> None]
  /\ userMu      = None
  /\ userStreams = [u \in Users |-> None]
  /\ subs        = [st \in Subs |-> <<>>]
  /\ cancelled   = [st \in Subs |-> FALSE]
  /\ loop        = [st \in Subs |-> "none"]
  /\ disconnect  = [st \in Subs |-> FALSE]
  /\ stMu        = [st \in Subs |-> FALSE]
  /\ at          = [st \in Subs |-> 1]
  /\ orders      = [st \in Subs |-> 0]
  /\ trades      = [st \in Subs |-> 0]
  /\ chan        = [s \in Subs |-> <<>>]
  /\ closed      = [s \in Subs |-> FALSE]
  /\ last        = [s \in Subs |-> 0]
  /\ panicked    = FALSE

-----------------------------------------------------------------------------
(* Faults: what plausible slips in the code would make of the actions of   *)
(* the same name below.  Only mutation checks use them.                    *)

\* closes the channel without taking the subscriber off the slice
DetachRemoveKeepsSub(s) ==
  /\ pc[s] = "live" /\ ctxDone[s] /\ ~stMu[streamOf[s]]
  /\ closed' = [closed EXCEPT ![s] = TRUE]
  /\ pc' = [pc EXCEPT ![s] = "done"]
  /\ UNCHANGED <<ctxDone, streamOf, lockVars, streamVars, loopVars, chan, last,
                 panicked>>

\* stops the stream without looking at len(st.subs) again
DetachStopNoRecheck(s) ==
  /\ pc[s] = "recheck" /\ ~stMu[streamOf[s]]
  /\ cancelled' = [cancelled EXCEPT ![streamOf[s]] = TRUE]
  /\ userStreams' = [userStreams EXCEPT ![UserOf[s]] = None]
  /\ userMu' = None
  /\ pc' = [pc EXCEPT ![s] = "done"]
  /\ UNCHANGED <<ctxDone, streamOf, stMu, subs, loopVars, chanVars>>

\* deletes the registry entry outside the check of len(st.subs)
DetachStopDeletesAlways(s) ==
  /\ pc[s] = "recheck" /\ ~stMu[streamOf[s]]
  /\ cancelled' = [cancelled EXCEPT ![streamOf[s]] = @ \/ subs[streamOf[s]] = <<>>]
  /\ userStreams' = [userStreams EXCEPT ![UserOf[s]] = None]
  /\ userMu' = None
  /\ pc' = [pc EXCEPT ![s] = "done"]
  /\ UNCHANGED <<ctxDone, streamOf, stMu, subs, loopVars, chanVars>>

\* returns early after stopping the stream, keeping userMu
DetachStopKeepsLock(s) ==
  LET stop == subs[streamOf[s]] = <<>> IN
  /\ pc[s] = "recheck" /\ ~stMu[streamOf[s]]
  /\ cancelled' = [cancelled EXCEPT ![streamOf[s]] = @ \/ stop]
  /\ userStreams' = [userStreams EXCEPT ![UserOf[s]] = IF stop THEN None ELSE @]
  /\ userMu' = IF stop THEN userMu ELSE None
  /\ pc' = [pc EXCEPT ![s] = "done"]
  /\ UNCHANGED <<ctxDone, streamOf, stMu, subs, loopVars, chanVars>>

\* does not look at ctx before another round
LoopTopNoCtxCheck(st) ==
  /\ loop[st] = "top"
  /\ loop' = [loop EXCEPT ![st] = IF disconnect[st] THEN "sleep" ELSE "dial"]
  /\ UNCHANGED <<callVars, lockVars, streamVars, disconnect, at, orders,
                 trades, chanVars>>

\* gives up when the connection breaks
ReadFailsForGood(st) ==
  /\ loop[st] = "read"
  /\ loop' = [loop EXCEPT ![st] = "end"]
  /\ UNCHANGED <<callVars, lockVars, streamVars, disconnect, at, orders,
                 trades, chanVars>>

\* drops the order event when the channel is full, as for trades
OrderSendDrops(st) ==
  LET s == subs[st][at[st]] IN
  /\ loop[st] = "sending" /\ at[st] <= Len(subs[st])
  /\ chan' = IF s \in OrderSubs /\ Len(chan[s]) < Cap
             THEN [chan EXCEPT ![s] = Append(@, orders[st])] ELSE chan
  /\ at' = [at EXCEPT ![st] = @ + 1]
  /\ UNCHANGED <<callVars, lockVars, streamVars, loop, disconnect, orders,
                 trades, closed, last, panicked>>

\* lacks the select case for the subscriber's ctx
OrderSendIgnoresCtx(st) ==
  LET s == subs[st][at[st]] IN
  /\ loop[st] = "sending" /\ at[st] <= Len(subs[st])
  /\ s \in OrderSubs => Len(chan[s]) < Cap
  /\ chan' = IF s \in OrderSubs
             THEN [chan EXCEPT ![s] = Append(@, orders[st])] ELSE chan
  /\ at' = [at EXCEPT ![st] = @ + 1]
  /\ UNCHANGED <<callVars, lockVars, streamVars, loop, disconnect, orders,
                 trades, closed, last, panicked>>

\* leaves the index one short for the next range
OrderEndIndexZero(st) ==
  /\ loop[st] = "sending" /\ at[st] > Len(subs[st])
  /\ loop' = [loop EXCEPT ![st] = "read"]
  /\ stMu' = [stMu EXCEPT ![st] = FALSE]
  /\ at' = [at EXCEPT ![st] = 0]
  /\ UNCHANGED <<callVars, userMu, streamVars, disconnect, orders, trades,
                 chanVars>>

\* waits for room, as for orders
DispatchTradeBlocks(st) ==
  LET members == Elems(subs[st]) \ OrderSubs IN
  /\ loop[st] = "trade" /\ ~stMu[st]
  /\ \A s \in members : Len(chan[s]) < Cap
  /\ trades' = [trades EXCEPT ![st] = @ + 1]
  /\ chan' = [s \in Subs |-> IF s \in members THEN Append(chan[s], trades'[st])
                                              ELSE chan[s]]
  /\ loop' = [loop EXCEPT ![st] = "read"]
  /\ UNCHANGED <<callVars, lockVars, streamVars, disconnect, at, orders,
                 closed, last, panicked>>

\* makes room in a full channel by dropping the oldest event
DispatchTradeDropsOldest(st) ==
  LET members == Elems(subs[st]) \ OrderSubs IN
  /\ loop[st] = "trade" /\ ~stMu[st]
  /\ trades' = [trades EXCEPT ![st] = @ + 1]
  /\ chan' = [s \in Subs |-> IF s \notin members THEN chan[s]
                             ELSE Append(IF Len(chan[s]) < Cap THEN chan[s] ELSE Tail(chan[s]),
                                         trades'[st])]
  /\ loop' = [loop EXCEPT ![st] = "read"]
  /\ UNCHANGED <<callVars, lockVars, streamVars, disconnect, at, orders,
                 closed, last, panicked>>

-----------------------------------------------------------------------------
(* The caller: it calls Subscribe, cancels its context, and receives.      *)

Subscribe(s) ==
  /\ pc[s] = "idle"
  /\ pc' = [pc EXCEPT ![s] = "call"]
  /\ UNCHANGED <<ctxDone, streamOf, lockVars, streamVars, loopVars, chanVars>>

\* A ctx that was done before the call is one done as the call begins.
Cancel(s) ==
  /\ pc[s] # "idle"
  /\ ~ctxDone[s]
  /\ ctxDone' = [ctxDone EXCEPT ![s] = TRUE]
  /\ UNCHANGED <<pc, streamOf, lockVars, streamVars, loopVars, chanVars>>

Recv(s) ==
  /\ chan[s] # <<>>
  /\ last' = [last EXCEPT ![s] = Head(chan[s])]
  /\ chan' = [chan EXCEPT ![s] = Tail(@)]
  /\ UNCHANGED <<callVars, lockVars, streamVars, loopVars, closed, panicked>>

-----------------------------------------------------------------------------
(* attachUserSub: both locks, and a new stream with its loop if need be.   *)

AttachLock(s) ==
  LET u == UserOf[s] IN
  /\ pc[s] = "call"
  /\ userMu = None
  /\ userMu' = s
  /\ pc' = [pc EXCEPT ![s] = "join"]
  /\ IF userStreams[u] # None
     THEN /\ streamOf' = [streamOf EXCEPT ![s] = userStreams[u]]
          /\ UNCHANGED <<userStreams, loop>>
     ELSE /\ streamOf' = [streamOf EXCEPT ![s] = s]
          /\ userStreams' = [userStreams EXCEPT ![u] = s]
          /\ loop' = [loop EXCEPT ![s] = "top"]
  /\ UNCHANGED <<ctxDone, stMu, subs, cancelled, disconnect, at, orders,
                 trades, chanVars>>

AttachJoin(s) ==
  LET st == streamOf[s] IN
  /\ pc[s] = "join"
  /\ ~stMu[st]
  /\ subs' = [subs EXCEPT ![st] = Append(@, s)]
  /\ last' = [last EXCEPT ![s] = IF s \in OrderSubs THEN orders[st]
                                                    ELSE trades[st]]
  /\ userMu' = None
  /\ pc' = [pc EXCEPT ![s] = "live"]
  /\ UNCHANGED <<ctxDone, streamOf, stMu, userStreams, cancelled, loopVars,
                 chan, closed, panicked>>

(* detachUserSub: leave under the stream's lock; if that emptied the       *)
(* stream, take both locks and look again before stopping it.              *)

DetachRemove(s) ==
  LET st   == streamOf[s]
      rest == Without(subs[st], s)
  IN
  /\ pc[s] = "live"
  /\ ctxDone[s]
  /\ ~stMu[st]
  /\ subs' = [subs EXCEPT ![st] = rest]
  /\ closed' = [closed EXCEPT ![s] = TRUE]
  /\ panicked' = (panicked \/ closed[s])
  /\ pc' = [pc EXCEPT ![s] = IF rest = <<>> THEN "empty" ELSE "done"]
  /\ UNCHANGED <<ctxDone, streamOf, lockVars, userStreams, cancelled,
                 loopVars, chan, last>>

DetachLock(s) ==
  /\ pc[s] = "empty"
  /\ userMu = None
  /\ userMu' = s
  /\ pc' = [pc EXCEPT ![s] = "recheck"]
  /\ UNCHANGED <<ctxDone, streamOf, stMu, streamVars, loopVars, chanVars>>

DetachStop(s) ==
  LET st == streamOf[s]
      u  == UserOf[s]
  IN
  /\ pc[s] = "recheck"
  /\ ~stMu[st]
  /\ IF subs[st] = <<>>
     THEN /\ cancelled' = [cancelled EXCEPT ![st] = TRUE]
          /\ userStreams' = [userStreams EXCEPT ![u] = IF @ = st THEN None ELSE @]
     ELSE UNCHANGED <<cancelled, userStreams>>
  /\ userMu' = None
  /\ pc' = [pc EXCEPT ![s] = "done"]
  /\ UNCHANGED <<ctxDone, streamOf, stMu, subs, loopVars, chanVars>>

-----------------------------------------------------------------------------
(* runUserLoop and readUserFrames                                          *)

LoopTop(st) ==
  /\ loop[st] = "top"
  /\ loop' = [loop EXCEPT ![st] = IF cancelled[st]   THEN "end"
                                  ELSE IF disconnect[st] THEN "sleep" ELSE "dial"]
  /\ UNCHANGED <<callVars, lockVars, streamVars, disconnect, at, orders,
                 trades, chanVars>>

\* sleepBackoff: the select may take the timer even when ctx is done too
LoopSleep(st) ==
  /\ loop[st] = "sleep"
  /\ \/ loop' = [loop EXCEPT ![st] = "dial"]
     \/ cancelled[st] /\ loop' = [loop EXCEPT ![st] = "end"]
  /\ UNCHANGED <<callVars, lockVars, streamVars, disconnect, at, orders,
                 trades, chanVars>>

\* connect, then the subscribe envelope; either may fail
LoopConnect(st) ==
  /\ loop[st] = "dial"
  /\ \/ /\ loop' = [loop EXCEPT ![st] = "read"]
        /\ UNCHANGED disconnect
     \/ /\ loop' = [loop EXCEPT ![st] = "top"]
        /\ disconnect' = [disconnect EXCEPT ![st] = TRUE]
  /\ UNCHANGED <<callVars, lockVars, streamVars, at, orders, trades, chanVars>>

\* A frame that decodes to an event.  PONG, undecodable and other frames
\* change nothing.
ReadEvent(st) ==
  /\ loop[st] = "read"
  /\ \/ orders[st] < MaxOrders /\ loop' = [loop EXCEPT ![st] = "order"]
     \/ trades[st] < MaxTrades /\ loop' = [loop EXCEPT ![st] = "trade"]
  /\ UNCHANGED <<callVars, lockVars, streamVars, disconnect, at, orders,
                 trades, chanVars>>

\* conn.Read fails: the connection broke, or the loop's ctx is done
ReadFails(st) ==
  /\ loop[st] = "read"
  /\ loop' = [loop EXCEPT ![st] = IF cancelled[st] THEN "end" ELSE "top"]
  /\ disconnect' = [disconnect EXCEPT ![st] = ~cancelled[st]]
  /\ UNCHANGED <<callVars, lockVars, streamVars, at, orders, trades, chanVars>>

\* dispatchOrder takes the stream's lock and keeps it over every send
OrderBegin(st) ==
  /\ loop[st] = "order"
  /\ ~stMu[st]
  /\ stMu' = [stMu EXCEPT ![st] = TRUE]
  /\ orders' = [orders EXCEPT ![st] = @ + 1]
  /\ loop' = [loop EXCEPT ![st] = "sending"]
  /\ UNCHANGED <<callVars, userMu, streamVars, disconnect, at, trades, chanVars>>

\* The next subscriber of the range: a trade subscriber is passed over; an
\* order subscriber is sent the event, or passed over once its ctx is done.
OrderSend(st) ==
  LET s == subs[st][at[st]] IN
  /\ loop[st] = "sending"
  /\ at[st] <= Len(subs[st])
  /\ \/ /\ s \in OrderSubs
        /\ closed[s] \/ Len(chan[s]) < Cap
        /\ chan' = [chan EXCEPT ![s] = Append(@, orders[st])]
        /\ panicked' = (panicked \/ closed[s])
     \/ /\ s \notin OrderSubs \/ ctxDone[s]
        /\ UNCHANGED <<chan, panicked>>
  /\ at' = [at EXCEPT ![st] = @ + 1]
  /\ UNCHANGED <<callVars, lockVars, streamVars, loop, disconnect, orders,
                 trades, closed, last>>

\* The range is done; or an order send selects the loop's ctx, which is done.
OrderEnd(st) ==
  LET done == at[st] > Len(subs[st]) IN
  /\ loop[st] = "sending"
  /\ ~done => subs[st][at[st]] \in OrderSubs /\ cancelled[st]
  /\ loop' = [loop EXCEPT ![st] = IF done THEN "read" ELSE "end"]
  /\ stMu' = [stMu EXCEPT ![st] = FALSE]
  /\ at' = [at EXCEPT ![st] = 1]
  /\ UNCHANGED <<callVars, userMu, streamVars, disconnect, orders, trades,
                 chanVars>>

\* dispatchTrade: under the lock, to every trade subscriber whose channel has
\* room; the event is dropped for the others.
DispatchTrade(st) ==
  LET members == Elems(subs[st]) \ OrderSubs
      sent    == {s \in members : closed[s] \/ Len(chan[s]) < Cap}
  IN
  /\ loop[st] = "trade"
  /\ ~stMu[st]
  /\ trades' = [trades EXCEPT ![st] = @ + 1]
  /\ chan' = [s \in Subs |-> IF s \in sent THEN Append(chan[s], trades'[st])
                                           ELSE chan[s]]
  /\ panicked' = (panicked \/ \E s \in sent : closed[s])
  /\ loop' = [loop EXCEPT ![st] = "read"]
  /\ UNCHANGED <<callVars, lockVars, streamVars, disconnect, at, orders,
                 closed, last>>

-----------------------------------------------------------------------------

Caller(s)    == Subscribe(s) \/ Cancel(s) \/ Recv(s)
Goroutine(s) == \/ AttachLock(s) \/ AttachJoin(s)
                \/ DetachRemove(s) \/ DetachLock(s) \/ DetachStop(s)
Loop(st)     == \/ LoopTop(st) \/ LoopSleep(st) \/ LoopConnect(st)
                \/ ReadEvent(st) \/ ReadFails(st)
                \/ OrderBegin(st) \/ OrderSend(st) \/ OrderEnd(st)
                \/ DispatchTrade(st)

Next == \/ \E s \in Subs : Caller(s) \/ Goroutine(s)
        \/ \E st \in Subs : Loop(st)

Spec == Init /\ [][Next]_vars

(***************************************************************************)
(* Fairness.  The Go scheduler runs every runnable goroutine (WF), and a   *)
(* sync.Mutex in starvation mode is handed to its longest waiter, so a     *)
(* goroutine is not passed over for ever at a lock that keeps coming free  *)
(* (SF).  The loop is fair in everything but reading an event, which takes *)
(* the upstream, and a read failing, which is certain only once the loop's *)
(* ctx is done.  Nobody has to subscribe or to cancel.  Whether consumers  *)
(* keep receiving is what the two specifications below differ in.          *)
(***************************************************************************)
LoopStep(st) == \/ LoopTop(st) \/ LoopSleep(st) \/ LoopConnect(st)
                \/ cancelled[st] /\ ReadFails(st)
                \/ OrderBegin(st) \/ OrderSend(st) \/ OrderEnd(st)
                \/ DispatchTrade(st)

SdkFairness == /\ \A s \in Subs : SF_vars(Goroutine(s))
               /\ \A st \in Subs : WF_vars(LoopStep(st))

\* Order consumers receive as long as they have not cancelled; trade consumers
\* need not receive at all.
FairSpec == /\ Spec /\ SdkFairness
            /\ \A s \in OrderSubs : WF_vars(~ctxDone[s] /\ Recv(s))

\* No consumer needs to receive.
StalledSpec == Spec /\ SdkFairness

-----------------------------------------------------------------------------

CallTypeOK ==
  /\ pc \in [Subs -> CallState]
  /\ ctxDone \in [Subs -> BOOLEAN]
  /\ streamOf \in [Subs -> Subs \cup {None}]
LockTypeOK ==
  /\ userMu \in Subs \cup {None}
  /\ stMu \in [Subs -> BOOLEAN]
StreamTypeOK ==
  /\ userStreams \in [Users -> Subs \cup {None}]
  /\ subs \in [Subs -> Seq(Subs)]
  /\ cancelled \in [Subs -> BOOLEAN]
LoopTypeOK ==
  /\ loop \in [Subs -> LoopState]
  /\ disconnect \in [Subs -> BOOLEAN]
  /\ at \in [Subs -> Nat \ {0}]
  /\ orders \in [Subs -> Nat]
  /\ trades \in [Subs -> Nat]
ChanTypeOK ==
  /\ chan \in [Subs -> Seq(Nat)]
  /\ closed \in [Subs -> BOOLEAN]
  /\ last \in [Subs -> Nat]
  /\ panicked \in BOOLEAN

\* Every variable is of its type.
TypeOK == CallTypeOK /\ LockTypeOK /\ StreamTypeOK /\ LoopTypeOK /\ ChanTypeOK

\* No event is sent on a closed channel and none is closed twice: what
\* closing inside the stream's lock is for (client.go:321, 366-371, 571).
NoPanic == ~panicked

\* A subscriber that has attached and not yet detached hangs on the stream the
\* registry holds for its user, and that stream's loop has not been stopped:
\* what the second look at len(st.subs), under both locks, protects
\* (client.go:377-388).
LiveServed ==
  \A s \in Subs : pc[s] = "live" =>
    /\ s \in Elems(subs[streamOf[s]])
    /\ userStreams[UserOf[s]] = streamOf[s]
    /\ ~cancelled[streamOf[s]]

\* Calls for one user id share one connection: two streams of a user are
\* never both running uncancelled (client.go:49-51).
Running(st) == loop[st] \notin {"none", "end"} /\ ~cancelled[st]
OneStreamPerUser ==
  \A s, t \in Subs :
    Running(s) /\ Running(t) /\ UserOf[s] = UserOf[t] => s = t

\* The loop stops because it was cancelled, and only a stream nobody is
\* subscribed to is cancelled, so dispatchOrder never meets a done loop ctx
\* in mid-range (its third select case, client.go:581, is never taken).
StoppedOnlyWhenEmpty ==
  \A st \in Subs : loop[st] = "end" \/ cancelled[st] => subs[st] = <<>>

\* An order subscriber that has not cancelled misses none of the order events
\* its stream has dispatched since it attached and gets none twice or out of
\* order: its channel holds exactly those after the last it received.  The
\* event being dispatched may not have reached it yet.
Pending(s) ==
  LET st == streamOf[s] IN
  stMu[st] /\ \E i \in at[st]..Len(subs[st]) : subs[st][i] = s
Sent(s) == orders[streamOf[s]] - (IF Pending(s) THEN 1 ELSE 0)
OrdersNotLost ==
  \A s \in OrderSubs : pc[s] = "live" /\ ~ctxDone[s] =>
    chan[s] = [i \in 1..(Sent(s) - last[s]) |-> last[s] + i]

\* What UserFeed sees of a subscriber.
FeedState(s) == IF closed[s] THEN "closed"
                ELSE IF pc[s] = "live" THEN "open" ELSE "none"
Offered(s)   == IF pc[s] # "live" THEN 0
                ELSE IF s \in OrderSubs THEN Sent(s) ELSE trades[streamOf[s]]
Feed == INSTANCE UserFeed WITH state   <- [s \in Subs |-> FeedState(s)],
                               offered <- [s \in Subs |-> Offered(s)]

\* What the comments on SubscribeOrders and SubscribeTrades promise every
\* subscriber, whatever the others do: UserFeed, implemented by all of this
\* (client.go:161-166, 182-187).
FeedSpec == Feed!Spec

\* The channel is closed once the caller's ctx is done (client.go:182-183
\* says so of both kinds of subscription).
ClosedAfterCancel ==
  \A s \in Subs : pc[s] # "idle" /\ ctxDone[s] ~> closed[s]

\* A Subscribe call returns (attachUserSub waits for two locks).
SubscribeReturns ==
  \A s \in Subs : pc[s] = "call" ~> pc[s] \notin {"call", "join"}

\* An event that was read is dispatched and the loop gets back to reading:
\* in particular a trade consumer that does not receive never holds up the
\* orders on the connection (client.go:186-187).
DispatchFinishes ==
  \A st \in Subs :
    loop[st] \in {"order", "sending", "trade"} ~> loop[st] \in {"read", "end"}

\* A stream without subscribers gets a new one or its loop ends: connections
\* and goroutines do not leak.
AbandonedLoopEnds ==
  \A st \in Subs :
    loop[st] # "none" /\ subs[st] = <<>> ~> subs[st] # <<>> \/ loop[st] = "end"
=============================================================================
