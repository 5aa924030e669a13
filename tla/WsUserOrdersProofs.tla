------------------------- MODULE WsUserOrdersProofs -------------------------
(***************************************************************************)
(* Proof about WsUser, for any number of calls, users and events and any   *)
(* channel capacity: an order subscriber misses no order event and gets    *)
(* none twice or out of order, whoever attaches, detaches or cancels while *)
(* dispatchOrder is at work; and WsUser implements UserFeed.               *)
(***************************************************************************)
EXTENDS WsUserProofs

\* Subscribers that are owed every order event.
Owed(s) == s \in OrderSubs /\ pc[s] = "live" /\ ~ctxDone[s]

\* A range over subs starts at the beginning.
AtStart == \A st \in Subs : ~stMu[st] => at[st] = 1

\* Nothing is sent to a call that has not joined.
Unsent == \A s \in Subs : pc[s] \in {"idle", "call", "join"} => chan[s] = <<>>

\* The channel holds the events from the one after last to the last one sent.
Holds(s) ==
  /\ last[s] <= Sent(s)
  /\ Len(chan[s]) = Sent(s) - last[s]
  /\ \A i \in 1..Len(chan[s]) : chan[s][i] = last[s] + i

DInv == AtStart /\ Unsent /\ \A s \in Subs : Owed(s) => Holds(s)

-----------------------------------------------------------------------------

\* What the types and IInv say of a subscriber that has joined.
LEMMA LiveFacts ==
  ASSUME IInv, NEW s \in Subs, pc[s] = "live"
  PROVE  /\ streamOf[s] \in Subs /\ orders[streamOf[s]] \in Nat /\ last[s] \in Nat
         /\ trades[streamOf[s]] \in Nat /\ chan[s] \in Seq(Nat) /\ Sent(s) \in Int /\ ~closed[s]
         /\ \E i \in 1..Len(subs[streamOf[s]]) : subs[streamOf[s]][i] = s
<1>1. streamOf[s] \in Subs
  BY DEF IInv, TypeOK, CallTypeOK, CallStream
<1>2. orders[streamOf[s]] \in Nat /\ last[s] \in Nat /\ trades[streamOf[s]] \in Nat /\ chan[s] \in Seq(Nat)
  BY <1>1 DEF IInv, TypeOK, LoopTypeOK, ChanTypeOK
<1>3. Sent(s) \in Int
  BY <1>2 DEF Sent
<1>4. \E i \in 1..Len(subs[streamOf[s]]) : subs[streamOf[s]][i] = s
  BY DEF IInv, Membership
<1>5. ~closed[s]
  BY DEF IInv, Closing
<1> QED
  BY <1>1, <1>2, <1>3, <1>4, <1>5

\* Nobody's share changes in a step that sends, receives and begins nothing.
LEMMA HoldsKept ==
  ASSUME NEW s \in Subs, Holds(s), Sent(s)' = Sent(s), chan'[s] = chan[s], last'[s] = last[s]
  PROVE  Holds(s)'
BY DEF Holds

\* Sent does not change while the stream's lock is free before and after.
LEMMA SentUnlocked ==
  ASSUME NEW s \in Subs, streamOf'[s] = streamOf[s],
         ~stMu[streamOf[s]], ~stMu'[streamOf[s]], orders'[streamOf[s]] = orders[streamOf[s]]
  PROVE  Sent(s)' = Sent(s)
BY DEF Sent, Pending

\* A step of a loop that is not dispatching an order leaves everybody's share.
LEMMA QuietLoop ==
  ASSUME IInv, DInv, NEW st \in Subs,
         \/ LoopTop(st) \/ LoopSleep(st) \/ LoopConnect(st) \/ ReadEvent(st) \/ ReadFails(st)
         \/ DispatchTrade(st)
  PROVE  DInv'
<1>1. UNCHANGED <<pc, ctxDone, streamOf, stMu, subs, at, orders, last>>
  BY DEF LoopTop, LoopSleep, LoopConnect, ReadEvent, ReadFails, DispatchTrade, callVars,
         lockVars, streamVars, chanVars
<1>2. ASSUME NEW s \in OrderSubs PROVE chan'[s] = chan[s]
  <2>1. s \in Subs
    BY ConstantsAssumption
  <2> QED
    BY <2>1 DEF LoopTop, LoopSleep, LoopConnect, ReadEvent, ReadFails, DispatchTrade, chanVars
<1>3. ASSUME NEW s \in Subs, pc[s] # "live" PROVE chan'[s] = chan[s]
  <2>1. s \notin Elems(subs[st])
    BY <1>3 DEF IInv, Membership, Elems
  <2> QED
    BY <2>1 DEF LoopTop, LoopSleep, LoopConnect, ReadEvent, ReadFails, DispatchTrade, chanVars
<1>4. AtStart'
  BY <1>1 DEF DInv, AtStart
<1>5. Unsent'
  BY <1>1, <1>3 DEF DInv, Unsent
<1>6. ASSUME NEW s \in Subs, Owed(s)' PROVE Holds(s)'
  <2>1. Owed(s) /\ s \in OrderSubs
    BY <1>1, <1>6 DEF Owed
  <2>2. Sent(s)' = Sent(s)
    BY <1>1 DEF Sent, Pending
  <2> QED
    BY <1>1, <1>2, <2>1, <2>2, HoldsKept DEF DInv
<1> QED
  BY <1>4, <1>5, <1>6 DEF DInv

\* dispatchOrder begins: everybody on the stream is still to be sent the event.
LEMMA BeginSent ==
  ASSUME IInv, DInv, NEW st \in Subs, OrderBegin(st), NEW s \in Subs, pc[s] = "live"
  PROVE  Sent(s)' = Sent(s)
<1>1. /\ UNCHANGED <<streamOf, subs, at>>
      /\ ~stMu[st] /\ at[st] = 1 /\ stMu' = [stMu EXCEPT ![st] = TRUE]
      /\ orders' = [orders EXCEPT ![st] = @ + 1]
  BY DEF OrderBegin, callVars, streamVars, DInv, AtStart
<1>2. stMu \in [Subs -> BOOLEAN] /\ orders \in [Subs -> Nat] /\ streamOf[s] \in Subs
  BY LiveFacts DEF IInv, TypeOK, LockTypeOK, LoopTypeOK
<1>3. CASE streamOf[s] = st
  <2>1. PICK i \in 1..Len(subs[st]) : subs[st][i] = s
    BY <1>3, LiveFacts
  <2>2. Pending(s)'
    BY <1>1, <1>2, <1>3, <2>1 DEF Pending
  <2>3. ~Pending(s)
    BY <1>1, <1>3 DEF Pending
  <2> QED
    BY <1>1, <1>2, <1>3, <2>2, <2>3 DEF Sent
<1>4. CASE streamOf[s] # st
  BY <1>1, <1>2, <1>4 DEF Sent, Pending
<1> QED
  BY <1>3, <1>4

LEMMA BeginKeeps ==
  ASSUME IInv, DInv, NEW st \in Subs, OrderBegin(st)
  PROVE  DInv'
<1>1. UNCHANGED <<pc, ctxDone, at, chan, last>> /\ stMu' = [stMu EXCEPT ![st] = TRUE]
  BY DEF OrderBegin, callVars, chanVars
<1>2. stMu \in [Subs -> BOOLEAN]
  BY DEF IInv, TypeOK, LockTypeOK
<1>3. AtStart' /\ Unsent'
  BY <1>1, <1>2 DEF DInv, AtStart, Unsent
<1>4. ASSUME NEW s \in Subs, Owed(s)' PROVE Holds(s)'
  <2>1. Owed(s) /\ pc[s] = "live"
    BY <1>1, <1>4 DEF Owed
  <2>2. Sent(s)' = Sent(s)
    BY <2>1, BeginSent
  <2> QED
    BY <1>1, <2>1, <2>2, HoldsKept DEF DInv
<1> QED
  BY <1>3, <1>4 DEF DInv

\* The subscriber the range has come to, and what a send to it leaves alone.
Target(st) == subs[st][at[st]]

LEMMA SendFacts ==
  ASSUME IInv, NEW st \in Subs, OrderSend(st)
  PROVE  /\ UNCHANGED <<pc, ctxDone, streamOf, subs, stMu, orders, trades, closed, last>>
         /\ stMu[st] /\ at' = [at EXCEPT ![st] = @ + 1] /\ at[st] \in 1..Len(subs[st])
         /\ Target(st) \in Subs /\ streamOf[Target(st)] = st /\ pc[Target(st)] = "live"
         /\ \A j \in 1..Len(subs[st]) : subs[st][j] = Target(st) => j = at[st]
         /\ \/ /\ Target(st) \in OrderSubs /\ Len(chan[Target(st)]) < Cap
               /\ chan' = [chan EXCEPT ![Target(st)] = Append(@, orders[st])]
            \/ /\ Target(st) \notin OrderSubs \/ ctxDone[Target(st)]
               /\ chan' = chan
<1>1. /\ UNCHANGED <<pc, ctxDone, streamOf, subs, stMu, orders, trades, closed, last>>
      /\ at' = [at EXCEPT ![st] = @ + 1] /\ stMu[st]
  BY DEF OrderSend, callVars, lockVars, streamVars, IInv, StreamLock
<1>2. at[st] \in 1..Len(subs[st]) /\ subs[st] \in Seq(Subs)
  BY DEF OrderSend, IInv, TypeOK, LoopTypeOK, StreamTypeOK
<1>3. Target(st) \in Subs
  BY <1>2 DEF Target
<1>4. /\ streamOf[Target(st)] = st /\ pc[Target(st)] = "live"
      /\ \A j \in 1..Len(subs[st]) : subs[st][j] = Target(st) => j = at[st]
  BY <1>2, <1>3 DEF IInv, Membership, Target
<1>5. ~closed[Target(st)]
  BY <1>3, <1>4, LiveFacts
<1>6. \/ /\ Target(st) \in OrderSubs /\ Len(chan[Target(st)]) < Cap
         /\ chan' = [chan EXCEPT ![Target(st)] = Append(@, orders[st])]
      \/ /\ Target(st) \notin OrderSubs \/ ctxDone[Target(st)]
         /\ chan' = chan
  BY <1>5 DEF OrderSend, Target
<1> QED
  BY <1>1, <1>2, <1>3, <1>4, <1>6

\* One send of the range: the subscriber it is for has got this event, too, and
\* the others are as far from it as they were.
LEMMA SendSent ==
  ASSUME IInv, NEW st \in Subs, OrderSend(st), NEW s \in Subs, pc[s] = "live"
  PROVE  /\ s = Target(st) => Sent(s) = orders[st] - 1 /\ Sent(s)' = orders[st]
         /\ s # Target(st) => Sent(s)' = Sent(s)
<1>1. /\ UNCHANGED <<streamOf, subs, stMu, orders>>
      /\ stMu[st] /\ at' = [at EXCEPT ![st] = @ + 1] /\ at[st] \in 1..Len(subs[st])
      /\ streamOf[Target(st)] = st
      /\ \A j \in 1..Len(subs[st]) : subs[st][j] = Target(st) => j = at[st]
  BY SendFacts
<1>2. PICK k, n : k = at[st] /\ n = Len(subs[st])
  OBVIOUS
<1>3. at \in [Subs -> Nat \ {0}] /\ subs[st] \in Seq(Subs) /\ orders[st] \in Nat
  BY DEF IInv, TypeOK, LoopTypeOK, StreamTypeOK
<1>4. k \in Nat /\ n \in Nat /\ k \in 1..n /\ at'[st] = k + 1
  BY <1>1, <1>2, <1>3
<1>5. \A i \in k..n : i = k \/ i \in (k + 1)..n
  BY <1>4
<1>6. \A i \in (k + 1)..n : i \in k..n /\ i \in 1..n /\ i # k
  BY <1>4
<1>7. ASSUME s = Target(st)
      PROVE  Sent(s) = orders[st] - 1 /\ Sent(s)' = orders[st]
  <2>1. Pending(s)
    <3>1. k \in k..n /\ subs[st][k] = s
      BY <1>2, <1>4, <1>7 DEF Target
    <3> QED
      BY <1>1, <1>2, <1>7, <3>1 DEF Pending
  <2>2. ~Pending(s)'
    <3>1. \A i \in (k + 1)..n : subs[st][i] # s
      BY <1>1, <1>2, <1>6, <1>7
    <3> QED
      BY <1>1, <1>2, <1>4, <1>7, <3>1 DEF Pending
  <2>3. Sent(s) = orders[st] - 1
    BY <1>1, <1>7, <2>1 DEF Sent
  <2>4. Sent(s)' = orders[st] - 0
    BY <1>1, <1>7, <2>2 DEF Sent
  <2> QED
    BY <1>3, <2>3, <2>4
<1>8. ASSUME s # Target(st) PROVE Sent(s)' = Sent(s)
  <2>1. Pending(s)' <=> Pending(s)
    <3>1. CASE streamOf[s] = st
      <4>1. subs[st][k] # s
        BY <1>2, <1>8 DEF Target
      <4>2. (\E i \in k..n : subs[st][i] = s) <=> (\E i \in (k + 1)..n : subs[st][i] = s)
        BY <1>5, <1>6, <4>1
      <4> QED
        BY <1>1, <1>2, <1>4, <3>1, <4>2 DEF Pending
    <3>2. CASE streamOf[s] # st
      BY <1>1, <1>3, <3>2 DEF Pending
    <3> QED
      BY <3>1, <3>2
  <2> QED
    BY <1>1, <2>1 DEF Sent
<1> QED
  BY <1>7, <1>8

LEMMA SendKeeps ==
  ASSUME IInv, DInv, NEW st \in Subs, OrderSend(st)
  PROVE  DInv'
<1> DEFINE x == Target(st)
<1>1. /\ UNCHANGED <<pc, ctxDone, stMu, last>> /\ stMu[st] /\ at' = [at EXCEPT ![st] = @ + 1]
      /\ x \in Subs /\ pc[x] = "live"
      /\ \/ x \in OrderSubs /\ chan' = [chan EXCEPT ![x] = Append(@, orders[st])]
         \/ ~Owed(x) /\ chan' = chan
  BY SendFacts DEF Owed
<1>2. chan \in [Subs -> Seq(Nat)] /\ orders[st] \in Nat /\ last \in [Subs -> Nat]
  BY DEF IInv, TypeOK, LoopTypeOK, ChanTypeOK
<1> HIDE DEF x
<1>3. \A s \in Subs \ {x} : chan'[s] = chan[s]
  BY <1>1, <1>2
<1>4. AtStart'
  BY <1>1 DEF DInv, AtStart
<1>5. Unsent'
  BY <1>1, <1>3 DEF DInv, Unsent
<1>6. ASSUME NEW s \in Subs, Owed(s)' PROVE Holds(s)'
  <2>1. Owed(s) /\ Holds(s) /\ pc[s] = "live"
    BY <1>1, <1>6 DEF Owed, DInv
  <2>2. CASE s = x
    <3>1. Sent(s) = orders[st] - 1 /\ Sent(s)' = orders[st]
      BY <2>1, <2>2, SendSent DEF x
    <3>2. chan'[s] = Append(chan[s], orders[st]) /\ chan[s] \in Seq(Nat)
      BY <1>1, <1>2, <2>1, <2>2
    <3>3. /\ last[s] <= orders[st] - 1 /\ Len(chan[s]) = orders[st] - 1 - last[s]
          /\ \A i \in 1..Len(chan[s]) : chan[s][i] = last[s] + i
      BY <2>1, <3>1 DEF Holds
    <3>4. last[s] \in Nat /\ orders[st] \in Nat
      BY <1>2
    <3>5. Len(chan'[s]) = orders[st] - last[s]
      BY <3>2, <3>3, <3>4
    <3>6. ASSUME NEW i \in 1..Len(chan'[s]) PROVE chan'[s][i] = last[s] + i
      <4>1. CASE i = Len(chan[s]) + 1
        <5>1. chan'[s][i] = orders[st]
          BY <3>2, <4>1
        <5> QED
          BY <3>2, <3>3, <3>4, <4>1, <5>1
      <4>2. CASE i # Len(chan[s]) + 1
        <5>1. i \in 1..Len(chan[s]) /\ chan'[s][i] = chan[s][i]
          BY <3>2, <4>2
        <5> QED
          BY <3>3, <5>1
      <4> QED
        BY <4>1, <4>2
    <3>7. last'[s] = last[s]
      BY <1>1
    <3> QED
      BY <3>1, <3>3, <3>4, <3>5, <3>6, <3>7 DEF Holds
  <2>3. CASE s # x
    <3>1. Sent(s)' = Sent(s)
      BY <2>1, <2>3, SendSent DEF x
    <3> QED
      BY <1>1, <1>3, <2>1, <2>3, <3>1, HoldsKept
  <2> QED
    BY <2>2, <2>3
<1> QED
  BY <1>4, <1>5, <1>6 DEF DInv

\* dispatchOrder ends, its range done: a loop with subscribers is not stopped.
LEMMA EndSent ==
  ASSUME IInv, NEW st \in Subs, OrderEnd(st), NEW s \in Subs, pc[s] = "live"
  PROVE  Sent(s)' = Sent(s)
<1>1. /\ UNCHANGED <<streamOf, subs, orders>>
      /\ at' = [at EXCEPT ![st] = 1] /\ stMu' = [stMu EXCEPT ![st] = FALSE]
  BY DEF OrderEnd, callVars, streamVars
<1>2. /\ at \in [Subs -> Nat \ {0}] /\ stMu \in [Subs -> BOOLEAN] /\ subs[st] \in Seq(Subs)
      /\ streamOf[s] \in Subs
  BY LiveFacts DEF IInv, TypeOK, LoopTypeOK, LockTypeOK, StreamTypeOK
<1>3. at[st] > Len(subs[st])
  BY <1>2 DEF OrderEnd, IInv, Cancellation
<1>4. Pending(s)' <=> Pending(s)
  <2>1. CASE streamOf[s] = st
    BY <1>1, <1>2, <1>3, <2>1 DEF Pending
  <2>2. CASE streamOf[s] # st
    BY <1>1, <1>2, <2>2 DEF Pending
  <2> QED
    BY <2>1, <2>2
<1> QED
  BY <1>1, <1>4 DEF Sent

LEMMA EndKeeps ==
  ASSUME IInv, DInv, NEW st \in Subs, OrderEnd(st)
  PROVE  DInv'
<1>1. /\ UNCHANGED <<pc, ctxDone, chan, last>>
      /\ at' = [at EXCEPT ![st] = 1] /\ stMu' = [stMu EXCEPT ![st] = FALSE]
  BY DEF OrderEnd, callVars, chanVars
<1>2. at \in [Subs -> Nat \ {0}] /\ stMu \in [Subs -> BOOLEAN]
  BY DEF IInv, TypeOK, LoopTypeOK, LockTypeOK
<1>3. AtStart' /\ Unsent'
  BY <1>1, <1>2 DEF DInv, AtStart, Unsent
<1>4. ASSUME NEW s \in Subs, Owed(s)' PROVE Holds(s)'
  <2>1. Owed(s) /\ pc[s] = "live"
    BY <1>1, <1>4 DEF Owed
  <2>2. Sent(s)' = Sent(s)
    BY <2>1, EndSent
  <2> QED
    BY <1>1, <2>1, <2>2, HoldsKept DEF DInv
<1> QED
  BY <1>3, <1>4 DEF DInv

\* A caller's steps: receiving takes the next event.
LEMMA CallerKeeps ==
  ASSUME IInv, DInv, NEW x \in Subs, Caller(x)
  PROVE  DInv'
<1>1. UNCHANGED <<streamOf, stMu, subs, at, orders>>
  BY DEF Caller, Subscribe, Cancel, Recv, lockVars, streamVars, loopVars, callVars
<1>2. AtStart'
  BY <1>1 DEF DInv, AtStart
<1>3. \A s \in Subs : Sent(s)' = Sent(s)
  BY <1>1 DEF Sent, Pending
<1>4. CASE Subscribe(x) \/ Cancel(x)
  <2>0. pc \in [Subs -> CallState] /\ ctxDone \in [Subs -> BOOLEAN]
    BY DEF IInv, TypeOK, CallTypeOK
  <2>1. /\ UNCHANGED <<chan, last>>
        /\ \A s \in Subs : pc'[s] = "live" => pc[s] = "live"
        /\ \A s \in Subs : pc'[s] = pc[s] \/ pc[s] = "idle"
    BY <1>4, <2>0 DEF Subscribe, Cancel, chanVars
  <2>4. \A s \in Subs : ctxDone[s] => ctxDone'[s]
    BY <1>4, <2>0 DEF Subscribe, Cancel
  <2>2. Unsent'
    BY <2>1 DEF DInv, Unsent
  <2>3. ASSUME NEW s \in Subs, Owed(s)' PROVE Holds(s)'
    <3>1. Owed(s)
      BY <2>1, <2>3, <2>4 DEF Owed
    <3> QED
      BY <1>3, <2>1, <3>1, HoldsKept DEF DInv
  <2> QED
    BY <1>2, <2>2, <2>3 DEF DInv
<1>5. CASE Recv(x)
  <2>1. /\ chan[x] \in Seq(Nat) /\ chan[x] # <<>> /\ UNCHANGED <<pc, ctxDone>>
        /\ chan \in [Subs -> Seq(Nat)] /\ last \in [Subs -> Nat]
        /\ last' = [last EXCEPT ![x] = Head(chan[x])]
        /\ chan' = [chan EXCEPT ![x] = Tail(chan[x])]
    BY <1>5 DEF Recv, IInv, TypeOK, ChanTypeOK, callVars
  <2>2. Unsent'
    BY <2>1 DEF DInv, Unsent
  <2>3. ASSUME NEW s \in Subs, Owed(s)' PROVE Holds(s)'
    <3>1. Owed(s) /\ Holds(s)
      BY <2>1, <2>3 DEF Owed, DInv
    <3>2. CASE s = x
      <4>1. Len(chan[s]) \in Nat \ {0} /\ last[s] \in Nat /\ Sent(s) \in Int
        <5>1. pc[s] = "live"
          BY <3>1 DEF Owed
        <5> QED
          BY <2>1, <3>2, <5>1, LiveFacts
      <4>2. last'[s] = last[s] + 1
        <5>1. last'[s] = chan[s][1] /\ 1 \in 1..Len(chan[s])
          BY <2>1, <3>2, <4>1
        <5> QED
          BY <3>1, <5>1 DEF Holds
      <4>3. chan'[s] = Tail(chan[s]) /\ Len(chan'[s]) = Len(chan[s]) - 1
        BY <2>1, <3>2
      <4>4. ASSUME NEW i \in 1..Len(chan'[s]) PROVE chan'[s][i] = last'[s] + i
        <5>1. i + 1 \in 1..Len(chan[s]) /\ chan'[s][i] = chan[s][i + 1]
          BY <2>1, <3>2, <4>1, <4>3
        <5>2. chan[s][i + 1] = last[s] + (i + 1)
          BY <3>1, <5>1 DEF Holds
        <5> QED
          BY <4>1, <4>2, <5>1, <5>2
      <4>5. last'[s] <= Sent(s) /\ Len(chan'[s]) = Sent(s) - last'[s]
        BY <3>1, <4>1, <4>2, <4>3 DEF Holds
      <4> QED
        BY <1>3, <4>4, <4>5 DEF Holds
    <3>3. CASE s # x
      BY <1>3, <2>1, <3>1, <3>3, HoldsKept
    <3> QED
      BY <3>2, <3>3
  <2> QED
    BY <1>2, <2>2, <2>3 DEF DInv
<1> QED
  BY <1>4, <1>5 DEF Caller

\* Who joins or leaves a stream does so while its lock is free, so that nobody
\* else's share changes.
LEMMA GoroutineSent ==
  ASSUME IInv, NEW x \in Subs, Goroutine(x), NEW s \in Subs, pc[s] = "live", s # x
  PROVE  Sent(s)' = Sent(s) /\ pc'[s] = pc[s] /\ last'[s] = last[s]
         /\ closed'[s] = closed[s] /\ streamOf'[s] = streamOf[s]
<1>1. UNCHANGED <<stMu, at, orders>>
  BY DEF Goroutine, AttachLock, AttachJoin, DetachRemove, DetachLock, DetachStop, lockVars,
         loopVars
<1>2. /\ pc \in [Subs -> CallState] /\ streamOf \in [Subs -> Subs \cup {None}]
      /\ last \in [Subs -> Nat] /\ subs \in [Subs -> Seq(Subs)] /\ closed \in [Subs -> BOOLEAN]
      /\ streamOf[s] \in Subs
  BY LiveFacts DEF IInv, TypeOK, CallTypeOK, ChanTypeOK, StreamTypeOK
<1>3. pc'[s] = pc[s] /\ last'[s] = last[s] /\ closed'[s] = closed[s] /\ streamOf'[s] = streamOf[s]
  BY <1>2 DEF Goroutine, AttachLock, AttachJoin, DetachRemove, DetachLock, DetachStop, chanVars
<1>4. CASE AttachLock(x) \/ DetachLock(x) \/ DetachStop(x)
  <2>1. subs' = subs
    BY <1>4 DEF AttachLock, DetachLock, DetachStop, streamVars
  <2>2. Sent(s)' = Sent(s)
    BY <1>1, <1>3, <2>1 DEF Sent, Pending
  <2> QED
    BY <1>3, <2>2
<1>5. CASE AttachJoin(x) \/ DetachRemove(x)
  <2>1. ~stMu[streamOf[x]] /\ \E q : subs' = [subs EXCEPT ![streamOf[x]] = q]
    BY <1>5 DEF AttachJoin, DetachRemove
  <2>2. Sent(s)' = Sent(s)
    <3>1. CASE streamOf[s] = streamOf[x]
      BY <1>1, <1>3, <2>1, <3>1, SentUnlocked
    <3>2. CASE streamOf[s] # streamOf[x]
      <4>1. subs'[streamOf[s]] = subs[streamOf[s]]
        BY <1>2, <2>1, <3>2
      <4> QED
        BY <1>1, <1>3, <4>1 DEF Sent, Pending
    <3> QED
      BY <3>1, <3>2
  <2> QED
    BY <1>3, <2>2
<1> QED
  BY <1>4, <1>5 DEF Goroutine

\* Who joins starts at the stream's last event.
LEMMA JoinSent ==
  ASSUME IInv, NEW x \in Subs, AttachJoin(x)
  PROVE  streamOf[x] \in Subs /\ streamOf'[x] = streamOf[x] /\ Sent(x)' = orders[streamOf[x]]
<1>1. UNCHANGED <<stMu, orders, streamOf>> /\ ~stMu[streamOf[x]] /\ pc[x] = "join"
  BY DEF AttachJoin, loopVars
<1>2. streamOf[x] \in Subs
  BY <1>1 DEF IInv, CallStream, TypeOK, CallTypeOK
<1>3. orders[streamOf[x]] \in Nat
  BY <1>2 DEF IInv, TypeOK, LoopTypeOK
<1>4. ~Pending(x)'
  BY <1>1 DEF Pending
<1>5. Sent(x)' = orders[streamOf[x]] - 0
  BY <1>1, <1>4 DEF Sent
<1> QED
  BY <1>1, <1>2, <1>3, <1>5

LEMMA GoroutineKeeps ==
  ASSUME IInv, DInv, NEW x \in Subs, Goroutine(x)
  PROVE  DInv'
<1>1. UNCHANGED <<ctxDone, stMu, at, orders, chan>>
  BY DEF Goroutine, AttachLock, AttachJoin, DetachRemove, DetachLock, DetachStop, lockVars,
         loopVars, chanVars
<1>2. AtStart'
  BY <1>1 DEF DInv, AtStart
<1>3. /\ pc \in [Subs -> CallState] /\ streamOf \in [Subs -> Subs \cup {None}]
      /\ last \in [Subs -> Nat] /\ orders \in [Subs -> Nat]
  BY DEF IInv, TypeOK, CallTypeOK, ChanTypeOK, LoopTypeOK
<1>4. Unsent'
  BY <1>1, <1>3 DEF DInv, Unsent, Goroutine, AttachLock, AttachJoin, DetachRemove, DetachLock,
                    DetachStop, CallState
<1>5. ASSUME NEW s \in Subs, s # x, Owed(s)' PROVE Holds(s)'
  <2>1. pc'[s] = pc[s]
    BY <1>3, <1>5 DEF Goroutine, AttachLock, AttachJoin, DetachRemove, DetachLock, DetachStop
  <2>2. Owed(s) /\ pc[s] = "live"
    BY <1>1, <1>5, <2>1 DEF Owed
  <2>3. Sent(s)' = Sent(s) /\ last'[s] = last[s]
    BY <1>5, <2>2, GoroutineSent
  <2> QED
    BY <1>1, <2>2, <2>3, HoldsKept DEF DInv
<1>6. ASSUME Owed(x)' PROVE Holds(x)'
  <2>1. AttachJoin(x)
    BY <1>3, <1>6 DEF Owed, Goroutine, AttachLock, DetachRemove, DetachLock, DetachStop
  <2>2. chan'[x] = <<>> /\ x \in OrderSubs
    BY <1>1, <1>6, <2>1 DEF AttachJoin, DInv, Unsent, Owed
  <2>3. last'[x] = orders[streamOf[x]]
    BY <1>3, <2>1, <2>2 DEF AttachJoin
  <2>4. Sent(x)' = orders[streamOf[x]] /\ streamOf[x] \in Subs
    BY <2>1, JoinSent
  <2> QED
    BY <1>3, <2>2, <2>3, <2>4 DEF Holds
<1> QED
  BY <1>2, <1>4, <1>5, <1>6 DEF DInv

\* DInv holds in every state.
LEMMA DispatchInvariance == Spec => [](IInv /\ DInv)
<1>1. Init => DInv
  BY DEF Init, DInv, AtStart, Unsent, Owed
<1>2. IInv /\ DInv /\ [Next]_vars => DInv'
  <2> SUFFICES ASSUME IInv, DInv, [Next]_vars PROVE DInv'
    OBVIOUS
  <2>1. ASSUME NEW s \in Subs, Caller(s) \/ Goroutine(s) PROVE DInv'
    BY <2>1, CallerKeeps, GoroutineKeeps
  <2>2. ASSUME NEW st \in Subs, Loop(st) PROVE DInv'
    BY <2>2, QuietLoop, BeginKeeps, SendKeeps, EndKeeps DEF Loop
  <2>3. CASE UNCHANGED vars
    BY <2>3 DEF vars, callVars, lockVars, streamVars, loopVars, chanVars, DInv, AtStart, Unsent,
                Owed, Holds, Sent, Pending
  <2> QED
    BY <2>1, <2>2, <2>3 DEF Next
<1> QED
  BY <1>1, <1>2, Invariance, PTL DEF Spec

\* An order subscriber that has not cancelled is sent every order event
\* dispatched since it attached, once and in order; its channel holds exactly
\* those it has not received (client.go:566-586).
THEOREM EveryOrderDelivered == Spec => []OrdersNotLost
<1>1. IInv /\ DInv => OrdersNotLost
  <2> SUFFICES ASSUME IInv, DInv, NEW s \in OrderSubs, pc[s] = "live", ~ctxDone[s]
               PROVE  chan[s] = [i \in 1..(Sent(s) - last[s]) |-> last[s] + i]
    BY DEF OrdersNotLost
  <2>1. s \in Subs /\ Owed(s)
    BY ConstantsAssumption DEF Owed
  <2>2. chan[s] \in Seq(Nat) /\ Holds(s)
    BY <2>1, LiveFacts DEF DInv
  <2>3. DOMAIN chan[s] = 1..(Sent(s) - last[s]) /\ chan[s] = [i \in DOMAIN chan[s] |-> chan[s][i]]
    BY <2>2 DEF Holds
  <2> QED
    BY <2>2, <2>3 DEF Holds
<1> QED
  BY <1>1, DispatchInvariance, PTL

-----------------------------------------------------------------------------
(* WsUser implements UserFeed.                                             *)

\* What a step does to what the abstract specification sees of one subscriber.
FeedSame(s)  == FeedState(s)' = FeedState(s) /\ Offered(s)' = Offered(s)

\* A step that changes nothing of it is a stutter.
LEMMA FeedStutter ==
  ASSUME UNCHANGED <<ctxDone, chan, last>>, \A s \in Subs : FeedSame(s)
  PROVE  UNCHANGED Feed!vars
<1>1. [s \in Subs |-> FeedState(s)]' = [s \in Subs |-> FeedState(s)]
  BY DEF FeedSame
<1>2. [s \in Subs |-> Offered(s)]' = [s \in Subs |-> Offered(s)]
  BY DEF FeedSame
<1> QED
  BY <1>1, <1>2 DEF Feed!vars

\* What is seen of a subscriber depends on its place, its stream's counters and
\* its channel's being open.
LEMMA SameWhenKept ==
  ASSUME NEW s \in Subs, closed'[s] = closed[s],
         pc'[s] = "live" <=> pc[s] = "live",
         pc[s] = "live" => /\ Sent(s)' = Sent(s) /\ streamOf'[s] = streamOf[s]
                           /\ trades'[streamOf[s]] = trades[streamOf[s]]
  PROVE  FeedSame(s)
BY DEF FeedSame, FeedState, Offered

\* A dispatch to nobody, or to subscribers that cannot take the event, is seen as
\* one all the same.
LEMMA DispatchSeen ==
  ASSUME NEW T \in SUBSET Subs, NEW D \in SUBSET T,
         UNCHANGED <<ctxDone, last>>,
         \A s \in T : FeedState(s) = "open",
         \A s \in D : IF s \in OrderSubs THEN ctxDone[s] ELSE Len(chan[s]) >= Cap,
         \A s \in T \ D : Len(chan[s]) < Cap,
         \A s \in Subs : FeedState(s)' = FeedState(s),
         \A s \in Subs : Offered(s)' = IF s \in T THEN Offered(s) + 1 ELSE Offered(s),
         chan' = [s \in Subs |-> IF s \in T \ D THEN Append(chan[s], Offered(s)') ELSE chan[s]]
  PROVE  Feed!Next
<1>1. [s \in Subs |-> FeedState(s)]' = [s \in Subs |-> FeedState(s)]
  OBVIOUS
<1>2. Feed!Dispatch(T, D)
  BY <1>1 DEF Feed!Dispatch, Feed!MayMiss
<1> QED
  BY <1>2 DEF Feed!Next

\* One send of the range is the dispatch to its subscriber alone; a trade
\* subscriber is offered nothing.
LEMMA SendFeed ==
  ASSUME IInv, DInv, NEW st \in Subs, OrderSend(st)
  PROVE  Feed!Next \/ UNCHANGED Feed!vars
<1>1. PICK x \in Subs :
        /\ x = Target(st) /\ streamOf[x] = st /\ pc[x] = "live"
        /\ \/ /\ x \in OrderSubs /\ Len(chan[x]) < Cap
              /\ chan' = [chan EXCEPT ![x] = Append(@, orders[st])]
           \/ /\ x \notin OrderSubs \/ ctxDone[x]
              /\ chan' = chan
  BY SendFacts
<1>2. UNCHANGED <<pc, ctxDone, streamOf, trades, closed, last>>
  BY SendFacts
<1>3. chan \in [Subs -> Seq(Nat)] /\ orders[st] \in Nat
  BY DEF IInv, TypeOK, LoopTypeOK, ChanTypeOK
<1>4. /\ ~closed[x] /\ Sent(x) = orders[st] - 1 /\ Sent(x)' = orders[st]
      /\ \A s \in Subs \ {x} : pc[s] = "live" => Sent(s)' = Sent(s)
  BY <1>1, LiveFacts, SendSent
<1>5. \A s \in Subs \ {x} : FeedSame(s)
  BY <1>2, <1>4, SameWhenKept
<1>6. FeedState(x) = "open" /\ FeedState(x)' = FeedState(x)
  BY <1>1, <1>2, <1>4 DEF FeedState
<1>7. CASE x \notin OrderSubs
  <2>1. FeedSame(x)
    BY <1>2, <1>6, <1>7 DEF FeedSame, Offered
  <2>2. chan' = chan
    BY <1>1, <1>7
  <2> QED
    BY <1>2, <1>5, <2>1, <2>2, FeedStutter
<1>8. CASE x \in OrderSubs
  <2>1. Offered(x)' = orders[st] /\ Offered(x)' = Offered(x) + 1
    <3>1. Offered(x) = orders[st] - 1 /\ Offered(x)' = orders[st]
      BY <1>1, <1>2, <1>4, <1>8 DEF Offered
    <3> QED
      BY <1>3, <3>1
  <2>2. /\ \A s \in Subs : FeedState(s)' = FeedState(s)
        /\ \A s \in Subs : Offered(s)' = IF s \in {x} THEN Offered(s) + 1 ELSE Offered(s)
    BY <1>5, <1>6, <2>1 DEF FeedSame
  <2>3. CASE /\ Len(chan[x]) < Cap
             /\ chan' = [chan EXCEPT ![x] = Append(@, orders[st])]
    <3>1. chan' = [s \in Subs |-> IF s \in {x} \ {} THEN Append(chan[s], Offered(s)')
                                                    ELSE chan[s]]
      BY <1>3, <2>1, <2>3
    <3>2. PICK D : D = {}
      OBVIOUS
    <3>3. /\ D \in SUBSET {x} /\ {x} \in SUBSET Subs
          /\ \A s \in D : IF s \in OrderSubs THEN ctxDone[s] ELSE Len(chan[s]) >= Cap
          /\ \A s \in {x} \ D : Len(chan[s]) < Cap
          /\ \A s \in {x} : FeedState(s) = "open"
      BY <1>6, <2>3, <3>2
    <3> QED
      BY <1>2, <2>2, <3>1, <3>2, <3>3, DispatchSeen
  <2>4. CASE ctxDone[x] /\ chan' = chan
    <3>1. chan' = [s \in Subs |-> IF s \in {x} \ {x} THEN Append(chan[s], Offered(s)')
                                                     ELSE chan[s]]
      BY <1>3, <2>4
    <3> QED
      BY <1>2, <1>6, <1>8, <2>2, <2>4, <3>1, DispatchSeen
  <2> QED
    BY <1>1, <1>8, <2>3, <2>4
<1> QED
  BY <1>7, <1>8

\* dispatchTrade is the dispatch to all trade subscribers of the stream, those
\* with a full channel missing it.
LEMMA TradeFeed ==
  ASSUME IInv, DInv, NEW st \in Subs, DispatchTrade(st)
  PROVE  Feed!Next \/ UNCHANGED Feed!vars
<1> DEFINE T == Elems(subs[st]) \ OrderSubs
           D == {s \in T : Len(chan[s]) >= Cap}
<1>1. /\ UNCHANGED <<pc, ctxDone, streamOf, subs, stMu, at, orders, closed, last>>
      /\ trades' = [trades EXCEPT ![st] = @ + 1]
  BY DEF DispatchTrade, callVars, lockVars, streamVars
<1>2. /\ chan \in [Subs -> Seq(Nat)] /\ trades \in [Subs -> Nat] /\ subs[st] \in Seq(Subs)
      /\ Cap \in Nat
  BY ConstantsAssumption DEF IInv, TypeOK, LoopTypeOK, ChanTypeOK, StreamTypeOK
<1>3. T \in SUBSET Subs /\ \A s \in T : pc[s] = "live" /\ streamOf[s] = st /\ ~closed[s]
  <2> SUFFICES ASSUME NEW s \in T
               PROVE  s \in Subs /\ pc[s] = "live" /\ streamOf[s] = st /\ ~closed[s]
    OBVIOUS
  <2>1. PICK i \in 1..Len(subs[st]) : subs[st][i] = s
    BY DEF Elems
  <2>2. s \in Subs
    BY <1>2, <2>1
  <2>3. pc[s] = "live" /\ streamOf[s] = st
    BY <2>1 DEF IInv, Membership
  <2> QED
    BY <2>2, <2>3, LiveFacts
<1>4. \A s \in Subs : pc[s] = "live" /\ streamOf[s] = st /\ s \notin OrderSubs => s \in T
  BY LiveFacts DEF Elems
<1>5. chan' = [s \in Subs |-> IF s \in T \ D THEN Append(chan[s], trades'[st]) ELSE chan[s]]
  <2>1. \A s \in T : Len(chan[s]) \in Nat
    BY <1>2, <1>3
  <2>2. \A s \in Subs : s \in {t \in T : closed[t] \/ Len(chan[t]) < Cap} <=> s \in T \ D
    BY <1>2, <1>3, <2>1
  <2>3. chan' = [s \in Subs |-> IF s \in {t \in T : closed[t] \/ Len(chan[t]) < Cap}
                                THEN Append(chan[s], trades'[st]) ELSE chan[s]]
    BY DEF DispatchTrade
  <2> HIDE DEF T, D
  <2> QED
    BY <2>2, <2>3
<1>6. \A s \in T \ D : Len(chan[s]) < Cap
  <2>1. \A s \in T : Len(chan[s]) \in Nat
    BY <1>2, <1>3
  <2> QED
    BY <1>2, <2>1
<1>7. \A s \in D : s \notin OrderSubs /\ Len(chan[s]) >= Cap
  OBVIOUS
<1>8. D \in SUBSET T /\ \A s \in T : s \notin OrderSubs
  OBVIOUS
<1> HIDE DEF T, D
<1>9. \A s \in Subs : Sent(s)' = Sent(s) /\ FeedState(s)' = FeedState(s)
  BY <1>1 DEF Sent, Pending, FeedState
<1>10. \A s \in T : FeedState(s) = "open" /\ Offered(s)' = trades'[st] /\ Offered(s)' = Offered(s) + 1
  BY <1>1, <1>2, <1>3, <1>8 DEF FeedState, Offered
<1>11. ASSUME NEW s \in Subs, s \notin T PROVE Offered(s)' = Offered(s)
  <2>1. CASE pc[s] = "live" /\ s \notin OrderSubs
    <3>1. streamOf[s] # st /\ streamOf[s] \in Subs
      BY <1>4, <1>11, <2>1, LiveFacts
    <3> QED
      BY <1>1, <1>2, <2>1, <3>1 DEF Offered
  <2>2. CASE ~(pc[s] = "live" /\ s \notin OrderSubs)
    BY <1>1, <1>9, <2>2 DEF Offered
  <2> QED
    BY <2>1, <2>2
<1>12. chan' = [s \in Subs |-> IF s \in T \ D THEN Append(chan[s], Offered(s)') ELSE chan[s]]
  BY <1>5, <1>10
<1> QED
  BY <1>1, <1>3, <1>6, <1>7, <1>8, <1>9, <1>10, <1>11, <1>12, DispatchSeen

\* No other step of a loop is seen.
LEMMA LoopFeed ==
  ASSUME IInv, DInv, NEW st \in Subs, Loop(st)
  PROVE  Feed!Next \/ UNCHANGED Feed!vars
<1>1. CASE LoopTop(st) \/ LoopSleep(st) \/ LoopConnect(st) \/ ReadEvent(st) \/ ReadFails(st)
  <2>1. UNCHANGED <<pc, ctxDone, streamOf, stMu, subs, at, orders, trades, chan, closed, last>>
    BY <1>1 DEF LoopTop, LoopSleep, LoopConnect, ReadEvent, ReadFails, callVars, lockVars,
                streamVars, chanVars
  <2>2. \A s \in Subs : FeedSame(s)
    BY <2>1 DEF FeedSame, FeedState, Offered, Sent, Pending
  <2> QED
    BY <2>1, <2>2, FeedStutter
<1>2. CASE OrderBegin(st) \/ OrderEnd(st)
  <2>1. UNCHANGED <<pc, ctxDone, streamOf, trades, chan, closed, last>>
    BY <1>2 DEF OrderBegin, OrderEnd, callVars, chanVars
  <2>2. \A s \in Subs : pc[s] = "live" => Sent(s)' = Sent(s)
    BY <1>2, BeginSent, EndSent
  <2>3. \A s \in Subs : FeedSame(s)
    BY <2>1, <2>2, SameWhenKept
  <2> QED
    BY <2>1, <2>3, FeedStutter
<1> QED
  BY <1>1, <1>2, SendFeed, TradeFeed DEF Loop

\* The caller's receiving and cancelling are seen as they are.
LEMMA CallerFeed ==
  ASSUME IInv, NEW x \in Subs, Caller(x)
  PROVE  Feed!Next \/ UNCHANGED Feed!vars
<1>1. UNCHANGED <<streamOf, stMu, subs, at, orders, trades, closed>>
  BY DEF Caller, Subscribe, Cancel, Recv, lockVars, streamVars, loopVars, callVars, chanVars
<1>2. \A s \in Subs : pc'[s] = "live" <=> pc[s] = "live"
  BY DEF Caller, Subscribe, Cancel, Recv, callVars, IInv, TypeOK, CallTypeOK
<1>3. \A s \in Subs : FeedSame(s)
  BY <1>1, <1>2 DEF FeedSame, FeedState, Offered, Sent, Pending
<1>4. /\ [s \in Subs |-> FeedState(s)]' = [s \in Subs |-> FeedState(s)]
      /\ [s \in Subs |-> Offered(s)]' = [s \in Subs |-> Offered(s)]
  BY <1>3 DEF FeedSame
<1>5. CASE Subscribe(x)
  BY <1>3, <1>5, FeedStutter DEF Subscribe, chanVars
<1>6. CASE Cancel(x)
  <2>1. Feed!Cancel(x)
    BY <1>4, <1>6 DEF Cancel, chanVars, Feed!Cancel
  <2> QED
    BY <2>1 DEF Feed!Next
<1>7. CASE Recv(x)
  <2>1. Feed!Receive(x)
    BY <1>4, <1>7 DEF Recv, callVars, Feed!Receive
  <2> QED
    BY <2>1 DEF Feed!Next
<1> QED
  BY <1>5, <1>6, <1>7 DEF Caller

\* Joining opens the channel, leaving closes it, and nobody else sees either.
LEMMA GoroutineFeed ==
  ASSUME IInv, NEW x \in Subs, Goroutine(x)
  PROVE  Feed!Next \/ UNCHANGED Feed!vars
<1>1. UNCHANGED <<ctxDone, trades, chan>>
  BY DEF Goroutine, AttachLock, AttachJoin, DetachRemove, DetachLock, DetachStop, loopVars,
         chanVars
<1>2. /\ pc \in [Subs -> CallState] /\ closed \in [Subs -> BOOLEAN] /\ last \in [Subs -> Nat]
      /\ trades \in [Subs -> Nat] /\ orders \in [Subs -> Nat]
  BY DEF IInv, TypeOK, CallTypeOK, ChanTypeOK, LoopTypeOK
<1>3. \A s \in Subs : s # x => FeedSame(s)
  <2> SUFFICES ASSUME NEW s \in Subs, s # x PROVE FeedSame(s)
    OBVIOUS
  <2>1. pc'[s] = pc[s] /\ closed'[s] = closed[s]
    BY <1>2 DEF Goroutine, AttachLock, AttachJoin, DetachRemove, DetachLock, DetachStop, chanVars
  <2>2. pc[s] = "live" => Sent(s)' = Sent(s) /\ streamOf'[s] = streamOf[s]
    BY GoroutineSent
  <2> QED
    BY <1>1, <2>1, <2>2, SameWhenKept
<1>4. CASE AttachLock(x) \/ DetachLock(x) \/ DetachStop(x)
  <2>1. UNCHANGED <<closed, last>> /\ pc[x] # "live" /\ pc'[x] # "live"
    BY <1>2, <1>4 DEF AttachLock, DetachLock, DetachStop, chanVars
  <2>2. FeedSame(x)
    BY <2>1, SameWhenKept
  <2> QED
    BY <1>1, <1>3, <2>1, <2>2, FeedStutter
<1>5. CASE AttachJoin(x)
  <2> DEFINE n == IF x \in OrderSubs THEN orders[streamOf[x]] ELSE trades[streamOf[x]]
  <2>1. /\ pc[x] = "join" /\ pc'[x] = "live" /\ UNCHANGED <<closed, trades>>
        /\ last' = [last EXCEPT ![x] = n]
    BY <1>1, <1>2, <1>5 DEF AttachJoin
  <2>2. ~closed[x]
    BY <2>1 DEF IInv, Closing
  <2>3. streamOf[x] \in Subs /\ streamOf'[x] = streamOf[x] /\ Sent(x)' = orders[streamOf[x]]
    BY <1>5, JoinSent
  <2>4. FeedState(x) = "none" /\ FeedState(x)' = "open"
    BY <2>1, <2>2 DEF FeedState
  <2>5. n \in Nat /\ Offered(x)' = n
    BY <1>2, <2>1, <2>3 DEF Offered
  <2> HIDE DEF n
  <2>6. /\ [s \in Subs |-> FeedState(s)]' = [[s \in Subs |-> FeedState(s)] EXCEPT ![x] = "open"]
        /\ [s \in Subs |-> Offered(s)]' = [[s \in Subs |-> Offered(s)] EXCEPT ![x] = n]
    BY <1>3, <2>4, <2>5 DEF FeedSame
  <2>7. [s \in Subs |-> Offered(s)]'[x] = n
    BY <2>5
  <2>8. Feed!Open(x)
    BY <1>1, <2>1, <2>4, <2>5, <2>6, <2>7 DEF Feed!Open
  <2> QED
    BY <2>8 DEF Feed!Next
<1>6. CASE DetachRemove(x)
  <2>1. /\ pc[x] = "live" /\ pc'[x] # "live" /\ ctxDone[x] /\ closed'[x] = TRUE /\ last' = last
    BY <1>2, <1>6 DEF DetachRemove
  <2>2. ~closed[x]
    BY <2>1 DEF IInv, Closing
  <2>3. FeedState(x) = "open" /\ FeedState(x)' = "closed" /\ Offered(x)' = 0
    BY <2>1, <2>2 DEF FeedState, Offered
  <2>4. /\ [s \in Subs |-> FeedState(s)]' = [[s \in Subs |-> FeedState(s)] EXCEPT ![x] = "closed"]
        /\ [s \in Subs |-> Offered(s)]' = [[s \in Subs |-> Offered(s)] EXCEPT ![x] = 0]
    BY <1>3, <2>3 DEF FeedSame
  <2>5. Feed!Close(x)
    BY <1>1, <2>1, <2>3, <2>4 DEF Feed!Close
  <2> QED
    BY <2>5 DEF Feed!Next
<1> QED
  BY <1>4, <1>5, <1>6 DEF Goroutine

\* The user channel keeps what the comments on SubscribeOrders and
\* SubscribeTrades promise each subscriber (client.go:161-166, 182-187), by
\* every step's being one of UserFeed's or unseen.
THEOREM FeedCorrect == Spec => FeedSpec
<1>1. Init => Feed!Init
  BY DEF Init, Feed!Init, FeedState, Offered
<1>2. IInv /\ DInv /\ [Next]_vars => [Feed!Next]_Feed!vars
  <2> SUFFICES ASSUME IInv, DInv, [Next]_vars PROVE Feed!Next \/ UNCHANGED Feed!vars
    OBVIOUS
  <2>1. CASE UNCHANGED vars
    BY <2>1 DEF vars, callVars, lockVars, streamVars, loopVars, chanVars, Feed!vars, FeedState,
                Offered, Sent, Pending
  <2> QED
    BY <2>1, CallerFeed, GoroutineFeed, LoopFeed DEF Next
<1> QED
  BY <1>1, <1>2, DispatchInvariance, PTL DEF Spec, FeedSpec, Feed!Spec
=============================================================================
