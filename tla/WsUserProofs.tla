---------------------------- MODULE WsUserProofs ----------------------------
(***************************************************************************)
(* Proofs about WsUser, for any number of calls, users and events and any  *)
(* channel capacity: its type invariant and that attaching, dispatching    *)
(* and detaching keep the registry, the subscriber lists, the loops and    *)
(* the channels consistent.                                                *)
(***************************************************************************)
EXTENDS WsUser, SequenceTheorems, TLAPS

\* What Without returns: a sequence of the same elements but s, each of them
\* once if q has each once.
LEMMA WithoutProperties ==
  ASSUME NEW S, NEW q \in Seq(S), NEW s \in Elems(q)
  PROVE  /\ Without(q, s) \in Seq(S)
         /\ Len(Without(q, s)) = Len(q) - 1
         /\ \E i \in 1..Len(q) :
              /\ q[i] = s
              /\ \A j \in 1..(Len(q) - 1) :
                   Without(q, s)[j] = IF j < i THEN q[j] ELSE q[j+1]
<1> DEFINE i == CHOOSE i \in 1..Len(q) : q[i] = s
<1>1. i \in 1..Len(q) /\ q[i] = s
  BY DEF Elems
<1>2. Without(q, s) = [j \in 1..(Len(q) - 1) |-> IF j < i THEN q[j] ELSE q[j+1]]
  BY DEF Without
<1> HIDE DEF i
<1>3. Len(q) \in Nat \ {0} /\ \A j \in 1..Len(q) : q[j] \in S
  BY <1>1
<1>4. Without(q, s) \in [1..(Len(q) - 1) -> S]
  BY <1>1, <1>2, <1>3
<1>5. Without(q, s) \in Seq(S) /\ Len(Without(q, s)) = Len(q) - 1
  BY <1>3, <1>4, SeqDef
<1>6. QED
  BY <1>1, <1>2, <1>5

-----------------------------------------------------------------------------
(* The inductive invariant.                                                *)

\* userMu is held by whoever is between its lock and its unlock.
LockOwner ==
  \A s \in Subs : userMu = s <=> pc[s] \in {"join", "recheck"}

\* The loop holds its stream's lock during dispatchOrder's range.
StreamLock ==
  \A st \in Subs : stMu[st] <=> loop[st] = "sending"

\* A call has a stream from AttachLock on: one that was started, for its own
\* user id; and a call creates no stream before AttachLock.
CallStream ==
  \A s \in Subs :
    /\ streamOf[s] = None <=> pc[s] \in {"idle", "call"}
    /\ streamOf[s] # None => /\ loop[streamOf[s]] # "none"
                             /\ UserOf[streamOf[s]] = UserOf[s]
    /\ pc[s] \in {"idle", "call"} => loop[s] = "none"

\* The registry holds exactly the streams that were started and not cancelled,
\* each under its user id.
Registry ==
  /\ \A u \in Users : userStreams[u] # None =>
       /\ loop[userStreams[u]] # "none"
       /\ UserOf[userStreams[u]] = u
       /\ ~cancelled[userStreams[u]]
  /\ \A st \in Subs : loop[st] # "none" /\ ~cancelled[st]
                      => userStreams[UserOf[st]] = st
  /\ \A st \in Subs : loop[st] = "none" => ~cancelled[st]

\* A stream's subs are the live calls that attached to it, each once.
Membership ==
  /\ \A st \in Subs : \A i \in 1..Len(subs[st]) :
       /\ streamOf[subs[st][i]] = st
       /\ pc[subs[st][i]] = "live"
       /\ \A j \in 1..Len(subs[st]) : subs[st][i] = subs[st][j] => i = j
  /\ \A s \in Subs : pc[s] = "live" =>
       \E i \in 1..Len(subs[streamOf[s]]) : subs[streamOf[s]][i] = s

\* A cancelled stream has no subs and nobody is about to join it; a loop ends
\* only on a cancelled stream.
Cancellation ==
  /\ \A st \in Subs : cancelled[st] => subs[st] = <<>>
  /\ \A s \in Subs : pc[s] = "join" => ~cancelled[streamOf[s]]
  /\ \A st \in Subs : loop[st] = "end" => cancelled[st]

\* A channel is closed as its call leaves the subs.
Closing ==
  \A s \in Subs : closed[s] <=> pc[s] \in {"empty", "recheck", "done"}

IInv == /\ TypeOK /\ LockOwner /\ StreamLock /\ CallStream /\ Registry
        /\ Membership /\ Cancellation /\ Closing /\ NoPanic

-----------------------------------------------------------------------------

\* Membership is kept by a step that moves nobody in or out.
LEMMA MembershipKept ==
  ASSUME StreamTypeOK, Membership, UNCHANGED <<subs, streamOf>>,
         \A x \in Subs : pc'[x] = "live" <=> pc[x] = "live"
  PROVE  Membership'
<1>1. \A x \in Subs : \A i \in 1..Len(subs[x]) : subs[x][i] \in Subs
  BY DEF StreamTypeOK
<1>2. ASSUME NEW x \in Subs, NEW i \in 1..Len(subs[x])
      PROVE  /\ streamOf'[subs[x][i]] = x
             /\ pc'[subs[x][i]] = "live"
             /\ \A j \in 1..Len(subs[x]) : subs[x][i] = subs[x][j] => i = j
  BY <1>1 DEF Membership
<1>3. ASSUME NEW x \in Subs, pc'[x] = "live"
      PROVE  \E i \in 1..Len(subs[streamOf[x]]) : subs[streamOf[x]][i] = x
  BY <1>3 DEF Membership
<1>4. QED
  BY <1>2, <1>3 DEF Membership

\* The invariant holds at the start.
LEMMA InitInv == Init => IInv
<1> SUFFICES ASSUME Init PROVE IInv
  OBVIOUS
<1>1. TypeOK
  <2> USE ConstantsAssumption DEF Init
  <2>1. CallTypeOK
    BY DEF CallTypeOK, CallState
  <2>2. LockTypeOK
    BY DEF LockTypeOK
  <2>3. StreamTypeOK
    BY DEF StreamTypeOK
  <2>4. LoopTypeOK
    BY DEF LoopTypeOK, LoopState
  <2>5. ChanTypeOK
    <3>1. chan \in [Subs -> Seq(Nat)]
      OBVIOUS
    <3>2. QED
      BY <3>1 DEF ChanTypeOK
  <2>6. QED
    BY <2>1, <2>2, <2>3, <2>4, <2>5 DEF TypeOK
<1>2. LockOwner /\ StreamLock /\ Closing /\ NoPanic
  BY ConstantsAssumption DEF Init, LockOwner, StreamLock, Closing, NoPanic
<1>3. CallStream /\ Registry /\ Cancellation
  BY ConstantsAssumption DEF Init, CallStream, Registry, Cancellation
<1>4. Membership
  BY DEF Init, Membership
<1>5. QED
  BY <1>1, <1>2, <1>3, <1>4 DEF IInv

\* A step that moves only a loop, as seen by the rest of the invariant.
LoopMove(st) ==
  /\ UNCHANGED <<callVars, userMu, streamVars, closed, panicked>>
  /\ loop[st] # "none"
  /\ \E l \in LoopState : /\ loop' = [loop EXCEPT ![st] = l]
                          /\ l # "none"
                          /\ l = "end" => cancelled[st]

\* Such a step preserves the invariant, if types and stMu are right after it.
LEMMA LoopMovePreserves ==
  ASSUME IInv, NEW st \in Subs, LoopMove(st), TypeOK', StreamLock'
  PROVE  IInv'
<1> USE DEF IInv, TypeOK, LoopMove, callVars, streamVars
<1>1. LockOwner' /\ Closing' /\ NoPanic' /\ Membership'
  BY DEF LockOwner, Closing, NoPanic, Membership
<1>2. CallStream'
  <2>1. \A x \in Subs : loop'[x] = "none" <=> loop[x] = "none"
    BY DEF LoopTypeOK
  <2>2. \A s \in Subs : streamOf[s] # None => streamOf[s] \in Subs
    BY DEF CallTypeOK
  <2>3. QED
    BY <2>1, <2>2 DEF CallStream
<1>3. Registry'
  <2>1. \A x \in Subs : loop'[x] = "none" <=> loop[x] = "none"
    BY DEF LoopTypeOK
  <2>2. \A u \in Users : userStreams[u] # None => userStreams[u] \in Subs
    BY DEF StreamTypeOK
  <2>3. QED
    BY <2>1, <2>2 DEF Registry
<1>4. Cancellation'
  BY DEF Cancellation, LoopTypeOK
<1>5. QED
  BY <1>1, <1>2, <1>3, <1>4

\* Every step of a stream's loop preserves the invariant.
LEMMA LoopPreserves ==
  ASSUME IInv, NEW st \in Subs, Loop(st)
  PROVE  IInv'
<1> USE DEF IInv, TypeOK
<1>1. CASE LoopTop(st) \/ LoopSleep(st) \/ LoopConnect(st) \/ ReadEvent(st) \/ ReadFails(st)
  <2>1. LoopMove(st)
    BY <1>1 DEF LoopTop, LoopSleep, LoopConnect, ReadEvent, ReadFails,
                LoopMove, LoopState, lockVars, chanVars
  <2>2. StreamLock'
    BY <1>1 DEF LoopTop, LoopSleep, LoopConnect, ReadEvent, ReadFails,
                StreamLock, LoopTypeOK, lockVars
  <2>3. CallTypeOK' /\ LockTypeOK' /\ StreamTypeOK' /\ ChanTypeOK'
    BY <1>1 DEF LoopTop, LoopSleep, LoopConnect, ReadEvent, ReadFails,
                CallTypeOK, LockTypeOK, StreamTypeOK, ChanTypeOK,
                callVars, lockVars, streamVars, chanVars
  <2>4. LoopTypeOK'
    BY <1>1 DEF LoopTop, LoopSleep, LoopConnect, ReadEvent, ReadFails,
                LoopTypeOK, LoopState
  <2>5. QED
    BY <2>1, <2>2, <2>3, <2>4, LoopMovePreserves
<1>2. CASE OrderBegin(st) \/ OrderEnd(st)
  <2>1. LoopMove(st)
    BY <1>2 DEF OrderBegin, OrderEnd, LoopMove, LoopState, chanVars
  <2>2. StreamLock'
    BY <1>2 DEF OrderBegin, OrderEnd, StreamLock, LoopTypeOK, LockTypeOK
  <2>3. CallTypeOK' /\ LockTypeOK' /\ StreamTypeOK' /\ ChanTypeOK'
    BY <1>2 DEF OrderBegin, OrderEnd, CallTypeOK, LockTypeOK, StreamTypeOK,
                ChanTypeOK, callVars, streamVars, chanVars
  <2>4. LoopTypeOK'
    <3>1. CASE OrderBegin(st)
      BY <3>1 DEF OrderBegin, LoopTypeOK, LoopState
    <3>2. CASE OrderEnd(st)
      BY <3>2 DEF OrderEnd, LoopTypeOK, LoopState
    <3>3. QED
      BY <1>2, <3>1, <3>2
  <2>5. QED
    BY <2>1, <2>2, <2>3, <2>4, LoopMovePreserves
<1>3. CASE OrderSend(st)
  <2> DEFINE s == subs[st][at[st]]
  <2>1. s \in Subs /\ ~closed[s]
    <3>1. subs[st] \in Seq(Subs) /\ at[st] \in Nat \ {0} /\ at[st] <= Len(subs[st])
      BY <1>3 DEF OrderSend, StreamTypeOK, LoopTypeOK
    <3>2. at[st] \in 1..Len(subs[st]) /\ s \in Subs
      BY <3>1
    <3>3. pc[s] = "live"
      BY <3>2 DEF Membership
    <3>4. QED
      BY <3>2, <3>3 DEF Closing
  <2>2. LoopMove(st)
    <3>1. panicked' = panicked
      BY <1>3, <2>1 DEF OrderSend, ChanTypeOK
    <3>2. loop' = [loop EXCEPT ![st] = "sending"] /\ loop[st] = "sending"
      BY <1>3 DEF OrderSend, LoopTypeOK
    <3>3. QED
      BY <1>3, <3>1, <3>2 DEF OrderSend, LoopMove, LoopState, lockVars
  <2>3. StreamLock'
    BY <1>3 DEF OrderSend, StreamLock, lockVars
  <2>4. CallTypeOK' /\ LockTypeOK' /\ StreamTypeOK'
    BY <1>3 DEF OrderSend, CallTypeOK, LockTypeOK, StreamTypeOK,
                callVars, lockVars, streamVars
  <2>5. LoopTypeOK'
    BY <1>3 DEF OrderSend, LoopTypeOK
  <2>6. ChanTypeOK'
    <3>1. orders[st] \in Nat /\ chan[s] \in Seq(Nat)
      BY <2>1 DEF LoopTypeOK, ChanTypeOK
    <3>2. Append(chan[s], orders[st]) \in Seq(Nat)
      BY <3>1
    <3>3. chan' = chan \/ chan' = [chan EXCEPT ![s] = Append(chan[s], orders[st])]
      BY <1>3 DEF OrderSend
    <3>4. QED
      BY <1>3, <2>1, <2>2, <3>2, <3>3 DEF OrderSend, ChanTypeOK
  <2>7. QED
    BY <2>2, <2>3, <2>4, <2>5, <2>6, LoopMovePreserves
<1>4. CASE DispatchTrade(st)
  <2>1. \A s \in Elems(subs[st]) : ~closed[s]
    <3> SUFFICES ASSUME NEW i \in 1..Len(subs[st]) PROVE ~closed[subs[st][i]]
      BY DEF Elems
    <3>1. subs[st][i] \in Subs
      BY DEF StreamTypeOK
    <3>2. pc[subs[st][i]] = "live"
      BY DEF Membership
    <3>3. QED
      BY <3>1, <3>2 DEF Closing
  <2>2. panicked' = panicked
    BY <1>4, <2>1 DEF DispatchTrade, ChanTypeOK
  <2>3. LoopMove(st)
    BY <1>4, <2>2 DEF DispatchTrade, LoopMove, LoopState, lockVars
  <2>4. StreamLock'
    BY <1>4 DEF DispatchTrade, StreamLock, LoopTypeOK, lockVars
  <2>5. CallTypeOK' /\ LockTypeOK' /\ StreamTypeOK'
    BY <1>4 DEF DispatchTrade, CallTypeOK, LockTypeOK, StreamTypeOK,
                callVars, lockVars, streamVars
  <2>6. LoopTypeOK'
    BY <1>4 DEF DispatchTrade, LoopTypeOK, LoopState
  <2>7. ChanTypeOK'
    BY <1>4, <2>2, <2>6 DEF DispatchTrade, ChanTypeOK, LoopTypeOK
  <2>8. QED
    BY <2>3, <2>4, <2>5, <2>6, <2>7, LoopMovePreserves
<1>5. QED
  BY <1>1, <1>2, <1>3, <1>4 DEF Loop

\* So does every step of a caller.
LEMMA CallerPreserves ==
  ASSUME IInv, NEW s \in Subs, Caller(s)
  PROVE  IInv'
<1> USE DEF IInv, TypeOK
<1>1. CASE Subscribe(s)
  <2> USE DEF Subscribe
  <2>1. TypeOK'
    <3>1. CallTypeOK'
      BY <1>1 DEF CallTypeOK, CallState
    <3>2. LockTypeOK' /\ StreamTypeOK' /\ LoopTypeOK' /\ ChanTypeOK'
      BY <1>1 DEF LockTypeOK, StreamTypeOK, LoopTypeOK, ChanTypeOK,
                  lockVars, streamVars, loopVars, chanVars
    <3>3. QED
      BY <3>1, <3>2
  <2>2. LockOwner' /\ Closing' /\ CallStream'
    BY <1>1 DEF LockOwner, Closing, CallStream, CallTypeOK, lockVars,
                loopVars, chanVars
  <2>3. StreamLock' /\ Registry' /\ NoPanic'
    BY <1>1 DEF StreamLock, Registry, NoPanic, lockVars, streamVars, loopVars,
                chanVars
  <2>4. Membership'
    <3>1. \A x \in Subs : pc'[x] = "live" <=> pc[x] = "live"
      BY <1>1 DEF CallTypeOK
    <3>2. \A st \in Subs : \A i \in 1..Len(subs[st]) : subs[st][i] \in Subs
      BY DEF StreamTypeOK
    <3>3. QED
      BY <1>1, <3>1, <3>2 DEF Membership, streamVars
  <2>5. Cancellation'
    BY <1>1 DEF Cancellation, CallTypeOK, streamVars, loopVars
  <2>6. QED
    BY <2>1, <2>2, <2>3, <2>4, <2>5
<1>2. CASE Cancel(s)
  <2>1. CallTypeOK'
    BY <1>2 DEF Cancel, CallTypeOK
  <2>2. LockTypeOK' /\ StreamTypeOK' /\ LoopTypeOK' /\ ChanTypeOK'
    BY <1>2 DEF Cancel, LockTypeOK, StreamTypeOK, LoopTypeOK, ChanTypeOK,
                lockVars, streamVars, loopVars, chanVars
  <2>3. /\ LockOwner' /\ StreamLock' /\ CallStream' /\ Registry'
        /\ Membership' /\ Cancellation' /\ Closing' /\ NoPanic'
    BY <1>2 DEF Cancel, LockOwner, StreamLock, CallStream, Registry,
                Membership, Cancellation, Closing, NoPanic,
                lockVars, streamVars, loopVars, chanVars
  <2>4. QED
    BY <2>1, <2>2, <2>3
<1>3. CASE Recv(s)
  <2>1. ChanTypeOK'
    <3>1. chan[s] \in Seq(Nat) /\ chan[s] # <<>>
      BY <1>3 DEF Recv, ChanTypeOK
    <3>2. Head(chan[s]) \in Nat /\ Tail(chan[s]) \in Seq(Nat)
      BY <3>1
    <3>3. QED
      BY <1>3, <3>2 DEF Recv, ChanTypeOK
  <2>2. CallTypeOK' /\ LockTypeOK' /\ StreamTypeOK' /\ LoopTypeOK'
    BY <1>3 DEF Recv, CallTypeOK, LockTypeOK, StreamTypeOK, LoopTypeOK,
                callVars, lockVars, streamVars, loopVars
  <2>3. /\ LockOwner' /\ StreamLock' /\ CallStream' /\ Registry'
        /\ Membership' /\ Cancellation' /\ Closing' /\ NoPanic'
    BY <1>3 DEF Recv, LockOwner, StreamLock, CallStream, Registry,
                Membership, Cancellation, Closing, NoPanic,
                callVars, lockVars, streamVars, loopVars
  <2>4. QED
    BY <2>1, <2>2, <2>3
<1>4. QED
  BY <1>1, <1>2, <1>3 DEF Caller

\* attachUserSub with userMu (335-347): the stream found is the uncancelled one
\* of the user, and one is created only where the registry has none.
LEMMA AttachLockPreserves ==
  ASSUME IInv, NEW s \in Subs, AttachLock(s)
  PROVE  IInv'
<1> DEFINE u == UserOf[s]
<1> USE DEF IInv, TypeOK, AttachLock
<1>1. u \in Users /\ s # None
  BY ConstantsAssumption
<1>2. \/ /\ userStreams[u] # None
         /\ userStreams[u] \in Subs
         /\ streamOf' = [streamOf EXCEPT ![s] = userStreams[u]]
         /\ UNCHANGED <<userStreams, loop>>
      \/ /\ userStreams[u] = None
         /\ streamOf' = [streamOf EXCEPT ![s] = s]
         /\ userStreams' = [userStreams EXCEPT ![u] = s]
         /\ loop' = [loop EXCEPT ![s] = "top"]
  BY <1>1 DEF StreamTypeOK
<1>3. TypeOK'
  <2>1. CallTypeOK'
    BY <1>2 DEF CallTypeOK, CallState
  <2>2. LockTypeOK' /\ StreamTypeOK'
    BY <1>2 DEF LockTypeOK, StreamTypeOK
  <2>3. LoopTypeOK' /\ ChanTypeOK'
    BY <1>2 DEF LoopTypeOK, LoopState, ChanTypeOK, chanVars
  <2>4. QED
    BY <2>1, <2>2, <2>3
<1>4. pc[s] = "call" /\ loop[s] = "none" /\ streamOf[s] = None /\ ~cancelled[s]
  BY DEF CallStream, Registry
<1>5. LockOwner' /\ Closing' /\ NoPanic'
  BY ConstantsAssumption DEF LockOwner, Closing, NoPanic, CallTypeOK, chanVars
<1>6. StreamLock'
  BY <1>2, <1>4 DEF StreamLock, LoopTypeOK
<1>7. CallStream'
  <2>1. \A x \in Subs : streamOf[x] # None => streamOf[x] \in Subs
    BY DEF CallTypeOK
  <2>2. \A x \in Subs \ {s} : pc'[x] = pc[x] /\ streamOf'[x] = streamOf[x]
    BY <1>2 DEF CallTypeOK
  <2>3. pc'[s] = "join" /\ streamOf'[s] \in Subs
    BY <1>2 DEF CallTypeOK
  <2>4. \A x \in Subs : loop'[x] = loop[x] \/ (x = s /\ loop'[x] = "top")
    BY <1>2 DEF LoopTypeOK
  <2>5. loop'[streamOf'[s]] # "none" /\ UserOf[streamOf'[s]] = u
    BY <1>1, <1>2, <1>4 DEF CallTypeOK, LoopTypeOK, Registry
  <2>6. QED
    BY <1>1, <2>1, <2>2, <2>3, <2>4, <2>5, ConstantsAssumption DEF CallStream
<1>8. Registry'
  <2>1. CASE UNCHANGED <<userStreams, loop>>
    BY <2>1 DEF Registry
  <2>2. CASE /\ userStreams[u] = None
             /\ userStreams' = [userStreams EXCEPT ![u] = s]
             /\ loop' = [loop EXCEPT ![s] = "top"]
    <3>1. \A v \in Users : userStreams'[v] = IF v = u THEN s ELSE userStreams[v]
      BY <2>2 DEF StreamTypeOK
    <3>2. \A x \in Subs : loop'[x] = IF x = s THEN "top" ELSE loop[x]
      BY <2>2 DEF LoopTypeOK
    <3>3. \A v \in Users : userStreams[v] # None => userStreams[v] \in Subs
      BY DEF StreamTypeOK
    <3>4. \A x \in Subs : UserOf[x] \in Users /\ x # None
      BY ConstantsAssumption
    <3>5. QED
      BY <1>4, <2>2, <3>1, <3>2, <3>3, <3>4 DEF Registry
  <2>3. QED
    BY <1>2, <2>1, <2>2
<1>9. Membership'
  <2>1. \A x \in Subs : pc[x] = "live" => pc'[x] = "live" /\ streamOf'[x] = streamOf[x]
    BY <1>2, <1>4 DEF CallTypeOK
  <2>2. \A x \in Subs : pc'[x] = "live" => pc[x] = "live"
    BY DEF CallTypeOK
  <2>3. \A st \in Subs : \A i \in 1..Len(subs[st]) : subs[st][i] \in Subs
    BY DEF StreamTypeOK
  <2>4. QED
    BY <2>1, <2>2, <2>3 DEF Membership
<1>10. Cancellation'
  <2>1. \A x \in Subs \ {s} : pc'[x] = pc[x] /\ streamOf'[x] = streamOf[x]
    BY <1>2 DEF CallTypeOK
  <2>2. ~cancelled[streamOf'[s]]
    BY <1>1, <1>2, <1>4 DEF CallTypeOK, Registry
  <2>3. \A x \in Subs : loop'[x] = "end" => loop[x] = "end"
    BY <1>2 DEF LoopTypeOK
  <2>4. QED
    BY <2>1, <2>2, <2>3 DEF Cancellation
<1>11. QED
  BY <1>3, <1>5, <1>6, <1>7, <1>8, <1>9, <1>10

\* attachUserSub under both locks (348-351): the stream joined is still the
\* uncancelled one, as whoever would cancel it needs userMu.
LEMMA AttachJoinPreserves ==
  ASSUME IInv, NEW s \in Subs, AttachJoin(s)
  PROVE  IInv'
<1> DEFINE st == streamOf[s]
<1> USE DEF IInv, TypeOK
<1>1. st \in Subs /\ s \notin Elems(subs[st]) /\ ~cancelled[st]
  <2>1. st \in Subs
    BY DEF AttachJoin, CallStream, CallTypeOK
  <2>2. s \notin Elems(subs[st])
    BY <2>1 DEF AttachJoin, Membership, Elems
  <2>3. QED
    BY <2>1, <2>2 DEF AttachJoin, Cancellation
<1>2. TypeOK'
  <2>1. CallTypeOK' /\ LockTypeOK'
    BY DEF AttachJoin, CallTypeOK, LockTypeOK, CallState
  <2>2. StreamTypeOK' /\ LoopTypeOK'
    BY <1>1 DEF AttachJoin, StreamTypeOK, LoopTypeOK, loopVars
  <2>3. ChanTypeOK'
    BY <1>1 DEF AttachJoin, ChanTypeOK, LoopTypeOK
  <2>4. QED
    BY <2>1, <2>2, <2>3
<1>3. LockOwner' /\ Closing' /\ NoPanic'
  <2>1. userMu = s
    BY DEF AttachJoin, LockOwner
  <2>2. QED
    BY <2>1, ConstantsAssumption
    DEF AttachJoin, LockOwner, Closing, NoPanic, CallTypeOK
<1>4. StreamLock' /\ CallStream' /\ Registry'
  BY DEF AttachJoin, StreamLock, CallStream, Registry, CallTypeOK, loopVars
<1>5. Membership'
  <2>1. subs[st] \in Seq(Subs)
    BY <1>1 DEF StreamTypeOK
  <2>2. /\ subs'[st] = Append(subs[st], s)
        /\ \A x \in Subs \ {st} : subs'[x] = subs[x]
    BY <1>1 DEF AttachJoin, StreamTypeOK
  <2>3. /\ Len(subs'[st]) = Len(subs[st]) + 1
        /\ subs'[st][Len(subs[st]) + 1] = s
        /\ \A i \in 1..Len(subs[st]) : subs'[st][i] = subs[st][i]
    BY <2>1, <2>2
  <2>4. /\ pc'[s] = "live"
        /\ \A x \in Subs \ {s} : pc'[x] = pc[x]
        /\ streamOf' = streamOf
    BY DEF AttachJoin, CallTypeOK
  <2>5. \A x \in Subs : \A i \in 1..Len(subs[x]) :
          /\ subs[x][i] \in Subs \ {s}
          /\ streamOf[subs[x][i]] = x /\ pc[subs[x][i]] = "live"
    BY DEF AttachJoin, Membership, StreamTypeOK
  <2>6. ASSUME NEW x \in Subs, NEW i \in 1..Len(subs'[x])
        PROVE  /\ streamOf'[subs'[x][i]] = x
               /\ pc'[subs'[x][i]] = "live"
               /\ \A j \in 1..Len(subs'[x]) : subs'[x][i] = subs'[x][j] => i = j
    <3>1. CASE x # st
      BY <2>2, <2>4, <2>5, <3>1 DEF Membership
    <3>2. CASE x = st
      <4>1. Len(subs[st]) \in Nat
        BY <2>1
      <4>2. \A j \in 1..Len(subs'[st]) :
              \/ j = Len(subs[st]) + 1 /\ subs'[st][j] = s
              \/ j \in 1..Len(subs[st]) /\ subs'[st][j] = subs[st][j]
        BY <2>3, <4>1
      <4>3. streamOf'[subs'[x][i]] = x /\ pc'[subs'[x][i]] = "live"
        <5>1. CASE subs'[st][i] = s
          BY <2>4, <3>2, <5>1
        <5>2. CASE i \in 1..Len(subs[st]) /\ subs'[st][i] = subs[st][i]
          <6>1. /\ subs[st][i] \in Subs \ {s}
                /\ streamOf[subs[st][i]] = st /\ pc[subs[st][i]] = "live"
            BY <1>1, <2>5, <5>2
          <6>2. QED
            BY <2>4, <3>2, <5>2, <6>1
        <5>3. QED
          BY <3>2, <4>2, <5>1, <5>2
      <4>4. ASSUME NEW j \in 1..Len(subs'[x]), subs'[x][i] = subs'[x][j]
            PROVE  i = j
        <5>1. CASE i = Len(subs[st]) + 1 \/ j = Len(subs[st]) + 1
          <6>1. \A m \in 1..Len(subs[st]) : subs[st][m] # s
            BY <1>1, <2>5
          <6>2. subs'[st][i] = s /\ subs'[st][j] = s
            BY <2>3, <3>2, <4>4, <5>1
          <6>3. i = Len(subs[st]) + 1 /\ j = Len(subs[st]) + 1
            BY <3>2, <4>2, <6>1, <6>2
          <6>4. QED
            BY <6>3
        <5>2. CASE i \in 1..Len(subs[st]) /\ j \in 1..Len(subs[st])
          <6>1. subs[st][i] = subs[st][j]
            BY <2>3, <3>2, <4>4, <5>2
          <6>2. \A m, n \in 1..Len(subs[st]) : subs[st][m] = subs[st][n] => m = n
            BY <1>1 DEF Membership
          <6>3. QED
            BY <5>2, <6>1, <6>2
        <5>3. QED
          BY <3>2, <4>2, <5>1, <5>2
      <4>5. QED
        BY <4>3, <4>4
    <3>3. QED
      BY <3>1, <3>2
  <2>7. ASSUME NEW x \in Subs, pc'[x] = "live"
        PROVE  \E i \in 1..Len(subs'[streamOf'[x]]) : subs'[streamOf'[x]][i] = x
    <3>1. CASE x = s
      BY <2>1, <2>3, <2>4, <3>1
    <3>2. CASE x # s
      <4>1. PICK i \in 1..Len(subs[streamOf[x]]) : subs[streamOf[x]][i] = x
        BY <2>4, <2>7, <3>2 DEF Membership
      <4>2. streamOf[x] \in Subs
        BY <2>4, <2>7, <3>2 DEF CallStream, CallTypeOK
      <4>3. i \in 1..Len(subs'[streamOf[x]]) /\ subs'[streamOf[x]][i] = x
        BY <2>1, <2>2, <2>3, <4>1, <4>2
      <4>4. QED
        BY <2>4, <4>3
    <3>3. QED
      BY <3>1, <3>2
  <2>8. QED
    BY <2>6, <2>7 DEF Membership
<1>6. Cancellation'
  <2>1. \A x \in Subs : cancelled[x] => subs'[x] = subs[x]
    BY <1>1 DEF AttachJoin, StreamTypeOK
  <2>2. \A x \in Subs : pc'[x] = "join" => pc[x] = "join"
    BY DEF AttachJoin, CallTypeOK
  <2>3. QED
    BY <2>1, <2>2 DEF AttachJoin, Cancellation, loopVars
<1>7. QED
  BY <1>2, <1>3, <1>4, <1>5, <1>6

\* detachUserSub under st.mu (360-374): the subscriber leaves the slice as its
\* channel is closed.
LEMMA DetachRemovePreserves ==
  ASSUME IInv, NEW s \in Subs, DetachRemove(s)
  PROVE  IInv'
<1> DEFINE st   == streamOf[s]
           rest == Without(subs[st], s)
<1> USE DEF IInv, TypeOK
<1>1. st \in Subs /\ subs[st] \in Seq(Subs) /\ s \in Elems(subs[st])
  <2>1. st \in Subs
    BY DEF DetachRemove, CallStream, CallTypeOK
  <2>2. s \in Elems(subs[st])
    BY <2>1 DEF DetachRemove, Membership, Elems
  <2>3. QED
    BY <2>1, <2>2 DEF StreamTypeOK
<1>2. /\ rest \in Seq(Subs)
      /\ Len(rest) = Len(subs[st]) - 1
      /\ \E k \in 1..Len(subs[st]) :
           /\ subs[st][k] = s
           /\ \A j \in 1..(Len(subs[st]) - 1) :
                rest[j] = IF j < k THEN subs[st][j] ELSE subs[st][j+1]
  BY <1>1, WithoutProperties
<1> HIDE DEF rest
<1>3. /\ subs' = [subs EXCEPT ![st] = rest]
      /\ pc' = [pc EXCEPT ![s] = IF rest = <<>> THEN "empty" ELSE "done"]
      /\ pc[s] = "live" /\ UNCHANGED streamOf
  BY DEF DetachRemove, rest
<1>4. /\ subs'[st] = rest
      /\ \A x \in Subs \ {st} : subs'[x] = subs[x]
      /\ pc'[s] \in {"empty", "done"}
      /\ \A x \in Subs \ {s} : pc'[x] = pc[x]
  BY <1>1, <1>3 DEF StreamTypeOK, CallTypeOK
<1>5. TypeOK'
  <2>1. CallTypeOK' /\ LockTypeOK'
    BY <1>3 DEF DetachRemove, CallTypeOK, LockTypeOK, CallState, lockVars
  <2>2. StreamTypeOK' /\ LoopTypeOK'
    <3>1. subs' \in [Subs -> Seq(Subs)]
      BY <1>2, <1>3 DEF StreamTypeOK
    <3>2. QED
      BY <3>1 DEF DetachRemove, StreamTypeOK, LoopTypeOK, loopVars
  <2>3. ChanTypeOK'
    BY DEF DetachRemove, ChanTypeOK
  <2>4. QED
    BY <2>1, <2>2, <2>3
<1>6. LockOwner' /\ Closing' /\ NoPanic'
  <2>1. ~closed[s]
    BY <1>3 DEF Closing
  <2>2. closed'[s] /\ \A x \in Subs \ {s} : closed'[x] = closed[x]
    BY DEF DetachRemove, ChanTypeOK
  <2>3. LockOwner' /\ NoPanic'
    BY <1>3, <1>4, <2>1 DEF DetachRemove, LockOwner, NoPanic, lockVars
  <2>4. Closing'
    BY <1>3, <1>4, <2>2 DEF Closing
  <2>5. QED
    BY <2>3, <2>4
<1>7. StreamLock' /\ CallStream' /\ Registry'
  BY <1>3, <1>4 DEF DetachRemove, StreamLock, CallStream, Registry, lockVars, loopVars
<1>8. Membership'
  <2>1. \A x \in Subs : \A i \in 1..Len(subs[x]) :
          /\ subs[x][i] \in Subs
          /\ streamOf[subs[x][i]] = x /\ pc[subs[x][i]] = "live"
    BY DEF Membership, StreamTypeOK
  <2>2. PICK k \in 1..Len(subs[st]) :
          /\ subs[st][k] = s
          /\ \A j \in 1..(Len(subs[st]) - 1) :
               rest[j] = IF j < k THEN subs[st][j] ELSE subs[st][j+1]
    BY <1>2
  <2> DEFINE old(j) == IF j < k THEN j ELSE j + 1
  <2>3. Len(subs[st]) \in Nat /\ Len(rest) = Len(subs[st]) - 1
    BY <1>1, <1>2
  <2>4. \A j \in 1..Len(rest) : /\ old(j) \in 1..Len(subs[st])
                                /\ rest[j] = subs[st][old(j)]
                                /\ old(j) # k
    BY <2>2, <2>3
  <2>5. \A i, j \in 1..Len(rest) : old(i) = old(j) => i = j
    BY <2>3
  <2>6. ASSUME NEW i \in 1..Len(subs[st]), i # k
        PROVE  \E j \in 1..Len(rest) : rest[j] = subs[st][i]
    <3>1. CASE i < k
      <4>1. i \in 1..Len(rest) /\ old(i) = i
        BY <2>3, <3>1
      <4>2. QED
        BY <2>4, <4>1
    <3>2. CASE i > k
      <4>1. i - 1 \in 1..Len(rest) /\ old(i - 1) = i
        BY <2>3, <3>2
      <4>2. QED
        BY <2>4, <4>1
    <3>3. QED
      BY <2>6, <2>3, <3>1, <3>2
  <2> HIDE DEF old
  <2>7. ASSUME NEW x \in Subs, NEW i \in 1..Len(subs'[x])
        PROVE  /\ streamOf'[subs'[x][i]] = x
               /\ pc'[subs'[x][i]] = "live"
               /\ \A j \in 1..Len(subs'[x]) : subs'[x][i] = subs'[x][j] => i = j
    <3>1. CASE x # st
      BY <1>3, <1>4, <2>1, <3>1 DEF Membership
    <3>2. CASE x = st
      <4>1. \A j \in 1..Len(rest) : rest[j] # s
        <5>1. \A j \in 1..Len(subs[st]) : subs[st][j] = subs[st][k] => j = k
          BY <1>1, <2>2 DEF Membership
        <5>2. QED
          BY <2>2, <2>4, <5>1
      <4>2. streamOf'[subs'[x][i]] = x /\ pc'[subs'[x][i]] = "live"
        <5>1. i \in 1..Len(rest) /\ subs'[x][i] = rest[i]
          BY <1>4, <3>2
        <5>2. PICK m \in 1..Len(subs[st]) : rest[i] = subs[st][m]
          BY <2>4, <5>1
        <5>3. subs[st][m] \in Subs \ {s} /\ streamOf[subs[st][m]] = st
              /\ pc[subs[st][m]] = "live"
          BY <1>1, <2>1, <4>1, <5>1, <5>2
        <5>4. QED
          BY <1>3, <1>4, <3>2, <5>1, <5>2, <5>3
      <4>3. ASSUME NEW j \in 1..Len(rest), rest[i] = rest[j] PROVE i = j
        <5>1. i \in 1..Len(rest)
          BY <1>4, <3>2
        <5>2. subs[st][old(i)] = subs[st][old(j)]
          BY <2>4, <4>3, <5>1
        <5>3. \A m, n \in 1..Len(subs[st]) : subs[st][m] = subs[st][n] => m = n
          BY <1>1 DEF Membership
        <5>4. old(i) = old(j)
          BY <2>4, <5>1, <5>2, <5>3
        <5>5. QED
          BY <2>5, <5>1, <5>4
      <4>4. QED
        BY <1>4, <3>2, <4>2, <4>3
    <3>3. QED
      BY <3>1, <3>2
  <2>8. ASSUME NEW x \in Subs, pc'[x] = "live"
        PROVE  \E i \in 1..Len(subs'[streamOf'[x]]) : subs'[streamOf'[x]][i] = x
    <3>1. x # s /\ pc[x] = "live"
      BY <1>4, <2>8
    <3>2. PICK i \in 1..Len(subs[streamOf[x]]) : subs[streamOf[x]][i] = x
      BY <3>1 DEF Membership
    <3>3. CASE streamOf[x] = st
      BY <1>3, <1>4, <2>2, <2>6, <3>1, <3>2, <3>3
    <3>4. CASE streamOf[x] # st
      <4>1. streamOf[x] \in Subs
        BY <3>1 DEF CallStream, CallTypeOK
      <4>2. QED
        BY <1>3, <1>4, <3>2, <3>4, <4>1
    <3>5. QED
      BY <3>3, <3>4
  <2>9. QED
    BY <2>7, <2>8 DEF Membership
<1>9. Cancellation'
  <2>1. subs[st] # <<>>
    BY <1>1 DEF Elems
  <2>2. ~cancelled[st]
    BY <1>1, <2>1 DEF Cancellation
  <2>3. QED
    BY <1>3, <1>4, <2>2 DEF DetachRemove, Cancellation, loopVars
<1>10. QED
  BY <1>5, <1>6, <1>7, <1>8, <1>9

\* detachUserSub taking userMu (380) changes nothing else.
LEMMA DetachLockPreserves ==
  ASSUME IInv, NEW s \in Subs, DetachLock(s)
  PROVE  IInv'
<1> USE DEF IInv, TypeOK
<1>1. /\ pc[s] = "empty" /\ pc'[s] = "recheck"
      /\ \A x \in Subs \ {s} : pc'[x] = pc[x]
  BY DEF DetachLock, CallTypeOK
<1>2. TypeOK'
  <2>1. CallTypeOK' /\ LockTypeOK'
    BY DEF DetachLock, CallTypeOK, LockTypeOK, CallState
  <2>2. StreamTypeOK' /\ LoopTypeOK' /\ ChanTypeOK'
    BY DEF DetachLock, StreamTypeOK, LoopTypeOK, ChanTypeOK,
           streamVars, loopVars, chanVars
  <2>3. QED
    BY <2>1, <2>2
<1>3. LockOwner'
  BY <1>1, ConstantsAssumption DEF DetachLock, LockOwner
<1>4. Closing' /\ NoPanic' /\ StreamLock' /\ Registry'
  BY <1>1 DEF DetachLock, Closing, NoPanic, StreamLock, Registry,
              streamVars, loopVars, chanVars
<1>5. CallStream'
  BY <1>1 DEF DetachLock, CallStream, loopVars
<1>6. Membership'
  <2>1. \A x \in Subs : pc'[x] = "live" <=> pc[x] = "live"
    BY <1>1
  <2>2. UNCHANGED <<subs, streamOf>>
    BY DEF DetachLock, streamVars
  <2>3. QED
    BY <2>1, <2>2, MembershipKept
<1>7. Cancellation'
  BY <1>1 DEF DetachLock, Cancellation, streamVars, loopVars
<1>8. QED
  BY <1>2, <1>3, <1>4, <1>5, <1>6, <1>7

\* detachUserSub's second look (381-389): an empty stream is cancelled and
\* leaves the registry at once; nobody is about to join, as this call holds userMu.
LEMMA DetachStopPreserves ==
  ASSUME IInv, NEW s \in Subs, DetachStop(s)
  PROVE  IInv'
<1> DEFINE st == streamOf[s]
           u  == UserOf[s]
<1> USE DEF IInv, TypeOK
<1>1. /\ pc[s] = "recheck" /\ pc'[s] = "done" /\ userMu = s /\ userMu' = None
      /\ \A x \in Subs \ {s} : pc'[x] = pc[x]
  BY DEF DetachStop, CallTypeOK, LockOwner
<1>2. st \in Subs /\ u \in Users /\ UserOf[st] = u /\ loop[st] # "none"
  BY <1>1, ConstantsAssumption DEF CallStream, CallTypeOK
<1>3. /\ \/ subs[st] = <<>> /\ cancelled' = [cancelled EXCEPT ![st] = TRUE]
            /\ userStreams' = [userStreams EXCEPT
                                 ![u] = IF userStreams[u] = st THEN None
                                                               ELSE userStreams[u]]
         \/ UNCHANGED <<cancelled, userStreams>>
      /\ UNCHANGED <<subs, loop, streamOf>>
  BY DEF DetachStop, loopVars
<1>4. TypeOK'
  <2>1. CallTypeOK' /\ LockTypeOK'
    BY DEF DetachStop, CallTypeOK, LockTypeOK, CallState
  <2>2. StreamTypeOK'
    BY <1>2, <1>3 DEF StreamTypeOK
  <2>3. LoopTypeOK' /\ ChanTypeOK'
    BY DEF DetachStop, LoopTypeOK, ChanTypeOK, loopVars, chanVars
  <2>4. QED
    BY <2>1, <2>2, <2>3
<1>5. LockOwner'
  BY <1>1, ConstantsAssumption DEF LockOwner
<1>6. Closing' /\ NoPanic' /\ StreamLock' /\ CallStream'
  BY <1>1 DEF DetachStop, Closing, NoPanic, StreamLock, CallStream,
              loopVars, chanVars
<1>7. Registry'
  <2>1. CASE UNCHANGED <<cancelled, userStreams>>
    BY <1>3, <2>1 DEF Registry
  <2>2. CASE /\ cancelled' = [cancelled EXCEPT ![st] = TRUE]
             /\ userStreams' = [userStreams EXCEPT
                                  ![u] = IF userStreams[u] = st THEN None
                                                                ELSE userStreams[u]]
    <3>1. \A x \in Subs : cancelled'[x] = IF x = st THEN TRUE ELSE cancelled[x]
      BY <2>2 DEF StreamTypeOK
    <3>2. \A v \in Users : userStreams'[v] =
            IF v = u /\ userStreams[v] = st THEN None ELSE userStreams[v]
      BY <2>2 DEF StreamTypeOK
    <3>3. \A v \in Users : userStreams[v] # None => userStreams[v] \in Subs
      BY DEF StreamTypeOK
    <3>4. \A x \in Subs : UserOf[x] \in Users /\ x # None
      BY ConstantsAssumption
    <3>5. ASSUME NEW v \in Users, userStreams'[v] # None
          PROVE  /\ loop'[userStreams'[v]] # "none"
                 /\ UserOf[userStreams'[v]] = v
                 /\ ~cancelled'[userStreams'[v]]
      <4>1. userStreams'[v] = userStreams[v] /\ ~(v = u /\ userStreams[v] = st)
        BY <3>2, <3>5
      <4>2. /\ userStreams[v] \in Subs /\ loop[userStreams[v]] # "none"
            /\ UserOf[userStreams[v]] = v /\ ~cancelled[userStreams[v]]
        BY <3>3, <3>5, <4>1 DEF Registry
      <4>3. userStreams[v] # st
        BY <1>2, <4>1, <4>2
      <4>4. QED
        BY <1>3, <3>1, <4>1, <4>2, <4>3
    <3>6. ASSUME NEW x \in Subs, loop'[x] # "none", ~cancelled'[x]
          PROVE  userStreams'[UserOf[x]] = x
      <4>1. x # st /\ userStreams[UserOf[x]] = x
        BY <1>3, <3>1, <3>6 DEF Registry
      <4>2. QED
        BY <3>2, <3>4, <4>1
    <3>7. ASSUME NEW x \in Subs, loop'[x] = "none" PROVE ~cancelled'[x]
      BY <1>2, <1>3, <3>1, <3>7 DEF Registry
    <3>8. QED
      BY <3>5, <3>6, <3>7 DEF Registry
  <2>3. QED
    BY <1>3, <2>1, <2>2
<1>8. Membership'
  <2>1. \A x \in Subs : pc'[x] = "live" <=> pc[x] = "live"
    BY <1>1
  <2>2. QED
    BY <1>3, <2>1, MembershipKept
<1>9. Cancellation'
  <2>1. \A x \in Subs : pc'[x] # "join"
    BY <1>1 DEF LockOwner
  <2>2. \A x \in Subs : cancelled'[x] => cancelled[x] \/ subs[x] = <<>>
    BY <1>2, <1>3 DEF StreamTypeOK
  <2>3. \A x \in Subs : cancelled[x] => cancelled'[x]
    BY <1>2, <1>3 DEF StreamTypeOK
  <2>4. QED
    BY <1>3, <2>1, <2>2, <2>3 DEF Cancellation
<1>10. QED
  BY <1>4, <1>5, <1>6, <1>7, <1>8, <1>9

-----------------------------------------------------------------------------
(* The theorems                                                            *)

\* IInv is inductive: every step of a caller, of a call's goroutine and of a
\* loop preserves it.
LEMMA Inductive == IInv /\ [Next]_vars => IInv'
<1> SUFFICES ASSUME IInv, [Next]_vars PROVE IInv'
  OBVIOUS
<1>1. ASSUME NEW s \in Subs, Caller(s) PROVE IInv'
  BY <1>1, CallerPreserves
<1>2. ASSUME NEW s \in Subs, Goroutine(s) PROVE IInv'
  BY <1>2, AttachLockPreserves, AttachJoinPreserves, DetachRemovePreserves,
     DetachLockPreserves, DetachStopPreserves DEF Goroutine
<1>3. ASSUME NEW st \in Subs, Loop(st) PROVE IInv'
  BY <1>3, LoopPreserves
<1>4. CASE UNCHANGED vars
  <2> USE <1>4 DEF IInv, vars, callVars, lockVars, streamVars, loopVars, chanVars
  <2>1. TypeOK'
    BY DEF TypeOK, CallTypeOK, LockTypeOK, StreamTypeOK, LoopTypeOK, ChanTypeOK
  <2>2. LockOwner' /\ StreamLock' /\ CallStream' /\ Registry'
    BY DEF LockOwner, StreamLock, CallStream, Registry
  <2>3. Membership' /\ Cancellation' /\ Closing' /\ NoPanic'
    BY DEF Membership, Cancellation, Closing, NoPanic
  <2>4. QED
    BY <2>1, <2>2, <2>3
<1>5. QED
  BY <1>1, <1>2, <1>3, <1>4 DEF Next

\* The invariant holds in every reachable state.
LEMMA Invariance == Spec => []IInv
  BY InitInv, Inductive, PTL DEF Spec

\* Every variable keeps its type, for any number of calls, users and events.
THEOREM TypeCorrect == Spec => []TypeOK
<1>1. IInv => TypeOK
  BY DEF IInv
<1>2. QED
  BY <1>1, Invariance, PTL

\* No send on a closed channel and no second close ever happens, however
\* dispatch, detach and cancellation interleave (client.go:321).
THEOREM NeverPanics == Spec => []NoPanic
<1>1. IInv => NoPanic
  BY DEF IInv
<1>2. QED
  BY <1>1, Invariance, PTL

\* A subscriber stays on a registered, uncancelled stream until it detaches:
\* the detach of another one never strands it (client.go:377-388).
THEOREM SubscribersServed == Spec => []LiveServed
<1>1. IInv => LiveServed
  <2> SUFFICES ASSUME IInv, NEW s \in Subs, pc[s] = "live"
               PROVE  /\ s \in Elems(subs[streamOf[s]])
                      /\ userStreams[UserOf[s]] = streamOf[s]
                      /\ ~cancelled[streamOf[s]]
    BY DEF LiveServed
  <2>1. /\ streamOf[s] \in Subs /\ loop[streamOf[s]] # "none"
        /\ UserOf[streamOf[s]] = UserOf[s]
    BY DEF IInv, TypeOK, CallStream, CallTypeOK
  <2>2. PICK i \in 1..Len(subs[streamOf[s]]) : subs[streamOf[s]][i] = s
    BY DEF IInv, Membership
  <2>3. subs[streamOf[s]] # <<>>
    BY <2>2
  <2>4. ~cancelled[streamOf[s]]
    BY <2>1, <2>3 DEF IInv, Cancellation
  <2>5. QED
    BY <2>1, <2>2, <2>4 DEF IInv, Registry, Elems
<1>2. QED
  BY <1>1, Invariance, PTL

\* The calls of one user id never have two running connections
\* (client.go:49-51).
THEOREM OneConnection == Spec => []OneStreamPerUser
<1>1. IInv => OneStreamPerUser
  BY DEF IInv, Registry, OneStreamPerUser, Running
<1>2. QED
  BY <1>1, Invariance, PTL

\* A loop stops only when nobody is subscribed, so the select of dispatchOrder
\* never takes the loop's own ctx (client.go:581).
THEOREM StopsOnlyWhenEmpty == Spec => []StoppedOnlyWhenEmpty
<1>1. IInv => StoppedOnlyWhenEmpty
  BY DEF IInv, Cancellation, StoppedOnlyWhenEmpty
<1>2. QED
  BY <1>1, Invariance, PTL
=============================================================================
