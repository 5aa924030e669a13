------------------------------ MODULE UserFeed ------------------------------
(***************************************************************************)
(* What SubscribeOrders and SubscribeTrades promise each of their callers  *)
(* (pkg/ws/client.go, the comments on the two): events come in the order   *)
(* in which they are dispatched, each once; an order event is left out for *)
(* a caller whose ctx is done only, a trade event only for one whose       *)
(* channel is full; the channel is closed once, when ctx is done, and      *)
(* nothing is sent on it after that.  No subscriber is affected by what    *)
(* another one does.                                                       *)
(***************************************************************************)
EXTENDS Naturals, Sequences

CONSTANTS
  Subs,      \* the calls
  OrderSubs, \* those of SubscribeOrders
  Cap        \* capacity of a channel

VARIABLES
  ctxDone,
  state,   \* of each channel: "none", "open", "closed"
  offered, \* number of the last event dispatched while the channel is open
  chan,    \* the numbers of the events in it
  last     \* number of the event received last, or dispatched before it opened

vars == <<ctxDone, state, offered, chan, last>>

Init ==
  /\ ctxDone = [s \in Subs |-> FALSE]
  /\ state   = [s \in Subs |-> "none"]
  /\ offered = [s \in Subs |-> 0]
  /\ chan    = [s \in Subs |-> <<>>]
  /\ last    = [s \in Subs |-> 0]

Cancel(s) ==
  /\ ~ctxDone[s]
  /\ ctxDone' = [ctxDone EXCEPT ![s] = TRUE]
  /\ UNCHANGED <<state, offered, chan, last>>

\* From now on events are dispatched to s; some have been before.
Open(s) ==
  /\ state[s] = "none"
  /\ state' = [state EXCEPT ![s] = "open"]
  /\ offered'[s] \in Nat
  /\ offered' = [offered EXCEPT ![s] = offered'[s]]
  /\ last' = [last EXCEPT ![s] = offered'[s]]
  /\ UNCHANGED <<ctxDone, chan>>

\* An event is dispatched to the subscribers of T; those of D do not get it.
MayMiss(s) == IF s \in OrderSubs THEN ctxDone[s] ELSE Len(chan[s]) >= Cap

Dispatch(T, D) ==
  /\ \A s \in T : state[s] = "open"
  /\ \A s \in D : MayMiss(s)
  /\ \A s \in T \ D : Len(chan[s]) < Cap
  /\ offered' = [s \in Subs |-> IF s \in T THEN offered[s] + 1 ELSE offered[s]]
  /\ chan' = [s \in Subs |-> IF s \in T \ D THEN Append(chan[s], offered'[s]) ELSE chan[s]]
  /\ UNCHANGED <<ctxDone, state, last>>

\* What is in a channel can be received after its close, too.
Receive(s) ==
  /\ chan[s] # <<>>
  /\ last' = [last EXCEPT ![s] = Head(chan[s])]
  /\ chan' = [chan EXCEPT ![s] = Tail(@)]
  /\ UNCHANGED <<ctxDone, state, offered>>

Close(s) ==
  /\ state[s] = "open" /\ ctxDone[s]
  /\ state' = [state EXCEPT ![s] = "closed"]
  /\ offered' = [offered EXCEPT ![s] = 0]
  /\ UNCHANGED <<ctxDone, chan, last>>

Next ==
  \/ \E s \in Subs : Cancel(s) \/ Open(s) \/ Receive(s) \/ Close(s)
  \/ \E T \in SUBSET Subs : \E D \in SUBSET T : Dispatch(T, D)

Spec == Init /\ [][Next]_vars
=============================================================================
