------------------------------- MODULE WsBook -------------------------------
(***************************************************************************)
(* The market channel of pkg/ws: one SubscribeBook call.  runBookLoop      *)
(* connects, subscribes and reads; after a break it backs off, reconnects  *)
(* and pushes RESET; readBookFrames passes every update through seqGuard   *)
(* and pushes it, or RESET in its place.  The upstream and the consumer    *)
(* are part of the model: the upstream dumps a snapshot of every token     *)
(* after a subscribe and sends deltas from then on; the consumer keeps a   *)
(* book per token as the comments on UpdateType tell it to.                *)
(*                                                                         *)
(* A book's contents are its version, the number of changes it has seen;   *)
(* so an update is its token, kind, timestamp and the version it leads to, *)
(* and frameHash, which tells updates apart by all of that, is the update. *)
(***************************************************************************)
EXTENDS Naturals, Sequences, FiniteSets

CONSTANTS
  Tokens,     \* the subscribed tokenIDs
  Cap,        \* capacity of the update channel (64 in the code)
  MaxBackoff, \* Facade.maxBackoff, in seconds
  DumpNow,    \* does the upstream stamp a snapshot when it sends it, or with
              \* the time of the book's last change?
  Anomalies,  \* what else the upstream does: see Deltas and ReadFrame
  MaxVersion, \* bound: changes of each book
  MaxClock,   \* bound: the upstream's clock
  MaxFaults,  \* bound: failed connects and subscribes, broken connections
  None        \* no hash, no update

ASSUME ConstantsAssumption ==
  /\ Tokens # {} /\ IsFiniteSet(Tokens)
  /\ Cap \in Nat \ {0}
  /\ MaxBackoff \in Nat \ {0}
  /\ DumpNow \in BOOLEAN
  /\ Anomalies \subseteq {"backwards", "noTimestamp", "duplicate"}
  /\ MaxVersion \in Nat /\ MaxClock \in Nat /\ MaxFaults \in Nat

VARIABLES
  \* runBookLoop and readBookFrames
  loop,       \* where the goroutine stands
  reconnect,  \* attempt > 0: there was a read session before
  disconnect, \* argument of the next sleepBackoff, plus 1; 0 = do not sleep
  lastSeq,    \* seqGuard.lastSeq
  lastHash,   \* seqGuard.lastHash
  pend,       \* the updates of the frame being handled that are still to come
  out,        \* the channel
  wait,       \* seconds slept before this attempt to connect; 0 = not at all
              \* since the start or the last read session
  \* the caller and consumer
  ctxDone,
  shown, cache, \* as in BookFeed; cache may also be "garbled"
  lastRecv,   \* the update received last
  \* the upstream
  version,    \* of each book
  stamp,      \* when each book changed last
  clock,
  dump,       \* tokens whose snapshot is still to be sent on this connection
  frame,      \* the last frame sent on this connection
  faults      \* how often connecting, subscribing or reading has failed

guardVars    == <<lastSeq, lastHash>>
loopVars     == <<loop, reconnect, disconnect, wait>>
consumerVars == <<shown, cache, lastRecv>>
bookVars     == <<version, stamp, clock>>
wireVars     == <<dump, frame, faults>>
vars == <<loopVars, guardVars, pend, out, ctxDone, consumerVars, bookVars,
          wireVars>>

\* BookUpdate{Type: RESET}: the other fields are zero
RESET == [tok |-> None, kind |-> "RESET", seq |-> 0, ver |-> 0]
Update == [tok : Tokens, kind : {"SNAPSHOT", "DELTA"}, seq : Nat, ver : Nat]

ASSUME NoneAssumption == None \notin Update \cup {RESET}

Init ==
  /\ loop = "top" /\ reconnect = FALSE /\ disconnect = 0 /\ wait = 0
  /\ lastSeq = 0 /\ lastHash = None
  /\ pend = <<>> /\ out = <<>> /\ ctxDone = FALSE
  /\ shown = [t \in Tokens |-> 0]
  /\ cache = [t \in Tokens |-> "empty"]
  /\ lastRecv = None
  /\ version = [t \in Tokens |-> 0]
  /\ clock = 1
  /\ stamp = [t \in Tokens |-> 1]
  /\ dump = {} /\ frame = <<>> /\ faults = 0

\* The upstream or the network fails once more.
Fault == faults < MaxFaults /\ faults' = faults + 1

-----------------------------------------------------------------------------
(* Faults: what plausible slips in the code would make of the definitions  *)
(* below.  Only mutation checks use them.                                  *)

\* one doubling too few
BackoffBaseShort(n) ==
  LET s == 2 ^ (IF n < 4 THEN n ELSE 4)
  IN  IF s > MaxBackoff THEN MaxBackoff ELSE s

\* never announces a reconnect
LoopConnectSilent ==
  /\ loop = "dial"
  /\ \/ loop' = "subscribe" /\ UNCHANGED <<disconnect, faults>>
     \/ /\ Fault \/ (ctxDone /\ UNCHANGED faults)
        /\ loop' = "top" /\ disconnect' = disconnect + 1
  /\ UNCHANGED <<reconnect, wait, guardVars, pend, out, ctxDone, consumerVars,
                 bookVars, dump, frame>>

\* leaves the guard as the last connection left it
PushReconnectResetKeepsGuard ==
  /\ loop = "reset"
  /\ \/ Len(out) < Cap /\ out' = Append(out, RESET) /\ loop' = "subscribe"
     \/ ctxDone /\ loop' = "closed" /\ UNCHANGED out
  /\ UNCHANGED <<reconnect, disconnect, wait, guardVars, pend, ctxDone,
                 consumerVars, bookVars, wireVars>>

\* passes the RESET itself through the guard
PushReconnectResetGuarded ==
  /\ loop = "reset" /\ Len(out) < Cap
  /\ out' = Append(out, RESET) /\ loop' = "subscribe"
  /\ lastSeq' = 0 /\ lastHash' = RESET
  /\ UNCHANGED <<reconnect, disconnect, wait, pend, ctxDone, consumerVars,
                 bookVars, wireVars>>

\* takes the next attempt for a first one
ReadFailsNoWait ==
  /\ loop = "read" /\ pend = <<>> /\ Fault
  /\ loop' = "top" /\ reconnect' = TRUE /\ disconnect' = 0 /\ wait' = 0
  /\ dump' = {} /\ frame' = <<>>
  /\ UNCHANGED <<guardVars, pend, out, ctxDone, consumerVars, bookVars>>

\* refuses repetitions only
AcceptBackwards(seq, hash) ==
  \/ lastSeq = 0 /\ lastHash = None
  \/ ~(seq = lastSeq /\ hash = lastHash)

\* skips a refused update without a RESET
PushUpdateSkips ==
  LET u == Head(pend)
      ok == lastHash = None \/ (u.seq >= lastSeq /\ u # lastHash)
  IN
  /\ loop = "read" /\ pend # <<>> /\ Len(out) < Cap
  /\ out' = IF ok THEN Append(out, u) ELSE out
  /\ lastSeq' = IF ok THEN u.seq ELSE lastSeq
  /\ lastHash' = IF ok THEN u ELSE lastHash
  /\ pend' = Tail(pend)
  /\ UNCHANGED <<loopVars, ctxDone, consumerVars, bookVars, wireVars>>

\* sends without a select on ctx
PushUpdateIgnoresCtx ==
  LET u == Head(pend) IN
  /\ loop = "read" /\ pend # <<>> /\ Len(out) < Cap
  /\ out' = Append(out, IF u = lastHash THEN RESET ELSE u)
  /\ lastSeq' = IF u = lastHash THEN 0 ELSE u.seq
  /\ lastHash' = IF u = lastHash THEN None ELSE u
  /\ pend' = Tail(pend)
  /\ UNCHANGED <<loopVars, ctxDone, consumerVars, bookVars, wireVars>>

-----------------------------------------------------------------------------
(* runBookLoop                                                             *)

\* sleepBackoff's wait for its argument n, without the jitter: 1<<min(n, 5)
\* seconds, at most MaxBackoff
BackoffBase(n) ==
  LET s == 2 ^ (IF n < 5 THEN n ELSE 5)
  IN  IF s > MaxBackoff THEN MaxBackoff ELSE s

LoopTop ==
  /\ loop = "top"
  /\ loop' = IF ctxDone THEN "closed" ELSE IF disconnect > 0 THEN "sleep" ELSE "dial"
  /\ UNCHANGED <<reconnect, disconnect, wait, guardVars, pend, out, ctxDone,
                 consumerVars, bookVars, wireVars>>

\* The select may take the timer even when ctx is done too.
LoopSleep ==
  /\ loop = "sleep"
  /\ \/ /\ loop' = "dial"
        /\ wait' = BackoffBase(disconnect - 1)
     \/ /\ ctxDone
        /\ loop' = "closed"
        /\ UNCHANGED wait
  /\ UNCHANGED <<reconnect, disconnect, guardVars, pend, out, ctxDone,
                 consumerVars, bookVars, wireVars>>

LoopConnect ==
  /\ loop = "dial"
  /\ \/ /\ loop' = IF reconnect THEN "reset" ELSE "subscribe"
        /\ UNCHANGED <<disconnect, faults>>
     \/ /\ Fault \/ (ctxDone /\ UNCHANGED faults)
        /\ loop' = "top"
        /\ disconnect' = disconnect + 1
  /\ UNCHANGED <<reconnect, wait, guardVars, pend, out, ctxDone, consumerVars,
                 bookVars, dump, frame>>

\* RESET after a reconnect, before the subscribe envelope
PushReconnectReset ==
  /\ loop = "reset"
  /\ \/ /\ Len(out) < Cap
        /\ out' = Append(out, RESET)
        /\ lastSeq' = 0 /\ lastHash' = None
        /\ loop' = "subscribe"
     \/ /\ ctxDone
        /\ loop' = "closed"
        /\ UNCHANGED <<out, guardVars>>
  /\ UNCHANGED <<reconnect, disconnect, wait, pend, ctxDone, consumerVars,
                 bookVars, wireVars>>

LoopSubscribe ==
  /\ loop = "subscribe"
  /\ \/ /\ loop' = "read"
        /\ dump' = Tokens /\ frame' = <<>>
        /\ UNCHANGED <<disconnect, faults>>
     \/ /\ Fault \/ (ctxDone /\ UNCHANGED faults)
        /\ loop' = "top"
        /\ disconnect' = disconnect + 1
        /\ UNCHANGED <<dump, frame>>
  /\ UNCHANGED <<reconnect, wait, guardVars, pend, out, ctxDone, consumerVars,
                 bookVars>>

-----------------------------------------------------------------------------
(* readBookFrames                                                          *)

\* conn.Read fails: the connection broke, or ctx is done.
ReadFails ==
  /\ loop = "read" /\ pend = <<>>
  /\ \/ /\ Fault /\ ~ctxDone
        /\ loop' = "top" /\ reconnect' = TRUE /\ disconnect' = 1 /\ wait' = 0
     \/ /\ ctxDone
        /\ loop' = "closed"
        /\ UNCHANGED <<reconnect, disconnect, wait, faults>>
  /\ dump' = {} /\ frame' = <<>>
  /\ UNCHANGED <<guardVars, pend, out, ctxDone, consumerVars, bookVars>>

\* The orders the elements of T can come in.
Orders(T) == {q \in [1..Cardinality(T) -> T] : \A t \in T : \E i \in DOMAIN q : q[i] = t}

\* A snapshot of every subscribed token, in one frame or in several.
SnapshotFrame ==
  \E T \in SUBSET dump : \E q \in Orders(T) :
    /\ T # {} /\ (T = dump \/ Cardinality(T) = 1)
    /\ frame' = [i \in DOMAIN q |->
                   [tok |-> q[i], kind |-> "SNAPSHOT", ver |-> version[q[i]],
                    seq |-> IF DumpNow THEN clock ELSE stamp[q[i]]]]
    /\ dump' = dump \ T
    /\ UNCHANGED bookVars

\* The books of T change, at one time; one price_change frame says so.
\* parseBookSingle groups it by token, in no particular order.  The upstream
\* may stamp it earlier than an earlier one, or not at all.
DeltaFrame ==
  \E T \in SUBSET Tokens, now \in {clock, clock + 1} : \E q \in Orders(T), ts \in 0..now :
    /\ dump = {} /\ T # {}
    /\ \A t \in T : version[t] < MaxVersion
    /\ now <= MaxClock
    /\ \/ ts = now
       \/ ts = clock - 1 /\ ts > 0 /\ "backwards" \in Anomalies
       \/ ts = 0 /\ "noTimestamp" \in Anomalies
    /\ version' = [t \in Tokens |-> IF t \in T THEN version[t] + 1 ELSE version[t]]
    /\ stamp'   = [t \in Tokens |-> IF t \in T THEN now ELSE stamp[t]]
    /\ clock'   = now
    /\ frame'   = [i \in DOMAIN q |-> [tok |-> q[i], kind |-> "DELTA", seq |-> ts,
                                       ver |-> version'[q[i]]]]
    /\ UNCHANGED dump

\* The frame before once more.
DuplicateFrame ==
  /\ "duplicate" \in Anomalies /\ frame # <<>>
  /\ UNCHANGED <<bookVars, dump, frame>>

\* The next frame, decoded.  PONG and frames without book updates change
\* nothing.
ReadFrame ==
  /\ loop = "read" /\ pend = <<>>
  /\ SnapshotFrame \/ DeltaFrame \/ DuplicateFrame
  /\ pend' = frame'
  /\ UNCHANGED <<loopVars, guardVars, out, ctxDone, consumerVars, faults>>

\* seqGuard.accept
Accept(seq, hash) ==
  \/ seq = 0 /\ hash = None
  \/ lastSeq = 0 /\ lastHash = None
  \/ ~(seq < lastSeq) /\ ~(seq = lastSeq /\ hash = lastHash)

\* The next update of the frame: pushed, or refused with RESET pushed in its
\* place.  Either push gives up when ctx is done.
PushUpdate ==
  LET u == Head(pend) IN
  /\ loop = "read" /\ pend # <<>>
  /\ \/ /\ Accept(u.seq, u)
        /\ Len(out) < Cap
        /\ out' = Append(out, u)
        /\ lastSeq' = u.seq /\ lastHash' = u
        /\ pend' = Tail(pend)
        /\ UNCHANGED loop
     \/ /\ ~Accept(u.seq, u)
        /\ Len(out) < Cap
        /\ out' = Append(out, RESET)
        /\ lastSeq' = 0 /\ lastHash' = None
        /\ pend' = Tail(pend)
        /\ UNCHANGED loop
     \/ /\ ctxDone
        /\ loop' = "closed"
        /\ UNCHANGED <<out, guardVars, pend>>
  /\ UNCHANGED <<reconnect, disconnect, wait, ctxDone, consumerVars, bookVars,
                 wireVars>>

-----------------------------------------------------------------------------
(* The caller and consumer                                                 *)

Cancel ==
  /\ ~ctxDone
  /\ ctxDone' = TRUE
  /\ UNCHANGED <<loopVars, guardVars, pend, out, consumerVars, bookVars, wireVars>>

\* What the consumer does on receiving u.  A DELTA sets price levels, so the
\* one applied last may be applied again; any but the next garbles the book.
Apply(u) ==
  IF u.kind = "RESET"
  THEN cache' = [t \in Tokens |-> "empty"] /\ UNCHANGED shown
  ELSE IF u.kind = "SNAPSHOT" \/ (cache[u.tok] = "good"
                                  /\ u.ver \in shown[u.tok]..(shown[u.tok] + 1))
  THEN cache' = [cache EXCEPT ![u.tok] = "good"] /\ shown' = [shown EXCEPT ![u.tok] = u.ver]
  ELSE /\ cache' = [cache EXCEPT ![u.tok] = IF @ = "empty" THEN @ ELSE "garbled"]
       /\ UNCHANGED shown

Recv ==
  /\ out # <<>>
  /\ Apply(Head(out))
  /\ lastRecv' = Head(out)
  /\ out' = Tail(out)
  /\ UNCHANGED <<loopVars, guardVars, pend, ctxDone, bookVars, wireVars>>

\* A book changes while nobody is subscribed.
MissedChange ==
  /\ loop # "read"
  /\ \E t \in Tokens, now \in {clock, clock + 1} :
       /\ version[t] < MaxVersion /\ now <= MaxClock
       /\ version' = [version EXCEPT ![t] = @ + 1]
       /\ stamp' = [stamp EXCEPT ![t] = now]
       /\ clock' = now
  /\ UNCHANGED <<loopVars, guardVars, pend, out, ctxDone, consumerVars, wireVars>>

-----------------------------------------------------------------------------

LoopStep == \/ LoopTop \/ LoopSleep \/ LoopConnect \/ PushReconnectReset
            \/ LoopSubscribe \/ PushUpdate

Next == LoopStep \/ ReadFrame \/ ReadFails \/ Cancel \/ Recv \/ MissedChange

Spec == Init /\ [][Next]_vars

(***************************************************************************)
(* Fairness.  The goroutine keeps running.  A read whose ctx is done makes  *)
(* the websocket library close the connection, so however many frames are  *)
(* waiting, reads fail in the end (SF).  FairSpec adds a cooperative       *)
(* environment: the upstream sends the snapshots it owes and the consumer  *)
(* keeps receiving.  Nothing has to fail and no book has to change.        *)
(***************************************************************************)
SdkFairness == WF_vars(LoopStep) /\ SF_vars(ctxDone /\ ReadFails)
SdkSpec  == Spec /\ SdkFairness
FairSpec == SdkSpec /\ WF_vars(dump # {} /\ ReadFrame) /\ WF_vars(Recv)

-----------------------------------------------------------------------------

LoopTypeOK ==
  /\ loop \in {"top", "sleep", "dial", "reset", "subscribe", "read", "closed"}
  /\ reconnect \in BOOLEAN /\ disconnect \in Nat /\ wait \in Nat
  /\ lastSeq \in Nat /\ lastHash \in Update \cup {None}
  /\ pend \in Seq(Update) /\ out \in Seq(Update \cup {RESET})
ConsumerTypeOK ==
  /\ ctxDone \in BOOLEAN
  /\ shown \in [Tokens -> Nat]
  /\ cache \in [Tokens -> {"empty", "good", "garbled"}]
  /\ lastRecv \in Update \cup {RESET, None}
UpstreamTypeOK ==
  /\ version \in [Tokens -> Nat] /\ stamp \in [Tokens -> Nat] /\ clock \in Nat
  /\ dump \subseteq Tokens /\ frame \in Seq(Update) /\ faults \in Nat

\* Every variable is of its type.
TypeOK == LoopTypeOK /\ ConsumerTypeOK /\ UpstreamTypeOK

\* The consumer that follows the comments on UpdateType holds no book that
\* never was (types.go:31-40): BookFeed, implemented by all of this.
Feed == INSTANCE BookFeed
FeedSpec == Feed!Spec

\* What is left in the channel, after what was received last.
Stream == (IF lastRecv = None THEN <<>> ELSE <<lastRecv>>) \o out

\* Between two RESETs, Sequence never goes back and no update follows itself
\* (types.go:49-51, client.go:843-846).
StreamOrdered ==
  \A i \in 1..(Len(Stream) - 1) :
    LET u == Stream[i]  w == Stream[i+1] IN
    u.kind # "RESET" /\ w.kind # "RESET" => u.seq <= w.seq /\ u # w

\* Every connection after the first session is announced: RESET is the last
\* thing pushed when the loop subscribes again (doc.go, types.go:38).
ReconnectAnnounced ==
  loop = "subscribe" /\ reconnect => Stream # <<>> /\ Stream[Len(Stream)] = RESET

\* The waits between attempts to connect double up to the limit, or to the 32
\* seconds that five doublings give, and start over at a second only after a
\* read session (client.go:637-643, doc.go).
LongestWait == IF MaxBackoff < 32 THEN MaxBackoff ELSE 32
BackoffEscalates ==
  [][/\ loop = "sleep" /\ loop' = "dial" =>
          wait' = (IF wait = 0 THEN 1
                   ELSE IF 2 * wait > LongestWait THEN LongestWait ELSE 2 * wait)
     /\ loop # "sleep" /\ wait' # wait => loop = "read" /\ wait' = 0]_vars

\* No attempt to connect but the very first goes without a wait: an upstream
\* that accepts connections and drops them does not make the loop spin.
FirstOrWaited ==
  loop \in {"dial", "reset", "subscribe"} /\ wait = 0 => disconnect = 0 /\ ~reconnect

\* The channel is closed once ctx is done, whether or not anybody receives
\* (client.go:145).
ClosedAfterCancel == ctxDone ~> loop = "closed"

\* The consumer comes to hold the current book of every token, after every
\* break and every missed change (client.go:141-142).
Current(t) == cache[t] = "good" /\ shown[t] = version[t]
CatchesUp == \A t \in Tokens : ~Current(t) ~> Current(t) \/ ctxDone

\* The SNAPSHOT that a consumer is to wait for after any RESET comes
\* (types.go:35-36).
SnapshotAfterReset ==
  \A t \in Tokens : lastRecv = RESET ~> cache[t] = "good" \/ ctxDone
=============================================================================
