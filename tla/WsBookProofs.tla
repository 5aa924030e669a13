---------------------------- MODULE WsBookProofs ----------------------------
(***************************************************************************)
(* Proofs about WsBook, for any set of tokens, any capacity and any of the *)
(* upstream's anomalies: its types, the order of the stream, the announced *)
(* reconnects, the waits, and that the consumer's books are true, which is *)
(* the refinement of BookFeed.                                             *)
(***************************************************************************)
EXTENDS WsBook, FiniteSetTheorems, SequenceTheorems, TLAPS

\* The update pushed last.
Latest == IF out # <<>> THEN out[Len(out)] ELSE lastRecv

\* Between two RESETs updates follow one another in order.
Follows(u, w) == u.kind # "RESET" /\ w.kind # "RESET" => u.seq <= w.seq /\ u # w

\* The guard remembers the update pushed last, and nothing after a RESET.
Guard ==
  IF Latest \in {None, RESET} THEN lastSeq = 0 /\ lastHash = None
                              ELSE lastSeq = Latest.seq /\ lastHash = Latest

InOrder ==
  /\ \A i \in 1..(Len(out) - 1) : Follows(out[i], out[i + 1])
  /\ lastRecv # None /\ out # <<>> => Follows(lastRecv, out[1])

Announced == loop = "subscribe" /\ reconnect => Latest = RESET

\* Whoever is to connect again has something to wait for, and has waited.
Waiting ==
  /\ reconnect \/ loop = "sleep" => disconnect > 0
  /\ loop \in {"dial", "reset", "subscribe"} /\ disconnect > 0 => wait > 0

\* The last wait is that of the last attempt, if there was one since the start
\* or the last read session.
Escalating ==
  /\ loop \in {"top", "sleep"} =>
       wait = IF disconnect < 2 THEN 0 ELSE BackoffBase(disconnect - 2)
  /\ loop \in {"dial", "reset", "subscribe"} =>
       wait = IF disconnect = 0 THEN 0 ELSE BackoffBase(disconnect - 1)

\* The consumer's books as they will be after what is in the channel: a path of
\* views, from what the consumer holds over every update in the channel.
Views == [Tokens -> [c : {"empty", "good"}, v : Nat]]

Now == [t \in Tokens |-> [c |-> cache[t], v |-> shown[t]]]

After(V, u) ==
  IF u.kind = "RESET" THEN [t \in Tokens |-> [c |-> "empty", v |-> V[t].v]]
  ELSE IF u.kind = "SNAPSHOT" \/ V[u.tok].c = "good"
  THEN [V EXCEPT ![u.tok] = [c |-> "good", v |-> u.ver]]
  ELSE V

\* An update garbles no book and takes none back.
Fits(V, u) ==
  u.kind # "RESET" =>
    /\ V[u.tok].v <= u.ver /\ u.ver <= version[u.tok]
    /\ u.kind = "DELTA" /\ V[u.tok].c = "good" => u.ver <= V[u.tok].v + 1

Path(P) ==
  /\ P \in [0..Len(out) -> Views]
  /\ P[0] = Now
  /\ \A i \in 1..Len(out) : Fits(P[i - 1], out[i]) /\ P[i] = After(P[i - 1], out[i])

\* At the end of the path a book is current while the connection lasts, but for
\* the change that the frame in hand tells of; and there is none before the
\* first snapshot of a connection.
Due(V) ==
  /\ \A t \in Tokens : V[t].v <= version[t]
  /\ loop = "read" => \A t \in Tokens : V[t].c = "good" =>
       \/ V[t].v = version[t]
       \/ V[t].v + 1 = version[t] /\ \E i \in DOMAIN pend : pend[i].tok = t
  /\ loop \notin {"read", "closed"} /\ (~reconnect \/ loop = "subscribe") =>
       \A t \in Tokens : V[t].c = "empty"

Books == \E P : Path(P) /\ Due(P[Len(out)])

\* A frame tells of the books as they are.
Frames ==
  /\ loop = "read" => /\ \A i \in DOMAIN frame : frame[i].ver = version[frame[i].tok]
                      /\ \A i \in DOMAIN pend : pend[i].ver = version[pend[i].tok]
  /\ loop \notin {"read", "closed"} => pend = <<>>

IInv == /\ TypeOK /\ Guard /\ InOrder /\ Announced /\ Waiting /\ Escalating
        /\ Frames /\ Books

-----------------------------------------------------------------------------
(* Types                                                                   *)

\* RESET and "no update yet" are no updates.
LEMMA NoneLemma == None \notin Update /\ None # RESET /\ RESET \notin Update
<1>1. RESET \notin Update
  BY DEF RESET, Update
<1> QED
  BY <1>1, NoneAssumption

\* The frames the upstream sends are sequences of updates.
LEMMA OrdersType ==
  ASSUME NEW T \in SUBSET Tokens, NEW q \in Orders(T)
  PROVE  /\ q \in [1..Cardinality(T) -> Tokens] /\ Cardinality(T) \in Nat
         /\ \A i \in DOMAIN q : q[i] \in T
         /\ \A t \in T : \E i \in DOMAIN q : q[i] = t
<1>1. Cardinality(T) \in Nat
  BY ConstantsAssumption, FS_Subset, FS_CardinalityType
<1> QED
  BY <1>1 DEF Orders

\* The frame of a dump.
LEMMA SnapshotType ==
  ASSUME TypeOK, SnapshotFrame
  PROVE  /\ frame' \in Seq(Update) /\ dump' \subseteq Tokens /\ UNCHANGED bookVars
         /\ \A i \in DOMAIN frame' : frame'[i].ver = version[frame'[i].tok]
<1>1. PICK T \in SUBSET dump : \E q \in Orders(T) :
        /\ frame' = [i \in DOMAIN q |->
                       [tok |-> q[i], kind |-> "SNAPSHOT", ver |-> version[q[i]],
                        seq |-> IF DumpNow THEN clock ELSE stamp[q[i]]]]
        /\ dump' = dump \ T /\ UNCHANGED bookVars
  BY DEF SnapshotFrame
<1>3. PICK q \in Orders(T) :
        frame' = [i \in DOMAIN q |->
                    [tok |-> q[i], kind |-> "SNAPSHOT", ver |-> version[q[i]],
                     seq |-> IF DumpNow THEN clock ELSE stamp[q[i]]]]
  BY <1>1
<1>2. dump \subseteq Tokens
  BY DEF TypeOK, UpstreamTypeOK
<1>4. q \in [1..Cardinality(T) -> Tokens] /\ Cardinality(T) \in Nat
  BY <1>2, OrdersType
<1>5. \A t \in Tokens : version[t] \in Nat /\ (IF DumpNow THEN clock ELSE stamp[t]) \in Nat
  BY DEF TypeOK, UpstreamTypeOK
<1>6. frame' \in [1..Cardinality(T) -> Update]
  BY <1>3, <1>4, <1>5 DEF Update
<1>7. \A i \in DOMAIN frame' : frame'[i].ver = version[frame'[i].tok]
  BY <1>3, <1>4
<1> QED
  BY <1>1, <1>2, <1>4, <1>6, <1>7

\* A frame of changes, and the books it tells of.
LEMMA DeltaType ==
  ASSUME TypeOK, DeltaFrame
  PROVE  /\ frame' \in Seq(Update) /\ dump' = dump
         /\ version' \in [Tokens -> Nat] /\ stamp' \in [Tokens -> Nat] /\ clock' \in Nat
         /\ \A i \in DOMAIN frame' : frame'[i].ver = version'[frame'[i].tok]
         /\ \E T \in SUBSET Tokens :
              /\ version' = [t \in Tokens |-> IF t \in T THEN version[t] + 1 ELSE version[t]]
              /\ \A t \in T : \E i \in DOMAIN frame' : frame'[i].tok = t
<1>1. clock \in Nat /\ version \in [Tokens -> Nat] /\ stamp \in [Tokens -> Nat]
  BY DEF TypeOK, UpstreamTypeOK
<1>2. PICK T \in SUBSET Tokens, now \in {clock, clock + 1} : \E q \in Orders(T), ts \in 0..now :
        /\ version' = [t \in Tokens |-> IF t \in T THEN version[t] + 1 ELSE version[t]]
        /\ stamp'   = [t \in Tokens |-> IF t \in T THEN now ELSE stamp[t]]
        /\ clock'   = now
        /\ frame'   = [i \in DOMAIN q |-> [tok |-> q[i], kind |-> "DELTA", seq |-> ts,
                                           ver |-> version'[q[i]]]]
        /\ UNCHANGED dump
  BY DEF DeltaFrame
<1>3. PICK q \in Orders(T), ts \in 0..now :
        frame' = [i \in DOMAIN q |-> [tok |-> q[i], kind |-> "DELTA", seq |-> ts,
                                      ver |-> version'[q[i]]]]
  BY <1>2
<1>4. /\ version' \in [Tokens -> Nat] /\ stamp' \in [Tokens -> Nat] /\ clock' \in Nat
      /\ ts \in Nat /\ dump' = dump
  BY <1>1, <1>2, <1>3
<1>5. /\ q \in [1..Cardinality(T) -> Tokens] /\ Cardinality(T) \in Nat
      /\ \A t \in T : \E i \in DOMAIN q : q[i] = t
  BY OrdersType
<1>6. frame' \in [1..Cardinality(T) -> Update]
  BY <1>3, <1>4, <1>5 DEF Update
<1>7. /\ \A i \in DOMAIN frame' : frame'[i].ver = version'[frame'[i].tok]
      /\ \A t \in T : \E i \in DOMAIN frame' : frame'[i].tok = t
  BY <1>3, <1>5
<1>8. \E S \in SUBSET Tokens :
        /\ version' = [t \in Tokens |-> IF t \in S THEN version[t] + 1 ELSE version[t]]
        /\ \A t \in S : \E i \in DOMAIN frame' : frame'[i].tok = t
  BY <1>2, <1>7
<1>9. frame' \in Seq(Update)
  BY <1>5, <1>6
<1> QED
  BY <1>4, <1>7, <1>8, <1>9, Zenon

\* The types hold at the start.
LEMMA TypeInit == Init => TypeOK
<1> SUFFICES ASSUME Init PROVE TypeOK
  OBVIOUS
<1>1. LoopTypeOK
  <2>1. <<>> \in Seq(Update) /\ <<>> \in Seq(Update \cup {RESET})
    OBVIOUS
  <2> QED
    BY <2>1, Zenon DEF Init, LoopTypeOK
<1>2. ConsumerTypeOK
  BY DEF Init, ConsumerTypeOK
<1>3. UpstreamTypeOK
  BY DEF Init, UpstreamTypeOK
<1> QED
  BY <1>1, <1>2, <1>3 DEF TypeOK

\* The waits are numbers of seconds, at least one.
LEMMA BackoffLemma == \A n \in Nat : BackoffBase(n) \in Nat \ {0}
<1> SUFFICES ASSUME NEW n \in Nat PROVE BackoffBase(n) \in Nat \ {0}
  OBVIOUS
<1> DEFINE m == IF n < 5 THEN n ELSE 5
<1>1. m \in 0..5
  OBVIOUS
<1> HIDE DEF m
<1>2. 2 ^ m \in Nat \ {0}
  <2>1. 2 ^ 0 = 1 /\ 2 ^ 1 = 2 /\ 2 ^ 2 = 4 /\ 2 ^ 3 = 8 /\ 2 ^ 4 = 16 /\ 2 ^ 5 = 32
    OBVIOUS
  <2>2. CASE m = 0
    BY <2>1, <2>2
  <2>3. CASE m = 1
    BY <2>1, <2>3
  <2>4. CASE m = 2
    BY <2>1, <2>4
  <2>5. CASE m = 3
    BY <2>1, <2>5
  <2>6. CASE m = 4
    BY <2>1, <2>6
  <2>7. CASE m = 5
    BY <2>1, <2>7
  <2> QED
    BY <1>1, <2>2, <2>3, <2>4, <2>5, <2>6, <2>7
<1>3. BackoffBase(n) = IF 2 ^ m > MaxBackoff THEN MaxBackoff ELSE 2 ^ m
  BY DEF BackoffBase, m
<1> QED
  BY <1>2, <1>3, ConstantsAssumption

\* No step of the loop, the network or the consumer leaves the types.
LEMMA TypeStep == TypeOK /\ Waiting /\ [Next]_vars => TypeOK'
<1> SUFFICES ASSUME TypeOK, Waiting, [Next]_vars PROVE TypeOK'
  OBVIOUS
<1> LoopTypeOK /\ ConsumerTypeOK /\ UpstreamTypeOK
  BY DEF TypeOK
<1>1. ASSUME UNCHANGED <<loopVars, guardVars, pend, out>> PROVE LoopTypeOK'
  BY <1>1 DEF LoopTypeOK, loopVars, guardVars
<1>2. ASSUME UNCHANGED <<ctxDone, consumerVars>> PROVE ConsumerTypeOK'
  BY <1>2 DEF ConsumerTypeOK, consumerVars
<1>3. ASSUME UNCHANGED <<bookVars, wireVars>> PROVE UpstreamTypeOK'
  BY <1>3 DEF UpstreamTypeOK, bookVars, wireVars
<1>4. ASSUME UNCHANGED bookVars, dump' \subseteq Tokens, frame' \in Seq(Update), faults' \in Nat
      PROVE  UpstreamTypeOK'
  BY <1>4 DEF UpstreamTypeOK, bookVars
<1>5. Fault => faults' \in Nat
  BY DEF Fault, UpstreamTypeOK
<1>6. ASSUME UNCHANGED <<guardVars, pend, out>>, UNCHANGED reconnect \/ reconnect' = TRUE,
             loop' \in {"top", "sleep", "dial", "reset", "subscribe", "read", "closed"},
             disconnect' \in Nat, wait' \in Nat
      PROVE  LoopTypeOK'
  BY <1>6 DEF LoopTypeOK, guardVars
<1>7. disconnect \in Nat /\ disconnect + 1 \in Nat /\ wait \in Nat /\ faults \in Nat
      /\ dump \subseteq Tokens /\ frame \in Seq(Update) /\ <<>> \in Seq(Update)
  BY DEF LoopTypeOK, UpstreamTypeOK
<1>8. CASE LoopTop
  <2>1. LoopTypeOK'
    BY <1>6, <1>7, <1>8 DEF LoopTop
  <2> QED
    BY <1>2, <1>3, <1>8, <2>1 DEF LoopTop, TypeOK
<1>9. CASE LoopSleep
  <2>1. wait' \in Nat
    <3>1. disconnect - 1 \in Nat
      BY <1>7, <1>9 DEF LoopSleep, Waiting
    <3>2. BackoffBase(disconnect - 1) \in Nat
      BY <3>1, BackoffLemma
    <3> QED
      BY <1>7, <1>9, <3>2 DEF LoopSleep
  <2>2. LoopTypeOK'
    BY <1>6, <1>7, <1>9, <2>1 DEF LoopSleep
  <2> QED
    BY <1>2, <1>3, <1>9, <2>2 DEF LoopSleep, TypeOK
<1>10. CASE LoopConnect
  <2>1. faults' \in Nat
    BY <1>5, <1>7, <1>10 DEF LoopConnect
  <2>2. LoopTypeOK'
    BY <1>6, <1>7, <1>10 DEF LoopConnect
  <2> QED
    BY <1>2, <1>4, <1>7, <1>10, <2>1, <2>2 DEF LoopConnect, TypeOK
<1>11. CASE PushReconnectReset
  <2>1. out' \in Seq(Update \cup {RESET})
    <3>1. out \in Seq(Update \cup {RESET}) /\ RESET \in Update \cup {RESET}
      BY DEF LoopTypeOK
    <3>2. Append(out, RESET) \in Seq(Update \cup {RESET})
      BY <3>1
    <3> QED
      BY <1>11, <3>1, <3>2, Zenon DEF PushReconnectReset
  <2>3. lastSeq' \in Nat /\ lastHash' \in Update \cup {None}
    BY <1>11 DEF PushReconnectReset, LoopTypeOK, guardVars
  <2>2. LoopTypeOK'
    BY <1>11, <2>1, <2>3 DEF PushReconnectReset, LoopTypeOK
  <2> QED
    BY <1>2, <1>3, <1>11, <2>2 DEF PushReconnectReset, TypeOK
<1>12. CASE LoopSubscribe
  <2>1. faults' \in Nat /\ dump' \subseteq Tokens /\ frame' \in Seq(Update)
    BY <1>5, <1>7, <1>12 DEF LoopSubscribe
  <2>2. LoopTypeOK'
    BY <1>6, <1>7, <1>12 DEF LoopSubscribe
  <2> QED
    BY <1>2, <1>4, <1>12, <2>1, <2>2 DEF LoopSubscribe, TypeOK
<1>13. CASE PushUpdate
  <2> DEFINE u == Head(pend)
  <2>1. u \in Update /\ Tail(pend) \in Seq(Update)
    BY <1>13 DEF PushUpdate, LoopTypeOK
  <2>2. u.seq \in Nat
    BY <2>1 DEF Update
  <2> HIDE DEF u
  <2>3. out' \in Seq(Update \cup {RESET}) /\ pend' \in Seq(Update)
    <3>1. out \in Seq(Update \cup {RESET}) /\ {u, RESET} \subseteq Update \cup {RESET}
      BY <2>1 DEF LoopTypeOK
    <3>2. {Append(out, RESET), Append(out, u)} \subseteq Seq(Update \cup {RESET})
      BY <3>1
    <3>3. pend \in Seq(Update)
      BY DEF LoopTypeOK
    <3> QED
      BY <1>13, <2>1, <3>1, <3>2, <3>3, Zenon DEF PushUpdate, u
  <2>4. lastSeq' \in Nat /\ lastHash' \in Update \cup {None}
    BY <1>13, <2>1, <2>2 DEF PushUpdate, LoopTypeOK, guardVars, u
  <2>5. loop' \in {"read", "closed"}
    BY <1>13 DEF PushUpdate
  <2>6. LoopTypeOK'
    BY <1>13, <2>3, <2>4, <2>5 DEF PushUpdate, LoopTypeOK
  <2> QED
    BY <1>2, <1>3, <1>13, <2>6 DEF PushUpdate, TypeOK
<1>14. CASE ReadFrame
  <2>1. /\ frame' \in Seq(Update) /\ dump' \subseteq Tokens /\ clock' \in Nat
        /\ version' \in [Tokens -> Nat] /\ stamp' \in [Tokens -> Nat]
    <3>1. CASE SnapshotFrame
      BY <3>1, SnapshotType DEF bookVars, UpstreamTypeOK
    <3>2. CASE DeltaFrame
      BY <3>2, DeltaType DEF UpstreamTypeOK
    <3>3. CASE DuplicateFrame
      BY <3>3 DEF DuplicateFrame, bookVars, UpstreamTypeOK
    <3> QED
      BY <1>14, <3>1, <3>2, <3>3 DEF ReadFrame
  <2>2. LoopTypeOK'
    BY <1>14, <2>1 DEF ReadFrame, LoopTypeOK, loopVars, guardVars
  <2>3. UpstreamTypeOK'
    BY <1>14, <2>1 DEF ReadFrame, UpstreamTypeOK
  <2> QED
    BY <1>2, <1>14, <2>2, <2>3 DEF ReadFrame, TypeOK
<1>15. CASE ReadFails
  <2>1. faults' \in Nat /\ dump' \subseteq Tokens /\ frame' \in Seq(Update)
    BY <1>5, <1>7, <1>15 DEF ReadFails
  <2>2. /\ loop' \in {"top", "closed"} /\ disconnect' \in Nat /\ wait' \in Nat
        /\ UNCHANGED reconnect \/ reconnect' = TRUE
    BY <1>7, <1>15 DEF ReadFails
  <2>3. LoopTypeOK'
    BY <1>6, <1>15, <2>2 DEF ReadFails
  <2> QED
    BY <1>2, <1>4, <1>15, <2>1, <2>3 DEF ReadFails, TypeOK
<1>16. CASE Cancel
  <2>1. ConsumerTypeOK'
    BY <1>16 DEF Cancel, ConsumerTypeOK, consumerVars
  <2> QED
    BY <1>1, <1>3, <1>16, <2>1 DEF Cancel, TypeOK
<1>17. CASE Recv
  <2>1. Head(out) \in Update \cup {RESET} /\ Tail(out) \in Seq(Update \cup {RESET})
    BY <1>17 DEF Recv, LoopTypeOK
  <2>2. LoopTypeOK'
    BY <1>17, <2>1 DEF Recv, LoopTypeOK, loopVars, guardVars
  <2>3. shown' \in [Tokens -> Nat] /\ cache' \in [Tokens -> {"empty", "good", "garbled"}]
    <3>1. CASE Head(out).kind = "RESET"
      BY <1>17, <3>1 DEF Recv, Apply, ConsumerTypeOK
    <3>2. CASE Head(out).kind # "RESET"
      <4>1. Head(out).tok \in Tokens /\ Head(out).ver \in Nat
        BY <2>1, <3>2 DEF RESET, Update
      <4> QED
        BY <1>17, <3>2, <4>1 DEF Recv, Apply, ConsumerTypeOK
    <3> QED
      BY <3>1, <3>2
  <2>4. ConsumerTypeOK'
    BY <1>17, <2>1, <2>3 DEF Recv, ConsumerTypeOK
  <2> QED
    BY <1>3, <1>17, <2>2, <2>4 DEF Recv, TypeOK
<1>18. CASE MissedChange
  <2>1. PICK t \in Tokens, now \in {clock, clock + 1} :
          /\ version' = [version EXCEPT ![t] = @ + 1]
          /\ stamp' = [stamp EXCEPT ![t] = now]
          /\ clock' = now
    BY <1>18 DEF MissedChange
  <2>2. UpstreamTypeOK'
    BY <1>18, <2>1 DEF MissedChange, UpstreamTypeOK, wireVars
  <2> QED
    BY <1>1, <1>2, <1>18, <2>2 DEF MissedChange, TypeOK
<1>19. CASE UNCHANGED vars
  BY <1>1, <1>2, <1>3, <1>19 DEF vars, TypeOK
<1> QED
  BY <1>8, <1>9, <1>10, <1>11, <1>12, <1>13, <1>14, <1>15, <1>16, <1>17, <1>18, <1>19
     DEF Next, LoopStep

-----------------------------------------------------------------------------
(* The guard and the order of the stream                                   *)

\* What is pushed is the latest.
LEMMA LatestPush ==
  ASSUME TypeOK, NEW u \in Update \cup {RESET}, out' = Append(out, u)
  PROVE  Latest' = u
<1>1. out \in Seq(Update \cup {RESET})
  BY DEF TypeOK, LoopTypeOK
<1> QED
  BY <1>1 DEF Latest

\* Receiving the last update of the channel leaves it the latest.
LEMMA LatestRecv == TypeOK /\ Recv => Latest' = Latest
<1> SUFFICES ASSUME TypeOK, Recv PROVE Latest' = Latest
  OBVIOUS
<1>1. out \in Seq(Update \cup {RESET}) /\ out # <<>>
  BY DEF TypeOK, LoopTypeOK, Recv
<1>2. out' = Tail(out) /\ lastRecv' = Head(out)
  BY DEF Recv
<1>3. CASE Len(out) = 1
  <2>1. Len(Tail(out)) = 0 /\ Tail(out) \in Seq(Update \cup {RESET})
    BY <1>1, <1>3
  <2>2. Tail(out) = <<>>
    BY <2>1, EmptySeq
  <2>3. Head(out) = out[Len(out)]
    BY <1>1, <1>3
  <2> QED
    BY <1>1, <1>2, <2>2, <2>3, Zenon DEF Latest
<1>4. CASE Len(out) # 1
  <2>1. Len(out) \in Nat \ {0, 1} /\ Len(Tail(out)) = Len(out) - 1
    BY <1>1, <1>4
  <2>3. Tail(out) # <<>>
    <3>1. Len(Tail(out)) # 0
      BY <2>1
    <3> QED
      BY <3>1, EmptySeq
  <2>4. Tail(out)[Len(out) - 1] = out[Len(out)]
    <3> DEFINE m == Len(out)
    <3>2. m \in Nat \ {0, 1} /\ Len(Tail(out)) = m - 1
      BY <2>1
    <3> HIDE DEF m
    <3>3. m - 1 \in 1..(m - 1) /\ (m - 1) + 1 = m
      BY <3>2
    <3>1. Len(out) - 1 \in 1..Len(Tail(out)) /\ (Len(out) - 1) + 1 = Len(out)
      BY <3>2, <3>3 DEF m
    <3> QED
      BY <1>1, <3>1, HeadTailProperties
  <2>2. Tail(out) # <<>> /\ Tail(out)[Len(Tail(out))] = out[Len(out)]
    BY <2>1, <2>3, <2>4
  <2> QED
    BY <1>1, <1>2, <2>1, <2>2, Zenon DEF Latest
<1> QED
  BY <1>3, <1>4

\* The latest update is one, or a RESET, or none has been pushed yet.
LEMMA LatestType == TypeOK => Latest \in Update \cup {RESET, None}
BY DEF TypeOK, LoopTypeOK, ConsumerTypeOK, Latest

\* The guard follows every push; nothing else changes the guard or the latest.
LEMMA GuardStep == TypeOK /\ Guard /\ [Next]_vars => Guard'
<1> SUFFICES ASSUME TypeOK, Guard, [Next]_vars PROVE Guard'
  OBVIOUS
<1>1. ASSUME UNCHANGED <<guardVars, Latest>> PROVE Guard'
  BY <1>1 DEF Guard, guardVars
<1>2. ASSUME UNCHANGED <<guardVars, out, lastRecv>> PROVE Guard'
  BY <1>1, <1>2 DEF Latest
<1>3. ASSUME out' = Append(out, RESET), lastSeq' = 0, lastHash' = None PROVE Guard'
  <2>1. Latest' = RESET
    BY <1>3, LatestPush
  <2> QED
    BY <1>3, <2>1 DEF Guard
<1>4. CASE PushReconnectReset
  BY <1>2, <1>3, <1>4 DEF PushReconnectReset, consumerVars
<1>5. CASE PushUpdate
  <2> DEFINE u == Head(pend)
  <2>1. u \in Update
    BY <1>5 DEF PushUpdate, TypeOK, LoopTypeOK
  <2> HIDE DEF u
  <2>2. CASE out' = Append(out, u) /\ lastSeq' = u.seq /\ lastHash' = u
    <3>1. Latest' = u
      BY <2>1, <2>2, LatestPush
    <3>2. u # None /\ u # RESET
      BY <2>1, NoneLemma
    <3> QED
      BY <2>2, <3>1, <3>2 DEF Guard
  <2> QED
    BY <1>2, <1>3, <1>5, <2>2 DEF PushUpdate, consumerVars, u
<1>6. CASE Recv
  BY <1>1, <1>6, LatestRecv DEF Recv
<1>7. CASE UNCHANGED <<guardVars, out, lastRecv>>
  BY <1>2, <1>7
<1>8. CASE LoopTop \/ LoopSleep \/ LoopConnect \/ LoopSubscribe
  BY <1>7, <1>8 DEF LoopTop, LoopSleep, LoopConnect, LoopSubscribe, consumerVars
<1>9. CASE ReadFrame \/ ReadFails \/ Cancel \/ MissedChange \/ UNCHANGED vars
  BY <1>7, <1>9 DEF ReadFrame, ReadFails, Cancel, MissedChange, vars, consumerVars
<1> QED
  BY <1>4, <1>5, <1>6, <1>8, <1>9 DEF Next, LoopStep

\* A push that follows the latest update keeps the order.
LEMMA InOrderPush ==
  ASSUME TypeOK, InOrder, NEW u \in Update \cup {RESET}, out' = Append(out, u),
         lastRecv' = lastRecv, Latest # None => Follows(Latest, u)
  PROVE  InOrder'
<1>1. out \in Seq(Update \cup {RESET}) /\ Len(out) \in Nat /\ Len(out') = Len(out) + 1
  BY DEF TypeOK, LoopTypeOK
<1>2. \A i \in 1..Len(out) : out'[i] = out[i]
  BY <1>1
<1>3. out'[Len(out) + 1] = u
  BY <1>1
<1>4. \A i \in 1..Len(out) : out[i] # None
  BY <1>1, NoneLemma
<1>5. ASSUME NEW i \in 1..Len(out) PROVE Follows(out'[i], out'[i + 1])
  <2>1. CASE i = Len(out)
    BY <1>1, <1>2, <1>3, <1>4, <2>1 DEF Latest
  <2>2. CASE i # Len(out)
    <3>1. i \in 1..(Len(out) - 1) /\ i + 1 \in 1..Len(out)
      BY <1>1, <2>2
    <3> QED
      BY <1>2, <3>1 DEF InOrder
  <2> QED
    BY <2>1, <2>2
<1>6. ASSUME lastRecv # None PROVE Follows(lastRecv, out'[1])
  <2>1. CASE out = <<>>
    BY <1>1, <1>3, <1>6, <2>1 DEF Latest
  <2>2. CASE out # <<>>
    <3>1. 1 \in 1..Len(out)
      BY <1>1, <2>2
    <3> QED
      BY <1>2, <1>6, <2>2, <3>1 DEF InOrder
  <2> QED
    BY <2>1, <2>2
<1> QED
  BY <1>1, <1>5, <1>6 DEF InOrder

\* What the guard accepts follows what it remembers.
LEMMA AcceptFollows ==
  ASSUME TypeOK, Guard, NEW u \in Update, Accept(u.seq, u), Latest # None
  PROVE  Follows(Latest, u)
<1>1. CASE Latest = RESET
  BY <1>1 DEF Follows, RESET
<1>2. CASE Latest # RESET
  <2>1. lastSeq = Latest.seq /\ lastHash = Latest /\ Latest \in Update
    BY <1>2, LatestType DEF Guard
  <2>2. ~(u.seq < lastSeq) /\ ~(u.seq = lastSeq /\ u = lastHash)
    BY <2>1, NoneLemma DEF Accept
  <2>3. u.seq \in Nat /\ Latest.seq \in Nat
    BY <2>1 DEF Update
  <2> QED
    BY <2>1, <2>2, <2>3 DEF Follows
<1> QED
  BY <1>1, <1>2

\* No step puts the stream out of order.
LEMMA InOrderStep == TypeOK /\ Guard /\ InOrder /\ [Next]_vars => InOrder'
<1> SUFFICES ASSUME TypeOK, Guard, InOrder, [Next]_vars PROVE InOrder'
  OBVIOUS
<1>1. ASSUME UNCHANGED <<out, lastRecv>> PROVE InOrder'
  BY <1>1 DEF InOrder
<1>2. ASSUME out' = Append(out, RESET), lastRecv' = lastRecv PROVE InOrder'
  <2>1. Follows(Latest, RESET)
    BY DEF Follows, RESET
  <2> QED
    BY <1>2, <2>1, InOrderPush
<1>3. CASE PushReconnectReset
  BY <1>1, <1>2, <1>3 DEF PushReconnectReset, consumerVars
<1>4. CASE PushUpdate
  <2> DEFINE u == Head(pend)
  <2>1. u \in Update
    BY <1>4 DEF PushUpdate, TypeOK, LoopTypeOK
  <2> HIDE DEF u
  <2>2. CASE Accept(u.seq, u) /\ out' = Append(out, u) /\ lastRecv' = lastRecv
    BY <2>1, <2>2, AcceptFollows, InOrderPush
  <2> QED
    BY <1>1, <1>2, <1>4, <2>2 DEF PushUpdate, consumerVars, u
<1>5. CASE Recv
  <2>1. out \in Seq(Update \cup {RESET}) /\ out # <<>>
    BY <1>5 DEF TypeOK, LoopTypeOK, Recv
  <2>2. out' = Tail(out) /\ lastRecv' = out[1]
    BY <1>5, <2>1 DEF Recv
  <2>3. Len(out') = Len(out) - 1 /\ \A i \in 1..Len(out') : out'[i] = out[i + 1]
    BY <2>1, <2>2
  <2>4. \A i \in 1..(Len(out') - 1) : Follows(out'[i], out'[i + 1])
    <3> SUFFICES ASSUME NEW i \in 1..(Len(out') - 1) PROVE Follows(out'[i], out'[i + 1])
      OBVIOUS
    <3>1. i + 1 \in 1..(Len(out) - 1) /\ i \in 1..Len(out') /\ i + 1 \in 1..Len(out')
      BY <2>1, <2>3
    <3> QED
      BY <2>3, <3>1 DEF InOrder
  <2>5. out' # <<>> => Follows(lastRecv', out'[1])
    <3> SUFFICES ASSUME out' # <<>> PROVE Follows(lastRecv', out'[1])
      OBVIOUS
    <3>1. 1 \in 1..(Len(out) - 1) /\ 1 \in 1..Len(out')
      BY <2>1, <2>2, <2>3
    <3> QED
      BY <2>2, <2>3, <3>1 DEF InOrder
  <2> QED
    BY <2>4, <2>5 DEF InOrder
<1>6. CASE LoopTop \/ LoopSleep \/ LoopConnect \/ LoopSubscribe
  BY <1>1, <1>6 DEF LoopTop, LoopSleep, LoopConnect, LoopSubscribe, consumerVars
<1>7. CASE ReadFrame \/ ReadFails \/ Cancel \/ MissedChange \/ UNCHANGED vars
  BY <1>1, <1>7 DEF ReadFrame, ReadFails, Cancel, MissedChange, vars, consumerVars
<1> QED
  BY <1>3, <1>4, <1>5, <1>6, <1>7 DEF Next, LoopStep

\* The RESET of a reconnect is still the latest when the loop subscribes.
LEMMA AnnouncedStep == TypeOK /\ Announced /\ [Next]_vars => Announced'
<1> SUFFICES ASSUME TypeOK, Announced, [Next]_vars PROVE Announced'
  OBVIOUS
<1>1. ASSUME UNCHANGED <<loop, reconnect, Latest>> PROVE Announced'
  BY <1>1 DEF Announced
<1>2. CASE LoopTop \/ LoopSleep \/ LoopSubscribe \/ ReadFails \/ PushUpdate
  BY <1>2 DEF LoopTop, LoopSleep, LoopSubscribe, ReadFails, PushUpdate, Announced
<1>3. CASE LoopConnect
  BY <1>3 DEF LoopConnect, Announced
<1>4. CASE PushReconnectReset
  BY <1>4, LatestPush DEF PushReconnectReset, Announced
<1>5. CASE Recv
  BY <1>1, <1>5, LatestRecv DEF Recv, loopVars
<1>6. CASE ReadFrame \/ Cancel \/ MissedChange \/ UNCHANGED vars
  BY <1>1, <1>6 DEF ReadFrame, Cancel, MissedChange, vars, loopVars, consumerVars, Latest
<1> QED
  BY <1>2, <1>3, <1>4, <1>5, <1>6 DEF Next, LoopStep

\* Every way back to an attempt to connect leads through a wait.
LEMMA WaitingStep == TypeOK /\ Waiting /\ [Next]_vars => Waiting'
<1> SUFFICES ASSUME TypeOK, Waiting, [Next]_vars PROVE Waiting'
  OBVIOUS
<1>1. disconnect \in Nat /\ wait \in Nat
  BY DEF TypeOK, LoopTypeOK
<1>2. ASSUME UNCHANGED loopVars PROVE Waiting'
  BY <1>2 DEF Waiting, loopVars
<1>3. CASE LoopTop
  BY <1>1, <1>3 DEF LoopTop, Waiting
<1>4. CASE LoopSleep
  <2>1. disconnect - 1 \in Nat
    BY <1>1, <1>4 DEF LoopSleep, Waiting
  <2>2. BackoffBase(disconnect - 1) \in Nat \ {0}
    BY <2>1, BackoffLemma
  <2> QED
    BY <1>1, <1>4, <2>2 DEF LoopSleep, Waiting
<1>5. CASE LoopConnect
  BY <1>1, <1>5 DEF LoopConnect, Waiting
<1>6. CASE PushReconnectReset
  BY <1>1, <1>6 DEF PushReconnectReset, Waiting
<1>7. CASE LoopSubscribe
  BY <1>1, <1>7 DEF LoopSubscribe, Waiting
<1>8. CASE PushUpdate
  BY <1>1, <1>8 DEF PushUpdate, Waiting
<1>9. CASE ReadFails
  BY <1>1, <1>9 DEF ReadFails, Waiting
<1>10. CASE ReadFrame \/ Cancel \/ Recv \/ MissedChange \/ UNCHANGED vars
  BY <1>2, <1>10 DEF ReadFrame, Cancel, Recv, MissedChange, vars
<1> QED
  BY <1>3, <1>4, <1>5, <1>6, <1>7, <1>8, <1>9, <1>10 DEF Next, LoopStep

\* One attempt more doubles the wait, up to the longest.
LEMMA BackoffDoubles ==
  ASSUME NEW n \in Nat
  PROVE  BackoffBase(n + 1) =
           IF 2 * BackoffBase(n) > LongestWait THEN LongestWait ELSE 2 * BackoffBase(n)
<1>1. 2 ^ 0 = 1 /\ 2 ^ 1 = 2 /\ 2 ^ 2 = 4 /\ 2 ^ 3 = 8 /\ 2 ^ 4 = 16 /\ 2 ^ 5 = 32
  OBVIOUS
<1>2. MaxBackoff \in Nat \ {0}
  BY ConstantsAssumption
<1>3. CASE n = 0
  BY <1>1, <1>2, <1>3 DEF BackoffBase, LongestWait
<1>4. CASE n = 1
  BY <1>1, <1>2, <1>4 DEF BackoffBase, LongestWait
<1>5. CASE n = 2
  BY <1>1, <1>2, <1>5 DEF BackoffBase, LongestWait
<1>6. CASE n = 3
  BY <1>1, <1>2, <1>6 DEF BackoffBase, LongestWait
<1>7. CASE n = 4
  BY <1>1, <1>2, <1>7 DEF BackoffBase, LongestWait
<1>8. CASE n >= 5
  BY <1>1, <1>2, <1>8 DEF BackoffBase, LongestWait
<1> QED
  BY <1>3, <1>4, <1>5, <1>6, <1>7, <1>8

\* Every failed attempt counts, and only a read session starts over.
LEMMA EscalatingStep == TypeOK /\ Waiting /\ Escalating /\ [Next]_vars => Escalating'
<1> SUFFICES ASSUME TypeOK, Waiting, Escalating, [Next]_vars PROVE Escalating'
  OBVIOUS
<1>1. disconnect \in Nat
  BY DEF TypeOK, LoopTypeOK
<1>2. ASSUME UNCHANGED loopVars PROVE Escalating'
  BY <1>2 DEF Escalating, loopVars
<1>3. CASE LoopTop
  <2>1. UNCHANGED <<disconnect, wait>>
    BY <1>3 DEF LoopTop
  <2>2. CASE disconnect = 0
    BY <1>3, <2>1, <2>2 DEF LoopTop, Escalating
  <2>3. CASE disconnect > 0
    BY <1>3, <2>1, <2>3 DEF LoopTop, Escalating
  <2> QED
    BY <1>1, <2>2, <2>3
<1>4. CASE LoopSleep
  BY <1>1, <1>4 DEF LoopSleep, Escalating, Waiting
<1>5. ASSUME loop \in {"dial", "subscribe"}, loop' = "top",
             disconnect' = disconnect + 1, UNCHANGED wait
      PROVE  Escalating'
  <2>1. disconnect' - 2 = disconnect - 1 /\ (disconnect' < 2 <=> disconnect = 0)
    BY <1>1, <1>5
  <2> QED
    BY <1>5, <2>1 DEF Escalating
<1>6. CASE LoopConnect
  BY <1>5, <1>6 DEF LoopConnect, Escalating
<1>7. CASE PushReconnectReset
  BY <1>7 DEF PushReconnectReset, Escalating
<1>8. CASE LoopSubscribe
  BY <1>5, <1>8 DEF LoopSubscribe, Escalating
<1>9. CASE PushUpdate
  BY <1>9 DEF PushUpdate, Escalating
<1>10. CASE ReadFails
  BY <1>10 DEF ReadFails, Escalating
<1>11. CASE ReadFrame \/ Cancel \/ Recv \/ MissedChange \/ UNCHANGED vars
  BY <1>2, <1>11 DEF ReadFrame, Cancel, Recv, MissedChange, vars
<1> QED
  BY <1>3, <1>4, <1>6, <1>7, <1>8, <1>9, <1>10, <1>11 DEF Next, LoopStep

-----------------------------------------------------------------------------
(* The consumer's books                                                    *)

\* A frame tells of the books as they are, until the connection ends.
LEMMA FramesStep == TypeOK /\ Frames /\ [Next]_vars => Frames'
<1> SUFFICES ASSUME TypeOK, Frames, [Next]_vars PROVE Frames'
  OBVIOUS
<1>1. ASSUME UNCHANGED <<loop, frame, pend, version>> PROVE Frames'
  BY <1>1 DEF Frames
<1>2. ASSUME loop \notin {"read", "closed"}, loop' # "read", pend' = pend PROVE Frames'
  BY <1>2 DEF Frames
<1>3. CASE LoopTop \/ LoopSleep \/ LoopConnect \/ PushReconnectReset
  BY <1>2, <1>3 DEF LoopTop, LoopSleep, LoopConnect, PushReconnectReset
<1>4. CASE LoopSubscribe
  BY <1>4 DEF LoopSubscribe, Frames
<1>5. CASE PushUpdate
  <2>1. pend \in Seq(Update) /\ pend # <<>>
    BY <1>5 DEF PushUpdate, TypeOK, LoopTypeOK
  <2>2. \A i \in DOMAIN Tail(pend) : i + 1 \in DOMAIN pend /\ Tail(pend)[i] = pend[i + 1]
    BY <2>1
  <2>3. loop = "read" /\ UNCHANGED <<frame, version>> /\ loop' \in {"read", "closed"}
    BY <1>5 DEF PushUpdate, bookVars, wireVars
  <2>4. \A i \in DOMAIN Tail(pend) : Tail(pend)[i].ver = version[Tail(pend)[i].tok]
    BY <2>2, <2>3 DEF Frames
  <2>5. pend' \in {pend, Tail(pend)}
    BY <1>5 DEF PushUpdate
  <2> QED
    BY <2>3, <2>4, <2>5 DEF Frames
<1>6. CASE ReadFrame
  <2>1. \A i \in DOMAIN frame' : frame'[i].ver = version'[frame'[i].tok]
    <3>1. CASE SnapshotFrame
      BY <3>1, SnapshotType DEF bookVars
    <3>2. CASE DeltaFrame
      BY <3>2, DeltaType
    <3>3. CASE DuplicateFrame
      BY <1>6, <3>3 DEF DuplicateFrame, ReadFrame, bookVars, Frames
    <3> QED
      BY <1>6, <3>1, <3>2, <3>3 DEF ReadFrame
  <2>2. pend' = frame' /\ loop' = "read"
    BY <1>6 DEF ReadFrame, loopVars
  <2> QED
    BY <2>1, <2>2 DEF Frames
<1>7. CASE ReadFails
  BY <1>7 DEF ReadFails, Frames
<1>8. CASE MissedChange
  BY <1>8 DEF MissedChange, loopVars, Frames
<1>9. CASE Cancel \/ Recv \/ UNCHANGED vars
  BY <1>1, <1>9 DEF Cancel, Recv, vars, loopVars, wireVars, bookVars
<1> QED
  BY <1>3, <1>4, <1>5, <1>6, <1>7, <1>8, <1>9 DEF Next, LoopStep

\* A view of the books stays one after an update.
LEMMA AfterType ==
  ASSUME NEW V \in Views, NEW u \in Update \cup {RESET}
  PROVE  After(V, u) \in Views
<1>1. CASE u.kind = "RESET"
  BY <1>1 DEF After, Views
<1>2. CASE u.kind # "RESET"
  <2>1. u.tok \in Tokens /\ u.ver \in Nat
    BY <1>2 DEF RESET, Update
  <2> QED
    BY <1>2, <2>1 DEF After, Views
<1> QED
  BY <1>1, <1>2

\* The books that grow upstream leave a path one.
LEMMA PathStays ==
  ASSUME TypeOK, NEW P, Path(P), UNCHANGED <<out, shown, cache>>,
         \A t \in Tokens : version'[t] \in Nat /\ version[t] <= version'[t]
  PROVE  Path(P)'
<1>1. out \in Seq(Update \cup {RESET}) /\ version \in [Tokens -> Nat]
  BY DEF TypeOK, LoopTypeOK, UpstreamTypeOK
<1>2. ASSUME NEW i \in 1..Len(out) PROVE Fits(P[i - 1], out[i])'
  <2>1. Fits(P[i - 1], out[i]) /\ P[i - 1] \in Views
    BY <1>1 DEF Path
  <2>2. CASE out[i].kind = "RESET"
    BY <2>2 DEF Fits
  <2>3. CASE out[i].kind # "RESET"
    <3>1. out[i].tok \in Tokens /\ out[i].ver \in Nat
      BY <1>1, <2>3 DEF RESET, Update
    <3> QED
      BY <1>1, <2>1, <3>1 DEF Fits
  <2> QED
    BY <2>2, <2>3
<1> QED
  BY <1>2 DEF Path, Now

\* An update that fits at the end of a path extends it.
LEMMA PathPush ==
  ASSUME TypeOK, NEW P, Path(P), NEW u \in Update \cup {RESET}, out' = Append(out, u),
         UNCHANGED <<shown, cache, version>>, Fits(P[Len(out)], u)
  PROVE  \E Q : Path(Q)' /\ Q[Len(out')] = After(P[Len(out)], u)
<1>0. PICK n : n = Len(out)
  OBVIOUS
<1>1. out \in Seq(Update \cup {RESET}) /\ n \in Nat /\ Len(out') = n + 1
  BY <1>0 DEF TypeOK, LoopTypeOK
<1>2. out'[n + 1] = u /\ \A i \in 1..n : out'[i] = out[i]
  BY <1>0, <1>1
<1>3. P \in [0..n -> Views] /\ P[0] = Now /\ After(P[n], u) \in Views
  BY <1>0, <1>1, AfterType DEF Path
<1>9. PICK Q : Q = [i \in 0..(n + 1) |-> IF i = n + 1 THEN After(P[n], u) ELSE P[i]]
  OBVIOUS
<1>4. /\ Q[n + 1] = After(P[n], u)
      /\ \A i \in 0..n : Q[i] = P[i]
  BY <1>1, <1>9
<1>5. Q \in [0..(n + 1) -> Views]
  BY <1>1, <1>3, <1>9
<1>6. Q[0] = Now'
  <2>1. Now' = Now
    BY DEF Now
  <2>2. Q[0] = P[0]
    BY <1>1, <1>4
  <2> QED
    BY <1>3, <2>1, <2>2
<1>7. ASSUME NEW i \in 1..(n + 1)
      PROVE  Fits(Q[i - 1], out[i])' /\ Q[i] = After(Q[i - 1], out'[i])
  <2>1. CASE i = n + 1
    <3>1. Q[i - 1] = P[n]
      <4>1. i - 1 = n /\ n \in 0..n
        BY <1>1, <2>1
      <4> QED
        BY <1>4, <4>1
    <3>2. Fits(Q[i - 1], out[i])'
      BY <1>0, <1>2, <2>1, <3>1 DEF Fits
    <3> QED
      BY <1>2, <1>4, <2>1, <3>1, <3>2
  <2>2. CASE i # n + 1
    <3>1. i \in 1..n /\ Q[i - 1] = P[i - 1] /\ Q[i] = P[i] /\ out'[i] = out[i]
      BY <1>1, <1>2, <1>4, <2>2
    <3>2. Fits(P[i - 1], out[i]) /\ P[i] = After(P[i - 1], out[i])
      BY <1>0, <3>1 DEF Path
    <3>3. Fits(Q[i - 1], out[i])'
      BY <3>1, <3>2 DEF Fits
    <3> QED
      BY <3>1, <3>2, <3>3
  <2> QED
    BY <2>1, <2>2
<1>8. Path(Q)'
  BY <1>1, <1>5, <1>6, <1>7 DEF Path
<1> QED
  BY <1>0, <1>1, <1>4, <1>8

\* What the consumer does with the next update is what the path says of it.
LEMMA ApplyFits ==
  ASSUME TypeOK, NEW u \in Update \cup {RESET}, Now \in Views, Fits(Now, u), Apply(u)
  PROVE  Now' = After(Now, u)
<1>1. /\ shown \in [Tokens -> Nat] /\ cache \in [Tokens -> {"empty", "good", "garbled"}]
      /\ \A t \in Tokens : cache[t] \in {"empty", "good"}
      /\ \A t \in Tokens : Now[t] = [c |-> cache[t], v |-> shown[t]]
  BY DEF TypeOK, ConsumerTypeOK, Now, Views
<1>2. CASE u.kind = "RESET"
  <2>1. cache' = [t \in Tokens |-> "empty"] /\ shown' = shown
    BY <1>2 DEF Apply
  <2>2. After(Now, u) = [t \in Tokens |-> [c |-> "empty", v |-> Now[t].v]]
    BY <1>2 DEF After
  <2> QED
    BY <1>1, <2>1, <2>2 DEF Now
<1>3. CASE u.kind # "RESET"
  <2>1. u.tok \in Tokens /\ u.ver \in Nat /\ u.kind \in {"SNAPSHOT", "DELTA"}
    BY <1>3 DEF RESET, Update
  <2>4. Now[u.tok].c = cache[u.tok] /\ Now[u.tok].v = shown[u.tok]
    BY <2>1 DEF Now
  <2>2. CASE u.kind = "SNAPSHOT" \/ cache[u.tok] = "good"
    <3>1. u.kind = "SNAPSHOT" \/ (cache[u.tok] = "good" /\ u.ver \in shown[u.tok]..(shown[u.tok] + 1))
      BY <1>1, <1>3, <2>1, <2>2, <2>4 DEF Fits
    <3>2. cache' = [cache EXCEPT ![u.tok] = "good"] /\ shown' = [shown EXCEPT ![u.tok] = u.ver]
      BY <1>3, <3>1 DEF Apply
    <3>3. After(Now, u) = [Now EXCEPT ![u.tok] = [c |-> "good", v |-> u.ver]]
      BY <1>3, <2>2, <2>4 DEF After
    <3>4. /\ cache'[u.tok] = "good" /\ shown'[u.tok] = u.ver
          /\ \A t \in Tokens \ {u.tok} : cache'[t] = cache[t] /\ shown'[t] = shown[t]
      BY <1>1, <2>1, <3>2
    <3> QED
      BY <1>1, <2>1, <3>3, <3>4 DEF Now
  <2>3. CASE u.kind # "SNAPSHOT" /\ cache[u.tok] # "good"
    <3>1. cache[u.tok] = "empty"
      BY <1>1, <2>1, <2>3
    <3>3. After(Now, u) = Now
      BY <1>3, <2>3, <2>4 DEF After
    <3>4. cache' = [cache EXCEPT ![u.tok] = "empty"] /\ shown' = shown
      BY <1>3, <2>3, <3>1 DEF Apply
    <3>2. cache' = cache /\ shown' = shown
      BY <1>1, <2>1, <3>1, <3>4
    <3> QED
      BY <3>2, <3>3 DEF Now
  <2> QED
    BY <2>2, <2>3
<1> QED
  BY <1>2, <1>3

\* Receiving takes the first step of a path.
LEMMA PathRecv ==
  ASSUME TypeOK, NEW P, Path(P), Recv
  PROVE  \E Q : Path(Q)' /\ Q[Len(out')] = P[Len(out)]
<1>0. PICK n : n = Len(out)
  OBVIOUS
<1>1. out \in Seq(Update \cup {RESET}) /\ n \in Nat \ {0} /\ out' = Tail(out)
  BY <1>0 DEF TypeOK, LoopTypeOK, Recv
<1>2. Len(out') = n - 1 /\ \A i \in 1..(n - 1) : out'[i] = out[i + 1]
  BY <1>0, <1>1
<1>3. /\ P \in [0..n -> Views] /\ P[0] = Now /\ version' = version
      /\ \A i \in 1..n : Fits(P[i - 1], out[i]) /\ P[i] = After(P[i - 1], out[i])
  BY <1>0 DEF Path, Recv, bookVars
<1>4. Apply(out[1]) /\ out[1] \in Update \cup {RESET}
  BY <1>0, <1>1 DEF Recv
<1>5. Now' = P[1]
  <2>1. 1 \in 1..n /\ 0 \in 0..n /\ P[1 - 1] = P[0]
    BY <1>1
  <2>2. Fits(Now, out[1]) /\ P[1] = After(Now, out[1]) /\ Now \in Views
    BY <1>3, <2>1
  <2> QED
    BY <1>4, <2>2, ApplyFits
<1>10. PICK Q : Q = [i \in 0..(n - 1) |-> P[i + 1]]
  OBVIOUS
<1>6. /\ Q \in [0..(n - 1) -> Views]
      /\ \A i \in 0..(n - 1) : Q[i] = P[i + 1]
  BY <1>1, <1>3, <1>10
<1>7. Q[0] = Now' /\ Q[n - 1] = P[n]
  BY <1>1, <1>5, <1>6
<1>8. ASSUME NEW i \in 1..(n - 1)
      PROVE  Fits(Q[i - 1], out[i])' /\ Q[i] = After(Q[i - 1], out'[i])
  <2>1. Q[i - 1] = P[i] /\ Q[i] = P[i + 1] /\ out'[i] = out[i + 1] /\ i + 1 \in 1..n
    BY <1>1, <1>2, <1>6
  <2>2. Fits(P[i], out[i + 1]) /\ P[i + 1] = After(P[i], out[i + 1])
    BY <1>1, <1>3, <2>1
  <2>3. Fits(Q[i - 1], out[i])'
    BY <1>3, <2>1, <2>2 DEF Fits
  <2> QED
    BY <2>1, <2>2, <2>3
<1>9. Path(Q)'
  BY <1>2, <1>6, <1>7, <1>8 DEF Path
<1> QED
  BY <1>0, <1>2, <1>7, <1>9

\* The end of a path is a view.
LEMMA PathEnd ==
  ASSUME TypeOK, NEW P, Path(P)
  PROVE  /\ P[Len(out)] \in Views
         /\ \A t \in Tokens : P[Len(out)][t].c \in {"empty", "good"} /\ P[Len(out)][t].v \in Nat
<1>1. Len(out) \in Nat
  BY DEF TypeOK, LoopTypeOK
<1>2. P[Len(out)] \in Views
  BY <1>1 DEF Path
<1> QED
  BY <1>2 DEF Views

\* The loop's steps that push nothing leave the books due.
LEMMA DueLoop ==
  ASSUME TypeOK, NEW V, Due(V), UNCHANGED version,
         \/ LoopTop \/ LoopSleep \/ LoopConnect \/ LoopSubscribe \/ ReadFails
         \/ UNCHANGED <<loop, reconnect, pend>>
         \/ loop' = "closed"
  PROVE  Due(V)'
<1>1. CASE LoopTop \/ LoopSleep
  BY <1>1 DEF LoopTop, LoopSleep, Due
<1>2. CASE LoopConnect
  BY <1>2 DEF LoopConnect, Due
<1>3. CASE LoopSubscribe
  BY <1>3 DEF LoopSubscribe, Due
<1>4. CASE ReadFails
  BY <1>4 DEF ReadFails, Due
<1>5. CASE UNCHANGED <<loop, reconnect, pend>> \/ loop' = "closed"
  BY <1>5 DEF Due
<1> QED
  BY <1>1, <1>2, <1>3, <1>4, <1>5

\* Books that change upstream leave the books due: while the connection lasts,
\* the frame in hand tells of the change.
LEMMA DueChange ==
  ASSUME TypeOK, NEW P, Path(P), Due(P[Len(out)]), MissedChange \/ ReadFrame
  PROVE  Due(P[Len(out)])' /\ \A t \in Tokens : version'[t] \in Nat /\ version[t] <= version'[t]
<1>0. PICK V : V = P[Len(out)]
  OBVIOUS
<1>1. /\ version \in [Tokens -> Nat] /\ out' = out
      /\ \A t \in Tokens : V[t].c \in {"empty", "good"} /\ V[t].v \in Nat /\ V[t].v <= version[t]
  BY <1>0, PathEnd DEF TypeOK, UpstreamTypeOK, MissedChange, ReadFrame, Due
<1>2. CASE MissedChange
  <2>1. PICK t \in Tokens : version' = [version EXCEPT ![t] = @ + 1]
    BY <1>2 DEF MissedChange
  <2>2. \A s \in Tokens : version'[s] \in Nat /\ version[s] <= version'[s]
    BY <1>1, <2>1
  <2>3. loop # "read" /\ UNCHANGED <<loop, reconnect>>
    BY <1>2 DEF MissedChange, loopVars
  <2>4. \A s \in Tokens : V[s].v <= version'[s]
    BY <1>1, <2>2
  <2>5. Due(V)'
    BY <1>0, <2>3, <2>4 DEF Due
  <2> QED
    BY <1>0, <1>1, <2>2, <2>5
<1>3. CASE ReadFrame
  <2>1. loop = "read" /\ loop' = "read" /\ pend = <<>> /\ pend' = frame'
    BY <1>3 DEF ReadFrame, loopVars
  <2>2. \A t \in Tokens : V[t].c = "good" => V[t].v = version[t]
    BY <1>0, <2>1 DEF Due
  <2>3. CASE version' = version
    <3>1. Due(V)'
      BY <1>1, <2>1, <2>2, <2>3 DEF Due
    <3> QED
      BY <1>0, <1>1, <2>3, <3>1
  <2>4. CASE DeltaFrame
    <3>1. PICK T \in SUBSET Tokens :
            /\ version' = [t \in Tokens |-> IF t \in T THEN version[t] + 1 ELSE version[t]]
            /\ \A t \in T : \E i \in DOMAIN frame' : frame'[i].tok = t
      BY <2>4, DeltaType
    <3>2. \A t \in Tokens : version'[t] \in Nat /\ version[t] <= version'[t] /\ V[t].v <= version'[t]
      BY <1>1, <3>1
    <3>3. ASSUME NEW t \in Tokens, V[t].c = "good"
          PROVE  \/ V[t].v = version'[t]
                 \/ V[t].v + 1 = version'[t] /\ \E i \in DOMAIN pend' : pend'[i].tok = t
      BY <2>1, <2>2, <3>1, <3>3
    <3>4. Due(V)'
      BY <2>1, <3>2, <3>3 DEF Due
    <3> QED
      BY <1>0, <1>1, <3>2, <3>4
  <2> QED
    BY <1>3, <2>3, <2>4 DEF ReadFrame, SnapshotFrame, DuplicateFrame, bookVars
<1> QED
  BY <1>2, <1>3

\* An update of the frame in hand fits the books as they will be, and after it
\* they are due what the rest of the frame tells.
LEMMA DueAccepted ==
  ASSUME TypeOK, Frames, NEW P, Path(P), NEW V, V = P[Len(out)], Due(V),
         loop = "read", pend # <<>>, UNCHANGED <<loop, version>>, pend' = Tail(pend),
         NEW u, u = Head(pend)
  PROVE  Fits(V, u) /\ Due(After(V, u))'
<1>1. pend \in Seq(Update) /\ 1 \in DOMAIN pend /\ u = pend[1]
  BY DEF TypeOK, LoopTypeOK
<1>2. /\ u \in Update /\ u.tok \in Tokens /\ u.ver \in Nat /\ u.kind \in {"SNAPSHOT", "DELTA"}
      /\ u.ver = version[u.tok]
  <2>1. u \in Update
    BY <1>1
  <2>2. u.ver = version[u.tok]
    BY <1>1 DEF Frames
  <2> QED
    BY <2>1, <2>2 DEF Update
<1>3. /\ version \in [Tokens -> Nat] /\ V \in Views
      /\ \A t \in Tokens : V[t].c \in {"empty", "good"} /\ V[t].v \in Nat /\ V[t].v <= version[t]
  BY PathEnd DEF TypeOK, UpstreamTypeOK, Due
<1>4. ASSUME NEW t \in Tokens, V[t].c = "good"
      PROVE  \/ V[t].v = version[t]
             \/ V[t].v + 1 = version[t] /\ \E i \in DOMAIN pend : pend[i].tok = t
  BY <1>4 DEF Due
<1>5. Fits(V, u)
  BY <1>2, <1>3, <1>4 DEF Fits
<1>6. PICK W : W = After(V, u)
  OBVIOUS
<1>7. W[u.tok].c = "good" => W[u.tok].v = version[u.tok]
  BY <1>2, <1>3, <1>6 DEF After, Views
<1>8. \A t \in Tokens \ {u.tok} : W[t] = V[t]
  BY <1>2, <1>3, <1>6 DEF After, Views
<1>9. W[u.tok].v \in {V[u.tok].v, version[u.tok]}
  BY <1>2, <1>3, <1>6 DEF After, Views
<1>10. ASSUME NEW t \in Tokens, W[t].c = "good"
       PROVE  \/ W[t].v = version[t]
              \/ W[t].v + 1 = version[t] /\ \E i \in DOMAIN pend' : pend'[i].tok = t
  <2>1. CASE t = u.tok
    BY <1>7, <1>10, <2>1
  <2>2. CASE t # u.tok
    <3>1. ASSUME NEW i \in DOMAIN pend, pend[i].tok = t
          PROVE  \E j \in DOMAIN pend' : pend'[j].tok = t
      <4>1. i \in 1..Len(pend) /\ i # 1
        BY <1>1, <2>2, <3>1
      <4>2. i - 1 \in DOMAIN pend' /\ pend'[i - 1] = pend[i]
        BY <1>1, <4>1
      <4> QED
        BY <3>1, <4>2
    <3> QED
      BY <1>4, <1>8, <1>10, <2>2, <3>1
  <2> QED
    BY <2>1, <2>2
<1>11. \A t \in Tokens : W[t].v <= version[t]
  BY <1>2, <1>3, <1>8, <1>9
<1>12. Due(W)'
  BY <1>10, <1>11 DEF Due
<1>13. Due(After(V, u))'
  BY <1>6, <1>12 DEF After
<1> QED
  BY <1>5, <1>13

\* After a RESET there is no book, which is due at any time.
LEMMA DueReset ==
  ASSUME NEW V, Due(V), UNCHANGED version
  PROVE  Due(After(V, RESET))'
<1>1. After(V, RESET) = [t \in Tokens |-> [c |-> "empty", v |-> V[t].v]]
  BY DEF After, RESET
<1>2. PICK W : W = [t \in Tokens |-> [c |-> "empty", v |-> V[t].v]]
  OBVIOUS
<1>3. \A t \in Tokens : W[t].c = "empty" /\ W[t].v <= version[t]
  BY <1>2 DEF Due
<1>4. Due(W)'
  BY <1>3 DEF Due
<1>5. After(V, RESET)' = W
  BY <1>1, <1>2 DEF After, RESET
<1> QED
  BY <1>4, <1>5

\* Every step keeps the books that the channel leads to true.
LEMMA BooksStep == TypeOK /\ Frames /\ Books /\ [Next]_vars => Books'
<1> SUFFICES ASSUME TypeOK, Frames, Books, [Next]_vars PROVE Books'
  OBVIOUS
<1>1. PICK P : Path(P) /\ Due(P[Len(out)])
  BY DEF Books
<1>2. PICK V : V = P[Len(out)]
  OBVIOUS
<1>3. version \in [Tokens -> Nat]
  BY DEF TypeOK, UpstreamTypeOK
<1>4. ASSUME UNCHANGED <<out, shown, cache, version>>, Due(V)' PROVE Books'
  <2>1. \A t \in Tokens : version'[t] \in Nat /\ version[t] <= version'[t]
    BY <1>3, <1>4
  <2>2. Path(P)'
    BY <1>1, <1>4, <2>1, PathStays
  <2>3. V = P[Len(out')]
    BY <1>2, <1>4
  <2> QED
    BY <1>4, <2>2, <2>3 DEF Books
<1>5. ASSUME NEW u \in Update \cup {RESET}, out' = Append(out, u), UNCHANGED <<shown, cache, version>>,
             Fits(V, u), Due(After(V, u))'
      PROVE  Books'
  <2>1. PICK Q : Path(Q)' /\ Q[Len(out')] = After(V, u)
    BY <1>1, <1>2, <1>5, PathPush
  <2>2. After(V, u)' = After(V, u)
    BY DEF After
  <2> QED
    BY <1>5, <2>1, <2>2 DEF Books
<1>6. ASSUME out' = Append(out, RESET), UNCHANGED <<shown, cache, version>> PROVE Books'
  <2>1. Due(After(V, RESET))'
    BY <1>1, <1>2, <1>6, DueReset
  <2>2. Fits(V, RESET)
    BY DEF Fits, RESET
  <2>3. PICK r \in Update \cup {RESET} : r = RESET
    OBVIOUS
  <2>4. Due(After(V, r))'
    BY <2>1, <2>3 DEF After, RESET
  <2> QED
    BY <1>5, <1>6, <2>2, <2>3, <2>4
<1>7. CASE LoopTop \/ LoopSleep \/ LoopConnect \/ LoopSubscribe \/ ReadFails
  <2>1. UNCHANGED <<out, shown, cache, version>>
    BY <1>7 DEF LoopTop, LoopSleep, LoopConnect, LoopSubscribe, ReadFails, consumerVars, bookVars
  <2>2. Due(V)'
    BY <1>1, <1>2, <1>7, <2>1, DueLoop
  <2> QED
    BY <1>4, <2>1, <2>2
<1>8. CASE Cancel \/ UNCHANGED vars
  <2>1. UNCHANGED <<out, shown, cache, version, loop, reconnect, pend>>
    BY <1>8 DEF Cancel, vars, consumerVars, bookVars, loopVars
  <2>2. Due(V)'
    BY <1>1, <1>2, <2>1, DueLoop
  <2> QED
    BY <1>4, <2>1, <2>2
<1>9. CASE PushReconnectReset
  <2>1. CASE out' = Append(out, RESET)
    BY <1>6, <1>9, <2>1 DEF PushReconnectReset, consumerVars, bookVars
  <2>2. CASE out' = out /\ loop' = "closed"
    <3>1. Due(V)'
      BY <1>1, <1>2, <1>9, <2>2, DueLoop DEF PushReconnectReset, bookVars
    <3> QED
      BY <1>4, <1>9, <2>2, <3>1 DEF PushReconnectReset, consumerVars, bookVars
  <2> QED
    BY <1>9, <2>1, <2>2 DEF PushReconnectReset
<1>10. CASE PushUpdate
  <2>1. UNCHANGED <<shown, cache, version>> /\ loop = "read" /\ pend # <<>>
    BY <1>10 DEF PushUpdate, consumerVars, bookVars
  <2>2. CASE out' = out /\ loop' = "closed"
    <3>1. Due(V)'
      BY <1>1, <1>2, <2>1, <2>2, DueLoop
    <3> QED
      BY <1>4, <2>1, <2>2, <3>1
  <2>3. CASE out' = Append(out, Head(pend)) /\ pend' = Tail(pend) /\ loop' = loop
    <3>1. PICK u : u = Head(pend)
      OBVIOUS
    <3>2. u \in Update
      BY <2>1, <3>1 DEF TypeOK, LoopTypeOK
    <3>3. Fits(V, u) /\ Due(After(V, u))'
      BY <1>1, <1>2, <2>1, <2>3, <3>1, DueAccepted
    <3> QED
      BY <1>5, <2>1, <2>3, <3>1, <3>2, <3>3
  <2> QED
    BY <1>6, <1>10, <2>1, <2>2, <2>3 DEF PushUpdate
<1>11. CASE ReadFrame \/ MissedChange
  <2>1. Due(P[Len(out)])' /\ \A t \in Tokens : version'[t] \in Nat /\ version[t] <= version'[t]
    BY <1>1, <1>11, DueChange
  <2>2. UNCHANGED <<out, shown, cache>>
    BY <1>11 DEF ReadFrame, MissedChange, consumerVars
  <2>3. Path(P)'
    BY <1>1, <2>1, <2>2, PathStays
  <2> QED
    BY <2>1, <2>3 DEF Books
<1>12. CASE Recv
  <2>1. PICK Q : Path(Q)' /\ Q[Len(out')] = V
    BY <1>1, <1>2, <1>12, PathRecv
  <2>2. UNCHANGED <<loop, reconnect, pend, version>>
    BY <1>12 DEF Recv, loopVars, bookVars
  <2>3. Due(V)'
    BY <1>1, <1>2, <2>2, DueLoop
  <2> QED
    BY <2>1, <2>3 DEF Books
<1> QED
  BY <1>7, <1>8, <1>9, <1>10, <1>11, <1>12 DEF Next, LoopStep

-----------------------------------------------------------------------------
(* The invariant                                                           *)

\* The channel is empty at the start, and the consumer has no book.
LEMMA BooksInit == Init => Books
<1> SUFFICES ASSUME Init PROVE Books
  OBVIOUS
<1>1. PICK P : P = [i \in 0..0 |-> Now]
  OBVIOUS
<1>2. Now \in Views /\ \A t \in Tokens : Now[t] = [c |-> "empty", v |-> 0]
  BY DEF Init, Now, Views
<1>3. Len(out) = 0 /\ P[0] = Now /\ P \in [0..Len(out) -> Views]
  BY <1>1, <1>2 DEF Init
<1>4. Path(P)
  BY <1>3 DEF Path
<1>5. Due(P[Len(out)])
  BY <1>2, <1>3 DEF Due, Init
<1> QED
  BY <1>4, <1>5 DEF Books

\* IInv holds in every state.
LEMMA Invariance == Spec => []IInv
<1>1. Init => IInv
  <2> SUFFICES ASSUME Init PROVE IInv
    OBVIOUS
  <2>1. TypeOK /\ Books
    BY TypeInit, BooksInit
  <2>2. out = <<>> /\ Latest = None
    BY DEF Init, Latest
  <2>3. Guard
    BY <2>2 DEF Guard, Init
  <2>4. InOrder
    BY <2>2 DEF InOrder, Init
  <2>5. Announced /\ Waiting /\ Escalating /\ Frames
    BY DEF Init, Announced, Waiting, Escalating, Frames
  <2> QED
    BY <2>1, <2>3, <2>4, <2>5 DEF IInv
<1>2. IInv /\ [Next]_vars => IInv'
  BY TypeStep, GuardStep, InOrderStep, AnnouncedStep, WaitingStep, EscalatingStep,
     FramesStep, BooksStep DEF IInv
<1> QED
  BY <1>1, <1>2, PTL DEF Spec

-----------------------------------------------------------------------------
(* The theorems                                                            *)

\* Every variable keeps its type (runBookLoop, readBookFrames, seqGuard).
THEOREM TypeCorrect == Spec => []TypeOK
<1>1. IInv => TypeOK
  BY DEF IInv
<1> QED
  BY <1>1, Invariance, PTL

\* Between two RESETs, Sequence never goes back and no update follows itself,
\* whatever the upstream sends (types.go:49-51, client.go:843-846).
THEOREM OrderedStream == Spec => []StreamOrdered
<1>1. IInv => StreamOrdered
  <2> SUFFICES ASSUME IInv, NEW i \in 1..(Len(Stream) - 1)
               PROVE  Follows(Stream[i], Stream[i + 1])
    BY DEF StreamOrdered, Follows
  <2>1. out \in Seq(Update \cup {RESET}) /\ InOrder
    BY DEF IInv, TypeOK, LoopTypeOK
  <2>2. CASE lastRecv = None
    <3>1. Stream = out
      BY <2>1, <2>2 DEF Stream
    <3> QED
      BY <2>1, <3>1 DEF InOrder
  <2>3. CASE lastRecv # None
    <3>1. Stream = <<lastRecv>> \o out
      BY <2>3 DEF Stream
    <3>2. Len(Stream) = Len(out) + 1 /\ Len(out) \in Nat /\ Stream[1] = lastRecv
      BY <2>1, <3>1
    <3>3. \A j \in 1..Len(out) : Stream[j + 1] = out[j]
      BY <2>1, <3>1
    <3>4. CASE i = 1
      <4>1. out # <<>> /\ Stream[i + 1] = out[1]
        BY <2>1, <3>2, <3>3, <3>4
      <4> QED
        BY <2>1, <2>3, <3>2, <3>4, <4>1 DEF InOrder
    <3>5. CASE i # 1
      <4>1. PICK j \in 1..(Len(out) - 1) : i = j + 1
        BY <3>2, <3>5
      <4>2. Stream[i] = out[j] /\ Stream[i + 1] = out[j + 1] /\ Follows(out[j], out[j + 1])
        BY <2>1, <3>2, <3>3, <4>1 DEF InOrder
      <4> QED
        BY <4>2
    <3> QED
      BY <3>4, <3>5
  <2> QED
    BY <2>2, <2>3
<1> QED
  BY <1>1, Invariance, PTL

\* Nothing of a new connection reaches the consumer before the RESET that
\* announces it (doc.go, types.go:38).
THEOREM ReconnectsAnnounced == Spec => []ReconnectAnnounced
<1>1. IInv => ReconnectAnnounced
  <2> SUFFICES ASSUME IInv, loop = "subscribe", reconnect
               PROVE  Stream # <<>> /\ Stream[Len(Stream)] = RESET
    BY DEF ReconnectAnnounced
  <2>1. out \in Seq(Update \cup {RESET}) /\ Latest = RESET
    BY DEF IInv, TypeOK, LoopTypeOK, Announced
  <2>2. CASE out = <<>>
    <3>1. lastRecv = RESET
      BY <2>1, <2>2 DEF Latest
    <3>2. Stream = <<RESET>>
      BY <2>2, <3>1, NoneLemma DEF Stream
    <3> QED
      BY <3>2
  <2>3. CASE out # <<>>
    <3>1. out[Len(out)] = RESET /\ Len(out) \in Nat \ {0}
      BY <2>1, <2>3 DEF Latest
    <3>2. CASE lastRecv = None
      <4>1. Stream = out
        BY <2>1, <3>2 DEF Stream
      <4> QED
        BY <2>3, <3>1, <4>1
    <3>3. CASE lastRecv # None
      <4>1. Stream = <<lastRecv>> \o out
        BY <3>3 DEF Stream
      <4>2. Len(Stream) = Len(out) + 1 /\ Stream[Len(out) + 1] = out[Len(out)]
        BY <2>1, <3>1, <4>1
      <4> QED
        BY <3>1, <4>2
    <3> QED
      BY <3>2, <3>3
  <2> QED
    BY <2>2, <2>3
<1> QED
  BY <1>1, Invariance, PTL

\* No attempt to connect but the very first goes without a wait, whatever limit
\* the waits have (client.go:208-226).
THEOREM EveryRetryWaited == Spec => []FirstOrWaited
<1>1. IInv => FirstOrWaited
  BY DEF IInv, TypeOK, LoopTypeOK, Waiting, FirstOrWaited
<1> QED
  BY <1>1, Invariance, PTL

\* Waits double up to the longest one, whatever the limit, and start over only
\* after a read session (client.go:220-246, 637-643).
THEOREM WaitsEscalate == Spec => BackoffEscalates
<1>1. ASSUME IInv, [Next]_vars
      PROVE  /\ loop = "sleep" /\ loop' = "dial" =>
                  wait' = (IF wait = 0 THEN 1
                           ELSE IF 2 * wait > LongestWait THEN LongestWait ELSE 2 * wait)
             /\ loop # "sleep" /\ wait' # wait => loop = "read" /\ wait' = 0
  <2>1. disconnect \in Nat
    BY <1>1 DEF IInv, TypeOK, LoopTypeOK
  <2>2. ASSUME UNCHANGED loopVars
        PROVE  UNCHANGED <<loop, wait>>
    BY <2>2 DEF loopVars
  <2>3. CASE LoopSleep
    <3>1. CASE loop' = "dial"
      <4>1. wait' = BackoffBase(disconnect - 1) /\ disconnect > 0 /\ loop = "sleep"
        BY <1>1, <2>3, <3>1 DEF LoopSleep, IInv, Waiting
      <4>2. CASE disconnect = 1
        <5>1. wait = 0
          BY <1>1, <4>1, <4>2 DEF IInv, Escalating
        <5>2. BackoffBase(0) = 1
          <6>1. 2 ^ 0 = 1
            OBVIOUS
          <6> QED
            BY <6>1, ConstantsAssumption DEF BackoffBase
        <5> QED
          BY <4>1, <4>2, <5>1, <5>2
      <4>3. CASE disconnect # 1
        <5> DEFINE n == disconnect - 2
        <5>1. n \in Nat /\ n + 1 = disconnect - 1
          BY <2>1, <4>1, <4>3
        <5>2. wait = BackoffBase(n)
          BY <1>1, <2>1, <4>1, <4>3 DEF IInv, Escalating
        <5> HIDE DEF n
        <5>3. wait # 0
          BY <5>1, <5>2, BackoffLemma
        <5>4. BackoffBase(n + 1) =
                IF 2 * BackoffBase(n) > LongestWait THEN LongestWait ELSE 2 * BackoffBase(n)
          BY <5>1, BackoffDoubles
        <5> QED
          BY <4>1, <5>1, <5>2, <5>3, <5>4
      <4> QED
        BY <4>2, <4>3
    <3>2. CASE loop' # "dial"
      BY <2>3, <3>2 DEF LoopSleep
    <3> QED
      BY <3>1, <3>2
  <2>4. CASE \/ LoopTop \/ LoopConnect \/ PushReconnectReset \/ LoopSubscribe
             \/ PushUpdate
    BY <2>4 DEF LoopTop, LoopConnect, PushReconnectReset, LoopSubscribe, PushUpdate
  <2>5. CASE ReadFails
    BY <2>5 DEF ReadFails
  <2>6. CASE ReadFrame \/ Cancel \/ Recv \/ MissedChange \/ UNCHANGED vars
    <3>1. UNCHANGED <<loop, wait>>
      BY <2>2, <2>6 DEF ReadFrame, Cancel, Recv, MissedChange, vars
    <3> QED
      BY <3>1
  <2> QED
    BY <1>1, <2>3, <2>4, <2>5, <2>6 DEF Next, LoopStep
<1> QED
  BY <1>1, Invariance, PTL DEF Spec, BackoffEscalates

\* What the consumer makes of an update is what BookFeed allows: it never holds
\* a book that never was, and never goes back in time.
LEMMA RecvFeed == IInv /\ Recv => Feed!Next \/ UNCHANGED Feed!vars
<1> SUFFICES ASSUME IInv, Recv PROVE Feed!Next \/ UNCHANGED Feed!vars
  OBVIOUS
<1>1. PICK u : u = Head(out)
  OBVIOUS
<1>2. u \in Update \cup {RESET} /\ Apply(u) /\ version' = version
  BY <1>1 DEF IInv, TypeOK, LoopTypeOK, Recv, bookVars
<1>3. PICK P : Path(P)
  BY DEF IInv, Books
<1>4. Fits(Now, u) /\ Now \in Views
  <2>1. out \in Seq(Update \cup {RESET}) /\ 1 \in 1..Len(out) /\ u = out[1]
    BY <1>1 DEF IInv, TypeOK, LoopTypeOK, Recv
  <2>2. P[1 - 1] = Now /\ P[0] \in Views
    BY <1>3, <2>1 DEF Path
  <2> QED
    BY <1>3, <2>1, <2>2 DEF Path
<1>5. /\ shown \in [Tokens -> Nat] /\ version \in [Tokens -> Nat]
      /\ cache \in [Tokens -> {"empty", "good"}]
  <2>1. cache \in [Tokens -> {"empty", "good", "garbled"}]
    BY DEF IInv, TypeOK, ConsumerTypeOK
  <2>2. \A t \in Tokens : cache[t] \in {"empty", "good"}
    BY <1>4 DEF Now, Views
  <2> QED
    BY <2>1, <2>2 DEF IInv, TypeOK, ConsumerTypeOK, UpstreamTypeOK
<1>6. CASE u.kind = "RESET"
  <2>1. Feed!Reset
    BY <1>2, <1>6 DEF Apply, Feed!Reset
  <2> QED
    BY <2>1 DEF Feed!Next
<1>7. CASE u.kind # "RESET"
  <2>1. u.tok \in Tokens /\ u.ver \in Nat /\ u.kind \in {"SNAPSHOT", "DELTA"}
    BY <1>2, <1>7 DEF RESET, Update
  <2>2. Now[u.tok].c = cache[u.tok] /\ Now[u.tok].v = shown[u.tok]
    BY <2>1 DEF Now
  <2>3. /\ shown[u.tok] <= u.ver /\ u.ver <= version[u.tok]
        /\ u.kind = "DELTA" /\ cache[u.tok] = "good" => u.ver <= shown[u.tok] + 1
    BY <1>4, <1>7, <2>2 DEF Fits
  <2>4. CASE u.kind = "SNAPSHOT"
    <3>1. /\ cache' = [cache EXCEPT ![u.tok] = "good"]
          /\ shown' = [shown EXCEPT ![u.tok] = u.ver]
      BY <1>2, <2>4 DEF Apply
    <3>2. u.ver \in shown[u.tok]..version[u.tok]
      BY <1>5, <2>1, <2>3
    <3>3. Feed!Snapshot(u.tok)
      BY <1>2, <3>1, <3>2 DEF Feed!Snapshot
    <3> QED
      BY <2>1, <3>3 DEF Feed!Next
  <2>5. CASE u.kind = "DELTA" /\ cache[u.tok] = "good"
    <3>1. u.ver \in shown[u.tok]..(shown[u.tok] + 1)
      BY <1>5, <2>1, <2>3, <2>5
    <3>2. /\ cache' = [cache EXCEPT ![u.tok] = "good"]
          /\ shown' = [shown EXCEPT ![u.tok] = u.ver]
      BY <1>2, <2>5, <3>1 DEF Apply
    <3>3. cache' = cache
      BY <1>5, <2>1, <2>5, <3>2
    <3>4. CASE u.ver = shown[u.tok]
      <4>1. shown' = shown
        BY <1>5, <2>1, <3>2, <3>4
      <4> QED
        BY <1>2, <3>3, <4>1 DEF Feed!vars
    <3>5. CASE u.ver = shown[u.tok] + 1
      <4>1. shown[u.tok] < version[u.tok] /\ shown' = [shown EXCEPT ![u.tok] = @ + 1]
        BY <1>5, <2>1, <2>3, <3>2, <3>5
      <4>2. Feed!Delta(u.tok)
        BY <1>2, <2>5, <3>3, <4>1 DEF Feed!Delta
      <4> QED
        BY <2>1, <4>2 DEF Feed!Next
    <3> QED
      BY <1>5, <2>1, <3>1, <3>4, <3>5
  <2>6. CASE u.kind = "DELTA" /\ cache[u.tok] # "good"
    <3>1. cache[u.tok] = "empty"
      BY <1>5, <2>1, <2>6
    <3>2. cache' = [cache EXCEPT ![u.tok] = "empty"] /\ shown' = shown
      BY <1>2, <2>6, <3>1 DEF Apply
    <3>3. cache' = cache
      BY <1>5, <2>1, <3>1, <3>2
    <3> QED
      BY <1>2, <3>2, <3>3 DEF Feed!vars
  <2> QED
    BY <2>1, <2>4, <2>5, <2>6
<1> QED
  BY <1>6, <1>7

\* Books change upstream as they please.
LEMMA ChangeFeed ==
  TypeOK /\ (MissedChange \/ ReadFrame) => Feed!Next \/ UNCHANGED Feed!vars
<1> SUFFICES ASSUME TypeOK, MissedChange \/ ReadFrame
             PROVE  Feed!Next \/ UNCHANGED Feed!vars
  OBVIOUS
<1>1. UNCHANGED <<shown, cache>> /\ version \in [Tokens -> Nat]
  BY DEF MissedChange, ReadFrame, consumerVars, TypeOK, UpstreamTypeOK
<1>2. ASSUME NEW T \in SUBSET Tokens,
             version' = [t \in Tokens |-> IF t \in T THEN version[t] + 1 ELSE version[t]]
      PROVE  Feed!Next
  BY <1>1, <1>2 DEF Feed!Change, Feed!Next
<1>3. CASE MissedChange
  <2>1. PICK t \in Tokens : version' = [version EXCEPT ![t] = @ + 1]
    BY <1>3 DEF MissedChange
  <2>2. version' = [s \in Tokens |-> IF s \in {t} THEN version[s] + 1 ELSE version[s]]
    BY <1>1, <2>1
  <2> QED
    BY <1>2, <2>2
<1>4. CASE DeltaFrame
  <2>1. PICK T \in SUBSET Tokens :
          version' = [t \in Tokens |-> IF t \in T THEN version[t] + 1 ELSE version[t]]
    BY <1>4, DeltaType
  <2> QED
    BY <1>2, <2>1
<1>5. CASE SnapshotFrame \/ DuplicateFrame
  BY <1>1, <1>5 DEF SnapshotFrame, DuplicateFrame, bookVars, Feed!vars
<1> QED
  BY <1>3, <1>4, <1>5 DEF ReadFrame

\* SubscribeBook keeps its promise: whatever breaks, however the upstream
\* repeats or reorders its updates, and however full the channel is, the
\* consumer's books are those of BookFeed (types.go:31-40).
THEOREM FeedCorrect == Spec => FeedSpec
<1>1. Init => Feed!Init
  BY DEF Init, Feed!Init
<1>2. IInv /\ [Next]_vars => [Feed!Next]_Feed!vars
  <2> SUFFICES ASSUME IInv, [Next]_vars PROVE Feed!Next \/ UNCHANGED Feed!vars
    OBVIOUS
  <2>1. CASE Recv
    BY <2>1, RecvFeed
  <2>2. CASE MissedChange \/ ReadFrame
    BY <2>2, ChangeFeed DEF IInv
  <2>3. CASE LoopStep
    BY <2>3 DEF LoopStep, LoopTop, LoopSleep, LoopConnect, PushReconnectReset, LoopSubscribe,
                PushUpdate, consumerVars, bookVars, Feed!vars
  <2>4. CASE ReadFails \/ Cancel \/ UNCHANGED vars
    BY <2>4 DEF ReadFails, Cancel, vars, consumerVars, bookVars, Feed!vars
  <2> QED
    BY <2>1, <2>2, <2>3, <2>4 DEF Next
<1> QED
  BY <1>1, <1>2, Invariance, PTL DEF Spec, FeedSpec, Feed!Spec
=============================================================================
