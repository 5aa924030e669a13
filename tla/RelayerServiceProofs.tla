------------------------ MODULE RelayerServiceProofs ------------------------
(***************************************************************************)
(* Proofs about RelayerService, for any number of calls, polls and changes *)
(* of a hash: its type invariant, that what a call returns is true, that a *)
(* call which overlaps nothing signs the right nonce, and that it          *)
(* implements SafePromise.                                                 *)
(***************************************************************************)
EXTENDS RelayerService, TLAPS

(* The inductive invariant.                                                *)

\* A call has a result when it is done, polls left while it polls, and an
\* answer only while it waits for one.
Progress ==
  \A c \in Calls :
    /\ pc[c] # "done" => result[c] = "none"
    /\ pc[c] \in {"idle", "ask", "submit"} => polls[c] = 0
    /\ pc[c] \in {"wait", "poll"} => polls[c] < MaxPolls
    /\ pc[c] \notin Asking => answer[c] = None

\* A transaction exists once its submission has arrived, which it has before
\* the polling.
Submission ==
  \A c \in Calls :
    /\ pc[c] \in {"idle", "ask"} => ~sent[c] /\ tx[c].state = "none"
    /\ pc[c] \in {"wait", "poll"} => ~sent[c] /\ tx[c].state # "none"
    /\ sent[c] => tx[c].state = "none"
    /\ tx[c].state # "none" => tx[c].nonce = nonce[c]

\* An answer that a call acts on for good is still true when it does.
Answers ==
  \A c \in Calls : answer[c] # None =>
    /\ pc[c] = "ask" /\ answer[c].deployed => deployed
    /\ pc[c] = "submit" =>
         /\ ~sent[c]
         /\ answer[c].status \in Success => tx[c].state # "none"
         /\ answer[c].status = "refused" => tx[c].state = "none"
    /\ pc[c] = "poll" /\ answer[c].state \in Final =>
         tx[c].state = answer[c].state /\ tx[c].hash = answer[c].hash

\* A deployment is mined when the Safe is there.
Deployment ==
  \A c \in Deploys : tx[c].state \in {"MINED", "CONFIRMED"} => deployed

\* While a call is alone, nobody else can move the Safe's nonce, so that the one
\* it was told remains good; without one it has signed 0.
Undisturbed ==
  \A c \in Calls : alone[c] /\ pc[c] \in Busy =>
    /\ \A d \in Calls \ {c} :
         pc[d] \notin Busy /\ ~sent[d] /\ tx[d].state \notin Pending
    /\ pc[c] = "ask" /\ answer[c] # None =>
         /\ answer[c].status = "ok" => answer[c].nonce = safeNonce
         /\ answer[c].status = "bare" => answer[c].nonce = 0
    /\ c \notin Deploys /\ pc[c] # "ask" /\ tx[c].state \in {"none", "NEW", "EXECUTED"}
         => nonce[c] = IF blind[c] THEN 0 ELSE safeNonce

Inv == /\ TypeOK
       /\ Progress
       /\ Submission
       /\ Answers
       /\ Deployment
       /\ Undisturbed
       /\ OutcomeTrue

-----------------------------------------------------------------------------
(* The actions                                                             *)

\* The invariant holds at the start.
LEMMA InitInv == Init => Inv
BY ConstantsAssumption
   DEF Init, Inv, TypeOK, CallTypeOK, NetTypeOK, ServerTypeOK, Progress,
       Submission, Answers, Deployment, Undisturbed, OutcomeTrue, TxState,
       Pending, Final, Result, WithoutID, WithID, Asking, Busy

\* A call starts.
LEMMA StartPreserves ==
  ASSUME Inv, NEW c \in Calls, Start(c)
  PROVE  Inv'
<1>1. CallTypeOK'
  BY DEF Inv, TypeOK, CallTypeOK, Asking, Busy, Start, Quiet
<1>2. NetTypeOK'
  BY DEF Inv, TypeOK, NetTypeOK, Start
<1>3. ServerTypeOK'
  BY DEF Inv, TypeOK, ServerTypeOK, serverVars, Start
<1>4. Progress'
  BY DEF Inv, TypeOK, Asking, Start, Progress
<1>5. Submission'
  BY DEF Inv, TypeOK, serverVars, Start, Submission
<1>6. Answers'
  BY DEF Inv, TypeOK, Asking, serverVars, Start, Progress, Answers
<1>7. Deployment'
  BY DEF Inv, TypeOK, serverVars, Start, Deployment
<1>8. Undisturbed'
  BY DEF Inv, TypeOK, NetTypeOK, Asking, Busy, serverVars, Start, Quiet,
     Submission, Undisturbed, Progress
<1>9. OutcomeTrue'
  BY DEF Inv, TypeOK, serverVars, Start, OutcomeTrue
<1>10. QED
  BY <1>1, <1>2, <1>3, <1>4, <1>5, <1>6, <1>7, <1>8, <1>9 DEF Inv, TypeOK

\* A ctx is done.
LEMMA CancelPreserves ==
  ASSUME Inv, NEW c \in Calls, Cancel(c)
  PROVE  Inv'
<1>1. CallTypeOK'
  BY DEF Inv, TypeOK, CallTypeOK, Cancel
<1>2. NetTypeOK'
  BY DEF Inv, TypeOK, NetTypeOK, Cancel
<1>3. ServerTypeOK'
  BY DEF Inv, TypeOK, ServerTypeOK, serverVars, Cancel
<1>4. Progress'
  BY DEF Inv, TypeOK, Cancel, Progress
<1>5. Submission'
  BY DEF Inv, TypeOK, serverVars, Cancel, Submission
<1>6. Answers'
  BY DEF Inv, TypeOK, serverVars, Cancel, Answers
<1>7. Deployment'
  BY DEF Inv, TypeOK, serverVars, Cancel, Deployment
<1>8. Undisturbed'
  BY DEF Inv, TypeOK, serverVars, Cancel, Undisturbed
<1>9. OutcomeTrue'
  BY DEF Inv, TypeOK, serverVars, Cancel, OutcomeTrue
<1>10. QED
  BY <1>1, <1>2, <1>3, <1>4, <1>5, <1>6, <1>7, <1>8, <1>9 DEF Inv, TypeOK

\* A call signs and submits, or gives up.
LEMMA TakeAskPreserves ==
  ASSUME Inv, NEW c \in Calls, TakeAsk(c)
  PROVE  Inv'
<1>1. /\ pc[c] = "ask" /\ answer[c] \in Answer \ {None}
      /\ pc' = [pc EXCEPT ![c] = pc'[c]]
      /\ result' = [result EXCEPT ![c] = result'[c]]
      /\ nonce' = [nonce EXCEPT ![c] = nonce'[c]]
      /\ sent' = [sent EXCEPT ![c] = sent'[c]]
      /\ blind' = [blind EXCEPT ![c] = blind'[c]]
      /\ \/ /\ pc'[c] = "submit" /\ result'[c] = result[c]
            /\ answer[c].status \in Success /\ nonce'[c] \in Nat /\ sent'[c] = TRUE
            /\ blind'[c] \in BOOLEAN
            /\ c \notin Deploys => /\ nonce'[c] = answer[c].nonce
                                   /\ alone[c] => (blind'[c] <=> answer[c].status = "bare")
         \/ /\ pc'[c] = "done" /\ result'[c] \in {"already", "error"}
            /\ nonce'[c] = nonce[c] /\ sent'[c] = sent[c] /\ blind'[c] = blind[c]
            /\ result'[c] = "already" => answer[c].deployed
  <2>1. /\ pc \in [Calls -> {"idle", "done"} \cup Busy] /\ result \in [Calls -> Result]
        /\ nonce \in [Calls -> Nat] /\ sent \in [Calls -> BOOLEAN]
        /\ blind \in [Calls -> BOOLEAN] /\ alone \in [Calls -> BOOLEAN]
        /\ pc[c] = "ask" /\ answer[c] \in Answer \ {None} /\ answer[c].nonce \in Nat
    BY DEF Inv, TypeOK, CallTypeOK, NetTypeOK, TakeAsk, Answer
  <2>2. CASE /\ answer[c].status \in Success /\ ~(c \in Deploys /\ answer[c].deployed)
             /\ pc' = [pc EXCEPT ![c] = "submit"]
             /\ sent' = [sent EXCEPT ![c] = TRUE]
             /\ UNCHANGED result
             /\ IF c \in Deploys THEN UNCHANGED <<nonce, blind>>
                ELSE /\ nonce' = [nonce EXCEPT ![c] = answer[c].nonce]
                     /\ blind' = [blind EXCEPT ![c] = alone[c] /\ answer[c].status = "bare"]
    <3>1. CASE c \in Deploys
      BY <2>1, <2>2, <3>1
    <3>2. CASE c \notin Deploys
      <4>1. /\ blind' = [blind EXCEPT ![c] = blind'[c]] /\ blind'[c] \in BOOLEAN
            /\ alone[c] => (blind'[c] <=> answer[c].status = "bare")
        BY <2>1, <2>2, <3>2
      <4>2. QED
        BY <2>1, <2>2, <3>2, <4>1
    <3>3. QED
      BY <3>1, <3>2
  <2>3. CASE UNCHANGED <<nonce, blind, sent>> /\ \E r \in {"already", "error"} :
               Return(c, r) /\ (r = "already" => answer[c].deployed)
    BY <2>1, <2>3 DEF Return
  <2>4. QED
    BY <2>2, <2>3 DEF TakeAsk
<1>2. /\ answer' = [answer EXCEPT ![c] = None]
      /\ UNCHANGED <<ctxDone, polls, seen, alone, serverVars>>
  BY DEF TakeAsk
<1>3. CallTypeOK'
  BY <1>1, <1>2
     DEF Inv, TypeOK, CallTypeOK, Asking, Busy, Result, WithoutID, Answer
<1>4. NetTypeOK'
  BY <1>1, <1>2 DEF Inv, TypeOK, NetTypeOK
<1>5. ServerTypeOK'
  BY <1>1, <1>2 DEF Inv, TypeOK, ServerTypeOK, serverVars
<1>6. Progress'
  BY <1>1, <1>2 DEF Inv, TypeOK, CallTypeOK, NetTypeOK, Progress
<1>7. Submission'
  BY <1>1, <1>2
     DEF Inv, TypeOK, CallTypeOK, NetTypeOK, Submission, Asking, serverVars
<1>8. Answers'
  BY <1>1, <1>2 DEF Inv, TypeOK, CallTypeOK, NetTypeOK, Answers, serverVars
<1>9. Deployment'
  BY <1>1, <1>2 DEF Inv, TypeOK, Deployment, serverVars
<1>10. Undisturbed'
  <2> SUFFICES ASSUME NEW e \in Calls, alone[e], pc'[e] \in Busy
               PROVE  /\ \A d \in Calls \ {e} :
                           pc'[d] \notin Busy /\ ~sent'[d] /\ tx[d].state \notin Pending
                      /\ pc'[e] = "ask" /\ answer'[e] # None =>
                           /\ answer'[e].status = "ok" => answer'[e].nonce = safeNonce
                           /\ answer'[e].status = "bare" => answer'[e].nonce = 0
                      /\ e \notin Deploys /\ pc'[e] # "ask"
                            /\ tx[e].state \in {"none", "NEW", "EXECUTED"}
                           => nonce'[e] = IF blind'[e] THEN 0 ELSE safeNonce
    BY <1>2 DEF Undisturbed, serverVars
  <2>1. /\ pc \in [Calls -> {"idle", "done"} \cup Busy] /\ nonce \in [Calls -> Nat]
        /\ sent \in [Calls -> BOOLEAN] /\ blind \in [Calls -> BOOLEAN]
        /\ answer \in [Calls -> Answer \cup {None}]
        /\ pc'[c] \in {"submit", "done"} /\ pc[c] \in Busy
    BY <1>1 DEF Inv, TypeOK, CallTypeOK, NetTypeOK, Busy, Asking
  <2>2. /\ \A d \in Calls \ {c} : pc'[d] = pc[d] /\ nonce'[d] = nonce[d]
                                 /\ sent'[d] = sent[d] /\ answer'[d] = answer[d]
        /\ \A d \in Calls \ {c} : blind'[d] = blind[d]
    BY <1>1, <1>2, <2>1
  <2>3. CASE e = c
    <3>1. alone[c] /\ pc[c] = "ask" /\ pc'[c] = "submit"
      BY <1>1, <2>1, <2>3 DEF Busy, Asking
    <3>2. /\ c \notin Deploys => /\ nonce'[c] = answer[c].nonce
                               /\ (blind'[c] <=> answer[c].status = "bare")
          /\ answer[c].status \in {"ok", "bare"}
      <4>1. answer[c].status \in Success /\ (c \notin Deploys => nonce'[c] = answer[c].nonce)
        BY <1>1, <3>1
      <4>2. c \notin Deploys => (blind'[c] <=> answer[c].status = "bare")
        BY <1>1, <3>1, Zenon
      <4>3. QED
        BY <4>1, <4>2 DEF Success
    <3>3. QED
      BY <1>1, <2>1, <2>2, <2>3, <3>1, <3>2 DEF Inv, Undisturbed
  <2>4. CASE e # c
    <3>1. pc[e] \in Busy
      BY <2>2, <2>4
    <3>2. QED
      BY <2>1, <2>4, <3>1 DEF Inv, Undisturbed
  <2>5. QED
    BY <2>3, <2>4
<1>11. OutcomeTrue'
  BY <1>1, <1>2
     DEF Inv, TypeOK, CallTypeOK, NetTypeOK, OutcomeTrue, Answers, Progress,
         WithID, serverVars
<1>12. QED
  BY <1>3, <1>4, <1>5, <1>6, <1>7, <1>8, <1>9, <1>10, <1>11 DEF Inv, TypeOK

\* A call begins to poll, or gives up.
LEMMA TakeSubmitPreserves ==
  ASSUME Inv, NEW c \in Calls, TakeSubmit(c)
  PROVE  Inv'
<1>1. /\ pc[c] = "submit" /\ answer[c] \in Answer \ {None}
      /\ pc' = [pc EXCEPT ![c] = pc'[c]]
      /\ result' = [result EXCEPT ![c] = result'[c]]
      /\ \/ /\ pc'[c] = "wait" /\ result'[c] = result[c]
            /\ answer[c].status = "ok"
         \/ /\ pc'[c] = "done" /\ result'[c] \in {"timeout", "cancelled"}
            /\ answer[c].status = "ok"
         \/ /\ pc'[c] = "done" /\ result'[c] \in {"invalid", "error"}
         \/ /\ pc'[c] = "done" /\ result'[c] = "refused"
            /\ answer[c].status = "refused"
  BY DEF Inv, TypeOK, CallTypeOK, NetTypeOK, TakeSubmit, Iterate, Return
<1>2. /\ answer' = [answer EXCEPT ![c] = None]
      /\ UNCHANGED <<ctxDone, nonce, polls, seen, alone, blind, sent, serverVars>>
  BY DEF TakeSubmit
<1>3. CallTypeOK'
  BY <1>1, <1>2 DEF Inv, TypeOK, CallTypeOK, Busy, Result, WithoutID, WithID
<1>4. NetTypeOK'
  BY <1>1, <1>2 DEF Inv, TypeOK, NetTypeOK
<1>5. ServerTypeOK'
  BY <1>1, <1>2 DEF Inv, TypeOK, ServerTypeOK, serverVars
<1>6. Progress'
  BY <1>1, <1>2, ConstantsAssumption
     DEF Inv, TypeOK, CallTypeOK, NetTypeOK, Progress
<1>7. Submission'
  BY <1>1, <1>2
     DEF Inv, TypeOK, CallTypeOK, Submission, Answers, Asking, Success, serverVars
<1>8. Answers'
  BY <1>1, <1>2 DEF Inv, TypeOK, CallTypeOK, Answers, serverVars
<1>9. Deployment'
  BY <1>1, <1>2 DEF Inv, TypeOK, Deployment, serverVars
<1>10. Undisturbed'
  BY <1>1, <1>2 DEF Inv, TypeOK, CallTypeOK, Undisturbed, serverVars
<1>11. OutcomeTrue'
  BY <1>1, <1>2
     DEF Inv, TypeOK, CallTypeOK, OutcomeTrue, Answers, Success, WithID, serverVars
<1>12. QED
  BY <1>3, <1>4, <1>5, <1>6, <1>7, <1>8, <1>9, <1>10, <1>11 DEF Inv, TypeOK

\* A call goes on to the next poll, or is cancelled.
LEMMA WaitPreserves ==
  ASSUME Inv, NEW c \in Calls, Wait(c)
  PROVE  Inv'
<1>1. CallTypeOK'
  BY DEF Inv, TypeOK, CallTypeOK, Asking, Busy, Result, WithID, Wait, Return
<1>2. NetTypeOK'
  BY DEF Inv, TypeOK, NetTypeOK, Wait
<1>3. ServerTypeOK'
  BY DEF Inv, TypeOK, ServerTypeOK, serverVars, Wait
<1>4. Progress'
  BY DEF Inv, TypeOK, CallTypeOK, Asking, Wait, Return, Progress
<1>5. Submission'
  BY DEF Inv, TypeOK, CallTypeOK, serverVars, Wait, Return, Submission
<1>6. Answers'
  BY DEF Inv, TypeOK, CallTypeOK, Asking, serverVars, Wait, Return, Progress,
     Answers
<1>7. Deployment'
  BY DEF Inv, TypeOK, serverVars, Wait, Deployment
<1>8. Undisturbed'
  BY DEF Inv, TypeOK, CallTypeOK, Busy, serverVars, Wait, Return, Undisturbed
<1>9. OutcomeTrue'
  BY DEF Inv, TypeOK, CallTypeOK, serverVars, Wait, Return, Submission,
     OutcomeTrue
<1>10. QED
  BY <1>1, <1>2, <1>3, <1>4, <1>5, <1>6, <1>7, <1>8, <1>9 DEF Inv, TypeOK

\* A call learns of its transaction.
LEMMA TakePollPreserves ==
  ASSUME Inv, NEW c \in Calls, TakePoll(c)
  PROVE  Inv'
<1>1. /\ pc[c] = "poll" /\ answer[c] \in Answer \ {None}
      /\ pc' = [pc EXCEPT ![c] = pc'[c]]
      /\ result' = [result EXCEPT ![c] = result'[c]]
      /\ polls' = [polls EXCEPT ![c] = polls[c] + 1]
      /\ seen' = [seen EXCEPT ![c] = seen'[c]]
      /\ seen'[c] \in {seen[c], [state |-> answer[c].state, hash |-> answer[c].hash]}
      /\ \/ /\ pc'[c] = "wait" /\ result'[c] = result[c]
            /\ polls[c] + 1 < MaxPolls
         \/ /\ pc'[c] = "done"
            /\ result'[c] \in {"timeout", "cancelled", "denied"}
         \/ /\ pc'[c] = "done" /\ result'[c] = "ok"
            /\ answer[c].state = "CONFIRMED"
            /\ seen'[c] = [state |-> answer[c].state, hash |-> answer[c].hash]
         \/ /\ pc'[c] = "done" /\ result'[c] = "failed"
            /\ answer[c].state = "FAILED"
  BY DEF Inv, TypeOK, CallTypeOK, NetTypeOK, TakePoll, Iterate, Return, Success
<1>2. /\ answer' = [answer EXCEPT ![c] = None]
      /\ UNCHANGED <<ctxDone, nonce, alone, blind, sent, serverVars>>
  BY DEF TakePoll
<1>3. CallTypeOK'
  BY <1>1, <1>2, ConstantsAssumption
     DEF Inv, TypeOK, CallTypeOK, Asking, Busy, Result, WithoutID, WithID,
         Answer, Progress
<1>4. NetTypeOK'
  BY <1>1, <1>2 DEF Inv, TypeOK, NetTypeOK
<1>5. ServerTypeOK'
  BY <1>1, <1>2 DEF Inv, TypeOK, ServerTypeOK, serverVars
<1>6. Progress'
  BY <1>1, <1>2 DEF Inv, TypeOK, CallTypeOK, NetTypeOK, Progress
<1>7. Submission'
  BY <1>1, <1>2 DEF Inv, TypeOK, CallTypeOK, Submission, Asking, serverVars
<1>8. Answers'
  BY <1>1, <1>2 DEF Inv, TypeOK, CallTypeOK, Answers, serverVars
<1>9. Deployment'
  BY <1>1, <1>2 DEF Inv, TypeOK, Deployment, serverVars
<1>10. Undisturbed'
  BY <1>1, <1>2 DEF Inv, TypeOK, CallTypeOK, Undisturbed, serverVars
<1>11. OutcomeTrue'
  BY <1>1, <1>2
     DEF Inv, TypeOK, CallTypeOK, OutcomeTrue, Submission, Answers, Progress,
         Deployment, Final, serverVars
<1>12. QED
  BY <1>3, <1>4, <1>5, <1>6, <1>7, <1>8, <1>9, <1>10, <1>11 DEF Inv, TypeOK

\* A call learns nothing.
LEMMA ExchangeFailsPreserves ==
  ASSUME Inv, NEW c \in Calls, ExchangeFails(c)
  PROVE  Inv'
<1>1. /\ pc[c] \in Asking
      /\ pc' = [pc EXCEPT ![c] = pc'[c]]
      /\ result' = [result EXCEPT ![c] = result'[c]]
      /\ polls' = [polls EXCEPT ![c] = polls'[c]]
      /\ \/ /\ pc[c] = "poll" /\ pc'[c] = "wait" /\ result'[c] = result[c]
            /\ polls'[c] = polls[c] + 1 /\ polls'[c] < MaxPolls
         \/ /\ pc[c] = "poll" /\ pc'[c] = "done"
            /\ polls'[c] = polls[c] + 1
            /\ result'[c] \in {"timeout", "cancelled"}
         \/ /\ pc[c] # "poll" /\ pc'[c] = "done"
            /\ polls'[c] = polls[c] /\ result'[c] = "error"
  BY DEF Inv, TypeOK, CallTypeOK, ExchangeFails, Iterate, Return
<1>2. /\ answer' = [answer EXCEPT ![c] = None]
      /\ UNCHANGED <<ctxDone, nonce, seen, alone, blind, sent, serverVars>>
  BY DEF ExchangeFails
<1>3. CallTypeOK'
  BY <1>1, <1>2, ConstantsAssumption
     DEF Inv, TypeOK, CallTypeOK, Busy, Result, WithoutID, WithID, Progress
<1>4. NetTypeOK'
  BY <1>1, <1>2 DEF Inv, TypeOK, NetTypeOK
<1>5. ServerTypeOK'
  BY <1>1, <1>2 DEF Inv, TypeOK, ServerTypeOK, serverVars
<1>6. Progress'
  BY <1>1, <1>2 DEF Inv, TypeOK, CallTypeOK, NetTypeOK, Progress
<1>7. Submission'
  BY <1>1, <1>2 DEF Inv, TypeOK, CallTypeOK, Submission, serverVars
<1>8. Answers'
  BY <1>1, <1>2 DEF Inv, TypeOK, CallTypeOK, Answers, serverVars
<1>9. Deployment'
  BY <1>1, <1>2 DEF Inv, TypeOK, Deployment, serverVars
<1>10. Undisturbed'
  BY <1>1, <1>2
     DEF Inv, TypeOK, CallTypeOK, Undisturbed, Busy, Asking, serverVars
<1>11. OutcomeTrue'
  BY <1>1, <1>2
     DEF Inv, TypeOK, CallTypeOK, OutcomeTrue, Submission, WithID, serverVars
<1>12. QED
  BY <1>3, <1>4, <1>5, <1>6, <1>7, <1>8, <1>9, <1>10, <1>11 DEF Inv, TypeOK

\* The relayer answers a query.
LEMMA ServeQueryPreserves ==
  ASSUME Inv, NEW c \in Calls, ServeQuery(c)
  PROVE  Inv'
<1>1. CallTypeOK'
  BY DEF Inv, TypeOK, CallTypeOK, callVars, ServeQuery
<1>2. NetTypeOK'
  BY DEF Inv, TypeOK, NetTypeOK, ServerTypeOK, Answer, Status, Nothing, TxState, ServeQuery,
     AnswerTo
<1>3. ServerTypeOK'
  BY DEF Inv, TypeOK, ServerTypeOK, serverVars, ServeQuery
<1>4. Progress'
  BY DEF Inv, TypeOK, CallTypeOK, Busy, callVars, ServeQuery, AnswerTo,
     Progress
<1>5. Submission'
  BY DEF Inv, TypeOK, callVars, serverVars, ServeQuery, Submission
<1>6. Answers'
  BY DEF Inv, TypeOK, callVars, serverVars, ServeQuery, AnswerTo, Nothing, Final, Answers
<1>7. Deployment'
  BY DEF Inv, TypeOK, serverVars, ServeQuery, Deployment
<1>8. Undisturbed'
  BY DEF Inv, TypeOK, callVars, serverVars, ServeQuery, AnswerTo, Nothing, Undisturbed
<1>9. OutcomeTrue'
  BY DEF Inv, TypeOK, callVars, serverVars, ServeQuery, OutcomeTrue
<1>10. QED
  BY <1>1, <1>2, <1>3, <1>4, <1>5, <1>6, <1>7, <1>8, <1>9 DEF Inv, TypeOK

\* A submission arrives.
LEMMA ServeSubmitPreserves ==
  ASSUME Inv, NEW c \in Calls, ServeSubmit(c)
  PROVE  Inv'
<1>1. CallTypeOK'
  BY DEF Inv, TypeOK, CallTypeOK, callVars, ServeSubmit
<1>2. ServerTypeOK'
  BY DEF Inv, TypeOK, CallTypeOK, ServerTypeOK, Pending, TxState, ServeSubmit
<1>3. NetTypeOK'
  <2>1. ASSUME NEW s \in Status, AnswerTo(c, s, tx'[c])
        PROVE  answer' \in [Calls -> Answer \cup {None}]
    <3>1. tx'[c].state \in TxState /\ tx'[c].hash \in Nat
      BY <1>2 DEF ServerTypeOK
    <3>2. Nothing(s) \in Answer
      BY DEF Nothing, Answer, TxState
    <3>3. [status |-> s, nonce |-> safeNonce, deployed |-> deployed,
           state |-> tx'[c].state, hash |-> tx'[c].hash] \in Answer
      BY <3>1 DEF Inv, TypeOK, ServerTypeOK, Answer
    <3>4. QED
      BY <2>1, <3>2, <3>3 DEF Inv, TypeOK, NetTypeOK, AnswerTo
  <2>2. QED
    BY <2>1 DEF Inv, TypeOK, NetTypeOK, ServeSubmit
<1>4. Progress'
  BY DEF Inv, TypeOK, CallTypeOK, NetTypeOK, Busy, callVars, ServeSubmit,
     AnswerTo, Progress
<1>5. Submission'
  BY DEF Inv, TypeOK, NetTypeOK, callVars, ServeSubmit, Submission
<1>6. Answers'
  <2>1. /\ answer \in [Calls -> Answer \cup {None}] /\ sent \in [Calls -> BOOLEAN]
        /\ tx \in [Calls -> [state : TxState, nonce : Nat, hash : Nat]]
        /\ sent[c] /\ tx[c].state = "none"
        /\ pc' = pc /\ deployed' = deployed /\ sent' = [sent EXCEPT ![c] = FALSE]
    BY DEF Inv, TypeOK, NetTypeOK, ServerTypeOK, Submission, ServeSubmit, callVars
  <2>2. PICK s \in Status :
          /\ s \in Success => Takes(c)
          /\ tx' = IF s # "refused" /\ Takes(c)
                   THEN [tx EXCEPT ![c] = [state |-> "NEW", nonce |-> nonce[c], hash |-> 0]]
                   ELSE tx
          /\ IF pc[c] = "submit" THEN AnswerTo(c, s, tx'[c]) ELSE UNCHANGED answer
    BY DEF ServeSubmit
  <2>3. \A d \in Calls \ {c} : answer'[d] = answer[d] /\ tx'[d] = tx[d] /\ sent'[d] = sent[d]
    BY <2>1, <2>2 DEF AnswerTo
  <2>4. ~sent'[c] /\ (tx'[c] = tx[c] \/ tx'[c].state = "NEW")
    BY <2>1, <2>2
  <2>5. CASE pc[c] = "submit"
    <3>1. answer'[c].status = s
      BY <2>1, <2>2, <2>5 DEF AnswerTo, Nothing
    <3>2. /\ s \in Success => tx'[c].state # "none"
          /\ s = "refused" => tx'[c].state = "none"
      BY <2>1, <2>2 DEF Success
    <3>3. QED
      BY <2>1, <2>3, <2>4, <2>5, <3>1, <3>2 DEF Inv, Answers
  <2>6. CASE pc[c] # "submit"
    <3>1. answer' = answer /\ pc[c] # "poll"
      BY <2>1, <2>2, <2>6 DEF Inv, Submission
    <3>2. QED
      BY <2>1, <2>3, <2>4, <2>6, <3>1 DEF Inv, Answers
  <2>7. QED
    BY <2>5, <2>6
<1>7. Deployment'
  BY DEF Inv, TypeOK, ServeSubmit, Deployment
<1>8. Undisturbed'
  BY DEF Inv, TypeOK, callVars, ServeSubmit, Submission, Undisturbed
<1>9. OutcomeTrue'
  BY DEF Inv, TypeOK, CallTypeOK, callVars, ServeSubmit, Submission,
     OutcomeTrue
<1>10. QED
  BY <1>1, <1>2, <1>3, <1>4, <1>5, <1>6, <1>7, <1>8, <1>9 DEF Inv, TypeOK

\* A submission is lost.
LEMMA LoseSubmitPreserves ==
  ASSUME Inv, NEW c \in Calls, LoseSubmit(c)
  PROVE  Inv'
<1>1. CallTypeOK'
  BY DEF Inv, TypeOK, CallTypeOK, callVars, LoseSubmit
<1>2. NetTypeOK'
  BY DEF Inv, TypeOK, NetTypeOK, LoseSubmit
<1>3. ServerTypeOK'
  BY DEF Inv, TypeOK, ServerTypeOK, serverVars, LoseSubmit
<1>4. Progress'
  BY DEF Inv, TypeOK, callVars, LoseSubmit, Progress
<1>5. Submission'
  BY DEF Inv, TypeOK, callVars, serverVars, LoseSubmit, Submission
<1>6. Answers'
  BY DEF Inv, TypeOK, callVars, serverVars, LoseSubmit, Answers
<1>7. Deployment'
  BY DEF Inv, TypeOK, serverVars, LoseSubmit, Deployment
<1>8. Undisturbed'
  BY DEF Inv, TypeOK, callVars, serverVars, LoseSubmit, Undisturbed
<1>9. OutcomeTrue'
  BY DEF Inv, TypeOK, callVars, serverVars, LoseSubmit, OutcomeTrue
<1>10. QED
  BY <1>1, <1>2, <1>3, <1>4, <1>5, <1>6, <1>7, <1>8, <1>9 DEF Inv, TypeOK

\* The relayer or the chain moves a transaction on.
LEMMA AdvancePreserves ==
  ASSUME Inv, NEW c \in Calls, Advance(c)
  PROVE  Inv'
<1> USE DEF Inv, TypeOK, ServerTypeOK
<1> DEFINE t == tx'[c]
<1>1. /\ tx' = [tx EXCEPT ![c] = t]
      /\ t \in [state : TxState, nonce : Nat, hash : Nat]
      /\ t.nonce = tx[c].nonce
      /\ tx[c].state \in Pending
      /\ t.state \in {"EXECUTED", "MINED"} \cup Final
      /\ t.state \in {"EXECUTED", "MINED", "FAILED"} => tx[c].state \in {"NEW", "EXECUTED"}
      /\ t.state = "CONFIRMED" => tx[c].state = "MINED"
  BY DEF Advance, Move, TxState, Pending, Final
<1>2. /\ safeNonce' \in Nat
      /\ safeNonce' = safeNonce \/ t.state = "MINED"
  BY DEF Advance, Move
<1>3. /\ deployed' \in BOOLEAN
      /\ deployed => deployed'
      /\ c \in Deploys /\ t.state = "MINED" => deployed'
  BY DEF Advance, Move
<1>4. UNCHANGED <<callVars, answer, sent>>
  BY DEF Advance
<1> HIDE DEF t
<1>5. TypeOK'
  BY <1>1, <1>2, <1>3, <1>4 DEF CallTypeOK, NetTypeOK, callVars
<1>6. Progress'
  BY <1>4 DEF Progress, callVars
<1>7. Submission'
  BY <1>1, <1>4 DEF Submission, callVars, Pending, Final
<1>8. Answers'
  BY <1>1, <1>3, <1>4 DEF Answers, callVars, Pending, Final
<1>9. Deployment'
  BY <1>1, <1>3 DEF Deployment, Final
<1>10. Undisturbed'
  BY <1>1, <1>2, <1>4 DEF Undisturbed, Submission, callVars, Pending, Final, Busy
<1>11. OutcomeTrue'
  BY <1>1, <1>3, <1>4 DEF OutcomeTrue, callVars, Pending, Final, WithID
<1>12. QED
  BY <1>5, <1>6, <1>7, <1>8, <1>9, <1>10, <1>11

-----------------------------------------------------------------------------
(* The theorems                                                            *)

\* Every step keeps the invariant.
LEMMA Inductive == Inv /\ [Next]_vars => Inv'
<1> SUFFICES ASSUME Inv, [Next]_vars PROVE Inv'
  OBVIOUS
<1>1. ASSUME NEW c \in Calls, Start(c) \/ Cancel(c) PROVE Inv'
  BY <1>1, StartPreserves, CancelPreserves
<1>2. ASSUME NEW c \in Calls, ClientStep(c) PROVE Inv'
  BY <1>2, TakeAskPreserves, TakeSubmitPreserves, WaitPreserves,
     TakePollPreserves, ExchangeFailsPreserves DEF ClientStep
<1>3. ASSUME NEW c \in Calls, RelayerStep(c) PROVE Inv'
  BY <1>3, ServeQueryPreserves, ServeSubmitPreserves, LoseSubmitPreserves,
     AdvancePreserves DEF RelayerStep
<1>4. CASE UNCHANGED vars
  BY <1>4 DEF Inv, TypeOK, CallTypeOK, NetTypeOK, ServerTypeOK, Progress,
     Submission, Answers, Deployment, Undisturbed, OutcomeTrue, vars, callVars,
     serverVars
<1>5. QED
  BY <1>1, <1>2, <1>3, <1>4 DEF Next

\* The invariant holds in every reachable state.
LEMMA Invariance == Spec => []Inv
BY InitInv, Inductive, PTL DEF Spec

\* Every variable of the calls, the network and the relayer keeps its type; no
\* call polls more often than it may (service.go:276).
THEOREM TypeCorrect == Spec => []TypeOK
<1>1. Inv => TypeOK
  BY DEF Inv
<1>2. QED
  BY <1>1, Invariance, PTL

\* What a call returned is true of its transaction, and stays true, for any
\* number of overlapping calls and whatever is lost (service.go:83-95, 171-183).
THEOREM OutcomesAreTrue == Spec => []OutcomeTrue
<1>1. Inv => OutcomeTrue
  BY DEF Inv
<1>2. QED
  BY <1>1, Invariance, PTL

\* A call that overlaps nothing has signed the nonce the Safe expects if the
\* relayer named one, and 0 if its answer had none (service.go:200-204, 239,
\* client.go:172-174).
THEOREM NonceIsFresh == Spec => []AloneHasNonce
<1>1. Inv => AloneHasNonce
  <2> SUFFICES ASSUME Inv, NEW c \in Calls \ Deploys,
                      alone[c], pc[c] \in Busy, tx[c].state \in {"NEW", "EXECUTED"}
               PROVE  tx[c].nonce = IF blind[c] THEN 0 ELSE safeNonce
    BY DEF AloneHasNonce
  <2>1. pc[c] # "ask" /\ tx[c].nonce = nonce[c]
    BY DEF Inv, Submission
  <2>2. QED
    BY <2>1 DEF Inv, Undisturbed
<1>2. QED
  BY <1>1, Invariance, PTL

\* A call whose ctx is done does not go on after the poll it is in
\* (service.go:277-281).
THEOREM CancellationStops == Spec => CancelStops
<1> DEFINE Stops == \A c \in Calls : ctxDone[c] /\ pc[c] = "poll" /\ pc'[c] # "poll"
                                       => pc'[c] = "done"
<1>1. ASSUME Inv, [Next]_vars PROVE Stops
  <2> SUFFICES ASSUME NEW c \in Calls, ctxDone[c], pc[c] = "poll", pc'[c] # "poll"
               PROVE  pc'[c] = "done"
    OBVIOUS
  <2>1. pc \in [Calls -> {"idle", "done"} \cup Busy]
    BY <1>1 DEF Inv, TypeOK, CallTypeOK
  <2>2. PICK d \in Calls : Start(d) \/ Cancel(d) \/ ClientStep(d) \/ RelayerStep(d)
    BY <1>1 DEF Next, vars, callVars
  <2>3. CASE Start(d) \/ Cancel(d)
    BY <2>1, <2>3 DEF Start, Cancel
  <2>4. CASE ClientStep(d)
    BY <2>1, <2>4 DEF ClientStep, TakeAsk, TakeSubmit, Wait, TakePoll,
       ExchangeFails, Iterate, Return
  <2>5. CASE RelayerStep(d)
    BY <2>5 DEF RelayerStep, ServeQuery, ServeSubmit, LoseSubmit, Advance, callVars
  <2>6. QED
    BY <2>2, <2>3, <2>4, <2>5
<1>2. Inv /\ [Next]_vars => [Stops]_vars
  BY <1>1
<1>3. QED
  BY <1>2, Invariance, PTL DEF Spec, CancelStops

-----------------------------------------------------------------------------
(* RelayerService implements SafePromise.                                  *)

\* After a result that rules a transaction out, or says that the relayer has
\* taken it, no submission is on its way.
Settled == \A c \in Calls : result[c] \in {"already", "refused", "invalid"} => ~sent[c]

LEMMA SettledInvariance == Spec => []Settled
<1>1. Init => Settled
  BY DEF Init, Settled
<1>2. Inv /\ Settled /\ [Next]_vars => Settled'
  <2> SUFFICES ASSUME Inv, Settled, [Next]_vars PROVE Settled'
    OBVIOUS
  <2>1. /\ result \in [Calls -> Result] /\ sent \in [Calls -> BOOLEAN]
        /\ \A c \in Calls : pc[c] # "done" => result[c] = "none"
        /\ \A c \in Calls : pc[c] \in {"idle", "ask", "wait", "poll"} => ~sent[c]
        /\ \A c \in Calls : pc[c] = "submit" /\ answer[c] # None => ~sent[c]
    BY DEF Inv, TypeOK, CallTypeOK, NetTypeOK, Progress, Submission, Answers
  <2>2. CASE UNCHANGED vars
    BY <2>2 DEF vars, callVars, Settled
  <2>3. ASSUME NEW c \in Calls, Start(c) \/ Cancel(c) \/ RelayerStep(c) PROVE Settled'
    BY <2>1, <2>3 DEF Start, Cancel, RelayerStep, ServeQuery, ServeSubmit, LoseSubmit, Advance,
                      callVars, Settled
  <2>4. ASSUME NEW c \in Calls, ClientStep(c) PROVE Settled'
    <3>1. CASE TakeAsk(c)
      BY <2>1, <3>1 DEF TakeAsk, Return, Settled
    <3>2. CASE TakeSubmit(c) \/ Wait(c) \/ TakePoll(c)
      <4>1. /\ sent' = sent /\ ~sent[c]
            /\ \A d \in Calls \ {c} : result'[d] = result[d]
        BY <2>1, <3>2 DEF TakeSubmit, Wait, TakePoll, Iterate, Return
      <4> QED
        BY <4>1 DEF Settled
    <3>3. CASE ExchangeFails(c)
      <4>1. sent' = sent /\ result'[c] \in {"none", "error", "timeout", "cancelled"}
            /\ \A d \in Calls \ {c} : result'[d] = result[d]
        BY <2>1, <3>3 DEF ExchangeFails, Iterate, Return, Asking
      <4> QED
        BY <4>1 DEF Settled
    <3> QED
      BY <2>4, <3>1, <3>2, <3>3 DEF ClientStep
  <2> QED
    BY <2>2, <2>3, <2>4 DEF Next
<1> QED
  BY <1>1, <1>2, Invariance, PTL DEF Spec

\* A step that tells nobody anything and leaves the transactions is unseen.
LEMMA Unseen ==
  ASSUME UNCHANGED <<result, deployed>>,
         \A c \in Calls : result[c] = "ok" => seen'[c] = seen[c],
         \A c \in Calls : Fate(c)' = Fate(c) /\ Hash(c)' = Hash(c)
  PROVE  UNCHANGED Promise!vars
<1>1. [c \in Calls |-> Told(c)]' = [c \in Calls |-> Told(c)]
  BY DEF Told
<1>2. [c \in Calls |-> Fate(c)]' = [c \in Calls |-> Fate(c)]
  OBVIOUS
<1>3. [c \in Calls |-> Hash(c)]' = [c \in Calls |-> Hash(c)]
  OBVIOUS
<1> QED
  BY <1>1, <1>2, <1>3 DEF Promise!vars

\* A call that returns says one of the things it may.
LEMMA ReturnSeen ==
  ASSUME Inv, Inv', NEW c \in Calls, NEW r \in Result \ {"none"}, pc[c] # "done",
         UNCHANGED <<tx, deployed>>, result' = [result EXCEPT ![c] = r],
         \A d \in Calls \ {c} : seen'[d] = seen[d],
         r = "already" => c \in Deploys /\ tx[c].state = "none",
         r = "invalid" => tx[c].state # "none"
  PROVE  Promise!Next
<1>1. /\ result[c] = "none" /\ result'[c] = r
      /\ tx[c].state \in TxState /\ tx' = tx /\ deployed' = deployed
  BY DEF Inv, TypeOK, CallTypeOK, ServerTypeOK, Progress
<1>2. /\ r = "ok" => tx[c].state = "CONFIRMED" /\ seen'[c].hash = tx[c].hash
      /\ r = "already" => deployed
      /\ r = "failed" => tx[c].state = "FAILED"
      /\ r = "refused" => tx[c].state = "none"
      /\ r \in WithID => tx[c].state # "none"
  <2>1. OutcomeTrue'
    BY DEF Inv
  <2>2. /\ r = "ok" => /\ tx'[c].state = "CONFIRMED"
                       /\ seen'[c] = [state |-> "CONFIRMED", hash |-> tx'[c].hash]
        /\ r = "already" => deployed'
        /\ r = "failed" => tx'[c].state = "FAILED"
        /\ r = "refused" => tx'[c].state = "none"
        /\ r \in WithID => tx'[c].state # "none"
    BY <1>1, <2>1 DEF OutcomeTrue
  <2>3. r = "ok" => seen'[c].hash = tx'[c].hash
    BY <2>2
  <2> QED
    BY <1>1, <2>2, <2>3
<1>3. /\ [d \in Calls |-> Fate(d)]' = [d \in Calls |-> Fate(d)]
      /\ [d \in Calls |-> Hash(d)]' = [d \in Calls |-> Hash(d)]
  BY <1>1 DEF Fate, Hash
<1>4. Fate(c) = IF tx[c].state = "none" THEN "none"
                ELSE IF tx[c].state = "CONFIRMED" THEN "confirmed"
                ELSE IF tx[c].state = "FAILED" THEN "failed" ELSE "pending"
  BY <1>1 DEF Fate, TxState, Pending, Final
<1>5. r \in Promise!Outcomes(c)
  BY <1>1, <1>2, <1>4 DEF Promise!Outcomes, Result, WithID, WithoutID
<1>6. [d \in Calls |-> Told(d)]'
        = [[d \in Calls |-> Told(d)] EXCEPT
             ![c] = IF r = "ok" THEN [d \in Calls |-> Hash(d)][c] ELSE @]
  <2>1. Told(c) = 0 /\ Told(c)' = IF r = "ok" THEN Hash(c) ELSE 0
    BY <1>1, <1>2 DEF Told, Hash
  <2>2. \A d \in Calls \ {c} : Told(d)' = Told(d)
    BY DEF Told
  <2> QED
    BY <2>1, <2>2
<1>7. Promise!Return(c)
  BY <1>1, <1>3, <1>5, <1>6 DEF Promise!Return
<1> QED
  BY <1>7 DEF Promise!Next

\* A step of a call returns, or is unseen.
LEMMA ClientPromise ==
  ASSUME Inv, Inv', NEW c \in Calls, ClientStep(c)
  PROVE  Promise!Next \/ UNCHANGED Promise!vars
<1>1. /\ UNCHANGED <<tx, deployed>> /\ pc[c] # "done" /\ result[c] = "none"
      /\ \A d \in Calls \ {c} : seen'[d] = seen[d]
  BY DEF ClientStep, TakeAsk, TakeSubmit, Wait, TakePoll, ExchangeFails, serverVars, Asking,
         Inv, TypeOK, CallTypeOK, Progress
<1>2. \/ result' = result
      \/ \E r \in Result \ {"none"} :
           /\ result' = [result EXCEPT ![c] = r]
           /\ r = "already" => c \in Deploys /\ tx[c].state = "none"
           /\ r = "invalid" => tx[c].state # "none"
  <2>1. CASE TakeAsk(c)
    BY <2>1 DEF TakeAsk, Return, Inv, Submission, Result, WithoutID
  <2>2. CASE TakeSubmit(c)
    BY <2>2 DEF TakeSubmit, Iterate, Return, Inv, Answers, Success, Result, WithoutID, WithID
  <2>3. CASE Wait(c) \/ TakePoll(c) \/ ExchangeFails(c)
    BY <2>3 DEF Wait, TakePoll, ExchangeFails, Iterate, Return, Result, WithoutID, WithID
  <2> QED
    BY <2>1, <2>2, <2>3 DEF ClientStep
<1>3. CASE result' = result
  <2>1. \A d \in Calls : Fate(d)' = Fate(d) /\ Hash(d)' = Hash(d)
    BY <1>1 DEF Fate, Hash
  <2> QED
    BY <1>1, <1>3, <2>1, Unseen
<1>4. CASE result' # result
  BY <1>1, <1>2, <1>4, ReturnSeen
<1> QED
  BY <1>3, <1>4

\* A submission that arrives is the call's only one.
LEMMA SubmitPromise ==
  ASSUME Inv, Settled, NEW c \in Calls, ServeSubmit(c)
  PROVE  Promise!Next \/ UNCHANGED Promise!vars
<1>1. UNCHANGED <<result, seen, deployed>> /\ sent[c] /\ tx[c].state = "none"
  BY DEF ServeSubmit, callVars, Inv, Submission
<1>2. CASE tx' = tx
  <2>1. \A d \in Calls : Fate(d)' = Fate(d) /\ Hash(d)' = Hash(d)
    BY <1>2 DEF Fate, Hash
  <2>2. \A d \in Calls : seen'[d] = seen[d]
    BY <1>1
  <2>3. UNCHANGED Promise!vars
    BY <1>1, <2>1, <2>2, Unseen
  <2> QED
    BY <2>3
<1>3. CASE tx' # tx
  <2>1. tx' = [tx EXCEPT ![c] = [state |-> "NEW", nonce |-> nonce[c], hash |-> 0]]
    BY <1>3 DEF ServeSubmit
  <2>2. tx'[c].state = "NEW" /\ \A d \in Calls \ {c} : tx'[d] = tx[d]
    BY <2>1 DEF Inv, TypeOK, ServerTypeOK
  <2>3. result[c] \in {"none", "error"}
    BY <1>1 DEF Inv, TypeOK, CallTypeOK, OutcomeTrue, Settled, Result, WithID, WithoutID
  <2>4. Fate(c) = "none" /\ Fate(c)' = "pending" /\ Hash(c)' = Hash(c)
    BY <1>1, <2>2 DEF Fate, Hash, Pending
  <2>5. \A d \in Calls \ {c} : Fate(d)' = Fate(d) /\ Hash(d)' = Hash(d)
    BY <2>2 DEF Fate, Hash
  <2>6. /\ [d \in Calls |-> Fate(d)]' = [[d \in Calls |-> Fate(d)] EXCEPT ![c] = "pending"]
        /\ [d \in Calls |-> Hash(d)]' = [d \in Calls |-> Hash(d)]
        /\ [d \in Calls |-> Told(d)]' = [d \in Calls |-> Told(d)]
    BY <1>1, <2>4, <2>5 DEF Told
  <2>7. Promise!Take(c)
    BY <1>1, <2>3, <2>4, <2>6 DEF Promise!Take
  <2> QED
    BY <2>7 DEF Promise!Next
<1> QED
  BY <1>2, <1>3

\* A transaction goes its way to an end, and stays there.
LEMMA AdvancePromise ==
  ASSUME Inv, NEW c \in Calls, Advance(c)
  PROVE  Promise!Next \/ UNCHANGED Promise!vars
<1>1. /\ UNCHANGED <<result, seen>> /\ tx' = [tx EXCEPT ![c] = tx'[c]]
      /\ tx[c].state \in Pending /\ tx'[c].hash \in Nat
      /\ \/ /\ tx'[c].state \in {"EXECUTED", "MINED"}
            /\ deployed' = deployed \/ (c \in Deploys /\ deployed')
         \/ tx'[c].state = "CONFIRMED" /\ deployed' = deployed /\ tx[c].state = "MINED"
         \/ tx'[c].state = "FAILED" /\ deployed' = deployed
  <2>1. UNCHANGED <<result, seen>>
    BY DEF Advance, callVars
  <2>2. tx \in [Calls -> [state : TxState, nonce : Nat, hash : Nat]]
    BY DEF Inv, TypeOK, ServerTypeOK
  <2>3. tx' = [tx EXCEPT ![c] = tx'[c]] /\ tx[c].state \in Pending /\ tx'[c].hash \in Nat
    BY <2>2 DEF Advance, Move, Pending
  <2>4. \/ /\ tx'[c].state \in {"EXECUTED", "MINED"}
           /\ deployed' = deployed \/ (c \in Deploys /\ deployed')
        \/ tx'[c].state = "CONFIRMED" /\ deployed' = deployed /\ tx[c].state = "MINED"
        \/ tx'[c].state = "FAILED" /\ deployed' = deployed
    BY <2>2 DEF Advance, Move
  <2> QED
    BY <2>1, <2>3, <2>4
<1>2. \A d \in Calls \ {c} : tx'[d] = tx[d]
  BY <1>1 DEF Inv, TypeOK, ServerTypeOK
<1>3. \A d \in Calls \ {c} : Fate(d)' = Fate(d) /\ Hash(d)' = Hash(d)
  BY <1>2 DEF Fate, Hash
<1>4. Fate(c) = "pending" /\ Hash(c) = 0
  BY <1>1 DEF Fate, Hash, Pending
<1>5. [d \in Calls |-> Told(d)]' = [d \in Calls |-> Told(d)]
  BY <1>1 DEF Told
<1>6. CASE tx'[c].state \in {"EXECUTED", "MINED"}
  <2>1. \A d \in Calls : Fate(d)' = Fate(d) /\ Hash(d)' = Hash(d)
    <3>1. Fate(c)' = "pending" /\ Hash(c)' = 0
      BY <1>6 DEF Fate, Hash, Pending
    <3> QED
      BY <1>3, <1>4, <3>1
  <2>2. CASE deployed' = deployed
    BY <1>1, <2>1, <2>2, Unseen
  <2>3. CASE deployed' # deployed
    <3>1. c \in Deploys /\ deployed' = TRUE
      BY <1>1, <1>6, <2>3 DEF Advance, Move
    <3>2. Promise!Deploy(c)
      BY <1>1, <1>4, <1>5, <2>1, <3>1 DEF Promise!Deploy
    <3> QED
      BY <3>2 DEF Promise!Next
  <2> QED
    BY <2>2, <2>3
<1>7. CASE tx'[c].state = "CONFIRMED"
  <2>1. Fate(c)' = "confirmed" /\ Hash(c)' = tx'[c].hash
    BY <1>7 DEF Fate, Hash, Pending
  <2>2. c \in Deploys => deployed
    BY <1>1, <1>7 DEF Inv, Deployment
  <2>3. /\ [d \in Calls |-> Fate(d)]' = [[d \in Calls |-> Fate(d)] EXCEPT ![c] = "confirmed"]
        /\ [d \in Calls |-> Hash(d)]'[c] = tx'[c].hash
        /\ [d \in Calls |-> Hash(d)]' = [[d \in Calls |-> Hash(d)] EXCEPT ![c] = tx'[c].hash]
    BY <1>3, <2>1
  <2>4. Promise!Confirm(c)
    BY <1>1, <1>4, <1>5, <1>7, <2>2, <2>3 DEF Promise!Confirm
  <2> QED
    BY <2>4 DEF Promise!Next
<1>8. CASE tx'[c].state = "FAILED"
  <2>1. Fate(c)' = "failed" /\ Hash(c)' = 0
    BY <1>8 DEF Fate, Hash, Pending
  <2>2. /\ [d \in Calls |-> Fate(d)]' = [[d \in Calls |-> Fate(d)] EXCEPT ![c] = "failed"]
        /\ [d \in Calls |-> Hash(d)]' = [d \in Calls |-> Hash(d)]
    BY <1>3, <1>4, <2>1
  <2>3. Promise!Fail(c)
    BY <1>1, <1>4, <1>5, <1>8, <2>2 DEF Promise!Fail
  <2> QED
    BY <2>3 DEF Promise!Next
<1> QED
  BY <1>1, <1>6, <1>7, <1>8

\* The calls keep the promise of their comments (service.go:83-95, 171-183), by
\* every step's being one of SafePromise's or unseen.
THEOREM PromiseCorrect == Spec => PromiseKept
<1>1. Init => Promise!Init
  BY DEF Init, Promise!Init, Told, Fate, Hash, Pending
<1>2. Inv /\ Settled /\ [Next]_vars => [Promise!Next]_Promise!vars
  <2> SUFFICES ASSUME Inv, Settled, [Next]_vars PROVE Promise!Next \/ UNCHANGED Promise!vars
    OBVIOUS
  <2>1. Inv'
    BY Inductive
  <2>2. ASSUME UNCHANGED <<result, seen, tx, deployed>> PROVE UNCHANGED Promise!vars
    <3>1. \A d \in Calls : Fate(d)' = Fate(d) /\ Hash(d)' = Hash(d)
      BY <2>2 DEF Fate, Hash
    <3> QED
      BY <2>2, <3>1, Unseen
  <2>3. CASE UNCHANGED vars
    BY <2>2, <2>3 DEF vars, callVars, serverVars
  <2>4. ASSUME NEW c \in Calls, Start(c) \/ Cancel(c) \/ ServeQuery(c) \/ LoseSubmit(c)
        PROVE  UNCHANGED Promise!vars
    BY <2>2, <2>4 DEF Start, Cancel, ServeQuery, LoseSubmit, callVars, serverVars
  <2> QED
    BY <2>1, <2>3, <2>4, ClientPromise, SubmitPromise, AdvancePromise DEF Next, RelayerStep
<1> QED
  BY <1>1, <1>2, Invariance, SettledInvariance, PTL DEF Spec, PromiseKept, Promise!Spec
=============================================================================
