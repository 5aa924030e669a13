--------------------------- MODULE RelayerService ---------------------------
(***************************************************************************)
(* The high-level calls of pkg/relayer: DeploySafe and ExecuteSafeTx.  A   *)
(* call asks the relayer for what it needs to sign (is the Safe deployed,  *)
(* its nonce), submits a signed transaction, and polls until that is final *)
(* or the polls are used up.  Every HTTP exchange may fail before or after *)
(* the relayer has handled the request, the caller's ctx may be done at    *)
(* any time, and calls run concurrently.  The calls here are those of one  *)
(* signer and scope, hence of one Safe; a call submits at most one         *)
(* transaction, which is named by it.                                      *)
(*                                                                         *)
(* The relayer and the Safe are modelled from how the client uses them: a  *)
(* transaction goes through the states of types.go, its hash may change    *)
(* until it is mined, and the Safe executes one transaction per nonce.     *)
(***************************************************************************)
EXTENDS Naturals

CONSTANTS
  Calls,    \* calls made
  Deploys,  \* those of DeploySafe; the others are ExecuteSafeTx
  MaxPolls, \* Service.pollMaxAttempts (120 by default)
  MaxHash,  \* bound: how often a transaction's hash changes
  None      \* no answer, no transaction seen

ASSUME ConstantsAssumption ==
  /\ Deploys \subseteq Calls
  /\ MaxPolls \in Nat \ {0}
  /\ MaxHash \in Nat
  /\ None \notin Nat

VARIABLES
  \* the calls
  pc,        \* where each call stands
  ctxDone,   \* the caller's ctx is done
  nonce,     \* the nonce it signed
  polls,     \* exchanges of its polling loop (i in the code)
  seen,      \* the transaction as polled last (last in the code)
  result,    \* what it returned
  alone,     \* it is the last to start and nothing else was going on (history)
  blind,     \* alone, it took its nonce from an answer without one (history)
  \* the network
  answer,    \* the answer to the request it waits for
  sent,      \* its submission is on its way to the relayer
  \* the relayer and the Safe
  tx,        \* the transaction of each call
  safeNonce, \* the Safe's nonce
  deployed   \* the Safe exists

callVars   == <<pc, ctxDone, nonce, polls, seen, result, alone, blind>>
serverVars == <<tx, safeNonce, deployed>>
vars == <<callVars, answer, sent, serverVars>>

Pending == {"NEW", "EXECUTED", "MINED"}
Final   == {"CONFIRMED", "FAILED"} \* INVALID is treated as FAILED is
TxState == {"none"} \cup Pending \cup Final

\* An answer as the client decodes it; it uses what it asked for.  "refused"
\* stands for the 4xx statuses of a request that the relayer does not take (404,
\* 401, 400: a poll gives up on them; 409 is one for a submission), "error" for
\* every other failure the relayer reports and for what does not decode.  "bare"
\* is a 2xx answer without the field asked for: a missing nonce is 0, deployed
\* false, a state or a transactionID empty, none of them an error.
Status  == {"ok", "bare", "refused", "error"}
Success == {"ok", "bare"}
Answer  == [status : Status, nonce : Nat, deployed : BOOLEAN,
            state : TxState, hash : Nat]
Nothing(s) == [status |-> s, nonce |-> 0, deployed |-> FALSE, state |-> "none", hash |-> 0]

\* What a call returns: no error ("ok", or the Safe was "already" there), an
\* error without transactionID ("refused" is the relayer's word that it did not
\* take the transaction, "invalid" is ErrInvalidConfig), or an error with one.
WithoutID == {"already", "error", "refused", "invalid"}
WithID    == {"ok", "failed", "denied", "cancelled", "timeout"}
Result    == {"none"} \cup WithoutID \cup WithID

Asking == {"ask", "submit", "poll"} \* waiting for an answer
Busy   == Asking \cup {"wait"}

Init ==
  /\ pc        = [c \in Calls |-> "idle"]
  /\ ctxDone   = [c \in Calls |-> FALSE]
  /\ nonce     = [c \in Calls |-> 0]
  /\ polls     = [c \in Calls |-> 0]
  /\ seen      = [c \in Calls |-> None]
  /\ result    = [c \in Calls |-> "none"]
  /\ alone     = [c \in Calls |-> FALSE]
  /\ blind     = [c \in Calls |-> FALSE]
  /\ answer    = [c \in Calls |-> None]
  /\ sent      = [c \in Calls |-> FALSE]
  /\ tx        = [c \in Calls |-> [state |-> "none", nonce |-> 0, hash |-> 0]]
  /\ safeNonce = 0
  /\ deployed \in BOOLEAN

-----------------------------------------------------------------------------
(* The calls                                                               *)

\* The call returns r.
Return(c, r) ==
  /\ pc' = [pc EXCEPT ![c] = "done"]
  /\ result' = [result EXCEPT ![c] = r]

\* Fault, for a mutation check: a break that leaves the select and not the loop
IterateIgnoresCtx(c, n) ==
  \/ n = MaxPolls /\ Return(c, "timeout")
  \/ n < MaxPolls /\ pc' = [pc EXCEPT ![c] = "wait"] /\ UNCHANGED result

\* Fault: one poll more than there may be
IterateOneMore(c, n) ==
  \/ n > MaxPolls /\ Return(c, "timeout")
  \/ n <= MaxPolls /\ ctxDone[c] /\ Return(c, "cancelled")
  \/ n <= MaxPolls /\ ~ctxDone[c] /\ pc' = [pc EXCEPT ![c] = "wait"] /\ UNCHANGED result

\* The head of the polling loop, n exchanges done; its select sees a ctx that
\* is done already, as the timer has only been set.
Iterate(c, n) ==
  \/ /\ n = MaxPolls
     /\ Return(c, "timeout")
  \/ /\ n < MaxPolls /\ ctxDone[c]
     /\ Return(c, "cancelled")
  \/ /\ n < MaxPolls /\ ~ctxDone[c]
     /\ pc' = [pc EXCEPT ![c] = "wait"]
     /\ UNCHANGED result

Quiet == \A d \in Calls : pc[d] \notin Busy /\ ~sent[d] /\ tx[d].state \notin Pending

-----------------------------------------------------------------------------
(* Faults: what plausible slips in the code would make of the definitions  *)
(* below.  Only mutation checks use them.                                  *)

\* signs the nonce 0 whatever the relayer says
TakeAskNonceZero(c) ==
  LET a == answer[c] IN
  /\ pc[c] = "ask" /\ a # None
  /\ pc' = [pc EXCEPT ![c] = IF a.status = "ok" THEN "submit" ELSE "done"]
  /\ result' = [result EXCEPT ![c] = IF a.status = "ok" THEN @ ELSE "error"]
  /\ sent' = [sent EXCEPT ![c] = a.status = "ok"]
  /\ answer' = [answer EXCEPT ![c] = None]
  /\ UNCHANGED <<ctxDone, nonce, polls, seen, alone, blind, serverVars>>

\* takes any refusal of a deployment to mean that the Safe is there
TakeSubmitConflictOk(c) ==
  LET a == answer[c] IN
  /\ pc[c] = "submit" /\ a # None
  /\ \/ a.status = "ok" /\ Iterate(c, 0)
     \/ a.status = "refused" /\ Return(c, IF c \in Deploys THEN "already" ELSE "refused")
     \/ a.status \in {"bare", "error"} /\ Return(c, "error")
  /\ answer' = [answer EXCEPT ![c] = None]
  /\ UNCHANGED <<ctxDone, nonce, polls, seen, alone, blind, sent, serverVars>>

\* does not count the exchanges that fail
ExchangeFailsUncounted(c) ==
  /\ pc[c] \in Asking
  /\ IF pc[c] = "poll" THEN Iterate(c, polls[c]) ELSE Return(c, "error")
  /\ answer' = [answer EXCEPT ![c] = None]
  /\ UNCHANGED <<ctxDone, nonce, polls, seen, alone, blind, sent, serverVars>>

\* returns the hash that was polled first
TakePollFirstHash(c) ==
  LET a == answer[c] IN
  /\ pc[c] = "poll" /\ a # None
  /\ polls' = [polls EXCEPT ![c] = @ + 1]
  /\ seen' = [seen EXCEPT ![c] = [state |-> a.state,
                                 hash |-> IF @ = None THEN a.hash ELSE @.hash]]
  /\ \/ a.state = "CONFIRMED" /\ Return(c, "ok")
     \/ a.state = "FAILED" /\ Return(c, "failed")
     \/ a.state \notin Final /\ Iterate(c, polls'[c])
  /\ answer' = [answer EXCEPT ![c] = None]
  /\ UNCHANGED <<ctxDone, nonce, alone, blind, sent, serverVars>>

\* submits again what has failed
TakePollSubmitsAgain(c) ==
  LET a == answer[c] IN
  /\ pc[c] = "poll" /\ a # None
  /\ polls' = [polls EXCEPT ![c] = @ + 1]
  /\ seen' = [seen EXCEPT ![c] = [state |-> a.state, hash |-> a.hash]]
  /\ \/ a.state = "CONFIRMED" /\ Return(c, "ok") /\ UNCHANGED sent
     \/ /\ a.state = "FAILED"
        /\ pc' = [pc EXCEPT ![c] = "submit"] /\ sent' = [sent EXCEPT ![c] = TRUE]
        /\ UNCHANGED result
     \/ a.state \notin Final /\ Iterate(c, polls'[c]) /\ UNCHANGED sent
  /\ answer' = [answer EXCEPT ![c] = None]
  /\ UNCHANGED <<ctxDone, nonce, alone, blind, serverVars>>

-----------------------------------------------------------------------------
(* The actions of a call                                                   *)

Start(c) ==
  /\ pc[c] = "idle"
  /\ pc' = [pc EXCEPT ![c] = "ask"]
  /\ alone' = [d \in Calls |-> d = c /\ Quiet]
  /\ UNCHANGED <<ctxDone, nonce, polls, seen, result, blind, answer, sent, serverVars>>

Cancel(c) ==
  /\ pc[c] \in Busy
  /\ ~ctxDone[c]
  /\ ctxDone' = [ctxDone EXCEPT ![c] = TRUE]
  /\ UNCHANGED <<pc, nonce, polls, seen, result, alone, blind, answer, sent, serverVars>>

\* The answer to GET /deployed or GET /nonce: sign and submit, unless the Safe
\* is deployed already or signing fails.  An execution signs a nonce, which is 0
\* if the answer has none.
TakeAsk(c) ==
  LET a == answer[c] IN
  /\ pc[c] = "ask" /\ a # None
  /\ \/ /\ a.status \in Success /\ ~(c \in Deploys /\ a.deployed)
        /\ pc' = [pc EXCEPT ![c] = "submit"]
        /\ IF c \in Deploys THEN UNCHANGED <<nonce, blind>>
           ELSE /\ nonce' = [nonce EXCEPT ![c] = a.nonce]
                /\ blind' = [blind EXCEPT ![c] = alone[c] /\ a.status = "bare"]
        /\ sent' = [sent EXCEPT ![c] = TRUE]
        /\ UNCHANGED result
     \/ /\ a.status \in Success /\ c \in Deploys /\ a.deployed
        /\ Return(c, "already")
        /\ UNCHANGED <<nonce, blind, sent>>
     \/ /\ a.status \notin Success \/ ~(c \in Deploys /\ a.deployed) \* or signing fails
        /\ Return(c, "error")
        /\ UNCHANGED <<nonce, blind, sent>>
  /\ answer' = [answer EXCEPT ![c] = None]
  /\ UNCHANGED <<ctxDone, polls, seen, alone, serverVars>>

\* The answer to POST /submit; polling starts, with the transactionID if there
\* is one.
TakeSubmit(c) ==
  LET a == answer[c] IN
  /\ pc[c] = "submit" /\ a # None
  /\ \/ a.status = "ok" /\ Iterate(c, 0)
     \/ a.status = "bare" /\ Return(c, "invalid")
     \/ a.status = "refused" /\ Return(c, "refused")
     \/ a.status = "error" /\ Return(c, "error")
  /\ answer' = [answer EXCEPT ![c] = None]
  /\ UNCHANGED <<ctxDone, nonce, polls, seen, alone, blind, sent, serverVars>>

\* The select of the polling loop; with both ready it may take either case.
Wait(c) ==
  /\ pc[c] = "wait"
  /\ \/ pc' = [pc EXCEPT ![c] = "poll"] /\ UNCHANGED result
     \/ ctxDone[c] /\ Return(c, "cancelled")
  /\ UNCHANGED <<ctxDone, nonce, polls, seen, alone, blind, answer, sent, serverVars>>

\* The answer to GET /transaction
TakePoll(c) ==
  LET a == answer[c] IN
  /\ pc[c] = "poll" /\ a # None
  /\ polls' = [polls EXCEPT ![c] = @ + 1]
  /\ seen' = IF a.status \in Success
             THEN [seen EXCEPT ![c] = [state |-> a.state, hash |-> a.hash]]
             ELSE seen
  /\ \/ a.status = "ok" /\ a.state = "CONFIRMED" /\ Return(c, "ok")
     \/ a.status = "ok" /\ a.state = "FAILED" /\ Return(c, "failed")
     \/ a.status \in Success /\ a.state \notin Final /\ Iterate(c, polls'[c])
     \/ a.status = "refused" /\ Return(c, "denied")
     \/ a.status = "error" /\ Iterate(c, polls'[c])
  /\ answer' = [answer EXCEPT ![c] = None]
  /\ UNCHANGED <<ctxDone, nonce, alone, blind, sent, serverVars>>

\* The exchange fails in transport, or because ctx is done.  Whatever the
\* relayer makes of the request, nobody hears of it.
ExchangeFails(c) ==
  /\ pc[c] \in Asking
  /\ IF pc[c] = "poll"
     THEN polls' = [polls EXCEPT ![c] = @ + 1] /\ Iterate(c, polls'[c])
     ELSE Return(c, "error") /\ UNCHANGED polls
  /\ answer' = [answer EXCEPT ![c] = None]
  /\ UNCHANGED <<ctxDone, nonce, seen, alone, blind, sent, serverVars>>

-----------------------------------------------------------------------------
(* The relayer and the Safe                                                *)

\* An answer to c with status s, from what the relayer knows now (transaction
\* t for c).
AnswerTo(c, s, t) ==
  answer' = [answer EXCEPT ![c] =
    IF s # "ok" THEN Nothing(s)
    ELSE [status |-> s, nonce |-> safeNonce, deployed |-> deployed,
          state |-> t.state, hash |-> t.hash]]

\* GET /deployed, GET /nonce, GET /transaction
ServeQuery(c) ==
  /\ pc[c] \in {"ask", "poll"} /\ answer[c] = None
  /\ \E s \in Status : AnswerTo(c, s, tx[c])
  /\ UNCHANGED <<callVars, sent, serverVars>>

\* POST /submit: a deployment is taken if the Safe is not there and its slot is
\* free (409 otherwise), a transaction if the Safe is there.  The caller may
\* have gone by now.
Takes(c) ==
  IF c \in Deploys
  THEN ~deployed /\ \A d \in Deploys : tx[d].state \notin Pending
  ELSE deployed
ServeSubmit(c) ==
  LET t == [state |-> "NEW", nonce |-> nonce[c], hash |-> 0] IN
  /\ sent[c]
  /\ sent' = [sent EXCEPT ![c] = FALSE]
  /\ \E s \in Status :
       /\ s \in Success => Takes(c)
       /\ tx' = IF s # "refused" /\ Takes(c) THEN [tx EXCEPT ![c] = t] ELSE tx
       /\ IF pc[c] = "submit" THEN AnswerTo(c, s, tx'[c]) ELSE UNCHANGED answer
  /\ UNCHANGED <<callVars, safeNonce, deployed>>

\* A submission whose exchange has failed never arrives.
LoseSubmit(c) ==
  /\ sent[c] /\ pc[c] # "submit"
  /\ sent' = [sent EXCEPT ![c] = FALSE]
  /\ UNCHANGED <<callVars, answer, serverVars>>

Move(c, st) == tx' = [tx EXCEPT ![c].state = st]

\* A transaction is sent, sent again for more gas, mined, confirmed; it may fail
\* for any reason, and cannot be mined once the Safe has used its nonce.
Advance(c) ==
  /\ \/ /\ tx[c].state = "NEW" \/ (tx[c].state = "EXECUTED" /\ tx[c].hash <= MaxHash)
        /\ tx' = [tx EXCEPT ![c].state = "EXECUTED", ![c].hash = @ + 1]
        /\ UNCHANGED <<safeNonce, deployed>>
     \/ /\ tx[c].state = "EXECUTED" /\ c \in Deploys
        /\ Move(c, "MINED")
        /\ deployed' = TRUE
        /\ UNCHANGED safeNonce
     \/ /\ tx[c].state = "EXECUTED" /\ c \notin Deploys /\ tx[c].nonce = safeNonce
        /\ Move(c, "MINED")
        /\ safeNonce' = safeNonce + 1
        /\ UNCHANGED deployed
     \/ /\ tx[c].state = "MINED"
        /\ Move(c, "CONFIRMED")
        /\ UNCHANGED <<safeNonce, deployed>>
     \/ /\ tx[c].state \in {"NEW", "EXECUTED"}
        /\ Move(c, "FAILED")
        /\ UNCHANGED <<safeNonce, deployed>>
  /\ UNCHANGED <<callVars, answer, sent>>

-----------------------------------------------------------------------------

ClientStep(c) == \/ TakeAsk(c) \/ TakeSubmit(c) \/ Wait(c) \/ TakePoll(c)
                 \/ ExchangeFails(c)
RelayerStep(c) == ServeQuery(c) \/ ServeSubmit(c) \/ LoseSubmit(c) \/ Advance(c)

Next == \E c \in Calls : Start(c) \/ Cancel(c) \/ ClientStep(c) \/ RelayerStep(c)

Spec == Init /\ [][Next]_vars

\* A call keeps running, and its HTTP exchanges end: the client has a timeout
\* (client.go:69).  The relayer and the chain need not ever do anything.
FairSpec == Spec /\ \A c \in Calls : WF_vars(ClientStep(c))

-----------------------------------------------------------------------------

CallTypeOK ==
  /\ pc \in [Calls -> {"idle", "done"} \cup Busy]
  /\ ctxDone \in [Calls -> BOOLEAN]
  /\ nonce \in [Calls -> Nat]
  /\ polls \in [Calls -> 0..MaxPolls]
  /\ seen \in [Calls -> [state : TxState, hash : Nat] \cup {None}]
  /\ result \in [Calls -> Result]
  /\ alone \in [Calls -> BOOLEAN]
  /\ blind \in [Calls -> BOOLEAN]
NetTypeOK ==
  /\ answer \in [Calls -> Answer \cup {None}]
  /\ sent \in [Calls -> BOOLEAN]
ServerTypeOK ==
  /\ tx \in [Calls -> [state : TxState, nonce : Nat, hash : Nat]]
  /\ safeNonce \in Nat
  /\ deployed \in BOOLEAN

\* Every variable is of its type; in particular no call polls more often than
\* it may.
TypeOK == CallTypeOK /\ NetTypeOK /\ ServerTypeOK

\* What a call returned is so, and stays so: nil means that its transaction is
\* confirmed under the hash it returned, or that the Safe is there;
\* ErrTxFailed, that the transaction has failed for good; a refusal, that there
\* is none; any other error with a transactionID, that there is one
\* (service.go:83-95, 171-183, 262-263).
OutcomeTrue ==
  \A c \in Calls :
    /\ result[c] = "ok" => /\ tx[c].state = "CONFIRMED"
                           /\ seen[c] = [state |-> "CONFIRMED", hash |-> tx[c].hash]
                           /\ c \in Deploys => deployed
    /\ result[c] = "already" => deployed
    /\ result[c] = "failed" => tx[c].state = "FAILED"
    /\ result[c] = "refused" => tx[c].state = "none" /\ ~sent[c]
    /\ result[c] \in WithID => tx[c].state # "none"

\* What SafePromise sees of a call.
Told(c) == IF result[c] = "ok" THEN seen[c].hash ELSE 0
Fate(c) == CASE tx[c].state \in Pending     -> "pending"
             [] tx[c].state = "CONFIRMED"   -> "confirmed"
             [] tx[c].state = "FAILED"      -> "failed"
             [] OTHER                       -> "none"
Hash(c) == IF tx[c].state = "CONFIRMED" THEN tx[c].hash ELSE 0
Promise == INSTANCE SafePromise WITH outcome <- result,
                                     told    <- [c \in Calls |-> Told(c)],
                                     fate    <- [c \in Calls |-> Fate(c)],
                                     hash    <- [c \in Calls |-> Hash(c)]

\* The two calls keep the promise of their comments: SafePromise, implemented by
\* all of this.  No call has a second transaction, none comes after a call that
\* said there is none, and what is final stays so (service.go:83-95, 171-183).
PromiseKept == Promise!Spec

\* The transaction of a call that nothing else overlaps, not even a transaction
\* or a submission left over from a call that gave up, carries the nonce the
\* Safe expects until it is mined or fails, if the relayer named one; an answer
\* without nonce counts as 0, on whatever Safe (service.go:200-204, 239,
\* client.go:172-174).
AloneHasNonce ==
  \A c \in Calls \ Deploys :
    alone[c] /\ pc[c] \in Busy /\ tx[c].state \in {"NEW", "EXECUTED"}
      => tx[c].nonce = IF blind[c] THEN 0 ELSE safeNonce

\* A poll that ends after ctx is done is the last: the call returns from it and
\* does not wait for another (service.go:277-281).
CancelStops ==
  [][\A c \in Calls : ctxDone[c] /\ pc[c] = "poll" /\ pc'[c] # "poll"
                       => pc'[c] = "done"]_vars

\* Every call returns, however the relayer behaves (service.go:276, 300).
CallReturns == \A c \in Calls : pc[c] # "idle" ~> pc[c] = "done"
=============================================================================
