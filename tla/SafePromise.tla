---------------------------- MODULE SafePromise ----------------------------
(***************************************************************************)
(* What DeploySafe and ExecuteSafeTx promise their callers (the comments   *)
(* on the two and on waitTerminal in pkg/relayer/service.go), without      *)
(* requests, answers and polls.  A call gives rise to one transaction at   *)
(* most, which is under way until it is confirmed or has failed, for good. *)
(* It returns once, and what it returns is true when it returns it; after  *)
(* an error without transactionID that leaves the matter open, and only    *)
(* then, the transaction may still come.                                   *)
(***************************************************************************)
EXTENDS Naturals

CONSTANTS
  Calls,  \* the calls
  Deploys \* those of DeploySafe

VARIABLES
  outcome,  \* what each call returned; "none" before
  told,     \* the hash it returned with success
  fate,     \* of the call's transaction
  hash,     \* the hash it was confirmed under
  deployed  \* the Safe exists

vars == <<outcome, told, fate, hash, deployed>>

Init ==
  /\ outcome  = [c \in Calls |-> "none"]
  /\ told     = [c \in Calls |-> 0]
  /\ fate     = [c \in Calls |-> "none"]
  /\ hash     = [c \in Calls |-> 0]
  /\ deployed \in BOOLEAN

\* The relayer takes the call's transaction, the only one it will have.
Take(c) ==
  /\ fate[c] = "none" /\ outcome[c] \in {"none", "error"}
  /\ fate' = [fate EXCEPT ![c] = "pending"]
  /\ UNCHANGED <<outcome, told, hash, deployed>>

\* The Safe comes into being by a deployment.
Deploy(c) ==
  /\ c \in Deploys /\ fate[c] = "pending"
  /\ deployed' = TRUE
  /\ UNCHANGED <<outcome, told, fate, hash>>

Confirm(c) ==
  /\ fate[c] = "pending" /\ (c \in Deploys => deployed)
  /\ fate' = [fate EXCEPT ![c] = "confirmed"]
  /\ hash'[c] \in Nat
  /\ hash' = [hash EXCEPT ![c] = hash'[c]]
  /\ UNCHANGED <<outcome, told, deployed>>

Fail(c) ==
  /\ fate[c] = "pending"
  /\ fate' = [fate EXCEPT ![c] = "failed"]
  /\ UNCHANGED <<outcome, told, hash, deployed>>

\* What c may return: nil, with the final hash or because the Safe is there; that
\* the transaction has failed; that it was not taken; that it was, without a word
\* of what became of it; or that nothing is known.
Outcomes(c) ==
  {"error"}
  \cup (CASE fate[c] = "none"      -> {"refused"} \cup (IF c \in Deploys /\ deployed
                                                        THEN {"already"} ELSE {})
          [] fate[c] = "confirmed" -> {"ok"}
          [] fate[c] = "failed"    -> {"failed"}
          [] OTHER                 -> {})
  \cup (IF fate[c] = "none" THEN {} ELSE {"invalid", "denied", "cancelled", "timeout"})

Return(c) ==
  /\ outcome[c] = "none"
  /\ \E r \in Outcomes(c) :
       /\ outcome' = [outcome EXCEPT ![c] = r]
       /\ told' = [told EXCEPT ![c] = IF r = "ok" THEN hash[c] ELSE @]
  /\ UNCHANGED <<fate, hash, deployed>>

Next == \E c \in Calls : Take(c) \/ Deploy(c) \/ Confirm(c) \/ Fail(c) \/ Return(c)

Spec == Init /\ [][Next]_vars
=============================================================================
