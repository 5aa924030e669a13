------------------------------ MODULE BookFeed ------------------------------
(***************************************************************************)
(* What SubscribeBook promises its consumer (pkg/ws/types.go, UpdateType   *)
(* and BookUpdate): a consumer that replaces a token's book on SNAPSHOT,   *)
(* applies each DELTA, and drops all its books on RESET holds, for every   *)
(* token, either no book or the book as it was upstream at some version;   *)
(* versions are never skipped by a DELTA and never go back.                *)
(***************************************************************************)
EXTENDS Naturals

CONSTANT Tokens

VARIABLES
  version, \* how often each token's book has changed upstream
  shown,   \* the version the consumer's book has, or had before a RESET
  cache    \* "good" if the consumer holds a book of the token, else "empty"

vars == <<version, shown, cache>>

Init == /\ version \in [Tokens -> Nat]
        /\ shown = [t \in Tokens |-> 0]
        /\ cache = [t \in Tokens |-> "empty"]

\* Some books change upstream.
Change == /\ \E T \in SUBSET Tokens :
               version' = [t \in Tokens |-> IF t \in T THEN version[t] + 1
                                                       ELSE version[t]]
          /\ UNCHANGED <<shown, cache>>

Snapshot(t) == /\ \E v \in shown[t]..version[t] : shown' = [shown EXCEPT ![t] = v]
               /\ cache' = [cache EXCEPT ![t] = "good"]
               /\ UNCHANGED version

Delta(t) == /\ cache[t] = "good"
            /\ shown[t] < version[t]
            /\ shown' = [shown EXCEPT ![t] = @ + 1]
            /\ UNCHANGED <<version, cache>>

Reset == /\ cache' = [t \in Tokens |-> "empty"]
         /\ UNCHANGED <<version, shown>>

Next == Change \/ Reset \/ \E t \in Tokens : Snapshot(t) \/ Delta(t)

Spec == Init /\ [][Next]_vars
=============================================================================
