---------------------------- MODULE OrderPromise ----------------------------
(***************************************************************************)
(* What the calls of clob.Facade that place orders promise about each      *)
(* order request passed to them, however requests and answers get lost: an *)
(* id that is returned is that of an order made from this very request, a  *)
(* request reported as refused is not placed and never will be, and of     *)
(* everything else the caller knows nothing.                               *)
(***************************************************************************)

CONSTANTS
  Items, \* the order requests of all calls; an order is named by its request
  NoId

VARIABLES
  placed, \* the requests the exchange has made an order of
  word    \* what each call has said of each of its requests

Word == [verdict : {"none", "refused", "unknown"}, id : {NoId}]
          \cup [verdict : {"placed"}, id : Items]

Silent == [verdict |-> "none", id |-> NoId]

Init ==
  /\ placed = {}
  /\ word = [i \in Items |-> Silent]

\* The exchange makes orders of requests; none of a request that was refused.
Place ==
  /\ placed \subseteq placed' /\ placed' \subseteq Items
  /\ \A i \in placed' \ placed : word[i].verdict # "refused"
  /\ UNCHANGED word

\* A call returns: a word on each of its requests, once and for all.
Tell ==
  /\ word' \in [Items -> Word]
  /\ \A i \in Items : word'[i] # word[i] =>
       /\ word[i] = Silent
       /\ word'[i].verdict = "placed"  => i \in placed /\ word'[i].id = i
       /\ word'[i].verdict = "refused" => i \notin placed
  /\ UNCHANGED placed

Next == Place \/ Tell

Spec == Init /\ [][Next]_<<placed, word>>
=============================================================================
