------------------------------ MODULE Consensus ------------------------------
(***************************************************************************)
(* What the network promises of one slot: one of the values that clients   *)
(* asked for is chosen, once, and nodes learn no other.  A node may forget *)
(* what it learned, but what was chosen stays chosen.  The promise is kept *)
(* until too many nodes have forgotten too much, which is for good.        *)
(***************************************************************************)
CONSTANTS Node, Value
VARIABLES intact, chosen, learned

Init == intact => chosen = {} /\ learned = [n \in Node |-> {}]

Choose(v) == chosen = {} /\ chosen' = {v}

(* Node n learns what is chosen, perhaps just now, or forgets it. *)
Learn(n) == learned' = [learned EXCEPT ![n] = chosen']
Forget(n) == learned' = [learned EXCEPT ![n] = {}]

Step ==
  /\ UNCHANGED chosen \/ \E v \in Value : Choose(v)
  /\ UNCHANGED learned \/ \E n \in Node : Learn(n) \/ Forget(n)

Next == intact' => intact /\ Step

Spec == Init /\ [][Next]_<<intact, chosen, learned>>
=============================================================================
