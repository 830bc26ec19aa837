------------------------------ MODULE MCBallot -------------------------------
(* Balloting between three nodes that nomination has left with different       *)
(* ballots.  An initial state is computed by the operations of ScpSlot, from   *)
(* new slots, in the order of a script: a search that starts where the ballots *)
(* of the nodes differ reaches more of what can follow.                        *)
EXTENDS MCScp

CONSTANT Scripts    \* a sequence of scripts: how initial states come about

Only(S) == CHOOSE s \in S : TRUE

Propose(n, v) == [op |-> "propose", node |-> n, values |-> {v}]
Deliver(k, n) == [op |-> "deliver", node |-> n, from |-> {k}]
Timeout(n, nominate) == [op |-> "timeout", node |-> n, nominate |-> nominate]
NextRound(n) == Timeout(n, TRUE)
NextBallot(n) == Timeout(n, FALSE)

Play(slots, step) ==
  LET n == step.node
      s == slots[n]
  IN [slots EXCEPT ![n] =
        CASE step.op = "propose" -> Only(propose_values(n, s, step.values))
          [] step.op = "deliver" ->
               Only(handle_messages(n, s, [k \in step.from |-> slots[k].last_sent_msg]))
          [] step.op = "timeout" ->
               Only(process_timeouts(n, s, step.nominate, ~step.nominate))]

(* n1 and n2 confirm different values nominated; n3 has accepted both. *)
Nomination ==
  << Propose(n1, 1), Propose(n2, 2), Deliver(n1, n3), Deliver(n3, n1),
     NextRound(n3), Deliver(n2, n3), Deliver(n3, n2) >>

(* n1 and n2 have prepared a ballot while n3 is still nominating. *)
Lagging ==
  << Propose(n1, 1), Deliver(n1, n3), Deliver(n3, n1), NextRound(n2), Deliver(n1, n2),
     Deliver(n2, n1), Deliver(n1, n2) >>

(* n3 has timed out on the ballot it accepted prepared, n1 on its own. *)
Overtaken ==
  Nomination \o
  << Deliver(n2, n3), NextBallot(n3), Deliver(n3, n1), Deliver(n2, n1),
     Deliver(n1, n3), NextBallot(n1), Deliver(n1, n3), Deliver(n1, n2) >>

(* n1 and n2 lead their own first round, n1 the second of n2, n1 and then n2 those *)
(* of n3.                                                                          *)
SplitNeighbors ==
  [n \in Node |-> [r \in Round |->
     CASE n = n3 -> IF r = 2 THEN {n2, n3} ELSE {n1, n3}
       [] n = n2 /\ r = 2 -> {n1, n2}
       [] OTHER -> {n}]]
SplitPriority == [r \in 1 .. 3 |-> [n \in Node |-> IF n = n3 THEN 0 ELSE 1]]

Contested == << Overtaken, Lagging >>

(* The slots after the first i steps of a script. *)
After(script) ==
  LET played[i \in 0 .. Len(script)] ==
        IF i = 0 THEN [n \in Node |-> NewSlot(n)] ELSE Play(played[i - 1], script[i])
  IN played[Len(script)]

ContestedInit ==
  /\ \E i \in DOMAIN Scripts : slot = After(Scripts[i])
  /\ wire = [n \in Node |-> IF slot[n].last_sent_msg = NoMsg THEN {}
                             ELSE {slot[n].last_sent_msg}]
  /\ externalized = [n \in Node |-> FALSE]
  /\ restarts = [n \in Node |-> 0]

ContestedSpec == ContestedInit /\ [][Next]_vars
ContestedFairSpec == ContestedSpec /\ Fairness
=============================================================================
