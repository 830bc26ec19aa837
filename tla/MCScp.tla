-------------------------------- MODULE MCScp --------------------------------
(* Instances of ScpNetwork for TLC. *)
EXTENDS ScpNetwork, QuorumSearch, TLC

CONSTANTS n1, n2, n3

(* Quorum sets *)
Flat(t, s) == [threshold |-> t, members |-> [i \in DOMAIN s |-> NodeMember(s[i])]]
ThreeNodes(t) ==
  n1 :> Flat(t, <<n2, n3>>) @@ n2 :> Flat(t, <<n1, n3>>) @@ n3 :> Flat(t, <<n1, n2>>)
OneOther == ThreeNodes(1)

TwoNodes == n1 :> Flat(1, <<n2>>) @@ n2 :> Flat(1, <<n1>>)

MCquorum_nodes == [n \in Node |-> nodes(QSet[n])]

(* Vectors of the values 1 and 2, ranked [1] < [1, 2] < [2]. *)
TwoValues == <<{1}, {1, 2}, {2}>>
CombineTwo == ({1} :> 1) @@ ({1, 2} :> 2) @@ ({2} :> 3)

(* Vectors of three values, ranked by their first difference. *)
ThreeValues == <<{1}, {1, 2}, {1, 2, 3}, {1, 3}, {2}, {2, 3}, {3}>>
CombineThree ==
  [S \in (SUBSET Value) \ {{}} |-> CHOOSE i \in DOMAIN ThreeValues : ThreeValues[i] = S]

SingleValue == <<{1}>>
CombineSingle == ({1} :> 1)

AllValid == [n \in Node |-> Value]

(* n1 leads the first round, n2 the second. *)
MCpriority ==
  [r \in 1 .. MaxRound + 1 |->
     [n \in Node |-> CASE n = n1 -> IF r = 1 THEN 3 ELSE 1 [] n = n2 -> 2 [] OTHER -> 0]]
EveryoneNeighbor == [n \in Node |-> [r \in 1 .. MaxRound + 1 |-> Node]]

(* n2 does not accept the value 1, which only n1 proposes. *)
SecondPicky == [n \in Node |-> IF n = n2 THEN {2, 3} ELSE Value]

(* Counters up to which ballot timers expire. *)
UpTo2 == [n \in Node |-> 2]
SecondUpTo2 == [n \in Node |-> IF n = n2 THEN 2 ELSE 0]
ThirdUpTo3 == [n \in Node |-> IF n = n3 THEN 3 ELSE 2]

OneProposer == [n \in Node |-> IF n = n1 THEN {1} ELSE {}]
TwoProposers == [n \in Node |-> CASE n = n1 -> {1} [] n = n2 -> {2} [] OTHER -> {}]
SecondMore == [n \in Node |-> IF n = n1 THEN {1} ELSE {2, 3}]
=============================================================================
