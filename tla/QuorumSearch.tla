---------------------------- MODULE QuorumSearch ----------------------------
(***************************************************************************)
(* Quorum sets and the searches for quorums and blocking sets:             *)
(* consensus/scp/types/src/quorum_set.rs, consensus/scp/src/               *)
(* quorum_set_ext.rs.                                                      *)
(*                                                                         *)
(* A quorum set is [threshold, members], a member is [node |-> id] or      *)
(* [set |-> quorum set].  A predicate is sat[S]: whether it still has a    *)
(* candidate once the messages of the nodes in S have been tested, in any  *)
(* order.  A node whose message is missing satisfies no predicate.         *)
(***************************************************************************)
EXTENDS Naturals, Sequences, FiniteSets

CONSTANTS
  QNode,     \* the nodes
  QSet       \* QSet[n]: the quorum set of node n, which its messages carry

NodeMember(id) == [node |-> id]
SetMember(q) == [set |-> q]
IsNode(m) == "node" \in DOMAIN m

RECURSIVE nodes(_)
nodes(q) ==
  UNION {IF IsNode(q.members[i]) THEN {q.members[i].node} ELSE nodes(q.members[i].set) :
           i \in DOMAIN q.members}

RECURSIVE is_valid(_)
is_valid(q) ==
  /\ q.threshold <= Len(q.members)
  /\ \A i \in DOMAIN q.members :
       ~IsNode(q.members[i]) => is_valid(q.members[i].set)

(* Mutant: a member counts without a quorum of its own. *)
RECURSIVE findQuorumHelper_flat(_, _, _, _, _)
findQuorumHelper_flat(local, threshold, members, sat, nodes_so_far) ==
  LET rest == Tail(members)
      m == Head(members)
      found == IF IsNode(m)
                 THEN LET with_N == nodes_so_far \cup {m.node}
                      IN IF sat[with_N \ {local}] THEN with_N ELSE {}
                 ELSE findQuorumHelper_flat(local, m.set.threshold, m.set.members, sat,
                                            nodes_so_far)
  IN CASE threshold = 0 -> nodes_so_far
       [] threshold > Len(members) -> {}
       [] OTHER -> IF found # {}
                     THEN findQuorumHelper_flat(local, threshold - 1, rest, sat, found)
                     ELSE findQuorumHelper_flat(local, threshold, rest, sat, nodes_so_far)

(* local is the searching node, which every predicate takes for granted. *)
RECURSIVE findQuorumHelper(_, _, _, _, _)
findQuorumHelper(local, threshold, members, sat, nodes_so_far) ==
  LET rest == Tail(members)
      more(found) == findQuorumHelper(local, threshold - 1, rest, sat, found)
      skip == findQuorumHelper(local, threshold, rest, sat, nodes_so_far)
      try(q, found) == findQuorumHelper(local, q.threshold, q.members, sat, found)
      m == Head(members)
  IN CASE threshold = 0 -> nodes_so_far
       [] threshold > Len(members) -> {}
       [] OTHER ->
            IF IsNode(m)
              THEN LET with_N == nodes_so_far \cup {m.node}
                       found == IF sat[with_N \ {local}]
                                  THEN try(QSet[m.node], with_N) ELSE {}
                   IN CASE m.node \in nodes_so_far -> more(nodes_so_far)
                        [] m.node \notin nodes_so_far /\ found # {} -> more(found)
                        [] OTHER -> skip
              ELSE LET found == try(m.set, nodes_so_far)
                   IN IF found # {} THEN more(found) ELSE skip

(* Mutant: one member more than the threshold. *)
findQuorum_one_more(n, sat) ==
  findQuorumHelper(n, QSet[n].threshold + 1, QSet[n].members, sat, {n})

findQuorum(n, sat) ==
  findQuorumHelper(n, QSet[n].threshold, QSet[n].members, sat, {n})

(* Mutants: one node too few, and one too many. *)
Needed_one_less(q) == Len(q.members) - q.threshold
Needed_one_more(q) == (Len(q.members) - q.threshold) + 2

(* How many members of a quorum set meet each of its slices. *)
Needed(q) == (Len(q.members) - q.threshold) + 1

RECURSIVE findBlockingSetHelper(_, _, _, _)
findBlockingSetHelper(needed, members, sat, nodes_so_far) ==
  LET rest == Tail(members)
      m == Head(members)
      found == IF IsNode(m)
                 THEN IF sat[nodes_so_far \cup {m.node}]
                        THEN nodes_so_far \cup {m.node} ELSE {}
                 ELSE findBlockingSetHelper(Needed(m.set), m.set.members, sat,
                                            nodes_so_far)
  IN CASE needed = 0 -> nodes_so_far
       [] needed > Len(members) -> {}
       [] OTHER -> IF found # {}
                     THEN findBlockingSetHelper(needed - 1, rest, sat, found)
                     ELSE findBlockingSetHelper(needed, rest, sat, nodes_so_far)

findBlockingSet(n, sat) ==
  findBlockingSetHelper(Needed(QSet[n]), QSet[n].members, sat, {})

-----------------------------------------------------------------------------
(* Reference definitions, on sets *)

(* S holds a slice of q: threshold of its members, recursively. *)
RECURSIVE HasSlice(_, _)
HasSlice(q, S) ==
  Cardinality({i \in DOMAIN q.members :
                 IF IsNode(q.members[i]) THEN q.members[i].node \in S
                 ELSE HasSlice(q.members[i].set, S)}) >= q.threshold

(* A quorum holds a slice of each of its members. *)
IsQuorum(S) == \A n \in S : HasSlice(QSet[n], S)

(* S meets every slice of q. *)
IsBlocking(q, S) == ~HasSlice(q, nodes(q) \ S)
=============================================================================
