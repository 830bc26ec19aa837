------------------------------ MODULE MCQuorum -------------------------------
(* The searches of QuorumSearch against their reference definitions, for every *)
(* choice of the nodes' quorum sets out of a family and of the statements that *)
(* their messages make about two candidates.                                   *)
EXTENDS Naturals, Sequences, FiniteSets

CONSTANTS n1, n2, n3, n4

QNode == {n1, n2, n3, n4}
Candidate == {1, 2}

VARIABLES
  qset,       \* the quorum set of each node
  stmts,      \* the candidates that each other node's message speaks for
  searched,   \* whether the searches of n1 are over
  quorum,     \* what findQuorum returned
  blocking    \* what findBlockingSet returned

vars == <<qset, stmts, searched, quorum, blocking>>

INSTANCE QuorumSearch WITH QSet <- qset

Flat(t, s) == [threshold |-> t, members |-> [i \in DOMAIN s |-> NodeMember(s[i])]]
Nested(t, s) == [threshold |-> t, members |-> s]

(* Thresholds over three nodes, inner sets first and last, a node that is in   *)
(* an inner set too, and the empty set of a node that follows nobody.          *)
Shapes(a, b, c) ==
  {Flat(t, <<a, b, c>>) : t \in 1 .. 3} \cup
  {Flat(0, <<>>),
   Nested(2, <<SetMember(Flat(1, <<a, b>>)), NodeMember(c)>>),
   Nested(1, <<NodeMember(a), SetMember(Flat(2, <<b, c>>))>>),
   Nested(2, <<NodeMember(a), SetMember(Flat(2, <<b, a>>)), NodeMember(c)>>)}

Family ==
  [n \in QNode |->
     CASE n = n1 -> Shapes(n2, n3, n4)
       [] n = n2 -> Shapes(n1, n3, n4)
       [] n = n3 -> {Flat(1, <<n1>>), Flat(2, <<n2, n4>>), Flat(0, <<>>)}
       [] n = n4 -> {Flat(2, <<n2, n3>>), Flat(1, <<n3, n1>>)}]

Init ==
  /\ qset \in {q \in [QNode -> UNION {Family[n] : n \in QNode}] :
                 \A n \in QNode : q[n] \in Family[n] /\ is_valid(q[n])}
  /\ stmts \in [QNode \ {n1} -> SUBSET Candidate]
  /\ searched = FALSE /\ quorum = {} /\ blocking = {}

(* A predicate over the messages: some candidate is left. *)
sat == [S \in SUBSET (QNode \ {n1}) |-> \E v \in Candidate : \A k \in S : v \in stmts[k]]

Search ==
  /\ ~searched
  /\ searched' = TRUE
  /\ quorum' = findQuorum(n1, sat)
  /\ blocking' = findBlockingSet(n1, sat)
  /\ UNCHANGED <<qset, stmts>>

Spec == Init /\ [][Search]_vars

(* Messages that speak for both candidates or for none: the test of a message *)
(* does not depend on which others were tested before it.                     *)
Independent == \A k \in QNode \ {n1} : stmts[k] \in {{}, Candidate}

(* What findQuorum returns is a quorum: it holds the searching node and, for   *)
(* every node in it, a slice of that node's own quorum set, and one candidate  *)
(* is left after the messages of all its members.                              *)
QuorumSound ==
  searched /\ quorum # {} => n1 \in quorum /\ IsQuorum(quorum) /\ sat[quorum \ {n1}]

(* findQuorum never backtracks over a member it has added; it still finds a     *)
(* quorum whenever there is one, if the predicate tests each message alone.     *)
QuorumComplete ==
  searched /\ Independent /\ quorum = {} =>
    ~\E S \in SUBSET QNode : n1 \in S /\ IsQuorum(S) /\ sat[S \ {n1}]

(* What findBlockingSet returns meets every slice of the node's quorum set, and *)
(* a candidate is left after the messages of its members.                       *)
BlockingSound ==
  searched /\ blocking # {} => IsBlocking(qset[n1], blocking) /\ sat[blocking]

(* findBlockingSet finds a blocking set whenever there is one, if the predicate *)
(* tests each message alone.                                                    *)
BlockingComplete ==
  searched /\ Independent /\ blocking = {} =>
    ~\E S \in SUBSET (QNode \ {n1}) : S # {} /\ IsBlocking(qset[n1], S) /\ sat[S]
=============================================================================
