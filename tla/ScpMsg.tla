------------------------------- MODULE ScpMsg -------------------------------
(***************************************************************************)
(* Ballots and messages of the Stellar Consensus Protocol as implemented   *)
(* in consensus/scp: ballot.rs and msg.rs.                                 *)
(*                                                                         *)
(* A Vec<V> is represented by its rank in the order of Vec<V>: a natural   *)
(* number, 0 for the empty vector.  Option<Ballot> is a ballot or NoBallot *)
(* whose counter -1 puts it below every ballot, as None is below Some.     *)
(* The order of messages is Rust's Ord for Topic, field by field, because  *)
(* a receiver drops whatever is not greater than what it already has.      *)
(***************************************************************************)
EXTENDS Integers, FiniteSets

CONSTANTS
  INFINITY,     \* u32::MAX, the highest ballot counter
  Value,        \* the values that can be proposed (V), as naturals in V's order
  List          \* ranks of the non-empty Vec<V> that combine_fn can return

ASSUME InfinityAssumption == INFINITY \in Nat \ {0}
ASSUME ValueAssumption == Value \subseteq Nat
ASSUME ListAssumption == List \subseteq Nat \ {0}

-----------------------------------------------------------------------------
(* Ballots *)

Counter == 0 .. INFINITY
EmptyList == 0
Ballot == [N : Counter, X : List \cup {EmptyList}]
NoBallot == [N |-> -1, X |-> EmptyList]
OptBallot == Ballot \cup {NoBallot}
ZeroBallot == [N |-> 0, X |-> EmptyList]
Bal(n, x) == [N |-> n, X |-> x]

(* u32 arithmetic of a release build, where overflow-checks = false wraps. *)
Inc(n) == (n + 1) % (INFINITY + 1)
Dec(n) == IF n = 0 THEN INFINITY ELSE n - 1
MaxOf(a, b) == IF a < b THEN b ELSE a

BallotLT(a, b) == a.N < b.N \/ (a.N = b.N /\ a.X < b.X)
BallotLE(a, b) == BallotLT(a, b) \/ a = b

(* Iterator::max and Iterator::min of a collection of ballots. *)
MaxBallot(S) ==
  IF \E b \in S : \A c \in S : BallotLE(c, b)
    THEN CHOOSE b \in S : \A c \in S : BallotLE(c, b)
    ELSE NoBallot
MinBallot(S) ==
  IF \E b \in S : \A c \in S : BallotLE(b, c)
    THEN CHOOSE b \in S : \A c \in S : BallotLE(b, c)
    ELSE NoBallot

(* The end points of a range of counters. *)
Lowest(r) ==
  IF \E c \in r : \A d \in r : c <= d
    THEN CHOOSE c \in r : \A d \in r : c <= d ELSE 0
Highest(r) ==
  IF \E c \in r : \A d \in r : d <= c
    THEN CHOOSE c \in r : \A d \in r : d <= c ELSE 0

(* p is greater than and incompatible with c: accepting p prepared aborts c. *)
Aborts(p, c) == BallotLT(c, p) /\ p.X # c.X
(* b is less than or equal to c and has the same value. *)
CompatibleLE(b, c) == b.X = c.X /\ b.N <= c.N

-----------------------------------------------------------------------------
(* Messages *)

NominateMsg == [type : {"Nominate"}, X : SUBSET Value, Y : SUBSET Value]
NominatePrepareMsg ==
  [type : {"NominatePrepare"}, X : SUBSET Value, Y : SUBSET Value,
   B : Ballot, P : OptBallot, PP : OptBallot, HN : Counter, CN : Counter]
PrepareMsg ==
  [type : {"Prepare"}, B : Ballot, P : OptBallot, PP : OptBallot,
   HN : Counter, CN : Counter]
CommitMsg ==
  [type : {"Commit"}, B : Ballot, PN : Counter, HN : Counter, CN : Counter]
ExternalizeMsg == [type : {"Externalize"}, C : Ballot, HN : Counter]
Msg == NominateMsg \cup NominatePrepareMsg \cup PrepareMsg \cup CommitMsg
         \cup ExternalizeMsg
(* No message: M has no entry for the node, or nothing has been sent. *)
NoMsg == [type |-> "None"]
OptMsg == Msg \cup {NoMsg}

Nominating(m) == m.type \in {"Nominate", "NominatePrepare"}
Preparing(m) == m.type \in {"NominatePrepare", "Prepare"}

(* BTreeSet<V>::cmp for sets of the same size: the sorted elements, in order. *)
SetLT(A, B) ==
  \E a \in A \ B : \A b \in (B \ A) \cup (A \ B) : a <= b
SizedSetLT(A, B) ==
  \/ Cardinality(A) < Cardinality(B)
  \/ Cardinality(A) = Cardinality(B) /\ SetLT(A, B)

NominateLT(a, b) ==
  SizedSetLT(a.Y, b.Y) \/ (a.Y = b.Y /\ SizedSetLT(a.X, b.X))

PrepareLT(a, b) ==
  \/ BallotLT(a.B, b.B)
  \/ a.B = b.B /\ BallotLT(a.P, b.P)
  \/ a.B = b.B /\ a.P = b.P /\ BallotLT(a.PP, b.PP)
  \/ a.B = b.B /\ a.P = b.P /\ a.PP = b.PP /\ a.HN < b.HN

SamePrepare(a, b) ==
  a.B = b.B /\ a.P = b.P /\ a.PP = b.PP /\ a.HN = b.HN /\ a.CN = b.CN

CommitLT(a, b) ==
  \/ BallotLT(a.B, b.B)
  \/ a.B = b.B /\ a.PN < b.PN
  \/ a.B = b.B /\ a.PN = b.PN /\ a.HN < b.HN

TopicRank(m) ==
  CASE m.type = "None" -> 0
    [] m.type = "Nominate" -> 1
    [] m.type = "NominatePrepare" -> 2
    [] m.type = "Prepare" -> 3
    [] m.type = "Commit" -> 4
    [] m.type = "Externalize" -> 5

TopicLT(a, b) ==
  \/ TopicRank(a) < TopicRank(b)
  \/ a.type = "Nominate" /\ b.type = "Nominate" /\ NominateLT(a, b)
  \/ /\ a.type = "NominatePrepare" /\ b.type = "NominatePrepare"
     /\ IF SamePrepare(a, b) THEN NominateLT(a, b) ELSE PrepareLT(a, b)
  \/ a.type = "Prepare" /\ b.type = "Prepare" /\ PrepareLT(a, b)
  \/ a.type = "Commit" /\ b.type = "Commit" /\ CommitLT(a, b)
  \/ a.type = "Externalize" /\ b.type = "Externalize" /\ a.HN < b.HN

(* Msg::validate.  Quorum sets are configuration and always valid here. *)
WellFormed(m) ==
  /\ Nominating(m) => m.X \cap m.Y = {}
  /\ Preparing(m) =>
       /\ m.P # NoBallot =>
            /\ BallotLE(m.P, m.B)
            /\ m.PP # NoBallot => BallotLT(m.PP, m.P)
       /\ m.CN <= m.HN
       /\ m.HN <= m.B.N
  /\ m.type = "Commit" => m.CN <= m.HN

-----------------------------------------------------------------------------
(* The statements a message makes *)

bN(m) ==
  CASE m.type = "None" -> -1
    [] m.type = "Nominate" -> 0
    [] m.type = "Externalize" -> INFINITY
    [] OTHER -> m.B.N

accepts_nominated(m) == IF Nominating(m) THEN m.Y ELSE {}

votes_or_accepts_nominated(m) == IF Nominating(m) THEN m.X \cup m.Y ELSE {}

accepts_prepared(m) ==
  CASE Preparing(m) ->
         IF m.P = NoBallot THEN {} ELSE {m.P, m.PP} \ {NoBallot}
    [] m.type = "Commit" -> {Bal(m.PN, m.B.X)}
    [] m.type = "Externalize" -> {Bal(INFINITY, m.C.X)}
    [] OTHER -> {}

votes_or_accepts_prepared(m) ==
  CASE Preparing(m) -> {m.B} \cup accepts_prepared(m)
    [] m.type = "Commit" -> {Bal(INFINITY, m.B.X)}
    [] m.type = "Externalize" -> {Bal(INFINITY, m.C.X)}
    [] OTHER -> {}

(* Mutant: an Externalize message does not count as accepting its commits. *)
accepts_commits_not_externalized(m, x) ==
  IF m.type = "Commit" /\ m.B.X = x THEN m.CN .. m.HN ELSE {}

(* The counters n for which m says "accept commit(<n, x>)".  A range (a, b)  *)
(* of counters is the interval a .. b; intersecting ranges intersects sets.  *)
accepts_commits(m, x) ==
  CASE m.type = "Commit" /\ m.B.X = x -> m.CN .. m.HN
    [] m.type = "Externalize" /\ m.C.X = x -> m.C.N .. INFINITY
    [] OTHER -> {}

(* Mutant: a vote to commit does not count. *)
votes_or_accepts_commits_accepts_only(m, x) == accepts_commits(m, x)

(* The counters n for which m says "vote-or-accept commit(<n, x>)". *)
votes_or_accepts_commits(m, x) ==
  CASE Preparing(m) /\ m.B.X = x /\ m.CN # 0 -> m.CN .. m.HN
    [] m.type = "Commit" /\ m.B.X = x -> m.CN .. INFINITY
    [] m.type = "Externalize" /\ m.C.X = x -> m.C.N .. INFINITY
    [] OTHER -> {}

(* Msg::values, as the vectors and single values the message refers to. *)
ListsOf(m) ==
  CASE Preparing(m) -> {m.B.X, m.P.X, m.PP.X}
    [] m.type = "Commit" -> {m.B.X}
    [] m.type = "Externalize" -> {m.C.X}
    [] OTHER -> {}
=============================================================================
