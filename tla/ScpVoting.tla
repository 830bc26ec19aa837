----------------------------- MODULE ScpVoting ------------------------------
(***************************************************************************)
(* The state of an SCP slot and what it can infer from the messages it     *)
(* holds: the struct and the helper methods of consensus/scp/src/slot.rs,  *)
(* with the predicates of predicates.rs.                                   *)
(*                                                                         *)
(* ballots_accepted_committed keeps, for each value, the range of the last *)
(* node in the iteration order of a randomly seeded HashSet, so it and     *)
(* everything computed from it returns the set of its possible results.    *)
(***************************************************************************)
EXTENDS ScpMsg

CONSTANTS
  Node,
  quorum_nodes,           \* quorum_set.nodes(): the nodes in a node's quorum set
  FindQuorum(_, _),       \* findQuorum for a node and a predicate, see SatFn
  FindBlockingSet(_, _),  \* findBlockingSet for a node and a predicate
  values_of,              \* the values in a vector
  combine_fn,             \* combine_fn(Z), CombineErr when it fails
  ValidValue,             \* the values that a node's validity_fn accepts
  neighbors,              \* neighbors(): by node and nomination round
  priority,               \* priority hash of a node in a nomination round
  overflow_checks         \* TRUE in dev and test builds, FALSE in release builds

CombineErr == -1
Round == DOMAIN priority

(* A predicate is tested on the messages of more and more nodes and narrows *)
(* its candidates as it goes.  What matters to a search is whether some     *)
(* candidate is left once the nodes in S have been tested: sat[S].          *)
SatFn == [SUBSET Node -> BOOLEAN]

ASSUME QuorumNodesAssumption == quorum_nodes \in [Node -> SUBSET Node]
ASSUME FindQuorumAssumption ==
  \A n \in Node : \A sat \in SatFn : FindQuorum(n, sat) \subseteq Node
ASSUME FindBlockingSetAssumption ==
  \A n \in Node : \A sat \in SatFn : FindBlockingSet(n, sat) \subseteq Node
(* A node that needs no other for a quorum is not blocked by others. *)
ASSUME AloneAssumption ==
  \A n \in Node : (\E sat \in SatFn : FindQuorum(n, sat) = {n}) =>
    \A sat \in SatFn :
      (\A S \in SUBSET Node : n \in S => ~sat[S]) => FindBlockingSet(n, sat) = {}
ASSUME ValuesOfAssumption == values_of \in [List -> SUBSET Value]
ASSUME CombineFnAssumption ==
  combine_fn \in [(SUBSET Value) \ {{}} -> List \cup {CombineErr}]
(* What is combined is a selection of the given values. *)
ASSUME CombineSelects ==
  \A Z \in (SUBSET Value) \ {{}} :
    combine_fn[Z] # CombineErr => values_of[combine_fn[Z]] \subseteq Z
ASSUME ValidValueAssumption == ValidValue \in [Node -> SUBSET Value]
ASSUME RoundAssumption ==
  /\ DOMAIN priority \subseteq Nat
  /\ priority \in [Round -> [Node -> Nat]]
  /\ neighbors \in [Node -> [Round -> SUBSET Node]]
ASSUME OverflowChecksAssumption == overflow_checks \in BOOLEAN

Phase == {"NominatePrepare", "Prepare", "Commit", "Externalize"}

(* Why a node stopped.  "assert" is an assertion on the state of the slot,    *)
(* "search" one that relates the results of two searches, "message" the one   *)
(* that the message to be sent is valid; "phase" is                           *)
(* check_prepare_phase_invariants or check_commit_phase_invariants meeting    *)
(* the phase after its own, "depth" the bound of this model on how often a    *)
(* phase calls itself.                                                        *)
Fault == {"none", "phase", "overflow", "assert", "search", "message", "depth"}

(* History, which the code does not keep and only properties read: on which     *)
(* sides a counter of the slot has left the range of a u32.                      *)
Side == {"above", "below"}

Slot ==
  [phase : Phase, M : [Node -> OptMsg],
   W : SUBSET Value, X : SUBSET Value, Y : SUBSET Value, Z : SUBSET Value,
   B : Ballot, P : OptBallot, PP : OptBallot, H : OptBallot, C : OptBallot,
   last_sent_msg : OptMsg, max_priority_peers : SUBSET Node,
   nominate_round : Nat, nominate_timer : BOOLEAN, ballot_timer : BOOLEAN,
   fault : Fault, overflow : SUBSET Side]

-----------------------------------------------------------------------------
(* Searches.  Each takes the candidates of a predicate to what is left of    *)
(* them after the messages of a quorum, or of a blocking set, if there is    *)
(* one.  The local node is in every quorum and is not tested.                *)

(* ValueSetPredicate, BallotSetPredicate and BallotRangePredicate. *)
NarrowValues(vals, S, stmts) == {v \in vals : \A k \in S : v \in stmts[k]}

NarrowRange(range, S, stmts) == {c \in range : \A k \in S : c \in stmts[k]}

(* Every test replaces the candidates by the minimum of each pair of a        *)
(* candidate and a statement with the same value.                            *)
NarrowBallots(ballots, S, stmts) ==
  {b \in ballots \cup UNION {stmts[k] : k \in S} :
     /\ \E c \in ballots : CompatibleLE(b, c)
     /\ \A k \in S : \E a \in stmts[k] : CompatibleLE(b, a)}

QuorumOfValues(n, vals, stmts) ==
  LET Q == FindQuorum(n, [S \in SUBSET Node |-> NarrowValues(vals, S, stmts) # {}])
  IN IF Q = {} THEN {} ELSE NarrowValues(vals, Q \ {n}, stmts)

(* Mutant: an empty set of nodes is taken for a quorum. *)
QuorumOfRange_unchecked(n, range, stmts) ==
  NarrowRange(range, FindQuorum(n, [S \in SUBSET Node |-> NarrowRange(range, S, stmts) # {}])
                       \ {n}, stmts)

QuorumOfRange(n, range, stmts) ==
  LET Q == FindQuorum(n, [S \in SUBSET Node |-> NarrowRange(range, S, stmts) # {}])
  IN IF Q = {} THEN {} ELSE NarrowRange(range, Q \ {n}, stmts)

QuorumOfBallots(n, ballots, stmts) ==
  LET Q == FindQuorum(n, [S \in SUBSET Node |-> NarrowBallots(ballots, S, stmts) # {}])
  IN IF Q = {} THEN {} ELSE NarrowBallots(ballots, Q \ {n}, stmts)

BlockingForValue(n, v, stmts) ==
  FindBlockingSet(n, [S \in SUBSET Node |-> NarrowValues({v}, S, stmts) # {}]) # {}

BlockingForBallot(n, b, stmts) ==
  FindBlockingSet(n, [S \in SUBSET Node |-> NarrowBallots({b}, S, stmts) # {}]) # {}

BlockingForRange(n, range, stmts) ==
  FindBlockingSet(n, [S \in SUBSET Node |-> NarrowRange(range, S, stmts) # {}]) # {}

QuorumAtCounter(n, M, c) ==
  FindQuorum(n, [S \in SUBSET Node |-> \A k \in S : bN(M[k]) >= c]) # {}

BlockingAboveCounter(n, M, c) ==
  FindBlockingSet(n, [S \in SUBSET Node |-> \A k \in S : bN(M[k]) > c]) # {}

-----------------------------------------------------------------------------
(* What the slot can infer from the messages in M *)

AcceptsNominated(s) == [k \in Node |-> accepts_nominated(s.M[k])]
VotesOrAcceptsNominated(s) == [k \in Node |-> votes_or_accepts_nominated(s.M[k])]
AcceptsPrepared(s) == [k \in Node |-> accepts_prepared(s.M[k])]
VotesOrAcceptsPrepared(s) == [k \in Node |-> votes_or_accepts_prepared(s.M[k])]
AcceptsCommits(s, x) == [k \in Node |-> accepts_commits(s.M[k], x)]
VotesOrAcceptsCommits(s, x) == [k \in Node |-> votes_or_accepts_commits(s.M[k], x)]

additional_values_accepted_nominated(n, s) ==
  LET accepted == AcceptsNominated(s)
      candidates == UNION {accepted[k] : k \in Node \ {n}}
  IN {v \in candidates : BlockingForValue(n, v, accepted)}
       \cup QuorumOfValues(n, s.X, VotesOrAcceptsNominated(s))

additional_values_confirmed_nominated(n, s) ==
  QuorumOfValues(n, s.Y \ s.Z, AcceptsNominated(s))

(* The blocking set accepts the candidate it was asked about, not the lower   *)
(* ballot the search narrowed it to.                                          *)
ballots_accepted_prepared(n, s) ==
  LET accepted == AcceptsPrepared(s)
      candidates == UNION {accepted[k] : k \in quorum_nodes[n]}
      own == ({s.B} \ {ZeroBallot}) \cup ({s.P} \ {NoBallot})
               \cup (IF s.P = NoBallot THEN {} ELSE {s.PP} \ {NoBallot})
  IN {b \in candidates : BlockingForBallot(n, b, accepted)}
       \cup QuorumOfBallots(n, own, VotesOrAcceptsPrepared(s))

ballots_confirmed_prepared(n, s) ==
  QuorumOfBallots(n, ballots_accepted_prepared(n, s), AcceptsPrepared(s))

(* What a Commit or Externalize message accepts committed. *)
Committed(m) == m.type \in {"Commit", "Externalize"}
CommittedValue(m) == IF m.type = "Commit" THEN m.B.X ELSE m.C.X
CommittedRange(m) == accepts_commits(m, CommittedValue(m))

(* candidates: one range for each value; which node's range depends on the    *)
(* order of iteration.                                                       *)
CommitCandidates(n, s) ==
  LET msgs == {s.M[k] : k \in {j \in quorum_nodes[n] : Committed(s.M[j])}}
  IN {f \in [{CommittedValue(m) : m \in msgs} -> {CommittedRange(m) : m \in msgs}] :
        \A x \in DOMAIN f : \E m \in msgs : CommittedValue(m) = x /\ f[x] = CommittedRange(m)}

AcceptedFromBlockingSet(n, s, candidates) ==
  {x \in DOMAIN candidates : BlockingForRange(n, candidates[x], AcceptsCommits(s, x))}

(* The counters of B.X for which a quorum votes, if this node does as well. *)
AcceptedByQuorum(n, s) ==
  QuorumOfRange(n, IF s.C = NoBallot \/ s.H = NoBallot THEN {} ELSE s.C.N .. s.H.N,
                VotesOrAcceptsCommits(s, s.B.X))

RangeOf(f, x) == IF x \in DOMAIN f THEN f[x] ELSE {}
Hull(r) == Lowest(r) .. Highest(r)

(* The possible results: functions from values to ranges. *)
ballots_accepted_committed(n, s) ==
  LET union(f, blocking, by_quorum) ==
        [x \in blocking \cup (IF by_quorum = {} THEN {} ELSE {s.B.X}) |->
           Hull((IF x \in blocking THEN f[x] ELSE {})
                  \cup (IF x = s.B.X THEN by_quorum ELSE {}))]
  IN {union(f, AcceptedFromBlockingSet(n, s, f), AcceptedByQuorum(n, s)) :
        f \in CommitCandidates(n, s)}

(* Mutant: a quorum that votes to commit is taken for one that accepts to. *)
ballots_confirmed_committed_votes(n, s) ==
  {IF s.phase # "Commit" THEN {}
   ELSE QuorumOfRange(n, MaxOf(s.C.N, 0) .. MaxOf(s.H.N, 0), VotesOrAcceptsCommits(s, s.B.X))}

(* The possible results: ranges of counters for B.X, {} for None. *)
ballots_confirmed_committed(n, s) ==
  LET accepted ==
        CASE s.phase = "Commit" -> {MaxOf(s.C.N, 0) .. MaxOf(s.H.N, 0)}
          [] s.phase = "Externalize" ->
               {RangeOf(f, s.B.X) : f \in ballots_accepted_committed(n, s)}
          [] OTHER -> {{}}
  IN {QuorumOfRange(n, r, AcceptsCommits(s, s.B.X)) : r \in accepted}

-----------------------------------------------------------------------------
(* Timers: TRUE when armed; an armed timer may expire at any time.  The ballot *)
(* timer runs for B.N + 1 seconds: one that is armed at INFINITY never expires *)
(* and is not represented.                                                     *)

maybe_set_ballot_timer(n, s) ==
  IF /\ s.phase # "Externalize"
     /\ ~s.ballot_timer
     /\ s.B.N < INFINITY
     /\ QuorumAtCounter(n, s.M, s.B.N)
    THEN [s EXCEPT !.ballot_timer = TRUE] ELSE s

(* The lowest counter above which there is no blocking set of other nodes. *)
get_unblocking_ballot_counter(n, s) ==
  LET free == {c \in {s.B.N} \cup {bN(s.M[k]) : k \in Node} :
                 c >= s.B.N /\ ~BlockingAboveCounter(n, s.M, c)}
  IN IF free = {} THEN s.B.N ELSE Lowest(free)

NoList == -1

(* The value of the next ballot, NoList for None. *)
get_next_ballot_values(n, s) ==
  LET z == IF s.Z = {} THEN CombineErr ELSE combine_fn[s.Z]
      next(h, p) ==
        CASE h # NoBallot -> h.X
          [] h = NoBallot /\ z # CombineErr -> z
          [] h = NoBallot /\ z = CombineErr /\ p # NoBallot -> p.X
          [] OTHER -> IF s.B = ZeroBallot THEN NoList ELSE s.B.X
  IN next(MaxBallot(ballots_confirmed_prepared(n, s)),
          MaxBallot(ballots_accepted_prepared(n, s)))
=============================================================================
