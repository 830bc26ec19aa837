---------------------------- MODULE ScpSlotProofs ----------------------------
(***************************************************************************)
(* Lemmas about the operations of a slot, for any number of nodes, values  *)
(* and counters: they take slots to slots and send well-typed messages; a  *)
(* value accepted committed stays; a value is externalized only when a     *)
(* quorum of the node's messages accepts it committed, and stays as well.  *)
(* Each lemma follows its operator: one step per intermediate slot.        *)
(***************************************************************************)
EXTENDS ScpSlot, TLAPS

-----------------------------------------------------------------------------
(* Ballots *)

(* Counters stay within a u32, and comparing two yields one of them. *)
LEMMA CounterTypes ==
  /\ Counter \subseteq Nat /\ 0 \in Counter /\ INFINITY \in Counter
  /\ \A n \in Counter : Inc(n) \in Counter /\ Dec(n) \in Counter
  /\ \A n \in Counter, m \in Counter \cup {-1} :
       MaxOf(n, m) \in Counter /\ MaxOf(m, 0) \in Counter /\ MaxOf(n, m) >= n
BY InfinityAssumption DEF Counter, Inc, Dec, MaxOf

(* Bal makes a ballot, and an optional ballot is one unless it is NoBallot. *)
LEMMA BallotTypes ==
  /\ \A n \in Counter, x \in List \cup {EmptyList} : Bal(n, x) \in Ballot
  /\ ZeroBallot \in Ballot /\ NoBallot \in OptBallot
  /\ \A b \in OptBallot : b.X \in List \cup {EmptyList} /\ b.N \in Counter \cup {-1}
  /\ \A b \in OptBallot : b # NoBallot => b \in Ballot
  /\ \A b \in Ballot : b \in OptBallot /\ b.N \in Counter /\ b.N \in Nat
<1>1. \A b \in Ballot : b.N \in Counter /\ b.N \in Nat
  BY InfinityAssumption DEF Ballot, Counter
<1>2. QED
  BY <1>1, CounterTypes DEF Ballot, OptBallot, NoBallot, ZeroBallot, Bal, EmptyList

(* The maximum and the minimum of a set of ballots are ballots, if there are any. *)
LEMMA MaxMinTypes ==
  ASSUME NEW S, S \subseteq Ballot
  PROVE  /\ MaxBallot(S) \in OptBallot /\ MinBallot(S) \in OptBallot
         /\ MaxBallot(S) # NoBallot => MaxBallot(S) \in S
         /\ MinBallot(S) # NoBallot => MinBallot(S) \in S
BY BallotTypes DEF MaxBallot, MinBallot

(* The end points of a range of counters are counters. *)
LEMMA RangeTypes ==
  ASSUME NEW r, r \subseteq Counter
  PROVE  Lowest(r) \in Counter /\ Highest(r) \in Counter /\ Hull(r) \subseteq Counter
<1>1. Lowest(r) \in Counter /\ Highest(r) \in Counter
  BY CounterTypes DEF Lowest, Highest
<1>2. QED
  BY <1>1, InfinityAssumption DEF Hull, Counter

-----------------------------------------------------------------------------
(* Messages *)

(* A message of a kind has the fields of that kind. *)
LEMMA MsgTypes ==
  ASSUME NEW m \in OptMsg
  PROVE  /\ m = NoMsg \/ m \in Msg
         /\ m.type = "None" <=> m = NoMsg
         /\ m.type = "Nominate" => m \in NominateMsg
         /\ m.type = "NominatePrepare" => m \in NominatePrepareMsg
         /\ m.type = "Prepare" => m \in PrepareMsg
         /\ m.type = "Commit" => m \in CommitMsg
         /\ m.type = "Externalize" => m \in ExternalizeMsg
         /\ m.type \in {"None", "Nominate", "NominatePrepare", "Prepare", "Commit", "Externalize"}
BY DEF OptMsg, Msg, NoMsg, NominateMsg, NominatePrepareMsg, PrepareMsg, CommitMsg, ExternalizeMsg

(* The statements of a message are about values, ballots and counters. *)
LEMMA StatementTypes ==
  ASSUME NEW m \in OptMsg
  PROVE  /\ accepts_nominated(m) \subseteq Value
         /\ votes_or_accepts_nominated(m) \subseteq Value
         /\ accepts_prepared(m) \subseteq Ballot
         /\ votes_or_accepts_prepared(m) \subseteq Ballot
         /\ bN(m) \in Counter \cup {-1}
<1>1. accepts_nominated(m) \subseteq Value /\ votes_or_accepts_nominated(m) \subseteq Value
  BY MsgTypes DEF accepts_nominated, votes_or_accepts_nominated, Nominating,
     NominateMsg, NominatePrepareMsg
<1>2. accepts_prepared(m) \subseteq Ballot
  <2>1. CASE Preparing(m)
    BY <2>1, MsgTypes, BallotTypes DEF accepts_prepared, Preparing, NominatePrepareMsg, PrepareMsg
  <2>2. CASE m.type = "Commit"
    BY <2>2, MsgTypes, BallotTypes DEF accepts_prepared, Preparing, CommitMsg
  <2>3. CASE m.type = "Externalize"
    BY <2>3, MsgTypes, BallotTypes, CounterTypes DEF accepts_prepared, Preparing, ExternalizeMsg
  <2>4. CASE m.type \in {"None", "Nominate"}
    BY <2>4 DEF accepts_prepared, Preparing
  <2>5. QED
    BY <2>1, <2>2, <2>3, <2>4, MsgTypes DEF Preparing
<1>3. votes_or_accepts_prepared(m) \subseteq Ballot
  <2>1. CASE Preparing(m)
    BY <1>2, <2>1, MsgTypes DEF votes_or_accepts_prepared, Preparing, NominatePrepareMsg, PrepareMsg
  <2>2. CASE m.type = "Commit"
    BY <2>2, MsgTypes, BallotTypes, CounterTypes DEF votes_or_accepts_prepared, Preparing, CommitMsg
  <2>3. CASE m.type = "Externalize"
    BY <2>3, MsgTypes, BallotTypes, CounterTypes
    DEF votes_or_accepts_prepared, Preparing, ExternalizeMsg
  <2>4. CASE m.type \in {"None", "Nominate"}
    BY <2>4 DEF votes_or_accepts_prepared, Preparing
  <2>5. QED
    BY <2>1, <2>2, <2>3, <2>4, MsgTypes DEF Preparing
<1>4. bN(m) \in Counter \cup {-1}
  BY MsgTypes, BallotTypes, CounterTypes
  DEF bN, NominatePrepareMsg, PrepareMsg, CommitMsg
<1>5. QED
  BY <1>1, <1>2, <1>3, <1>4

(* So are the ranges of ballots that it commits to. *)
LEMMA CommitTypes ==
  ASSUME NEW m \in OptMsg, NEW x
  PROVE  /\ accepts_commits(m, x) \subseteq Counter
         /\ votes_or_accepts_commits(m, x) \subseteq Counter
         /\ Committed(m) => CommittedValue(m) \in List \cup {EmptyList}
         /\ accepts_commits(m, x) # {} => Committed(m) /\ CommittedValue(m) = x
<1>1. accepts_commits(m, x) \subseteq Counter
  BY MsgTypes, InfinityAssumption
  DEF accepts_commits, Counter, CommitMsg, ExternalizeMsg, Ballot
<1>2. votes_or_accepts_commits(m, x) \subseteq Counter
  <2>1. CASE Preparing(m)
    BY <2>1, MsgTypes, InfinityAssumption
    DEF votes_or_accepts_commits, Preparing, Counter, NominatePrepareMsg, PrepareMsg
  <2>2. CASE ~Preparing(m)
    BY <2>2, MsgTypes, InfinityAssumption
    DEF votes_or_accepts_commits, Preparing, Counter, CommitMsg, ExternalizeMsg, Ballot
  <2>3. QED
    BY <2>1, <2>2
<1>3. Committed(m) => CommittedValue(m) \in List \cup {EmptyList}
  BY MsgTypes, BallotTypes DEF Committed, CommittedValue, CommitMsg, ExternalizeMsg
<1>4. accepts_commits(m, x) # {} => Committed(m) /\ CommittedValue(m) = x
  BY DEF accepts_commits, Committed, CommittedValue
<1>5. QED
  BY <1>1, <1>2, <1>3, <1>4

-----------------------------------------------------------------------------
(* Searches *)

(* A search leaves a subset of its candidates, or lower ballots; whatever is left *)
(* of a range is stated by all other members of a quorum.                         *)
LEMMA SearchTypes ==
  ASSUME NEW n \in Node
  PROVE  /\ \A vals, stmts : QuorumOfValues(n, vals, stmts) \subseteq vals
         /\ \A range, stmts : QuorumOfRange(n, range, stmts) \subseteq range
<1>1. \A vals, stmts : QuorumOfValues(n, vals, stmts) \subseteq vals
  BY DEF QuorumOfValues, NarrowValues
<1>2. \A range, stmts : QuorumOfRange(n, range, stmts) \subseteq range
  BY DEF QuorumOfRange, NarrowRange
<1>3. QED
  BY <1>1, <1>2

(* The ballots a quorum leaves over are ballots, though not all of them candidates. *)
LEMMA QuorumOfBallotsType ==
  ASSUME NEW n \in Node, NEW ballots, ballots \subseteq Ballot,
         NEW stmts, \A k \in Node : stmts[k] \subseteq Ballot
  PROVE  QuorumOfBallots(n, ballots, stmts) \subseteq Ballot
<1> DEFINE sat == [S \in SUBSET Node |-> NarrowBallots(ballots, S, stmts) # {}]
           Q == FindQuorum(n, sat)
<1>1. sat \in SatFn
  BY DEF SatFn
<1>2. Q \subseteq Node
  BY <1>1, FindQuorumAssumption
<1>3. QuorumOfBallots(n, ballots, stmts) \subseteq
        ballots \cup UNION {stmts[k] : k \in Q \ {n}}
  BY DEF QuorumOfBallots, NarrowBallots
<1> HIDE DEF Q
<1>4. QED
  BY <1>2, <1>3

-----------------------------------------------------------------------------
(* What a slot infers *)

(* The fields of a slot. *)
LEMMA SlotFields ==
  ASSUME NEW s \in Slot
  PROVE  /\ s.phase \in Phase /\ s.fault \in Fault
         /\ s.M \in [Node -> OptMsg] /\ s.last_sent_msg \in OptMsg
         /\ s.W \subseteq Value /\ s.X \subseteq Value /\ s.Y \subseteq Value /\ s.Z \subseteq Value
         /\ s.B \in Ballot /\ s.B.N \in Counter /\ s.B.X \in List \cup {EmptyList}
         /\ s.P \in OptBallot /\ s.PP \in OptBallot /\ s.H \in OptBallot /\ s.C \in OptBallot
         /\ s.max_priority_peers \subseteq Node /\ s.nominate_round \in Nat
         /\ s.nominate_timer \in BOOLEAN /\ s.ballot_timer \in BOOLEAN
<1>1. s.B \in Ballot
  BY DEF Slot
<1>2. QED
  BY <1>1, BallotTypes DEF Slot

(* Nomination infers values, of which those confirmed were accepted before. *)
LEMMA NominatedTypes ==
  ASSUME NEW n \in Node, NEW s \in Slot
  PROVE  /\ additional_values_accepted_nominated(n, s) \subseteq Value
         /\ additional_values_confirmed_nominated(n, s) \subseteq Value
<1>1. \A k \in Node : AcceptsNominated(s)[k] \subseteq Value
  BY SlotFields, StatementTypes DEF AcceptsNominated
<1>2. additional_values_accepted_nominated(n, s) \subseteq Value
  BY <1>1, SearchTypes, SlotFields DEF additional_values_accepted_nominated
<1>3. additional_values_confirmed_nominated(n, s) \subseteq Value
  BY SearchTypes, SlotFields DEF additional_values_confirmed_nominated
<1>4. QED
  BY <1>2, <1>3

(* The ballots accepted and confirmed prepared are ballots. *)
LEMMA PreparedTypes ==
  ASSUME NEW n \in Node, NEW s \in Slot
  PROVE  /\ ballots_accepted_prepared(n, s) \subseteq Ballot
         /\ ballots_confirmed_prepared(n, s) \subseteq Ballot
<1>1. /\ \A k \in Node : AcceptsPrepared(s)[k] \subseteq Ballot
      /\ \A k \in Node : VotesOrAcceptsPrepared(s)[k] \subseteq Ballot
  BY SlotFields, StatementTypes DEF AcceptsPrepared, VotesOrAcceptsPrepared
<1>2. ballots_accepted_prepared(n, s) \subseteq Ballot
  <2> DEFINE own == ({s.B} \ {ZeroBallot}) \cup ({s.P} \ {NoBallot})
                      \cup (IF s.P = NoBallot THEN {} ELSE {s.PP} \ {NoBallot})
             candidates == UNION {AcceptsPrepared(s)[k] : k \in quorum_nodes[n]}
  <2>1. own \subseteq Ballot
    BY SlotFields, BallotTypes
  <2>2. QuorumOfBallots(n, own, VotesOrAcceptsPrepared(s)) \subseteq Ballot
    BY <2>1, <1>1, QuorumOfBallotsType
  <2>3. candidates \subseteq Ballot
    BY <1>1, QuorumNodesAssumption
  <2>4. ballots_accepted_prepared(n, s) \subseteq
          candidates \cup QuorumOfBallots(n, own, VotesOrAcceptsPrepared(s))
    BY DEF ballots_accepted_prepared
  <2>5. QED
    BY <2>2, <2>3, <2>4
<1>3. ballots_confirmed_prepared(n, s) \subseteq Ballot
  BY <1>1, <1>2, QuorumOfBallotsType DEF ballots_confirmed_prepared
<1>4. QED
  BY <1>2, <1>3

(* Each result of ballots_accepted_committed takes values to ranges of counters. *)
LEMMA AcceptedCommittedTypes ==
  ASSUME NEW n \in Node, NEW s \in Slot,
         NEW f \in ballots_accepted_committed(n, s)
  PROVE  /\ DOMAIN f \subseteq List \cup {EmptyList}
         /\ \A x : RangeOf(f, x) \subseteq Counter
         /\ \A x \in DOMAIN f : f[x] \subseteq Counter
<1> DEFINE by_quorum == AcceptedByQuorum(n, s)
           blocking(g) == AcceptedFromBlockingSet(n, s, g)
           hull(g, x) == Hull((IF x \in blocking(g) THEN g[x] ELSE {})
                                \cup (IF x = s.B.X THEN by_quorum ELSE {}))
<1>1. PICK g \in CommitCandidates(n, s) :
        f = [x \in blocking(g) \cup (IF by_quorum = {} THEN {} ELSE {s.B.X}) |-> hull(g, x)]
  BY DEF ballots_accepted_committed
<1>2. by_quorum \subseteq Counter
  <2>1. (IF s.C = NoBallot \/ s.H = NoBallot THEN {} ELSE s.C.N .. s.H.N) \subseteq Counter
    BY SlotFields, BallotTypes, InfinityAssumption DEF Counter
  <2>2. QED
    BY <2>1, SearchTypes DEF AcceptedByQuorum
<1>3. /\ DOMAIN g \subseteq List \cup {EmptyList}
      /\ \A x \in DOMAIN g : g[x] \subseteq Counter
  <2> DEFINE msgs == {s.M[k] : k \in {j \in quorum_nodes[n] : Committed(s.M[j])}}
  <2>1. \A m \in msgs : m \in OptMsg /\ Committed(m)
    BY SlotFields, QuorumNodesAssumption
  <2>2. /\ DOMAIN g = {CommittedValue(m) : m \in msgs}
        /\ \A x \in DOMAIN g : \E m \in msgs : g[x] = CommittedRange(m)
    BY DEF CommitCandidates
  <2> HIDE DEF msgs
  <2>3. QED
    BY SMTT(30), <2>1, <2>2, CommitTypes DEF CommittedRange
<1>4. blocking(g) \subseteq DOMAIN g
  BY DEF AcceptedFromBlockingSet
<1>5. \A x : hull(g, x) \subseteq Counter
  BY <1>2, <1>3, <1>4, RangeTypes
<1>6. s.B.X \in List \cup {EmptyList}
  BY SlotFields
<1> HIDE DEF by_quorum, blocking, hull
<1>7. DOMAIN f \subseteq List \cup {EmptyList} /\ \A x \in DOMAIN f : f[x] \subseteq Counter
  BY <1>1, <1>3, <1>4, <1>5, <1>6
<1>8. QED
  BY <1>7 DEF RangeOf

(* Each result of ballots_confirmed_committed is a range of counters. *)
LEMMA ConfirmedCommittedTypes ==
  ASSUME NEW n \in Node, NEW s \in Slot,
         NEW r \in ballots_confirmed_committed(n, s)
  PROVE  r \subseteq Counter
<1>1. MaxOf(s.C.N, 0) .. MaxOf(s.H.N, 0) \subseteq Counter
  <2>1. MaxOf(s.C.N, 0) \in Counter /\ MaxOf(s.H.N, 0) \in Counter
    BY SlotFields, BallotTypes, CounterTypes
  <2>2. QED
    BY <2>1, InfinityAssumption DEF Counter
<1>2. \A f \in ballots_accepted_committed(n, s) : RangeOf(f, s.B.X) \subseteq Counter
  BY AcceptedCommittedTypes
<1>3. PICK accepted : accepted \subseteq Counter
                      /\ r = QuorumOfRange(n, accepted, AcceptsCommits(s, s.B.X))
  BY <1>1, <1>2 DEF ballots_confirmed_committed
<1>4. QED
  BY <1>3, SearchTypes

(* What a quorum of n says of ballots with value x: all its members other than n *)
(* accept one of them committed.                                                 *)
ConfirmedBy(n, M, x) ==
  \E sat \in SatFn :
    /\ FindQuorum(n, sat) # {}
    /\ \A k \in FindQuorum(n, sat) \ {n} : Committed(M[k]) /\ CommittedValue(M[k]) = x

(* If some ballot is confirmed committed, a quorum accepts its value committed. *)
LEMMA ConfirmedCommittedQuorum ==
  ASSUME NEW n \in Node, NEW s \in Slot,
         NEW r \in ballots_confirmed_committed(n, s), r # {}
  PROVE  ConfirmedBy(n, s.M, s.B.X)
<1> DEFINE stmts == AcceptsCommits(s, s.B.X)
<1>1. PICK accepted : r = QuorumOfRange(n, accepted, stmts)
  BY DEF ballots_confirmed_committed
<1> DEFINE sat == [S \in SUBSET Node |-> NarrowRange(accepted, S, stmts) # {}]
           Q == FindQuorum(n, sat)
<1>2. sat \in SatFn
  BY DEF SatFn
<1>3. Q \subseteq Node
  BY <1>2, FindQuorumAssumption
<1>4. Q # {} /\ r = NarrowRange(accepted, Q \ {n}, stmts)
  BY <1>1 DEF QuorumOfRange
<1>5. \A k \in Q \ {n} : stmts[k] # {}
  BY <1>4 DEF NarrowRange
<1>6. \A k \in Q \ {n} : accepts_commits(s.M[k], s.B.X) # {}
  BY <1>3, <1>5 DEF AcceptsCommits
<1>7. \A k \in Q \ {n} : Committed(s.M[k]) /\ CommittedValue(s.M[k]) = s.B.X
  BY <1>3, <1>6, SlotFields, CommitTypes
<1>8. QED
  BY <1>2, <1>4, <1>7 DEF ConfirmedBy

(* The next counter and the next value of a ballot make a ballot. *)
LEMMA NextBallotTypes ==
  ASSUME NEW n \in Node, NEW s \in Slot
  PROVE  /\ get_unblocking_ballot_counter(n, s) \in Counter
         /\ get_next_ballot_values(n, s) \in List \cup {EmptyList, NoList}
<1>1. get_unblocking_ballot_counter(n, s) \in Counter
  <2> DEFINE free == {c \in {s.B.N} \cup {bN(s.M[k]) : k \in Node} :
                        c >= s.B.N /\ ~BlockingAboveCounter(n, s.M, c)}
  <2>1. \A k \in Node : bN(s.M[k]) \in Counter \cup {-1}
    BY SlotFields, StatementTypes
  <2>2. free \subseteq Counter
    BY <2>1, SlotFields, InfinityAssumption DEF Counter
  <2> HIDE DEF free
  <2>3. Lowest(free) \in Counter
    BY <2>2, RangeTypes
  <2> USE DEF free
  <2>4. QED
    BY <2>3, SlotFields DEF get_unblocking_ballot_counter
<1>2. get_next_ballot_values(n, s) \in List \cup {EmptyList, NoList}
  <2>1. /\ MaxBallot(ballots_confirmed_prepared(n, s)).X \in List \cup {EmptyList}
        /\ MaxBallot(ballots_accepted_prepared(n, s)).X \in List \cup {EmptyList}
    BY PreparedTypes, MaxMinTypes, BallotTypes
  <2>2. s.Z # {} => combine_fn[s.Z] \in List \cup {CombineErr}
    <3>1. s.Z # {} => s.Z \in (SUBSET Value) \ {{}}
      BY SlotFields
    <3>2. QED
      BY <3>1, CombineFnAssumption
  <2>3. QED
    BY <2>1, <2>2, SlotFields DEF get_next_ballot_values
<1>3. QED
  BY <1>1, <1>2

-----------------------------------------------------------------------------
(* What an operation keeps *)

(* A slot whose decision, if it has one, is a ballot with the value of B. *)
Sound(s) ==
  /\ s \in Slot
  /\ s.phase = "Externalize" => s.C \in Ballot /\ s.H \in Ballot /\ s.C.X = s.B.X

Open == {"NominatePrepare", "Prepare"}
Locked == {"Commit", "Externalize"}

(* t follows s in the ballot protocol of n. *)
Follows(n, s, t) ==
  /\ Sound(t)
  /\ t.M = s.M /\ t.last_sent_msg = s.last_sent_msg
  /\ s.phase \in Locked => t.phase \in Locked /\ t.B.X = s.B.X
  /\ s.phase = "Externalize" =>
       t.phase = "Externalize" /\ t.C = s.C /\ s.H.N <= t.H.N
  /\ t.phase = "Externalize" => s.phase = "Externalize" \/ ConfirmedBy(n, t.M, t.B.X)

(* Follows is reflexive and transitive. *)
LEMMA FollowsOrder ==
  ASSUME NEW n \in Node
  PROVE  /\ \A s : Sound(s) => Follows(n, s, s)
         /\ \A s, t, u : Sound(s) /\ Follows(n, s, t) /\ Follows(n, t, u) => Follows(n, s, u)
<1>1. \A s : Sound(s) => Follows(n, s, s)
  <2>1. \A b \in Ballot : b.N <= b.N
    BY BallotTypes
  <2>2. QED
    BY <2>1 DEF Sound, Follows
<1>2. ASSUME NEW s, NEW t, NEW u, Sound(s), Follows(n, s, t), Follows(n, t, u)
      PROVE  Follows(n, s, u)
  <2>1. s.phase = "Externalize" => s.H.N <= u.H.N
    <3>1. s.phase = "Externalize" =>
            /\ s.H.N \in Nat /\ t.H.N \in Nat /\ u.H.N \in Nat
            /\ s.H.N <= t.H.N /\ t.H.N <= u.H.N
      BY <1>2, BallotTypes DEF Follows, Sound
    <3>2. QED
      BY <3>1
  <2>2. QED
    BY <1>2, <2>1 DEF Follows, Locked
<1>3. QED
  BY <1>1, <1>2

(* t is a slot that holds the messages of s and has sent no other. *)
Keeps(s, t) == t \in Slot /\ t.M = s.M /\ t.last_sent_msg = s.last_sent_msg

(* An operation that keeps a slot that has accepted nothing committed, and does  *)
(* not externalize, is one that the slot can follow.                             *)
LEMMA OpenFollows ==
  ASSUME NEW n \in Node, NEW s, NEW t, s.phase \in Open,
         Keeps(s, t), t.phase \in Open \cup {"Commit"}
  PROVE  Follows(n, s, t)
BY DEF Follows, Sound, Keeps, Open, Locked

(* Keeping is reflexive and transitive. *)
LEMMA KeepsOrder ==
  /\ \A s \in Slot : Keeps(s, s)
  /\ \A s, t, u : Keeps(s, t) /\ Keeps(t, u) => Keeps(s, u)
BY DEF Keeps

(* A failed assertion changes nothing but the fault. *)
LEMMA RequireTypes ==
  ASSUME NEW s \in Slot, NEW cond, NEW tag \in Fault
  PROVE  /\ Keeps(s, Require(s, cond, tag))
         /\ Require(s, cond, tag).phase = s.phase
         /\ Require(s, cond, tag).B = s.B
         /\ Require(s, cond, tag).P = s.P
         /\ Require(s, cond, tag).C = s.C
         /\ Require(s, cond, tag).H = s.H
         /\ ~Running(s) => Require(s, cond, tag) = s
         /\ ~cond /\ tag # "none" => ~Running(Require(s, cond, tag))
BY DEF Require, Slot, Keeps, Running

(* Checked arithmetic changes only fault and overflow, and in range nothing. *)
LEMMA CheckedTypes ==
  ASSUME NEW s \in Slot, NEW cond, NEW side \in Side
  PROVE  LET t == Checked(s, cond, side)
         IN /\ Keeps(s, t) /\ t.phase = s.phase
            /\ t.B = s.B /\ t.P = s.P /\ t.C = s.C /\ t.H = s.H
            /\ cond => t = s
<1> DEFINE u == IF cond THEN s ELSE [s EXCEPT !.overflow = @ \cup {side}]
<1>1. /\ Keeps(s, u) /\ u.phase = s.phase
      /\ u.B = s.B /\ u.P = s.P /\ u.C = s.C /\ u.H = s.H
  BY DEF Slot, Keeps
<1>2. Checked(s, cond, side) = Require(u, cond \/ ~overflow_checks, "overflow")
  BY DEF Checked
<1>3. cond => Checked(s, cond, side) = s
  BY DEF Checked, Require
<1> HIDE DEF u
<1>4. QED
  BY <1>1, <1>2, <1>3, RequireTypes, KeepsOrder DEF Keeps, Fault

-----------------------------------------------------------------------------
(* Nomination *)

(* Nomination keeps the phase, and panics in any phase but NominatePrepare. *)
LEMMA NominateTypes ==
  ASSUME NEW n \in Node, NEW s \in Slot
  PROVE  LET t == do_nominate_phase(n, s)
         IN /\ Keeps(s, t) /\ t.phase = s.phase
            /\ s.phase # "NominatePrepare" => ~Running(t)
<1> DEFINE s0 == Require(s, s.phase = "NominatePrepare", "assert")
           s1 == [s0 EXCEPT !.nominate_timer = TRUE,
                            !.X = IF s.Z = {} THEN VotedNominated(n, s) ELSE @]
           s2 == Require(s1, s1.Z = {} => s1.X \cap s1.Y = {}, "assert")
           s3 == update_YZ(n, s2)
           first == IF s3.Z # {} /\ s3.B = ZeroBallot THEN combine_fn[s3.Z] ELSE CombineErr
<1> "assert" \in Fault
  BY DEF Fault
<1> DEFINE panics == s.phase # "NominatePrepare"
<1>1. Keeps(s, s0) /\ s0.phase = s.phase /\ (panics => ~Running(s0))
  <2>1. Keeps(s, s0) /\ s0.phase = s.phase
    BY RequireTypes
  <2>2. panics => s0.fault # "none"
    BY DEF Require, Running, Slot
  <2>3. QED
    BY <2>1, <2>2 DEF Running
<1>2. VotedNominated(n, s) \subseteq Value
  <2>1. \A k \in s.max_priority_peers : votes_or_accepts_nominated(s.M[k]) \subseteq Value
    BY SlotFields, StatementTypes
  <2>2. QED
    BY <2>1, SlotFields DEF VotedNominated
<1> HIDE DEF s0, panics
<1>3. Keeps(s, s1) /\ s1.phase = s.phase /\ (panics => ~Running(s1))
  BY <1>1, <1>2 DEF Keeps, Slot, Running
<1> HIDE DEF s1
<1>4. Keeps(s, s2) /\ s2.phase = s.phase /\ (panics => ~Running(s2))
  BY <1>3, RequireTypes DEF Keeps
<1> HIDE DEF s2
<1>5. Keeps(s2, s3) /\ s3.phase = s2.phase /\ (panics => ~Running(s3))
  <2> DEFINE accepted == additional_values_accepted_nominated(n, s2)
             t1 == [s2 EXCEPT !.X = @ \ accepted, !.Y = @ \cup accepted]
             t2 == Require(t1, t1.X \cap t1.Y = {}, "assert")
             confirmed == additional_values_confirmed_nominated(n, t2)
  <2>1. accepted \subseteq Value
    BY <1>4, NominatedTypes DEF Keeps
  <2> HIDE DEF accepted
  <2>2. Keeps(s2, t1) /\ t1.phase = s2.phase /\ (panics => ~Running(t1))
    BY <2>1, <1>4 DEF Keeps, Slot, Running
  <2> HIDE DEF t1
  <2>3. Keeps(s2, t2) /\ t2.phase = s2.phase /\ (panics => ~Running(t2))
    BY <2>2, RequireTypes DEF Keeps
  <2> HIDE DEF t2
  <2>4. confirmed \subseteq Value
    BY <2>3, NominatedTypes DEF Keeps
  <2> HIDE DEF confirmed
  <2>5. s3 = [t2 EXCEPT !.Z = @ \cup confirmed]
    BY DEF update_YZ, t2, t1, accepted, confirmed
  <2>6. QED
    BY <2>3, <2>4, <2>5 DEF Keeps, Slot, Running
<1> HIDE DEF s3
<1>6. first \in List \cup {CombineErr}
  <2>1. s3.Z # {} => s3.Z \in (SUBSET Value) \ {{}}
    BY <1>5, SlotFields DEF Keeps
  <2>2. QED
    BY <2>1, CombineFnAssumption
<1>7. do_nominate_phase(n, s) =
        IF first = CombineErr THEN s3 ELSE [s3 EXCEPT !.B = Bal(1, first)]
  BY ZenonT(40) DEF do_nominate_phase, s3, s2, s1, s0
<1>8. first # CombineErr => Bal(1, first) \in Ballot
  BY <1>6, BallotTypes, InfinityAssumption DEF Counter
<1> HIDE DEF first
<1>9. QED
  BY <1>4, <1>5, <1>7, <1>8 DEF Keeps, Slot, Running, panics

-----------------------------------------------------------------------------
(* The Prepare phase *)

(* Checking the invariants changes nothing but the fault. *)
LEMMA CheckTypes ==
  ASSUME NEW s \in Slot
  PROVE  /\ Keeps(s, check_prepare_phase_invariants(s))
         /\ check_prepare_phase_invariants(s).phase = s.phase
         /\ Keeps(s, CheckCH(s)) /\ CheckCH(s).phase = s.phase /\ CheckCH(s).B = s.B
<1> "assert" \in Fault /\ "phase" \in Fault /\ "search" \in Fault
  BY DEF Fault
<1> DEFINE order == /\ (s.P # NoBallot /\ s.PP # NoBallot) => Aborts(s.P, s.PP)
                    /\ OrderedCH(s)
           t == Require(s, s.phase \in {"NominatePrepare", "Prepare"}, "phase")
           u == Require(t, order, "assert")
<1>1. Keeps(s, t) /\ t.phase = s.phase
  BY RequireTypes
<1> HIDE DEF t
<1> HIDE DEF order
<1>2. Keeps(s, u) /\ u.phase = s.phase
  BY <1>1, RequireTypes, KeepsOrder DEF Keeps
<1> HIDE DEF u
<1>3. /\ Keeps(s, check_prepare_phase_invariants(s))
      /\ check_prepare_phase_invariants(s).phase = s.phase
  <2> DEFINE v == Require(u, s.C # NoBallot => s.C.X = s.H.X, "search")
  <2>1. Keeps(s, v) /\ v.phase = s.phase
    BY <1>2, RequireTypes, KeepsOrder DEF Keeps
  <2> QED BY <2>1 DEF check_prepare_phase_invariants, u, t, order
<1>4. Keeps(s, CheckCH(s)) /\ CheckCH(s).phase = s.phase /\ CheckCH(s).B = s.B
  BY RequireTypes DEF CheckCH
<1>5. QED
  BY <1>3, <1>4

(* (1) keeps the phase. *)
LEMMA UpdatePTypes ==
  ASSUME NEW accepted, accepted \subseteq Ballot, NEW s \in Slot
  PROVE  Keeps(s, UpdateP(accepted, s)) /\ UpdateP(accepted, s).phase = s.phase
<1> DEFINE p == MaxBallot(accepted)
           pp == MaxBallot({b \in accepted : Aborts(p, b)})
           s1 == IF accepted = {} THEN s ELSE [s EXCEPT !.P = p, !.PP = pp]
           s2 == Require(s1, (s1.P # NoBallot /\ s1.PP # NoBallot) => Aborts(s1.P, s1.PP),
                        "assert")
<1> "assert" \in Fault
  BY DEF Fault
<1>1. p \in OptBallot
  BY MaxMinTypes
<1> HIDE DEF p
<1>2. pp \in OptBallot
  BY MaxMinTypes
<1> HIDE DEF pp
<1>3. Keeps(s, s1) /\ s1.phase = s.phase
  BY <1>1, <1>2 DEF Keeps, Slot
<1> HIDE DEF s1
<1>4. Keeps(s, s2) /\ s2.phase = s.phase
  BY <1>3, RequireTypes, KeepsOrder DEF Keeps
<1> HIDE DEF s2
<1>5. UpdateP(accepted, s) \in {s2, [s2 EXCEPT !.C = NoBallot]}
  BY DEF UpdateP, s2, s1, p, pp
<1>6. QED
  BY <1>4, <1>5, BallotTypes DEF Keeps, Slot

(* (2) leaves the slot in the phase it was in, or takes it to Prepare. *)
LEMMA UpdateHTypes ==
  ASSUME NEW n \in Node, NEW s \in Slot, s.phase \in Open
  PROVE  Keeps(s, UpdateH(n, s)) /\ UpdateH(n, s).phase \in Open
<1> DEFINE h == MaxBallot(ballots_confirmed_prepared(n, s))
           higher == IF BallotLT(h, s.H) THEN s.H ELSE h
           t == [s EXCEPT !.phase = "Prepare", !.H = higher]
<1>1. higher \in OptBallot
  BY PreparedTypes, MaxMinTypes, SlotFields
<1> HIDE DEF higher
<1>2. Keeps(s, t) /\ t.phase \in Open /\ t.nominate_timer \in BOOLEAN
  BY <1>1 DEF Keeps, Slot, Open, Phase
<1>3. UpdateH(n, s) \in {s, t, [t EXCEPT !.nominate_timer = FALSE]}
  <2>1. [s EXCEPT !.phase = "Prepare", !.nominate_timer = FALSE, !.H = higher]
          = [t EXCEPT !.nominate_timer = FALSE]
    BY DEF Slot
  <2>2. [s EXCEPT !.phase = "Prepare", !.nominate_timer = @, !.H = higher] = t
    BY DEF Slot
  <2>3. QED
    BY <2>1, <2>2 DEF UpdateH, higher
<1> HIDE DEF t
<1>4. QED
  BY ZenonT(40), <1>2, <1>3, KeepsOrder DEF Keeps, Slot

(* The counter that is raised stays a counter. *)
LEMMA RaiseTypes ==
  ASSUME NEW c \in Ballot, NEW p \in OptBallot
  PROVE  RaiseAbove(c, p) \in Ballot
<1>1. Aborts(p, c) => p.N \in Counter
  <2>1. c.N \in Nat /\ (p.N \in Counter \/ p.N = -1)
    BY BallotTypes
  <2>2. p.N = -1 => ~BallotLT(c, p)
    BY <2>1 DEF BallotLT
  <2>3. QED
    BY <2>1, <2>2 DEF Aborts
<1>2. QED
  BY <1>1, BallotTypes, CounterTypes DEF RaiseAbove

(* (3) keeps the phase. *)
LEMMA UpdateCTypes ==
  ASSUME NEW s \in Slot
  PROVE  Keeps(s, UpdateC(s)) /\ UpdateC(s).phase = s.phase
<1> DEFINE c0 == Bal(IF s.H.X >= s.B.X THEN s.B.N ELSE Inc(s.B.N), s.H.X)
           c == RaiseAbove(RaiseAbove(c0, s.P), s.PP)
           s1 == Require(s, BallotLE(s.B, c) /\ c.N <= s.H.N, "assert")
<1>1. c0 \in Ballot
  BY SlotFields, BallotTypes, CounterTypes
<1> HIDE DEF c0
<1>2. c \in Ballot
  BY <1>1, RaiseTypes, SlotFields
<1> HIDE DEF c
<1>3. Keeps(s, s1) /\ s1.phase = s.phase
  BY RequireTypes DEF Fault
<1> HIDE DEF s1
<1>4. UpdateC(s) \in {s, [s1 EXCEPT !.C = c]}
  BY DEF UpdateC, s1, c, c0
<1>5. QED
  BY <1>2, <1>3, <1>4, BallotTypes DEF Keeps, Slot

(* The ballot moves to H, if there is one, and nothing else changes. *)
LEMMA MoveBTypes ==
  ASSUME NEW s \in Slot, s.H \in Ballot
  PROVE  /\ Keeps(s, MoveB(s))
         /\ MoveB(s).phase = s.phase /\ MoveB(s).H = s.H /\ MoveB(s).C = s.C
<1> DEFINE t == CheckedInc(s, s.B.N)
           b == IF s.B.X # s.H.X THEN Bal(MaxOf(Inc(s.B.N), s.H.N), s.H.X)
                ELSE Bal(MaxOf(s.B.N, s.H.N), s.H.X)
<1>1. Keeps(s, t) /\ t.phase = s.phase /\ t.H = s.H /\ t.C = s.C
  BY CheckedTypes DEF CheckedInc, Side
<1>2. b \in Ballot
  BY SlotFields, BallotTypes, CounterTypes
<1>3. MoveB(s) \in {[t EXCEPT !.B = b], [s EXCEPT !.B = b]}
  BY DEF MoveB
<1> HIDE DEF t, b
<1>4. QED
  BY <1>1, <1>2, <1>3 DEF Keeps, Slot

(* (4) enters the Commit phase. *)
LEMMA EnterCommitTypes ==
  ASSUME NEW n \in Node, NEW s \in Slot, NEW committed,
         DOMAIN committed \subseteq List \cup {EmptyList},
         \A x : RangeOf(committed, x) \subseteq Counter,
         \A x \in DOMAIN committed : committed[x] \subseteq Counter
  PROVE  Keeps(s, EnterCommit(n, s, committed))
         /\ EnterCommit(n, s, committed).phase = "Commit"
<1> DEFINE S == {Bal(Lowest(committed[x]), x) : x \in DOMAIN committed}
           c == MinBallot(S)
           h == Bal(Highest(RangeOf(committed, c.X)), c.X)
           s0 == [s EXCEPT !.C = c, !.H = h]
           s1 == [MoveB(s0) EXCEPT !.phase = "Commit", !.nominate_timer = FALSE]
           p == MaxBallot({b \in ballots_accepted_prepared(n, s1) : b.X = s1.B.X})
           r == Require(s1, c.N <= h.N, "assert")
           s2 == Require(r, p # NoBallot, "search")
<1>1. S \subseteq Ballot
  BY RangeTypes, BallotTypes
<1> HIDE DEF S
<1>2. c \in OptBallot
  BY <1>1, MaxMinTypes
<1> HIDE DEF c
<1>3. h \in Ballot
  <2>1. Highest(RangeOf(committed, c.X)) \in Counter
    BY RangeTypes
  <2>2. QED
    BY <1>2, <2>1, BallotTypes
<1> HIDE DEF h
<1>4. Keeps(s, s0) /\ s0.H = h
  BY <1>2, <1>3, BallotTypes DEF Keeps, Slot
<1> HIDE DEF s0
<1>5. Keeps(s, MoveB(s0))
  BY <1>3, <1>4, MoveBTypes, KeepsOrder DEF Keeps
<1>6. Keeps(s, s1) /\ s1.phase = "Commit"
  BY <1>5 DEF Keeps, Slot, Phase
<1> HIDE DEF s1
<1>7. p \in OptBallot
  <2>1. {b \in ballots_accepted_prepared(n, s1) : b.X = s1.B.X} \subseteq Ballot
    BY <1>6, PreparedTypes DEF Keeps
  <2>2. QED
    BY <2>1, MaxMinTypes
<1> HIDE DEF p
<1>8. Keeps(s, s2) /\ s2.phase = "Commit"
  <2>1. Keeps(s, r) /\ r.phase = "Commit"
    BY <1>6, RequireTypes, KeepsOrder DEF Keeps, Fault
  <2> HIDE DEF r
  <2> QED BY <2>1, RequireTypes, KeepsOrder DEF Keeps, Fault
<1> HIDE DEF s2
<1>9. EnterCommit(n, s, committed) = [s2 EXCEPT !.P = p, !.PP = NoBallot]
  BY DEF EnterCommit, s2, r, s1, s0, p, h, c, S
<1>10. QED
  BY <1>7, <1>8, <1>9, BallotTypes DEF Keeps, Slot

(* Arming the ballot timer changes nothing else. *)
LEMMA TimerTypes ==
  ASSUME NEW n \in Node, NEW s \in Slot
  PROVE  LET t == maybe_set_ballot_timer(n, s)
         IN /\ Keeps(s, t) /\ t.phase = s.phase
            /\ t.B = s.B /\ t.C = s.C /\ t.H = s.H
<1>1. maybe_set_ballot_timer(n, s) \in {s, [s EXCEPT !.ballot_timer = TRUE]}
  BY DEF maybe_set_ballot_timer
<1>2. QED
  BY <1>1 DEF Keeps, Slot

(* (1) to (3), (8) and (9) do not leave the open phases. *)
LEMMA UpdatePHCTypes ==
  ASSUME NEW n \in Node, NEW accepted, accepted \subseteq Ballot,
         NEW s \in Slot, s.phase \in Open
  PROVE  Keeps(s, UpdatePHC(n, accepted, s)) /\ UpdatePHC(n, accepted, s).phase \in Open
<1> DEFINE s1 == UpdateP(accepted, s)
           s2 == UpdateH(n, s1)
           s3 == CheckCH(s2)
           s4 == UpdateC(s3)
<1>1. Keeps(s, s1) /\ s1.phase \in Open
  BY UpdatePTypes
<1> HIDE DEF s1
<1>2. Keeps(s, s2) /\ s2.phase \in Open
  BY <1>1, UpdateHTypes, KeepsOrder DEF Keeps
<1> HIDE DEF s2
<1>3. Keeps(s, s3) /\ s3.phase \in Open
  BY <1>2, CheckTypes, KeepsOrder DEF Keeps
<1> HIDE DEF s3
<1>4. Keeps(s, s4) /\ s4.phase \in Open
  BY <1>3, UpdateCTypes, KeepsOrder DEF Keeps
<1> HIDE DEF s4
<1>5. Keeps(s, CheckCH(s4)) /\ CheckCH(s4).phase \in Open
  BY <1>4, CheckTypes, KeepsOrder DEF Keeps
<1>6. QED
  BY <1>5 DEF UpdatePHC, s4, s3, s2, s1

(* Steps (8) and (9) of do_prepare_phase keep what was promised and stay in Prepare. *)
LEMMA FinishPrepareTypes ==
  ASSUME NEW n \in Node, NEW s \in Slot, s.phase \in Open
  PROVE  LET r == FinishPrepare(n, s)
         IN Keeps(s, r.slot) /\ r.slot.phase \in Open
<1> DEFINE s8 == IF s.H = NoBallot THEN s ELSE MoveB(s)
           counter == get_unblocking_ballot_counter(n, s8)
           x == get_next_ballot_values(n, s8)
           t == [s8 EXCEPT !.ballot_timer = FALSE, !.B = Bal(counter, x)]
<1>1. Keeps(s, s8) /\ s8.phase \in Open
  BY SlotFields, BallotTypes, MoveBTypes, KeepsOrder
<1> HIDE DEF s8
<1>2. counter \in Counter /\ x \in List \cup {EmptyList, NoList}
  BY <1>1, NextBallotTypes DEF Keeps
<1> HIDE DEF counter, x
<1>3. CASE s8.B.N < counter /\ x # NoList
  <2>1. Bal(counter, x) \in Ballot
    BY <1>2, <1>3, BallotTypes
  <2>2. Keeps(s, t) /\ t.phase \in Open
    BY <1>1, <2>1 DEF Keeps, Slot
  <2> HIDE DEF t
  <2>3. Keeps(s, maybe_set_ballot_timer(n, t)) /\ maybe_set_ballot_timer(n, t).phase \in Open
    BY <2>2, TimerTypes, KeepsOrder DEF Keeps
  <2>4. FinishPrepare(n, s).slot = maybe_set_ballot_timer(n, t)
    BY <1>3 DEF FinishPrepare, Unblock, t, x, counter, s8
  <2>5. QED
    BY <2>3, <2>4
<1>4. CASE ~(s8.B.N < counter /\ x # NoList)
  <2>1. FinishPrepare(n, s).slot = check_prepare_phase_invariants(s8)
    BY <1>4 DEF FinishPrepare, x, counter, s8
  <2>2. QED
    BY <2>1, <1>1, CheckTypes, KeepsOrder DEF Keeps
<1>5. QED
  BY <1>3, <1>4

(* A pass of the Prepare phase that goes on with another has not entered Commit. *)
LEMMA PreparePassTypes ==
  ASSUME NEW n \in Node, NEW s \in Slot, s.phase \in Open, NEW r \in PreparePass(n, s)
  PROVE  /\ Keeps(s, r.slot) /\ r.slot.phase \in Open \cup {"Commit"}
         /\ r.again => r.slot.phase \in Open
<1> DEFINE s0 == check_prepare_phase_invariants(s)
           accepted == ballots_accepted_prepared(n, s0)
           s3 == UpdatePHC(n, accepted, s0)
<1>1. Keeps(s, s0) /\ s0.phase \in Open
  BY CheckTypes
<1> HIDE DEF s0
<1>2. accepted \subseteq Ballot
  BY <1>1, PreparedTypes DEF Keeps
<1> HIDE DEF accepted
<1>3. Keeps(s, s3) /\ s3.phase \in Open
  BY <1>1, <1>2, UpdatePHCTypes, KeepsOrder DEF Keeps
<1> HIDE DEF s3
<1>4. \/ r = [slot |-> s0, again |-> FALSE]
      \/ r = FinishPrepare(n, s3)
      \/ \E f \in ballots_accepted_committed(n, s3) :
           r = [slot |-> EnterCommit(n, s3, f), again |-> FALSE]
  BY DEF PreparePass, UpdateBallots, ConcludePrepare, s3, accepted, s0
<1>5. CASE r = [slot |-> s0, again |-> FALSE]
  BY <1>1, <1>5
<1>6. CASE r = FinishPrepare(n, s3)
  BY <1>3, <1>6, FinishPrepareTypes, KeepsOrder DEF Keeps
<1>7. ASSUME NEW f \in ballots_accepted_committed(n, s3),
             r = [slot |-> EnterCommit(n, s3, f), again |-> FALSE]
      PROVE  Keeps(s, r.slot) /\ r.slot.phase = "Commit" /\ ~r.again
  <2>1. s3 \in Slot
    BY <1>3 DEF Keeps
  <2>2. Keeps(s3, EnterCommit(n, s3, f)) /\ EnterCommit(n, s3, f).phase = "Commit"
    BY <2>1, AcceptedCommittedTypes, EnterCommitTypes
  <2>3. QED
    BY <1>3, <1>7, <2>2, KeepsOrder
<1>8. QED
  BY <1>4, <1>5, <1>6, <1>7

(* do_prepare_phase. *)
LEMMA PrepareFollows ==
  ASSUME NEW n \in Node, NEW s \in Slot, s.phase \in Open,
         NEW t \in do_prepare_phase(n, s)
  PROVE  Follows(n, s, t)
<1>1. PICK r \in PreparePass(n, s) :
        \/ ~r.again /\ t = r.slot
        \/ /\ r.again
           /\ \E u \in PreparePass(n, r.slot) :
                t = check_prepare_phase_invariants(Require(u.slot, ~u.again, "depth"))
  BY DEF do_prepare_phase
<1>2. CASE ~r.again /\ t = r.slot
  BY <1>2, PreparePassTypes, OpenFollows
<1>3. ASSUME r.again, NEW u \in PreparePass(n, r.slot),
             t = check_prepare_phase_invariants(Require(u.slot, ~u.again, "depth"))
      PROVE  Follows(n, s, t)
  <2>1. Keeps(s, r.slot) /\ r.slot.phase \in Open
    BY <1>3, PreparePassTypes
  <2>2. Keeps(s, u.slot) /\ u.slot.phase \in Open \cup {"Commit"}
    BY <2>1, PreparePassTypes, KeepsOrder DEF Keeps
  <2> DEFINE v == Require(u.slot, ~u.again, "depth")
  <2>3. Keeps(s, v) /\ v.phase \in Open \cup {"Commit"}
    BY <2>2, RequireTypes, KeepsOrder DEF Keeps, Fault
  <2> HIDE DEF v
  <2>4. Keeps(s, t) /\ t.phase \in Open \cup {"Commit"}
    BY <1>3, <2>3, CheckTypes, KeepsOrder DEF Keeps, v
  <2>5. QED
    BY <2>4, OpenFollows
<1>4. QED
  BY <1>1, <1>2, <1>3

-----------------------------------------------------------------------------
(* The Commit and Externalize phases *)

(* A slot in the Commit phase that keeps its value can follow. *)
LEMMA CommitFollows ==
  ASSUME NEW n \in Node, NEW s, NEW t, s.phase = "Commit",
         Keeps(s, t), t.phase = "Commit", t.B.X = s.B.X
  PROVE  Follows(n, s, t)
BY DEF Follows, Sound, Keeps, Locked

(* Checking the invariants changes nothing but the fault. *)
LEMMA CheckCommitTypes ==
  ASSUME NEW s \in Slot
  PROVE  /\ LET t == check_commit_phase_invariants(s)
            IN /\ Keeps(s, t) /\ t.phase = s.phase
               /\ t.B = s.B /\ t.C = s.C /\ t.H = s.H
         /\ LET t == check_externalize_phase_invariants(s)
            IN /\ Keeps(s, t) /\ t.phase = s.phase
               /\ t.B = s.B /\ t.C = s.C /\ t.H = s.H
<1> "assert" \in Fault /\ "phase" \in Fault
  BY DEF Fault
<1> DEFINE t == Require(s, s.phase = "Commit", "phase")
<1>1. Keeps(s, t) /\ t.phase = s.phase /\ t.B = s.B /\ t.C = s.C /\ t.H = s.H
  BY RequireTypes
<1> HIDE DEF t
<1>2. \A cond : LET u == Require(t, cond, "assert")
                IN Keeps(s, u) /\ u.phase = s.phase /\ u.B = s.B /\ u.C = s.C /\ u.H = s.H
  BY <1>1, RequireTypes, KeepsOrder DEF Keeps
<1>3. LET u == check_commit_phase_invariants(s)
      IN Keeps(s, u) /\ u.phase = s.phase /\ u.B = s.B /\ u.C = s.C /\ u.H = s.H
  BY <1>2 DEF check_commit_phase_invariants, t
<1>4. LET u == check_externalize_phase_invariants(s)
      IN Keeps(s, u) /\ u.phase = s.phase /\ u.B = s.B /\ u.C = s.C /\ u.H = s.H
  BY RequireTypes DEF check_externalize_phase_invariants
<1>5. QED
  BY <1>3, <1>4

(* (5) changes nothing but P. *)
LEMMA UpdateCommitPTypes ==
  ASSUME NEW n \in Node, NEW s \in Slot
  PROVE  LET t == UpdateCommitP(n, s) IN Keeps(s, t) /\ t.phase = s.phase /\ t.B = s.B
<1> DEFINE p == MaxBallot({b \in ballots_accepted_prepared(n, s) : b.X = s.B.X})
<1>1. p \in OptBallot
  <2>1. {b \in ballots_accepted_prepared(n, s) : b.X = s.B.X} \subseteq Ballot
    BY PreparedTypes
  <2>2. QED
    BY <2>1, MaxMinTypes
<1>2. UpdateCommitP(n, s) \in {s, [s EXCEPT !.P = p]}
  BY DEF UpdateCommitP
<1> HIDE DEF p
<1>3. QED
  BY <1>1, <1>2 DEF Keeps, Slot

(* C and H get the value of B. *)
LEMMA SetCHTypes ==
  ASSUME NEW s \in Slot, NEW r, r \subseteq Counter
  PROVE  LET t == SetCH(s, r)
         IN /\ Keeps(s, t) /\ t.phase = s.phase /\ t.B = s.B
            /\ r # {} => t.C \in Ballot /\ t.H \in Ballot /\ t.C.X = s.B.X
<1> DEFINE c == Bal(Lowest(r), s.B.X)
           h == Bal(Highest(r), s.B.X)
<1>1. c \in Ballot /\ h \in Ballot /\ c \in OptBallot /\ h \in OptBallot
  BY RangeTypes, SlotFields, BallotTypes
<1>2. c.X = s.B.X
  BY DEF Bal
<1>3. SetCH(s, r) = IF r = {} THEN s ELSE [s EXCEPT !.C = c, !.H = h]
  BY DEF SetCH
<1> HIDE DEF c, h
<1>4. QED
  BY ZenonT(40), <1>1, <1>2, <1>3 DEF Keeps, Slot

(* (7) externalizes the value of B, which a quorum has committed to. *)
LEMMA EnterExternalizeFollows ==
  ASSUME NEW n \in Node, NEW s \in Slot, s.phase = "Commit",
         NEW confirmed \in ballots_confirmed_committed(n, s), confirmed # {}
  PROVE  Follows(n, s, EnterExternalize(s, confirmed))
<1> DEFINE t == SetCH(s, confirmed)
           u == EnterExternalize(s, confirmed)
<1>1. confirmed \subseteq Counter /\ ConfirmedBy(n, s.M, s.B.X)
  BY ConfirmedCommittedTypes, ConfirmedCommittedQuorum
<1>2. Keeps(s, t) /\ t.B = s.B /\ t.C \in Ballot /\ t.H \in Ballot /\ t.C.X = s.B.X
  BY <1>1, SetCHTypes
<1>3. u = [t EXCEPT !.phase = "Externalize", !.nominate_timer = FALSE, !.ballot_timer = FALSE]
  BY DEF EnterExternalize
<1> HIDE DEF t, u
<1>4. /\ Keeps(s, u) /\ u.phase = "Externalize"
      /\ u.B = s.B /\ u.C \in Ballot /\ u.H \in Ballot /\ u.C.X = s.B.X
  BY <1>2, <1>3 DEF Keeps, Slot, Phase
<1>5. Follows(n, s, u)
  BY <1>1, <1>4 DEF Follows, Sound, Keeps, Locked
<1>6. QED
  BY <1>5 DEF u

(* (8) and (9) raise the counter of B. *)
LEMMA RaiseBTypes ==
  ASSUME NEW s \in Slot, NEW c \in Counter
  PROVE  LET t == [s EXCEPT !.B.N = c]
         IN Keeps(s, t) /\ t.phase = s.phase /\ t.B.X = s.B.X
<1> DEFINE b == [s.B EXCEPT !.N = c]
<1>1. b \in Ballot /\ b.X = s.B.X
  BY SlotFields DEF Ballot
<1>2. [s EXCEPT !.B.N = c] = [s EXCEPT !.B = b]
  OBVIOUS
<1> HIDE DEF b
<1>3. QED
  BY <1>1, <1>2 DEF Keeps, Slot

(* Steps (8) and (9) of do_commit_phase change the counter of B, not its value. *)
LEMMA FinishCommitTypes ==
  ASSUME NEW n \in Node, NEW s \in Slot, s.phase = "Commit"
  PROVE  LET r == FinishCommit(n, s)
         IN Keeps(s, r.slot) /\ r.slot.phase = "Commit" /\ r.slot.B.X = s.B.X
<1> DEFINE c == MaxOf(s.B.N, s.H.N)
           s8 == [s EXCEPT !.B.N = c]
           counter == get_unblocking_ballot_counter(n, s8)
           t == [s8 EXCEPT !.ballot_timer = FALSE]
           u == [t EXCEPT !.B.N = counter]
<1>1. c \in Counter
  BY SlotFields, BallotTypes, CounterTypes
<1>2. Keeps(s, s8) /\ s8.phase = "Commit" /\ s8.B.X = s.B.X
  BY <1>1, RaiseBTypes
<1>3. s8 = [s EXCEPT !.B.N = MaxOf(@, s.H.N)]
  BY SlotFields
<1> HIDE DEF s8
<1>4. counter \in Counter
  BY <1>2, NextBallotTypes DEF Keeps
<1> HIDE DEF counter
<1>5. Keeps(s, t) /\ t.phase = "Commit" /\ t.B.X = s.B.X
  BY <1>2 DEF Keeps, Slot
<1>6. [s8 EXCEPT !.ballot_timer = FALSE, !.B.N = counter] = u
  BY <1>2 DEF Keeps, Slot
<1> HIDE DEF t
<1>7. Keeps(s, u) /\ u.phase = "Commit" /\ u.B.X = s.B.X
  BY <1>4, <1>5, RaiseBTypes, KeepsOrder DEF Keeps
<1> HIDE DEF u
<1>8. LET v == check_commit_phase_invariants(s8)
      IN Keeps(s, v) /\ v.phase = "Commit" /\ v.B.X = s.B.X
  BY <1>2, CheckCommitTypes, KeepsOrder DEF Keeps
<1>9. FinishCommit(n, s).slot \in {u, check_commit_phase_invariants(s8)}
  BY <1>3, <1>6 DEF FinishCommit, counter
<1>10. QED
  BY <1>7, <1>8, <1>9

(* A pass of the Commit phase that goes on with another has not externalized. *)
LEMMA CommitPassFollows ==
  ASSUME NEW n \in Node, NEW s \in Slot, s.phase = "Commit", NEW r \in CommitPass(n, s)
  PROVE  Follows(n, s, r.slot) /\ (r.again => r.slot.phase = "Commit")
<1> DEFINE s0 == check_commit_phase_invariants(s)
           s5 == UpdateCommitP(n, s0)
           s6(f) == CheckCH(SetCH(s5, RangeOf(f, s5.B.X)))
<1>1. Keeps(s, s0) /\ s0.phase = "Commit" /\ s0.B.X = s.B.X
  BY CheckCommitTypes
<1> HIDE DEF s0
<1>2. Keeps(s, s5) /\ s5.phase = "Commit" /\ s5.B.X = s.B.X
  BY <1>1, UpdateCommitPTypes, KeepsOrder DEF Keeps
<1> HIDE DEF s5
<1>3. ASSUME NEW f \in ballots_accepted_committed(n, s5)
      PROVE  Keeps(s, s6(f)) /\ s6(f).phase = "Commit" /\ s6(f).B.X = s.B.X
  <2> DEFINE t == SetCH(s5, RangeOf(f, s5.B.X))
  <2>1. RangeOf(f, s5.B.X) \subseteq Counter
    BY <1>2, AcceptedCommittedTypes DEF Keeps
  <2>2. Keeps(s, t) /\ t.phase = "Commit" /\ t.B.X = s.B.X
    BY <1>2, <2>1, SetCHTypes, KeepsOrder DEF Keeps
  <2> HIDE DEF t
  <2>3. Keeps(s, CheckCH(t)) /\ CheckCH(t).phase = "Commit" /\ CheckCH(t).B.X = s.B.X
    BY <2>2, CheckTypes, KeepsOrder DEF Keeps
  <2>4. QED
    BY <2>3 DEF t
<1>4. PICK f \in ballots_accepted_committed(n, s5) :
        \E confirmed \in ballots_confirmed_committed(n, s6(f)) :
          r = IF confirmed = {} THEN FinishCommit(n, s6(f))
              ELSE [slot |-> EnterExternalize(s6(f), confirmed), again |-> FALSE]
  BY DEF CommitPass, UpdateCH, ConcludeCommit, s5, s0
<1> DEFINE t == s6(f)
<1>5. Keeps(s, t) /\ t.phase = "Commit" /\ t.B.X = s.B.X
  BY <1>3
<1>6. PICK confirmed \in ballots_confirmed_committed(n, t) :
        r = IF confirmed = {} THEN FinishCommit(n, t)
            ELSE [slot |-> EnterExternalize(t, confirmed), again |-> FALSE]
  BY <1>4
<1> HIDE DEF t
<1>7. t \in Slot /\ Follows(n, s, t) /\ Sound(t)
  BY <1>5, CommitFollows DEF Keeps, Sound
<1>8. CASE confirmed = {}
  BY <1>5, <1>6, <1>7, <1>8, FinishCommitTypes, KeepsOrder, CommitFollows
<1>9. CASE confirmed # {}
  <2>1. Follows(n, t, EnterExternalize(t, confirmed))
    BY <1>5, <1>7, <1>9, EnterExternalizeFollows
  <2>2. Sound(s)
    BY DEF Sound
  <2>3. QED
    BY <1>6, <1>7, <1>9, <2>1, <2>2, FollowsOrder
<1>10. QED
  BY <1>8, <1>9

(* do_commit_phase. *)
LEMMA CommitPhaseFollows ==
  ASSUME NEW n \in Node, NEW s \in Slot, s.phase = "Commit", NEW t \in do_commit_phase(n, s)
  PROVE  Follows(n, s, t)
<1>1. PICK r \in CommitPass(n, s) :
        \/ ~r.again /\ t = r.slot
        \/ /\ r.again
           /\ \E u \in CommitPass(n, r.slot) :
                t = check_commit_phase_invariants(Require(u.slot, ~u.again, "depth"))
  BY DEF do_commit_phase
<1>2. CASE ~r.again /\ t = r.slot
  BY <1>2, CommitPassFollows
<1>3. ASSUME r.again, NEW u \in CommitPass(n, r.slot),
             t = check_commit_phase_invariants(Require(u.slot, ~u.again, "depth"))
      PROVE  Follows(n, s, t)
  <2>1. Follows(n, s, r.slot) /\ r.slot.phase = "Commit" /\ r.slot \in Slot /\ Sound(s)
    BY <1>3, CommitPassFollows DEF Follows, Sound
  <2>2. Follows(n, r.slot, u.slot)
    BY <2>1, CommitPassFollows
  <2>3. Follows(n, s, u.slot) /\ u.slot \in Slot
    BY <2>1, <2>2, FollowsOrder DEF Follows, Sound
  <2> DEFINE v == Require(u.slot, ~u.again, "depth")
  <2>4. /\ Keeps(u.slot, v) /\ v.phase = u.slot.phase
        /\ v.B = u.slot.B /\ v.C = u.slot.C /\ v.H = u.slot.H
    BY <2>3, RequireTypes DEF Fault
  <2> HIDE DEF v
  <2>5. /\ Keeps(u.slot, t) /\ t.phase = u.slot.phase
        /\ t.B = u.slot.B /\ t.C = u.slot.C /\ t.H = u.slot.H
    BY <1>3, <2>4, CheckCommitTypes, KeepsOrder DEF Keeps, v
  <2>6. QED
    BY <2>3, <2>5 DEF Follows, Sound, Keeps
<1>4. QED
  BY <1>1, <1>2, <1>3

(* do_externalize_phase changes nothing but the counter of H, which can only grow. *)
LEMMA ExternalizeFollows ==
  ASSUME NEW n \in Node, NEW s, Sound(s), s.phase = "Externalize",
         NEW t \in do_externalize_phase(n, s)
  PROVE  Follows(n, s, t)
<1> DEFINE s0 == check_externalize_phase_invariants(s)
<1>1. Keeps(s, s0) /\ s0.phase = "Externalize" /\ s0.B = s.B /\ s0.C = s.C /\ s0.H = s.H
  BY CheckCommitTypes DEF Sound
<1> HIDE DEF s0
<1>2. PICK confirmed \in ballots_confirmed_committed(n, s0) :
        t = check_externalize_phase_invariants(
              IF confirmed = {} THEN s0
              ELSE [s0 EXCEPT !.H.N = MaxOf(@, Highest(confirmed))])
  BY DEF do_externalize_phase, s0
<1> DEFINE c == MaxOf(s.H.N, Highest(confirmed))
           h == [s.H EXCEPT !.N = c]
           s1 == IF confirmed = {} THEN s0 ELSE [s0 EXCEPT !.H = h]
<1>3. c \in Counter /\ s.H.N <= c /\ s.H.N \in Nat
  <2>1. Highest(confirmed) \in Counter
    BY <1>1, ConfirmedCommittedTypes, RangeTypes DEF Keeps
  <2>2. s.H.N \in Counter /\ s.H.N \in Nat
    BY BallotTypes DEF Sound
  <2>3. QED
    BY <2>1, <2>2, CounterTypes
<1> HIDE DEF c
<1>4. h \in Ballot /\ h.N = c
  BY <1>3 DEF Sound, Ballot
<1>5. t = check_externalize_phase_invariants(s1)
  BY <1>1, <1>2 DEF c
<1> HIDE DEF h
<1>6. /\ Keeps(s, s1) /\ s1.phase = "Externalize" /\ s1.B = s.B /\ s1.C = s.C
      /\ s1.H \in Ballot /\ s.H.N <= s1.H.N
  BY <1>1, <1>3, <1>4, BallotTypes DEF Keeps, Slot, Sound
<1> HIDE DEF s1
<1>7. /\ Keeps(s, t) /\ t.phase = "Externalize" /\ t.B = s.B /\ t.C = s.C
      /\ t.H \in Ballot /\ s.H.N <= t.H.N
  BY <1>5, <1>6, CheckCommitTypes, KeepsOrder DEF Keeps
<1>8. QED
  BY <1>7 DEF Follows, Sound, Keeps, Locked

(* do_ballot_protocol: whatever phases it goes through, a value accepted committed *)
(* stays, and one is externalized only with a quorum behind it.                    *)
LEMMA BallotProtocolFollows ==
  ASSUME NEW n \in Node, NEW s, Sound(s), NEW t \in do_ballot_protocol(n, s)
  PROVE  Follows(n, s, t)
<1> DEFINE s0 == maybe_set_ballot_timer(n, s)
           prepared == PrepareStep(n, s0)
           committed == UNION {CommitStep(n, u) : u \in prepared}
<1>1. Follows(n, s, s0) /\ Sound(s0)
  <2>1. /\ Keeps(s, s0) /\ s0.phase = s.phase
        /\ s0.B = s.B /\ s0.C = s.C /\ s0.H = s.H
    BY TimerTypes DEF Sound
  <2>2. Follows(n, s, s)
    BY FollowsOrder
  <2> HIDE DEF s0
  <2>3. QED
    BY <2>1, <2>2 DEF Follows, Sound, Keeps
<1> HIDE DEF s0
<1>2. \A u \in prepared : Follows(n, s, u) /\ Sound(u)
  <2>1. \A u \in prepared : Follows(n, s0, u)
    BY <1>1, PrepareFollows, FollowsOrder DEF PrepareStep, Open, Sound
  <2>2. QED
    BY <1>1, <2>1, FollowsOrder DEF Follows
<1> HIDE DEF prepared
<1>3. \A u \in committed : Follows(n, s, u) /\ Sound(u)
  <2>1. ASSUME NEW u \in committed
        PROVE  Follows(n, s, u)
    <3>1. PICK v \in prepared : u \in CommitStep(n, v)
      BY <2>1
    <3>2. Follows(n, s, v) /\ Sound(v)
      BY <1>2
    <3>3. Follows(n, v, u)
      BY <3>1, <3>2, CommitPhaseFollows, FollowsOrder DEF CommitStep, Sound
    <3>4. QED
      BY <3>2, <3>3, FollowsOrder
  <2>2. QED
    BY <2>1 DEF Follows
<1>4. PICK u \in committed : t \in ExternalizeStep(n, u)
  BY DEF do_ballot_protocol, committed, prepared, s0
<1> HIDE DEF committed
<1>5. Follows(n, s, u) /\ Sound(u)
  BY <1>3
<1>6. Follows(n, u, t)
  BY <1>4, <1>5, ExternalizeFollows, FollowsOrder DEF ExternalizeStep
<1>7. QED
  BY <1>5, <1>6, FollowsOrder

-----------------------------------------------------------------------------
(* Messages *)

(* The ballots that are sent in place of P and PP are ballots. *)
LEMMA ClampedTypes ==
  ASSUME NEW s \in Slot
  PROVE  ClampedP(s) \in OptBallot /\ ClampedPP(s) \in OptBallot
<1>1. ClampedP(s) \in OptBallot
  BY SlotFields, BallotTypes, CounterTypes DEF ClampedP
<1> DEFINE p == ClampedP(s)
<1>2. p # NoBallot => p.N \in Counter
  BY <1>1, BallotTypes
<1> HIDE DEF p
<1>3. ClampedPP(s) \in OptBallot
  BY <1>2, SlotFields, BallotTypes, CounterTypes DEF ClampedPP, p
<1>4. QED
  BY <1>1, <1>3

(* The message of a sound slot is one, and commits, if it does, to the value of B. *)
LEMMA OutTopicTypes ==
  ASSUME NEW s, Sound(s)
  PROVE  /\ OutTopic(s) \in OptMsg
         /\ Committed(OutTopic(s)) =>
              s.phase \in Locked /\ CommittedValue(OutTopic(s)) = s.B.X
<1> DEFINE q == PreparePayload(s)
           m == OutTopic(s)
<1>0. s \in Slot
  BY DEF Sound
<1>1. /\ q.B \in Ballot /\ q.P \in OptBallot /\ q.PP \in OptBallot
      /\ q.HN \in Counter /\ q.CN \in Counter
  BY <1>0, SlotFields, ClampedTypes, BallotTypes, CounterTypes DEF PreparePayload
<1>2. CASE s.phase = "NominatePrepare" /\ s.B # ZeroBallot
  <2>1. m = [type |-> "NominatePrepare", X |-> s.X, Y |-> s.Y,
             B |-> q.B, P |-> q.P, PP |-> q.PP, HN |-> q.HN, CN |-> q.CN]
    BY <1>2 DEF OutTopic
  <2> HIDE DEF q, m
  <2>2. m \in NominatePrepareMsg /\ ~Committed(m)
    BY <1>0, <1>1, <2>1, SlotFields DEF NominatePrepareMsg, Committed
  <2>3. QED
    BY <2>2 DEF OptMsg, Msg, m
<1>3. CASE s.phase = "NominatePrepare" /\ s.B = ZeroBallot
  <2>1. m = NoMsg \/ m = [type |-> "Nominate", X |-> s.X, Y |-> s.Y]
    BY <1>3 DEF OutTopic
  <2> HIDE DEF m
  <2>2. (m = NoMsg \/ m \in NominateMsg) /\ ~Committed(m)
    BY <1>0, <2>1, SlotFields DEF NominateMsg, NoMsg, Committed
  <2>3. QED
    BY <2>2 DEF OptMsg, Msg, m
<1>4. CASE s.phase = "Prepare"
  <2>1. m = [type |-> "Prepare", B |-> q.B, P |-> q.P, PP |-> q.PP, HN |-> q.HN, CN |-> q.CN]
    BY <1>4 DEF OutTopic
  <2> HIDE DEF q, m
  <2>2. m \in PrepareMsg /\ ~Committed(m)
    BY <1>1, <2>1 DEF PrepareMsg, Committed
  <2>3. QED
    BY <2>2 DEF OptMsg, Msg, m
<1>5. CASE s.phase = "Commit"
  <2> DEFINE pn == MaxOf(ClampedP(s).N, 0)
             hn == MaxOf(s.H.N, 0)
             cn == MaxOf(s.C.N, 0)
  <2>1. pn \in Counter /\ hn \in Counter /\ cn \in Counter
    BY <1>0, SlotFields, ClampedTypes, BallotTypes, CounterTypes
  <2>2. m = [type |-> "Commit", B |-> s.B, PN |-> pn, HN |-> hn, CN |-> cn]
    BY <1>5 DEF OutTopic
  <2> HIDE DEF pn, hn, cn, m
  <2>3. m \in CommitMsg /\ m.type = "Commit" /\ m.B = s.B
    BY <1>0, <2>1, <2>2, SlotFields DEF CommitMsg
  <2>4. QED
    BY <1>5, <2>3 DEF OptMsg, Msg, m, CommittedValue, Locked
<1>6. CASE s.phase = "Externalize"
  <2>1. m = [type |-> "Externalize", C |-> s.C, HN |-> s.H.N]
    BY <1>6 DEF OutTopic
  <2> HIDE DEF m
  <2>2. m \in ExternalizeMsg /\ m.type = "Externalize" /\ m.C.X = s.B.X
    BY <1>6, <2>1, BallotTypes DEF ExternalizeMsg, Sound
  <2>3. QED
    BY <1>6, <2>2 DEF OptMsg, Msg, m, CommittedValue, Locked
<1>7. QED
  BY <1>0, <1>2, <1>3, <1>4, <1>5, <1>6, SlotFields DEF Phase

-----------------------------------------------------------------------------
(* The methods of ScpSlot *)

(* s1 is s as a method hands it over to the ballot protocol. *)
Enters(s, s1) ==
  /\ Sound(s1)
  /\ s1.phase = s.phase /\ s1.last_sent_msg = s.last_sent_msg
  /\ s.phase \in Locked => s1.B.X = s.B.X
  /\ s.phase = "Externalize" => s1.C = s.C /\ s1.H = s.H

(* t is what a method of the slot of n makes of s. *)
Advances(n, s, t) ==
  /\ Sound(t)
  /\ s.phase \in Locked => t.phase \in Locked /\ t.B.X = s.B.X
  /\ s.phase = "Externalize" => t.phase = "Externalize" /\ t.C = s.C /\ s.H.N <= t.H.N
  /\ t.phase = "Externalize" => s.phase = "Externalize" \/ ConfirmedBy(n, t.M, t.B.X)
  /\ t.last_sent_msg # s.last_sent_msg =>
       /\ t.last_sent_msg \in Msg
       /\ Committed(t.last_sent_msg) =>
            t.phase \in Locked /\ CommittedValue(t.last_sent_msg) = t.B.X

(* A slot that nothing is done to advances. *)
LEMMA AdvancesItself ==
  ASSUME NEW n \in Node, NEW s, Sound(s)
  PROVE  Advances(n, s, s)
BY FollowsOrder DEF Advances, Follows

(* A method that lets the ballot protocol run and sends a message advances the slot. *)
LEMMA OutcomesAdvance ==
  ASSUME NEW n \in Node, NEW s, Sound(s), NEW s1, Enters(s, s1),
         NEW results, \A q \in results : Running(q) => Follows(n, s1, q),
         \A q \in results : q \in Slot,
         NEW t \in Outcomes(s, results)
  PROVE  Advances(n, s, t) /\ t.M \in {s.M, s1.M}
<1>1. PICK u : /\ \/ \E r \in results : Running(r) /\ u = out_msg(r)
                  \/ u \in results /\ ~Running(u)
               /\ t = IF Running(u) THEN u
                      ELSE [s EXCEPT !.fault = u.fault, !.overflow = u.overflow]
  BY DEF Outcomes
<1>2. ASSUME NEW r \in results, Running(r), u = out_msg(r)
      PROVE  u \in Slot /\ Advances(n, s, u) /\ u.M = s1.M
  <2> DEFINE m == OutTopic(r)
             r1 == Checked(r, ~Underflows(r), "below")
             r2 == IF m = NoMsg THEN r1 ELSE Require(r1, WellFormed(m), "message")
  <2>1. Follows(n, s1, r) /\ Sound(r) /\ r \in Slot
    BY <1>2 DEF Follows, Sound
  <2>2. /\ Keeps(r, r1) /\ r1.phase = r.phase
        /\ r1.B = r.B /\ r1.C = r.C /\ r1.H = r.H
    BY <2>1, CheckedTypes DEF Side
  <2> HIDE DEF r1
  <2>3. /\ Keeps(r, r2) /\ r2.phase = r.phase
        /\ r2.B = r.B /\ r2.C = r.C /\ r2.H = r.H
    BY <2>2, RequireTypes, KeepsOrder DEF Keeps, Fault
  <2>4. /\ m \in OptMsg
        /\ Committed(m) => r.phase \in Locked /\ CommittedValue(m) = r.B.X
    BY <2>1, OutTopicTypes
  <2>5. u = IF m = NoMsg THEN r2 ELSE [r2 EXCEPT !.last_sent_msg = m]
    BY <1>2 DEF out_msg, r1
  <2> HIDE DEF r2, m
  <2>6. /\ u \in Slot /\ u.M = r.M /\ u.phase = r.phase
        /\ u.B = r.B /\ u.C = r.C /\ u.H = r.H
        /\ u.last_sent_msg = r.last_sent_msg \/ (m # NoMsg /\ u.last_sent_msg = m)
    BY <2>3, <2>4, <2>5 DEF Keeps, Slot
  <2>7. m # NoMsg => m \in Msg
    BY <2>4 DEF OptMsg
  <2>8. QED
    BY <2>1, <2>4, <2>6, <2>7, SlotFields DEF Follows, Enters, Advances, Sound
<1>3. CASE Running(u)
  BY <1>1, <1>2, <1>3
<1>4. CASE ~Running(u)
  <2>1. u.fault \in Fault /\ u.overflow \in SUBSET Side
    BY <1>1, <1>2 DEF Slot
  <2>2. t = [s EXCEPT !.fault = u.fault, !.overflow = u.overflow]
    BY <1>1, <1>4
  <2>3. /\ t \in Slot /\ t.M = s.M /\ t.last_sent_msg = s.last_sent_msg
        /\ t.phase = s.phase /\ t.B = s.B /\ t.C = s.C /\ t.H = s.H
    BY <2>1, <2>2 DEF Sound, Slot
  <2>4. Advances(n, s, s)
    BY AdvancesItself
  <2>5. QED
    BY <2>3, <2>4 DEF Advances, Sound
<1>5. QED
  BY <1>3, <1>4

(* propose_values. *)
LEMMA ProposeValuesAdvance ==
  ASSUME NEW n \in Node, NEW s, Sound(s), NEW values,
         NEW t \in propose_values(n, s, values)
  PROVE  Advances(n, s, t) /\ t.M = s.M
<1> DEFINE valid == values \cap ValidValue[n]
           s0 == [s EXCEPT !.W = @ \cup valid]
           s1 == do_nominate_phase(n, s0)
<1>0. s \in Slot /\ Enters(s, s) /\ Follows(n, s, s)
  BY FollowsOrder DEF Sound, Enters
<1>1. CASE s.phase # "NominatePrepare" \/ s.Z # {}
  <2>1. t \in Outcomes(s, {s})
    BY <1>1 DEF propose_values
  <2>2. QED
    BY <1>0, <2>1, OutcomesAdvance
<1>2. CASE s.phase = "NominatePrepare" /\ s.Z = {} /\ valid = {}
  <2>1. t = s
    BY <1>2 DEF propose_values
  <2>2. QED
    BY <2>1, AdvancesItself
<1>3. CASE s.phase = "NominatePrepare" /\ s.Z = {} /\ valid # {}
  <2>1. valid \subseteq Value
    BY ValidValueAssumption
  <2>2. t \in Outcomes(s, do_ballot_protocol(n, s1))
    BY <1>3 DEF propose_values
  <2> HIDE DEF valid
  <2>3. Keeps(s, s0) /\ s0.phase = "NominatePrepare"
    BY <1>0, <1>3, <2>1 DEF Keeps, Slot
  <2> HIDE DEF s0
  <2>4. Keeps(s, s1) /\ s1.phase = "NominatePrepare"
    BY <2>3, NominateTypes, KeepsOrder DEF Keeps
  <2> HIDE DEF s1
  <2>5. Enters(s, s1) /\ s1.M = s.M /\ Sound(s1)
    BY <1>3, <2>4 DEF Enters, Sound, Keeps, Locked
  <2>6. \A q \in do_ballot_protocol(n, s1) : Follows(n, s1, q) /\ q \in Slot
    BY <2>5, BallotProtocolFollows DEF Follows, Sound
  <2>7. QED
    BY <2>2, <2>5, <2>6, OutcomesAdvance
<1>4. QED
  BY <1>1, <1>2, <1>3

(* handle_messages: every message it holds was held before or is one of the batch. *)
LEMMA HandleMessagesAdvance ==
  ASSUME NEW n \in Node, NEW s, Sound(s),
         NEW batch, \A k \in DOMAIN batch : batch[k] \in Msg,
         NEW t \in handle_messages(n, s, batch)
  PROVE  /\ Advances(n, s, t)
         /\ \A k \in Node : t.M[k] = s.M[k] \/ (k \in DOMAIN batch /\ t.M[k] = batch[k])
<1> DEFINE news == {k \in DOMAIN batch : IsNews(n, s, k, batch[k])}
           M1 == [k \in Node |-> IF k \in news THEN batch[k] ELSE s.M[k]]
           s1 == [s EXCEPT !.M = M1]
           s2 == IF s.phase = "NominatePrepare" THEN do_nominate_phase(n, s1) ELSE s1
<1>0. s \in Slot
  BY DEF Sound
<1>1. /\ M1 \in [Node -> OptMsg]
      /\ \A k \in Node : M1[k] = s.M[k] \/ (k \in DOMAIN batch /\ M1[k] = batch[k])
  BY <1>0, SlotFields DEF OptMsg
<1>2. news = {} \/ t \in Outcomes(s, do_ballot_protocol(n, s2))
  BY DEF handle_messages
<1>3. news = {} => t = s
  BY DEF handle_messages
<1> HIDE DEF M1, news
<1>4. /\ s1 \in Slot /\ s1.M = M1 /\ s1.last_sent_msg = s.last_sent_msg
      /\ s1.phase = s.phase /\ s1.B = s.B /\ s1.C = s.C /\ s1.H = s.H
  BY <1>0, <1>1 DEF Slot
<1> HIDE DEF s1
<1>5. Enters(s, s2) /\ s2.M = M1 /\ Sound(s2)
  <2>1. CASE s.phase = "NominatePrepare"
    BY <1>4, <2>1, NominateTypes DEF Enters, Sound, Keeps, Locked
  <2>2. CASE s.phase # "NominatePrepare"
    BY <1>4, <2>2 DEF Enters, Sound
  <2>3. QED
    BY <2>1, <2>2
<1> HIDE DEF s2
<1>6. \A q \in do_ballot_protocol(n, s2) : Follows(n, s2, q) /\ q \in Slot
  BY <1>5, BallotProtocolFollows DEF Follows, Sound
<1>7. CASE news = {}
  BY <1>3, <1>7, AdvancesItself
<1>8. CASE news # {}
  BY <1>1, <1>2, <1>5, <1>6, <1>8, OutcomesAdvance
<1>9. QED
  BY <1>7, <1>8

(* The peer that is added to the leaders is a node. *)
LEMMA LeaderTypes ==
  ASSUME NEW n \in Node, NEW peers, NEW round \in Round
  PROVE  find_max_priority_peer(n, peers, round) \in Node
<1>1. neighbors[n][round] \subseteq Node
  BY RoundAssumption
<1>2. QED
  BY <1>1 DEF find_max_priority_peer

(* A new slot is sound and has neither sent nor received anything. *)
LEMMA NewSlotTypes ==
  ASSUME NEW n \in Node, 1 \in Round
  PROVE  /\ Sound(NewSlot(n)) /\ NewSlot(n).phase = "NominatePrepare"
         /\ \A k \in Node : NewSlot(n).M[k] = NoMsg
<1>1. find_max_priority_peer(n, {}, 1) \in Node
  BY LeaderTypes
<1>2. [k \in Node |-> NoMsg] \in [Node -> OptMsg] /\ NoMsg \in OptMsg
  BY DEF OptMsg
<1>3. NewSlot(n) \in Slot
  BY <1>1, <1>2, BallotTypes DEF NewSlot, Slot, Phase, Fault
<1>4. QED
  BY <1>3 DEF NewSlot, Sound

(* A nomination timeout hands over a slot with the same ballots, or panics. *)
LEMMA NominateTimeoutTypes ==
  ASSUME NEW n \in Node, NEW s \in Slot, s.nominate_round + 1 \in Round
  PROVE  LET t == NominateTimeout(n, s)
         IN /\ Keeps(s, t) /\ t.phase = s.phase
            /\ s.phase # "NominatePrepare" => ~Running(t)
<1> DEFINE round == s.nominate_round + 1
           peers == s.max_priority_peers \cup
                      {find_max_priority_peer(n, s.max_priority_peers, round)}
           s1 == [s EXCEPT !.nominate_timer = FALSE, !.nominate_round = round,
                           !.max_priority_peers = peers]
<1>1. round \in Nat /\ peers \subseteq Node
  BY LeaderTypes, SlotFields
<1>2. NominateTimeout(n, s) = do_nominate_phase(n, s1)
  BY DEF NominateTimeout
<1> HIDE DEF round, peers
<1>3. Keeps(s, s1) /\ s1.phase = s.phase
  BY <1>1 DEF Keeps, Slot
<1> HIDE DEF s1
<1>4. QED
  BY <1>2, <1>3, NominateTypes, KeepsOrder DEF Keeps

(* A ballot timeout raises B; its value stays once it is accepted committed. *)
LEMMA BallotTimeoutTypes ==
  ASSUME NEW n \in Node, NEW s, Sound(s), Running(s)
  PROVE  Enters(s, BallotTimeout(n, s)) /\ BallotTimeout(n, s).M = s.M
<1> DEFINE t == CheckedInc(s, s.B.N)
           s1 == [t EXCEPT !.ballot_timer = FALSE]
           x == get_next_ballot_values(n, s)
           c == Inc(s.B.N)
<1>0. s \in Slot /\ c \in Counter
  BY SlotFields, CounterTypes DEF Sound
<1>1. /\ Keeps(s, t) /\ t.phase = s.phase
      /\ t.B = s.B /\ t.C = s.C /\ t.H = s.H
  BY <1>0, CheckedTypes DEF CheckedInc, Side
<1> HIDE DEF t
<1>2. /\ Keeps(s, s1) /\ s1.phase = s.phase
      /\ s1.B = s.B /\ s1.C = s.C /\ s1.H = s.H
  BY <1>1 DEF Keeps, Slot
<1>3. BallotTimeout(n, s) =
        CASE s.phase = "Commit" -> [s1 EXCEPT !.B.N = c]
          [] s.phase \in {"NominatePrepare", "Prepare"} /\ x # NoList ->
               [s1 EXCEPT !.B = Bal(c, x)]
          [] OTHER -> s1
  BY <1>2 DEF BallotTimeout, RaiseBallot, t
<1> HIDE DEF s1, c
<1>4. x \in List \cup {EmptyList, NoList}
  BY <1>0, NextBallotTypes
<1> HIDE DEF x
<1>5. CASE s.phase = "Commit"
  <2> DEFINE u == [s1 EXCEPT !.B.N = c]
  <2>1. Keeps(s1, u) /\ u.phase = "Commit" /\ u.B.X = s.B.X
    BY <1>0, <1>2, <1>5, RaiseBTypes DEF Keeps
  <2>2. BallotTimeout(n, s) = u
    BY <1>3, <1>5
  <2> HIDE DEF u
  <2>3. QED
    BY <1>2, <1>5, <2>1, <2>2 DEF Enters, Sound, Keeps
<1>6. CASE s.phase \in {"NominatePrepare", "Prepare"} /\ x # NoList
  <2> DEFINE u == [s1 EXCEPT !.B = Bal(c, x)]
  <2>1. Bal(c, x) \in Ballot
    BY <1>0, <1>4, <1>6, BallotTypes
  <2>2. Keeps(s, u) /\ u.phase = s.phase
    BY <1>2, <2>1 DEF Keeps, Slot
  <2>3. BallotTimeout(n, s) = u
    BY <1>3, <1>6
  <2> HIDE DEF u
  <2>4. QED
    BY <1>6, <2>2, <2>3 DEF Enters, Sound, Keeps, Locked
<1>7. CASE s.phase # "Commit" /\ ~(s.phase \in {"NominatePrepare", "Prepare"} /\ x # NoList)
  <2>1. BallotTimeout(n, s) = s1
    BY <1>3, <1>7
  <2>2. QED
    BY <1>2, <2>1 DEF Enters, Sound, Keeps
<1>8. QED
  BY <1>5, <1>6, <1>7

(* process_timeouts. *)
LEMMA ProcessTimeoutsAdvance ==
  ASSUME NEW n \in Node, NEW s, Sound(s), NEW nominate, NEW ballot,
         nominate => s.nominate_round + 1 \in Round,
         NEW t \in process_timeouts(n, s, nominate, ballot)
  PROVE  Advances(n, s, t) /\ t.M = s.M
<1> DEFINE s1 == IF nominate THEN NominateTimeout(n, s) ELSE s
           s2 == IF ballot THEN BallotTimeout(n, s1) ELSE s1
           results == IF ballot THEN ContinueBallot(n, s2) ELSE {s2}
<1>0. s \in Slot
  BY DEF Sound
<1>1. Keeps(s, s1) /\ (Running(s1) => Enters(s, s1))
  <2>1. CASE nominate
    <3>1. /\ Keeps(s, s1) /\ s1.phase = s.phase
          /\ s.phase # "NominatePrepare" => ~Running(s1)
      BY <1>0, <2>1, NominateTimeoutTypes
    <3> HIDE DEF s1
    <3>2. QED
      BY <3>1 DEF Keeps, Enters, Sound, Locked
  <2>2. CASE ~nominate
    BY <1>0, <2>2, KeepsOrder DEF Enters
  <2>3. QED
    BY <2>1, <2>2
<1> HIDE DEF s1
<1>2. s2 \in Slot /\ s2.M = s.M /\ (Running(s2) => Enters(s, s2))
  <2>1. CASE ballot /\ Running(s1)
    <3>1. Enters(s1, s2) /\ s2.M = s1.M
      BY <1>1, <2>1, BallotTimeoutTypes DEF Enters
    <3>2. QED
      BY <1>1, <2>1, <3>1 DEF Enters, Keeps, Sound
  <2>2. CASE ~(ballot /\ Running(s1))
    BY <1>1, <2>2 DEF BallotTimeout, Keeps
  <2>3. QED
    BY <2>1, <2>2
<1> HIDE DEF s2
<1>3. t \in Outcomes(s, results)
  BY DEF process_timeouts, s2, s1
<1>4. CASE Running(s2)
  <2>1. Enters(s, s2) /\ Sound(s2)
    BY <1>2, <1>4 DEF Enters
  <2>2. \A q \in results : Follows(n, s2, q) /\ q \in Slot
    BY <1>4, <2>1, BallotProtocolFollows, FollowsOrder DEF ContinueBallot, Follows, Sound
  <2> HIDE DEF results
  <2>3. QED
    BY <1>2, <1>3, <2>1, <2>2, OutcomesAdvance
<1>5. CASE ~Running(s2)
  <2>1. results = {s2}
    BY <1>5 DEF ContinueBallot
  <2>2. Enters(s, s)
    BY DEF Enters
  <2> HIDE DEF results
  <2>3. QED
    BY <1>2, <1>3, <1>5, <2>1, <2>2, OutcomesAdvance
<1>6. QED
  BY <1>4, <1>5
=============================================================================
