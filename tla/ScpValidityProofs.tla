------------------------- MODULE ScpValidityProofs --------------------------
(***************************************************************************)
(* What a node externalizes was submitted by clients and is valid for the  *)
(* node, for any number of nodes, any quorum sets, values and bounds.      *)
(*                                                                         *)
(* Ballots and statements of a slot come from its clients, from messages   *)
(* and from combine_fn.  The invariant follows all of them: no vector that *)
(* the slot could come to decide on is empty or has a value from elsewhere.*)
(* That it is not empty is the harder part, since a node can confirm a     *)
(* ballot prepared, and vote to commit, while its own ballot is still the  *)
(* zero ballot with the empty vector.  A quorum cannot agree with such a   *)
(* vote, as the counter CN in a message says that it votes to commit only  *)
(* when B has the value of H; a node that is a quorum by itself confirms   *)
(* nothing prepared before it has a ballot.                                *)
(*                                                                         *)
(* With that and the agreement of ScpNetworkProofs the network implements  *)
(* Consensus: what a quorum has accepted to commit is chosen for good.     *)
(***************************************************************************)
EXTENDS ScpNetworkProofs, WellFoundedInduction

(* The node does not need any other node for a quorum. *)
Alone(n) == \E sat \in SatFn : FindQuorum(n, sat) = {n}

(* L holds what can come of combining values of V. *)
Closed(V, L) ==
  /\ V \subseteq Value /\ L \subseteq List
  /\ \A Z \in (SUBSET V) \ {{}} : combine_fn[Z] \in L \cup {CombineErr}

(* A ballot, if there is one, has its value in L. *)
OptIn(b, L) == b = NoBallot \/ b.X \in L

(* What a receiver can take over from the message m is within V and L. *)
MsgWithin(m, V, L) ==
  /\ votes_or_accepts_nominated(m) \subseteq V
  /\ Preparing(m) => /\ OptIn(m.P, L) /\ OptIn(m.PP, L)
                     /\ m.CN # 0 => m.B.X \in L
  /\ Committed(m) => CommittedValue(m) \in L

BallotsWithin(s, L) ==
  /\ s.B = ZeroBallot \/ s.B.X \in L
  /\ OptIn(s.P, L) /\ OptIn(s.PP, L) /\ OptIn(s.H, L) /\ OptIn(s.C, L)

ValuesWithin(s, V) ==
  s.W \subseteq V /\ s.X \subseteq V /\ s.Y \subseteq V /\ s.Z \subseteq V

(* Everything that can bear on the decision of n is within V and L.  Once it is *)
(* made, messages are no longer validated.                                      *)
Within(n, s, V, L) ==
  /\ ValuesWithin(s, V)
  /\ BallotsWithin(s, L)
  /\ s.phase \in Locked => s.B.X \in L
  /\ s.phase # "Externalize" => \A k \in Node : MsgWithin(s.M[k], V, L)
  /\ s.M[n] = NoMsg
  /\ Alone(n) /\ s.B = ZeroBallot =>
       s.P = NoBallot /\ s.PP = NoBallot /\ s.H = NoBallot

(* The values that clients can submit, those of them that n accepts, and the     *)
(* vectors of either.                                                            *)
Submitted == UNION {Proposable[k] : k \in Node}
Acceptable(n) == ValidValue[n] \cap Submitted
ListsWithin(V) == {x \in List : values_of[x] \subseteq V}

VInv ==
  /\ IInv
  /\ \A n \in Node : Within(n, slot[n], Acceptable(n), ListsWithin(Acceptable(n)))
  /\ \A k \in Node : \A m \in wire[k] : MsgWithin(m, Submitted, ListsWithin(Submitted))
-----------------------------------------------------------------------------
(* Ballots *)

(* A set of natural numbers that is not empty has a least element. *)
LEMMA LeastNat ==
  ASSUME NEW S, S \subseteq Nat, S # {}
  PROVE  \E a \in S : \A b \in S : a <= b
<1> DEFINE R == OpToRel(<, Nat)
<1>1. R = {ss \in Nat \X Nat : ss[1] < ss[2]}
  BY DEF OpToRel
<1>2. IsWellFoundedOn(R, Nat)
  BY NatLessThanWellFounded
<1> HIDE DEF R
<1>3. PICK a \in S : \A b \in S : ~(<<b, a>> \in R)
  BY <1>2, WFMin
<1>4. ASSUME NEW b \in S PROVE a <= b
  <2>1. a \in Nat /\ b \in Nat
    OBVIOUS
  <2>2. b < a => <<b, a>> \in R
    BY <1>1, <2>1
  <2> QED BY <1>3, <2>1, <2>2
<1> QED BY <1>4

(* A set of ballots that is not empty has a minimum. *)
LEMMA MinExists ==
  ASSUME NEW S, S \subseteq Ballot, S # {}
  PROVE  MinBallot(S) \in S
<1>1. \A b \in S : b.N \in Nat /\ b.X \in Nat /\ b = Bal(b.N, b.X)
  <2>1. \A b \in S : b.N \in Counter /\ b.X \in List \cup {EmptyList} /\ b = Bal(b.N, b.X)
    BY DEF Ballot, Bal
  <2> QED BY <2>1, CounterTypes, ListAssumption DEF EmptyList
<1> DEFINE counters == {b.N : b \in S}
<1>2. PICK i \in counters : \A j \in counters : i <= j
  <2>1. counters \subseteq Nat /\ counters # {}
    BY <1>1
  <2> HIDE DEF counters
  <2> QED BY <2>1, LeastNat
<1> DEFINE values == {b.X : b \in {c \in S : c.N = i}}
<1>3. PICK x \in values : \A y \in values : x <= y
  <2>1. values \subseteq Nat /\ values # {}
    BY <1>1, <1>2
  <2> HIDE DEF values
  <2> QED BY <2>1, LeastNat
<1>4. PICK b \in S : b.N = i /\ b.X = x
  BY <1>3
<1>5. ASSUME NEW c \in S PROVE BallotLE(b, c)
  <2>1. b.N <= c.N /\ (c.N = b.N => b.X <= c.X)
    BY <1>2, <1>3, <1>4
  <2> QED BY <1>1, <2>1 DEF BallotLE, BallotLT
<1> QED BY <1>5 DEF MinBallot

(* The value of the maximum is that of a member. *)
LEMMA MaxIn ==
  ASSUME NEW S, S \subseteq Ballot, NEW L, \A b \in S : b.X \in L
  PROVE  OptIn(MaxBallot(S), L)
BY MaxMinTypes DEF OptIn

(* A search among ballots leaves none with another value. *)
LEMMA QuorumOfBallotsIn ==
  ASSUME NEW n, NEW ballots, NEW stmts, NEW L, \A b \in ballots : b.X \in L
  PROVE  \A b \in QuorumOfBallots(n, ballots, stmts) : b.X \in L
BY DEF QuorumOfBallots, NarrowBallots, CompatibleLE

-----------------------------------------------------------------------------
(* What a slot infers *)

(* Messages that are within V and L accept nothing else. *)
LEMMA StatementsIn ==
  ASSUME NEW m \in OptMsg, NEW V, NEW L, MsgWithin(m, V, L)
  PROVE  /\ votes_or_accepts_nominated(m) \subseteq V
         /\ accepts_nominated(m) \subseteq V
         /\ \A b \in accepts_prepared(m) : b.X \in L
         /\ \A x \in (List \cup {EmptyList}) \ L : votes_or_accepts_commits(m, x) = {}
<1>1. votes_or_accepts_nominated(m) \subseteq V /\ accepts_nominated(m) \subseteq V
  BY DEF MsgWithin, votes_or_accepts_nominated, accepts_nominated
<1>2. \A b \in accepts_prepared(m) : b.X \in L
  <2>1. CASE Preparing(m)
    <3>1. \A b \in accepts_prepared(m) : b # NoBallot /\ b \in {m.P, m.PP}
      BY <2>1 DEF accepts_prepared, Preparing
    <3> QED BY <2>1, <3>1 DEF MsgWithin, OptIn
  <2>2. CASE m.type = "Commit"
    BY <2>2 DEF accepts_prepared, Preparing, MsgWithin, Committed, CommittedValue, Bal
  <2>3. CASE m.type = "Externalize"
    BY <2>3 DEF accepts_prepared, Preparing, MsgWithin, Committed, CommittedValue, Bal
  <2>4. CASE m.type \in {"None", "Nominate"}
    BY <2>4 DEF accepts_prepared, Preparing
  <2> QED BY <2>1, <2>2, <2>3, <2>4, MsgTypes DEF Preparing
<1>3. \A x \in (List \cup {EmptyList}) \ L : votes_or_accepts_commits(m, x) = {}
  <2>1. CASE Preparing(m)
    BY <2>1 DEF votes_or_accepts_commits, MsgWithin, Preparing
  <2>2. CASE ~Preparing(m)
    BY <2>2 DEF votes_or_accepts_commits, MsgWithin, Committed, CommittedValue
  <2> QED BY <2>1, <2>2
<1> QED BY <1>1, <1>2, <1>3

(* The fields of a slot that Within is about, but the phase. *)
Agrees(s, t) ==
  /\ t.W = s.W /\ t.X = s.X /\ t.Y = s.Y /\ t.Z = s.Z /\ t.M = s.M
  /\ t.B = s.B /\ t.P = s.P /\ t.PP = s.PP /\ t.H = s.H /\ t.C = s.C

(* s is a slot of n within V and L that has not decided yet. *)
Undecided(n, s, V, L) ==
  /\ n \in Node /\ s \in Slot /\ s.phase # "Externalize"
  /\ Closed(V, L) /\ Within(n, s, V, L)

(* Slots that agree are within the same values. *)
LEMMA AgreesWithin ==
  ASSUME NEW n, NEW s, NEW t, NEW V, NEW L, Agrees(s, t),
         Undecided(n, s, V, L), t \in Slot, t.phase = s.phase
  PROVE  Undecided(n, t, V, L)
BY DEF Undecided, Agrees, Within, ValuesWithin, BallotsWithin

(* A failed assertion changes nothing that Within is about. *)
LEMMA RequireWithin ==
  ASSUME NEW n, NEW s, NEW V, NEW L, NEW cond, NEW tag \in Fault, Undecided(n, s, V, L)
  PROVE  /\ Undecided(n, Require(s, cond, tag), V, L)
         /\ Agrees(s, Require(s, cond, tag))
<1>1. s \in Slot
  BY DEF Undecided
<1>2. /\ Require(s, cond, tag) \in Slot /\ Require(s, cond, tag).phase = s.phase
      /\ Agrees(s, Require(s, cond, tag))
  BY <1>1 DEF Require, Slot, Agrees
<1> QED BY <1>2, AgreesWithin DEF Undecided

(* Nor does arithmetic. *)
LEMMA CheckedAgrees ==
  ASSUME NEW s \in Slot, NEW cond, NEW side \in Side
  PROVE  LET t == Checked(s, cond, side)
         IN /\ t \in Slot /\ t.phase = s.phase /\ Agrees(s, t)
            /\ t.last_sent_msg = s.last_sent_msg
<1> DEFINE u == IF cond THEN s ELSE [s EXCEPT !.overflow = @ \cup {side}]
<1>1. u \in Slot /\ u.phase = s.phase /\ Agrees(s, u) /\ u.last_sent_msg = s.last_sent_msg
  BY DEF Slot, Agrees
<1>2. Checked(s, cond, side) \in {u, [u EXCEPT !.fault = "overflow"]}
  BY DEF Checked, Require
<1> HIDE DEF u
<1> QED BY <1>1, <1>2 DEF Slot, Fault, Agrees

(* Nor do the timers. *)
LEMMA TimerWithin ==
  ASSUME NEW n, NEW s, NEW V, NEW L, Undecided(n, s, V, L)
  PROVE  Undecided(n, maybe_set_ballot_timer(n, s), V, L)
<1>1. s \in Slot
  BY DEF Undecided
<1>2. maybe_set_ballot_timer(n, s) \in {s, [s EXCEPT !.ballot_timer = TRUE]}
  BY DEF maybe_set_ballot_timer
<1>3. \A t \in {s, [s EXCEPT !.ballot_timer = TRUE]} :
        t \in Slot /\ t.phase = s.phase /\ Agrees(s, t)
  BY ZenonT(40), <1>1 DEF Slot, Agrees
<1> QED BY <1>2, <1>3, AgreesWithin DEF Undecided

(* Values that are accepted or confirmed nominated are in V. *)
LEMMA NominatedIn ==
  ASSUME NEW n, NEW s, NEW V, NEW L, Undecided(n, s, V, L)
  PROVE  /\ additional_values_accepted_nominated(n, s) \subseteq V
         /\ additional_values_confirmed_nominated(n, s) \subseteq V
         /\ VotedNominated(n, s) \subseteq V
<1>1. /\ n \in Node /\ s \in Slot /\ s.M \in [Node -> OptMsg]
      /\ s.max_priority_peers \subseteq Node
      /\ ValuesWithin(s, V) /\ \A k \in Node : MsgWithin(s.M[k], V, L)
  BY SlotFields DEF Undecided, Within
<1>2. \A k \in Node : /\ votes_or_accepts_nominated(s.M[k]) \subseteq V
                      /\ accepts_nominated(s.M[k]) \subseteq V
  BY <1>1, StatementsIn
<1>3. VotedNominated(n, s) \subseteq V
  BY <1>1, <1>2 DEF VotedNominated, ValuesWithin
<1>4. \A k \in Node : AcceptsNominated(s)[k] \subseteq V
  BY <1>2 DEF AcceptsNominated
<1>5. additional_values_accepted_nominated(n, s) \subseteq V
  BY <1>1, <1>4, SearchTypes DEF additional_values_accepted_nominated, ValuesWithin
<1>6. additional_values_confirmed_nominated(n, s) \subseteq V
  BY <1>1, SearchTypes DEF additional_values_confirmed_nominated, ValuesWithin
<1> QED BY <1>3, <1>5, <1>6

(* Ballots that are accepted or confirmed prepared have their values in L, and *)
(* a node without a ballot that is a quorum by itself has none.                *)
LEMMA PreparedIn ==
  ASSUME NEW n, NEW s, NEW V, NEW L, Undecided(n, s, V, L)
  PROVE  /\ \A b \in ballots_accepted_prepared(n, s) : b.X \in L
         /\ \A b \in ballots_confirmed_prepared(n, s) : b.X \in L
         /\ Alone(n) /\ s.B = ZeroBallot =>
              ballots_accepted_prepared(n, s) = {} /\ ballots_confirmed_prepared(n, s) = {}
<1> DEFINE own == ({s.B} \ {ZeroBallot}) \cup ({s.P} \ {NoBallot})
                    \cup (IF s.P = NoBallot THEN {} ELSE {s.PP} \ {NoBallot})
           accepted == AcceptsPrepared(s)
           blocking == {b \in UNION {accepted[k] : k \in quorum_nodes[n]} :
                          BlockingForBallot(n, b, accepted)}
           voted == QuorumOfBallots(n, own, VotesOrAcceptsPrepared(s))
<1>1. /\ n \in Node /\ s.M \in [Node -> OptMsg] /\ BallotsWithin(s, L)
      /\ \A k \in Node : MsgWithin(s.M[k], V, L)
      /\ Alone(n) /\ s.B = ZeroBallot => s.P = NoBallot
  BY SlotFields DEF Undecided, Within
<1>2. \A b \in own : b.X \in L
  BY <1>1 DEF BallotsWithin, OptIn
<1>3. \A b \in blocking : b.X \in L
  <2>1. \A k \in Node : \A b \in accepted[k] : b.X \in L
    BY <1>1, StatementsIn DEF AcceptsPrepared
  <2>2. quorum_nodes[n] \subseteq Node
    BY <1>1, QuorumNodesAssumption
  <2> HIDE DEF accepted
  <2> QED BY <2>1, <2>2
<1>4. \A b \in voted : b.X \in L
  BY <1>2, QuorumOfBallotsIn
<1>5. ballots_accepted_prepared(n, s) = blocking \cup voted
  BY DEF ballots_accepted_prepared
<1>6. Alone(n) /\ s.B = ZeroBallot => ballots_accepted_prepared(n, s) = {}
  <2> SUFFICES ASSUME Alone(n), s.B = ZeroBallot
               PROVE  blocking = {} /\ voted = {}
    BY <1>5
  <2> DEFINE sat(b) == [S \in SUBSET Node |-> NarrowBallots({b}, S, accepted) # {}]
  <2>1. accepted[n] = {}
    <3>1. s.M[n].type = "None"
      BY DEF Undecided, Within, NoMsg
    <3>2. accepts_prepared(s.M[n]) = {}
      BY <3>1 DEF accepts_prepared, Preparing
    <3> QED BY <1>1, <3>2 DEF AcceptsPrepared
  <2>2. \A b : sat(b) \in SatFn
    BY DEF SatFn
  <2>3. \A b : \A S \in SUBSET Node : n \in S => ~sat(b)[S]
    <3> HIDE DEF accepted
    <3> QED BY <2>1 DEF NarrowBallots, CompatibleLE
  <2>4. \A b : FindBlockingSet(n, sat(b)) = {}
    BY <1>1, <2>2, <2>3, AloneAssumption DEF Alone
  <2>5. blocking = {}
    BY <2>4 DEF BlockingForBallot
  <2>6. own = {}
    BY <1>1
  <2>7. voted = {}
    BY <2>6 DEF QuorumOfBallots, NarrowBallots
  <2> QED BY <2>5, <2>7
<1> HIDE DEF blocking, voted, own, accepted
<1>7. \A b \in ballots_accepted_prepared(n, s) : b.X \in L
  BY <1>3, <1>4, <1>5
<1>8. \A b \in ballots_confirmed_prepared(n, s) : b.X \in L
  BY <1>7, QuorumOfBallotsIn DEF ballots_confirmed_prepared
<1>9. ballots_accepted_prepared(n, s) = {} => ballots_confirmed_prepared(n, s) = {}
  BY DEF ballots_confirmed_prepared, QuorumOfBallots, NarrowBallots
<1> QED BY <1>6, <1>7, <1>8, <1>9

(* Only values of L are accepted committed.  By a quorum, because members that   *)
(* vote to commit have told their value, and a node on the zero ballot that      *)
(* needs no members has confirmed nothing prepared.                              *)
LEMMA CommittedIn ==
  ASSUME NEW n, NEW s, NEW V, NEW L, Undecided(n, s, V, L),
         NEW f \in ballots_accepted_committed(n, s)
  PROVE  DOMAIN f \subseteq L
<1> DEFINE by_quorum == AcceptedByQuorum(n, s)
           blocking(g) == AcceptedFromBlockingSet(n, s, g)
           hull(g, x) == Hull((IF x \in blocking(g) THEN g[x] ELSE {})
                                \cup (IF x = s.B.X THEN by_quorum ELSE {}))
<1>1. PICK g \in CommitCandidates(n, s) :
        f = [x \in blocking(g) \cup (IF by_quorum = {} THEN {} ELSE {s.B.X}) |-> hull(g, x)]
  BY DEF ballots_accepted_committed
<1>2. /\ n \in Node /\ s \in Slot /\ s.M \in [Node -> OptMsg]
      /\ \A k \in Node : MsgWithin(s.M[k], V, L)
      /\ s.B = ZeroBallot \/ s.B.X \in L
      /\ Alone(n) /\ s.B = ZeroBallot => s.H = NoBallot
      /\ L \subseteq List
  BY SlotFields DEF Undecided, Within, BallotsWithin, Closed
<1>3. blocking(g) \subseteq L
  <2> DEFINE msgs == {s.M[k] : k \in {j \in quorum_nodes[n] : Committed(s.M[j])}}
  <2>1. \A m \in msgs : CommittedValue(m) \in L
    BY <1>2, QuorumNodesAssumption DEF MsgWithin
  <2>2. DOMAIN g = {CommittedValue(m) : m \in msgs}
    BY DEF CommitCandidates
  <2> HIDE DEF msgs
  <2> QED BY <2>1, <2>2 DEF AcceptedFromBlockingSet
<1>4. by_quorum # {} => s.B.X \in L
  <2> SUFFICES ASSUME by_quorum # {}, s.B = ZeroBallot PROVE FALSE
    BY <1>2
  <2> DEFINE range == IF s.C = NoBallot \/ s.H = NoBallot THEN {} ELSE s.C.N .. s.H.N
             stmts == VotesOrAcceptsCommits(s, s.B.X)
             sat == [S \in SUBSET Node |-> NarrowRange(range, S, stmts) # {}]
             Q == FindQuorum(n, sat)
  <2>1. sat \in SatFn
    BY DEF SatFn
  <2>2. Q \subseteq Node
    BY <1>2, <2>1, FindQuorumAssumption
  <2>3. by_quorum = IF Q = {} THEN {} ELSE NarrowRange(range, Q \ {n}, stmts)
    BY DEF AcceptedByQuorum, QuorumOfRange
  <2>4. s.B.X \in (List \cup {EmptyList}) \ L
    BY <1>2, ListAssumption DEF ZeroBallot, EmptyList
  <2>5. \A k \in Node : stmts[k] = {}
    BY <1>2, <2>4, StatementsIn DEF VotesOrAcceptsCommits
  <2> HIDE DEF sat, stmts
  <2>6. Q = {n} /\ range # {}
    BY <2>2, <2>3, <2>5 DEF NarrowRange
  <2>7. Alone(n)
    BY <2>1, <2>6 DEF Alone
  <2> QED BY <1>2, <2>6, <2>7
<1> HIDE DEF by_quorum, blocking, hull
<1> QED BY <1>1, <1>3, <1>4

(* The value of the next ballot, if there is one, is in L. *)
LEMMA NextValueIn ==
  ASSUME NEW n, NEW s, NEW V, NEW L, Undecided(n, s, V, L)
  PROVE  get_next_ballot_values(n, s) \in L \cup {NoList}
<1> DEFINE h == MaxBallot(ballots_confirmed_prepared(n, s))
           p == MaxBallot(ballots_accepted_prepared(n, s))
           z == IF s.Z = {} THEN CombineErr ELSE combine_fn[s.Z]
<1>1. /\ n \in Node /\ s \in Slot /\ s.Z \subseteq V
      /\ s.B = ZeroBallot \/ s.B.X \in L
      /\ Closed(V, L)
  BY DEF Undecided, Within, BallotsWithin, ValuesWithin
<1>2. OptIn(h, L) /\ OptIn(p, L)
  BY <1>1, PreparedIn, PreparedTypes, MaxIn
<1>3. z \in L \cup {CombineErr}
  BY <1>1 DEF Closed
<1>4. get_next_ballot_values(n, s) =
        CASE h # NoBallot -> h.X
          [] h = NoBallot /\ z # CombineErr -> z
          [] h = NoBallot /\ z = CombineErr /\ p # NoBallot -> p.X
          [] OTHER -> IF s.B = ZeroBallot THEN NoList ELSE s.B.X
  BY DEF get_next_ballot_values
<1> HIDE DEF h, p, z
<1> QED BY <1>1, <1>2, <1>3, <1>4 DEF OptIn

-----------------------------------------------------------------------------
(* Nomination *)

(* do_nominate_phase accepts and confirms values of V, and combines them. *)
LEMMA NominateWithin ==
  ASSUME NEW n, NEW s, NEW V, NEW L, Undecided(n, s, V, L)
  PROVE  Undecided(n, do_nominate_phase(n, s), V, L)
<1> DEFINE s0 == Require(s, s.phase = "NominatePrepare", "assert")
           s1 == [s0 EXCEPT !.nominate_timer = TRUE,
                            !.X = IF s.Z = {} THEN VotedNominated(n, s) ELSE @]
           s2 == Require(s1, s1.Z = {} => s1.X \cap s1.Y = {}, "assert")
           accepted == additional_values_accepted_nominated(n, s2)
           t1 == [s2 EXCEPT !.X = @ \ accepted, !.Y = @ \cup accepted]
           t2 == Require(t1, t1.X \cap t1.Y = {}, "assert")
           confirmed == additional_values_confirmed_nominated(n, t2)
           s3 == [t2 EXCEPT !.Z = @ \cup confirmed]
           first == IF s3.Z # {} /\ s3.B = ZeroBallot THEN combine_fn[s3.Z] ELSE CombineErr
<1> "assert" \in Fault
  BY DEF Fault
<1>0. V \subseteq Value /\ VotedNominated(n, s) \subseteq V
  BY NominatedIn DEF Undecided, Closed
<1>1. Undecided(n, s0, V, L)
  BY RequireWithin
<1> HIDE DEF s0
<1>2. Undecided(n, s1, V, L)
  BY <1>0, <1>1 DEF Undecided, Within, ValuesWithin, BallotsWithin, Slot
<1> HIDE DEF s1
<1>3. Undecided(n, s2, V, L)
  BY <1>2, RequireWithin
<1> HIDE DEF s2
<1>4. accepted \subseteq V
  BY <1>3, NominatedIn
<1> HIDE DEF accepted
<1>5. Undecided(n, t1, V, L)
  BY <1>0, <1>3, <1>4 DEF Undecided, Within, ValuesWithin, BallotsWithin, Slot
<1> HIDE DEF t1
<1>6. Undecided(n, t2, V, L)
  BY <1>5, RequireWithin
<1> HIDE DEF t2
<1>7. confirmed \subseteq V
  BY <1>6, NominatedIn
<1> HIDE DEF confirmed
<1>8. Undecided(n, s3, V, L)
  BY <1>0, <1>6, <1>7 DEF Undecided, Within, ValuesWithin, BallotsWithin, Slot
<1> HIDE DEF s3
<1>9. first \in L \cup {CombineErr}
  <2>1. s3.Z \subseteq V /\ Closed(V, L)
    BY SMTT(30), <1>8 DEF Undecided, Within, ValuesWithin
  <2> QED BY <2>1 DEF Closed
<1>10. do_nominate_phase(n, s) =
         IF first = CombineErr THEN s3 ELSE [s3 EXCEPT !.B = Bal(1, first)]
  <2>1. update_YZ(n, s2) = s3
    BY DEF update_YZ, s3, t2, t1, accepted, confirmed
  <2>2. do_nominate_phase(n, s) =
          LET f(t) == IF t.Z # {} /\ t.B = ZeroBallot THEN combine_fn[t.Z] ELSE CombineErr
              ballot(t) == IF f(t) = CombineErr THEN t ELSE [t EXCEPT !.B = Bal(1, f(t))]
          IN  ballot(update_YZ(n, s2))
    BY ZenonT(40) DEF do_nominate_phase, s2, s1, s0
  <2> QED BY <2>1, <2>2
<1>11. CASE first = CombineErr
  BY <1>8, <1>10, <1>11
<1>12. CASE first # CombineErr
  <2>1. first \in L /\ first \in List
    BY <1>8, <1>9, <1>12 DEF Undecided, Closed
  <2> HIDE DEF first
  <2>2. do_nominate_phase(n, s) = [s3 EXCEPT !.B = Bal(1, first)]
    BY <1>10, <1>12
  <2>3. Bal(1, first) \in Ballot /\ Bal(1, first).X \in L /\ Bal(1, first) # ZeroBallot
    BY <2>1, BallotTypes, InfinityAssumption DEF Counter, Bal, ZeroBallot
  <2> HIDE DEF s3
  <2> QED BY <1>8, <2>2, <2>3 DEF Undecided, Within, ValuesWithin, BallotsWithin, Slot
<1> QED BY <1>11, <1>12

-----------------------------------------------------------------------------
(* The Prepare phase *)

(* A ballot with its value in L is not the zero ballot. *)
LEMMA NotZero ==
  ASSUME NEW V, NEW L, Closed(V, L), NEW b, b.X \in L
  PROVE  b # ZeroBallot /\ b # NoBallot /\ b.X \in List
<1>1. ZeroBallot.X = 0 /\ NoBallot.X = 0
  BY DEF ZeroBallot, NoBallot, EmptyList
<1>2. b.X \in List /\ b.X # 0
  BY ListAssumption DEF Closed
<1> QED BY <1>1, <1>2

(* B may become any ballot with its value in L. *)
LEMMA NewBallot ==
  ASSUME NEW n, NEW s, NEW V, NEW L, Undecided(n, s, V, L), NEW b \in Ballot, b.X \in L
  PROVE  Undecided(n, [s EXCEPT !.B = b], V, L)
<1>1. b # ZeroBallot
  BY NotZero DEF Undecided
<1> QED BY <1>1 DEF Undecided, Within, ValuesWithin, BallotsWithin, Slot

(* The checks change nothing that Within is about. *)
LEMMA ChecksWithin ==
  ASSUME NEW n, NEW s, NEW V, NEW L, Undecided(n, s, V, L)
  PROVE  /\ Undecided(n, check_prepare_phase_invariants(s), V, L)
         /\ Undecided(n, CheckCH(s), V, L)
         /\ Undecided(n, CheckedInc(s, s.B.N), V, L)
         /\ Undecided(n, check_commit_phase_invariants(s), V, L)
<1> "assert" \in Fault /\ "phase" \in Fault /\ "overflow" \in Fault /\ "search" \in Fault
  BY DEF Fault
<1>1. \A cond : /\ Undecided(n, Require(s, cond, "assert"), V, L)
                /\ Undecided(n, Require(s, cond, "phase"), V, L)
                /\ Undecided(n, Require(s, cond, "overflow"), V, L)
  BY RequireWithin
<1>2. \A c, d : Undecided(n, Require(Require(s, c, "phase"), d, "assert"), V, L)
  BY <1>1, RequireWithin
<1>3. \A c, d, e :
        Undecided(n, Require(Require(Require(s, c, "phase"), d, "assert"), e, "search"), V, L)
  BY <1>2, RequireWithin
<1>4. Undecided(n, CheckedInc(s, s.B.N), V, L)
  BY CheckedAgrees, AgreesWithin DEF CheckedInc, Side, Undecided
<1> QED BY <1>1, <1>2, <1>3, <1>4 DEF check_prepare_phase_invariants, CheckCH,
          check_commit_phase_invariants

(* (1) takes P and PP from the ballots accepted prepared. *)
LEMMA UpdatePWithin ==
  ASSUME NEW n, NEW s, NEW V, NEW L, Undecided(n, s, V, L),
         NEW accepted, accepted \subseteq Ballot, \A b \in accepted : b.X \in L,
         Alone(n) /\ s.B = ZeroBallot => accepted = {}
  PROVE  Undecided(n, UpdateP(accepted, s), V, L)
<1> DEFINE p == MaxBallot(accepted)
           pp == MaxBallot({b \in accepted : Aborts(p, b)})
           s1 == IF accepted = {} THEN s ELSE [s EXCEPT !.P = p, !.PP = pp]
           s2 == Require(s1, (s1.P # NoBallot /\ s1.PP # NoBallot) => Aborts(s1.P, s1.PP),
                        "assert")
<1> "assert" \in Fault
  BY DEF Fault
<1>1. p \in OptBallot /\ OptIn(p, L)
  BY MaxMinTypes, MaxIn
<1> HIDE DEF p
<1>2. pp \in OptBallot /\ OptIn(pp, L)
  BY MaxMinTypes, MaxIn
<1> HIDE DEF pp
<1>3. Undecided(n, s1, V, L)
  BY <1>1, <1>2 DEF Undecided, Within, ValuesWithin, BallotsWithin, Slot
<1> HIDE DEF s1
<1>4. Undecided(n, s2, V, L)
  BY <1>3, RequireWithin
<1> HIDE DEF s2
<1>5. UpdateP(accepted, s) \in {s2, [s2 EXCEPT !.C = NoBallot]}
  BY DEF UpdateP, s2, s1, p, pp
<1>6. Undecided(n, [s2 EXCEPT !.C = NoBallot], V, L)
  BY <1>4, BallotTypes DEF Undecided, Within, ValuesWithin, BallotsWithin, Slot, OptIn
<1> QED BY <1>4, <1>5, <1>6

(* (2) takes H from the ballots confirmed prepared. *)
LEMMA UpdateHWithin ==
  ASSUME NEW n, NEW s, NEW V, NEW L, Undecided(n, s, V, L)
  PROVE  Undecided(n, UpdateH(n, s), V, L)
<1> DEFINE S == ballots_confirmed_prepared(n, s)
           h == MaxBallot(S)
           higher == IF BallotLT(h, s.H) THEN s.H ELSE h
           timer == IF s.phase = "NominatePrepare" THEN FALSE ELSE s.nominate_timer
           t == [s EXCEPT !.phase = "Prepare", !.nominate_timer = timer, !.H = higher]
<1>1. /\ s \in Slot /\ n \in Node /\ OptIn(s.H, L) /\ s.H \in OptBallot
      /\ timer \in BOOLEAN
  BY SlotFields DEF Undecided, Within, BallotsWithin
<1>2. S \subseteq Ballot /\ (\A b \in S : b.X \in L)
      /\ (Alone(n) /\ s.B = ZeroBallot => S = {})
  BY <1>1, PreparedTypes, PreparedIn
<1> HIDE DEF S
<1>3. h \in OptBallot /\ OptIn(h, L) /\ (S = {} => h = NoBallot)
  BY <1>2, MaxMinTypes, MaxIn
<1>4. UpdateH(n, s) = IF h = NoBallot THEN s ELSE t
  BY DEF UpdateH, S
<1> HIDE DEF h, timer
<1>5. higher \in OptBallot /\ OptIn(higher, L)
  BY <1>1, <1>3
<1> HIDE DEF higher
<1>6. h # NoBallot => Undecided(n, t, V, L)
  BY <1>1, <1>2, <1>3, <1>5
  DEF Undecided, Within, ValuesWithin, BallotsWithin, Slot, Phase, Locked
<1> HIDE DEF t
<1> QED BY <1>4, <1>6

(* (3) takes the value of C from H. *)
LEMMA UpdateCWithin ==
  ASSUME NEW n, NEW s, NEW V, NEW L, Undecided(n, s, V, L)
  PROVE  Undecided(n, UpdateC(s), V, L)
<1> DEFINE c0 == Bal(IF s.H.X >= s.B.X THEN s.B.N ELSE Inc(s.B.N), s.H.X)
           c1 == RaiseAbove(c0, s.P)
           c == RaiseAbove(c1, s.PP)
           s1 == Require(s, BallotLE(s.B, c) /\ c.N <= s.H.N, "assert")
<1>1. s \in Slot /\ OptIn(s.H, L)
  BY DEF Undecided, Within, BallotsWithin
<1>2. c0 \in Ballot /\ c0.X = s.H.X
  BY <1>1, SlotFields, BallotTypes, CounterTypes DEF Bal
<1> HIDE DEF c0
<1>3. c1 \in Ballot /\ c1.X = s.H.X
  BY <1>1, <1>2, RaiseTypes, SlotFields DEF RaiseAbove, Bal
<1> HIDE DEF c1
<1>4. c \in Ballot /\ c.X = s.H.X
  BY <1>1, <1>3, RaiseTypes, SlotFields DEF RaiseAbove, Bal
<1> HIDE DEF c
<1>5. Undecided(n, s1, V, L)
  BY RequireWithin DEF Fault
<1> HIDE DEF s1
<1>6. UpdateC(s) = s \/ (s.H # NoBallot /\ UpdateC(s) = [s1 EXCEPT !.C = c])
  BY DEF UpdateC, s1, c, c1, c0
<1>7. CASE s.H # NoBallot /\ UpdateC(s) = [s1 EXCEPT !.C = c]
  <2>1. c \in OptBallot /\ OptIn(c, L)
    BY <1>1, <1>4, <1>7, BallotTypes DEF OptIn
  <2> QED BY <1>5, <1>7, <2>1 DEF Undecided, Within, ValuesWithin, BallotsWithin, Slot
<1> QED BY <1>6, <1>7

(* B takes its value from H. *)
LEMMA MoveBWithin ==
  ASSUME NEW n, NEW s, NEW V, NEW L, Undecided(n, s, V, L), s.H # NoBallot
  PROVE  /\ Undecided(n, MoveB(s), V, L)
         /\ MoveB(s).phase = s.phase /\ MoveB(s).B.X = s.H.X
<1> DEFINE t == CheckedInc(s, s.B.N)
           b == IF s.B.X # s.H.X THEN Bal(MaxOf(Inc(s.B.N), s.H.N), s.H.X)
                ELSE Bal(MaxOf(s.B.N, s.H.N), s.H.X)
<1>1. s \in Slot /\ s.H \in Ballot /\ s.H.X \in L
  BY SlotFields, BallotTypes DEF Undecided, Within, BallotsWithin, OptIn
<1>2. b \in Ballot /\ b.X = s.H.X
  BY <1>1, SlotFields, BallotTypes, CounterTypes DEF Bal
<1>3. Undecided(n, t, V, L) /\ t.phase = s.phase /\ t \in Slot
  BY <1>1, ChecksWithin, CheckedTypes DEF CheckedInc, Side, Keeps
<1>4. MoveB(s) \in {[t EXCEPT !.B = b], [s EXCEPT !.B = b]}
  BY DEF MoveB
<1> HIDE DEF t, b
<1>5. /\ Undecided(n, [t EXCEPT !.B = b], V, L)
      /\ Undecided(n, [s EXCEPT !.B = b], V, L)
  BY <1>1, <1>2, <1>3, NewBallot
<1>6. \A u \in {[t EXCEPT !.B = b], [s EXCEPT !.B = b]} : u.phase = s.phase /\ u.B = b
  BY <1>1, <1>3 DEF Slot
<1> QED BY <1>2, <1>4, <1>5, <1>6

(* MoveB changes nothing but B, which takes the value of H, and the fault. *)
LEMMA MoveBFields ==
  ASSUME NEW s \in Slot, s.H \in Ballot
  PROVE  LET t == MoveB(s)
         IN /\ t \in Slot /\ t.B.X = s.H.X /\ t.M = s.M
            /\ t.P = s.P /\ t.PP = s.PP /\ t.H = s.H /\ t.C = s.C
            /\ t.W = s.W /\ t.X = s.X /\ t.Y = s.Y /\ t.Z = s.Z
<1> DEFINE b == IF s.B.X # s.H.X THEN Bal(MaxOf(Inc(s.B.N), s.H.N), s.H.X)
                ELSE Bal(MaxOf(s.B.N, s.H.N), s.H.X)
<1>1. b \in Ballot /\ b.X = s.H.X
  BY SlotFields, BallotTypes, CounterTypes DEF Bal
<1> DEFINE u == CheckedInc(s, s.B.N)
<1>2. u \in Slot /\ Agrees(s, u)
  BY CheckedAgrees DEF CheckedInc, Side
<1>3. MoveB(s) \in {[u EXCEPT !.B = b], [s EXCEPT !.B = b]}
  BY DEF MoveB
<1> HIDE DEF b, u
<1> QED BY <1>1, <1>2, <1>3 DEF Slot, Agrees

(* (4) enters the Commit phase with a value of L. *)
LEMMA EnterCommitWithin ==
  ASSUME NEW n, NEW s, NEW V, NEW L, Undecided(n, s, V, L),
         NEW f \in ballots_accepted_committed(n, s), DOMAIN f # {}
  PROVE  Undecided(n, EnterCommit(n, s, f), V, L)
<1> DEFINE S == {Bal(Lowest(f[x]), x) : x \in DOMAIN f}
           c == MinBallot(S)
           h == Bal(Highest(RangeOf(f, c.X)), c.X)
           s0 == [s EXCEPT !.C = c, !.H = h]
           s1 == [MoveB(s0) EXCEPT !.phase = "Commit", !.nominate_timer = FALSE]
           p == MaxBallot({b \in ballots_accepted_prepared(n, s1) : b.X = s1.B.X})
           r == Require(s1, c.N <= h.N, "assert")
           s2 == Require(r, p # NoBallot, "search")
<1>0. n \in Node /\ s \in Slot /\ Closed(V, L) /\ DOMAIN f \subseteq L
  BY CommittedIn DEF Undecided
<1>1. /\ \A x \in DOMAIN f : f[x] \subseteq Counter
      /\ \A x : RangeOf(f, x) \subseteq Counter
  BY <1>0, AcceptedCommittedTypes
<1>2. S \subseteq Ballot /\ S # {} /\ \A b \in S : b.X \in L
  <2>1. \A x \in DOMAIN f : Lowest(f[x]) \in Counter /\ x \in List
    BY <1>0, <1>1, RangeTypes DEF Closed
  <2>2. \A x \in DOMAIN f : /\ Bal(Lowest(f[x]), x) \in Ballot
                            /\ Bal(Lowest(f[x]), x).X = x
    BY <2>1, BallotTypes DEF Bal
  <2> QED BY <1>0, <2>2
<1> HIDE DEF S
<1>3. c \in Ballot /\ c.X \in L /\ c \in OptBallot
  BY <1>2, MinExists, BallotTypes
<1> HIDE DEF c
<1>4. h \in Ballot /\ h.X \in L /\ h \in OptBallot
  <2>1. Highest(RangeOf(f, c.X)) \in Counter /\ c.X \in List
    BY <1>0, <1>1, <1>3, RangeTypes DEF Closed
  <2> QED BY <1>3, <2>1, BallotTypes DEF Bal
<1> HIDE DEF h
<1>5. h # NoBallot
  BY <1>0, <1>4, NotZero
<1>6. Undecided(n, s1, V, L) /\ s1.B # ZeroBallot /\ s1.B.X \in L
  <2>1. /\ s0 \in Slot /\ s0.phase # "Externalize" /\ s0.M = s.M
        /\ s0.H = h /\ s0.C = c /\ s0.P = s.P /\ s0.PP = s.PP /\ s0.B = s.B
        /\ s0.W = s.W /\ s0.X = s.X /\ s0.Y = s.Y /\ s0.Z = s.Z
    BY <1>3, <1>4 DEF Undecided, Slot
  <2> HIDE DEF s0
  <2>2. /\ MoveB(s0) \in Slot /\ MoveB(s0).B.X = h.X
        /\ MoveB(s0).M = s.M /\ MoveB(s0).P = s.P /\ MoveB(s0).PP = s.PP
        /\ MoveB(s0).H = h /\ MoveB(s0).C = c
        /\ MoveB(s0).W = s.W /\ MoveB(s0).X = s.X /\ MoveB(s0).Y = s.Y /\ MoveB(s0).Z = s.Z
    BY <1>4, <2>1, MoveBFields
  <2>3. MoveB(s0).B # ZeroBallot
    BY <1>0, <1>4, <2>2, NotZero
  <2>4. s1 \in Slot /\ s1.phase = "Commit" /\ Agrees(MoveB(s0), s1)
    BY <2>2 DEF Slot, Phase, Agrees
  <2> HIDE DEF s1
  <2>5. Within(n, s1, V, L)
    BY <1>3, <1>4, <2>2, <2>3, <2>4
    DEF Undecided, Within, ValuesWithin, BallotsWithin, OptIn, Agrees
  <2> QED BY <1>0, <1>4, <2>2, <2>3, <2>4, <2>5 DEF Undecided, Agrees
<1> HIDE DEF s1
<1>7. p \in OptBallot /\ OptIn(p, L)
  <2>1. /\ {b \in ballots_accepted_prepared(n, s1) : b.X = s1.B.X} \subseteq Ballot
        /\ \A b \in {b \in ballots_accepted_prepared(n, s1) : b.X = s1.B.X} : b.X \in L
    BY <1>0, <1>6, PreparedTypes, PreparedIn DEF Undecided
  <2> QED BY <2>1, MaxMinTypes, MaxIn
<1> HIDE DEF p
<1>8. Undecided(n, s2, V, L) /\ s2.B = s1.B
  <2>1. Undecided(n, r, V, L) /\ r.B = s1.B
    BY <1>6, RequireWithin DEF Fault, Agrees
  <2> HIDE DEF r
  <2> QED BY <2>1, RequireWithin DEF Fault, Agrees
<1> HIDE DEF s2
<1>9. EnterCommit(n, s, f) = [s2 EXCEPT !.P = p, !.PP = NoBallot]
  BY DEF EnterCommit, s2, r, s1, s0, p, h, c, S
<1>10. s2.B # ZeroBallot /\ s2.B.X \in L
  BY <1>6, <1>8
<1> DEFINE t == EnterCommit(n, s, f)
<1>11. NoBallot \in OptBallot /\ OptIn(NoBallot, L)
  BY BallotTypes DEF OptIn
<1>12. /\ t \in Slot /\ t.phase = s2.phase /\ t.M = s2.M
       /\ t.W = s2.W /\ t.X = s2.X /\ t.Y = s2.Y /\ t.Z = s2.Z
       /\ t.B = s2.B /\ t.P = p /\ t.PP = NoBallot /\ t.H = s2.H /\ t.C = s2.C
  BY <1>7, <1>8, <1>9, <1>11 DEF Undecided, Slot
<1> HIDE DEF t
<1>13. Undecided(n, t, V, L)
  BY <1>7, <1>8, <1>10, <1>11, <1>12
  DEF Undecided, Within, ValuesWithin, BallotsWithin
<1> QED BY <1>13 DEF t

(* Steps (8) and (9) of do_prepare_phase. *)
LEMMA FinishPrepareWithin ==
  ASSUME NEW n, NEW s, NEW V, NEW L, Undecided(n, s, V, L)
  PROVE  Undecided(n, FinishPrepare(n, s).slot, V, L)
<1> DEFINE s8 == IF s.H = NoBallot THEN s ELSE MoveB(s)
           counter == get_unblocking_ballot_counter(n, s8)
           x == get_next_ballot_values(n, s8)
           t0 == [s8 EXCEPT !.ballot_timer = FALSE]
           t == [s8 EXCEPT !.ballot_timer = FALSE, !.B = Bal(counter, x)]
<1>1. Undecided(n, s8, V, L)
  BY MoveBWithin
<1> HIDE DEF s8
<1>2. counter \in Counter /\ x \in L \cup {NoList}
  BY <1>1, NextBallotTypes, NextValueIn DEF Undecided
<1>3. FinishPrepare(n, s).slot =
        IF s8.B.N < counter /\ x # NoList THEN maybe_set_ballot_timer(n, t)
        ELSE check_prepare_phase_invariants(s8)
  BY DEF FinishPrepare, Unblock, s8
<1> HIDE DEF counter, x
<1>4. CASE s8.B.N < counter /\ x # NoList
  <2>1. Bal(counter, x) \in Ballot /\ Bal(counter, x).X \in L
    BY <1>1, <1>2, <1>4, BallotTypes DEF Bal, Undecided, Closed
  <2>2. t0 \in Slot /\ t0.phase = s8.phase /\ Agrees(s8, t0)
    BY <1>1 DEF Undecided, Slot, Agrees
  <2>3. Undecided(n, t0, V, L)
    BY <1>1, <2>2, AgreesWithin DEF Undecided
  <2>4. t = [t0 EXCEPT !.B = Bal(counter, x)]
    BY <1>1 DEF Undecided, Slot
  <2> HIDE DEF t, t0
  <2>5. Undecided(n, t, V, L)
    BY <2>1, <2>3, <2>4, NewBallot
  <2> QED BY <1>3, <1>4, <2>5, TimerWithin
<1>5. CASE ~(s8.B.N < counter /\ x # NoList)
  BY <1>1, <1>3, <1>5, ChecksWithin
<1> QED BY <1>4, <1>5

(* Steps (1) to (3) of do_prepare_phase. *)
LEMMA UpdatePHCWithin ==
  ASSUME NEW n, NEW s, NEW V, NEW L, Undecided(n, s, V, L)
  PROVE  Undecided(n, UpdatePHC(n, ballots_accepted_prepared(n, s), s), V, L)
<1> DEFINE accepted == ballots_accepted_prepared(n, s)
           s1 == UpdateP(accepted, s)
           s2 == UpdateH(n, s1)
           s3 == CheckCH(UpdateC(CheckCH(s2)))
<1>1. /\ accepted \subseteq Ballot /\ \A b \in accepted : b.X \in L
      /\ Alone(n) /\ s.B = ZeroBallot => accepted = {}
  BY PreparedTypes, PreparedIn DEF Undecided
<1> HIDE DEF accepted
<1>2. Undecided(n, s1, V, L)
  BY <1>1, UpdatePWithin
<1> HIDE DEF s1
<1>3. Undecided(n, s2, V, L)
  BY <1>2, UpdateHWithin
<1> HIDE DEF s2
<1>4. Undecided(n, s3, V, L)
  BY <1>3, ChecksWithin, UpdateCWithin
<1>5. UpdatePHC(n, ballots_accepted_prepared(n, s), s) = s3
  BY DEF UpdatePHC, s3, s2, s1, accepted
<1> QED BY <1>4, <1>5

(* One run through do_prepare_phase. *)
LEMMA PreparePassWithin ==
  ASSUME NEW n, NEW s, NEW V, NEW L, Undecided(n, s, V, L), NEW r \in PreparePass(n, s)
  PROVE  Undecided(n, r.slot, V, L)
<1> DEFINE s0 == check_prepare_phase_invariants(s)
           s3 == UpdatePHC(n, ballots_accepted_prepared(n, s0), s0)
<1>1. Undecided(n, s0, V, L)
  BY ChecksWithin
<1> HIDE DEF s0
<1>2. Undecided(n, s3, V, L)
  BY <1>1, UpdatePHCWithin
<1>3. \/ r = [slot |-> s0, again |-> FALSE]
      \/ r = FinishPrepare(n, s3)
      \/ \E f \in ballots_accepted_committed(n, s3) :
           DOMAIN f # {} /\ r = [slot |-> EnterCommit(n, s3, f), again |-> FALSE]
  BY DEF PreparePass, UpdateBallots, ConcludePrepare, s3, s0
<1> HIDE DEF s3
<1>4. CASE r = [slot |-> s0, again |-> FALSE]
  BY <1>1, <1>4
<1>5. CASE r = FinishPrepare(n, s3)
  BY <1>2, <1>5, FinishPrepareWithin
<1>6. ASSUME NEW f \in ballots_accepted_committed(n, s3), DOMAIN f # {},
             r = [slot |-> EnterCommit(n, s3, f), again |-> FALSE]
      PROVE  Undecided(n, r.slot, V, L)
  <2>1. Undecided(n, EnterCommit(n, s3, f), V, L)
    BY <1>2, <1>6, EnterCommitWithin
  <2> QED BY <1>6, <2>1
<1> QED BY <1>3, <1>4, <1>5, <1>6

(* do_prepare_phase. *)
LEMMA PrepareWithin ==
  ASSUME NEW n, NEW s, NEW V, NEW L, Undecided(n, s, V, L), NEW t \in do_prepare_phase(n, s)
  PROVE  Undecided(n, t, V, L)
<1>1. PICK r \in PreparePass(n, s) :
        \/ t = r.slot
        \/ \E u \in PreparePass(n, r.slot) :
             t = check_prepare_phase_invariants(Require(u.slot, ~u.again, "depth"))
  BY DEF do_prepare_phase
<1>2. Undecided(n, r.slot, V, L)
  BY PreparePassWithin
<1>3. ASSUME NEW u \in PreparePass(n, r.slot),
             t = check_prepare_phase_invariants(Require(u.slot, ~u.again, "depth"))
      PROVE  Undecided(n, t, V, L)
  <2>1. Undecided(n, u.slot, V, L)
    BY <1>2, PreparePassWithin
  <2>2. Undecided(n, Require(u.slot, ~u.again, "depth"), V, L)
    BY <2>1, RequireWithin DEF Fault
  <2> QED BY <1>3, <2>2, ChecksWithin
<1> QED BY <1>1, <1>2, <1>3

-----------------------------------------------------------------------------
(* The Commit and Externalize phases *)

(* (5) takes P from the ballots accepted prepared. *)
LEMMA UpdateCommitPWithin ==
  ASSUME NEW n, NEW s, NEW V, NEW L, Undecided(n, s, V, L), s.B.X \in L
  PROVE  Undecided(n, UpdateCommitP(n, s), V, L) /\ UpdateCommitP(n, s).B = s.B
<1> DEFINE S == {b \in ballots_accepted_prepared(n, s) : b.X = s.B.X}
           p == MaxBallot(S)
           t == [s EXCEPT !.P = p]
<1>1. S \subseteq Ballot /\ \A b \in S : b.X \in L
  BY PreparedTypes DEF Undecided
<1> HIDE DEF S
<1>2. p \in OptBallot /\ OptIn(p, L)
  BY <1>1, MaxMinTypes, MaxIn
<1>3. UpdateCommitP(n, s) \in {s, t}
  BY DEF UpdateCommitP, S
<1>4. s.B # ZeroBallot
  BY NotZero DEF Undecided
<1> HIDE DEF p
<1>5. Undecided(n, t, V, L) /\ t.B = s.B
  BY <1>2, <1>4 DEF Undecided, Within, ValuesWithin, BallotsWithin, Slot
<1> HIDE DEF t
<1> QED BY <1>3, <1>5

(* C and H get the value of B. *)
LEMMA SetCHWithin ==
  ASSUME NEW n, NEW s, NEW V, NEW L, Undecided(n, s, V, L), s.B.X \in L,
         NEW r, r \subseteq Counter
  PROVE  Undecided(n, SetCH(s, r), V, L) /\ SetCH(s, r).B = s.B
<1> DEFINE c == Bal(Lowest(r), s.B.X)
           h == Bal(Highest(r), s.B.X)
<1>1. c \in OptBallot /\ h \in OptBallot /\ OptIn(c, L) /\ OptIn(h, L)
  BY RangeTypes, SlotFields, BallotTypes DEF Undecided, OptIn, Bal
<1>2. SetCH(s, r) = IF r = {} THEN s ELSE [s EXCEPT !.C = c, !.H = h]
  BY DEF SetCH
<1>3. s.B # ZeroBallot
  BY NotZero DEF Undecided
<1> HIDE DEF c, h
<1> QED BY <1>1, <1>2, <1>3 DEF Undecided, Within, ValuesWithin, BallotsWithin, Slot

(* Within, whether the slot has decided or not. *)
Contained(n, s, V, L) ==
  n \in Node /\ s \in Slot /\ Closed(V, L) /\ Within(n, s, V, L)

(* Slots in the same phase that agree are within the same values. *)
LEMMA AgreesContained ==
  ASSUME NEW n, NEW s, NEW t, NEW V, NEW L, Agrees(s, t),
         Contained(n, s, V, L), t \in Slot, t.phase = s.phase
  PROVE  Contained(n, t, V, L)
BY DEF Contained, Agrees, Within, ValuesWithin, BallotsWithin

(* A failed assertion leaves a slot within V and L. *)
LEMMA RequireContained ==
  ASSUME NEW n, NEW s, NEW V, NEW L, NEW cond, NEW tag \in Fault, Contained(n, s, V, L)
  PROVE  Contained(n, Require(s, cond, tag), V, L)
<1>1. /\ Require(s, cond, tag) \in Slot /\ Require(s, cond, tag).phase = s.phase
      /\ Agrees(s, Require(s, cond, tag))
  BY DEF Require, Slot, Agrees, Contained
<1> QED BY <1>1, AgreesContained

(* So do the checks of the invariants of a phase. *)
LEMMA ChecksContained ==
  ASSUME NEW n, NEW s, NEW V, NEW L, Contained(n, s, V, L)
  PROVE  /\ Contained(n, check_commit_phase_invariants(s), V, L)
         /\ Contained(n, check_externalize_phase_invariants(s), V, L)
<1> "assert" \in Fault /\ "phase" \in Fault
  BY DEF Fault
<1>1. \A c, d : /\ Contained(n, Require(s, c, "assert"), V, L)
               /\ Contained(n, Require(Require(s, c, "phase"), d, "assert"), V, L)
  BY RequireContained
<1> QED BY <1>1 DEF check_commit_phase_invariants, check_externalize_phase_invariants

(* Steps (8) and (9) of do_commit_phase raise the counter of B. *)
LEMMA FinishCommitWithin ==
  ASSUME NEW n, NEW s, NEW V, NEW L, Undecided(n, s, V, L), s.phase = "Commit"
  PROVE  Contained(n, FinishCommit(n, s).slot, V, L)
<1> DEFINE b == [s.B EXCEPT !.N = MaxOf(s.B.N, s.H.N)]
           s8 == [s EXCEPT !.B = b]
           counter == get_unblocking_ballot_counter(n, s8)
           b9 == [s8.B EXCEPT !.N = counter]
           t0 == [s8 EXCEPT !.ballot_timer = FALSE]
           t == [t0 EXCEPT !.B = b9]
<1>1. n \in Node /\ s \in Slot /\ s.B.X \in L /\ s.B \in Ballot
      /\ MaxOf(s.B.N, s.H.N) \in Counter
  BY SlotFields, BallotTypes, CounterTypes DEF Undecided, Within, Locked
<1>2. b \in Ballot /\ b.X \in L
  BY <1>1 DEF Ballot
<1>3. s8 = [s EXCEPT !.B.N = MaxOf(@, s.H.N)]
  BY <1>1
<1> HIDE DEF b
<1>4. Undecided(n, s8, V, L) /\ s8.B = b /\ s8 \in Slot
  BY <1>1, <1>2, NewBallot DEF Undecided, Slot
<1> HIDE DEF s8
<1>5. counter \in Counter
  BY <1>1, <1>4, NextBallotTypes
<1>6. t = [s8 EXCEPT !.ballot_timer = FALSE, !.B.N = counter]
  BY <1>4 DEF Slot
<1> HIDE DEF counter
<1>7. b9 \in Ballot /\ b9.X \in L
  BY <1>2, <1>4, <1>5 DEF Ballot
<1> HIDE DEF b9
<1>8. t0 \in Slot /\ t0.phase = s8.phase /\ Agrees(s8, t0)
  BY <1>4 DEF Undecided, Slot, Agrees
<1> HIDE DEF t0
<1>9. Undecided(n, t, V, L)
  BY <1>4, <1>7, <1>8, AgreesWithin, NewBallot
<1> HIDE DEF t
<1>10. FinishCommit(n, s).slot \in {t, check_commit_phase_invariants(s8)}
  BY <1>3, <1>6 DEF FinishCommit, counter
<1> QED BY <1>4, <1>9, <1>10, ChecksWithin DEF Undecided, Contained

(* One run through do_commit_phase. *)
LEMMA CommitPassWithin ==
  ASSUME NEW n, NEW s, NEW V, NEW L, Undecided(n, s, V, L), s.phase = "Commit",
         NEW r \in CommitPass(n, s)
  PROVE  Contained(n, r.slot, V, L)
<1> DEFINE s0 == check_commit_phase_invariants(s)
           s5 == UpdateCommitP(n, s0)
           s6(f) == CheckCH(SetCH(s5, RangeOf(f, s5.B.X)))
<1>1. /\ n \in Node /\ s0 \in Slot /\ Undecided(n, s0, V, L)
      /\ s0.phase = "Commit" /\ s0.B = s.B /\ s.B.X \in L
  <2>1. n \in Node /\ s \in Slot /\ s.B.X \in L
    BY DEF Undecided, Within, Locked
  <2> QED BY <2>1, ChecksWithin, CheckCommitTypes DEF Keeps
<1> HIDE DEF s0
<1>2. /\ s5 \in Slot /\ Undecided(n, s5, V, L)
      /\ s5.phase = "Commit" /\ s5.B.X \in L
  BY <1>1, UpdateCommitPWithin, UpdateCommitPTypes DEF Keeps
<1> HIDE DEF s5
<1>3. PICK f \in ballots_accepted_committed(n, s5) :
        \E confirmed \in ballots_confirmed_committed(n, s6(f)) :
          r = IF confirmed = {} THEN FinishCommit(n, s6(f))
              ELSE [slot |-> EnterExternalize(s6(f), confirmed), again |-> FALSE]
  BY DEF CommitPass, UpdateCH, ConcludeCommit, s5, s0
<1> DEFINE t == s6(f)
<1>4. Undecided(n, t, V, L) /\ t.phase = "Commit" /\ t \in Slot
  <2> DEFINE u == SetCH(s5, RangeOf(f, s5.B.X))
  <2>1. RangeOf(f, s5.B.X) \subseteq Counter
    BY <1>1, <1>2, AcceptedCommittedTypes
  <2>2. Undecided(n, u, V, L) /\ u.phase = "Commit" /\ u \in Slot
    BY <1>2, <2>1, SetCHWithin, SetCHTypes DEF Keeps
  <2> HIDE DEF u
  <2>3. Undecided(n, CheckCH(u), V, L) /\ CheckCH(u).phase = "Commit" /\ CheckCH(u) \in Slot
    BY <2>2, ChecksWithin, CheckTypes DEF Keeps
  <2> QED BY <2>3 DEF u
<1>5. PICK confirmed \in ballots_confirmed_committed(n, t) :
        r = IF confirmed = {} THEN FinishCommit(n, t)
            ELSE [slot |-> EnterExternalize(t, confirmed), again |-> FALSE]
  BY <1>3
<1> HIDE DEF t
<1>6. CASE confirmed = {}
  BY <1>4, <1>5, <1>6, FinishCommitWithin
<1>7. CASE confirmed # {}
  <2> DEFINE v == SetCH(t, confirmed)
             w == EnterExternalize(t, confirmed)
  <2>1. confirmed \subseteq Counter /\ t.B.X \in L
    BY <1>1, <1>4, ConfirmedCommittedTypes DEF Undecided, Within, Locked
  <2>2. Undecided(n, v, V, L) /\ v.B = t.B
    BY <1>4, <2>1, SetCHWithin
  <2>3. w = [v EXCEPT !.phase = "Externalize", !.nominate_timer = FALSE,
                      !.ballot_timer = FALSE]
    BY DEF EnterExternalize
  <2> HIDE DEF v, w
  <2>4. w \in Slot /\ w.phase = "Externalize" /\ Agrees(v, w)
    BY <2>2, <2>3 DEF Undecided, Slot, Phase, Agrees
  <2>5. Contained(n, w, V, L)
    BY <2>1, <2>2, <2>4
    DEF Undecided, Contained, Within, ValuesWithin, BallotsWithin, Agrees
  <2> QED BY <1>5, <1>7, <2>5 DEF w
<1> QED BY <1>6, <1>7

(* do_commit_phase. *)
LEMMA CommitWithin ==
  ASSUME NEW n, NEW s, NEW V, NEW L, Undecided(n, s, V, L), s.phase = "Commit",
         NEW t \in do_commit_phase(n, s)
  PROVE  Contained(n, t, V, L)
<1>1. PICK r \in CommitPass(n, s) :
        \/ t = r.slot
        \/ /\ r.again
           /\ \E u \in CommitPass(n, r.slot) :
                t = check_commit_phase_invariants(Require(u.slot, ~u.again, "depth"))
  BY DEF do_commit_phase
<1>2. Contained(n, r.slot, V, L) /\ (r.again => r.slot.phase = "Commit")
  BY CommitPassWithin, CommitPassFollows DEF Undecided
<1>3. ASSUME r.again, NEW u \in CommitPass(n, r.slot),
             t = check_commit_phase_invariants(Require(u.slot, ~u.again, "depth"))
      PROVE  Contained(n, t, V, L)
  <2>1. Undecided(n, r.slot, V, L) /\ r.slot.phase = "Commit"
    BY <1>2, <1>3 DEF Undecided, Contained
  <2>2. Contained(n, u.slot, V, L)
    BY <2>1, CommitPassWithin
  <2>3. Contained(n, Require(u.slot, ~u.again, "depth"), V, L)
    BY <2>2, RequireContained DEF Fault
  <2> QED BY <1>3, <2>3, ChecksContained
<1> QED BY <1>1, <1>2, <1>3

(* do_externalize_phase changes the counter of H. *)
LEMMA ExternalizeWithin ==
  ASSUME NEW n, NEW s, NEW V, NEW L, Contained(n, s, V, L), Sound(s),
         s.phase = "Externalize", NEW t \in do_externalize_phase(n, s)
  PROVE  Contained(n, t, V, L)
<1> DEFINE s0 == check_externalize_phase_invariants(s)
<1>1. /\ n \in Node /\ Contained(n, s0, V, L) /\ s0 \in Slot
      /\ s0.phase = "Externalize" /\ s0.H = s.H /\ s.H \in Ballot
  BY ChecksContained, CheckCommitTypes DEF Sound, Keeps, Contained
<1> HIDE DEF s0
<1>2. PICK confirmed \in ballots_confirmed_committed(n, s0) :
        t = check_externalize_phase_invariants(
              IF confirmed = {} THEN s0
              ELSE [s0 EXCEPT !.H.N = MaxOf(@, Highest(confirmed))])
  BY DEF do_externalize_phase, s0
<1> DEFINE h == [s.H EXCEPT !.N = MaxOf(s.H.N, Highest(confirmed))]
           s1 == [s0 EXCEPT !.H = h]
<1>3. h \in OptBallot /\ h.X = s.H.X
  <2>1. Highest(confirmed) \in Counter
    BY <1>1, ConfirmedCommittedTypes, RangeTypes
  <2>2. MaxOf(s.H.N, Highest(confirmed)) \in Counter
    BY <1>1, <2>1, BallotTypes, CounterTypes
  <2>3. h \in Ballot /\ h.X = s.H.X
    BY <1>1, <2>2 DEF Ballot
  <2> HIDE DEF h
  <2> QED BY <2>3, BallotTypes
<1>4. OptIn(h, L)
  <2>1. s.H # NoBallot
    BY <1>1, BallotTypes, InfinityAssumption DEF NoBallot, Ballot, Counter
  <2> QED BY <1>1, <1>3, <2>1 DEF Contained, Within, BallotsWithin, OptIn
<1>5. t = check_externalize_phase_invariants(IF confirmed = {} THEN s0 ELSE s1)
  BY <1>1, <1>2
<1>6. s0.B # ZeroBallot
  BY <1>1, NotZero DEF Contained, Within, Locked
<1> HIDE DEF h
<1>7. Contained(n, s1, V, L)
  BY <1>1, <1>3, <1>4, <1>6 DEF Contained, Within, ValuesWithin, BallotsWithin, Slot
<1> HIDE DEF s1
<1> QED BY <1>1, <1>5, <1>7, ChecksContained

(* do_ballot_protocol. *)
LEMMA BallotProtocolWithin ==
  ASSUME NEW n, NEW s, NEW V, NEW L, Contained(n, s, V, L), Sound(s),
         NEW t \in do_ballot_protocol(n, s)
  PROVE  Contained(n, t, V, L)
<1> DEFINE s0 == maybe_set_ballot_timer(n, s)
           prepared == PrepareStep(n, s0)
           committed == UNION {CommitStep(n, u) : u \in prepared}
<1>0. n \in Node
  BY DEF Contained
<1>1. Contained(n, s0, V, L) /\ Sound(s0)
  <2>1. s0 \in {s, [s EXCEPT !.ballot_timer = TRUE]}
    BY DEF maybe_set_ballot_timer
  <2>2. s0 \in Slot /\ s0.phase = s.phase /\ Agrees(s, s0)
    BY <2>1 DEF Contained, Slot, Agrees
  <2> HIDE DEF s0
  <2> QED BY <2>2, AgreesContained DEF Sound, Agrees
<1> HIDE DEF s0
<1>2. \A u \in prepared : Contained(n, u, V, L) /\ Sound(u)
  <2> SUFFICES ASSUME NEW u \in prepared PROVE Contained(n, u, V, L) /\ Sound(u)
    OBVIOUS
  <2>1. CASE s0.phase \in {"NominatePrepare", "Prepare"}
    <3>1. u \in do_prepare_phase(n, s0) /\ Undecided(n, s0, V, L)
      BY <1>1, <2>1 DEF PrepareStep, Undecided, Contained
    <3>2. Undecided(n, u, V, L)
      BY <3>1, PrepareWithin
    <3> QED BY <3>2 DEF Undecided, Contained, Sound
  <2>2. CASE s0.phase \notin {"NominatePrepare", "Prepare"}
    BY <1>1, <2>2 DEF PrepareStep
  <2> QED BY <2>1, <2>2
<1> HIDE DEF prepared
<1>3. \A u \in committed : Contained(n, u, V, L) /\ Sound(u)
  <2> SUFFICES ASSUME NEW v \in prepared, NEW u \in CommitStep(n, v)
               PROVE  Contained(n, u, V, L) /\ Sound(u)
    OBVIOUS
  <2>1. CASE Running(v) /\ v.phase = "Commit"
    <3>1. u \in do_commit_phase(n, v) /\ Undecided(n, v, V, L) /\ v \in Slot
      BY <1>2, <2>1 DEF CommitStep, Undecided, Contained
    <3>2. Contained(n, u, V, L)
      BY <2>1, <3>1, CommitWithin
    <3>3. Sound(u)
      BY <1>0, <2>1, <3>1, CommitPhaseFollows DEF Follows
    <3> QED BY <3>2, <3>3
  <2>2. CASE ~(Running(v) /\ v.phase = "Commit")
    BY <1>2, <2>2 DEF CommitStep
  <2> QED BY <2>1, <2>2
<1>4. PICK u \in committed : t \in ExternalizeStep(n, u)
  BY DEF do_ballot_protocol, committed, prepared, s0
<1> HIDE DEF committed
<1>5. Contained(n, u, V, L) /\ Sound(u)
  BY <1>3
<1> QED BY <1>4, <1>5, ExternalizeWithin DEF ExternalizeStep

-----------------------------------------------------------------------------
(* Messages *)

(* P and PP are sent with lower counters, and not with other values. *)
LEMMA ClampedIn ==
  ASSUME NEW s \in Slot, NEW L, OptIn(s.P, L), OptIn(s.PP, L)
  PROVE  OptIn(ClampedP(s), L) /\ OptIn(ClampedPP(s), L)
<1>1. s.B \in Ballot /\ s.B.N \in Nat
  BY SlotFields, BallotTypes
<1>2. ~BallotLT(s.B, NoBallot)
  BY <1>1 DEF BallotLT, NoBallot
<1>3. OptIn(ClampedP(s), L)
  BY <1>2 DEF ClampedP, OptIn, Bal
<1> DEFINE p == ClampedP(s)
<1>4. ClampedPP(s) = NoBallot \/ ClampedPP(s) = s.PP \/ (s.PP # NoBallot /\ ClampedPP(s).X = s.PP.X)
  <2> HIDE DEF p
  <2>1. ClampedPP(s) =
          CASE p = NoBallot \/ s.PP = NoBallot -> NoBallot
            [] p # NoBallot /\ BallotLT(p, s.PP) ->
                 IF s.PP.N > 0 THEN Bal(IF s.PP.X > p.X THEN Dec(p.N) ELSE p.N, s.PP.X)
                 ELSE NoBallot
            [] OTHER -> s.PP
    BY DEF ClampedPP, p
  <2>2. \A a : Bal(a, s.PP.X).X = s.PP.X
    BY DEF Bal
  <2>3. CASE p = NoBallot \/ s.PP = NoBallot
    <3>1. p # NoBallot => p.N \in Nat
      BY ClampedTypes, BallotTypes DEF p
    <3>2. p # NoBallot => ~BallotLT(p, NoBallot)
      BY <3>1 DEF BallotLT, NoBallot
    <3> QED BY <2>1, <2>3, <3>2
  <2>4. CASE ~(p = NoBallot \/ s.PP = NoBallot)
    BY <2>1, <2>2, <2>4
  <2> QED BY <2>3, <2>4
<1>5. OptIn(ClampedPP(s), L)
  BY <1>4 DEF OptIn
<1> QED BY <1>3, <1>5

(* What a slot sends is within V and L; with a counter CN only if B has the    *)
(* value of H.                                                                  *)
LEMMA OutTopicWithin ==
  ASSUME NEW n, NEW s, NEW V, NEW L, Contained(n, s, V, L), Sound(s)
  PROVE  MsgWithin(OutTopic(s), V, L)
<1> DEFINE q == PreparePayload(s)
           m == OutTopic(s)
<1>0. /\ s \in Slot /\ ValuesWithin(s, V) /\ BallotsWithin(s, L)
      /\ s.phase \in Locked => s.B.X \in L
  BY DEF Contained, Within
<1>1. OptIn(q.P, L) /\ OptIn(q.PP, L) /\ (q.CN # 0 => q.B.X \in L)
  <2>1. OptIn(q.P, L) /\ OptIn(q.PP, L)
    BY <1>0, ClampedIn DEF PreparePayload, BallotsWithin
  <2>2. q.CN # 0 => s.H # NoBallot /\ s.H.X = s.B.X /\ q.B = s.B
    BY DEF PreparePayload
  <2> HIDE DEF q
  <2> QED BY <1>0, <2>1, <2>2 DEF BallotsWithin, OptIn
<1>2. Committed(m) => CommittedValue(m) \in L
  BY <1>0, OutTopicTypes
<1>3. CASE s.phase = "NominatePrepare" /\ s.B # ZeroBallot
  <2>1. m = [type |-> "NominatePrepare", X |-> s.X, Y |-> s.Y,
             B |-> q.B, P |-> q.P, PP |-> q.PP, HN |-> q.HN, CN |-> q.CN]
    BY <1>3 DEF OutTopic
  <2> HIDE DEF q, m
  <2>2. MsgWithin(m, V, L)
    BY <1>0, <1>1, <1>2, <2>1
    DEF MsgWithin, Preparing, Nominating, votes_or_accepts_nominated, ValuesWithin
  <2> QED BY <2>2 DEF m
<1>4. CASE s.phase = "NominatePrepare" /\ s.B = ZeroBallot
  <2>1. m = NoMsg \/ m = [type |-> "Nominate", X |-> s.X, Y |-> s.Y]
    BY <1>4 DEF OutTopic
  <2> HIDE DEF m
  <2>2. MsgWithin(m, V, L)
    BY <1>0, <1>2, <2>1
    DEF MsgWithin, Preparing, Nominating, votes_or_accepts_nominated, ValuesWithin, NoMsg
  <2> QED BY <2>2 DEF m
<1>5. CASE s.phase = "Prepare"
  <2>1. m = [type |-> "Prepare", B |-> q.B, P |-> q.P, PP |-> q.PP, HN |-> q.HN, CN |-> q.CN]
    BY <1>5 DEF OutTopic
  <2> HIDE DEF q, m
  <2>2. MsgWithin(m, V, L)
    BY <1>1, <1>2, <2>1 DEF MsgWithin, Preparing, Nominating, votes_or_accepts_nominated
  <2> QED BY <2>2 DEF m
<1>6. CASE s.phase \in Locked
  <2>1. m.type \in {"Commit", "Externalize"}
    BY <1>6 DEF OutTopic, Locked
  <2> HIDE DEF m
  <2>2. MsgWithin(m, V, L)
    BY <1>2, <2>1 DEF MsgWithin, Preparing, Nominating, votes_or_accepts_nominated
  <2> QED BY <2>2 DEF m
<1> QED BY <1>0, <1>3, <1>4, <1>5, <1>6, SlotFields DEF Phase, Locked

-----------------------------------------------------------------------------
(* The methods of ScpSlot *)

(* t, which a method makes of s, is within V and L, and so is what was sent. *)
Delivers(n, s, t, V, L) ==
  /\ Contained(n, t, V, L)
  /\ t.last_sent_msg # s.last_sent_msg => MsgWithin(t.last_sent_msg, V, L)

(* A method ends with what the ballot protocol leaves, or where it began. *)
LEMMA OutcomesWithin ==
  ASSUME NEW n, NEW s, NEW V, NEW L, Contained(n, s, V, L), NEW results,
         \A r \in results : r \in Slot,
         \A r \in results : Running(r) => /\ Contained(n, r, V, L) /\ Sound(r)
                                          /\ r.last_sent_msg = s.last_sent_msg,
         NEW t \in Outcomes(s, results)
  PROVE  Delivers(n, s, t, V, L)
<1>1. PICK u : /\ \/ \E r \in results : Running(r) /\ u = out_msg(r)
                  \/ u \in results /\ ~Running(u)
               /\ t = IF Running(u) THEN u
                      ELSE [s EXCEPT !.fault = u.fault, !.overflow = u.overflow]
  BY DEF Outcomes
<1>2. ASSUME NEW r \in results, Running(r), u = out_msg(r)
      PROVE  u \in Slot /\ Delivers(n, s, u, V, L)
  <2> DEFINE m == OutTopic(r)
             r1 == Checked(r, ~Underflows(r), "below")
             r2 == IF m = NoMsg THEN r1 ELSE Require(r1, WellFormed(m), "message")
  <2> "overflow" \in Fault /\ "message" \in Fault
    BY DEF Fault
  <2>0. Contained(n, r, V, L) /\ Sound(r) /\ r \in Slot
    BY <1>2 DEF Contained
  <2>1. Contained(n, r1, V, L) /\ r1.last_sent_msg = s.last_sent_msg
    BY <1>2, <2>0, CheckedAgrees, AgreesContained DEF Side
  <2> HIDE DEF r1
  <2>2. Contained(n, r2, V, L) /\ r2.last_sent_msg = s.last_sent_msg /\ r2 \in Slot
    BY <2>1, RequireContained, RequireTypes DEF Keeps, Contained
  <2>3. MsgWithin(m, V, L) /\ m \in OptMsg
    BY <2>0, OutTopicWithin, OutTopicTypes
  <2>4. u = IF m = NoMsg THEN r2 ELSE [r2 EXCEPT !.last_sent_msg = m]
    BY <1>2 DEF out_msg, r1
  <2> HIDE DEF r2, m
  <2>5. /\ u \in Slot /\ u.phase = r2.phase /\ Agrees(r2, u)
        /\ u.last_sent_msg \in {s.last_sent_msg, m}
    BY <2>2, <2>3, <2>4 DEF Slot, Agrees
  <2>6. Contained(n, u, V, L)
    BY <2>2, <2>5, AgreesContained
  <2> QED BY <2>3, <2>5, <2>6, SlotFields DEF Delivers
<1>3. CASE Running(u)
  BY <1>1, <1>2, <1>3
<1>4. CASE ~Running(u)
  <2>1. u.fault \in Fault /\ u.overflow \in SUBSET Side
    BY <1>1, <1>2 DEF Slot
  <2>2. t = [s EXCEPT !.fault = u.fault, !.overflow = u.overflow]
    BY <1>1, <1>4
  <2>3. /\ t \in Slot /\ t.phase = s.phase /\ Agrees(s, t)
        /\ t.last_sent_msg = s.last_sent_msg
    BY <2>1, <2>2 DEF Contained, Slot, Agrees
  <2> QED BY <2>3, AgreesContained DEF Delivers
<1> QED BY <1>3, <1>4

(* What the ballot protocol leaves of a slot that a method hands over to it. *)
LEMMA ResultsWithin ==
  ASSUME NEW n, NEW s, NEW V, NEW L, NEW s1, Contained(n, s1, V, L), Sound(s1),
         s1.last_sent_msg = s.last_sent_msg, NEW r \in do_ballot_protocol(n, s1)
  PROVE  /\ r \in Slot /\ Contained(n, r, V, L) /\ Sound(r)
         /\ r.last_sent_msg = s.last_sent_msg
<1>1. Contained(n, r, V, L)
  BY BallotProtocolWithin
<1>2. Follows(n, s1, r)
  BY BallotProtocolFollows DEF Contained
<1> QED BY <1>1, <1>2, SlotFields DEF Contained, Follows

(* What propose_values hands over to the ballot protocol. *)
LEMMA ProposalTaken ==
  ASSUME NEW n, NEW s, NEW V, NEW L, Contained(n, s, V, L), Sound(s),
         s.phase = "NominatePrepare", NEW valid, valid \subseteq V
  PROVE  LET t == do_nominate_phase(n, [s EXCEPT !.W = @ \cup valid])
         IN  Contained(n, t, V, L) /\ Sound(t) /\ t.last_sent_msg = s.last_sent_msg
<1> DEFINE s0 == [s EXCEPT !.W = @ \cup valid]
           s1 == do_nominate_phase(n, s0)
<1>0. n \in Node /\ s \in Slot /\ V \subseteq Value
  BY DEF Contained, Closed
<1>1. /\ Undecided(n, s0, V, L) /\ s0.phase = "NominatePrepare"
      /\ s0.last_sent_msg = s.last_sent_msg
  BY <1>0 DEF Contained, Undecided, Within, ValuesWithin, BallotsWithin, Slot
<1> HIDE DEF s0
<1>2. Undecided(n, s1, V, L)
  BY <1>1, NominateWithin
<1>3. s1.last_sent_msg = s.last_sent_msg
  BY <1>1, NominateTypes DEF Keeps, Undecided
<1> HIDE DEF s1
<1>4. Contained(n, s1, V, L) /\ Sound(s1)
  BY <1>2 DEF Contained, Undecided, Sound
<1> QED BY <1>3, <1>4 DEF s1, s0

(* propose_values: what is proposed is validated. *)
LEMMA ProposeValuesWithin ==
  ASSUME NEW n, NEW s, NEW V, NEW L, Contained(n, s, V, L), Sound(s),
         NEW values, values \cap ValidValue[n] \subseteq V,
         NEW t \in propose_values(n, s, values)
  PROVE  Delivers(n, s, t, V, L)
<1> DEFINE valid == values \cap ValidValue[n]
           s1 == do_nominate_phase(n, [s EXCEPT !.W = @ \cup valid])
<1>0. s \in Slot
  BY SlotFields DEF Contained
<1>1. CASE s.phase # "NominatePrepare" \/ s.Z # {}
  <2>1. t \in Outcomes(s, {s})
    BY <1>1 DEF propose_values
  <2> QED BY <1>0, <2>1, OutcomesWithin
<1>2. CASE s.phase = "NominatePrepare" /\ s.Z = {} /\ valid = {}
  <2>1. t = s
    BY <1>2 DEF propose_values
  <2> QED BY <2>1 DEF Delivers
<1>3. CASE s.phase = "NominatePrepare" /\ s.Z = {} /\ valid # {}
  <2>1. t \in Outcomes(s, do_ballot_protocol(n, s1))
    BY <1>3 DEF propose_values
  <2>2. valid \subseteq V
    OBVIOUS
  <2> HIDE DEF valid
  <2>3. Contained(n, s1, V, L) /\ Sound(s1) /\ s1.last_sent_msg = s.last_sent_msg
    BY <1>3, <2>2, ProposalTaken
  <2> HIDE DEF s1
  <2> QED BY <2>1, <2>3, ResultsWithin, OutcomesWithin
<1> QED BY <1>1, <1>2, <1>3

(* What handle_messages hands over to the ballot protocol: the messages it takes   *)
(* over are within V and L, until the slot has decided.                            *)
LEMMA MessagesTaken ==
  ASSUME NEW n, NEW s, NEW V, NEW L, Contained(n, s, V, L), Sound(s),
         NEW batch, \A k \in DOMAIN batch : batch[k] \in Msg,
         s.phase # "Externalize" =>
           \A k \in DOMAIN batch : IsNews(n, s, k, batch[k]) => MsgWithin(batch[k], V, L)
  PROVE  LET news == {k \in DOMAIN batch : IsNews(n, s, k, batch[k])}
             s1 == [s EXCEPT !.M = [k \in Node |-> IF k \in news THEN batch[k] ELSE @[k]]]
             s2 == IF s.phase = "NominatePrepare" THEN do_nominate_phase(n, s1) ELSE s1
         IN  Contained(n, s2, V, L) /\ Sound(s2) /\ s2.last_sent_msg = s.last_sent_msg
<1> DEFINE news == {k \in DOMAIN batch : IsNews(n, s, k, batch[k])}
           M1 == [k \in Node |-> IF k \in news THEN batch[k] ELSE s.M[k]]
           s1 == [s EXCEPT !.M = M1]
           s2 == IF s.phase = "NominatePrepare" THEN do_nominate_phase(n, s1) ELSE s1
<1>0. n \in Node /\ s \in Slot
  BY DEF Contained
<1>1. M1 \in [Node -> OptMsg]
  BY <1>0, SlotFields DEF OptMsg
<1>2. s.phase # "Externalize" => \A k \in Node : MsgWithin(M1[k], V, L)
  <2> SUFFICES ASSUME s.phase # "Externalize", NEW k \in Node
               PROVE  MsgWithin(M1[k], V, L)
    OBVIOUS
  <2>1. MsgWithin(s.M[k], V, L)
    BY DEF Contained, Within
  <2>2. M1[k] = IF k \in news THEN batch[k] ELSE s.M[k]
    OBVIOUS
  <2>3. k \in news => MsgWithin(batch[k], V, L)
    OBVIOUS
  <2> HIDE DEF M1, news
  <2> QED BY <2>1, <2>2, <2>3
<1>3. M1[n] = NoMsg
  BY <1>0 DEF IsNews, Contained, Within
<1> HIDE DEF M1, news
<1>4. Contained(n, s1, V, L) /\ s1.phase = s.phase
  BY <1>0, <1>1, <1>2, <1>3 DEF Contained, Within, ValuesWithin, BallotsWithin, Slot
<1>5. Sound(s1) /\ s1 \in Slot /\ s1.last_sent_msg = s.last_sent_msg
  BY <1>0, <1>4 DEF Sound, Contained
<1> HIDE DEF s1
<1>6. Contained(n, s2, V, L) /\ Sound(s2) /\ s2.last_sent_msg = s.last_sent_msg
  <2>1. CASE s.phase = "NominatePrepare"
    <3>1. Undecided(n, s1, V, L)
      BY <1>4, <2>1 DEF Contained, Undecided
    <3>2. Undecided(n, s2, V, L)
      BY <2>1, <3>1, NominateWithin
    <3>3. s2.last_sent_msg = s1.last_sent_msg
      BY <1>0, <1>5, <2>1, NominateTypes DEF Keeps
    <3> HIDE DEF s2
    <3> QED BY <1>5, <3>2, <3>3 DEF Contained, Undecided, Sound
  <2>2. CASE s.phase # "NominatePrepare"
    BY <1>4, <1>5, <2>2
  <2> QED BY <2>1, <2>2
<1> QED BY <1>6 DEF s1, M1, news

(* handle_messages. *)
LEMMA HandleMessagesWithin ==
  ASSUME NEW n, NEW s, NEW V, NEW L, Contained(n, s, V, L), Sound(s),
         NEW batch, \A k \in DOMAIN batch : batch[k] \in Msg,
         s.phase # "Externalize" =>
           \A k \in DOMAIN batch : IsNews(n, s, k, batch[k]) => MsgWithin(batch[k], V, L),
         NEW t \in handle_messages(n, s, batch)
  PROVE  Delivers(n, s, t, V, L)
<1> DEFINE news == {k \in DOMAIN batch : IsNews(n, s, k, batch[k])}
           s1 == [s EXCEPT !.M = [k \in Node |-> IF k \in news THEN batch[k] ELSE @[k]]]
           s2 == IF s.phase = "NominatePrepare" THEN do_nominate_phase(n, s1) ELSE s1
<1>1. Contained(n, s2, V, L) /\ Sound(s2) /\ s2.last_sent_msg = s.last_sent_msg
  BY MessagesTaken
<1>2. t = s \/ t \in Outcomes(s, do_ballot_protocol(n, s2))
  BY DEF handle_messages
<1> HIDE DEF s2
<1>3. CASE t = s
  BY <1>3 DEF Delivers
<1>4. CASE t \in Outcomes(s, do_ballot_protocol(n, s2))
  BY <1>1, <1>4, ResultsWithin, OutcomesWithin
<1> QED BY <1>2, <1>3, <1>4

(* A nomination timeout leaves a slot within V and L, or panics. *)
LEMMA NominateTimeoutWithin ==
  ASSUME NEW n, NEW s, NEW V, NEW L, Contained(n, s, V, L), Sound(s),
         s.nominate_round + 1 \in Round
  PROVE  LET t == NominateTimeout(n, s)
         IN /\ Keeps(s, t)
            /\ Running(t) => Contained(n, t, V, L) /\ Sound(t)
<1> DEFINE round == s.nominate_round + 1
           peers == s.max_priority_peers \cup
                      {find_max_priority_peer(n, s.max_priority_peers, round)}
           s1 == [s EXCEPT !.nominate_timer = FALSE, !.nominate_round = round,
                           !.max_priority_peers = peers]
           t == NominateTimeout(n, s)
<1>0. n \in Node /\ s \in Slot
  BY DEF Contained
<1>1. /\ Keeps(s, t) /\ t.phase = s.phase
      /\ s.phase # "NominatePrepare" => ~Running(t)
  BY <1>0, NominateTimeoutTypes
<1>2. CASE s.phase = "NominatePrepare"
  <2>1. round \in Nat /\ peers \subseteq Node
    BY <1>0, LeaderTypes, SlotFields
  <2>2. t = do_nominate_phase(n, s1)
    BY DEF NominateTimeout
  <2> HIDE DEF round, peers
  <2>3. s1 \in Slot /\ s1.phase = s.phase /\ Agrees(s, s1)
    BY <1>0, <2>1 DEF Slot, Agrees
  <2> HIDE DEF s1
  <2>4. Undecided(n, s1, V, L)
    BY <1>2, <2>3, AgreesWithin DEF Contained, Undecided
  <2>5. Undecided(n, t, V, L)
    BY <2>2, <2>4, NominateWithin
  <2> HIDE DEF t
  <2>6. Keeps(s, t) /\ Contained(n, t, V, L) /\ Sound(t)
    BY <1>1, <2>5 DEF Contained, Undecided, Sound
  <2> QED BY <2>6 DEF t
<1>3. CASE s.phase # "NominatePrepare"
  BY <1>1, <1>3
<1> QED BY <1>2, <1>3

(* A ballot timeout gives B a value of L, or keeps the one it has. *)
LEMMA BallotTimeoutWithin ==
  ASSUME NEW n, NEW s, NEW V, NEW L, Contained(n, s, V, L), Sound(s), Running(s)
  PROVE  Contained(n, BallotTimeout(n, s), V, L)
<1> DEFINE t == CheckedInc(s, s.B.N)
           s1 == [t EXCEPT !.ballot_timer = FALSE]
           x == get_next_ballot_values(n, s)
           c == Inc(s.B.N)
<1>0. n \in Node /\ s \in Slot /\ s.B \in Ballot /\ c \in Counter
  BY SlotFields, CounterTypes DEF Contained
<1>1. /\ Contained(n, t, V, L) /\ t \in Slot /\ t.phase = s.phase /\ t.B = s.B
  BY <1>0, CheckedAgrees, AgreesContained DEF CheckedInc, Side, Agrees
<1> HIDE DEF t
<1>2. s1 \in Slot /\ s1.phase = t.phase /\ s1.B = t.B /\ Agrees(t, s1)
  BY <1>1 DEF Slot, Agrees
<1>3. Contained(n, s1, V, L)
  BY <1>1, <1>2, AgreesContained
<1>4. BallotTimeout(n, s) =
        CASE s.phase = "Commit" -> [s1 EXCEPT !.B.N = c]
          [] s.phase \in {"NominatePrepare", "Prepare"} /\ x # NoList ->
               [s1 EXCEPT !.B = Bal(c, x)]
          [] OTHER -> s1
  BY <1>1, <1>2 DEF BallotTimeout, RaiseBallot, t
<1> HIDE DEF s1, c
<1>5. s.phase # "Externalize" => x \in L \cup {NoList} /\ Undecided(n, s1, V, L)
  BY <1>1, <1>2, <1>3, NextValueIn DEF Contained, Undecided
<1>6. L \subseteq List
  BY DEF Contained, Closed
<1> HIDE DEF x
<1>7. CASE s.phase = "Commit"
  <2> DEFINE b == Bal(c, s1.B.X)
  <2>1. BallotTimeout(n, s) = [s1 EXCEPT !.B = b]
    <3>1. s1.B = Bal(s1.B.N, s1.B.X)
      BY <1>0, <1>1, <1>2 DEF Ballot, Bal
    <3>2. [s1.B EXCEPT !.N = c] = b
      BY <3>1 DEF Bal
    <3> QED BY <1>4, <1>7, <3>2
  <2>2. s1.B.X \in L
    BY <1>1, <1>2, <1>3, <1>7 DEF Contained, Within, Locked
  <2>3. b \in Ballot /\ b.X \in L
    BY <1>0, <1>6, <2>2, BallotTypes DEF Bal
  <2> HIDE DEF b
  <2> QED BY <1>5, <1>7, <2>1, <2>3, NewBallot DEF Contained, Undecided
<1>8. CASE s.phase \in {"NominatePrepare", "Prepare"} /\ x # NoList
  <2> DEFINE b == Bal(c, x)
  <2>1. BallotTimeout(n, s) = [s1 EXCEPT !.B = b]
    BY <1>4, <1>8
  <2>2. b \in Ballot /\ b.X \in L
    BY <1>0, <1>5, <1>6, <1>8, BallotTypes DEF Bal
  <2> HIDE DEF b
  <2> QED BY <1>5, <1>8, <2>1, <2>2, NewBallot DEF Contained, Undecided
<1>9. CASE s.phase # "Commit" /\ ~(s.phase \in {"NominatePrepare", "Prepare"} /\ x # NoList)
  BY <1>3, <1>4, <1>9
<1> QED BY <1>7, <1>8, <1>9

(* What process_timeouts hands over to the ballot protocol, if it has not panicked. *)
LEMMA TimeoutsTaken ==
  ASSUME NEW n, NEW s, NEW V, NEW L, Contained(n, s, V, L), Sound(s),
         NEW nominate, NEW ballot, nominate => s.nominate_round + 1 \in Round
  PROVE  LET s1 == IF nominate THEN NominateTimeout(n, s) ELSE s
             s2 == IF ballot THEN BallotTimeout(n, s1) ELSE s1
         IN  /\ s2 \in Slot
             /\ Running(s2) => /\ Contained(n, s2, V, L) /\ Sound(s2)
                               /\ s2.last_sent_msg = s.last_sent_msg
<1> DEFINE s1 == IF nominate THEN NominateTimeout(n, s) ELSE s
           s2 == IF ballot THEN BallotTimeout(n, s1) ELSE s1
<1>0. n \in Node /\ s \in Slot
  BY DEF Contained
<1>1. Keeps(s, s1) /\ (Running(s1) => Contained(n, s1, V, L) /\ Sound(s1))
  <2>1. CASE nominate
    BY <2>1, NominateTimeoutWithin
  <2>2. CASE ~nominate
    BY <1>0, <2>2, KeepsOrder
  <2> QED BY <2>1, <2>2
<1> HIDE DEF s1
<1>2. /\ s2 \in Slot
      /\ Running(s2) => /\ Contained(n, s2, V, L) /\ Sound(s2)
                        /\ s2.last_sent_msg = s.last_sent_msg
  <2>1. CASE ballot /\ Running(s1)
    <3>1. Contained(n, s2, V, L)
      BY <1>1, <2>1, BallotTimeoutWithin
    <3>2. Enters(s1, s2)
      BY <1>0, <1>1, <2>1, BallotTimeoutTypes
    <3> QED BY <1>1, <3>1, <3>2, SlotFields DEF Contained, Enters, Keeps
  <2>2. CASE ~(ballot /\ Running(s1))
    <3>1. s2 = s1
      BY <2>2 DEF BallotTimeout
    <3> QED BY <1>1, <3>1, SlotFields DEF Keeps
  <2> QED BY <2>1, <2>2
<1> QED BY <1>2 DEF s2, s1

(* process_timeouts. *)
LEMMA ProcessTimeoutsWithin ==
  ASSUME NEW n, NEW s, NEW V, NEW L, Contained(n, s, V, L), Sound(s),
         NEW nominate, NEW ballot, nominate => s.nominate_round + 1 \in Round,
         NEW t \in process_timeouts(n, s, nominate, ballot)
  PROVE  Delivers(n, s, t, V, L)
<1> DEFINE s1 == IF nominate THEN NominateTimeout(n, s) ELSE s
           s2 == IF ballot THEN BallotTimeout(n, s1) ELSE s1
           results == IF ballot THEN ContinueBallot(n, s2) ELSE {s2}
<1>1. /\ s2 \in Slot
      /\ Running(s2) => /\ Contained(n, s2, V, L) /\ Sound(s2)
                        /\ s2.last_sent_msg = s.last_sent_msg
  BY TimeoutsTaken
<1> HIDE DEF s2
<1>2. t \in Outcomes(s, results)
  BY DEF process_timeouts, s2
<1>3. \A r \in results :
        /\ r \in Slot
        /\ Running(r) => /\ Contained(n, r, V, L) /\ Sound(r)
                         /\ r.last_sent_msg = s.last_sent_msg
  <2>1. CASE ballot /\ Running(s2)
    <3>1. results = do_ballot_protocol(n, s2)
      BY <2>1 DEF ContinueBallot
    <3> HIDE DEF results
    <3> QED BY <1>1, <2>1, <3>1, ResultsWithin
  <2>2. CASE ~(ballot /\ Running(s2))
    <3>1. results = {s2}
      BY <2>2 DEF ContinueBallot
    <3> HIDE DEF results
    <3> QED BY <1>1, <3>1
  <2> QED BY <2>1, <2>2
<1> HIDE DEF results
<1> QED BY <1>2, <1>3, OutcomesWithin

-----------------------------------------------------------------------------
(* The values of clients *)

(* Combining values of V gives a vector of values of V. *)
LEMMA ListsClosed ==
  ASSUME NEW V, V \subseteq Value
  PROVE  Closed(V, ListsWithin(V))
<1>1. ASSUME NEW Z \in (SUBSET V) \ {{}}, combine_fn[Z] # CombineErr
      PROVE  combine_fn[Z] \in ListsWithin(V)
  <2>1. Z \in (SUBSET Value) \ {{}}
    OBVIOUS
  <2>2. combine_fn[Z] \in List /\ values_of[combine_fn[Z]] \subseteq Z
    BY <1>1, <2>1, CombineFnAssumption, CombineSelects
  <2> QED BY <2>2 DEF ListsWithin
<1> QED BY <1>1 DEF Closed, ListsWithin

(* The values that n accepts, and their vectors. *)
LEMMA AcceptableTypes ==
  ASSUME NEW n \in Node
  PROVE  /\ Acceptable(n) \subseteq Value
         /\ Acceptable(n) \subseteq Submitted
         /\ ListsWithin(Acceptable(n)) \subseteq ListsWithin(Submitted)
         /\ Closed(Acceptable(n), ListsWithin(Acceptable(n)))
<1>1. Acceptable(n) \subseteq Value /\ Acceptable(n) \subseteq Submitted
  BY ValidValueAssumption DEF Acceptable
<1>2. ListsWithin(Acceptable(n)) \subseteq ListsWithin(Submitted)
  BY <1>1 DEF ListsWithin
<1> QED BY <1>1, <1>2, ListsClosed

(* What is within some values is within more. *)
LEMMA MsgWidens ==
  ASSUME NEW m, NEW V, NEW L, NEW W, NEW K, V \subseteq W, L \subseteq K,
         MsgWithin(m, V, L)
  PROVE  MsgWithin(m, W, K)
BY DEF MsgWithin, OptIn

(* A message that n validates is within what it accepts. *)
LEMMA NewsWithin ==
  ASSUME NEW n \in Node, NEW s, NEW k, NEW m \in Msg, s.phase # "Externalize",
         IsNews(n, s, k, m), MsgWithin(m, Submitted, ListsWithin(Submitted))
  PROVE  MsgWithin(m, Acceptable(n), ListsWithin(Acceptable(n)))
<1> DEFINE L == ListsWithin(Submitted)
           K == ListsWithin(Acceptable(n))
<1>1. ValuesIn(m) \subseteq ValidValue[n]
  BY DEF IsNews
<1>2. votes_or_accepts_nominated(m) \subseteq Acceptable(n)
  BY <1>1 DEF ValuesIn, MsgWithin, Acceptable
<1>3. ASSUME NEW x \in ListsOf(m), x \in L PROVE x \in K
  <2>1. x \in List /\ values_of[x] \subseteq Submitted
    BY <1>3 DEF ListsWithin
  <2>2. x # EmptyList
    BY <2>1, ListAssumption DEF EmptyList
  <2>3. values_of[x] \subseteq ValidValue[n]
    BY <1>1, <2>2 DEF ValuesIn
  <2> QED BY <2>1, <2>3 DEF ListsWithin, Acceptable
<1> HIDE DEF L, K
<1>4. MsgWithin(m, Submitted, L)
  BY DEF L
<1>5. Preparing(m) => /\ OptIn(m.P, K) /\ OptIn(m.PP, K)
                      /\ m.CN # 0 => m.B.X \in K
  <2> SUFFICES ASSUME Preparing(m)
               PROVE  /\ OptIn(m.P, K) /\ OptIn(m.PP, K)
                      /\ m.CN # 0 => m.B.X \in K
    OBVIOUS
  <2>1. ListsOf(m) = {m.B.X, m.P.X, m.PP.X}
    BY DEF ListsOf, Preparing
  <2> QED BY <1>3, <1>4, <2>1 DEF MsgWithin, OptIn
<1>6. Committed(m) => CommittedValue(m) \in K
  <2> SUFFICES ASSUME Committed(m) PROVE CommittedValue(m) \in K
    OBVIOUS
  <2>1. CommittedValue(m) \in ListsOf(m)
    BY DEF CommittedValue, Committed, ListsOf, Preparing
  <2> QED BY <1>3, <1>4, <2>1 DEF MsgWithin
<1> QED BY <1>2, <1>5, <1>6 DEF MsgWithin, K

-----------------------------------------------------------------------------
(* The network *)

(* The slot of n, within the values that n accepts. *)
Contains(n, s) == Contained(n, s, Acceptable(n), ListsWithin(Acceptable(n)))

(* A slot that has just been made is within any values. *)
LEMMA NewSlotContains ==
  ASSUME NEW n \in Node
  PROVE  Contains(n, NewSlot(n))
<1> DEFINE V == Acceptable(n)
           L == ListsWithin(V)
           s == NewSlot(n)
<1>1. 1 \in Round
  <2>1. MaxRound \in Nat /\ 1 .. MaxRound + 1 \subseteq Round
    BY BoundsAssumption
  <2>2. 1 \in 1 .. MaxRound + 1
    BY <2>1
  <2> QED BY <2>1, <2>2
<1>2. /\ s \in Slot /\ s.phase = "NominatePrepare"
      /\ \A k \in Node : s.M[k] = NoMsg
  BY <1>1, NewSlotTypes DEF Sound
<1>3. Closed(V, L)
  BY AcceptableTypes
<1> HIDE DEF V, L
<1>4. MsgWithin(NoMsg, V, L)
  BY DEF MsgWithin, NoMsg, votes_or_accepts_nominated, Nominating, Preparing, Committed
<1>5. ValuesWithin(s, V) /\ BallotsWithin(s, L)
  BY DEF NewSlot, ValuesWithin, BallotsWithin, OptIn
<1>6. s.P = NoBallot /\ s.PP = NoBallot /\ s.H = NoBallot
  BY DEF NewSlot
<1> HIDE DEF s
<1>7. Within(n, s, V, L)
  BY <1>2, <1>4, <1>5, <1>6 DEF Within, Locked
<1>8. Contained(n, s, V, L)
  BY <1>2, <1>3, <1>7 DEF Contained
<1> QED BY <1>8 DEF Contains, V, L, s

(* A call of a method of Node leaves the slot within the values that n accepts,    *)
(* and sends only those.                                                           *)
LEMMA MethodsDeliver ==
  ASSUME VInv, NEW n \in Node,
         \/ \E values \in (SUBSET Proposable[n]) \ {{}} : ProposeValues(n, values)
         \/ \E batch \in Batches(n) : HandleMessages(n, batch)
         \/ \E nominate, ballot \in BOOLEAN : ProcessTimeouts(n, nominate, ballot)
  PROVE  \E t : /\ Becomes(n, t)
                /\ Delivers(n, slot[n], t, Acceptable(n), ListsWithin(Acceptable(n)))
<1> DEFINE s == slot[n]
           V == Acceptable(n)
           L == ListsWithin(V)
<1>0. Contained(n, s, V, L) /\ Sound(s)
  BY AcceptableTypes DEF VInv, IInv, TypeOK, SoundSlots, Contained
<1>1. ASSUME NEW values \in SUBSET Proposable[n], ProposeValues(n, values)
      PROVE  \E t : Becomes(n, t) /\ Delivers(n, s, t, V, L)
  <2>1. PICK t \in propose_values(n, s, values) : Becomes(n, t)
    BY <1>1 DEF ProposeValues
  <2>2. values \cap ValidValue[n] \subseteq V
    BY DEF Acceptable, Submitted
  <2> HIDE DEF s, V, L
  <2>3. Delivers(n, s, t, V, L)
    BY <1>0, <2>2, ProposeValuesWithin
  <2> QED BY <2>1, <2>3
<1>2. ASSUME NEW batch \in Batches(n), HandleMessages(n, batch)
      PROVE  \E t : Becomes(n, t) /\ Delivers(n, s, t, V, L)
  <2>1. \A k \in DOMAIN batch : k \in Node /\ batch[k] \in wire[k]
    BY DEF Batches, News
  <2>2. \A k \in DOMAIN batch : batch[k] \in Msg
    BY <2>1 DEF VInv, IInv, TypeOK
  <2>3. \A k \in DOMAIN batch : MsgWithin(batch[k], Submitted, ListsWithin(Submitted))
    BY <2>1 DEF VInv
  <2>4. s.phase # "Externalize" =>
          \A k \in DOMAIN batch : IsNews(n, s, k, batch[k]) => MsgWithin(batch[k], V, L)
    BY <2>2, <2>3, NewsWithin
  <2>5. PICK t \in handle_messages(n, s, batch) : Becomes(n, t)
    BY <1>2 DEF HandleMessages
  <2> HIDE DEF s, V, L
  <2>6. Delivers(n, s, t, V, L)
    BY <1>0, <2>2, <2>4, HandleMessagesWithin
  <2> QED BY <2>5, <2>6
<1>3. ASSUME NEW nominate \in BOOLEAN, NEW ballot \in BOOLEAN,
             ProcessTimeouts(n, nominate, ballot)
      PROVE  \E t : Becomes(n, t) /\ Delivers(n, s, t, V, L)
  <2>1. PICK t \in process_timeouts(n, s, nominate, ballot) : Becomes(n, t)
    BY <1>3 DEF ProcessTimeouts
  <2>2. nominate => s.nominate_round + 1 \in Round
    <3>1. nominate => s.nominate_round \in Nat /\ s.nominate_round <= MaxRound
      BY <1>0, <1>3, SlotFields DEF ProcessTimeouts, Contained
    <3>2. MaxRound \in Nat /\ 1 .. MaxRound + 1 \subseteq Round
      BY BoundsAssumption
    <3> HIDE DEF s
    <3>3. nominate => s.nominate_round + 1 \in 1 .. MaxRound + 1
      BY <3>1, <3>2
    <3> QED BY <3>2, <3>3
  <2> HIDE DEF s, V, L
  <2>3. Delivers(n, s, t, V, L)
    BY <1>0, <2>2, ProcessTimeoutsWithin
  <2> QED BY <2>1, <2>3
<1> QED BY <1>1, <1>2, <1>3

(* Such a call keeps the invariant. *)
LEMMA DeliveryKeepsInvariant ==
  ASSUME VInv, IInv', NEW n \in Node, NEW t, Becomes(n, t),
         Delivers(n, slot[n], t, Acceptable(n), ListsWithin(Acceptable(n)))
  PROVE  VInv'
<1> DEFINE V == Acceptable(n)
           L == ListsWithin(V)
           S == Submitted
           LS == ListsWithin(S)
<1>1. slot \in [Node -> Slot] /\ wire \in [Node -> SUBSET Msg]
  BY DEF VInv, IInv, TypeOK
<1>2. slot' = [slot EXCEPT ![n] = t]
  BY DEF Becomes
<1>3. ASSUME NEW k \in Node
      PROVE  Within(k, slot'[k], Acceptable(k), ListsWithin(Acceptable(k)))
  <2>1. CASE k = n
    BY <1>1, <1>2, <2>1 DEF Delivers, Contained
  <2>2. CASE k # n
    BY <1>1, <1>2, <2>2 DEF VInv
  <2> QED BY <2>1, <2>2
<1>4. ASSUME NEW k \in Node, NEW m \in wire'[k]
      PROVE  MsgWithin(m, S, LS)
  <2>1. m \in wire[k] \/ (m = t.last_sent_msg /\ t.last_sent_msg # slot[n].last_sent_msg)
    BY <1>1, <1>4 DEF Becomes
  <2>2. CASE m \in wire[k]
    BY <2>2 DEF VInv
  <2>3. CASE m = t.last_sent_msg /\ t.last_sent_msg # slot[n].last_sent_msg
    <3>1. MsgWithin(m, V, L)
      BY <2>3 DEF Delivers
    <3>2. V \subseteq S /\ L \subseteq LS
      BY AcceptableTypes
    <3> HIDE DEF V, L, S, LS
    <3> QED BY <3>1, <3>2, MsgWidens
  <2> QED BY <2>1, <2>2, <2>3
<1> QED BY <1>3, <1>4 DEF VInv

(* The invariant holds at the start. *)
LEMMA InitWithin == Init => VInv
<1> SUFFICES ASSUME Init PROVE VInv
  OBVIOUS
<1>1. IInv
  BY InitInvariant
<1>2. ASSUME NEW n \in Node
      PROVE  Within(n, slot[n], Acceptable(n), ListsWithin(Acceptable(n)))
  BY NewSlotContains DEF Init, Contains, Contained
<1>3. \A k \in Node : wire[k] = {}
  BY DEF Init
<1> QED BY <1>1, <1>2, <1>3 DEF VInv

(* Every step of the network keeps it, also a restart. *)
LEMMA NextWithin == VInv /\ [Next]_vars => VInv'
<1> SUFFICES ASSUME VInv, [Next]_vars PROVE VInv'
  OBVIOUS
<1>0. IInv'
  BY NextInvariant DEF VInv
<1>1. CASE UNCHANGED vars
  BY <1>0, <1>1 DEF VInv, vars
<1>2. ASSUME NEW n \in Node,
             \/ \E values \in (SUBSET Proposable[n]) \ {{}} : ProposeValues(n, values)
             \/ \E batch \in Batches(n) : HandleMessages(n, batch)
             \/ \E nominate, ballot \in BOOLEAN : ProcessTimeouts(n, nominate, ballot)
      PROVE  VInv'
  BY <1>0, <1>2, MethodsDeliver, DeliveryKeepsInvariant
<1>3. ASSUME NEW n \in Node, Restart(n)
      PROVE  VInv'
  <2>1. slot' = [slot EXCEPT ![n] = NewSlot(n)] /\ wire' = wire /\ slot \in [Node -> Slot]
    BY <1>3 DEF Restart, VInv, IInv, TypeOK
  <2>2. \A k \in Node : Within(k, slot'[k], Acceptable(k), ListsWithin(Acceptable(k)))
    BY <2>1, NewSlotContains DEF VInv, Contains, Contained
  <2> QED BY <1>0, <2>1, <2>2 DEF VInv
<1> QED BY <1>1, <1>2, <1>3 DEF Next

(* In every state of the network, all that can bear on a node's decision is made   *)
(* of values that clients submitted and the node's validity_fn accepts.            *)
LEMMA SpecWithin == Spec => []VInv
<1>1. Init => VInv
  BY InitWithin
<1>2. VInv /\ [Next]_vars => VInv'
  BY NextWithin
<1> QED BY <1>1, <1>2, PTL DEF Spec

(* A node externalizes only values that clients have submitted to some node and    *)
(* that its own validity_fn accepts, whatever vectors its peers' messages bear and *)
(* combine_fn makes of them; in particular, never the empty vector.                *)
THEOREM ValidityHolds == Spec => []Validity
<1>1. VInv => Validity
  <2> SUFFICES ASSUME VInv, NEW n \in Node, HasExternalized(n)
               PROVE  slot[n].C.X \in List /\ values_of[slot[n].C.X] \subseteq Acceptable(n)
    BY DEF Validity, Acceptable, Submitted
  <2>1. slot[n].C \in Ballot
    BY DEF VInv, IInv, SoundSlots, Sound, HasExternalized
  <2>2. slot[n].C # NoBallot
    <3>1. slot[n].C.N \in Nat
      BY <2>1, BallotTypes
    <3> QED BY <3>1 DEF NoBallot
  <2>3. slot[n].C.X \in ListsWithin(Acceptable(n))
    BY <2>2 DEF VInv, Within, BallotsWithin, OptIn
  <2> QED BY <2>3 DEF ListsWithin
<1> QED BY <1>1, SpecWithin, PTL

-----------------------------------------------------------------------------
(* The network refines Consensus *)

(* Nodes only ever stop being steady, and no step disturbs what one that stays     *)
(* steady has accepted to commit.                                                  *)
LEMMA SteadyKeeps ==
  ASSUME IInv, [Next]_vars
  PROVE  /\ Steady' \subseteq Steady
         /\ \A k \in Steady' : slot[k].phase \in Locked =>
              slot'[k].phase \in Locked /\ slot'[k].B.X = slot[k].B.X
<1>1. CASE UNCHANGED vars
  BY <1>1 DEF vars, Steady
<1>2. ASSUME NEW n \in Node, NEW t, Advance(n, t)
      PROVE  /\ Steady' \subseteq Steady
             /\ \A k \in Steady' : slot[k].phase \in Locked =>
                  slot'[k].phase \in Locked /\ slot'[k].B.X = slot[k].B.X
  <2>1. Steady' = Steady
    BY <1>2 DEF Advance, Steady
  <2>2. ASSUME NEW k \in Node, slot[k].phase \in Locked
        PROVE  slot'[k].phase \in Locked /\ slot'[k].B.X = slot[k].B.X
    BY <1>2, <2>2, AdvanceEffect DEF Advance, Advances
  <2> QED BY <2>1, <2>2 DEF Steady
<1>3. ASSUME NEW n \in Node, Restart(n)
      PROVE  /\ Steady' \subseteq Steady
             /\ \A k \in Steady' : slot[k].phase \in Locked =>
                  slot'[k].phase \in Locked /\ slot'[k].B.X = slot[k].B.X
  <2>1. /\ restarts' = [restarts EXCEPT ![n] = @ + 1] /\ restarts \in [Node -> Nat]
        /\ slot' = [slot EXCEPT ![n] = NewSlot(n)] /\ slot \in [Node -> Slot]
    BY <1>3 DEF Restart, IInv, TypeOK
  <2>2. Steady' \subseteq Steady \ {n}
    BY <2>1 DEF Steady
  <2>3. \A k \in Node \ {n} : slot'[k] = slot[k]
    BY <2>1
  <2> QED BY <2>2, <2>3 DEF Steady
<1>4. ASSUME NEW n \in Node,
             \/ \E values \in (SUBSET Proposable[n]) \ {{}} : ProposeValues(n, values)
             \/ \E batch \in Batches(n) : HandleMessages(n, batch)
             \/ \E nominate, ballot \in BOOLEAN : ProcessTimeouts(n, nominate, ballot)
      PROVE  \E t : Advance(n, t)
  BY <1>4, MethodsAdvance
<1> QED BY <1>1, <1>2, <1>3, <1>4 DEF Next

(* Quorums that no longer share a node with its slot never do again. *)
LEMMA IntactEnds ==
  ASSUME IInv, [Next]_vars, IntactIntersection'
  PROVE  IntactIntersection
BY SteadyKeeps DEF IntactIntersection, Quorums

(* What is chosen stays chosen, also when a member of the quorum restarts: the     *)
(* others are still committed to it.                                               *)
LEMMA ChosenStays ==
  ASSUME IInv, [Next]_vars
  PROVE  Chosen \subseteq Chosen'
<1> SUFFICES ASSUME NEW v \in List, NEW n \in Node, NEW Q \in Quorums[n], CommittedTo(Q, v)
             PROVE  CommittedTo(Q, v)'
  BY DEF Chosen, Quorums
<1>1. ASSUME NEW k \in Q \cap Steady'
      PROVE  slot'[k].phase \in Locked /\ slot'[k].B.X = v
  BY SteadyKeeps DEF CommittedTo, Locked
<1> QED BY <1>1 DEF CommittedTo, Locked

(* No two quorums are committed to different values: a node of both has kept its   *)
(* slot.  The value comes from the clients, as every value such a node is on does. *)
LEMMA ChosenOnce ==
  ASSUME VInv, IntactIntersection
  PROVE  /\ \A v, w \in Chosen : v = w
         /\ Chosen \subseteq ListsWithin(Submitted)
<1>1. ASSUME NEW v \in Chosen, NEW w \in Chosen
      PROVE  v = w /\ v \in ListsWithin(Submitted)
  <2>1. PICK n \in Node : \E Q \in Quorums[n] : CommittedTo(Q, v)
    BY DEF Chosen
  <2>2. PICK k \in Node : \E R \in Quorums[k] : CommittedTo(R, w)
    BY DEF Chosen
  <2>3. PICK Q \in Quorums[n], R \in Quorums[k] : CommittedTo(Q, v) /\ CommittedTo(R, w)
    BY <2>1, <2>2
  <2>4. PICK j \in Q \cap R \cap Steady : TRUE
    BY DEF IntactIntersection
  <2>5. slot[j].phase \in Locked /\ slot[j].B.X = v /\ slot[j].B.X = w
    BY <2>3, <2>4 DEF CommittedTo, Locked
  <2>6. slot[j].B.X \in ListsWithin(Acceptable(j))
    BY <2>4, <2>5 DEF VInv, Within, Steady
  <2> QED BY <2>5, <2>6 DEF ListsWithin, Acceptable
<1> QED BY <1>1

(* Whatever a node has externalized is chosen. *)
LEMMA LearnedChosen ==
  ASSUME VInv, NEW n \in Node, HasExternalized(n)
  PROVE  slot[n].C.X \in Chosen
<1>1. PICK sat \in SatFn :
        /\ FindQuorum(n, sat) # {}
        /\ \A k \in FindQuorum(n, sat) \cap Steady : LockedWith(k, n)
  BY DEF VInv, IInv, Backed
<1>2. slot[n].C.X = slot[n].B.X
  BY DEF VInv, IInv, SoundSlots, Sound, HasExternalized
<1>3. slot[n].B.X \in List
  BY DEF VInv, Within, HasExternalized, Locked, ListsWithin
<1>4. FindQuorum(n, sat) \in Quorums[n]
  BY <1>1 DEF Quorums
<1>5. CommittedTo(FindQuorum(n, sat), slot[n].B.X)
  BY <1>1 DEF CommittedTo, LockedWith, Locked
<1> QED BY <1>2, <1>3, <1>4, <1>5 DEF Chosen

(* A step changes the slot of one node at most. *)
LEMMA OneMoves ==
  ASSUME IInv, [Next]_vars
  PROVE  slot' = slot \/ \E n \in Node : \A k \in Node \ {n} : slot'[k] = slot[k]
<1>1. CASE UNCHANGED vars
  BY <1>1 DEF vars
<1>2. ASSUME NEW n \in Node,
             \/ \E values \in (SUBSET Proposable[n]) \ {{}} : ProposeValues(n, values)
             \/ \E batch \in Batches(n) : HandleMessages(n, batch)
             \/ \E nominate, ballot \in BOOLEAN : ProcessTimeouts(n, nominate, ballot)
      PROVE  \A k \in Node \ {n} : slot'[k] = slot[k]
  BY <1>2, MethodsAdvance, AdvanceEffect
<1>3. ASSUME NEW n \in Node, Restart(n)
      PROVE  \A k \in Node \ {n} : slot'[k] = slot[k]
  BY <1>3 DEF Restart, IInv, TypeOK
<1> QED BY <1>1, <1>2, <1>3 DEF Next

(* The slot is decided once, for all time, by any network: what a quorum accepted  *)
(* to commit is what clients proposed, no second value is ever chosen, and no node *)
(* externalizes another, before or after a restart, as long as any two quorums     *)
(* share a node that has kept its slot.                                            *)
THEOREM SlotDecidedOnce == Spec => DecidesOnce
<1>1. Init => Decision!Init
  <2> SUFFICES ASSUME Init, IntactIntersection
               PROVE  Chosen = {} /\ Learned = [n \in Node |-> {}]
    BY DEF Decision!Init
  <2>1. \A n \in Node : slot[n].phase = "NominatePrepare"
    BY DEF Init, NewSlot
  <2>2. ASSUME NEW n \in Node, NEW Q \in Quorums[n], NEW v \in List
        PROVE  ~CommittedTo(Q, v)
    <3>1. PICK k \in Q \cap Q \cap Steady : TRUE
      BY DEF IntactIntersection
    <3> QED BY <2>1, <3>1 DEF CommittedTo, Steady
  <2>3. Chosen = {}
    BY <2>2 DEF Chosen
  <2>4. Learned = [n \in Node |-> {}]
    BY <2>1 DEF Learned, HasExternalized
  <2> QED BY <2>3, <2>4
<1>2. VInv /\ VInv' /\ [Next]_vars =>
        [Decision!Next]_<<IntactIntersection, Chosen, Learned>>
  <2> SUFFICES ASSUME VInv, VInv', [Next]_vars, IntactIntersection'
               PROVE  IntactIntersection /\ Decision!Step
    BY DEF Decision!Next
  <2>0. IInv
    BY DEF VInv
  <2>1. IntactIntersection
    BY <2>0, IntactEnds
  <2>2. /\ \A v, w \in Chosen : v = w
        /\ \A v, w \in Chosen' : v = w
        /\ Chosen' \subseteq ListsWithin(Submitted)
    <3>1. (VInv /\ IntactIntersection =>
             (\A v, w \in Chosen : v = w) /\ Chosen \subseteq ListsWithin(Submitted))'
      BY ChosenOnce, PTL
    <3> QED BY <2>1, <3>1, ChosenOnce DEF ListsWithin, Submitted
  <2>3. (\E v \in ListsWithin(Submitted) : Decision!Choose(v)) \/ UNCHANGED Chosen
    <3>1. Chosen \subseteq Chosen'
      BY <2>0, ChosenStays
    <3>2. CASE Chosen = {} /\ Chosen' # {}
      <4>1. PICK v : v \in Chosen'
        BY <3>2
      <4>2. Chosen' = {v} /\ v \in ListsWithin(Submitted)
        BY <2>2, <4>1
      <4> QED BY <3>2, <4>2 DEF Decision!Choose
    <3> QED BY <2>2, <3>1, <3>2
  <2>4. (\E n \in Node : Decision!Learn(n) \/ Decision!Forget(n)) \/ UNCHANGED Learned
    <3>1. CASE slot' = slot
      BY <3>1 DEF Learned, HasExternalized
    <3>2. ASSUME NEW n \in Node, \A k \in Node \ {n} : slot'[k] = slot[k]
          PROVE  Decision!Learn(n) \/ Decision!Forget(n)
      <4>1. ASSUME NEW x, Learned'[n] = x
            PROVE  Learned' = [Learned EXCEPT ![n] = x]
        BY <3>2, <4>1 DEF Learned, HasExternalized
      <4>2. Learned'[n] = {} \/ Learned'[n] = Chosen'
        <5>1. CASE ~HasExternalized(n)'
          BY <5>1 DEF Learned
        <5>2. CASE HasExternalized(n)'
          <6>1. (VInv /\ HasExternalized(n) => slot[n].C.X \in Chosen)'
            BY LearnedChosen, PTL
          <6>2. Chosen' = {slot'[n].C.X}
            BY <2>2, <5>2, <6>1
          <6> QED BY <5>2, <6>2 DEF Learned
        <5> QED BY <5>1, <5>2
      <4> QED BY <4>1, <4>2 DEF Decision!Learn, Decision!Forget
    <3> QED BY <2>0, <3>1, <3>2, OneMoves
  <2>5. ListsWithin(Submitted) =
          {x \in List : values_of[x] \subseteq UNION {Proposable[k] : k \in Node}}
    BY DEF ListsWithin, Submitted
  <2> QED BY <2>1, <2>3, <2>4, <2>5 DEF Decision!Step
<1> QED BY <1>1, <1>2, SpecWithin, PTL DEF Spec, DecidesOnce, Decision!Spec

=============================================================================
