-------------------------- MODULE ScpBallotProofs ---------------------------
(***************************************************************************)
(* What a slot never takes back, for any number of nodes, any quorum sets, *)
(* values and bounds: within a phase the highest ballot accepted prepared  *)
(* does not go down, nor does the highest confirmed prepared in Prepare;   *)
(* and as long as no counter is counted past u32::MAX, the ballot does not *)
(* go down and takes another value only with a higher counter.             *)
(*                                                                         *)
(* Every method of a slot is a chain of steps that each rise, in this      *)
(* sense, from the slot before: Rises is reflexive and transitive.         *)
(*                                                                         *)
(* The second half is about the assertions of slot.rs and the messages a   *)
(* slot sends.  They follow from an order among the slot's fields, which   *)
(* every method keeps: Ordered and, where counters do not wrap, Leads.     *)
(* Ordered says of a slot in Commit or Externalize that its vector is not  *)
(* the empty one, which is what the validity proofs establish: hence the   *)
(* module extends theirs.                                                  *)
(***************************************************************************)
EXTENDS ScpValidityProofs

(* The phases, in order. *)
PhaseLE(p, q) ==
  \/ p = q \/ p = "NominatePrepare"
  \/ p = "Prepare" /\ q \in Locked
  \/ p = "Commit" /\ q = "Externalize"

(* b is a or has a higher counter, with the value of a or another. *)
Climbs(a, b) == a.N < b.N \/ (a.N <= b.N /\ a.X = b.X)

(* No counter of the slot has been counted past u32::MAX. *)
InRange(s) == "above" \notin s.overflow

(* What the slot has settled does not go back from s to t; the ballot does only *)
(* by a counter that wraps.                                                     *)
Rises(s, t) ==
  /\ s \in Slot /\ t \in Slot
  /\ PhaseLE(s.phase, t.phase)
  /\ t.phase = s.phase => /\ BallotLE(s.P, t.P)
                          /\ s.phase = "Prepare" => BallotLE(s.H, t.H)
  /\ InRange(t) => InRange(s) /\ Climbs(s.B, t.B)

(* From s to t nothing changes that Rises is about, but that t may have panicked *)
(* or gone out of range.                                                         *)
Stays(s, t) ==
  /\ s \in Slot /\ t \in Slot
  /\ t.phase = s.phase /\ t.B = s.B /\ t.P = s.P /\ t.H = s.H
  /\ InRange(t) => InRange(s)

(* Optional ballots are totally ordered. *)
LEMMA BallotOrder ==
  /\ \A a \in OptBallot : BallotLE(a, a)
  /\ \A a, b, c \in OptBallot : BallotLE(a, b) /\ BallotLE(b, c) => BallotLE(a, c)
  /\ \A a, b \in OptBallot : ~BallotLT(b, a) => BallotLE(a, b)
  /\ \A b \in OptBallot : BallotLE(NoBallot, b)
<1>1. \A b \in OptBallot : b.N \in Int /\ b.N >= -1 /\ b.X \in Nat /\ b = Bal(b.N, b.X)
  <2>1. \A b \in OptBallot : b = Bal(b.N, b.X)
    BY DEF OptBallot, Ballot, NoBallot, Bal
  <2>2. \A c \in Counter \cup {-1} : c \in Int /\ c >= -1
    BY CounterTypes
  <2>3. \A x \in List \cup {EmptyList} : x \in Nat
    BY ListAssumption DEF EmptyList
  <2> QED BY <2>1, <2>2, <2>3, BallotTypes
<1>2. \A a, b \in OptBallot : ~BallotLT(b, a) => BallotLE(a, b)
  BY <1>1 DEF BallotLE, BallotLT
<1>3. \A b \in OptBallot : BallotLE(NoBallot, b)
  <2>1. \A b \in OptBallot : ~BallotLT(b, NoBallot)
    BY <1>1 DEF BallotLT, NoBallot, EmptyList
  <2> QED BY <1>2, <2>1, BallotTypes
<1> QED BY <1>1, <1>2, <1>3 DEF BallotLE, BallotLT

(* Rises is reflexive and transitive, and what stays rises. *)
LEMMA RisesOrder ==
  /\ \A s \in Slot : Rises(s, s)
  /\ \A s, t, u : Rises(s, t) /\ Rises(t, u) => Rises(s, u)
  /\ \A s, t : Stays(s, t) => Rises(s, t)
<1>0. \A s \in Slot : /\ s.B.N \in Nat /\ s.P \in OptBallot /\ s.H \in OptBallot
                      /\ s.phase \in Phase
  BY SlotFields, CounterTypes
<1>1. \A s, t : Stays(s, t) => Rises(s, t)
  BY <1>0, BallotOrder DEF Stays, Rises, PhaseLE, Climbs
<1>2. \A s \in Slot : Rises(s, s)
  BY <1>1 DEF Stays
<1>3. ASSUME NEW s, NEW t, NEW u, Rises(s, t), Rises(t, u)
      PROVE  Rises(s, u)
  <2>0. s \in Slot /\ t \in Slot /\ u \in Slot
    BY <1>3 DEF Rises
  <2>1. PhaseLE(s.phase, u.phase) /\ (u.phase = s.phase => t.phase = s.phase)
    BY <1>0, <1>3, <2>0 DEF Rises, PhaseLE, Phase, Locked
  <2>2. u.phase = s.phase => /\ BallotLE(s.P, u.P)
                             /\ s.phase = "Prepare" => BallotLE(s.H, u.H)
    BY <1>0, <1>3, <2>0, <2>1, BallotOrder DEF Rises
  <2>3. InRange(u) => InRange(s) /\ Climbs(s.B, u.B)
    BY <1>0, <1>3, <2>0 DEF Rises, Climbs
  <2> QED BY <2>0, <2>1, <2>2, <2>3 DEF Rises
<1> QED BY <1>1, <1>2, <1>3

(* A failed assertion takes nothing back. *)
LEMMA RequireStays ==
  ASSUME NEW s \in Slot, NEW cond, NEW tag \in Fault
  PROVE  Stays(s, Require(s, cond, tag))
BY DEF Stays, Require, Slot, InRange

(* Nor does arithmetic by itself; in range it was in range. *)
LEMMA CheckedStays ==
  ASSUME NEW s \in Slot, NEW cond, NEW side \in Side
  PROVE  /\ Stays(s, Checked(s, cond, side))
         /\ side = "above" /\ InRange(Checked(s, cond, side)) => cond
<1> DEFINE u == IF cond THEN s ELSE [s EXCEPT !.overflow = @ \cup {side}]
           t == Checked(s, cond, side)
<1>1. Stays(s, u) /\ (side = "above" /\ InRange(u) => cond)
  BY DEF Stays, Slot, InRange
<1>2. t = Require(u, cond \/ ~overflow_checks, "overflow")
  BY DEF Checked
<1> HIDE DEF u, t
<1>3. Stays(u, t)
  BY <1>1, <1>2, RequireStays DEF Stays, Fault
<1>4. Stays(s, t) /\ (side = "above" /\ InRange(t) => cond)
  BY <1>1, <1>3 DEF Stays
<1> QED BY <1>4 DEF t

(* Staying is transitive. *)
LEMMA StaysOrder ==
  ASSUME NEW s, NEW t, NEW u, Stays(s, t), Stays(t, u)
  PROVE  Stays(s, u)
BY DEF Stays

(* The checks of the phases' invariants take nothing back. *)
LEMMA ChecksStay ==
  ASSUME NEW s \in Slot
  PROVE  /\ Stays(s, check_prepare_phase_invariants(s)) /\ Stays(s, CheckCH(s))
         /\ Stays(s, check_commit_phase_invariants(s))
         /\ Stays(s, check_externalize_phase_invariants(s))
<1> "assert" \in Fault /\ "phase" \in Fault /\ "search" \in Fault
  BY DEF Fault
<1>1. \A c, d : /\ Stays(s, Require(s, c, "assert"))
               /\ Stays(s, Require(Require(s, c, "phase"), d, "assert"))
  <2> SUFFICES ASSUME NEW c, NEW d
               PROVE  /\ Stays(s, Require(s, c, "assert"))
                      /\ Stays(s, Require(Require(s, c, "phase"), d, "assert"))
    OBVIOUS
  <2> DEFINE t == Require(s, c, "phase")
  <2>1. Stays(s, t) /\ Stays(s, Require(s, c, "assert"))
    BY RequireStays
  <2> HIDE DEF t
  <2>2. Stays(t, Require(t, d, "assert"))
    BY <2>1, RequireStays DEF Stays
  <2>3. Stays(s, Require(t, d, "assert"))
    BY <2>1, <2>2, StaysOrder
  <2> QED BY <2>1, <2>3 DEF t
<1>2. Stays(s, check_prepare_phase_invariants(s))
  <2> DEFINE order == /\ (s.P # NoBallot /\ s.PP # NoBallot) => Aborts(s.P, s.PP)
                      /\ OrderedCH(s)
             t == Require(Require(s, s.phase \in {"NominatePrepare", "Prepare"}, "phase"),
                         order, "assert")
             u == Require(t, s.C # NoBallot => s.C.X = s.H.X, "search")
  <2>1. Stays(s, t)
    BY <1>1
  <2>2. check_prepare_phase_invariants(s) = u
    BY DEF check_prepare_phase_invariants
  <2> HIDE DEF t
  <2>3. Stays(t, u)
    BY <2>1, RequireStays DEF Stays
  <2> QED BY <2>1, <2>2, <2>3, StaysOrder
<1> QED BY <1>1, <1>2 DEF CheckCH, check_commit_phase_invariants,
          check_externalize_phase_invariants

(* Nor do the timers. *)
LEMMA TimerStays ==
  ASSUME NEW n \in Node, NEW s \in Slot
  PROVE  Stays(s, maybe_set_ballot_timer(n, s))
<1>1. maybe_set_ballot_timer(n, s) \in {s, [s EXCEPT !.ballot_timer = TRUE]}
  BY DEF maybe_set_ballot_timer
<1> QED BY <1>1 DEF Stays, Slot, InRange

-----------------------------------------------------------------------------
(* Nomination and the Prepare phase *)

(* do_nominate_phase gives the slot its first ballot, if it does anything to it. *)
LEMMA NominateRises ==
  ASSUME NEW n \in Node, NEW s \in Slot
  PROVE  Rises(s, do_nominate_phase(n, s))
<1> DEFINE s0 == Require(s, s.phase = "NominatePrepare", "assert")
           s1 == [s0 EXCEPT !.nominate_timer = TRUE,
                            !.X = IF s.Z = {} THEN VotedNominated(n, s) ELSE @]
           s2 == Require(s1, s1.Z = {} => s1.X \cap s1.Y = {}, "assert")
           accepted == additional_values_accepted_nominated(n, s2)
           t1 == [s2 EXCEPT !.X = @ \ accepted, !.Y = @ \cup accepted]
           t2 == Require(t1, t1.X \cap t1.Y = {}, "assert")
           confirmed == additional_values_confirmed_nominated(n, t2)
           s3 == [t2 EXCEPT !.Z = @ \cup confirmed]
           first == IF s3.Z # {} /\ s3.B = ZeroBallot THEN combine_fn[s3.Z] ELSE CombineErr
<1> "assert" \in Fault
  BY DEF Fault
<1>1. VotedNominated(n, s) \subseteq Value
  <2>1. \A k \in s.max_priority_peers : votes_or_accepts_nominated(s.M[k]) \subseteq Value
    BY SlotFields, StatementTypes
  <2> QED BY <2>1, SlotFields DEF VotedNominated
<1>2. Stays(s, s0)
  BY SMTT(30), RequireStays
<1> HIDE DEF s0
<1>3. Stays(s, s1) /\ s1 \in Slot
  BY <1>1, <1>2 DEF Stays, Slot, InRange
<1> HIDE DEF s1
<1>4. Stays(s, s2) /\ s2 \in Slot
  BY <1>3, RequireStays, StaysOrder DEF Stays
<1> HIDE DEF s2
<1>5. accepted \subseteq Value
  BY <1>4, NominatedTypes
<1> HIDE DEF accepted
<1>6. Stays(s, t1) /\ t1 \in Slot
  BY <1>4, <1>5 DEF Stays, Slot, InRange
<1> HIDE DEF t1
<1>7. Stays(s, t2) /\ t2 \in Slot
  BY <1>6, RequireStays, StaysOrder DEF Stays
<1> HIDE DEF t2
<1>8. confirmed \subseteq Value
  BY <1>7, NominatedTypes
<1> HIDE DEF confirmed
<1>9. Stays(s, s3) /\ s3 \in Slot
  BY <1>7, <1>8 DEF Stays, Slot, InRange
<1> HIDE DEF s3
<1>10. do_nominate_phase(n, s) =
         IF first = CombineErr THEN s3 ELSE [s3 EXCEPT !.B = Bal(1, first)]
  <2>1. update_YZ(n, s2) = s3
    BY DEF update_YZ, s3, t2, t1, accepted, confirmed
  <2>2. do_nominate_phase(n, s) =
          LET f(t) == IF t.Z # {} /\ t.B = ZeroBallot THEN combine_fn[t.Z] ELSE CombineErr
              ballot(t) == IF f(t) = CombineErr THEN t ELSE [t EXCEPT !.B = Bal(1, f(t))]
          IN  ballot(update_YZ(n, s2))
    BY ZenonT(40) DEF do_nominate_phase, s2, s1, s0
  <2> QED BY <2>1, <2>2
<1>11. first # CombineErr => Bal(1, first) \in Ballot /\ s3.B = ZeroBallot
  <2>1. s3.Z # {} => s3.Z \in (SUBSET Value) \ {{}}
    BY <1>9, SlotFields
  <2>2. first \in List \cup {CombineErr}
    BY <2>1, CombineFnAssumption
  <2>3. first # CombineErr => s3.B = ZeroBallot
    OBVIOUS
  <2> HIDE DEF first
  <2> QED BY <2>2, <2>3, BallotTypes, InfinityAssumption DEF Counter
<1> HIDE DEF first
<1>12. CASE first = CombineErr
  BY <1>9, <1>10, <1>12, RisesOrder
<1>13. CASE first # CombineErr
  <2> DEFINE b == Bal(1, first)
             t == [s3 EXCEPT !.B = b]
  <2>1. b \in Ballot /\ b.N = 1
    BY <1>11, <1>13 DEF Bal
  <2>2. Climbs(s3.B, b)
    BY <1>11, <1>13, <2>1 DEF Climbs, ZeroBallot
  <2>3. do_nominate_phase(n, s) = t
    BY <1>10, <1>13
  <2> HIDE DEF b
  <2>4. t \in Slot /\ t.phase = s3.phase /\ t.P = s3.P /\ t.H = s3.H /\ t.B = b
        /\ (InRange(t) => InRange(s3))
    BY <1>9, <2>1 DEF Slot, InRange
  <2> HIDE DEF t
  <2> QED BY <1>9, <2>2, <2>3, <2>4, BallotOrder, SlotFields DEF Stays, Rises, PhaseLE
<1> QED BY <1>12, <1>13

(* (1) goes on only when the messages show P accepted prepared, or a higher ballot. *)
LEMMA UpdatePRises ==
  ASSUME NEW accepted, accepted \subseteq Ballot, NEW s \in Slot,
         ~(accepted # {} /\ BallotLT(MaxBallot(accepted), s.P))
  PROVE  Rises(s, UpdateP(accepted, s))
<1> DEFINE p == MaxBallot(accepted)
           pp == MaxBallot({b \in accepted : Aborts(p, b)})
           s1 == IF accepted = {} THEN s ELSE [s EXCEPT !.P = p, !.PP = pp]
           s2 == Require(s1, (s1.P # NoBallot /\ s1.PP # NoBallot) => Aborts(s1.P, s1.PP),
                        "assert")
<1> "assert" \in Fault
  BY DEF Fault
<1>0. s.P \in OptBallot /\ s.H \in OptBallot /\ s.B.N \in Nat
  BY SlotFields, CounterTypes
<1>1. p \in OptBallot /\ (accepted # {} => BallotLE(s.P, p))
  BY <1>0, MaxMinTypes, BallotOrder
<1> HIDE DEF p
<1>2. pp \in OptBallot
  BY MaxMinTypes
<1> HIDE DEF pp
<1>3. /\ s1 \in Slot /\ s1.phase = s.phase /\ s1.B = s.B /\ s1.H = s.H
      /\ (InRange(s1) => InRange(s)) /\ BallotLE(s.P, s1.P)
  BY <1>0, <1>1, <1>2, BallotOrder DEF Slot, InRange
<1> HIDE DEF s1
<1>4. Rises(s, s1)
  BY <1>0, <1>3, BallotOrder DEF Rises, PhaseLE, Climbs
<1>5. Stays(s1, s2)
  BY <1>3, RequireStays
<1> HIDE DEF s2
<1>6. UpdateP(accepted, s) \in {s2, [s2 EXCEPT !.C = NoBallot]}
  BY DEF UpdateP, s2, s1, p, pp
<1>7. Stays(s1, UpdateP(accepted, s))
  BY ZenonT(40), <1>5, <1>6, BallotTypes DEF Stays, Slot, InRange
<1> QED BY <1>4, <1>7, RisesOrder

(* (2) *)
LEMMA UpdateHRises ==
  ASSUME NEW n \in Node, NEW s \in Slot, s.phase \in Open
  PROVE  Rises(s, UpdateH(n, s))
<1> DEFINE h == MaxBallot(ballots_confirmed_prepared(n, s))
           higher == IF BallotLT(h, s.H) THEN s.H ELSE h
           timer == IF s.phase = "NominatePrepare" THEN FALSE ELSE s.nominate_timer
           t == [s EXCEPT !.phase = "Prepare", !.nominate_timer = timer, !.H = higher]
<1>0. /\ s.P \in OptBallot /\ s.H \in OptBallot /\ s.B.N \in Nat
      /\ s.nominate_timer \in BOOLEAN
  BY SlotFields, CounterTypes
<1>1. h \in OptBallot
  BY PreparedTypes, MaxMinTypes
<1>2. UpdateH(n, s) \in {s, t}
  BY DEF UpdateH
<1> HIDE DEF h
<1>3. higher \in OptBallot /\ BallotLE(s.H, higher) /\ timer \in BOOLEAN
  BY <1>0, <1>1, BallotOrder
<1> HIDE DEF higher, timer
<1>4. /\ t \in Slot /\ t.phase = "Prepare" /\ t.B = s.B /\ t.P = s.P /\ t.H = higher
      /\ (InRange(t) => InRange(s))
  BY <1>3 DEF Slot, Phase, InRange
<1> HIDE DEF t
<1>5. Rises(s, t)
  BY <1>0, <1>3, <1>4, BallotOrder DEF Rises, PhaseLE, Climbs, Open
<1> QED BY <1>2, <1>5, RisesOrder

(* (3) sets nothing but C. *)
LEMMA UpdateCStays ==
  ASSUME NEW s \in Slot
  PROVE  Stays(s, UpdateC(s))
<1> DEFINE c0 == Bal(IF s.H.X >= s.B.X THEN s.B.N ELSE Inc(s.B.N), s.H.X)
           c == RaiseAbove(RaiseAbove(c0, s.P), s.PP)
           s1 == Require(s, BallotLE(s.B, c) /\ c.N <= s.H.N, "assert")
<1>1. c0 \in Ballot
  BY SlotFields, BallotTypes, CounterTypes
<1> HIDE DEF c0
<1>2. c \in Ballot /\ c \in OptBallot
  BY <1>1, RaiseTypes, SlotFields, BallotTypes
<1> HIDE DEF c
<1>3. Stays(s, s1)
  BY RequireStays DEF Fault
<1> HIDE DEF s1
<1>4. UpdateC(s) \in {s, [s1 EXCEPT !.C = c]}
  BY DEF UpdateC, s1, c, c0
<1> QED BY <1>2, <1>3, <1>4 DEF Stays, Slot, InRange

(* A counter below the highest does not wrap. *)
LEMMA IncRises ==
  ASSUME NEW c \in Counter, c # INFINITY
  PROVE  Inc(c) = c + 1
<1>1. \A a, b \in Nat : a < b => a % b = a
  OBVIOUS
<1>2. c + 1 \in Nat /\ INFINITY + 1 \in Nat /\ c + 1 < INFINITY + 1
  BY InfinityAssumption DEF Counter
<1> QED BY <1>1, <1>2 DEF Inc

(* The ballot moves up to H, unless its counter wraps. *)
LEMMA MoveBRises ==
  ASSUME NEW s \in Slot, s.H \in Ballot
  PROVE  /\ Rises(s, MoveB(s))
         /\ MoveB(s).phase = s.phase /\ MoveB(s).P = s.P /\ MoveB(s).H = s.H
<1> DEFINE moves == s.B.X # s.H.X
           t == IF moves THEN CheckedInc(s, s.B.N) ELSE s
           b == IF moves THEN Bal(MaxOf(Inc(s.B.N), s.H.N), s.H.X)
                ELSE Bal(MaxOf(s.B.N, s.H.N), s.H.X)
           u == [t EXCEPT !.B = b]
<1>0. /\ s.B.N \in Counter /\ s.H.N \in Counter /\ s.B.N \in Nat /\ s.H.N \in Nat
      /\ s.P \in OptBallot /\ s.H \in OptBallot /\ Inc(s.B.N) \in Nat
  BY SlotFields, BallotTypes, CounterTypes
<1>1. Stays(s, t) /\ (InRange(t) /\ moves => s.B.N # INFINITY)
  BY CheckedStays DEF CheckedInc, Side, Stays
<1>2. b \in Ballot
  BY SlotFields, BallotTypes, CounterTypes
<1>3. s.B.N # INFINITY => Inc(s.B.N) = s.B.N + 1
  BY <1>0, IncRises
<1>4. s.B.N # INFINITY \/ ~moves => Climbs(s.B, b)
  BY <1>0, <1>3 DEF Climbs, MaxOf, Bal
<1>5. MoveB(s) = u
  BY DEF MoveB
<1> HIDE DEF t, b, moves
<1>6. /\ u \in Slot /\ u.B = b /\ u.phase = s.phase /\ u.P = s.P /\ u.H = s.H
      /\ (InRange(u) => InRange(t))
  BY <1>1, <1>2 DEF Stays, Slot, InRange
<1> HIDE DEF u
<1>7. Rises(s, u)
  BY <1>0, <1>1, <1>4, <1>6, BallotOrder DEF Rises, Stays, PhaseLE
<1> QED BY <1>5, <1>6, <1>7

(* (4) *)
LEMMA EnterCommitRises ==
  ASSUME NEW n \in Node, NEW s \in Slot, s.phase \in Open,
         NEW committed \in ballots_accepted_committed(n, s)
  PROVE  Rises(s, EnterCommit(n, s, committed))
<1> DEFINE S == {Bal(Lowest(committed[x]), x) : x \in DOMAIN committed}
           c == MinBallot(S)
           h == Bal(Highest(RangeOf(committed, c.X)), c.X)
           s0 == [s EXCEPT !.C = c, !.H = h]
           s1 == [MoveB(s0) EXCEPT !.phase = "Commit", !.nominate_timer = FALSE]
           p == MaxBallot({b \in ballots_accepted_prepared(n, s1) : b.X = s1.B.X})
           r == Require(s1, c.N <= h.N, "assert")
           s2 == Require(r, p # NoBallot, "search")
           t == EnterCommit(n, s, committed)
<1>0. /\ DOMAIN committed \subseteq List \cup {EmptyList}
      /\ \A x : RangeOf(committed, x) \subseteq Counter
      /\ \A x \in DOMAIN committed : committed[x] \subseteq Counter
  BY AcceptedCommittedTypes
<1>1. t \in Slot /\ t.phase = "Commit"
  BY <1>0, EnterCommitTypes DEF Keeps
<1>2. S \subseteq Ballot
  BY <1>0, RangeTypes, BallotTypes
<1> HIDE DEF S
<1>3. c \in OptBallot
  BY <1>2, MaxMinTypes
<1> HIDE DEF c
<1>4. h \in Ballot /\ h \in OptBallot
  <2>1. Highest(RangeOf(committed, c.X)) \in Counter
    BY <1>0, RangeTypes
  <2> QED BY <1>3, <2>1, BallotTypes
<1> HIDE DEF h
<1>5. s0 \in Slot /\ s0.H = h /\ s0.B = s.B /\ (InRange(s0) => InRange(s))
  BY <1>3, <1>4 DEF Slot, InRange
<1> HIDE DEF s0
<1>6. Rises(s0, MoveB(s0)) /\ MoveB(s0) \in Slot
  BY <1>4, <1>5, MoveBRises DEF Rises
<1>7. s1 \in Slot /\ s1.B = MoveB(s0).B /\ (InRange(s1) => InRange(MoveB(s0)))
  BY <1>6 DEF Slot, Phase, InRange
<1> HIDE DEF s1
<1>8. Stays(s1, s2)
  <2>1. Stays(s1, r)
    BY <1>7, RequireStays DEF Fault
  <2> HIDE DEF r
  <2>2. Stays(r, s2)
    BY <2>1, RequireStays DEF Fault, Stays
  <2> QED BY <2>1, <2>2, StaysOrder
<1> HIDE DEF s2, p
<1>9. t = [s2 EXCEPT !.P = p, !.PP = NoBallot]
  BY DEF EnterCommit, s2, r, s1, s0, p, h, c, S
<1>10. t.B = s2.B /\ (InRange(t) => InRange(s2))
  BY <1>8, <1>9 DEF Stays, Slot, InRange
<1> HIDE DEF t
<1>11. InRange(t) => InRange(s) /\ Climbs(s.B, t.B)
  BY <1>5, <1>6, <1>7, <1>8, <1>10 DEF Rises, Stays
<1>12. Rises(s, t)
  BY <1>1, <1>11 DEF Rises, PhaseLE, Open, Locked
<1> QED BY <1>12 DEF t

(* (1) to (3) *)
LEMMA UpdatePHCRises ==
  ASSUME NEW n \in Node, NEW accepted, accepted \subseteq Ballot,
         NEW s \in Slot, s.phase \in Open,
         ~(accepted # {} /\ BallotLT(MaxBallot(accepted), s.P))
  PROVE  Rises(s, UpdatePHC(n, accepted, s))
<1> DEFINE s1 == UpdateP(accepted, s)
           s2 == UpdateH(n, s1)
           s3 == CheckCH(s2)
           s4 == UpdateC(s3)
<1>1. Rises(s, s1) /\ s1.phase \in Open /\ s1 \in Slot
  BY UpdatePRises, UpdatePTypes DEF Rises
<1> HIDE DEF s1
<1>2. Rises(s, s2) /\ s2 \in Slot
  BY <1>1, UpdateHRises, RisesOrder DEF Rises
<1> HIDE DEF s2
<1>3. Rises(s, s3) /\ s3 \in Slot
  BY <1>2, ChecksStay, RisesOrder DEF Rises
<1> HIDE DEF s3
<1>4. Rises(s, s4) /\ s4 \in Slot
  BY <1>3, UpdateCStays, RisesOrder DEF Rises
<1> HIDE DEF s4
<1>5. Rises(s, CheckCH(s4))
  BY <1>4, ChecksStay, RisesOrder
<1> QED BY <1>5 DEF UpdatePHC, s4, s3, s2, s1

(* B may take any value with a higher counter. *)
LEMMA HigherBallotRises ==
  ASSUME NEW s \in Slot, NEW b \in Ballot, Climbs(s.B, b)
  PROVE  /\ Rises(s, [s EXCEPT !.B = b])
         /\ Rises(s, [s EXCEPT !.ballot_timer = FALSE, !.B = b])
<1>0. s.P \in OptBallot /\ s.H \in OptBallot
  BY SlotFields
<1> DEFINE t == [s EXCEPT !.B = b]
           u == [s EXCEPT !.ballot_timer = FALSE, !.B = b]
<1>1. /\ t \in Slot /\ t.phase = s.phase /\ t.P = s.P /\ t.H = s.H /\ t.B = b
      /\ (InRange(t) => InRange(s))
  BY DEF Slot, InRange
<1>2. /\ u \in Slot /\ u.phase = s.phase /\ u.P = s.P /\ u.H = s.H /\ u.B = b
      /\ (InRange(u) => InRange(s))
  BY DEF Slot, InRange
<1> HIDE DEF t, u
<1>3. Rises(s, t) /\ Rises(s, u)
  BY <1>0, <1>1, <1>2, BallotOrder DEF Rises, PhaseLE
<1> QED BY <1>3 DEF t, u

(* (8) and (9) *)
LEMMA FinishPrepareRises ==
  ASSUME NEW n \in Node, NEW s \in Slot
  PROVE  Rises(s, FinishPrepare(n, s).slot)
<1> DEFINE s8 == IF s.H = NoBallot THEN s ELSE MoveB(s)
           counter == get_unblocking_ballot_counter(n, s8)
           x == get_next_ballot_values(n, s8)
           t == [s8 EXCEPT !.ballot_timer = FALSE, !.B = Bal(counter, x)]
<1>1. Rises(s, s8) /\ s8 \in Slot
  BY SlotFields, BallotTypes, MoveBRises, RisesOrder DEF Rises
<1> HIDE DEF s8
<1>2. counter \in Counter /\ x \in List \cup {EmptyList, NoList}
  BY <1>1, NextBallotTypes
<1> HIDE DEF counter, x
<1>3. CASE s8.B.N < counter /\ x # NoList
  <2>1. Bal(counter, x) \in Ballot /\ Climbs(s8.B, Bal(counter, x))
    BY <1>2, <1>3, BallotTypes DEF Climbs, Bal
  <2>2. Rises(s8, t)
    BY <1>1, <2>1, HigherBallotRises
  <2> HIDE DEF t
  <2>3. Rises(s, maybe_set_ballot_timer(n, t))
    BY <1>1, <2>2, TimerStays, RisesOrder DEF Rises
  <2>4. FinishPrepare(n, s).slot = maybe_set_ballot_timer(n, t)
    BY <1>3 DEF FinishPrepare, Unblock, t, x, counter, s8
  <2> QED BY <2>3, <2>4
<1>4. CASE ~(s8.B.N < counter /\ x # NoList)
  <2>1. FinishPrepare(n, s).slot = check_prepare_phase_invariants(s8)
    BY <1>4 DEF FinishPrepare, x, counter, s8
  <2> QED BY <2>1, <1>1, ChecksStay, RisesOrder
<1> QED BY <1>3, <1>4

(* One run through do_prepare_phase. *)
LEMMA PreparePassRises ==
  ASSUME NEW n \in Node, NEW s \in Slot, s.phase \in Open, NEW r \in PreparePass(n, s)
  PROVE  Rises(s, r.slot)
<1> DEFINE s0 == check_prepare_phase_invariants(s)
           accepted == ballots_accepted_prepared(n, s0)
           s3 == UpdatePHC(n, accepted, s0)
           returns == accepted # {} /\ BallotLT(MaxBallot(accepted), s0.P)
<1>1. Rises(s, s0) /\ s0 \in Slot /\ s0.phase \in Open
  BY ChecksStay, RisesOrder DEF Stays
<1> HIDE DEF s0
<1>2. accepted \subseteq Ballot
  BY <1>1, PreparedTypes
<1>3. \/ returns /\ r = [slot |-> s0, again |-> FALSE]
      \/ ~returns /\ r = FinishPrepare(n, s3)
      \/ ~returns /\ \E f \in ballots_accepted_committed(n, s3) :
           r = [slot |-> EnterCommit(n, s3, f), again |-> FALSE]
  BY DEF PreparePass, UpdateBallots, ConcludePrepare, s0
<1> HIDE DEF accepted
<1>4. CASE returns
  BY <1>1, <1>3, <1>4
<1>5. CASE ~returns
  <2>1. Rises(s, s3) /\ s3 \in Slot /\ s3.phase \in Open
    BY <1>1, <1>2, <1>5, UpdatePHCRises, UpdatePHCTypes, RisesOrder DEF Rises
  <2> HIDE DEF s3, returns
  <2>2. CASE r = FinishPrepare(n, s3)
    BY <2>1, <2>2, FinishPrepareRises, RisesOrder
  <2>3. ASSUME NEW f \in ballots_accepted_committed(n, s3),
               r = [slot |-> EnterCommit(n, s3, f), again |-> FALSE]
        PROVE  Rises(s, r.slot)
    BY <2>1, <2>3, EnterCommitRises, RisesOrder
  <2> QED BY <1>3, <1>5, <2>2, <2>3
<1> QED BY <1>4, <1>5

(* do_prepare_phase. *)
LEMMA PrepareRises ==
  ASSUME NEW n \in Node, NEW s \in Slot, s.phase \in Open, NEW t \in do_prepare_phase(n, s)
  PROVE  Rises(s, t)
<1>1. PICK r \in PreparePass(n, s) :
        \/ ~r.again /\ t = r.slot
        \/ /\ r.again
           /\ \E u \in PreparePass(n, r.slot) :
                t = check_prepare_phase_invariants(Require(u.slot, ~u.again, "depth"))
  BY DEF do_prepare_phase
<1>2. Rises(s, r.slot)
  BY PreparePassRises
<1>3. ASSUME r.again, NEW u \in PreparePass(n, r.slot),
             t = check_prepare_phase_invariants(Require(u.slot, ~u.again, "depth"))
      PROVE  Rises(s, t)
  <2> DEFINE v == Require(u.slot, ~u.again, "depth")
  <2>1. r.slot \in Slot /\ r.slot.phase \in Open
    BY <1>2, <1>3, PreparePassTypes DEF Rises
  <2>2. Rises(r.slot, u.slot) /\ u.slot \in Slot
    BY <2>1, PreparePassRises DEF Rises
  <2>3. Stays(u.slot, v) /\ v \in Slot
    BY <2>2, RequireStays DEF Fault, Stays
  <2> HIDE DEF v
  <2>4. Stays(v, t)
    BY <1>3, <2>3, ChecksStay DEF v
  <2> QED BY <1>2, <2>2, <2>3, <2>4, RisesOrder
<1> QED BY <1>1, <1>2, <1>3

-----------------------------------------------------------------------------
(* The Commit and Externalize phases *)

(* (5) takes no lower P. *)
LEMMA UpdateCommitPRises ==
  ASSUME NEW n \in Node, NEW s \in Slot
  PROVE  Rises(s, UpdateCommitP(n, s)) /\ UpdateCommitP(n, s).phase = s.phase
<1> DEFINE p == MaxBallot({b \in ballots_accepted_prepared(n, s) : b.X = s.B.X})
           t == [s EXCEPT !.P = p]
<1>0. s.P \in OptBallot /\ s.H \in OptBallot /\ s.B.N \in Nat
  BY SlotFields, CounterTypes
<1>1. p \in OptBallot
  <2>1. {b \in ballots_accepted_prepared(n, s) : b.X = s.B.X} \subseteq Ballot
    BY PreparedTypes
  <2> QED BY <2>1, MaxMinTypes
<1>2. UpdateCommitP(n, s) = IF BallotLT(p, s.P) THEN s ELSE t
  BY DEF UpdateCommitP
<1> HIDE DEF p
<1>3. ~BallotLT(p, s.P) => BallotLE(s.P, p)
  BY <1>0, <1>1, BallotOrder
<1>4. /\ t \in Slot /\ t.phase = s.phase /\ t.P = p /\ t.H = s.H /\ t.B = s.B
      /\ (InRange(t) => InRange(s))
  BY <1>1 DEF Slot, InRange
<1> HIDE DEF t
<1>5. ~BallotLT(p, s.P) => Rises(s, t)
  BY <1>0, <1>3, <1>4, BallotOrder DEF Rises, PhaseLE, Climbs
<1> QED BY <1>2, <1>4, <1>5, RisesOrder

(* C and H are set; in the Commit phase they may also shrink. *)
LEMMA SetCHRises ==
  ASSUME NEW s \in Slot, s.phase = "Commit", NEW r, r \subseteq Counter
  PROVE  Rises(s, SetCH(s, r)) /\ SetCH(s, r).phase = "Commit"
<1> DEFINE c == Bal(Lowest(r), s.B.X)
           h == Bal(Highest(r), s.B.X)
           t == [s EXCEPT !.C = c, !.H = h]
<1>0. s.P \in OptBallot /\ s.B.N \in Nat
  BY SlotFields, CounterTypes
<1>1. c \in OptBallot /\ h \in OptBallot
  BY RangeTypes, SlotFields, BallotTypes
<1>2. SetCH(s, r) \in {s, t}
  BY DEF SetCH
<1> HIDE DEF c, h
<1>3. /\ t \in Slot /\ t.phase = s.phase /\ t.P = s.P /\ t.B = s.B
      /\ (InRange(t) => InRange(s))
  BY <1>1 DEF Slot, InRange
<1> HIDE DEF t
<1>4. Rises(s, t)
  BY <1>0, <1>3, BallotOrder DEF Rises, PhaseLE, Climbs
<1> QED BY <1>2, <1>3, <1>4, RisesOrder

(* The counter of B may rise. *)
LEMMA HigherCounterRises ==
  ASSUME NEW s \in Slot, NEW c \in Counter, s.B.N <= c
  PROVE  Rises(s, [s EXCEPT !.B.N = c])
<1> DEFINE b == [s.B EXCEPT !.N = c]
<1>1. b \in Ballot /\ Climbs(s.B, b)
  BY SlotFields DEF Ballot, Climbs
<1>2. [s EXCEPT !.B.N = c] = [s EXCEPT !.B = b]
  OBVIOUS
<1> HIDE DEF b
<1> QED BY <1>1, <1>2, HigherBallotRises

(* (8) and (9) of the Commit phase. *)
LEMMA FinishCommitRises ==
  ASSUME NEW n \in Node, NEW s \in Slot, s.phase = "Commit"
  PROVE  Rises(s, FinishCommit(n, s).slot)
<1> DEFINE c == MaxOf(s.B.N, s.H.N)
           s8 == [s EXCEPT !.B.N = c]
           counter == get_unblocking_ballot_counter(n, s8)
           t == [s8 EXCEPT !.ballot_timer = FALSE]
           u == [t EXCEPT !.B.N = counter]
<1>1. c \in Counter /\ s.B.N <= c
  BY SlotFields, BallotTypes, CounterTypes
<1>2. Rises(s, s8) /\ s8 \in Slot
  BY <1>1, HigherCounterRises DEF Rises
<1>3. s8 = [s EXCEPT !.B.N = MaxOf(@, s.H.N)]
  BY SlotFields
<1> HIDE DEF s8
<1>4. counter \in Counter
  BY <1>2, NextBallotTypes
<1>5. FinishCommit(n, s).slot =
        IF s8.B.N < counter THEN [s8 EXCEPT !.ballot_timer = FALSE, !.B.N = counter]
        ELSE check_commit_phase_invariants(s8)
  BY <1>3 DEF FinishCommit
<1> HIDE DEF counter
<1>6. Stays(s8, t) /\ t \in Slot /\ t.B = s8.B
  BY <1>2 DEF Stays, Slot, InRange
<1>7. [s8 EXCEPT !.ballot_timer = FALSE, !.B.N = counter] = u
  BY <1>2 DEF Slot
<1> HIDE DEF t
<1>8. CASE s8.B.N < counter
  <2>1. s8.B.N \in Nat /\ counter \in Nat
    BY <1>2, <1>4, SlotFields, CounterTypes
  <2>2. t.B.N <= counter
    BY <1>6, <1>8, <2>1
  <2>3. Rises(t, u)
    BY <1>4, <1>6, <2>2, HigherCounterRises
  <2> HIDE DEF u
  <2> QED BY <1>2, <1>5, <1>6, <1>7, <1>8, <2>3, RisesOrder
<1>9. CASE ~(s8.B.N < counter)
  BY <1>2, <1>5, <1>9, ChecksStay, RisesOrder
<1> QED BY <1>8, <1>9

(* One run through do_commit_phase. *)
LEMMA CommitPassRises ==
  ASSUME NEW n \in Node, NEW s \in Slot, s.phase = "Commit", NEW r \in CommitPass(n, s)
  PROVE  Rises(s, r.slot)
<1> DEFINE s0 == check_commit_phase_invariants(s)
           s5 == UpdateCommitP(n, s0)
           s6(f) == CheckCH(SetCH(s5, RangeOf(f, s5.B.X)))
<1>1. Rises(s, s0) /\ s0 \in Slot /\ s0.phase = "Commit"
  BY ChecksStay, RisesOrder DEF Stays
<1> HIDE DEF s0
<1>2. Rises(s, s5) /\ s5 \in Slot /\ s5.phase = "Commit"
  BY <1>1, UpdateCommitPRises, RisesOrder DEF Rises
<1> HIDE DEF s5
<1>3. ASSUME NEW f \in ballots_accepted_committed(n, s5)
      PROVE  Rises(s, s6(f)) /\ s6(f) \in Slot /\ s6(f).phase = "Commit"
  <2> DEFINE t == SetCH(s5, RangeOf(f, s5.B.X))
  <2>1. RangeOf(f, s5.B.X) \subseteq Counter
    BY <1>2, AcceptedCommittedTypes
  <2>2. Rises(s5, t) /\ t \in Slot /\ t.phase = "Commit"
    BY <1>2, <2>1, SetCHRises DEF Rises
  <2> HIDE DEF t
  <2>3. Stays(t, CheckCH(t))
    BY <2>2, ChecksStay
  <2>4. Rises(s, CheckCH(t)) /\ CheckCH(t) \in Slot /\ CheckCH(t).phase = "Commit"
    BY <1>2, <2>2, <2>3, RisesOrder DEF Stays
  <2> QED BY <2>4 DEF t
<1>4. PICK f \in ballots_accepted_committed(n, s5) :
        \E confirmed \in ballots_confirmed_committed(n, s6(f)) :
          r = IF confirmed = {} THEN FinishCommit(n, s6(f))
              ELSE [slot |-> EnterExternalize(s6(f), confirmed), again |-> FALSE]
  BY DEF CommitPass, UpdateCH, ConcludeCommit, s5, s0
<1> DEFINE t == s6(f)
<1>5. Rises(s, t) /\ t \in Slot /\ t.phase = "Commit"
  BY <1>3
<1>6. PICK confirmed \in ballots_confirmed_committed(n, t) :
        r = IF confirmed = {} THEN FinishCommit(n, t)
            ELSE [slot |-> EnterExternalize(t, confirmed), again |-> FALSE]
  BY <1>4
<1> HIDE DEF t
<1>7. CASE confirmed = {}
  BY <1>5, <1>6, <1>7, FinishCommitRises, RisesOrder
<1>8. CASE confirmed # {}
  <2> DEFINE u == SetCH(t, confirmed)
             v == [u EXCEPT !.phase = "Externalize", !.nominate_timer = FALSE,
                            !.ballot_timer = FALSE]
  <2>1. Rises(t, u) /\ u \in Slot /\ u.phase = "Commit"
    BY <1>5, ConfirmedCommittedTypes, SetCHRises DEF Rises
  <2>2. r.slot = v
    BY <1>6, <1>8 DEF EnterExternalize
  <2> HIDE DEF u
  <2>3. /\ v \in Slot /\ v.phase = "Externalize" /\ v.B = u.B
        /\ (InRange(v) => InRange(u))
    BY <2>1 DEF Slot, Phase, InRange
  <2> HIDE DEF v
  <2>4. u.B.N \in Nat
    BY <2>1, SlotFields, CounterTypes
  <2>5. Rises(u, v)
    BY <2>1, <2>3, <2>4 DEF Rises, PhaseLE, Climbs
  <2> QED BY <1>5, <2>1, <2>2, <2>5, RisesOrder
<1> QED BY <1>7, <1>8

(* do_commit_phase. *)
LEMMA CommitPhaseRises ==
  ASSUME NEW n \in Node, NEW s \in Slot, s.phase = "Commit", NEW t \in do_commit_phase(n, s)
  PROVE  Rises(s, t)
<1>1. PICK r \in CommitPass(n, s) :
        \/ ~r.again /\ t = r.slot
        \/ /\ r.again
           /\ \E u \in CommitPass(n, r.slot) :
                t = check_commit_phase_invariants(Require(u.slot, ~u.again, "depth"))
  BY DEF do_commit_phase
<1>2. Rises(s, r.slot)
  BY CommitPassRises
<1>3. ASSUME r.again, NEW u \in CommitPass(n, r.slot),
             t = check_commit_phase_invariants(Require(u.slot, ~u.again, "depth"))
      PROVE  Rises(s, t)
  <2> DEFINE v == Require(u.slot, ~u.again, "depth")
  <2>1. r.slot \in Slot /\ r.slot.phase = "Commit"
    BY <1>2, <1>3, CommitPassFollows DEF Rises
  <2>2. Rises(r.slot, u.slot) /\ u.slot \in Slot
    BY <2>1, CommitPassRises DEF Rises
  <2>3. Stays(u.slot, v) /\ v \in Slot
    BY <2>2, RequireStays DEF Fault, Stays
  <2> HIDE DEF v
  <2>4. Stays(v, t)
    BY <1>3, <2>3, ChecksStay DEF v
  <2> QED BY <1>2, <2>2, <2>3, <2>4, RisesOrder
<1> QED BY <1>1, <1>2, <1>3

(* do_externalize_phase raises H. *)
LEMMA ExternalizeRises ==
  ASSUME NEW n \in Node, NEW s, Sound(s), s.phase = "Externalize",
         NEW t \in do_externalize_phase(n, s)
  PROVE  Rises(s, t)
<1> DEFINE s0 == check_externalize_phase_invariants(s)
<1>1. /\ Stays(s, s0) /\ s0 \in Slot /\ s0.phase = "Externalize"
      /\ s0.H \in Ballot /\ s0.P \in OptBallot /\ s0.B.N \in Nat
  BY ChecksStay, SlotFields, CounterTypes DEF Sound, Stays
<1> HIDE DEF s0
<1>2. PICK confirmed \in ballots_confirmed_committed(n, s0) :
        t = check_externalize_phase_invariants(
              IF confirmed = {} THEN s0
              ELSE [s0 EXCEPT !.H.N = MaxOf(@, Highest(confirmed))])
  BY DEF do_externalize_phase, s0
<1> DEFINE c == MaxOf(s0.H.N, Highest(confirmed))
           h == [s0.H EXCEPT !.N = c]
           s1 == IF confirmed = {} THEN s0 ELSE [s0 EXCEPT !.H = h]
<1>3. c \in Counter
  <2>1. Highest(confirmed) \in Counter
    BY <1>1, ConfirmedCommittedTypes, RangeTypes
  <2> QED BY <1>1, <2>1, BallotTypes, CounterTypes
<1>4. t = check_externalize_phase_invariants(s1)
  BY <1>1, <1>2
<1> HIDE DEF c
<1>5. h \in Ballot
  BY <1>1, <1>3 DEF Ballot
<1> HIDE DEF h
<1>6. /\ s1 \in Slot /\ s1.phase = "Externalize" /\ s1.B = s0.B /\ s1.P = s0.P
      /\ (InRange(s1) => InRange(s0))
  BY <1>1, <1>5, BallotTypes DEF Slot, InRange
<1> HIDE DEF s1
<1>7. Rises(s0, s1)
  BY <1>1, <1>6, BallotOrder DEF Rises, PhaseLE, Climbs
<1>8. Stays(s1, t)
  BY <1>4, <1>6, ChecksStay
<1> QED BY <1>1, <1>7, <1>8, RisesOrder

(* do_ballot_protocol. *)
LEMMA BallotProtocolRises ==
  ASSUME NEW n \in Node, NEW s, Sound(s), NEW t \in do_ballot_protocol(n, s)
  PROVE  Rises(s, t)
<1> DEFINE s0 == maybe_set_ballot_timer(n, s)
           prepared == PrepareStep(n, s0)
           committed == UNION {CommitStep(n, u) : u \in prepared}
<1>1. Rises(s, s0) /\ Sound(s0)
  <2>1. s \in Slot
    BY DEF Sound
  <2>2. Rises(s, s0)
    BY <2>1, TimerStays, RisesOrder
  <2>3. Keeps(s, s0) /\ s0.phase = s.phase /\ s0.B = s.B /\ s0.C = s.C /\ s0.H = s.H
    BY <2>1, TimerTypes
  <2> HIDE DEF s0
  <2> QED BY <2>2, <2>3 DEF Sound, Keeps
<1> HIDE DEF s0
<1>2. \A u \in prepared : Rises(s, u) /\ Sound(u)
  <2> SUFFICES ASSUME NEW u \in prepared PROVE Rises(s, u) /\ Sound(u)
    OBVIOUS
  <2>1. Rises(s0, u) /\ Sound(u)
    BY <1>1, PrepareRises, PrepareFollows, RisesOrder
    DEF PrepareStep, Open, Sound, Follows
  <2> QED BY <1>1, <2>1, RisesOrder
<1> HIDE DEF prepared
<1>3. \A u \in committed : Rises(s, u) /\ Sound(u)
  <2> SUFFICES ASSUME NEW v \in prepared, NEW u \in CommitStep(n, v)
               PROVE  Rises(s, u) /\ Sound(u)
    OBVIOUS
  <2>1. Rises(s, v) /\ Sound(v) /\ v \in Slot
    BY <1>2 DEF Sound
  <2>2. Rises(v, u) /\ Sound(u)
    BY <2>1, CommitPhaseRises, CommitPhaseFollows, RisesOrder DEF CommitStep, Follows
  <2> QED BY <2>1, <2>2, RisesOrder
<1>4. PICK u \in committed : t \in ExternalizeStep(n, u)
  BY DEF do_ballot_protocol, committed, prepared, s0
<1> HIDE DEF committed
<1>5. Rises(s, u) /\ Sound(u)
  BY <1>3
<1>6. Rises(u, t)
  BY <1>4, <1>5, ExternalizeRises, RisesOrder DEF ExternalizeStep, Sound
<1> QED BY <1>5, <1>6, RisesOrder

-----------------------------------------------------------------------------
(* The methods of ScpSlot *)

(* What a method leaves of s has settled at least as much. *)
Grows(s, t) ==
  /\ t.phase = s.phase => /\ BallotLE(s.P, t.P)
                          /\ s.phase = "Prepare" => BallotLE(s.H, t.H)
  /\ InRange(t) => Climbs(s.B, t.B)

(* A slot that nothing is done to, or that panics, grows. *)
LEMMA GrowsItself ==
  ASSUME NEW s \in Slot, NEW t, t.phase = s.phase, t.B = s.B, t.P = s.P, t.H = s.H
  PROVE  Grows(s, t)
<1>1. s.B.N \in Nat /\ s.P \in OptBallot /\ s.H \in OptBallot
  BY SlotFields, CounterTypes
<1> QED BY <1>1, BallotOrder DEF Grows, Climbs

(* A method ends with what the ballot protocol leaves, or where it began. *)
LEMMA OutcomesGrow ==
  ASSUME NEW s \in Slot, NEW results,
         \A r \in results : Running(r) => Rises(s, r),
         NEW t \in Outcomes(s, results)
  PROVE  Grows(s, t)
<1>1. PICK u : /\ \/ \E r \in results : Running(r) /\ u = out_msg(r)
                  \/ u \in results /\ ~Running(u)
               /\ t = IF Running(u) THEN u
                      ELSE [s EXCEPT !.fault = u.fault, !.overflow = u.overflow]
  BY DEF Outcomes
<1>2. ASSUME NEW r \in results, Running(r), u = out_msg(r), Running(u)
      PROVE  Grows(s, u)
  <2> DEFINE m == OutTopic(r)
             r1 == Checked(r, ~Underflows(r), "below")
             r2 == IF m = NoMsg THEN r1 ELSE Require(r1, WellFormed(m), "message")
  <2> "below" \in Side /\ "message" \in Fault
    BY DEF Side, Fault
  <2>1. Rises(s, r) /\ r \in Slot
    BY <1>2 DEF Rises
  <2>2. Stays(r, r1) /\ r1 \in Slot
    BY <2>1, CheckedStays DEF Stays
  <2> HIDE DEF r1
  <2>3. Stays(r, r2)
    BY <2>2, RequireStays, StaysOrder
  <2>4. u = IF m = NoMsg THEN r2 ELSE [r2 EXCEPT !.last_sent_msg = m]
    BY <1>2 DEF out_msg, r1
  <2> HIDE DEF r2, m
  <2>5. u.phase = r2.phase /\ u.B = r2.B /\ u.P = r2.P /\ u.H = r2.H
        /\ (InRange(u) => InRange(r2))
    BY <2>3, <2>4 DEF Stays, Slot, InRange
  <2>6. Rises(s, r2)
    BY <2>1, <2>3, RisesOrder
  <2> QED BY <2>5, <2>6 DEF Rises, Grows
<1>3. CASE Running(u)
  BY <1>1, <1>2, <1>3
<1>4. CASE ~Running(u)
  <2>1. t = [s EXCEPT !.fault = u.fault, !.overflow = u.overflow]
    BY <1>1, <1>4
  <2>2. t.phase = s.phase /\ t.B = s.B /\ t.P = s.P /\ t.H = s.H
    BY <2>1 DEF Slot
  <2> QED BY <2>2, GrowsItself
<1> QED BY <1>3, <1>4

(* propose_values. *)
LEMMA ProposeValuesGrow ==
  ASSUME NEW n \in Node, NEW s, Sound(s), NEW values, NEW t \in propose_values(n, s, values)
  PROVE  Grows(s, t)
<1> DEFINE valid == values \cap ValidValue[n]
           s0 == [s EXCEPT !.W = @ \cup valid]
           s1 == do_nominate_phase(n, s0)
<1>0. s \in Slot /\ Rises(s, s)
  BY RisesOrder DEF Sound
<1>1. CASE s.phase # "NominatePrepare" \/ s.Z # {}
  <2>1. t \in Outcomes(s, {s})
    BY <1>1 DEF propose_values
  <2> QED BY <1>0, <2>1, OutcomesGrow
<1>2. CASE s.phase = "NominatePrepare" /\ s.Z = {} /\ valid = {}
  <2>1. t = s
    BY <1>2 DEF propose_values
  <2> QED BY <1>0, <2>1, GrowsItself
<1>3. CASE s.phase = "NominatePrepare" /\ s.Z = {} /\ valid # {}
  <2>1. valid \subseteq Value
    BY ValidValueAssumption
  <2>2. t \in Outcomes(s, do_ballot_protocol(n, s1))
    BY <1>3 DEF propose_values
  <2> HIDE DEF valid
  <2>3. Stays(s, s0) /\ s0 \in Slot /\ s0.phase = "NominatePrepare"
    BY <1>0, <1>3, <2>1 DEF Stays, Slot, InRange
  <2> HIDE DEF s0
  <2>4. Rises(s, s1) /\ Sound(s1)
    BY <2>3, NominateRises, NominateTypes, RisesOrder DEF Keeps, Sound
  <2> HIDE DEF s1
  <2>5. \A r \in do_ballot_protocol(n, s1) : Rises(s, r)
    BY <2>4, BallotProtocolRises, RisesOrder
  <2> QED BY <1>0, <2>2, <2>5, OutcomesGrow
<1> QED BY <1>1, <1>2, <1>3

(* handle_messages. *)
LEMMA HandleMessagesGrow ==
  ASSUME NEW n \in Node, NEW s, Sound(s),
         NEW batch, \A k \in DOMAIN batch : batch[k] \in Msg,
         NEW t \in handle_messages(n, s, batch)
  PROVE  Grows(s, t)
<1> DEFINE news == {k \in DOMAIN batch : IsNews(n, s, k, batch[k])}
           M1 == [k \in Node |-> IF k \in news THEN batch[k] ELSE s.M[k]]
           s1 == [s EXCEPT !.M = M1]
           s2 == IF s.phase = "NominatePrepare" THEN do_nominate_phase(n, s1) ELSE s1
<1>0. s \in Slot
  BY DEF Sound
<1>1. M1 \in [Node -> OptMsg]
  BY <1>0, SlotFields DEF OptMsg
<1>2. news # {} => t \in Outcomes(s, do_ballot_protocol(n, s2))
  BY DEF handle_messages
<1>3. news = {} => t = s
  BY DEF handle_messages
<1> HIDE DEF M1, news
<1>4. Stays(s, s1) /\ s1 \in Slot /\ s1.C = s.C
  BY <1>0, <1>1 DEF Stays, Slot, InRange
<1> HIDE DEF s1
<1>5. Rises(s, s2) /\ Sound(s2)
  <2>1. CASE s.phase = "NominatePrepare"
    BY <1>4, <2>1, NominateRises, NominateTypes, RisesOrder DEF Keeps, Sound, Stays
  <2>2. CASE s.phase # "NominatePrepare"
    BY <1>4, <2>2, RisesOrder DEF Sound, Stays
  <2> QED BY <2>1, <2>2
<1> HIDE DEF s2
<1>6. \A r \in do_ballot_protocol(n, s2) : Rises(s, r)
  BY <1>5, BallotProtocolRises, RisesOrder
<1>7. CASE news = {}
  BY <1>0, <1>3, <1>7, GrowsItself
<1>8. CASE news # {}
  BY <1>0, <1>2, <1>6, <1>8, OutcomesGrow
<1> QED BY <1>7, <1>8

(* A nomination timeout. *)
LEMMA NominateTimeoutRises ==
  ASSUME NEW n \in Node, NEW s \in Slot, s.nominate_round + 1 \in Round
  PROVE  Rises(s, NominateTimeout(n, s))
<1> DEFINE round == s.nominate_round + 1
           peers == s.max_priority_peers \cup
                      {find_max_priority_peer(n, s.max_priority_peers, round)}
           s1 == [s EXCEPT !.nominate_timer = FALSE, !.nominate_round = round,
                           !.max_priority_peers = peers]
<1>1. round \in Nat /\ peers \subseteq Node
  BY LeaderTypes, SlotFields
<1>2. NominateTimeout(n, s) = do_nominate_phase(n, s1)
  BY DEF NominateTimeout
<1> HIDE DEF round, peers
<1>3. Stays(s, s1) /\ s1 \in Slot
  BY <1>1 DEF Stays, Slot, InRange
<1> HIDE DEF s1
<1> QED BY <1>2, <1>3, NominateRises, RisesOrder

(* A ballot timeout raises the counter of B, unless it wraps. *)
LEMMA BallotTimeoutRises ==
  ASSUME NEW n \in Node, NEW s \in Slot
  PROVE  Rises(s, BallotTimeout(n, s))
<1> DEFINE t == CheckedInc(s, s.B.N)
           s1 == [t EXCEPT !.ballot_timer = FALSE]
           x == get_next_ballot_values(n, s)
           c == Inc(s.B.N)
           u(b) == [s1 EXCEPT !.B = b]
<1>0. /\ s.B.N \in Counter /\ s.B \in Ballot /\ s.B.X \in List \cup {EmptyList}
      /\ s.P \in OptBallot /\ s.H \in OptBallot
      /\ c \in Counter /\ x \in List \cup {EmptyList, NoList}
  BY SlotFields, CounterTypes, NextBallotTypes
<1>1. /\ Stays(s, t) /\ t \in Slot
      /\ InRange(t) => s.B.N < c
  <2>1. Stays(s, t)
    BY CheckedStays DEF CheckedInc, Side
  <2>2. InRange(t) => s.B.N # INFINITY
    BY CheckedStays DEF CheckedInc, Side
  <2>3. s.B.N # INFINITY => s.B.N < c
    <3> DEFINE k == s.B.N
    <3>1. k \in Nat /\ k \in Counter
      BY <1>0, CounterTypes
    <3> HIDE DEF k
    <3>2. k # INFINITY => Inc(k) = k + 1
      BY <3>1, IncRises
    <3>3. k # INFINITY => k < Inc(k)
      BY <3>1, <3>2
    <3> QED BY <3>3 DEF k
  <2> QED BY <2>1, <2>2, <2>3 DEF Stays
<1>2. Stays(s, s1) /\ s1 \in Slot /\ (InRange(s1) => InRange(t))
  BY <1>1 DEF Stays, Slot, InRange
<1>3. \/ BallotTimeout(n, s) \in {s, s1}
      \/ BallotTimeout(n, s) = [s1 EXCEPT !.B.N = Inc(@)]
      \/ x # NoList /\ BallotTimeout(n, s) = u(Bal(c, x))
  BY DEF BallotTimeout, RaiseBallot
<1> HIDE DEF t, s1, c, x
<1>4. ASSUME NEW b \in Ballot, b.N = c
      PROVE  Rises(s, u(b))
  <2> DEFINE v == u(b)
  <2>1. /\ v \in Slot /\ v.phase = s.phase /\ v.P = s.P /\ v.H = s.H /\ v.B = b
        /\ (InRange(v) => InRange(s1))
    BY <1>2 DEF Stays, Slot, InRange
  <2>2. InRange(v) => InRange(s) /\ Climbs(s.B, b)
    BY <1>1, <1>2, <1>4, <2>1 DEF Stays, Climbs
  <2> HIDE DEF v
  <2>3. Rises(s, v)
    BY <1>0, <2>1, <2>2, BallotOrder DEF Rises, PhaseLE
  <2> QED BY <2>3 DEF v
<1>5. CASE BallotTimeout(n, s) \in {s, s1}
  BY <1>2, <1>5, RisesOrder
<1>6. CASE BallotTimeout(n, s) = [s1 EXCEPT !.B.N = Inc(@)]
  <2> DEFINE b == [s1.B EXCEPT !.N = c]
  <2>1. s1.B = s.B
    BY <1>2 DEF Stays
  <2>2. b \in Ballot /\ b.N = c
    BY <1>0, <2>1 DEF Ballot
  <2>3. [s1 EXCEPT !.B.N = Inc(@)] = u(b)
    BY <2>1 DEF c
  <2> HIDE DEF b
  <2> QED BY <1>4, <1>6, <2>2, <2>3
<1>7. CASE x # NoList /\ BallotTimeout(n, s) = u(Bal(c, x))
  <2>1. Bal(c, x) \in Ballot /\ Bal(c, x).N = c
    BY <1>0, <1>7, BallotTypes DEF Bal
  <2> QED BY <1>4, <1>7, <2>1
<1> QED BY <1>3, <1>5, <1>6, <1>7

(* process_timeouts. *)
LEMMA ProcessTimeoutsGrow ==
  ASSUME NEW n \in Node, NEW s, Sound(s), NEW nominate, NEW ballot,
         nominate => s.nominate_round + 1 \in Round,
         NEW t \in process_timeouts(n, s, nominate, ballot)
  PROVE  Grows(s, t)
<1> DEFINE s1 == IF nominate THEN NominateTimeout(n, s) ELSE s
           s2 == IF ballot THEN BallotTimeout(n, s1) ELSE s1
           results == IF ballot THEN ContinueBallot(n, s2) ELSE {s2}
<1>0. s \in Slot
  BY DEF Sound
<1>1. Rises(s, s1) /\ s1 \in Slot /\ (Running(s1) => Sound(s1))
  <2>1. CASE nominate
    <3>1. Rises(s, s1)
      BY <1>0, <2>1, NominateTimeoutRises
    <3>2. /\ Keeps(s, s1) /\ s1.phase = s.phase
          /\ s.phase # "NominatePrepare" => ~Running(s1)
      BY <1>0, <2>1, NominateTimeoutTypes
    <3> HIDE DEF s1
    <3> QED BY <3>1, <3>2 DEF Keeps, Sound
  <2>2. CASE ~nominate
    BY <1>0, <2>2, RisesOrder
  <2> QED BY <2>1, <2>2
<1> HIDE DEF s1
<1>2. Rises(s, s2) /\ (Running(s2) => Sound(s2))
  <2>1. CASE ballot /\ Running(s1)
    BY <1>1, <2>1, BallotTimeoutRises, BallotTimeoutTypes, RisesOrder DEF Enters
  <2>2. CASE ~(ballot /\ Running(s1))
    BY <1>1, <2>2 DEF BallotTimeout
  <2> QED BY <2>1, <2>2
<1> HIDE DEF s2
<1>3. t \in Outcomes(s, results)
  BY DEF process_timeouts, s2, s1
<1>4. \A r \in results : Rises(s, r)
  BY <1>2, BallotProtocolRises, RisesOrder DEF ContinueBallot
<1> HIDE DEF results
<1> QED BY <1>0, <1>3, <1>4, OutcomesGrow

-----------------------------------------------------------------------------
(* The network *)

(* The slot of a node that does not restart grows. *)
LEMMA StepGrows ==
  ASSUME IInv, Next, NEW n \in Node, ~Restarted(n)
  PROVE  Grows(slot[n], slot'[n])
<1> DEFINE s == slot[n]
<1>0. slot \in [Node -> Slot] /\ restarts \in [Node -> Nat] /\ Sound(s)
  BY DEF IInv, TypeOK, SoundSlots
<1>1. Grows(s, s)
  BY <1>0, GrowsItself
<1>2. ASSUME NEW k \in Node, NEW t, Becomes(k, t), k = n => Grows(s, t)
      PROVE  Grows(s, slot'[n])
  <2>1. slot' = [slot EXCEPT ![k] = t]
    BY <1>2 DEF Becomes
  <2>2. CASE k = n
    BY <1>0, <1>2, <2>1, <2>2
  <2>3. CASE k # n
    BY <1>0, <1>1, <2>1, <2>3
  <2> QED BY <2>2, <2>3
<1>3. ASSUME NEW k \in Node, NEW values, ProposeValues(k, values)
      PROVE  Grows(s, slot'[n])
  <2>1. PICK t \in propose_values(k, slot[k], values) : Becomes(k, t)
    BY <1>3 DEF ProposeValues
  <2>2. k = n => Grows(s, t)
    BY <1>0, <2>1, ProposeValuesGrow
  <2> QED BY <1>2, <2>1, <2>2
<1>4. ASSUME NEW k \in Node, NEW batch \in Batches(k), HandleMessages(k, batch)
      PROVE  Grows(s, slot'[n])
  <2>1. \A j \in DOMAIN batch : j \in Node /\ batch[j] \in wire[j]
    BY DEF Batches, News
  <2>2. \A j \in DOMAIN batch : batch[j] \in Msg
    BY <2>1 DEF IInv, TypeOK
  <2>3. PICK t \in handle_messages(k, slot[k], batch) : Becomes(k, t)
    BY <1>4 DEF HandleMessages
  <2>4. k = n => Grows(s, t)
    BY <1>0, <2>2, <2>3, HandleMessagesGrow
  <2> QED BY <1>2, <2>3, <2>4
<1>5. ASSUME NEW k \in Node, NEW nominate \in BOOLEAN, NEW ballot \in BOOLEAN,
             ProcessTimeouts(k, nominate, ballot)
      PROVE  Grows(s, slot'[n])
  <2> DEFINE q == slot[k]
  <2>1. PICK t \in process_timeouts(k, q, nominate, ballot) : Becomes(k, t)
    BY <1>5 DEF ProcessTimeouts
  <2>2. nominate => q.nominate_round + 1 \in Round
    <3>1. nominate => q.nominate_round \in Nat /\ q.nominate_round <= MaxRound
      BY <1>0, <1>5, SlotFields DEF ProcessTimeouts
    <3>2. MaxRound \in Nat /\ 1 .. MaxRound + 1 \subseteq Round
      BY BoundsAssumption
    <3> HIDE DEF q
    <3>3. nominate => q.nominate_round + 1 \in 1 .. MaxRound + 1
      BY <3>1, <3>2
    <3> QED BY <3>2, <3>3
  <2>3. k = n => Grows(s, t)
    BY <1>0, <2>1, <2>2, ProcessTimeoutsGrow
  <2> QED BY <1>2, <2>1, <2>3
<1>6. ASSUME NEW k \in Node, Restart(k)
      PROVE  Grows(s, slot'[n])
  <2>1. restarts'[k] # restarts[k]
    BY <1>0, <1>6 DEF Restart
  <2>2. slot'[n] = slot[n]
    BY <1>0, <1>6, <2>1 DEF Restart, Restarted
  <2> QED BY <1>1, <2>2
<1> HIDE DEF s
<1>7. Grows(s, slot'[n])
  BY <1>3, <1>4, <1>5, <1>6 DEF Next
<1> QED BY <1>7 DEF s

(* Within a phase the highest ballot accepted prepared never goes back, although   *)
(* do_prepare_phase and do_commit_phase compute it anew from whatever messages the *)
(* node holds; in the Prepare phase neither does the highest confirmed prepared.   *)
THEOREM PreparedStays == Spec => PNonDecreasing
<1>1. IInv /\ [Next]_vars =>
        [\A n \in Node : ~Restarted(n) /\ slot'[n].phase = slot[n].phase =>
           /\ BallotLE(slot[n].P, slot'[n].P)
           /\ slot[n].phase = "Prepare" => BallotLE(slot[n].H, slot'[n].H)]_vars
  BY StepGrows DEF Grows
<1> QED BY <1>1, SpecInvariant, PTL DEF Spec, PNonDecreasing

(* In either build the ballot of a slot that has not counted past u32::MAX never  *)
(* goes back, and never changes its value without a higher counter, whichever of  *)
(* do_nominate_phase, MoveB, a blocking set or a timeout sets it: nothing but the  *)
(* wrap of an increment could take it back.                                        *)
THEOREM BallotsClimb == Spec => BallotMonotoneInRange
<1>1. IInv /\ [Next]_vars =>
        [\A n \in Node : ~Restarted(n) /\ "above" \notin slot'[n].overflow =>
           Forward(slot[n].B, slot'[n].B)]_vars
  <2> SUFFICES ASSUME IInv, Next, NEW n \in Node, ~Restarted(n), "above" \notin slot'[n].overflow
               PROVE  Forward(slot[n].B, slot'[n].B)
    OBVIOUS
  <2>1. Climbs(slot[n].B, slot'[n].B)
    BY StepGrows DEF Grows, InRange
  <2>2. slot[n].B \in Ballot /\ slot'[n].B \in Ballot
    BY NextInvariant, SlotFields DEF IInv, TypeOK
  <2>3. \A b \in Ballot : b.N \in Nat /\ b = Bal(b.N, b.X)
    BY BallotTypes DEF Ballot, Bal
  <2> QED BY <2>1, <2>2, <2>3 DEF Climbs, Forward, BallotLE, BallotLT
<1> QED BY <1>1, SpecInvariant, PTL DEF Spec, BallotMonotoneInRange

-----------------------------------------------------------------------------
(* The assertions of slot.rs *)

(* The order among the fields of a slot that the assertions state. *)
Ordered(s) ==
  /\ s.nominate_timer => s.phase = "NominatePrepare"
  /\ s.X \cap s.Y = {}
  /\ s.P # NoBallot /\ s.PP # NoBallot => Aborts(s.P, s.PP)
  /\ s.phase # "Externalize" => OrderedCH(s)
  /\ s.phase \in Locked =>
       /\ s.PP = NoBallot /\ s.B.X \in List
       /\ s.C # NoBallot /\ s.H # NoBallot /\ s.C.X = s.B.X /\ s.H.X = s.B.X
  /\ s.phase = "Commit" => s.P # NoBallot /\ s.P.X = s.B.X

(* No assertion has failed, and those to come will not.  Only a counter that left *)
(* its range may have made a message invalid.                                     *)
Asserted(s) ==
  /\ s \in Slot
  /\ s.fault # "assert" /\ (s.fault = "message" => s.overflow # {})
  /\ Running(s) => Ordered(s)

(* B has caught up with H, which it does at the end of every pass; only a counter *)
(* that wraps takes it below again.                                               *)
Leads(s) ==
  InRange(s) /\ Running(s) /\ s.phase \in Open /\ s.H # NoBallot => s.H.N <= s.B.N

Consistent(s) == Asserted(s) /\ Leads(s)

(* s and t have the same fields, but those that no assertion is about. *)
SameOrder(s, t) ==
  /\ t.phase = s.phase /\ t.nominate_timer = s.nominate_timer
  /\ t.X = s.X /\ t.Y = s.Y
  /\ t.B = s.B /\ t.P = s.P /\ t.PP = s.PP /\ t.H = s.H /\ t.C = s.C
  /\ s.overflow \subseteq t.overflow

(* What has the order of a consistent slot is consistent. *)
LEMMA SameOrderAsserted ==
  ASSUME NEW s, NEW t \in Slot, SameOrder(s, t), t.fault = s.fault
  PROVE  /\ Asserted(s) => Asserted(t)
         /\ Leads(s) => Leads(t)
BY DEF Asserted, Ordered, OrderedCH, Leads, SameOrder, Running, InRange

(* An assertion that holds does nothing. *)
LEMMA RequireHolds ==
  ASSUME NEW s, NEW cond, NEW tag, Running(s) => cond
  PROVE  Require(s, cond, tag) = s
BY DEF Require

(* One that fails is none of those that are claimed to hold. *)
LEMMA RequireAsserted ==
  ASSUME NEW s \in Slot, NEW cond, NEW tag \in {"phase", "overflow", "search", "depth"}
  PROVE  LET t == Require(s, cond, tag)
         IN /\ t \in Slot /\ SameOrder(s, t)
            /\ Asserted(s) => Asserted(t)
            /\ Leads(s) => Leads(t)
            /\ Running(t) => Running(s) /\ cond
<1> DEFINE t == Require(s, cond, tag)
<1>1. t = s \/ (t = [s EXCEPT !.fault = tag] /\ Running(s) /\ ~cond)
  BY DEF Require
<1>2. CASE t = s
  BY <1>2 DEF SameOrder, Require, Running, Slot
<1>3. CASE t # s
  <2>1. t = [s EXCEPT !.fault = tag]
    BY <1>1, <1>3
  <2>2. t \in Slot /\ SameOrder(s, t) /\ t.fault = tag
    BY <2>1 DEF Slot, SameOrder, Fault
  <2> HIDE DEF t
  <2>3. ~Running(t) /\ t.fault # "assert" /\ t.fault # "message"
    BY <2>2 DEF Running
  <2>4. Asserted(t) /\ Leads(t)
    BY <2>2, <2>3 DEF Asserted, Leads
  <2>5. QED
    BY <2>2, <2>3, <2>4 DEF t
<1> QED BY <1>2, <1>3

(* The invariants of the phases hold where they are checked. *)
LEMMA ChecksHold ==
  ASSUME NEW s, Asserted(s)
  PROVE  /\ Asserted(check_prepare_phase_invariants(s))
         /\ Leads(s) => Leads(check_prepare_phase_invariants(s))
         /\ SameOrder(s, check_prepare_phase_invariants(s))
         /\ Asserted(check_commit_phase_invariants(s))
         /\ SameOrder(s, check_commit_phase_invariants(s))
         /\ s.phase # "Externalize" => CheckCH(s) = s
         /\ s.phase = "Externalize" => check_externalize_phase_invariants(s) = s
<1>0. s \in Slot /\ (Running(s) => Ordered(s))
  BY DEF Asserted
<1>1. s.B.X \in List => s.B # ZeroBallot
  BY ListAssumption DEF ZeroBallot, EmptyList
<1>2. /\ Asserted(check_prepare_phase_invariants(s))
      /\ Leads(s) => Leads(check_prepare_phase_invariants(s))
      /\ SameOrder(s, check_prepare_phase_invariants(s))
  <2> DEFINE order == /\ (s.P # NoBallot /\ s.PP # NoBallot) => Aborts(s.P, s.PP)
                      /\ OrderedCH(s)
             open == s.phase \in {"NominatePrepare", "Prepare"}
             t == Require(s, open, "phase")
             u == Require(t, order, "assert")
             v == Require(u, s.C # NoBallot => s.C.X = s.H.X, "search")
  <2> HIDE DEF open
  <2>1. /\ t \in Slot /\ SameOrder(s, t) /\ Asserted(t) /\ (Leads(s) => Leads(t))
        /\ Running(t) => Running(s) /\ open
    BY <1>0, RequireAsserted
  <2>2. Running(t) => order
    BY <1>0, <2>1 DEF Ordered, open
  <2> HIDE DEF order, t
  <2>3. u = t
    BY <2>2, RequireHolds
  <2> HIDE DEF u
  <2>4. SameOrder(t, v) /\ Asserted(v) /\ (Leads(t) => Leads(v))
    BY <2>1, <2>3, RequireAsserted
  <2>5. check_prepare_phase_invariants(s) = v
    BY DEF check_prepare_phase_invariants, u, t, order, open
  <2> HIDE DEF v
  <2> QED BY <2>1, <2>4, <2>5 DEF SameOrder
<1>3. /\ Asserted(check_commit_phase_invariants(s))
      /\ SameOrder(s, check_commit_phase_invariants(s))
  <2> DEFINE cond == /\ s.B # ZeroBallot /\ s.PP = NoBallot
                     /\ \A b \in {s.P, s.H, s.C} : b # NoBallot /\ b.X = s.B.X
             t == Require(s, s.phase = "Commit", "phase")
  <2>1. /\ SameOrder(s, t) /\ Asserted(t)
        /\ Running(t) => Running(s) /\ s.phase = "Commit"
    BY <1>0, RequireAsserted
  <2>2. Running(t) => cond
    BY <1>0, <1>1, <2>1 DEF Ordered, Locked
  <2> HIDE DEF cond, t
  <2>3. Require(t, cond, "assert") = t
    BY <2>2, RequireHolds
  <2>4. check_commit_phase_invariants(s) = Require(t, cond, "assert")
    BY DEF check_commit_phase_invariants, t, cond
  <2> QED BY <2>1, <2>3, <2>4
<1>4. ASSUME s.phase # "Externalize"
      PROVE  CheckCH(s) = s
  <2>1. Running(s) => ((s.C # NoBallot /\ s.H # NoBallot) => s.C.N <= s.H.N)
    BY <1>0, <1>4 DEF Ordered, OrderedCH
  <2> QED BY <2>1, RequireHolds DEF CheckCH
<1>5. ASSUME s.phase = "Externalize"
      PROVE  check_externalize_phase_invariants(s) = s
  <2> DEFINE cond == /\ s.phase = "Externalize" /\ s.B # ZeroBallot /\ s.PP = NoBallot
                     /\ \A b \in {s.H, s.C} : b # NoBallot /\ b.X = s.B.X
  <2>1. Running(s) => cond
    BY <1>0, <1>1, <1>5 DEF Ordered, Locked
  <2> HIDE DEF cond
  <2>2. Require(s, cond, "assert") = s
    BY <2>1, RequireHolds
  <2> QED BY <2>2 DEF check_externalize_phase_invariants, cond
<1> QED BY <1>2, <1>3, <1>4, <1>5

(* Arming the ballot timer concerns no assertion. *)
LEMMA TimerAsserted ==
  ASSUME NEW n \in Node, NEW s, Asserted(s)
  PROVE  /\ Asserted(maybe_set_ballot_timer(n, s))
         /\ Leads(s) => Leads(maybe_set_ballot_timer(n, s))
         /\ SameOrder(s, maybe_set_ballot_timer(n, s))
<1> DEFINE t == maybe_set_ballot_timer(n, s)
<1>1. t \in {s, [s EXCEPT !.ballot_timer = TRUE]}
  BY DEF maybe_set_ballot_timer
<1>2. t \in Slot /\ SameOrder(s, t) /\ t.fault = s.fault /\ t.overflow = s.overflow
  BY <1>1 DEF Asserted, Slot, SameOrder
<1> QED BY <1>2, SameOrderAsserted


-----------------------------------------------------------------------------
(* Ballots between B and H *)

(* The ends of a range are in order. *)
LEMMA RangeEnds ==
  ASSUME NEW r, r \subseteq Counter
  PROVE  Lowest(r) \in Nat /\ Highest(r) \in Nat /\ Lowest(r) <= Highest(r)
<1>0. r \subseteq Nat /\ (\A c \in r : c <= INFINITY) /\ INFINITY \in Nat
  BY InfinityAssumption DEF Counter
<1>1. CASE r = {}
  BY <1>1 DEF Lowest, Highest
<1>2. CASE r # {}
  <2> DEFINE S == {INFINITY - c : c \in r}
  <2>1. PICK low \in r : \A d \in r : low <= d
    BY <1>0, <1>2, LeastNat
  <2>2. S \subseteq Nat /\ S # {}
    BY <1>0, <1>2
  <2>3. PICK a \in S : \A b \in S : a <= b
    BY <2>2, LeastNat
  <2>4. PICK high \in r : a = INFINITY - high
    BY <2>3
  <2>5. \A d \in r : INFINITY - high <= INFINITY - d
    BY <2>3, <2>4
  <2> HIDE DEF S
  <2>6. \A d \in r : d <= high
    BY <1>0, <2>4, <2>5
  <2>7. Lowest(r) \in r /\ (\A d \in r : Lowest(r) <= d)
    BY <2>1 DEF Lowest
  <2>8. Highest(r) \in r
    BY <2>6 DEF Highest
  <2> QED BY <1>0, <2>7, <2>8
<1> QED BY <1>1, <1>2

(* The fields of ballots are numbers. *)
LEMMA BallotNumbers ==
  /\ \A b \in OptBallot : b.N \in Int /\ b.N >= -1 /\ b.X \in Nat /\ b = Bal(b.N, b.X)
  /\ \A b \in Ballot : b.N \in Counter /\ b.N >= 0 /\ b.N <= INFINITY
  /\ INFINITY \in Nat
<1>1. \A b \in OptBallot : b = Bal(b.N, b.X)
  BY DEF OptBallot, Ballot, NoBallot, Bal
<1>2. \A c \in Counter \cup {-1} : c \in Int /\ c >= -1
  BY CounterTypes
<1>3. \A x \in List \cup {EmptyList} : x \in Nat
  BY ListAssumption DEF EmptyList
<1>4. \A c \in Counter : c >= 0 /\ c <= INFINITY
  BY InfinityAssumption DEF Counter
<1> QED BY <1>1, <1>2, <1>3, <1>4, BallotTypes, InfinityAssumption

(* c has the value of h and is not above it. *)
Under(c, h) == c \in Ballot /\ c.X = h.X /\ c.N <= h.N

(* Raising the counter of c above p does not take it past h, if p does not abort h. *)
LEMMA RaiseStaysUnder ==
  ASSUME NEW h \in Ballot, NEW c, Under(c, h), NEW p \in OptBallot, ~Aborts(p, h)
  PROVE  Under(RaiseAbove(c, p), h) /\ c.N <= RaiseAbove(c, p).N
<1> DEFINE r == RaiseAbove(c, p)
<1>0. /\ c \in Ballot /\ c.X = h.X /\ c.N <= h.N
      /\ c.N \in Nat /\ h.N \in Nat /\ p.N \in Int /\ c.X \in Nat /\ p.X \in Nat
  BY BallotNumbers, BallotTypes DEF Under
<1>1. CASE ~Aborts(p, c)
  BY <1>0, <1>1 DEF RaiseAbove, Under
<1>2. CASE Aborts(p, c)
  <2>1. c.N <= p.N /\ p.X # c.X /\ ~BallotLT(h, p)
    BY <1>0, <1>2 DEF Aborts, BallotLT
  <2>2. p.N <= h.N /\ (c.X < p.X => p.N < h.N)
    BY <1>0, <2>1 DEF BallotLT
  <2>3. p.N \in Counter /\ (p.N < h.N => p.N # INFINITY)
    <3>1. p # NoBallot
      BY <1>0, <2>1 DEF NoBallot
    <3> QED BY <1>0, <3>1, BallotTypes, BallotNumbers
  <2>4. c.X < p.X => Inc(p.N) = p.N + 1
    BY <2>2, <2>3, IncRises
  <2>5. r = Bal(IF c.X > p.X THEN p.N ELSE Inc(p.N), c.X)
    BY <1>2 DEF RaiseAbove
  <2>6. r \in Ballot
    BY <1>0, RaiseTypes
  <2> HIDE DEF r
  <2>7. r.X = c.X /\ r.N = IF c.X > p.X THEN p.N ELSE Inc(p.N)
    BY <2>5 DEF Bal
  <2>8. c.N <= r.N /\ r.N <= h.N
    BY <1>0, <2>1, <2>2, <2>4, <2>7
  <2>9. Under(r, h) /\ c.N <= r.N
    BY <1>0, <2>6, <2>7, <2>8 DEF Under
  <2> QED BY <2>9 DEF r
<1> QED BY <1>1, <1>2

(* The lowest ballot to commit lies between B and H. *)
LEMMA LowestToCommit ==
  ASSUME NEW b \in Ballot, NEW h \in Ballot, BallotLE(b, h),
         NEW p \in OptBallot, ~Aborts(p, h), NEW pp \in OptBallot, ~Aborts(pp, h)
  PROVE  LET c0 == Bal(IF h.X >= b.X THEN b.N ELSE Inc(b.N), h.X)
             c == RaiseAbove(RaiseAbove(c0, p), pp)
         IN  BallotLE(b, c) /\ c.N <= h.N /\ c \in Ballot
<1> DEFINE c0 == Bal(IF h.X >= b.X THEN b.N ELSE Inc(b.N), h.X)
           c1 == RaiseAbove(c0, p)
           c == RaiseAbove(c1, pp)
<1>0. /\ b.N \in Nat /\ h.N \in Nat /\ b.X \in Nat /\ h.X \in Nat
      /\ b = Bal(b.N, b.X) /\ h = Bal(h.N, h.X)
      /\ b.N \in Counter /\ h.X \in List \cup {EmptyList}
  BY BallotNumbers, BallotTypes
<1>1. b.N <= h.N /\ (h.X < b.X => b.N < h.N)
  BY <1>0 DEF BallotLE, BallotLT
<1>2. h.X < b.X => Inc(b.N) = b.N + 1
  <2>1. b.N < h.N => b.N # INFINITY
    BY <1>0, BallotNumbers
  <2> QED BY <1>0, <1>1, <2>1, IncRises
<1>3. c0 \in Ballot
  BY <1>0, CounterTypes, BallotTypes
<1>4. c0.X = h.X /\ c0.N = IF h.X >= b.X THEN b.N ELSE Inc(b.N)
  BY DEF Bal
<1> HIDE DEF c0
<1>5. Under(c0, h) /\ b.N <= c0.N /\ (h.X < b.X => b.N < c0.N)
  BY <1>0, <1>1, <1>2, <1>3, <1>4 DEF Under
<1>6. Under(c1, h) /\ c0.N <= c1.N
  BY <1>5, RaiseStaysUnder
<1> HIDE DEF c1
<1>7. Under(c, h) /\ c1.N <= c.N
  BY <1>6, RaiseStaysUnder
<1> HIDE DEF c
<1>8. /\ c \in Ballot /\ c.N \in Nat /\ c1.N \in Nat /\ c0.N \in Nat /\ c.X = h.X
      /\ c = Bal(c.N, c.X) /\ c.N <= h.N
  BY <1>5, <1>6, <1>7, BallotNumbers, BallotTypes DEF Under
<1>9. b.N <= c.N /\ (h.X < b.X => b.N < c.N)
  BY <1>0, <1>5, <1>6, <1>7, <1>8
<1>10. BallotLE(b, c)
  BY <1>0, <1>8, <1>9 DEF BallotLE, BallotLT
<1> QED BY <1>8, <1>10 DEF c, c1, c0

-----------------------------------------------------------------------------
(* Nomination and the Prepare phase keep the order *)

(* From s to t an open slot changes nothing that the assertions are about. *)
Untouched(s, t) ==
  /\ t \in Slot
  /\ t.phase = s.phase /\ t.nominate_timer = s.nominate_timer /\ t.X = s.X /\ t.Y = s.Y
  /\ t.P = s.P /\ t.PP = s.PP /\ t.H = s.H /\ t.C = s.C
  /\ t.fault \in {s.fault, "overflow"} /\ (Running(t) => Running(s))
  /\ s.overflow \subseteq t.overflow

(* An open slot may move its ballot. *)
LEMMA UntouchedAsserted ==
  ASSUME NEW s, NEW t, Asserted(s), s.phase \in Open, Untouched(s, t)
  PROVE  /\ Asserted(t)
         /\ Leads(s) /\ (InRange(t) /\ Running(t) => s.B.N <= t.B.N) => Leads(t)
<1>1. Running(t) => Ordered(t)
  BY DEF Asserted, Ordered, OrderedCH, Untouched, Open, Locked
<1>2. Asserted(t)
  BY <1>1 DEF Asserted, Untouched
<1>3. ASSUME Leads(s), InRange(t) /\ Running(t) => s.B.N <= t.B.N
      PROVE  Leads(t)
  <2>1. s.B.N \in Nat /\ t.B.N \in Nat /\ (s.H # NoBallot => s.H.N \in Nat)
    BY SlotFields, CounterTypes, BallotTypes DEF Asserted, Untouched
  <2> QED BY <1>3, <2>1 DEF Leads, Untouched, InRange
<1> QED BY <1>2, <1>3

(* do_nominate_phase keeps what is voted for apart from what is accepted. *)
LEMMA NominateAsserted ==
  ASSUME NEW n \in Node, NEW s, Consistent(s), s.phase = "NominatePrepare"
  PROVE  Consistent(do_nominate_phase(n, s))
<1> DEFINE X1 == IF s.Z = {} THEN VotedNominated(n, s) ELSE s.X
           s1 == [s EXCEPT !.nominate_timer = TRUE, !.X = X1]
           accepted == additional_values_accepted_nominated(n, s1)
           t1 == [s1 EXCEPT !.X = @ \ accepted, !.Y = @ \cup accepted]
           confirmed == additional_values_confirmed_nominated(n, t1)
           s3 == [t1 EXCEPT !.Z = @ \cup confirmed]
           first == IF s3.Z # {} /\ s3.B = ZeroBallot THEN combine_fn[s3.Z] ELSE CombineErr
<1>0. s \in Slot /\ (Running(s) => Ordered(s))
  BY DEF Consistent, Asserted
<1>1. X1 \subseteq Value /\ (Running(s) => X1 \cap s.Y = {})
  <2>1. \A k \in s.max_priority_peers : votes_or_accepts_nominated(s.M[k]) \subseteq Value
    BY <1>0, SlotFields, StatementTypes
  <2>2. VotedNominated(n, s) \subseteq Value
    BY <1>0, <2>1, SlotFields DEF VotedNominated
  <2>3. Running(s) => s.X \cap s.Y = {}
    BY <1>0 DEF Ordered
  <2>4. Running(s) => VotedNominated(n, s) \cap s.Y = {}
    BY <2>3 DEF VotedNominated
  <2> QED BY <1>0, <2>2, <2>3, <2>4, SlotFields
<1> HIDE DEF X1
<1>2. /\ s1 \in Slot /\ s1.X = X1 /\ s1.Y = s.Y /\ s1.Z = s.Z
      /\ (Running(s1) <=> Running(s)) /\ Consistent(s1) /\ s1.phase = "NominatePrepare"
  <2>1. s1 \in Slot
    BY <1>0, <1>1 DEF Slot
  <2>2. /\ s1.X = X1 /\ s1.Y = s.Y /\ s1.Z = s.Z /\ s1.fault = s.fault /\ s1.overflow = s.overflow
        /\ s1.phase = s.phase /\ s1.B = s.B /\ s1.P = s.P /\ s1.PP = s.PP
        /\ s1.H = s.H /\ s1.C = s.C
    BY <1>0 DEF Slot
  <2> HIDE DEF s1
  <2>3. Running(s1) => Ordered(s1)
    BY <1>0, <1>1, <2>2 DEF Ordered, OrderedCH, Running, Locked
  <2>4. Asserted(s1) /\ Leads(s1)
    BY <2>1, <2>2, <2>3 DEF Consistent, Asserted, Leads, Running, InRange
  <2> QED BY <2>1, <2>2, <2>4 DEF Consistent, Running
<1> HIDE DEF s1
<1>3. Require(s, s.phase = "NominatePrepare", "assert") = s
  BY DEF Require
<1>4. Require(s1, s1.Z = {} => s1.X \cap s1.Y = {}, "assert") = s1
  BY <1>1, <1>2, RequireHolds
<1>5. accepted \subseteq Value
  BY <1>2, NominatedTypes
<1> HIDE DEF accepted
<1>6. /\ Consistent(t1) /\ t1 \in Slot /\ t1.phase = "NominatePrepare"
      /\ Running(t1) => t1.X \cap t1.Y = {}
  <2>1. t1 \in Slot
    BY <1>2, <1>5 DEF Slot
  <2>2. /\ t1.X = s1.X \ accepted /\ t1.Y = s1.Y \cup accepted /\ t1.fault = s1.fault /\ t1.overflow = s1.overflow
        /\ t1.phase = s1.phase /\ t1.B = s1.B /\ t1.P = s1.P /\ t1.PP = s1.PP
        /\ t1.H = s1.H /\ t1.C = s1.C /\ t1.nominate_timer = s1.nominate_timer
    BY <1>2 DEF Slot
  <2> HIDE DEF t1
  <2>3. Running(s1) => s1.X \cap s1.Y = {}
    BY <1>1, <1>2
  <2>4. Running(t1) => t1.X \cap t1.Y = {}
    BY <2>2, <2>3 DEF Running
  <2>5. Running(t1) => Ordered(t1)
    BY <1>2, <2>2, <2>4 DEF Consistent, Asserted, Ordered, OrderedCH, Running, Locked
  <2>6. Asserted(t1) /\ Leads(t1)
    BY <1>2, <2>1, <2>2, <2>5 DEF Consistent, Asserted, Leads, Running, InRange
  <2> QED BY <1>2, <2>1, <2>2, <2>4, <2>6 DEF Consistent
<1> HIDE DEF t1
<1>7. Require(t1, t1.X \cap t1.Y = {}, "assert") = t1
  BY <1>6 DEF Require
<1>8. confirmed \subseteq Value
  BY <1>6, NominatedTypes
<1> HIDE DEF confirmed
<1>9. SameOrder(t1, s3) /\ s3 \in Slot /\ s3.fault = t1.fault /\ s3.overflow = t1.overflow /\ s3.phase = "NominatePrepare"
  BY <1>6, <1>8 DEF SameOrder, Slot
<1> HIDE DEF s3
<1>10. Consistent(s3)
  BY <1>6, <1>9, SameOrderAsserted DEF Consistent
<1>11. do_nominate_phase(n, s) =
         IF first = CombineErr THEN s3 ELSE [s3 EXCEPT !.B = Bal(1, first)]
  <2> DEFINE s0 == Require(s, s.phase = "NominatePrepare", "assert")
             r1 == [s0 EXCEPT !.nominate_timer = TRUE,
                              !.X = IF s.Z = {} THEN VotedNominated(n, s) ELSE @]
             r2 == Require(r1, r1.Z = {} => r1.X \cap r1.Y = {}, "assert")
  <2>1. r1 = s1
    BY <1>3 DEF s1, X1
  <2> HIDE DEF r1
  <2>2. r2 = s1
    BY <1>4, <2>1
  <2> HIDE DEF r2
  <2>3. update_YZ(n, s1) = s3
    BY <1>7 DEF update_YZ, s3, t1, accepted, confirmed
  <2>4. do_nominate_phase(n, s) =
          LET f(t) == IF t.Z # {} /\ t.B = ZeroBallot THEN combine_fn[t.Z] ELSE CombineErr
              ballot(t) == IF f(t) = CombineErr THEN t ELSE [t EXCEPT !.B = Bal(1, f(t))]
          IN  ballot(update_YZ(n, r2))
    BY ZenonT(40) DEF do_nominate_phase, r2, r1
  <2> QED BY <2>2, <2>3, <2>4
<1>12. first # CombineErr => Bal(1, first) \in Ballot /\ s3.B = ZeroBallot
  <2>1. s3.Z # {} => s3.Z \in (SUBSET Value) \ {{}}
    BY <1>9, SlotFields
  <2>2. first \in List \cup {CombineErr}
    BY <2>1, CombineFnAssumption
  <2>3. first # CombineErr => s3.B = ZeroBallot
    OBVIOUS
  <2> HIDE DEF first
  <2> QED BY <2>2, <2>3, BallotTypes, InfinityAssumption DEF Counter
<1> HIDE DEF first
<1>13. CASE first = CombineErr
  BY <1>10, <1>11, <1>13
<1>14. CASE first # CombineErr
  <2> DEFINE b == Bal(1, first)
             t == [s3 EXCEPT !.B = b]
  <2>1. b \in Ballot /\ b.N = 1 /\ s3.B.N = 0
    BY <1>12, <1>14 DEF Bal, ZeroBallot
  <2> HIDE DEF b
  <2>2. Untouched(s3, t) /\ t.B = b
    BY <1>9, <2>1 DEF Untouched, Slot, Running
  <2>3. do_nominate_phase(n, s) = t
    BY <1>11, <1>14 DEF b
  <2> HIDE DEF t
  <2>4. s3.B.N <= t.B.N /\ s3.phase \in Open
    BY <1>9, <2>1, <2>2 DEF Open
  <2> QED BY <1>10, <2>2, <2>3, <2>4, UntouchedAsserted DEF Consistent
<1> QED BY <1>13, <1>14

(* (1) *)
LEMMA UpdatePAsserted ==
  ASSUME NEW accepted, accepted \subseteq Ballot, NEW s, Asserted(s), s.phase \in Open
  PROVE  Asserted(UpdateP(accepted, s)) /\ UpdateP(accepted, s).phase \in Open
<1> DEFINE p == MaxBallot(accepted)
           pp == MaxBallot({b \in accepted : Aborts(p, b)})
           s1 == IF accepted = {} THEN s ELSE [s EXCEPT !.P = p, !.PP = pp]
           cond == (s1.P # NoBallot /\ s1.PP # NoBallot) => Aborts(s1.P, s1.PP)
<1>0. s \in Slot /\ (Running(s) => Ordered(s))
  BY DEF Asserted
<1>1. p \in OptBallot
  BY MaxMinTypes
<1> HIDE DEF p
<1>2. pp \in OptBallot /\ (pp # NoBallot => Aborts(p, pp))
  BY MaxMinTypes
<1> HIDE DEF pp
<1>3. /\ s1 \in Slot /\ s1.phase = s.phase /\ s1.nominate_timer = s.nominate_timer
      /\ s1.X = s.X /\ s1.Y = s.Y /\ s1.B = s.B /\ s1.H = s.H /\ s1.C = s.C
      /\ s1.fault = s.fault /\ s1.overflow = s.overflow
      /\ (s1.P = s.P /\ s1.PP = s.PP) \/ (s1.P = p /\ s1.PP = pp)
  BY <1>0, <1>1, <1>2 DEF Slot
<1> HIDE DEF s1
<1>4. Running(s1) => cond
  BY <1>0, <1>2, <1>3 DEF Ordered, Running
<1>5. Running(s1) => Ordered(s1)
  BY <1>0, <1>3, <1>4 DEF Ordered, OrderedCH, Running, Open, Locked
<1> HIDE DEF cond
<1>6. Require(s1, cond, "assert") = s1
  BY <1>4, RequireHolds
<1>7. Asserted(s1)
  BY <1>3, <1>5 DEF Asserted
<1>8. UpdateP(accepted, s) \in {s1, [s1 EXCEPT !.C = NoBallot]}
  <2>1. UpdateP(accepted, s) \in
          {Require(s1, cond, "assert"), [Require(s1, cond, "assert") EXCEPT !.C = NoBallot]}
    BY DEF UpdateP, s1, p, pp, cond
  <2> QED BY <1>6, <2>1
<1>9. LET t == [s1 EXCEPT !.C = NoBallot] IN Asserted(t) /\ t.phase \in Open
  <2> DEFINE t == [s1 EXCEPT !.C = NoBallot]
  <2>1. /\ t \in Slot /\ t.phase = s1.phase /\ t.nominate_timer = s1.nominate_timer
        /\ t.X = s1.X /\ t.Y = s1.Y /\ t.B = s1.B /\ t.P = s1.P /\ t.PP = s1.PP
        /\ t.H = s1.H /\ t.C = NoBallot /\ t.fault = s1.fault /\ t.overflow = s1.overflow
    BY <1>3, BallotTypes DEF Slot
  <2> HIDE DEF t
  <2>2. Running(t) => Ordered(t)
    BY <1>3, <1>5, <2>1 DEF Ordered, OrderedCH, Running, Open, Locked
  <2>3. Asserted(t)
    BY <1>7, <2>1, <2>2 DEF Asserted
  <2> QED BY <1>3, <2>1, <2>3 DEF t
<1> QED BY <1>3, <1>7, <1>8, <1>9

(* (2) *)
LEMMA UpdateHAsserted ==
  ASSUME NEW n \in Node, NEW s, Asserted(s), s.phase \in Open
  PROVE  Asserted(UpdateH(n, s)) /\ UpdateH(n, s).phase \in Open
<1> DEFINE h == MaxBallot(ballots_confirmed_prepared(n, s))
           higher == IF BallotLT(h, s.H) THEN s.H ELSE h
           timer == IF s.phase = "NominatePrepare" THEN FALSE ELSE s.nominate_timer
           t == [s EXCEPT !.phase = "Prepare", !.nominate_timer = timer, !.H = higher]
<1>0. /\ s \in Slot /\ (Running(s) => Ordered(s))
      /\ s.C \in OptBallot /\ s.H \in OptBallot /\ s.nominate_timer \in BOOLEAN
  BY SlotFields DEF Asserted
<1>1. h \in OptBallot
  BY <1>0, PreparedTypes, MaxMinTypes
<1>2. UpdateH(n, s) = s \/ (h # NoBallot /\ UpdateH(n, s) = t)
  BY DEF UpdateH
<1> HIDE DEF h
<1>3. /\ higher \in OptBallot /\ s.H.N <= higher.N /\ timer \in BOOLEAN
      /\ h # NoBallot => higher # NoBallot
  <2>1. ~BallotLT(h, s.H) => s.H.N <= h.N
    BY <1>0, <1>1, BallotNumbers DEF BallotLT
  <2>2. h # NoBallot /\ BallotLT(h, s.H) => s.H # NoBallot
    <3>1. h # NoBallot => h.N >= 0
      BY <1>1, BallotTypes, BallotNumbers
    <3> QED BY <1>1, <3>1, BallotNumbers DEF BallotLT, NoBallot
  <2>3. timer \in BOOLEAN
    BY <1>0
  <2>4. s.H.N \in Int
    BY <1>0, BallotNumbers
  <2>5. s.H.N <= s.H.N
    BY <2>4
  <2> HIDE DEF timer
  <2> QED BY <1>0, <1>1, <2>1, <2>2, <2>3, <2>5
<1>4. timer => s.phase # "NominatePrepare" /\ s.nominate_timer
  OBVIOUS
<1> HIDE DEF higher, timer
<1>5. /\ t \in Slot /\ t.phase = "Prepare" /\ t.B = s.B /\ t.P = s.P /\ t.PP = s.PP
      /\ t.X = s.X /\ t.Y = s.Y /\ t.C = s.C /\ t.H = higher /\ t.fault = s.fault /\ t.overflow = s.overflow
      /\ t.nominate_timer = timer
  BY <1>0, <1>3 DEF Slot, Phase
<1> HIDE DEF t
<1>6. ASSUME h # NoBallot, Running(t) PROVE Ordered(t)
  <2>1. Ordered(s)
    BY <1>0, <1>5, <1>6 DEF Running
  <2>2. OrderedCH(s)
    BY <2>1 DEF Ordered, Open
  <2>3. OrderedCH(t)
    BY <1>0, <1>3, <1>5, <1>6, <2>2, BallotNumbers DEF OrderedCH
  <2>4. ~timer
    BY <1>4, <2>1 DEF Ordered
  <2> QED BY <1>5, <2>1, <2>3, <2>4 DEF Ordered, Locked
<1>7. h # NoBallot => Asserted(t)
  BY <1>5, <1>6 DEF Asserted
<1> QED BY <1>2, <1>5, <1>7 DEF Open

(* (3) *)
LEMMA UpdateCAsserted ==
  ASSUME NEW s, Asserted(s), s.phase \in Open
  PROVE  Asserted(UpdateC(s)) /\ UpdateC(s).phase \in Open
<1> DEFINE c0 == Bal(IF s.H.X >= s.B.X THEN s.B.N ELSE Inc(s.B.N), s.H.X)
           c == RaiseAbove(RaiseAbove(c0, s.P), s.PP)
           votes == /\ s.C = NoBallot /\ s.H # NoBallot /\ BallotLE(s.B, s.H)
                    /\ ~Aborts(s.P, s.H) /\ ~Aborts(s.PP, s.H)
           t == [s EXCEPT !.C = c]
<1>0. s \in Slot /\ (Running(s) => Ordered(s))
  BY DEF Asserted
<1>1. CASE ~votes
  <2>1. UpdateC(s) = s
    BY <1>1 DEF UpdateC
  <2> QED BY <2>1
<1>2. CASE votes
  <2>1. s.H \in Ballot /\ s.B \in Ballot /\ s.P \in OptBallot /\ s.PP \in OptBallot
    BY <1>0, <1>2, SlotFields, BallotTypes
  <2>2. BallotLE(s.B, c) /\ c.N <= s.H.N /\ c \in Ballot
    BY <1>2, <2>1, LowestToCommit
  <2>3. UpdateC(s) = [Require(s, BallotLE(s.B, c) /\ c.N <= s.H.N, "assert") EXCEPT !.C = c]
    BY <1>2 DEF UpdateC
  <2> HIDE DEF c
  <2>4. UpdateC(s) = t
    BY <2>2, <2>3 DEF Require
  <2>5. /\ t \in Slot /\ t.phase = s.phase /\ t.nominate_timer = s.nominate_timer
        /\ t.X = s.X /\ t.Y = s.Y /\ t.B = s.B /\ t.P = s.P /\ t.PP = s.PP
        /\ t.H = s.H /\ t.C = c /\ t.fault = s.fault /\ t.overflow = s.overflow
    BY <1>0, <2>2, BallotTypes DEF Slot
  <2> HIDE DEF t
  <2>6. OrderedCH(t)
    BY <1>2, <2>2, <2>5 DEF OrderedCH
  <2>7. Running(t) => Ordered(t)
    BY <1>0, <2>5, <2>6 DEF Ordered, Running, Open, Locked
  <2> QED BY <2>4, <2>5, <2>7 DEF Asserted
<1> QED BY <1>1, <1>2

(* (1) to (3) *)
LEMMA UpdatePHCAsserted ==
  ASSUME NEW n \in Node, NEW accepted, accepted \subseteq Ballot,
         NEW s, Asserted(s), s.phase \in Open
  PROVE  Asserted(UpdatePHC(n, accepted, s)) /\ UpdatePHC(n, accepted, s).phase \in Open
<1> DEFINE s1 == UpdateP(accepted, s)
           s2 == UpdateH(n, s1)
           s4 == UpdateC(s2)
<1>1. Asserted(s1) /\ s1.phase \in Open
  BY UpdatePAsserted
<1> HIDE DEF s1
<1>2. Asserted(s2) /\ s2.phase \in Open
  BY <1>1, UpdateHAsserted
<1> HIDE DEF s2
<1>3. CheckCH(s2) = s2
  BY <1>2, ChecksHold DEF Open
<1>4. Asserted(s4) /\ s4.phase \in Open
  BY <1>2, UpdateCAsserted
<1> HIDE DEF s4
<1>5. CheckCH(s4) = s4
  BY <1>4, ChecksHold DEF Open
<1>6. UpdatePHC(n, accepted, s) = s4
  BY <1>3, <1>5 DEF UpdatePHC, s4, s2, s1
<1> QED BY <1>4, <1>6

(* Arithmetic keeps the order, and in range it was in range. *)
LEMMA CheckedOrder ==
  ASSUME NEW s \in Slot, NEW cond, NEW side \in Side
  PROVE  LET t == Checked(s, cond, side)
         IN /\ t \in Slot /\ SameOrder(s, t) /\ t.fault \in {s.fault, "overflow"}
            /\ Running(t) => Running(s)
            /\ ~cond => side \in t.overflow
<1> DEFINE u == IF cond THEN s ELSE [s EXCEPT !.overflow = @ \cup {side}]
           t == Checked(s, cond, side)
<1>1. u \in Slot /\ SameOrder(s, u) /\ u.fault = s.fault /\ (~cond => side \in u.overflow)
  BY DEF SameOrder, Slot
<1>2. t \in {u, [u EXCEPT !.fault = "overflow"]}
  BY DEF Checked, Require
<1> HIDE DEF u, t
<1>3. /\ t \in Slot /\ SameOrder(u, t) /\ t.fault \in {u.fault, "overflow"}
      /\ t.overflow = u.overflow
  BY <1>1, <1>2 DEF SameOrder, Slot, Fault
<1>4. /\ SameOrder(s, t) /\ t.fault \in {s.fault, "overflow"} /\ (Running(t) => Running(s))
      /\ ~cond => side \in t.overflow
  BY <1>1, <1>3 DEF SameOrder, Running
<1> QED BY <1>3, <1>4 DEF t

(* The ballot moves up to H. *)
LEMMA MoveBAsserted ==
  ASSUME NEW s, Asserted(s), s.phase \in Open, s.H \in Ballot
  PROVE  /\ Asserted(MoveB(s)) /\ Leads(MoveB(s)) /\ Untouched(s, MoveB(s))
         /\ MoveB(s).B.X = s.H.X
<1> DEFINE moves == s.B.X # s.H.X
           t == IF moves THEN CheckedInc(s, s.B.N) ELSE s
           b == IF moves THEN Bal(MaxOf(Inc(s.B.N), s.H.N), s.H.X)
                ELSE Bal(MaxOf(s.B.N, s.H.N), s.H.X)
           u == [t EXCEPT !.B = b]
<1>0. s \in Slot /\ s.B.N \in Nat /\ s.H.N \in Nat /\ Inc(s.B.N) \in Nat
  BY SlotFields, BallotTypes, CounterTypes DEF Asserted
<1>1. /\ t \in Slot /\ SameOrder(s, t) /\ t.fault \in {s.fault, "overflow"}
      /\ Running(t) => Running(s)
  <2>1. s \in Slot /\ SameOrder(s, s)
    BY <1>0 DEF SameOrder
  <2> QED BY <2>1, CheckedOrder DEF CheckedInc, Side
<1>2. b \in Ballot
  BY <1>0, SlotFields, BallotTypes, CounterTypes
<1>3. b.X = s.H.X /\ s.H.N <= b.N
  BY <1>0 DEF MaxOf, Bal
<1>4. MoveB(s) = u
  BY DEF MoveB
<1> HIDE DEF t, b, moves
<1>5. Untouched(s, u) /\ u.B = b
  BY <1>1, <1>2 DEF Untouched, SameOrder, Slot, Running
<1> HIDE DEF u
<1>6. Asserted(u)
  BY <1>5, UntouchedAsserted
<1>7. Leads(u)
  BY <1>3, <1>5 DEF Leads, Untouched
<1> QED BY <1>3, <1>4, <1>5, <1>6, <1>7

(* (4) enters the Commit phase with P, C and H on the value of B. *)
LEMMA EnterCommitAsserted ==
  ASSUME NEW n, NEW s, NEW V, NEW L, Undecided(n, s, V, L), Asserted(s), s.phase \in Open,
         NEW f \in ballots_accepted_committed(n, s), DOMAIN f # {}
  PROVE  Consistent(EnterCommit(n, s, f))
<1> DEFINE S == {Bal(Lowest(f[x]), x) : x \in DOMAIN f}
           c == MinBallot(S)
           h == Bal(Highest(RangeOf(f, c.X)), c.X)
           s0 == [s EXCEPT !.C = c, !.H = h]
           s1 == [MoveB(s0) EXCEPT !.phase = "Commit", !.nominate_timer = FALSE]
           p == MaxBallot({b \in ballots_accepted_prepared(n, s1) : b.X = s1.B.X})
           r == Require(s1, c.N <= h.N, "assert")
           s2 == Require(r, p # NoBallot, "search")
           t == EnterCommit(n, s, f)
<1>0. n \in Node /\ s \in Slot /\ Closed(V, L) /\ DOMAIN f \subseteq L /\ L \subseteq List
  BY CommittedIn DEF Undecided, Closed
<1>1. /\ \A x \in DOMAIN f : f[x] \subseteq Counter
      /\ \A x : RangeOf(f, x) \subseteq Counter
  BY <1>0, AcceptedCommittedTypes
<1>2. S \subseteq Ballot /\ S # {}
  <2>1. \A x \in DOMAIN f : Lowest(f[x]) \in Counter /\ x \in List
    BY <1>0, <1>1, RangeTypes
  <2>2. \A x \in DOMAIN f : Bal(Lowest(f[x]), x) \in Ballot
    BY <2>1, BallotTypes
  <2> QED BY <1>0, <2>2
<1>3. PICK x \in DOMAIN f : c = Bal(Lowest(f[x]), x)
  <2>1. c \in S
    BY <1>2, MinExists
  <2> QED BY <2>1
<1>4. c \in Ballot /\ c \in OptBallot /\ c.X = x /\ c.N = Lowest(f[x]) /\ x \in List
  <2>1. c \in S
    BY <1>2, MinExists
  <2> HIDE DEF c
  <2> QED BY <1>0, <1>2, <1>3, <2>1, BallotTypes DEF Bal
<1> HIDE DEF S, c
<1>5. h \in Ballot /\ h \in OptBallot /\ h.X = x /\ c.N <= h.N
  <2>1. RangeOf(f, c.X) = f[x] /\ f[x] \subseteq Counter
    BY <1>1, <1>4 DEF RangeOf
  <2>2. Highest(f[x]) \in Counter /\ Lowest(f[x]) <= Highest(f[x])
    BY <2>1, RangeTypes, RangeEnds
  <2>3. h = Bal(Highest(f[x]), x)
    BY <1>4, <2>1
  <2> HIDE DEF h
  <2> QED BY <1>4, <2>2, <2>3, BallotTypes DEF Bal
<1> HIDE DEF h
<1>6. c # NoBallot /\ h # NoBallot
  BY <1>0, <1>4, <1>5, NotZero
<1>7. /\ s0 \in Slot /\ s0.phase = s.phase /\ s0.H = h /\ s0.C = c /\ s0.fault = s.fault /\ s0.overflow = s.overflow
      /\ s0.nominate_timer = s.nominate_timer /\ s0.X = s.X /\ s0.Y = s.Y
      /\ s0.P = s.P /\ s0.PP = s.PP /\ s0.B = s.B
  BY <1>0, <1>4, <1>5 DEF Slot
<1> HIDE DEF s0
<1>8. Asserted(s0)
  <2>1. OrderedCH(s0)
    BY <1>5, <1>6, <1>7 DEF OrderedCH
  <2>2. Running(s0) => Ordered(s0)
    BY <1>7, <2>1 DEF Asserted, Ordered, Running, Open, Locked
  <2> QED BY <1>7, <2>2 DEF Asserted
<1> DEFINE m == MoveB(s0)
<1>9. Asserted(m) /\ Untouched(s0, m) /\ m.B.X = x
  BY <1>5, <1>7, <1>8, MoveBAsserted
<1> HIDE DEF m
<1>10. /\ s1 \in Slot /\ s1.phase = "Commit" /\ s1.nominate_timer = FALSE
       /\ s1.X = m.X /\ s1.Y = m.Y /\ s1.B = m.B /\ s1.H = m.H /\ s1.C = m.C
       /\ s1.fault = m.fault /\ s1.overflow = m.overflow
  BY <1>9 DEF Asserted, Slot, Phase, m
<1> HIDE DEF s1
<1>11. r = s1
  BY <1>5, RequireHolds
<1>12. p \in OptBallot /\ (p # NoBallot => p.X = s1.B.X)
  <2>1. {b \in ballots_accepted_prepared(n, s1) : b.X = s1.B.X} \subseteq Ballot
    BY <1>0, <1>10, PreparedTypes
  <2> QED BY <2>1, MaxMinTypes
<1>13. t = [s2 EXCEPT !.P = p, !.PP = NoBallot]
  BY DEF EnterCommit, s2, r, s1, m, s0, p, h, c, S
<1> HIDE DEF p, r
<1>14. /\ s2 \in Slot /\ SameOrder(s1, s2) /\ (Running(s2) => Running(s1) /\ p # NoBallot)
       /\ s2.fault \in {s1.fault, "search"}
  BY <1>10, <1>11 DEF Require, SameOrder, Running, Slot, Fault
<1> HIDE DEF s2
<1>15. /\ t \in Slot /\ t.phase = "Commit" /\ t.nominate_timer = FALSE
       /\ t.X = m.X /\ t.Y = m.Y /\ t.B = m.B /\ t.H = h /\ t.C = c
       /\ t.P = p /\ t.PP = NoBallot /\ t.fault = s2.fault /\ t.overflow = s2.overflow
  <2>1. /\ t \in Slot /\ t.phase = s2.phase /\ t.nominate_timer = s2.nominate_timer
        /\ t.X = s2.X /\ t.Y = s2.Y /\ t.B = s2.B /\ t.H = s2.H /\ t.C = s2.C
        /\ t.P = p /\ t.PP = NoBallot /\ t.fault = s2.fault /\ t.overflow = s2.overflow
    BY <1>12, <1>13, <1>14, BallotTypes DEF Slot
  <2> QED BY <1>7, <1>9, <1>10, <1>14, <2>1 DEF SameOrder, Untouched
<1> HIDE DEF t
<1>16. Running(t) => Ordered(t)
  <2> SUFFICES ASSUME Running(t) PROVE Ordered(t)
    OBVIOUS
  <2>1. Running(m) /\ p # NoBallot
    BY <1>10, <1>14, <1>15 DEF Running
  <2>2. m.X \cap m.Y = {}
    BY <1>9, <2>1 DEF Asserted, Ordered
  <2>3. OrderedCH(t)
    BY <1>5, <1>6, <1>15 DEF OrderedCH
  <2> QED BY <1>4, <1>5, <1>6, <1>9, <1>10, <1>12, <1>15, <2>1, <2>2, <2>3
          DEF Ordered, Locked
<1>17. Asserted(t)
  BY <1>9, <1>10, <1>14, <1>15, <1>16 DEF Asserted, SameOrder
<1>18. Leads(t)
  BY <1>15 DEF Leads, Open
<1> QED BY <1>17, <1>18 DEF Consistent, t

(* (8) and (9) leave B not below H. *)
LEMMA FinishPrepareAsserted ==
  ASSUME NEW n \in Node, NEW s, Asserted(s), s.phase \in Open
  PROVE  /\ Consistent(FinishPrepare(n, s).slot)
         /\ FinishPrepare(n, s).slot.phase \in Open
<1> DEFINE s8 == IF s.H = NoBallot THEN s ELSE MoveB(s)
           counter == get_unblocking_ballot_counter(n, s8)
           x == get_next_ballot_values(n, s8)
           t == [s8 EXCEPT !.ballot_timer = FALSE, !.B = Bal(counter, x)]
<1>1. Asserted(s8) /\ Leads(s8) /\ s8.phase \in Open
  <2>1. CASE s.H = NoBallot
    BY <2>1 DEF Leads
  <2>2. CASE s.H # NoBallot
    <3>1. s.H \in Ballot
      BY <2>2, SlotFields, BallotTypes DEF Asserted
    <3> QED BY <2>2, <3>1, MoveBAsserted DEF Untouched
  <2> QED BY <2>1, <2>2
<1> HIDE DEF s8
<1>2. counter \in Counter /\ x \in List \cup {EmptyList, NoList} /\ s8 \in Slot
  BY <1>1, NextBallotTypes DEF Asserted
<1> HIDE DEF counter, x
<1>3. CASE s8.B.N < counter /\ x # NoList
  <2> DEFINE b == Bal(counter, x)
  <2>1. b \in Ballot /\ b.N = counter
    BY <1>2, <1>3, BallotTypes DEF Bal
  <2>2. FinishPrepare(n, s).slot = maybe_set_ballot_timer(n, t)
    BY <1>3 DEF FinishPrepare, Unblock, t, x, counter, s8
  <2> HIDE DEF b
  <2>3. Untouched(s8, t) /\ t.B = b
    BY <1>2, <2>1 DEF Untouched, Slot, Running, b
  <2> HIDE DEF t
  <2>4. s8.B.N \in Nat /\ counter \in Nat
    BY <1>2, SlotFields, CounterTypes
  <2>5. s8.B.N <= t.B.N
    BY <1>3, <2>1, <2>3, <2>4
  <2>6. Asserted(t) /\ Leads(t) /\ t.phase \in Open
    BY <1>1, <2>3, <2>5, UntouchedAsserted DEF Untouched
  <2> QED BY <2>2, <2>6, TimerAsserted DEF Consistent, SameOrder
<1>4. CASE ~(s8.B.N < counter /\ x # NoList)
  <2>1. FinishPrepare(n, s).slot = check_prepare_phase_invariants(s8)
    BY <1>4 DEF FinishPrepare, x, counter, s8
  <2> QED BY <1>1, <2>1, ChecksHold DEF Consistent, SameOrder
<1> QED BY <1>3, <1>4

(* One run through do_prepare_phase. *)
LEMMA PreparePassAsserted ==
  ASSUME NEW n, NEW s, NEW V, NEW L, Undecided(n, s, V, L), Consistent(s), s.phase \in Open,
         NEW r \in PreparePass(n, s)
  PROVE  Consistent(r.slot)
<1> DEFINE s0 == check_prepare_phase_invariants(s)
           accepted == ballots_accepted_prepared(n, s0)
           s3 == UpdatePHC(n, accepted, s0)
<1>1. n \in Node /\ Undecided(n, s0, V, L) /\ s0 \in Slot
  BY ChecksWithin DEF Undecided
<1>2. Consistent(s0) /\ Asserted(s0) /\ s0.phase \in Open
  BY ChecksHold DEF Consistent, SameOrder
<1>3. \/ r = [slot |-> s0, again |-> FALSE]
      \/ r = FinishPrepare(n, s3)
      \/ \E f \in ballots_accepted_committed(n, s3) :
           DOMAIN f # {} /\ r = [slot |-> EnterCommit(n, s3, f), again |-> FALSE]
  BY DEF PreparePass, UpdateBallots, ConcludePrepare
<1> HIDE DEF s0
<1>4. accepted \subseteq Ballot
  BY <1>1, PreparedTypes
<1>5. Undecided(n, s3, V, L)
  BY <1>1, UpdatePHCWithin
<1> HIDE DEF accepted
<1>6. Asserted(s3) /\ s3.phase \in Open
  BY <1>1, <1>2, <1>4, UpdatePHCAsserted
<1> HIDE DEF s3
<1>7. CASE r = [slot |-> s0, again |-> FALSE]
  BY <1>2, <1>7
<1>8. CASE r = FinishPrepare(n, s3)
  BY <1>1, <1>6, <1>8, FinishPrepareAsserted
<1>9. ASSUME NEW f \in ballots_accepted_committed(n, s3), DOMAIN f # {},
             r = [slot |-> EnterCommit(n, s3, f), again |-> FALSE]
      PROVE  Consistent(r.slot)
  <2>1. Consistent(EnterCommit(n, s3, f))
    BY <1>5, <1>6, <1>9, EnterCommitAsserted
  <2> QED BY <1>9, <2>1
<1> QED BY <1>3, <1>7, <1>8, <1>9

(* do_prepare_phase. *)
LEMMA PrepareAsserted ==
  ASSUME NEW n, NEW s, NEW V, NEW L, Undecided(n, s, V, L), Consistent(s), s.phase \in Open,
         NEW t \in do_prepare_phase(n, s)
  PROVE  Consistent(t)
<1>0. n \in Node /\ s \in Slot
  BY DEF Undecided
<1>1. PICK r \in PreparePass(n, s) :
        \/ ~r.again /\ t = r.slot
        \/ /\ r.again
           /\ \E u \in PreparePass(n, r.slot) :
                t = check_prepare_phase_invariants(Require(u.slot, ~u.again, "depth"))
  BY DEF do_prepare_phase
<1>2. Consistent(r.slot) /\ Undecided(n, r.slot, V, L) /\ (r.again => r.slot.phase \in Open)
  BY <1>0, PreparePassAsserted, PreparePassWithin, PreparePassTypes
<1>3. ASSUME r.again, NEW u \in PreparePass(n, r.slot),
             t = check_prepare_phase_invariants(Require(u.slot, ~u.again, "depth"))
      PROVE  Consistent(t)
  <2> DEFINE cond == ~u.again
             v == Require(u.slot, cond, "depth")
  <2>1. Consistent(u.slot) /\ u.slot \in Slot
    BY <1>2, <1>3, PreparePassAsserted DEF Consistent, Asserted
  <2>2. t = check_prepare_phase_invariants(v)
    BY <1>3
  <2> HIDE DEF cond
  <2>3. Consistent(v)
    BY <2>1, RequireAsserted DEF Consistent
  <2> HIDE DEF v
  <2> QED BY <2>2, <2>3, ChecksHold DEF Consistent
<1> QED BY <1>1, <1>2, <1>3

-----------------------------------------------------------------------------
(* The Commit and Externalize phases keep the order *)

(* (5) *)
LEMMA UpdateCommitPAsserted ==
  ASSUME NEW n \in Node, NEW s, Asserted(s), s.phase = "Commit"
  PROVE  Asserted(UpdateCommitP(n, s)) /\ UpdateCommitP(n, s).phase = "Commit"
<1> DEFINE p == MaxBallot({b \in ballots_accepted_prepared(n, s) : b.X = s.B.X})
           t == [s EXCEPT !.P = p]
<1>0. s \in Slot /\ (Running(s) => Ordered(s)) /\ s.P \in OptBallot
  BY SlotFields DEF Asserted
<1>1. p \in OptBallot /\ (p # NoBallot => p.X = s.B.X)
  <2>1. {b \in ballots_accepted_prepared(n, s) : b.X = s.B.X} \subseteq Ballot
    BY <1>0, PreparedTypes
  <2> QED BY <2>1, MaxMinTypes
<1>2. UpdateCommitP(n, s) = IF BallotLT(p, s.P) THEN s ELSE t
  BY DEF UpdateCommitP
<1> HIDE DEF p
<1>3. s.P # NoBallot /\ ~BallotLT(p, s.P) => p # NoBallot
  <2>1. s.P # NoBallot => s.P.N >= 0 /\ s.P.N \in Int
    BY <1>0, BallotTypes, BallotNumbers
  <2> QED BY <2>1 DEF BallotLT, NoBallot
<1>4. /\ t \in Slot /\ t.phase = s.phase /\ t.nominate_timer = s.nominate_timer
      /\ t.X = s.X /\ t.Y = s.Y /\ t.B = s.B /\ t.P = p /\ t.PP = s.PP
      /\ t.H = s.H /\ t.C = s.C /\ t.fault = s.fault /\ t.overflow = s.overflow
  BY <1>0, <1>1 DEF Slot
<1> HIDE DEF t
<1>5. ASSUME ~BallotLT(p, s.P), Running(t) PROVE Ordered(t)
  <2>1. Ordered(s)
    BY <1>0, <1>4, <1>5 DEF Running
  <2>2. s.P # NoBallot /\ s.PP = NoBallot
    BY <2>1 DEF Ordered, Locked
  <2>3. p # NoBallot /\ p.X = s.B.X
    BY <1>1, <1>3, <1>5, <2>2
  <2> QED BY <1>4, <2>1, <2>2, <2>3 DEF Ordered, OrderedCH
<1>6. ~BallotLT(p, s.P) => Asserted(t)
  BY <1>4, <1>5 DEF Asserted
<1> QED BY <1>2, <1>4, <1>6

(* C and H are set in order, with the value of B. *)
LEMMA SetCHAsserted ==
  ASSUME NEW s, Asserted(s), s.phase = "Commit", NEW r, r \subseteq Counter
  PROVE  LET t == SetCH(s, r)
         IN  Asserted(t) /\ t.phase = "Commit"
<1> DEFINE c == Bal(Lowest(r), s.B.X)
           h == Bal(Highest(r), s.B.X)
           t == [s EXCEPT !.C = c, !.H = h]
<1>0. s \in Slot /\ (Running(s) => Ordered(s))
  BY DEF Asserted
<1>1. /\ c \in Ballot /\ h \in Ballot /\ c \in OptBallot /\ h \in OptBallot
      /\ c.X = s.B.X /\ h.X = s.B.X /\ c.N <= h.N
  <2>1. Lowest(r) \in Counter /\ Highest(r) \in Counter /\ Lowest(r) <= Highest(r)
    BY RangeTypes, RangeEnds
  <2>2. c \in Ballot /\ h \in Ballot
    BY <1>0, <2>1, SlotFields, BallotTypes
  <2> QED BY <2>1, <2>2, BallotTypes DEF Bal
<1>2. SetCH(s, r) \in {s, t}
  BY DEF SetCH
<1> HIDE DEF c, h
<1>3. c # NoBallot /\ h # NoBallot
  BY <1>1, BallotTypes, CounterTypes DEF NoBallot
<1>4. /\ t \in Slot /\ t.phase = s.phase /\ t.nominate_timer = s.nominate_timer
      /\ t.X = s.X /\ t.Y = s.Y /\ t.B = s.B /\ t.P = s.P /\ t.PP = s.PP
      /\ t.H = h /\ t.C = c /\ t.fault = s.fault /\ t.overflow = s.overflow
  BY <1>0, <1>1 DEF Slot
<1> HIDE DEF t
<1>5. Running(t) => Ordered(t)
  BY <1>0, <1>1, <1>3, <1>4 DEF Ordered, OrderedCH, Running
<1>6. Asserted(t)
  BY <1>4, <1>5 DEF Asserted
<1> QED BY <1>2, <1>4, <1>6

(* A locked slot may raise the counter of its ballot. *)
LEMMA CounterAsserted ==
  ASSUME NEW s, NEW t \in Slot, Asserted(s), t.phase = s.phase, t.phase \in Locked,
         t.nominate_timer = s.nominate_timer, t.X = s.X, t.Y = s.Y, t.B.X = s.B.X,
         t.P = s.P, t.PP = s.PP, t.H = s.H, t.C = s.C,
         t.fault \in {s.fault, "overflow"}, Running(t) => Running(s),
         s.overflow \subseteq t.overflow
  PROVE  Asserted(t)
<1>1. Running(t) => Ordered(t)
  BY DEF Asserted, Ordered, OrderedCH, Locked
<1> QED BY <1>1 DEF Asserted

(* (8) and (9) of the Commit phase. *)
LEMMA FinishCommitAsserted ==
  ASSUME NEW n \in Node, NEW s, Asserted(s), s.phase = "Commit"
  PROVE  Asserted(FinishCommit(n, s).slot) /\ FinishCommit(n, s).slot.phase = "Commit"
<1> DEFINE c == MaxOf(s.B.N, s.H.N)
           s8 == [s EXCEPT !.B.N = c]
           counter == get_unblocking_ballot_counter(n, s8)
           u == [s8 EXCEPT !.ballot_timer = FALSE, !.B.N = counter]
<1>0. s \in Slot
  BY DEF Asserted
<1>1. c \in Counter
  BY <1>0, SlotFields, BallotTypes, CounterTypes
<1>2. s8 = [s EXCEPT !.B.N = MaxOf(@, s.H.N)]
  BY <1>0, SlotFields
<1> HIDE DEF c
<1>3. /\ s8 \in Slot /\ s8.phase = "Commit" /\ s8.nominate_timer = s.nominate_timer
      /\ s8.X = s.X /\ s8.Y = s.Y /\ s8.B.X = s.B.X /\ s8.P = s.P /\ s8.PP = s.PP
      /\ s8.H = s.H /\ s8.C = s.C /\ s8.fault = s.fault /\ s8.overflow = s.overflow
  BY <1>0, <1>1 DEF Slot, Ballot
<1> HIDE DEF s8
<1>4. Asserted(s8)
  BY <1>3, CounterAsserted DEF Locked, Running
<1>5. counter \in Counter
  BY <1>3, NextBallotTypes
<1>6. FinishCommit(n, s).slot \in {u, check_commit_phase_invariants(s8)}
  BY <1>2 DEF FinishCommit
<1> HIDE DEF counter
<1>7. /\ u \in Slot /\ u.phase = "Commit" /\ u.nominate_timer = s8.nominate_timer
      /\ u.X = s8.X /\ u.Y = s8.Y /\ u.B.X = s8.B.X /\ u.P = s8.P /\ u.PP = s8.PP
      /\ u.H = s8.H /\ u.C = s8.C /\ u.fault = s8.fault /\ u.overflow = s8.overflow
  BY <1>3, <1>5 DEF Slot, Ballot
<1> HIDE DEF u
<1>8. Asserted(u)
  BY <1>3, <1>4, <1>7, CounterAsserted DEF Locked, Running
<1>9. /\ Asserted(check_commit_phase_invariants(s8))
      /\ check_commit_phase_invariants(s8).phase = "Commit"
  BY <1>3, <1>4, ChecksHold DEF SameOrder
<1> QED BY <1>6, <1>7, <1>8, <1>9

(* One run through do_commit_phase. *)
LEMMA CommitPassAsserted ==
  ASSUME NEW n \in Node, NEW s, Asserted(s), s.phase = "Commit", NEW r \in CommitPass(n, s)
  PROVE  Asserted(r.slot) /\ r.slot.phase \in Locked
<1> DEFINE s0 == check_commit_phase_invariants(s)
           s5 == UpdateCommitP(n, s0)
           s6(f) == CheckCH(SetCH(s5, RangeOf(f, s5.B.X)))
<1>1. Asserted(s0) /\ s0.phase = "Commit"
  BY ChecksHold DEF SameOrder
<1> HIDE DEF s0
<1>2. Asserted(s5) /\ s5.phase = "Commit" /\ s5 \in Slot
  BY <1>1, UpdateCommitPAsserted DEF Asserted
<1> HIDE DEF s5
<1>3. PICK f \in ballots_accepted_committed(n, s5) :
        \E confirmed \in ballots_confirmed_committed(n, s6(f)) :
          r = IF confirmed = {} THEN FinishCommit(n, s6(f))
              ELSE [slot |-> EnterExternalize(s6(f), confirmed), again |-> FALSE]
  BY DEF CommitPass, UpdateCH, ConcludeCommit, s5, s0
<1> DEFINE t == s6(f)
<1>4. Asserted(t) /\ t.phase = "Commit" /\ t \in Slot
  <2> DEFINE u == SetCH(s5, RangeOf(f, s5.B.X))
  <2>1. RangeOf(f, s5.B.X) \subseteq Counter
    BY <1>2, AcceptedCommittedTypes
  <2>2. Asserted(u) /\ u.phase = "Commit"
    BY <1>2, <2>1, SetCHAsserted
  <2> HIDE DEF u
  <2>3. CheckCH(u) = u /\ u \in Slot
    BY <2>2, ChecksHold DEF Asserted
  <2> QED BY <2>2, <2>3 DEF u
<1>5. PICK confirmed \in ballots_confirmed_committed(n, t) :
        r = IF confirmed = {} THEN FinishCommit(n, t)
            ELSE [slot |-> EnterExternalize(t, confirmed), again |-> FALSE]
  BY <1>3
<1> HIDE DEF t
<1>6. CASE confirmed = {}
  BY <1>4, <1>5, <1>6, FinishCommitAsserted DEF Locked
<1>7. CASE confirmed # {}
  <2> DEFINE u == SetCH(t, confirmed)
             v == [u EXCEPT !.phase = "Externalize", !.nominate_timer = FALSE,
                            !.ballot_timer = FALSE]
  <2>1. Asserted(u) /\ u.phase = "Commit" /\ u \in Slot
    BY <1>4, ConfirmedCommittedTypes, SetCHAsserted DEF Asserted
  <2>2. r.slot = v
    BY <1>5, <1>7 DEF EnterExternalize
  <2> HIDE DEF u
  <2>3. /\ v \in Slot /\ v.phase = "Externalize" /\ v.nominate_timer = FALSE
        /\ v.X = u.X /\ v.Y = u.Y /\ v.B = u.B /\ v.P = u.P /\ v.PP = u.PP
        /\ v.H = u.H /\ v.C = u.C /\ v.fault = u.fault /\ v.overflow = u.overflow
    BY <2>1 DEF Slot, Phase
  <2> HIDE DEF v
  <2>4. Running(v) => Ordered(v)
    BY <2>1, <2>3 DEF Asserted, Ordered, Running, Locked
  <2>5. Asserted(v)
    BY <2>1, <2>3, <2>4 DEF Asserted
  <2> QED BY <2>2, <2>3, <2>5 DEF Locked
<1> QED BY <1>6, <1>7

(* do_commit_phase. *)
LEMMA CommitPhaseAsserted ==
  ASSUME NEW n \in Node, NEW s, Asserted(s), s.phase = "Commit", NEW t \in do_commit_phase(n, s)
  PROVE  Consistent(t)
<1>0. s \in Slot
  BY DEF Asserted
<1>1. PICK r \in CommitPass(n, s) :
        \/ ~r.again /\ t = r.slot
        \/ /\ r.again
           /\ \E u \in CommitPass(n, r.slot) :
                t = check_commit_phase_invariants(Require(u.slot, ~u.again, "depth"))
  BY DEF do_commit_phase
<1>2. Asserted(r.slot) /\ r.slot.phase \in Locked /\ (r.again => r.slot.phase = "Commit")
  BY <1>0, CommitPassAsserted, CommitPassFollows
<1>3. ASSUME r.again, NEW u \in CommitPass(n, r.slot),
             t = check_commit_phase_invariants(Require(u.slot, ~u.again, "depth"))
      PROVE  Asserted(t) /\ t.phase \in Locked
  <2> DEFINE cond == ~u.again
             v == Require(u.slot, cond, "depth")
  <2>1. Asserted(u.slot) /\ u.slot \in Slot /\ u.slot.phase \in Locked
    BY <1>2, <1>3, CommitPassAsserted DEF Asserted
  <2>2. t = check_commit_phase_invariants(v)
    BY <1>3
  <2> HIDE DEF cond
  <2>3. Asserted(v) /\ v.phase \in Locked
    BY <2>1, RequireAsserted DEF SameOrder
  <2> HIDE DEF v
  <2> QED BY <2>2, <2>3, ChecksHold DEF SameOrder
<1>4. Asserted(t) /\ t.phase \in Locked
  BY <1>1, <1>2, <1>3
<1> QED BY <1>4 DEF Consistent, Leads, Open, Locked

(* do_externalize_phase raises H. *)
LEMMA ExternalizeAsserted ==
  ASSUME NEW n \in Node, NEW s, Sound(s), Asserted(s), s.phase = "Externalize",
         NEW t \in do_externalize_phase(n, s)
  PROVE  Consistent(t)
<1>0. s \in Slot /\ s.H \in Ballot /\ check_externalize_phase_invariants(s) = s
  BY ChecksHold DEF Sound
<1>1. PICK confirmed \in ballots_confirmed_committed(n, s) :
        t = check_externalize_phase_invariants(
              IF confirmed = {} THEN s
              ELSE [s EXCEPT !.H.N = MaxOf(@, Highest(confirmed))])
  BY <1>0 DEF do_externalize_phase
<1> DEFINE c == MaxOf(s.H.N, Highest(confirmed))
           h == [s.H EXCEPT !.N = c]
           s1 == IF confirmed = {} THEN s ELSE [s EXCEPT !.H = h]
<1>2. c \in Counter
  <2>1. Highest(confirmed) \in Counter
    BY <1>0, ConfirmedCommittedTypes, RangeTypes
  <2> QED BY <1>0, <2>1, BallotTypes, CounterTypes
<1>3. t = check_externalize_phase_invariants(s1)
  BY <1>0, <1>1
<1> HIDE DEF c
<1>4. h \in Ballot /\ h.X = s.H.X
  BY <1>0, <1>2 DEF Ballot
<1> HIDE DEF h
<1>5. h \in OptBallot /\ h # NoBallot
  BY <1>4, BallotTypes, CounterTypes DEF NoBallot
<1>6. /\ s1 \in Slot /\ s1.phase = "Externalize" /\ s1.nominate_timer = s.nominate_timer
      /\ s1.X = s.X /\ s1.Y = s.Y /\ s1.B = s.B /\ s1.P = s.P /\ s1.PP = s.PP
      /\ s1.H \in {s.H, h} /\ s1.C = s.C /\ s1.fault = s.fault /\ s1.overflow = s.overflow
  BY <1>0, <1>5 DEF Slot
<1> HIDE DEF s1
<1>7. Running(s1) => Ordered(s1)
  BY <1>4, <1>5, <1>6 DEF Asserted, Ordered, Running, Locked
<1>8. Asserted(s1)
  BY <1>6, <1>7 DEF Asserted
<1>9. t = s1
  BY <1>3, <1>6, <1>8, ChecksHold
<1> QED BY <1>6, <1>8, <1>9 DEF Consistent, Leads, Open

(* do_ballot_protocol. *)
LEMMA BallotProtocolAsserted ==
  ASSUME NEW n, NEW s, NEW V, NEW L, Contained(n, s, V, L), Sound(s), Consistent(s),
         NEW t \in do_ballot_protocol(n, s)
  PROVE  Consistent(t)
<1> DEFINE s0 == maybe_set_ballot_timer(n, s)
           prepared == PrepareStep(n, s0)
           committed == UNION {CommitStep(n, u) : u \in prepared}
<1>0. n \in Node /\ s \in Slot
  BY DEF Contained
<1>1. Contained(n, s0, V, L) /\ Sound(s0) /\ Consistent(s0)
  <2>1. s0 \in {s, [s EXCEPT !.ballot_timer = TRUE]}
    BY DEF maybe_set_ballot_timer
  <2>2. s0 \in Slot /\ s0.phase = s.phase /\ Agrees(s, s0)
    BY <2>1 DEF Contained, Slot, Agrees
  <2>3. Consistent(s0)
    BY <1>0, TimerAsserted DEF Consistent
  <2> HIDE DEF s0
  <2> QED BY <2>2, <2>3, AgreesContained DEF Sound, Agrees
<1> HIDE DEF s0
<1>2. \A u \in prepared : Consistent(u) /\ Sound(u)
  <2> SUFFICES ASSUME NEW u \in prepared PROVE Consistent(u) /\ Sound(u)
    OBVIOUS
  <2>1. CASE s0.phase \in {"NominatePrepare", "Prepare"}
    <3>1. /\ u \in do_prepare_phase(n, s0) /\ Undecided(n, s0, V, L)
          /\ s0.phase \in Open /\ s0 \in Slot
      BY <1>1, <2>1 DEF PrepareStep, Undecided, Contained, Open
    <3>2. Consistent(u)
      BY <1>1, <3>1, PrepareAsserted
    <3>3. Sound(u)
      BY <1>0, <3>1, PrepareFollows DEF Follows
    <3> QED BY <3>2, <3>3
  <2>2. CASE s0.phase \notin {"NominatePrepare", "Prepare"}
    BY <1>1, <2>2 DEF PrepareStep
  <2> QED BY <2>1, <2>2
<1> HIDE DEF prepared
<1>3. \A u \in committed : Consistent(u) /\ Sound(u)
  <2> SUFFICES ASSUME NEW v \in prepared, NEW u \in CommitStep(n, v)
               PROVE  Consistent(u) /\ Sound(u)
    OBVIOUS
  <2>1. Consistent(v) /\ Asserted(v) /\ Sound(v) /\ v \in Slot
    BY <1>2 DEF Consistent, Sound
  <2>2. CASE Running(v) /\ v.phase = "Commit"
    <3>1. u \in do_commit_phase(n, v)
      BY <2>2 DEF CommitStep
    <3>2. Consistent(u)
      BY <1>0, <2>1, <2>2, <3>1, CommitPhaseAsserted
    <3>3. Sound(u)
      BY <1>0, <2>1, <2>2, <3>1, CommitPhaseFollows DEF Follows
    <3> QED BY <3>2, <3>3
  <2>3. CASE ~(Running(v) /\ v.phase = "Commit")
    BY <2>1, <2>3 DEF CommitStep
  <2> QED BY <2>2, <2>3
<1>4. PICK u \in committed : t \in ExternalizeStep(n, u)
  BY DEF do_ballot_protocol, committed, prepared, s0
<1> HIDE DEF committed
<1>5. Consistent(u) /\ Asserted(u) /\ Sound(u)
  BY <1>3 DEF Consistent
<1> QED BY <1>0, <1>4, <1>5, ExternalizeAsserted DEF ExternalizeStep

-----------------------------------------------------------------------------
(* The messages sent *)

(* P and PP as sent are in order below B: lowering their counters keeps their       *)
(* values, and PP has another value than P.                                         *)
LEMMA ClampedOrder ==
  ASSUME NEW s \in Slot, Ordered(s), ~Underflows(s), ClampedP(s) # NoBallot
  PROVE  /\ BallotLE(ClampedP(s), s.B)
         /\ ClampedPP(s) # NoBallot => BallotLT(ClampedPP(s), ClampedP(s))
<1> DEFINE p == ClampedP(s)
           pp == ClampedPP(s)
<1>0. /\ s.B \in Ballot /\ s.P \in OptBallot /\ s.PP \in OptBallot
      /\ s.B.N \in Nat /\ s.B.X \in Nat /\ s.P.N \in Int /\ s.P.X \in Nat
      /\ s.PP.N \in Int /\ s.PP.X \in Nat /\ s.B = Bal(s.B.N, s.B.X)
      /\ p \in OptBallot /\ p.N \in Int /\ p.X \in Nat
  BY SlotFields, ClampedTypes, BallotTypes, BallotNumbers
<1>1. s.P # NoBallot
  <2>1. s.P = NoBallot => ~BallotLT(s.B, s.P)
    BY <1>0 DEF BallotLT, NoBallot
  <2> QED BY <2>1 DEF ClampedP
<1>2. p.N \in Nat
  BY <1>0, BallotTypes
<1>3. p.X = s.P.X
  BY DEF ClampedP, Bal
<1>4. BallotLE(p, s.B)
  <2>1. CASE ~BallotLT(s.B, s.P)
    BY <1>0, <2>1, BallotOrder, BallotTypes DEF ClampedP
  <2>2. CASE BallotLT(s.B, s.P) /\ s.P.X > s.B.X
    <3>1. s.B.N # 0
      BY <2>2 DEF Underflows
    <3>2. p = Bal(s.B.N - 1, s.P.X)
      BY <2>2, <3>1 DEF ClampedP, Dec
    <3> HIDE DEF p
    <3>3. p.N < s.B.N
      BY <1>0, <3>2 DEF Bal
    <3> QED BY <3>3 DEF BallotLE, BallotLT
  <2>3. CASE BallotLT(s.B, s.P) /\ ~(s.P.X > s.B.X)
    <3>1. p = Bal(s.B.N, s.P.X)
      BY <2>3 DEF ClampedP
    <3> HIDE DEF p
    <3>2. p.N = s.B.N /\ p.X = s.P.X
      BY <3>1 DEF Bal
    <3>3. p.X < s.B.X \/ p.X = s.B.X
      BY <1>0, <2>3, <3>2
    <3> QED BY <1>0, <3>1, <3>2, <3>3 DEF BallotLE, BallotLT
  <2> QED BY <2>1, <2>2, <2>3
<1>5. ASSUME pp # NoBallot PROVE BallotLT(pp, p)
  <2>1. s.PP # NoBallot
    <3>1. p # NoBallot => ~BallotLT(p, NoBallot)
      BY <1>2 DEF BallotLT, NoBallot
    <3>2. s.PP = NoBallot => pp = NoBallot
      <4>1. pp = CASE p = NoBallot \/ s.PP = NoBallot -> NoBallot
                   [] p # NoBallot /\ BallotLT(p, s.PP) ->
                        IF s.PP.N > 0 THEN Bal(IF s.PP.X > p.X THEN Dec(p.N) ELSE p.N, s.PP.X)
                        ELSE NoBallot
                   [] OTHER -> s.PP
        BY DEF ClampedPP
      <4> HIDE DEF p, pp
      <4> QED BY <3>1, <4>1
    <3> QED BY <1>5, <3>2
  <2>2. p.X # s.PP.X
    BY <1>1, <1>3, <2>1 DEF Ordered, Aborts
  <2>3. CASE BallotLT(p, s.PP) /\ s.PP.X > p.X
    <3>1. s.PP.N > 0 /\ pp = Bal(Dec(p.N), s.PP.X)
      BY <1>5, <2>1, <2>3 DEF ClampedPP
    <3>2. p.N # 0
      BY <1>1, <2>3, <3>1 DEF Underflows
    <3>3. pp = Bal(p.N - 1, s.PP.X)
      BY <3>1, <3>2 DEF Dec
    <3> HIDE DEF p, pp
    <3>4. pp.N < p.N
      BY <1>2, <3>3 DEF Bal
    <3> QED BY <3>4 DEF BallotLT
  <2>4. CASE BallotLT(p, s.PP) /\ ~(s.PP.X > p.X)
    <3>1. pp = Bal(p.N, s.PP.X)
      BY <1>5, <2>1, <2>4 DEF ClampedPP
    <3> HIDE DEF p, pp
    <3>2. pp.N = p.N /\ pp.X = s.PP.X
      BY <3>1 DEF Bal
    <3>3. pp.X < p.X
      BY <1>0, <2>2, <2>4, <3>2
    <3> QED BY <3>2, <3>3 DEF BallotLT
  <2>5. CASE ~BallotLT(p, s.PP)
    <3>1. pp = s.PP
      BY <1>5, <2>1, <2>5 DEF ClampedPP
    <3> HIDE DEF p, pp
    <3> QED BY <1>0, <2>2, <2>5, <3>1 DEF BallotLT
  <2> QED BY <2>3, <2>4, <2>5
<1> QED BY <1>4, <1>5

(* The message of a consistent slot is valid. *)
LEMMA OutTopicValid ==
  ASSUME NEW s \in Slot, Ordered(s), Leads(s), Running(s), InRange(s), ~Underflows(s)
  PROVE  WellFormed(OutTopic(s))
<1> DEFINE q == PreparePayload(s)
           m == OutTopic(s)
<1>0. s.X \cap s.Y = {}
  BY DEF Ordered
<1>1. ASSUME s.phase \in Open
      PROVE  /\ q.P # NoBallot => /\ BallotLE(q.P, q.B)
                                  /\ q.PP # NoBallot => BallotLT(q.PP, q.P)
             /\ q.CN <= q.HN /\ q.HN <= q.B.N
  <2>1. q.P = ClampedP(s) /\ q.PP = ClampedPP(s) /\ q.B = s.B
    BY DEF PreparePayload
  <2>2. /\ q.HN = IF s.H # NoBallot /\ s.H.X = s.B.X THEN s.H.N ELSE 0
        /\ q.CN = IF s.C # NoBallot /\ q.HN # 0 THEN s.C.N ELSE 0
    BY DEF PreparePayload
  <2> HIDE DEF q
  <2>3. s.B.N \in Nat /\ (s.H # NoBallot => s.H.N \in Nat) /\ (s.C # NoBallot => s.C.N \in Nat)
    BY SlotFields, BallotTypes, CounterTypes
  <2>4. s.H # NoBallot => s.H.N <= s.B.N
    BY <1>1 DEF Leads
  <2>5. s.C # NoBallot => s.H # NoBallot /\ s.C.N <= s.H.N
    BY <1>1 DEF Ordered, OrderedCH, Open
  <2>6. q.CN <= q.HN /\ q.HN <= q.B.N
    BY <2>1, <2>2, <2>3, <2>4, <2>5
  <2> QED BY <2>1, <2>6, ClampedOrder
<1>2. CASE s.phase = "NominatePrepare" /\ s.B # ZeroBallot
  <2>1. m = [type |-> "NominatePrepare", X |-> s.X, Y |-> s.Y,
             B |-> q.B, P |-> q.P, PP |-> q.PP, HN |-> q.HN, CN |-> q.CN]
    BY <1>2 DEF OutTopic
  <2>2. /\ q.P # NoBallot => /\ BallotLE(q.P, q.B)
                             /\ q.PP # NoBallot => BallotLT(q.PP, q.P)
        /\ q.CN <= q.HN /\ q.HN <= q.B.N
    BY <1>1, <1>2 DEF Open
  <2> HIDE DEF q, m
  <2>3. WellFormed(m)
    BY <1>0, <2>1, <2>2 DEF WellFormed, Nominating, Preparing
  <2> QED BY <2>3 DEF m
<1>3. CASE s.phase = "NominatePrepare" /\ s.B = ZeroBallot
  <2>1. m = NoMsg \/ m = [type |-> "Nominate", X |-> s.X, Y |-> s.Y]
    BY <1>3 DEF OutTopic
  <2> HIDE DEF m
  <2>2. WellFormed(m)
    BY <1>0, <2>1 DEF WellFormed, Nominating, Preparing, NoMsg
  <2> QED BY <2>2 DEF m
<1>4. CASE s.phase = "Prepare"
  <2>1. m = [type |-> "Prepare", B |-> q.B, P |-> q.P, PP |-> q.PP, HN |-> q.HN, CN |-> q.CN]
    BY <1>4 DEF OutTopic
  <2>2. /\ q.P # NoBallot => /\ BallotLE(q.P, q.B)
                             /\ q.PP # NoBallot => BallotLT(q.PP, q.P)
        /\ q.CN <= q.HN /\ q.HN <= q.B.N
    BY <1>1, <1>4 DEF Open
  <2> HIDE DEF q, m
  <2>3. WellFormed(m)
    BY <2>1, <2>2 DEF WellFormed, Nominating, Preparing
  <2> QED BY <2>3 DEF m
<1>5. CASE s.phase = "Commit"
  <2> DEFINE pn == MaxOf(ClampedP(s).N, 0)
             hn == MaxOf(s.H.N, 0)
             cn == MaxOf(s.C.N, 0)
  <2>1. m = [type |-> "Commit", B |-> s.B, PN |-> pn, HN |-> hn, CN |-> cn]
    BY <1>5 DEF OutTopic
  <2>2. s.C.N \in Int /\ s.H.N \in Int /\ s.C.N <= s.H.N
    BY <1>5, SlotFields, BallotNumbers DEF Ordered, OrderedCH, Locked
  <2>3. cn <= hn
    BY <2>2 DEF MaxOf
  <2> HIDE DEF pn, hn, cn, m
  <2>4. WellFormed(m)
    BY <2>1, <2>3 DEF WellFormed, Nominating, Preparing
  <2> QED BY <2>4 DEF m
<1>6. CASE s.phase = "Externalize"
  <2>1. m = [type |-> "Externalize", C |-> s.C, HN |-> s.H.N]
    BY <1>6 DEF OutTopic
  <2> HIDE DEF m
  <2>2. WellFormed(m)
    BY <2>1 DEF WellFormed, Nominating, Preparing
  <2> QED BY <2>2 DEF m
<1> QED BY <1>2, <1>3, <1>4, <1>5, <1>6, SlotFields DEF Phase

(* A slot that panics for a reason other than an assertion is consistent. *)
LEMMA PanicConsistent ==
  ASSUME NEW s \in Slot, s.fault \notin {"none", "assert"},
         s.fault = "message" => s.overflow # {}
  PROVE  Consistent(s)
BY DEF Consistent, Asserted, Leads, Running

(* Sending the message keeps the slot consistent, or panics. *)
LEMMA OutMsgConsistent ==
  ASSUME NEW r, Consistent(r), Sound(r), Running(r)
  PROVE  Consistent(out_msg(r))
<1> DEFINE m == OutTopic(r)
           safe == ~Underflows(r)
           r1 == Checked(r, safe, "below")
           r2 == Require(r1, WellFormed(m), "message")
           t == [r2 EXCEPT !.last_sent_msg = m]
<1>0. r \in Slot /\ Asserted(r) /\ Leads(r) /\ Ordered(r)
  BY DEF Consistent, Asserted
<1>1. m \in OptMsg
  BY OutTopicTypes
<1>2. out_msg(r) = IF m = NoMsg THEN r1 ELSE t
  BY DEF out_msg
<1>3. InRange(r) /\ safe => WellFormed(m)
  BY <1>0, OutTopicValid
<1> HIDE DEF m, safe
<1>4. /\ r1 \in Slot /\ SameOrder(r, r1) /\ r1.fault \in {r.fault, "overflow"}
      /\ ~safe => "below" \in r1.overflow
  BY <1>0, CheckedOrder DEF Side
<1> HIDE DEF r1
<1>5. Consistent(r1)
  <2>1. CASE r1.fault = r.fault
    BY <1>0, <1>4, <2>1, SameOrderAsserted DEF Consistent
  <2>2. CASE r1.fault = "overflow"
    BY <1>4, <2>2, PanicConsistent
  <2> QED BY <1>4, <2>1, <2>2
<1>6. Consistent(r2) /\ r2 \in Slot
  <2>1. CASE WellFormed(m)
    BY <1>4, <1>5, <2>1 DEF Require
  <2>2. CASE ~WellFormed(m)
    <3>1. r1.overflow # {}
      BY <1>3, <1>4, <2>2 DEF InRange, SameOrder
    <3>2. r2 = r1 \/ r2 = [r1 EXCEPT !.fault = "message"]
      BY DEF Require
    <3>3. CASE r2 = r1
      BY <1>4, <1>5, <3>3
    <3>4. CASE r2 = [r1 EXCEPT !.fault = "message"]
      <4>1. r2 \in Slot /\ r2.fault = "message" /\ r2.overflow = r1.overflow
        BY <1>4, <3>4 DEF Slot, Fault
      <4> HIDE DEF r2
      <4> QED BY <3>1, <4>1, PanicConsistent
    <3> QED BY <3>2, <3>3, <3>4
  <2> QED BY <2>1, <2>2
<1> HIDE DEF r2
<1>7. t \in Slot /\ SameOrder(r2, t) /\ t.fault = r2.fault /\ t.overflow = r2.overflow
  BY <1>1, <1>6 DEF Slot, SameOrder
<1> HIDE DEF t
<1>8. Consistent(t)
  BY <1>6, <1>7, SameOrderAsserted DEF Consistent
<1> QED BY <1>2, <1>5, <1>8

(* What a method leaves is consistent, whether or not it panics. *)
LEMMA OutcomesConsistent ==
  ASSUME NEW s \in Slot, NEW results, \A r \in results : Consistent(r),
         \A r \in results : Running(r) => Sound(r),
         NEW t \in Outcomes(s, results)
  PROVE  Consistent(t)
<1>1. PICK u : /\ \/ \E r \in results : Running(r) /\ u = out_msg(r)
                  \/ u \in results /\ ~Running(u)
               /\ t = IF Running(u) THEN u
                      ELSE [s EXCEPT !.fault = u.fault, !.overflow = u.overflow]
  BY DEF Outcomes
<1>2. Consistent(u)
  BY <1>1, OutMsgConsistent
<1>3. CASE Running(u)
  BY <1>1, <1>2, <1>3
<1>4. CASE ~Running(u)
  <2>1. /\ u \in Slot /\ u.fault \notin {"none", "assert"}
        /\ u.fault = "message" => u.overflow # {}
    BY <1>2, <1>4 DEF Consistent, Asserted, Running
  <2>2. t = [s EXCEPT !.fault = u.fault, !.overflow = u.overflow]
    BY <1>1, <1>4
  <2>3. t \in Slot /\ t.fault = u.fault /\ t.overflow = u.overflow
    BY <2>1, <2>2 DEF Slot
  <2> QED BY <2>1, <2>3, PanicConsistent
<1> QED BY <1>3, <1>4

-----------------------------------------------------------------------------
(* The methods of ScpSlot keep the order *)

(* What the ballot protocol leaves of a consistent slot. *)
LEMMA ResultsConsistent ==
  ASSUME NEW n, NEW s, NEW V, NEW L, Contained(n, s, V, L), Sound(s), Consistent(s)
  PROVE  \A r \in do_ballot_protocol(n, s) : Consistent(r) /\ Sound(r)
<1> SUFFICES ASSUME NEW r \in do_ballot_protocol(n, s)
             PROVE  Consistent(r) /\ Sound(r)
  OBVIOUS
<1>1. Consistent(r)
  BY BallotProtocolAsserted
<1>2. Sound(r)
  BY BallotProtocolFollows DEF Follows, Contained
<1> QED BY <1>1, <1>2

(* propose_values. *)
LEMMA ProposeValuesConsistent ==
  ASSUME NEW n, NEW s, NEW V, NEW L, Contained(n, s, V, L), Sound(s), Consistent(s),
         NEW values, values \cap ValidValue[n] \subseteq V,
         NEW t \in propose_values(n, s, values)
  PROVE  Consistent(t)
<1> DEFINE valid == values \cap ValidValue[n]
           s0 == [s EXCEPT !.W = @ \cup valid]
           s1 == do_nominate_phase(n, s0)
<1>0. n \in Node /\ s \in Slot /\ V \subseteq Value
  BY DEF Contained, Closed
<1>1. CASE s.phase # "NominatePrepare" \/ s.Z # {}
  <2>1. t \in Outcomes(s, {s})
    BY <1>1 DEF propose_values
  <2> QED BY <1>0, <2>1, OutcomesConsistent
<1>2. CASE s.phase = "NominatePrepare" /\ s.Z = {} /\ valid = {}
  BY <1>2 DEF propose_values
<1>3. CASE s.phase = "NominatePrepare" /\ s.Z = {} /\ valid # {}
  <2>1. t \in Outcomes(s, do_ballot_protocol(n, s1))
    BY <1>3 DEF propose_values
  <2>2. valid \subseteq V
    OBVIOUS
  <2> HIDE DEF valid
  <2>3. Contained(n, s1, V, L) /\ Sound(s1)
    BY <1>3, <2>2, ProposalTaken
  <2>4. s0 \in Slot /\ SameOrder(s, s0) /\ s0.fault = s.fault /\ s0.overflow = s.overflow /\ s0.phase = "NominatePrepare"
    BY <1>0, <1>3, <2>2 DEF Slot, SameOrder
  <2> HIDE DEF s0
  <2>5. Consistent(s0)
    BY <2>4, SameOrderAsserted DEF Consistent
  <2>6. Consistent(s1)
    BY <1>0, <2>4, <2>5, NominateAsserted
  <2> HIDE DEF s1
  <2>7. \A r \in do_ballot_protocol(n, s1) : Consistent(r) /\ Sound(r)
    BY <2>3, <2>6, ResultsConsistent
  <2> QED BY <1>0, <2>1, <2>7, OutcomesConsistent
<1> QED BY <1>1, <1>2, <1>3

(* handle_messages. *)
LEMMA HandleMessagesConsistent ==
  ASSUME NEW n, NEW s, NEW V, NEW L, Contained(n, s, V, L), Sound(s), Consistent(s),
         NEW batch, \A k \in DOMAIN batch : batch[k] \in Msg,
         s.phase # "Externalize" =>
           \A k \in DOMAIN batch : IsNews(n, s, k, batch[k]) => MsgWithin(batch[k], V, L),
         NEW t \in handle_messages(n, s, batch)
  PROVE  Consistent(t)
<1> DEFINE news == {k \in DOMAIN batch : IsNews(n, s, k, batch[k])}
           M1 == [k \in Node |-> IF k \in news THEN batch[k] ELSE s.M[k]]
           s1 == [s EXCEPT !.M = M1]
           s2 == IF s.phase = "NominatePrepare" THEN do_nominate_phase(n, s1) ELSE s1
<1>0. n \in Node /\ s \in Slot
  BY DEF Contained
<1>1. Contained(n, s2, V, L) /\ Sound(s2)
  BY MessagesTaken
<1>2. t = s \/ t \in Outcomes(s, do_ballot_protocol(n, s2))
  BY DEF handle_messages
<1>3. M1 \in [Node -> OptMsg]
  BY <1>0, SlotFields DEF OptMsg
<1> HIDE DEF M1, news
<1>4. s1 \in Slot /\ SameOrder(s, s1) /\ s1.fault = s.fault /\ s1.overflow = s.overflow
  BY <1>0, <1>3 DEF Slot, SameOrder
<1> HIDE DEF s1
<1>5. Consistent(s1) /\ s1.phase = s.phase
  BY <1>4, SameOrderAsserted DEF Consistent, SameOrder
<1>6. Consistent(s2)
  BY <1>0, <1>5, NominateAsserted
<1> HIDE DEF s2
<1>7. \A r \in do_ballot_protocol(n, s2) : Consistent(r) /\ Sound(r)
  BY <1>1, <1>6, ResultsConsistent
<1>8. CASE t = s
  BY <1>8
<1>9. CASE t \in Outcomes(s, do_ballot_protocol(n, s2))
  BY <1>0, <1>7, <1>9, OutcomesConsistent
<1> QED BY <1>2, <1>8, <1>9

(* A nomination timeout.  Its timer runs only in the NominatePrepare phase. *)
LEMMA NominateTimeoutConsistent ==
  ASSUME NEW n \in Node, NEW s, Consistent(s), s.phase = "NominatePrepare",
         s.nominate_round + 1 \in Round
  PROVE  Consistent(NominateTimeout(n, s))
<1> DEFINE round == s.nominate_round + 1
           peers == s.max_priority_peers \cup
                      {find_max_priority_peer(n, s.max_priority_peers, round)}
           s1 == [s EXCEPT !.nominate_timer = FALSE, !.nominate_round = round,
                           !.max_priority_peers = peers]
<1>0. s \in Slot
  BY DEF Consistent, Asserted
<1>1. round \in Nat /\ peers \subseteq Node
  BY <1>0, LeaderTypes, SlotFields
<1>2. NominateTimeout(n, s) = do_nominate_phase(n, s1)
  BY DEF NominateTimeout
<1> HIDE DEF round, peers
<1>3. /\ s1 \in Slot /\ s1.phase = s.phase /\ ~s1.nominate_timer /\ s1.X = s.X /\ s1.Y = s.Y
      /\ s1.B = s.B /\ s1.P = s.P /\ s1.PP = s.PP /\ s1.H = s.H /\ s1.C = s.C
      /\ s1.fault = s.fault /\ s1.overflow = s.overflow
  BY <1>0, <1>1 DEF Slot
<1> HIDE DEF s1
<1>4. Running(s1) => Ordered(s1)
  BY <1>3 DEF Consistent, Asserted, Running, Ordered, OrderedCH
<1>5. Consistent(s1)
  BY <1>3, <1>4 DEF Consistent, Asserted, Leads, Running, InRange
<1> QED BY <1>2, <1>3, <1>5, NominateAsserted

(* A ballot timeout. *)
LEMMA BallotTimeoutConsistent ==
  ASSUME NEW n \in Node, NEW s, Consistent(s)
  PROVE  Consistent(BallotTimeout(n, s))
<1> DEFINE t == CheckedInc(s, s.B.N)
           s1 == [t EXCEPT !.ballot_timer = FALSE]
           x == get_next_ballot_values(n, s)
           c == Inc(s.B.N)
           v == BallotTimeout(n, s)
<1>0. s \in Slot /\ Asserted(s) /\ Leads(s) /\ s.B \in Ballot /\ s.B.N \in Counter /\ c \in Counter
  BY SlotFields, CounterTypes DEF Consistent, Asserted
<1>1. /\ t \in Slot /\ SameOrder(s, t) /\ t.fault \in {s.fault, "overflow"}
      /\ Running(t) => Running(s)
      /\ InRange(t) => s.B.N # INFINITY
  BY <1>0, CheckedOrder DEF CheckedInc, Side, InRange
<1> HIDE DEF t
<1>2. /\ s1 \in Slot /\ SameOrder(s, s1) /\ s1.fault = t.fault /\ s1.overflow = t.overflow
  BY <1>1 DEF Slot, SameOrder
<1>3. v \in Slot /\ (Running(s) =>
        v = CASE s.phase = "Commit" -> [s1 EXCEPT !.B.N = c]
              [] s.phase \in {"NominatePrepare", "Prepare"} /\ x # NoList ->
                   [s1 EXCEPT !.B = Bal(c, x)]
              [] OTHER -> s1)
  <2>1. v \in Slot
    BY <1>0, BallotTimeoutRises DEF Rises
  <2>2. s1.B = s.B
    BY <1>2 DEF SameOrder
  <2> QED BY <2>1, <2>2 DEF BallotTimeout, RaiseBallot, t
<1> HIDE DEF s1, x, v
<1>4. CASE ~Running(s)
  BY <1>4 DEF BallotTimeout, v
<1>5. CASE Running(s) /\ s.phase = "Commit"
  <2> DEFINE b == [s1.B EXCEPT !.N = c]
  <2>1. v = [s1 EXCEPT !.B = b] /\ s1.B = s.B
    BY <1>2, <1>3, <1>5 DEF SameOrder
  <2>2. b.X = s.B.X
    BY <1>0, <2>1 DEF Ballot
  <2> HIDE DEF b
  <2>3. /\ v.phase = s.phase /\ v.phase \in Locked
        /\ v.nominate_timer = s.nominate_timer /\ v.X = s.X /\ v.Y = s.Y /\ v.B.X = s.B.X
        /\ v.P = s.P /\ v.PP = s.PP /\ v.H = s.H /\ v.C = s.C
        /\ v.fault \in {s.fault, "overflow"} /\ (Running(v) => Running(s))
        /\ s.overflow \subseteq v.overflow
    BY <1>1, <1>2, <1>5, <2>1, <2>2 DEF Slot, SameOrder, Locked, Running
  <2>4. Asserted(v)
    BY <1>0, <1>3, <2>3, CounterAsserted
  <2>5. Leads(v)
    BY <1>5, <2>3 DEF Leads, Open
  <2> QED BY <2>4, <2>5 DEF Consistent, v
<1>6. CASE Running(s) /\ s.phase \in {"NominatePrepare", "Prepare"} /\ x # NoList
  <2> DEFINE b == Bal(c, x)
  <2>1. v = [s1 EXCEPT !.B = b]
    BY <1>3, <1>6
  <2>2. b.N = c
    BY DEF Bal
  <2> HIDE DEF b
  <2>3. Untouched(s, v) /\ v.B = b /\ v.fault = s1.fault /\ v.overflow = s1.overflow
    BY <1>1, <1>2, <1>3, <2>1 DEF Slot, SameOrder, Untouched, Running
  <2>4. InRange(v) => s.B.N <= v.B.N
    <3>1. InRange(v) => s.B.N # INFINITY
      BY <1>1, <1>2, <2>3 DEF InRange
    <3>2. s.B.N # INFINITY => c = s.B.N + 1 /\ s.B.N \in Nat
      BY <1>0, IncRises, CounterTypes
    <3> HIDE DEF c
    <3> QED BY <2>2, <2>3, <3>1, <3>2
  <2>5. s.phase \in Open
    BY <1>6 DEF Open
  <2> QED BY <1>0, <2>3, <2>4, <2>5, UntouchedAsserted DEF Consistent, v
<1>7. CASE Running(s) /\ s.phase # "Commit"
           /\ ~(s.phase \in {"NominatePrepare", "Prepare"} /\ x # NoList)
  <2>1. v = s1
    BY <1>3, <1>7
  <2>2. Running(s1) => s1.fault = s.fault
    BY <1>1, <1>2 DEF Running
  <2>3. s1.fault \in {s.fault, "overflow"}
    BY <1>1, <1>2
  <2>4. Consistent(s1)
    BY <1>0, <1>2, <2>2, <2>3 DEF Consistent, Asserted, Ordered, OrderedCH, Leads, SameOrder,
           Running, InRange
  <2> QED BY <2>1, <2>4 DEF v
<1> QED BY <1>4, <1>5, <1>6, <1>7

(* process_timeouts. *)
LEMMA ProcessTimeoutsConsistent ==
  ASSUME NEW n, NEW s, NEW V, NEW L, Contained(n, s, V, L), Sound(s), Consistent(s),
         Running(s), NEW nominate, NEW ballot,
         nominate => s.nominate_timer /\ s.nominate_round + 1 \in Round,
         NEW t \in process_timeouts(n, s, nominate, ballot)
  PROVE  Consistent(t)
<1> DEFINE s1 == IF nominate THEN NominateTimeout(n, s) ELSE s
           s2 == IF ballot THEN BallotTimeout(n, s1) ELSE s1
           results == IF ballot THEN ContinueBallot(n, s2) ELSE {s2}
<1>0. n \in Node /\ s \in Slot /\ Ordered(s)
  BY DEF Contained, Consistent, Asserted
<1>1. Running(s2) => Contained(n, s2, V, L) /\ Sound(s2)
  BY TimeoutsTaken
<1>2. nominate => s.phase = "NominatePrepare"
  BY <1>0 DEF Ordered
<1>3. Consistent(s1)
  BY <1>0, <1>2, NominateTimeoutConsistent
<1>4. t \in Outcomes(s, results)
  BY DEF process_timeouts
<1> HIDE DEF s1
<1>5. Consistent(s2)
  BY <1>0, <1>3, BallotTimeoutConsistent
<1> HIDE DEF s2
<1>6. \A r \in results : Consistent(r) /\ (Running(r) => Sound(r))
  <2>1. CASE ballot /\ Running(s2)
    <3>1. results = do_ballot_protocol(n, s2)
      BY <2>1 DEF ContinueBallot
    <3> HIDE DEF results
    <3> QED BY <1>1, <1>5, <2>1, <3>1, ResultsConsistent
  <2>2. CASE ~(ballot /\ Running(s2))
    <3>1. results = {s2}
      BY <2>2 DEF ContinueBallot
    <3> HIDE DEF results
    <3> QED BY <1>1, <1>5, <3>1
  <2> QED BY <2>1, <2>2
<1> HIDE DEF results
<1> QED BY <1>0, <1>4, <1>6, OutcomesConsistent

-----------------------------------------------------------------------------
(* The network keeps the order *)

(* The slots of a network, and the order among the fields of each. *)
AInv == VInv /\ \A n \in Node : Consistent(slot[n])

(* A slot that has just been made is consistent. *)
LEMMA NewSlotConsistent ==
  ASSUME NEW n \in Node
  PROVE  Consistent(NewSlot(n))
<1> DEFINE s == NewSlot(n)
<1>1. s \in Slot
  BY NewSlotContains DEF Contains, Contained
<1>2. /\ s.phase = "NominatePrepare" /\ s.X = {} /\ s.Y = {} /\ s.fault = "none"
      /\ s.P = NoBallot /\ s.PP = NoBallot /\ s.H = NoBallot /\ s.C = NoBallot
  BY DEF NewSlot
<1> HIDE DEF s
<1>3. Ordered(s)
  BY <1>2 DEF Ordered, OrderedCH, Locked
<1>4. Consistent(s)
  BY <1>1, <1>2, <1>3 DEF Consistent, Asserted, Leads
<1> QED BY <1>4 DEF s

(* A call of a method of Node leaves the slot consistent. *)
LEMMA MethodsConsistent ==
  ASSUME AInv, NEW n \in Node,
         \/ \E values \in (SUBSET Proposable[n]) \ {{}} : ProposeValues(n, values)
         \/ \E batch \in Batches(n) : HandleMessages(n, batch)
         \/ \E nominate, ballot \in BOOLEAN : ProcessTimeouts(n, nominate, ballot)
  PROVE  \E t : Becomes(n, t) /\ Consistent(t)
<1> DEFINE s == slot[n]
           V == Acceptable(n)
           L == ListsWithin(V)
<1>0. Contained(n, s, V, L) /\ Sound(s) /\ Consistent(s)
  BY AcceptableTypes DEF AInv, VInv, IInv, TypeOK, SoundSlots, Contained
<1>1. ASSUME NEW values \in SUBSET Proposable[n], ProposeValues(n, values)
      PROVE  \E t : Becomes(n, t) /\ Consistent(t)
  <2>1. PICK t \in propose_values(n, s, values) : Becomes(n, t)
    BY <1>1 DEF ProposeValues
  <2>2. values \cap ValidValue[n] \subseteq V
    BY DEF Acceptable, Submitted
  <2> HIDE DEF s, V, L
  <2>3. Consistent(t)
    BY <1>0, <2>2, ProposeValuesConsistent
  <2> QED BY <2>1, <2>3
<1>2. ASSUME NEW batch \in Batches(n), HandleMessages(n, batch)
      PROVE  \E t : Becomes(n, t) /\ Consistent(t)
  <2>1. \A k \in DOMAIN batch : k \in Node /\ batch[k] \in wire[k]
    BY DEF Batches, News
  <2>2. \A k \in DOMAIN batch : batch[k] \in Msg
    BY <2>1 DEF AInv, VInv, IInv, TypeOK
  <2>3. \A k \in DOMAIN batch : MsgWithin(batch[k], Submitted, ListsWithin(Submitted))
    BY <2>1 DEF AInv, VInv
  <2>4. s.phase # "Externalize" =>
          \A k \in DOMAIN batch : IsNews(n, s, k, batch[k]) => MsgWithin(batch[k], V, L)
    BY <2>2, <2>3, NewsWithin
  <2>5. PICK t \in handle_messages(n, s, batch) : Becomes(n, t)
    BY <1>2 DEF HandleMessages
  <2> HIDE DEF s, V, L
  <2>6. Consistent(t)
    BY <1>0, <2>2, <2>4, HandleMessagesConsistent
  <2> QED BY <2>5, <2>6
<1>3. ASSUME NEW nominate \in BOOLEAN, NEW ballot \in BOOLEAN,
             ProcessTimeouts(n, nominate, ballot)
      PROVE  \E t : Becomes(n, t) /\ Consistent(t)
  <2>1. PICK t \in process_timeouts(n, s, nominate, ballot) : Becomes(n, t)
    BY <1>3 DEF ProcessTimeouts
  <2>2. Running(s) /\ (nominate => s.nominate_timer)
    BY <1>3 DEF ProcessTimeouts
  <2>3. nominate => s.nominate_round + 1 \in Round
    <3>1. nominate => s.nominate_round \in Nat /\ s.nominate_round <= MaxRound
      BY <1>0, <1>3, SlotFields DEF ProcessTimeouts, Contained
    <3>2. MaxRound \in Nat /\ 1 .. MaxRound + 1 \subseteq Round
      BY BoundsAssumption
    <3> HIDE DEF s
    <3>3. nominate => s.nominate_round + 1 \in 1 .. MaxRound + 1
      BY <3>1, <3>2
    <3> QED BY <3>2, <3>3
  <2> HIDE DEF s, V, L
  <2>4. Consistent(t)
    BY <1>0, <2>2, <2>3, ProcessTimeoutsConsistent
  <2> QED BY <2>1, <2>4
<1> QED BY <1>1, <1>2, <1>3

(* The invariant holds at the start, and every step keeps it. *)
LEMMA NextConsistent == AInv /\ [Next]_vars => AInv'
<1> SUFFICES ASSUME AInv, [Next]_vars PROVE AInv'
  OBVIOUS
<1>0. VInv' /\ slot \in [Node -> Slot]
  BY NextWithin DEF AInv, VInv, IInv, TypeOK
<1>1. ASSUME NEW n \in Node, NEW t, slot' = [slot EXCEPT ![n] = t], Consistent(t)
      PROVE  AInv'
  <2>1. \A k \in Node : Consistent(slot'[k])
    BY <1>0, <1>1 DEF AInv
  <2> QED BY <1>0, <2>1 DEF AInv
<1>2. CASE UNCHANGED vars
  BY <1>0, <1>2 DEF AInv, vars
<1>3. ASSUME NEW n \in Node,
             \/ \E values \in (SUBSET Proposable[n]) \ {{}} : ProposeValues(n, values)
             \/ \E batch \in Batches(n) : HandleMessages(n, batch)
             \/ \E nominate, ballot \in BOOLEAN : ProcessTimeouts(n, nominate, ballot)
      PROVE  AInv'
  BY <1>1, <1>3, MethodsConsistent DEF Becomes
<1>4. ASSUME NEW n \in Node, Restart(n)
      PROVE  AInv'
  BY <1>1, <1>4, NewSlotConsistent DEF Restart
<1> QED BY <1>2, <1>3, <1>4 DEF Next

(* In every state of the network the fields of every slot are in order. *)
LEMMA SpecConsistent == Spec => []AInv
<1>1. Init => AInv
  BY InitWithin, NewSlotConsistent DEF Init, AInv
<1>2. AInv /\ [Next]_vars => AInv'
  BY NextConsistent
<1> QED BY <1>1, <1>2, PTL DEF Spec

(* No assertion of slot.rs about a slot's own state ever fails, with or without    *)
(* overflow checks: those of do_nominate_phase, do_prepare_phase, do_commit_phase  *)
(* and do_externalize_phase that X and Y are disjoint, that P aborts PP, that C is *)
(* set only with H and not above it, that UpdateC finds a ballot between B and H,  *)
(* and that the ballots of a committed slot have one value.                        *)
THEOREM AssertionsNeverFail == Spec => []AssertionsHold
<1>1. AInv => AssertionsHold
  BY DEF AInv, Consistent, Asserted, AssertionsHold
<1> QED BY <1>1, SpecConsistent, PTL

(* In either build every message that ScpSlot::out_msg sends passes Msg::validate,  *)
(* although timeouts and blocking sets move B by themselves and P and PP are        *)
(* lowered to fit below it, unless a counter of the slot has left the range of a    *)
(* u32 before, above or below.                                                      *)
THEOREM MessagesAreValid == Spec => []MessagesValidInRange
<1>1. AInv => MessagesValidInRange
  BY DEF AInv, Consistent, Asserted, MessagesValidInRange
<1> QED BY <1>1, SpecConsistent, PTL
=============================================================================
