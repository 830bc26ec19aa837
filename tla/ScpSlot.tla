------------------------------ MODULE ScpSlot -------------------------------
(***************************************************************************)
(* The operations of an SCP slot: consensus/scp/src/slot.rs.  A method     *)
(* that changes a Slot is an operator from the node and the slot to the    *)
(* slot it leaves behind, or to the set of those it may leave behind.      *)
(*                                                                         *)
(* A failed assertion, or an overflow in a build that checks for it, stops *)
(* the node in the middle of a method; field "fault" says why.             *)
(***************************************************************************)
EXTENDS ScpVoting

Running(s) == s.fault = "none"

(* assert!(cond) *)
Require(s, cond, tag) ==
  IF Running(s) /\ ~cond THEN [s EXCEPT !.fault = tag] ELSE s

(* Arithmetic on a u32 that stays in range if cond holds; otherwise it panics *)
(* or, in a release build, wraps and the slot goes on.                        *)
Checked(s, cond, side) ==
  LET t == IF cond THEN s ELSE [s EXCEPT !.overflow = @ \cup {side}]
  IN Require(t, cond \/ ~overflow_checks, "overflow")

(* n + 1 *)
CheckedInc(s, n) == Checked(s, n # INFINITY, "above")

find_max_priority_peer(n, peers, round) ==
  LET new == neighbors[n][round] \ peers
      top == {k \in new : \A j \in new : priority[round][j] <= priority[round][k]}
  IN IF top = {} THEN n ELSE CHOOSE k \in top : TRUE

NewSlot(n) ==
  [phase |-> "NominatePrepare", M |-> [k \in Node |-> NoMsg],
   W |-> {}, X |-> {}, Y |-> {}, Z |-> {},
   B |-> ZeroBallot, P |-> NoBallot, PP |-> NoBallot, H |-> NoBallot, C |-> NoBallot,
   last_sent_msg |-> NoMsg,
   max_priority_peers |-> {find_max_priority_peer(n, {}, 1)},
   nominate_round |-> 1, nominate_timer |-> FALSE, ballot_timer |-> FALSE,
   fault |-> "none", overflow |-> {}]

-----------------------------------------------------------------------------
(* Nomination *)

(* X after voting for this node's values, if it is a leader, and its leaders'. *)
VotedNominated(n, s) ==
  LET own == IF n \in s.max_priority_peers THEN s.W ELSE {}
      theirs == UNION {votes_or_accepts_nominated(s.M[k]) :
                         k \in s.max_priority_peers \ {n}}
  IN s.X \cup ((own \cup theirs) \ s.Y)

update_YZ(n, s) ==
  LET accept(accepted) == [s EXCEPT !.X = @ \ accepted, !.Y = @ \cup accepted]
      confirm(t) == [t EXCEPT !.Z = @ \cup additional_values_confirmed_nominated(n, t)]
      check(t) == Require(t, t.X \cap t.Y = {}, "assert")
  IN confirm(check(accept(additional_values_accepted_nominated(n, s))))

do_nominate_phase(n, s) ==
  LET s0 == Require(s, s.phase = "NominatePrepare", "assert")
      s1 == [s0 EXCEPT !.nominate_timer = TRUE,
                       !.X = IF s.Z = {} THEN VotedNominated(n, s) ELSE @]
      first(t) == IF t.Z # {} /\ t.B = ZeroBallot THEN combine_fn[t.Z] ELSE CombineErr
      ballot(t) == IF first(t) = CombineErr THEN t ELSE [t EXCEPT !.B = Bal(1, first(t))]
  IN ballot(update_YZ(n, Require(s1, s1.Z = {} => s1.X \cap s1.Y = {}, "assert")))

-----------------------------------------------------------------------------
(* The Prepare phase *)

(* C is set only with H, and not above it. *)
OrderedCH(s) == s.C # NoBallot => s.H # NoBallot /\ s.C.N <= s.H.N

check_prepare_phase_invariants(s) ==
  LET phase == Require(s, s.phase \in {"NominatePrepare", "Prepare"}, "phase")
      order == Require(phase, /\ (s.P # NoBallot /\ s.PP # NoBallot) => Aborts(s.P, s.PP)
                              /\ OrderedCH(s), "assert")
  IN Require(order, s.C # NoBallot => s.C.X = s.H.X, "search")

(* assert!(C.N <= H.N) wherever both are set. *)
CheckCH(s) ==
  Require(s, (s.C # NoBallot /\ s.H # NoBallot) => s.C.N <= s.H.N, "assert")

(* (1) P and PP from the ballots accepted prepared, which may abort C. *)
UpdateP(accepted, s) ==
  LET p == MaxBallot(accepted)
      pp == MaxBallot({b \in accepted : Aborts(p, b)})
      check(t) == Require(t, (t.P # NoBallot /\ t.PP # NoBallot) => Aborts(t.P, t.PP), "assert")
      abort(t) == IF s.C # NoBallot /\ (Aborts(t.P, s.C) \/ Aborts(t.PP, s.C))
                    THEN [check(t) EXCEPT !.C = NoBallot] ELSE check(t)
  IN abort(IF accepted = {} THEN s ELSE [s EXCEPT !.P = p, !.PP = pp])

(* (2) H from the ballots confirmed prepared, which end nomination. *)
UpdateH(n, s) ==
  LET confirm(h) ==
        IF h = NoBallot THEN s
        ELSE [s EXCEPT !.phase = "Prepare",
                       !.nominate_timer = IF s.phase = "NominatePrepare" THEN FALSE ELSE @,
                       !.H = IF BallotLT(h, @) THEN @ ELSE h]
  IN confirm(MaxBallot(ballots_confirmed_prepared(n, s)))

(* Raise the counter of c so that p no longer aborts it. *)
RaiseAbove(c, p) ==
  IF Aborts(p, c) THEN Bal(IF c.X > p.X THEN p.N ELSE Inc(p.N), c.X) ELSE c

(* Mutant: C is set although B is already above H. *)
UpdateC_passed(s) ==
  LET c0 == Bal(IF s.H.X >= s.B.X THEN s.B.N ELSE Inc(s.B.N), s.H.X)
      c == RaiseAbove(RaiseAbove(c0, s.P), s.PP)
  IN IF s.C = NoBallot /\ s.H # NoBallot /\ ~Aborts(s.P, s.H) /\ ~Aborts(s.PP, s.H)
       THEN [Require(s, BallotLE(s.B, c) /\ c.N <= s.H.N, "assert") EXCEPT !.C = c]
       ELSE s

(* (3) C, the lowest ballot this node votes to commit. *)
UpdateC(s) ==
  LET c0 == Bal(IF s.H.X >= s.B.X THEN s.B.N ELSE Inc(s.B.N), s.H.X)
      c == RaiseAbove(RaiseAbove(c0, s.P), s.PP)
  IN IF /\ s.C = NoBallot /\ s.H # NoBallot /\ BallotLE(s.B, s.H)
        /\ ~Aborts(s.P, s.H) /\ ~Aborts(s.PP, s.H)
       THEN [Require(s, BallotLE(s.B, c) /\ c.N <= s.H.N, "assert") EXCEPT !.C = c]
       ELSE s

(* Mutant: the ballot takes the value of h without a higher counter. *)
MoveB_same_counter(s) == [s EXCEPT !.B = Bal(MaxOf(s.B.N, s.H.N), s.H.X)]

(* b becomes h, with a higher counter whenever its value changes. *)
MoveB(s) ==
  IF s.B.X # s.H.X
    THEN [CheckedInc(s, s.B.N) EXCEPT !.B = Bal(MaxOf(Inc(s.B.N), s.H.N), s.H.X)]
    ELSE [s EXCEPT !.B = Bal(MaxOf(s.B.N, s.H.N), s.H.X)]

(* Mutant: P is looked for among ballots with the value of B before it moved. *)
EnterCommit_stale(n, s, committed) ==
  LET c == MinBallot({Bal(Lowest(committed[x]), x) : x \in DOMAIN committed})
      h == Bal(Highest(RangeOf(committed, c.X)), c.X)
      s1 == [MoveB([s EXCEPT !.C = c, !.H = h]) EXCEPT
               !.phase = "Commit", !.nominate_timer = FALSE]
      enter(p) == [Require(Require(s1, c.N <= h.N, "assert"), p # NoBallot, "search") EXCEPT
                     !.P = p, !.PP = NoBallot]
  IN enter(MaxBallot({b \in ballots_accepted_prepared(n, s1) : b.X = s.B.X}))

(* (4) Some ballot is accepted committed: enter the Commit phase. *)
EnterCommit(n, s, committed) ==
  LET c == MinBallot({Bal(Lowest(committed[x]), x) : x \in DOMAIN committed})
      h == Bal(Highest(RangeOf(committed, c.X)), c.X)
      s1 == [MoveB([s EXCEPT !.C = c, !.H = h]) EXCEPT
               !.phase = "Commit", !.nominate_timer = FALSE]
      enter(p) == [Require(Require(s1, c.N <= h.N, "assert"), p # NoBallot, "search") EXCEPT
                     !.P = p, !.PP = NoBallot]
  IN enter(MaxBallot({b \in ballots_accepted_prepared(n, s1) : b.X = s1.B.X}))

(* The ballot to catch up with when a blocking set is on a higher one. *)
Unblock(n, s, counter, x) ==
  maybe_set_ballot_timer(n, [s EXCEPT !.ballot_timer = FALSE, !.B = Bal(counter, x)])

(* (1) to (3) *)
UpdatePHC(n, accepted, s) == CheckCH(UpdateC(CheckCH(UpdateH(n, UpdateP(accepted, s)))))

(* (8) and (9).  "again" says that the method then calls itself. *)
FinishPrepare(n, s) ==
  LET finish(t, counter, x) ==
        IF t.B.N < counter /\ x # NoList
          THEN [slot |-> Unblock(n, t, counter, x), again |-> TRUE]
          ELSE [slot |-> check_prepare_phase_invariants(t), again |-> FALSE]
      s8 == IF s.H = NoBallot THEN s ELSE MoveB(s)
  IN finish(s8, get_unblocking_ballot_counter(n, s8), get_next_ballot_values(n, s8))

(* (4), or else (8) and (9) *)
ConcludePrepare(n, s) ==
  {IF DOMAIN f = {} THEN FinishPrepare(n, s)
   ELSE [slot |-> EnterCommit(n, s, f), again |-> FALSE] :
     f \in ballots_accepted_committed(n, s)}

(* Mutant: no early return when the messages no longer show P accepted. *)
PreparePass_forgets_P(n, s) ==
  LET s0 == check_prepare_phase_invariants(s)
  IN ConcludePrepare(n, UpdatePHC(n, ballots_accepted_prepared(n, s0), s0))

(* Nothing more is done if the messages no longer show P accepted. *)
UpdateBallots(n, accepted, s) ==
  IF accepted # {} /\ BallotLT(MaxBallot(accepted), s.P)
    THEN {[slot |-> s, again |-> FALSE]}
    ELSE ConcludePrepare(n, UpdatePHC(n, accepted, s))

(* One run through the method. *)
PreparePass(n, s) ==
  LET s0 == check_prepare_phase_invariants(s)
  IN UpdateBallots(n, ballots_accepted_prepared(n, s0), s0)

(* A pass that found the ballot blocked calls the method again.  That call is *)
(* not blocked, and when it returns the Prepare invariants are checked.       *)
do_prepare_phase(n, s) ==
  UNION {IF ~r.again THEN {r.slot}
         ELSE {check_prepare_phase_invariants(Require(t.slot, ~t.again, "depth")) :
                 t \in PreparePass(n, r.slot)} :
           r \in PreparePass(n, s)}

-----------------------------------------------------------------------------
(* The Commit phase *)

check_commit_phase_invariants(s) ==
  Require(Require(s, s.phase = "Commit", "phase"),
         /\ s.B # ZeroBallot /\ s.PP = NoBallot
         /\ \A b \in {s.P, s.H, s.C} : b # NoBallot /\ b.X = s.B.X,
         "assert")

(* C and H become the ends of a range of counters, if it is not empty. *)
SetCH(s, range) ==
  IF range = {} THEN s
  ELSE [s EXCEPT !.C = Bal(Lowest(range), s.B.X), !.H = Bal(Highest(range), s.B.X)]

(* (5) P, the highest ballot accepted prepared with the value of B. *)
UpdateCommitP(n, s) ==
  LET raise(p) == IF BallotLT(p, s.P) THEN s ELSE [s EXCEPT !.P = p]
  IN raise(MaxBallot({b \in ballots_accepted_prepared(n, s) : b.X = s.B.X}))

(* (7) Some ballot is confirmed committed: externalize its value. *)
EnterExternalize(s, confirmed) ==
  [SetCH(s, confirmed) EXCEPT !.phase = "Externalize",
     !.nominate_timer = FALSE, !.ballot_timer = FALSE]

(* (8) and (9) *)
FinishCommit(n, s) ==
  LET s8 == [s EXCEPT !.B.N = MaxOf(@, s.H.N)]
      counter == get_unblocking_ballot_counter(n, s8)
  IN IF s8.B.N < counter
       THEN [slot |-> [s8 EXCEPT !.ballot_timer = FALSE, !.B.N = counter], again |-> TRUE]
       ELSE [slot |-> check_commit_phase_invariants(s8), again |-> FALSE]

(* (7), or else (8) and (9) *)
ConcludeCommit(n, s) ==
  {IF confirmed = {} THEN FinishCommit(n, s)
   ELSE [slot |-> EnterExternalize(s, confirmed), again |-> FALSE] :
     confirmed \in ballots_confirmed_committed(n, s)}

(* (6) C and H from the range accepted committed, and what follows. *)
UpdateCH(n, s) ==
  UNION {ConcludeCommit(n, CheckCH(SetCH(s, RangeOf(f, s.B.X)))) :
           f \in ballots_accepted_committed(n, s)}

(* One run through the method. *)
CommitPass(n, s) == UpdateCH(n, UpdateCommitP(n, check_commit_phase_invariants(s)))

do_commit_phase(n, s) ==
  UNION {IF ~r.again THEN {r.slot}
         ELSE {check_commit_phase_invariants(Require(t.slot, ~t.again, "depth")) :
                 t \in CommitPass(n, r.slot)} :
           r \in CommitPass(n, s)}

-----------------------------------------------------------------------------
(* The Externalize phase *)

check_externalize_phase_invariants(s) ==
  Require(s, /\ s.phase = "Externalize" /\ s.B # ZeroBallot /\ s.PP = NoBallot
            /\ \A b \in {s.H, s.C} : b # NoBallot /\ b.X = s.B.X, "assert")

(* Mutant: C and H are set anew, as in the Commit phase. *)
do_externalize_phase_resets_C(n, s) ==
  LET s0 == check_externalize_phase_invariants(s)
  IN {SetCH(s0, confirmed) : confirmed \in ballots_confirmed_committed(n, s0)}

do_externalize_phase(n, s) ==
  LET s0 == check_externalize_phase_invariants(s)
  IN {check_externalize_phase_invariants(
        IF confirmed = {} THEN s0
        ELSE [s0 EXCEPT !.H.N = MaxOf(@, Highest(confirmed))]) :
          confirmed \in ballots_confirmed_committed(n, s0)}

(* Each phase may fall through to the next. *)
PrepareStep(n, s) ==
  IF s.phase \in {"NominatePrepare", "Prepare"} THEN do_prepare_phase(n, s) ELSE {s}
CommitStep(n, s) ==
  IF Running(s) /\ s.phase = "Commit" THEN do_commit_phase(n, s) ELSE {s}
ExternalizeStep(n, s) ==
  IF Running(s) /\ s.phase = "Externalize" THEN do_externalize_phase(n, s) ELSE {s}

do_ballot_protocol(n, s) ==
  UNION {ExternalizeStep(n, u) :
           u \in UNION {CommitStep(n, t) :
                          t \in PrepareStep(n, maybe_set_ballot_timer(n, s))}}

-----------------------------------------------------------------------------
(* The message the slot's state calls for *)

(* Mutant: P is sent as it is. *)
ClampedP_unclamped(s) == s.P

(* P and PP as sent: the highest not above B, and not above P. *)
ClampedP(s) ==
  IF BallotLT(s.B, s.P)
    THEN Bal(IF s.P.X > s.B.X THEN Dec(s.B.N) ELSE s.B.N, s.P.X) ELSE s.P

ClampedPP(s) ==
  LET p == ClampedP(s)
  IN CASE p = NoBallot \/ s.PP = NoBallot -> NoBallot
       [] p # NoBallot /\ BallotLT(p, s.PP) ->
            IF s.PP.N > 0 THEN Bal(IF s.PP.X > p.X THEN Dec(p.N) ELSE p.N, s.PP.X)
            ELSE NoBallot
       [] OTHER -> s.PP

(* Mutant: the counter of C is sent whether or not C is set. *)
PreparePayload_unguarded(s) ==
  LET hn == IF s.H # NoBallot /\ s.H.X = s.B.X THEN s.H.N ELSE 0
  IN [B |-> s.B, P |-> ClampedP(s), PP |-> ClampedPP(s), HN |-> hn, CN |-> s.C.N]

PreparePayload(s) ==
  LET hn == IF s.H # NoBallot /\ s.H.X = s.B.X THEN s.H.N ELSE 0
  IN [B |-> s.B, P |-> ClampedP(s), PP |-> ClampedPP(s), HN |-> hn,
      CN |-> IF s.C # NoBallot /\ hn # 0 THEN s.C.N ELSE 0]

(* Topics are records whose fields depend on the phase. *)
OutTopic(s) ==
  LET topic(q) ==
        CASE s.phase = "NominatePrepare" /\ s.B # ZeroBallot ->
               [type |-> "NominatePrepare", X |-> s.X, Y |-> s.Y,
                B |-> q.B, P |-> q.P, PP |-> q.PP, HN |-> q.HN, CN |-> q.CN]
          [] s.phase = "NominatePrepare" /\ s.B = ZeroBallot ->
               IF s.X \cup s.Y = {} THEN NoMsg
               ELSE [type |-> "Nominate", X |-> s.X, Y |-> s.Y]
          [] s.phase = "Prepare" ->
               [type |-> "Prepare", B |-> q.B, P |-> q.P, PP |-> q.PP,
                HN |-> q.HN, CN |-> q.CN]
          [] s.phase = "Commit" ->
               [type |-> "Commit", B |-> s.B, PN |-> MaxOf(ClampedP(s).N, 0),
                HN |-> MaxOf(s.H.N, 0), CN |-> MaxOf(s.C.N, 0)]
          [] s.phase = "Externalize" ->
               [type |-> "Externalize", C |-> s.C, HN |-> s.H.N]
  IN topic(PreparePayload(s))

(* self.B.N - 1, and the counter of the clamped P less one, at zero. *)
Underflows(s) ==
  \/ BallotLT(s.B, s.P) /\ s.P.X > s.B.X /\ s.B.N = 0
  \/ /\ s.P # NoBallot /\ BallotLT(ClampedP(s), s.PP) /\ s.PP.N > 0
     /\ s.PP.X > ClampedP(s).X /\ ClampedP(s).N = 0

(* The message is recorded, and sent, unless it was the last one sent too. *)
out_msg(s) ==
  LET s1 == Checked(s, ~Underflows(s), "below")
      send(m) == IF m = NoMsg THEN s1
                 ELSE [Require(s1, WellFormed(m), "message") EXCEPT !.last_sent_msg = m]
  IN send(OutTopic(s))

(* A node that panics in a call sends nothing and is left where it was. *)
Outcomes(s, results) ==
  {IF Running(t) THEN t ELSE [s EXCEPT !.fault = t.fault, !.overflow = t.overflow] :
     t \in {out_msg(r) : r \in {q \in results : Running(q)}}
            \cup {q \in results : ~Running(q)}}

-----------------------------------------------------------------------------
(* The methods of ScpSlot *)

propose_values(n, s, values) ==
  LET valid == values \cap ValidValue[n]
      s1 == do_nominate_phase(n, [s EXCEPT !.W = @ \cup valid])
  IN CASE s.phase # "NominatePrepare" \/ s.Z # {} -> Outcomes(s, {s})
       [] s.phase = "NominatePrepare" /\ s.Z = {} /\ valid = {} -> {s}
       [] OTHER -> Outcomes(s, do_ballot_protocol(n, s1))

ValuesIn(m) ==
  UNION {values_of[x] : x \in ListsOf(m) \ {EmptyList}}
    \cup votes_or_accepts_nominated(m)

(* Mutant: values are not validated. *)
IsNews_unvalidated(n, s, k, m) == k # n /\ TopicLT(s.M[k], m) /\ WellFormed(m)

(* Whether the message m from k replaces the one the slot holds. *)
IsNews(n, s, k, m) ==
  /\ k # n
  /\ TopicLT(s.M[k], m)
  /\ WellFormed(m)
  /\ s.phase # "Externalize" => ValuesIn(m) \subseteq ValidValue[n]

(* batch: the messages that come in at once, by sender. *)
handle_messages(n, s, batch) ==
  LET news == {k \in DOMAIN batch : IsNews(n, s, k, batch[k])}
      s1 == [s EXCEPT !.M = [k \in Node |-> IF k \in news THEN batch[k] ELSE @[k]]]
      s2 == IF s.phase = "NominatePrepare" THEN do_nominate_phase(n, s1) ELSE s1
  IN IF news = {} THEN {s} ELSE Outcomes(s, do_ballot_protocol(n, s2))

NominateTimeout(n, s) ==
  LET round == s.nominate_round + 1
  IN do_nominate_phase(n,
       [s EXCEPT !.nominate_timer = FALSE, !.nominate_round = round,
          !.max_priority_peers = @ \cup {find_max_priority_peer(n, @, round)}])

(* B moves to the next counter, with the value x unless the node is locked. *)
RaiseBallot(s, x) ==
  LET s1 == [CheckedInc(s, s.B.N) EXCEPT !.ballot_timer = FALSE]
  IN CASE s.phase = "Commit" -> [s1 EXCEPT !.B.N = Inc(@)]
       [] s.phase \in {"NominatePrepare", "Prepare"} /\ x # NoList ->
            [s1 EXCEPT !.B = Bal(Inc(s.B.N), x)]
       [] OTHER -> s1

(* A panic ends the call. *)
BallotTimeout(n, s) ==
  IF Running(s) THEN RaiseBallot(s, get_next_ballot_values(n, s)) ELSE s
ContinueBallot(n, s) ==
  IF Running(s) THEN do_ballot_protocol(n, s) ELSE {s}

(* nominate, ballot: which of the two timers has expired. *)
process_timeouts(n, s, nominate, ballot) ==
  LET s1 == IF nominate THEN NominateTimeout(n, s) ELSE s
  IN Outcomes(s, IF ballot THEN ContinueBallot(n, BallotTimeout(n, s1)) ELSE {s1})
=============================================================================
