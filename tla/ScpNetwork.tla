----------------------------- MODULE ScpNetwork -----------------------------
(***************************************************************************)
(* A network of SCP nodes deciding one slot: node/node_impl.rs on top of   *)
(* slot.rs, and the peers that carry their messages.                       *)
(*                                                                         *)
(* The transport promises nothing: a message that was sent may arrive any  *)
(* number of times, in any order with others, or never.  A node that       *)
(* restarts has lost its slot, which is not stored anywhere, while its     *)
(* old messages may still be on their way.                                 *)
(***************************************************************************)
EXTENDS ScpSlot

CONSTANTS
  Proposable,       \* the values that clients of each node can propose
  KeepOld,          \* FALSE: only the last message of each node can arrive
  MaxBatch,         \* bound: messages handled at once
  MaxCounter,       \* bound: ballot counter up to which each node's timer expires
  MaxRound,         \* bound: nomination rounds
  MaxRestarts       \* bound: restarts, of all nodes together

ASSUME ProposableAssumption == Proposable \in [Node -> SUBSET Value]
ASSUME BoundsAssumption ==
  /\ KeepOld \in BOOLEAN /\ MaxCounter \in [Node -> Nat]
  /\ {MaxBatch, MaxRound, MaxRestarts} \subseteq Nat
  /\ 1 .. MaxRound + 1 \subseteq Round

VARIABLES
  slot,             \* the slot of each node
  wire,             \* the messages of each node that may still arrive somewhere
  externalized,     \* whether Node::externalize has moved on to the next slot
  restarts          \* how often each node has restarted

vars == <<slot, wire, externalized, restarts>>

(* Types.  No counter leaves the range of a u32, no ballot takes a value that      *)
(* combine_fn cannot return, and every message on the wire is one of the topics    *)
(* of msg.rs, with an Externalize message only from a slot that has C and H.       *)
TypeOK ==
  /\ slot \in [Node -> Slot]
  /\ wire \in [Node -> SUBSET Msg]
  /\ externalized \in [Node -> BOOLEAN]
  /\ restarts \in [Node -> Nat]

Init ==
  /\ slot = [n \in Node |-> NewSlot(n)]
  /\ wire = [n \in Node |-> {}]
  /\ externalized = [n \in Node |-> FALSE]
  /\ restarts = [n \in Node |-> 0]

TotalRestarts ==
  Cardinality({r \in Node \X (1 .. MaxRestarts) : r[2] <= restarts[r[1]]})

(* The slot of n becomes s, and what it sent, if anything, is on the wire. *)
Becomes(n, s) ==
  /\ slot' = [slot EXCEPT ![n] = s]
  /\ wire' = IF s.last_sent_msg = slot[n].last_sent_msg THEN wire
             ELSE [wire EXCEPT ![n] = IF KeepOld THEN @ \cup {s.last_sent_msg}
                                      ELSE {s.last_sent_msg}]

(* Node::externalize, when the slot returned an Externalize message. *)
NoticesExternalize(n, s) ==
  externalized' = [externalized EXCEPT ![n] =
    @ \/ (/\ s.last_sent_msg # slot[n].last_sent_msg
          /\ s.last_sent_msg.type = "Externalize")]

(* The current slot takes proposals; an externalized one does not. *)
ProposeValues(n, values) ==
  /\ Running(slot[n]) /\ ~externalized[n]
  /\ \E s \in propose_values(n, slot[n], values) :
       Becomes(n, s) /\ NoticesExternalize(n, s)
  /\ UNCHANGED restarts

HandleMessages(n, batch) ==
  /\ Running(slot[n])
  /\ \E s \in handle_messages(n, slot[n], batch) :
       Becomes(n, s) /\ NoticesExternalize(n, s)
  /\ UNCHANGED restarts

(* Node::process_timeouts does not look at what the slot returns. *)
ProcessTimeouts(n, nominate, ballot) ==
  /\ Running(slot[n]) /\ ~externalized[n]
  /\ nominate => slot[n].nominate_timer /\ slot[n].nominate_round <= MaxRound
  /\ ballot => /\ slot[n].ballot_timer
               /\ slot[n].B.N < MaxCounter[n] \/ slot[n].B.N = INFINITY
  /\ nominate \/ ballot
  /\ \E s \in process_timeouts(n, slot[n], nominate, ballot) : Becomes(n, s)
  /\ UNCHANGED <<externalized, restarts>>

(* The process of n ends, for whatever reason, and is started again. *)
Restart(n) ==
  /\ TotalRestarts < MaxRestarts
  /\ restarts' = [restarts EXCEPT ![n] = @ + 1]
  /\ slot' = [slot EXCEPT ![n] = NewSlot(n)]
  /\ externalized' = [externalized EXCEPT ![n] = FALSE]
  /\ UNCHANGED wire

(* What node n has yet to handle of the messages of node k. *)
News(k, n) == {m \in wire[k] : IsNews(n, slot[n], k, m)}

(* One message from each of at most MaxBatch senders.  Several from the same  *)
(* sender come to the same: they are taken in descending order, so that only  *)
(* the highest acceptable one has an effect.                                  *)
Batches(n) ==
  UNION {{batch \in [K -> UNION {News(k, n) : k \in K}] :
            \A k \in K : batch[k] \in News(k, n)} :
           K \in {S \in SUBSET {k \in Node : News(k, n) # {}} :
                   S # {} /\ Cardinality(S) <= MaxBatch}}

Next ==
  \E n \in Node :
    \/ \E values \in (SUBSET Proposable[n]) \ {{}} : ProposeValues(n, values)
    \/ \E batch \in Batches(n) : HandleMessages(n, batch)
    \/ \E nominate, ballot \in BOOLEAN : ProcessTimeouts(n, nominate, ballot)
    \/ Restart(n)

Spec == Init /\ [][Next]_vars

(* Delivery is fair: of the last message of a node, no other running node can   *)
(* be left without news for ever.  Where only last messages are on the wire     *)
(* (KeepOld = FALSE) this is weak fairness of the delivery from k to n.          *)
Fairness == \A n, k \in Node : []<>(~Running(slot[n]) \/ News(k, n) = {})

FairSpec == Spec /\ Fairness

-----------------------------------------------------------------------------
(* Safety *)

(* Nodes that have kept their slot from the start. *)
Steady == {n \in Node : restarts[n] = 0}

HasExternalized(n) == slot[n].phase = "Externalize"

Quorums == [n \in Node |-> {FindQuorum(n, sat) : sat \in SatFn} \ {{}}]

(* Any two quorums share a node that has not forgotten what it said. *)
IntactIntersection ==
  \A n, k \in Node : \A Q \in Quorums[n], R \in Quorums[k] : Q \cap R \cap Steady # {}

(* No two nodes externalize different blocks in a slot, however their calls,    *)
(* messages, timeouts and restarts interleave, as long as any two quorums that  *)
(* findQuorum can return share a node that did not restart.                     *)
Agreement ==
  IntactIntersection =>
    \A n, k \in Node :
      HasExternalized(n) /\ HasExternalized(k) => slot[n].C.X = slot[k].C.X

(* The assertions of slot.rs on the slot's own state never fail, whatever quorums   *)
(* and blocking sets the searches return: X and Y stay disjoint, P aborts PP, C is  *)
(* set only with H and not above it, UpdateC puts C between B and H, and in Commit  *)
(* and Externalize the ballots have one value.                                      *)
AssertionsHold == \A n \in Node : slot[n].fault # "assert"

(* Every message a slot sends passes Msg::validate, although P and PP are lowered   *)
(* to fit below a ballot that timeouts and blocking sets move by themselves, and a  *)
(* timeout at u32::MAX wraps the counter of that ballot.                            *)
MessagesValid == \A n \in Node : slot[n].fault # "message"

(* The same of the slots whose counters have stayed within a u32, additions and     *)
(* subtractions.                                                                    *)
MessagesValidInRange ==
  \A n \in Node : slot[n].fault = "message" => slot[n].overflow # {}

(* A search finds again, for other candidates, what an earlier one found: whatever  *)
(* is confirmed prepared has aborted a C with another value, and a value that is    *)
(* accepted committed is accepted prepared.  A call of do_prepare_phase or          *)
(* do_commit_phase to itself does not call itself again.                            *)
SearchesAgree == \A n \in Node : slot[n].fault \notin {"search", "depth"}

(* A node externalizes something, and only values that clients have submitted to *)
(* some node and that its own validity_fn accepts, although it takes values from *)
(* its peers' messages and combines them, and ballots start with no values.      *)
Validity ==
  \A n \in Node : HasExternalized(n) =>
    /\ slot[n].C.X \in List
    /\ values_of[slot[n].C.X] \subseteq ValidValue[n] \cap UNION {Proposable[k] : k \in Node}

-----------------------------------------------------------------------------
(* What a step may never do *)

Restarted(n) == restarts'[n] # restarts[n]

(* From ballot a to ballot b without going back or changing the value alone. *)
Forward(a, b) == BallotLE(a, b) /\ (b.X # a.X => a.N < b.N)

(* The ballot never goes back, and never changes its value without a higher       *)
(* counter, whichever of do_nominate_phase, MoveB, a blocking set or a timeout    *)
(* sets it.  Nor does a timeout on a ballot with the counter u32::MAX, which the  *)
(* Externalize messages of peers may have brought: where B.N + 1 wraps to 0, the  *)
(* same messages take B back up in the same call, by way of H or as a blocking    *)
(* set.  That u32::MAX is reached by counting, 2^32 increments, is out of a       *)
(* run's bounds.                                                                  *)
BallotMonotone ==
  [][\A n \in Node : ~Restarted(n) => Forward(slot[n].B, slot'[n].B)]_vars

(* The same of the slots that have not counted past u32::MAX: what holds even if  *)
(* timeouts alone could count that far, with no H to bring B back.                *)
BallotMonotoneInRange ==
  [][\A n \in Node : ~Restarted(n) /\ "above" \notin slot'[n].overflow =>
       Forward(slot[n].B, slot'[n].B)]_vars

(* Once a slot has externalized, the messages that keep coming in for it do not   *)
(* change what it externalized, and H can only grow.                              *)
DecisionStable ==
  [][\A n \in Node : HasExternalized(n) /\ ~Restarted(n) =>
       /\ slot'[n].phase = "Externalize"
       /\ slot'[n].C = slot[n].C
       /\ slot[n].H.N <= slot'[n].H.N]_vars

(* Within a phase the highest ballot accepted prepared never goes back, although  *)
(* it is computed anew from whatever messages the node holds; in the Prepare      *)
(* phase neither does the highest ballot confirmed prepared.                      *)
PNonDecreasing ==
  [][\A n \in Node : ~Restarted(n) /\ slot'[n].phase = slot[n].phase =>
       /\ BallotLE(slot[n].P, slot'[n].P)
       /\ slot[n].phase = "Prepare" => BallotLE(slot[n].H, slot'[n].H)]_vars

-----------------------------------------------------------------------------
(* The network as one decision *)

(* The nodes of Q that have kept their slots have accepted to commit v. *)
CommittedTo(Q, v) ==
  \A k \in Q \cap Steady : slot[k].phase \in {"Commit", "Externalize"} /\ slot[k].B.X = v

(* What some quorum is committed to, and what each node has externalized. *)
Chosen == {v \in List : \E n \in Node : \E Q \in Quorums[n] : CommittedTo(Q, v)}
Learned == [n \in Node |-> IF HasExternalized(n) THEN {slot[n].C.X} ELSE {}]

Decision == INSTANCE Consensus WITH
  Value <- {x \in List : values_of[x] \subseteq UNION {Proposable[k] : k \in Node}},
  intact <- IntactIntersection, chosen <- Chosen, learned <- Learned

(* The slot is decided once, for all time: as soon as a quorum has accepted to     *)
(* commit a value, which clients have proposed, no node externalizes another,      *)
(* although nodes, the first that externalized it among them, restart without      *)
(* their slot and their peers still hold or receive what they said before.         *)
DecidesOnce == Decision!Spec

-----------------------------------------------------------------------------
(* Liveness *)

Uncontested == \A n, k \in Node : \A v \in slot[n].W, w \in slot[k].W : v = w

(* If no second value is proposed to the slot, a value that reaches one node's    *)
(* nomination is decided by all nodes, if their last messages arrive, whichever   *)
(* ballots they are left on by timeouts.                                          *)
Termination ==
  []Uncontested =>
    ((\E n \in Node : slot[n].W # {}) ~>
       (\A k \in Node : HasExternalized(k) \/ ~Running(slot[k])))

(* Once some node has externalized, every node does, also one that has lost its   *)
(* slot in a restart and whose peers drop its new messages because they hold      *)
(* greater ones from before.                                                      *)
CatchUp ==
  (\E n \in Node : HasExternalized(n)) ~>
    (\A k \in Node : HasExternalized(k) \/ ~Running(slot[k]))

-----------------------------------------------------------------------------
(* What comments in the code say, and the code does not do *)

(* Node::externalize is to "advance the current slot".  When all slots have       *)
(* externalized and every message has been handled by everybody, so that nothing  *)
(* more can happen, every node has advanced.  It has not if its slot externalized *)
(* in a timeout, where Node does not look: the slot does not repeat its message.  *)
MovesOn ==
  (\A n \in Node : HasExternalized(n) /\ \A k \in Node : News(k, n) = {}) =>
    \A n \in Node : externalized[n]

(* "These invariants must be true before and after do_prepare_phase."             *)
(* check_prepare_phase_invariants and check_commit_phase_invariants never find    *)
(* the slot in a later phase.                                                     *)
PhaseAssertionsHold == \A n \in Node : slot[n].fault # "phase"
=============================================================================
