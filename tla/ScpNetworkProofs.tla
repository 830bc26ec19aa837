-------------------------- MODULE ScpNetworkProofs ---------------------------
(***************************************************************************)
(* Theorems about the network, for any number of nodes, any quorum sets,   *)
(* values and bounds: every state is well typed, an externalized value     *)
(* stays, and no two nodes externalize different values if any two quorums *)
(* share a node that has kept its slot.                                    *)
(*                                                                         *)
(* Agreement rests on what a node that has kept its slot has promised: all *)
(* its Commit and Externalize messages, wherever they are, bear the value  *)
(* of its ballot, which cannot change any more.                            *)
(***************************************************************************)
EXTENDS ScpNetwork, ScpSlotProofs

-----------------------------------------------------------------------------
(* The inductive invariant *)

SoundSlots == \A n \in Node : Sound(slot[n])

(* m, if it accepts a value committed, bears the value that k is locked on. *)
KeptBy(k, m) ==
  Committed(m) => slot[k].phase \in Locked /\ CommittedValue(m) = slot[k].B.X

(* The messages of a node that has kept its slot bear the value it is locked on. *)
Promises ==
  \A k \in Steady :
    /\ \A m \in wire[k] : KeptBy(k, m)
    /\ \A n \in Node : KeptBy(k, slot[n].M[k])

(* k is locked on the value of the ballot of n. *)
LockedWith(k, n) == slot[k].phase \in Locked /\ slot[k].B.X = slot[n].B.X

(* Whatever a node has externalized, the nodes of one of its quorums that have     *)
(* kept their slots are locked on.                                                 *)
Backed(n) ==
  HasExternalized(n) =>
    \E sat \in SatFn :
      /\ FindQuorum(n, sat) # {}
      /\ \A k \in FindQuorum(n, sat) \cap Steady : LockedWith(k, n)

IInv == TypeOK /\ SoundSlots /\ Promises /\ (\A n \in Node : Backed(n))

-----------------------------------------------------------------------------
(* Steps *)

(* What all but a restart do: n advances, with messages from the wire. *)
Advance(n, t) ==
  /\ Advances(n, slot[n], t)
  /\ \A k \in Node : t.M[k] = slot[n].M[k] \/ t.M[k] \in wire[k]
  /\ Becomes(n, t)
  /\ restarts' = restarts

(* Every call of a method of Node is such a step. *)
LEMMA MethodsAdvance ==
  ASSUME IInv, NEW n \in Node,
         \/ \E values \in (SUBSET Proposable[n]) \ {{}} : ProposeValues(n, values)
         \/ \E batch \in Batches(n) : HandleMessages(n, batch)
         \/ \E nominate, ballot \in BOOLEAN : ProcessTimeouts(n, nominate, ballot)
  PROVE  /\ \E t : Advance(n, t)
         /\ externalized' \in [Node -> BOOLEAN]
<1> DEFINE s == slot[n]
<1>0. Sound(s) /\ s \in Slot /\ externalized \in [Node -> BOOLEAN]
  BY DEF IInv, SoundSlots, Sound, TypeOK
<1>1. ASSUME NEW values, ProposeValues(n, values)
      PROVE  \E t : Advance(n, t) /\ (externalized' \in [Node -> BOOLEAN])
  <2>1. PICK t \in propose_values(n, s, values) : Becomes(n, t) /\ NoticesExternalize(n, t)
    BY <1>1 DEF ProposeValues
  <2>2. Advances(n, s, t) /\ t.M = s.M
    BY <1>0, ProposeValuesAdvance
  <2>3. externalized' \in [Node -> BOOLEAN]
    BY <1>0, <2>1 DEF NoticesExternalize
  <2>4. Advance(n, t)
    BY <1>1, <2>1, <2>2 DEF Advance, ProposeValues
  <2>5. QED
    BY <2>3, <2>4
<1>2. ASSUME NEW batch \in Batches(n), HandleMessages(n, batch)
      PROVE  \E t : Advance(n, t) /\ (externalized' \in [Node -> BOOLEAN])
  <2>1. \A k \in DOMAIN batch : k \in Node /\ batch[k] \in wire[k]
    BY DEF Batches, News
  <2>2. \A k \in DOMAIN batch : batch[k] \in Msg
    BY <2>1 DEF IInv, TypeOK
  <2>3. PICK t \in handle_messages(n, s, batch) : Becomes(n, t) /\ NoticesExternalize(n, t)
    BY <1>2 DEF HandleMessages
  <2>4. /\ Advances(n, s, t)
        /\ \A k \in Node : t.M[k] = s.M[k] \/ (k \in DOMAIN batch /\ t.M[k] = batch[k])
    BY <1>0, <2>2, HandleMessagesAdvance
  <2>5. externalized' \in [Node -> BOOLEAN]
    BY <1>0, <2>3 DEF NoticesExternalize
  <2>6. Advance(n, t)
    BY <1>2, <2>1, <2>3, <2>4 DEF Advance, HandleMessages
  <2>7. QED
    BY <2>5, <2>6
<1>3. ASSUME NEW nominate \in BOOLEAN, NEW ballot \in BOOLEAN,
             ProcessTimeouts(n, nominate, ballot)
      PROVE  \E t : Advance(n, t) /\ (externalized' \in [Node -> BOOLEAN])
  <2>1. PICK t \in process_timeouts(n, s, nominate, ballot) : Becomes(n, t)
    BY <1>3 DEF ProcessTimeouts
  <2>2. nominate => s.nominate_round + 1 \in Round
    <3>1. nominate => s.nominate_round \in Nat /\ s.nominate_round <= MaxRound
      BY <1>0, <1>3, SlotFields DEF ProcessTimeouts
    <3>2. MaxRound \in Nat /\ 1 .. MaxRound + 1 \subseteq Round
      BY BoundsAssumption
    <3> HIDE DEF s
    <3>3. nominate => s.nominate_round + 1 \in 1 .. MaxRound + 1
      BY <3>1, <3>2
    <3>4. QED
      BY <3>2, <3>3
  <2>3. Advances(n, s, t) /\ t.M = s.M
    BY <1>0, <2>2, ProcessTimeoutsAdvance
  <2>4. Advance(n, t)
    BY <1>3, <2>1, <2>3 DEF Advance, ProcessTimeouts
  <2>5. QED
    BY <1>0, <1>3, <2>4 DEF ProcessTimeouts
<1>4. QED
  BY <1>1, <1>2, <1>3

(* What such a step changes. *)
LEMMA AdvanceEffect ==
  ASSUME IInv, NEW n \in Node, NEW t, Advance(n, t)
  PROVE  /\ slot' \in [Node -> Slot] /\ wire' \in [Node -> SUBSET Msg]
         /\ slot'[n] = t /\ \A k \in Node \ {n} : slot'[k] = slot[k]
         /\ \A k \in Node \ {n} : wire'[k] = wire[k]
         /\ \A m \in wire'[n] : m \in wire[n] \/ KeptBy(n, m)'
<1>1. t \in Slot /\ slot \in [Node -> Slot] /\ wire \in [Node -> SUBSET Msg]
  BY DEF Advance, Advances, Sound, IInv, TypeOK
<1>2. slot' = [slot EXCEPT ![n] = t]
  BY DEF Advance, Becomes
<1>3. /\ slot' \in [Node -> Slot]
      /\ slot'[n] = t /\ \A k \in Node \ {n} : slot'[k] = slot[k]
  BY <1>1, <1>2
<1>4. CASE t.last_sent_msg = slot[n].last_sent_msg
  <2>1. wire' = wire
    BY <1>4 DEF Advance, Becomes
  <2>2. QED
    BY <1>1, <1>3, <2>1
<1>5. CASE t.last_sent_msg # slot[n].last_sent_msg
  <2> DEFINE m == t.last_sent_msg
             sent == IF KeepOld THEN wire[n] \cup {m} ELSE {m}
  <2>1. wire' = [wire EXCEPT ![n] = sent]
    BY <1>5 DEF Advance, Becomes
  <2>2. m \in Msg /\ (Committed(m) => t.phase \in Locked /\ CommittedValue(m) = t.B.X)
    BY <1>5 DEF Advance, Advances
  <2>3. KeptBy(n, m)'
    BY <1>3, <2>2 DEF KeptBy
  <2>4. sent \in SUBSET Msg /\ \A k \in sent : k \in wire[n] \/ k = m
    BY <1>1, <2>2
  <2> HIDE DEF m, sent
  <2>5. wire' \in [Node -> SUBSET Msg] /\ wire'[n] = sent
        /\ \A k \in Node \ {n} : wire'[k] = wire[k]
    BY <1>1, <2>1, <2>4
  <2>6. QED
    BY <1>3, <2>3, <2>4, <2>5
<1>6. QED
  BY <1>4, <1>5

(* A node that advances keeps the invariant. *)
LEMMA AdvanceKeepsInvariant ==
  ASSUME IInv, NEW n \in Node, NEW t, Advance(n, t), externalized' \in [Node -> BOOLEAN]
  PROVE  IInv'
<1>1. Steady' = Steady /\ restarts' = restarts
  BY DEF Advance, Steady
<1>2. TypeOK'
  BY <1>1, AdvanceEffect DEF TypeOK, IInv
<1>3. SoundSlots'
  BY AdvanceEffect DEF IInv, SoundSlots, Advance, Advances
<1>4. ASSUME NEW k \in Node, slot[k].phase \in Locked
      PROVE  slot'[k].phase \in Locked /\ slot'[k].B.X = slot[k].B.X
  BY <1>4, AdvanceEffect DEF Advance, Advances
<1>5. ASSUME NEW k \in Node, NEW m, KeptBy(k, m)
      PROVE  KeptBy(k, m)'
  BY <1>4, <1>5 DEF KeptBy
<1>6. Promises'
  <2>1. ASSUME NEW k \in Steady, NEW m \in wire'[k]
        PROVE  KeptBy(k, m)'
    <3>1. k \in Node
      BY DEF Steady
    <3>2. m \in wire[k] => KeptBy(k, m)
      BY DEF IInv, Promises
    <3>3. QED
      BY <2>1, <3>1, <3>2, <1>5, AdvanceEffect
  <2>2. ASSUME NEW k \in Steady, NEW j \in Node
        PROVE  KeptBy(k, slot[j].M[k])'
    <3>1. k \in Node
      BY DEF Steady
    <3>2. slot'[j].M[k] = slot[j].M[k] \/ slot'[j].M[k] \in wire[k]
      BY <3>1, AdvanceEffect DEF Advance
    <3>3. KeptBy(k, slot'[j].M[k])
      BY <3>2 DEF IInv, Promises
    <3>4. QED
      BY <3>1, <3>3, <1>4 DEF KeptBy
  <2>3. QED
    BY <1>1, <2>1, <2>2 DEF Promises
<1>7. ASSUME NEW j \in Node, HasExternalized(j)'
      PROVE  Backed(j)'
  <2>1. CASE HasExternalized(j)
    <3>1. PICK sat \in SatFn :
            /\ FindQuorum(j, sat) # {}
            /\ \A k \in FindQuorum(j, sat) \cap Steady : LockedWith(k, j)
      BY <2>1 DEF IInv, Backed
    <3>2. slot'[j].B.X = slot[j].B.X
      BY <1>4, <2>1 DEF HasExternalized, Locked
    <3>3. \A k \in FindQuorum(j, sat) \cap Steady : LockedWith(k, j)'
      BY <1>4, <3>1, <3>2 DEF LockedWith, Steady
    <3>4. QED
      BY <1>1, <3>1, <3>3 DEF Backed
  <2>2. CASE ~HasExternalized(j)
    <3>1. j = n /\ slot'[n] = t /\ t.phase = "Externalize"
      BY <1>7, <2>2, AdvanceEffect DEF HasExternalized
    <3>2. ConfirmedBy(n, t.M, t.B.X)
      BY <2>2, <3>1 DEF Advance, Advances, HasExternalized
    <3>3. PICK sat \in SatFn :
            /\ FindQuorum(n, sat) # {}
            /\ \A k \in FindQuorum(n, sat) \ {n} :
                 Committed(t.M[k]) /\ CommittedValue(t.M[k]) = t.B.X
      BY <3>2 DEF ConfirmedBy
    <3>4. ASSUME NEW k \in FindQuorum(n, sat) \cap Steady
          PROVE  LockedWith(k, n)'
      <4>1. CASE k = n
        BY <3>1, <4>1 DEF LockedWith, Locked
      <4>2. CASE k # n
        <5>1. KeptBy(k, slot[n].M[k])' /\ slot'[n].M[k] = t.M[k]
          <6>1. KeptBy(k, t.M[k])'
            BY <1>1, <1>6, <3>1 DEF Promises, KeptBy
          <6>2. QED
            BY <3>1, <6>1 DEF KeptBy
        <5>2. QED
          BY <3>1, <3>3, <4>2, <5>1 DEF KeptBy, LockedWith
      <4>3. QED
        BY <4>1, <4>2
    <3>5. QED
      BY <1>1, <3>1, <3>3, <3>4 DEF Backed
  <2>3. QED
    BY <2>1, <2>2
<1>8. \A j \in Node : Backed(j)'
  BY <1>7 DEF Backed
<1>9. QED
  BY <1>2, <1>3, <1>6, <1>8 DEF IInv

(* A node that restarts keeps it too: nothing is asked of it any more. *)
LEMMA RestartKeepsInvariant ==
  ASSUME IInv, NEW n \in Node, Restart(n)
  PROVE  IInv'
<1>1. /\ slot' = [slot EXCEPT ![n] = NewSlot(n)] /\ wire' = wire
      /\ restarts' = [restarts EXCEPT ![n] = @ + 1]
      /\ externalized' = [externalized EXCEPT ![n] = FALSE]
  BY DEF Restart
<1>2. slot \in [Node -> Slot] /\ restarts \in [Node -> Nat]
  BY DEF IInv, TypeOK
<1>3. /\ Sound(NewSlot(n)) /\ NewSlot(n) \in Slot /\ NewSlot(n).phase = "NominatePrepare"
      /\ \A k \in Node : NewSlot(n).M[k] = NoMsg
  <2>1. 1 \in Round
    <3>1. MaxRound \in Nat /\ 1 .. MaxRound + 1 \subseteq Round
      BY BoundsAssumption
    <3>2. 1 \in 1 .. MaxRound + 1
      BY <3>1
    <3>3. QED
      BY <3>1, <3>2
  <2>2. QED
    BY <2>1, NewSlotTypes DEF Sound
<1>4. slot'[n] = NewSlot(n) /\ \A k \in Node \ {n} : slot'[k] = slot[k]
  BY <1>1, <1>2
<1>5. Steady' \subseteq Steady \ {n}
  BY <1>1, <1>2 DEF Steady
<1>6. TypeOK'
  BY <1>1, <1>2, <1>3 DEF TypeOK, IInv
<1>7. SoundSlots'
  BY <1>3, <1>4 DEF SoundSlots, IInv
<1>8. Promises'
  <2>1. ASSUME NEW k \in Steady'
        PROVE  \A m \in wire[k] : KeptBy(k, m)'
    BY <1>4, <1>5 DEF Promises, IInv, KeptBy, Steady
  <2>2. ASSUME NEW k \in Steady', NEW j \in Node
        PROVE  KeptBy(k, slot[j].M[k])'
    <3>1. k \in Steady /\ k \in Node /\ slot'[k] = slot[k]
      BY <1>4, <1>5 DEF Steady
    <3>2. slot'[j].M[k] = slot[j].M[k] \/ slot'[j].M[k] = NoMsg
      BY <1>3, <1>4, <3>1
    <3>3. KeptBy(k, slot[j].M[k]) /\ KeptBy(k, NoMsg)
      BY <3>1 DEF IInv, Promises, KeptBy, Committed, NoMsg
    <3>4. QED
      BY <3>1, <3>2, <3>3 DEF KeptBy
  <2>3. QED
    BY <1>1, <2>1, <2>2 DEF Promises
<1>9. ASSUME NEW j \in Node, HasExternalized(j)'
      PROVE  Backed(j)'
  <2>1. j # n /\ slot'[j] = slot[j] /\ HasExternalized(j)
    BY <1>3, <1>4, <1>9 DEF HasExternalized
  <2>2. PICK sat \in SatFn :
          /\ FindQuorum(j, sat) # {}
          /\ \A k \in FindQuorum(j, sat) \cap Steady : LockedWith(k, j)
    BY <2>1 DEF IInv, Backed
  <2>3. \A k \in FindQuorum(j, sat) \cap Steady' : LockedWith(k, j)'
    BY <1>4, <1>5, <2>1, <2>2 DEF LockedWith, Steady
  <2>4. QED
    BY <2>2, <2>3 DEF Backed
<1>10. \A j \in Node : Backed(j)'
  BY <1>9 DEF Backed
<1>11. QED
  BY <1>6, <1>7, <1>8, <1>10 DEF IInv

-----------------------------------------------------------------------------
(* Theorems *)

LEMMA InitInvariant == Init => IInv
<1> SUFFICES ASSUME Init PROVE IInv
  OBVIOUS
<1>1. 1 \in Round
  <2>1. MaxRound \in Nat /\ 1 .. MaxRound + 1 \subseteq Round
    BY BoundsAssumption
  <2>2. 1 \in 1 .. MaxRound + 1
    BY <2>1
  <2>3. QED
    BY <2>1, <2>2
<1>2. \A n \in Node : /\ slot[n] = NewSlot(n) /\ Sound(slot[n]) /\ slot[n] \in Slot
                      /\ slot[n].phase = "NominatePrepare"
                      /\ \A k \in Node : slot[n].M[k] = NoMsg
  BY <1>1, NewSlotTypes DEF Init, Sound
<1>3. TypeOK
  BY <1>2 DEF Init, TypeOK
<1>4. SoundSlots
  BY <1>2 DEF SoundSlots
<1>5. Promises
  BY <1>2 DEF Promises, KeptBy, Committed, NoMsg, Steady, Init
<1>6. \A n \in Node : Backed(n)
  BY <1>2 DEF Backed, HasExternalized
<1>7. QED
  BY <1>3, <1>4, <1>5, <1>6 DEF IInv

(* Every step of the network, and a step that changes nothing, keeps the invariant. *)
LEMMA NextInvariant == IInv /\ [Next]_vars => IInv'
<1> SUFFICES ASSUME IInv, [Next]_vars PROVE IInv'
  OBVIOUS
<1>1. CASE UNCHANGED vars
  BY <1>1 DEF vars, IInv, TypeOK, SoundSlots, Promises, KeptBy, Steady, Backed,
     LockedWith, HasExternalized
<1>2. ASSUME NEW n \in Node,
             \/ \E values \in (SUBSET Proposable[n]) \ {{}} : ProposeValues(n, values)
             \/ \E batch \in Batches(n) : HandleMessages(n, batch)
             \/ \E nominate, ballot \in BOOLEAN : ProcessTimeouts(n, nominate, ballot)
      PROVE  IInv'
  BY <1>2, MethodsAdvance, AdvanceKeepsInvariant
<1>3. ASSUME NEW n \in Node, Restart(n)
      PROVE  IInv'
  BY <1>3, RestartKeepsInvariant
<1>4. QED
  BY <1>1, <1>2, <1>3 DEF Next

(* The invariant holds in every reachable state. *)
LEMMA SpecInvariant == Spec => []IInv
<1>1. QED
  BY InitInvariant, NextInvariant, PTL DEF Spec

(* Type correctness: ballots, counters and messages stay within their types in     *)
(* every reachable state, although the code computes them with wrapping arithmetic *)
(* and from whatever messages arrive.                                              *)
THEOREM TypeCorrect == Spec => []TypeOK
<1>1. IInv => TypeOK
  BY DEF IInv
<1>2. QED
  BY <1>1, SpecInvariant, PTL

(* Two quorums share a node that kept its slot, and it is locked on one value only. *)
LEMMA InvariantAgreement == IInv => Agreement
<1> SUFFICES ASSUME IInv, IntactIntersection, NEW n \in Node, NEW k \in Node,
                    HasExternalized(n), HasExternalized(k)
             PROVE  slot[n].C.X = slot[k].C.X
  BY DEF Agreement
<1>1. PICK p \in SatFn :
        /\ FindQuorum(n, p) # {}
        /\ \A j \in FindQuorum(n, p) \cap Steady : LockedWith(j, n)
  BY DEF IInv, Backed
<1>2. PICK q \in SatFn :
        /\ FindQuorum(k, q) # {}
        /\ \A j \in FindQuorum(k, q) \cap Steady : LockedWith(j, k)
  BY DEF IInv, Backed
<1>3. FindQuorum(n, p) \in Quorums[n] /\ FindQuorum(k, q) \in Quorums[k]
  BY <1>1, <1>2 DEF Quorums
<1>4. PICK j : j \in FindQuorum(n, p) \cap FindQuorum(k, q) \cap Steady
  BY <1>3 DEF IntactIntersection
<1>5. LockedWith(j, n) /\ LockedWith(j, k)
  BY <1>1, <1>2, <1>4
<1>6. slot[n].C.X = slot[n].B.X /\ slot[k].C.X = slot[k].B.X
  BY DEF IInv, SoundSlots, Sound, HasExternalized
<1>7. QED
  BY <1>5, <1>6 DEF LockedWith

(* Agreement: no two nodes externalize different blocks in a slot, whatever is     *)
(* lost, duplicated or reordered and whichever nodes restart, if any two quorums   *)
(* that findQuorum can return share a node that did not.                           *)
THEOREM AgreementHolds == Spec => []Agreement
BY SpecInvariant, InvariantAgreement, PTL

(* A decision stays: nothing that do_externalize_phase or any other method of the  *)
(* slot does changes a value once it is externalized, or lowers H.                 *)
THEOREM DecisionStays == Spec => DecisionStable
<1>1. IInv /\ [Next]_vars =>
        [\A n \in Node : HasExternalized(n) /\ ~Restarted(n) =>
           /\ slot'[n].phase = "Externalize"
           /\ slot'[n].C = slot[n].C
           /\ slot[n].H.N <= slot'[n].H.N]_vars
  <2> SUFFICES ASSUME IInv, Next, NEW n \in Node, HasExternalized(n), ~Restarted(n)
               PROVE  /\ slot'[n].phase = "Externalize"
                      /\ slot'[n].C = slot[n].C
                      /\ slot[n].H.N <= slot'[n].H.N
    OBVIOUS
  <2>1. Advances(n, slot[n], slot[n])
    BY AdvancesItself DEF IInv, SoundSlots
  <2>2. ASSUME NEW k \in Node, NEW t, Advance(k, t)
        PROVE  Advances(n, slot[n], slot'[n])
    BY <2>1, <2>2, AdvanceEffect DEF Advance
  <2>3. ASSUME NEW k \in Node, Restart(k)
        PROVE  Advances(n, slot[n], slot'[n])
    <3>1. k # n
      <4>1. restarts'[k] # restarts[k]
        BY <2>3 DEF Restart, IInv, TypeOK
      <4>2. QED
        BY <4>1 DEF Restarted
    <3>2. slot'[n] = slot[n]
      BY <2>3, <3>1 DEF Restart, IInv, TypeOK
    <3>3. QED
      BY <2>1, <3>2
  <2>4. Advances(n, slot[n], slot'[n])
    BY <2>2, <2>3, MethodsAdvance DEF Next
  <2>5. QED
    BY <2>4 DEF Advances, HasExternalized
<1>2. QED
  BY <1>1, SpecInvariant, PTL DEF Spec, DecisionStable
=============================================================================
