------------------------ MODULE ByzantineLedgerProofs ------------------------
(***************************************************************************)
(* Theorems about a consensus node above SCP, for any peers and quorum     *)
(* sets, any number of transactions, blocks and restarts: its ledger       *)
(* implements AgreedLog, worker, SCP node and ledger stay in step, and the *)
(* assertions of the worker hold but for the two known exceptions.         *)
(***************************************************************************)
EXTENDS ByzantineLedger, SequenceTheorems, FiniteSetTheorems,
        WellFoundedInduction, TLAPS

-----------------------------------------------------------------------------
(* The inductive invariant *)

Sizes ==
  /\ Len(chain) \in 1 .. MaxBlocks
  /\ Len(ledger) \in 1 .. Len(chain)
  /\ \A p \in Peer : height[p] <= Len(chain)

(* What the SCP Node keeps is of slots before its current one. *)
KeptIsPast == \A e \in w.externalized_slots : e.slot < w.scp_slot

(* The flag that the gRPC services read says what the sync state says. *)
FlagAgrees == w.is_behind <=> w.ledger_sync_state = "IsBehind"

(* A node that is behind still has cause to be, or has synced blocks. *)
BehindForCause ==
  w.ledger_sync_state = "IsBehind" =>
    \/ Len(ledger) > w.current_slot_index
    \/ is_behind(w.network_state, Len(ledger))

IInv ==
  /\ TypeOK
  /\ Sizes
  /\ LedgerAgrees
  /\ InStep
  /\ KeptIsPast
  /\ FlagAgrees
  /\ BehindForCause
  /\ NoAssertionFails

-----------------------------------------------------------------------------
(* Sets of slots *)

(* A set of naturals with an upper bound has a maximum, which Max finds. *)
LEMMA MaxOfBounded ==
  ASSUME NEW N \in Nat, NEW S \in SUBSET (0 .. N), S # {}
  PROVE  Max(S) \in S /\ \A y \in S : Max(S) >= y
<1> DEFINE T == {N - x : x \in S}
<1>1. T \subseteq Nat /\ T # {}
  <2>1. \A x \in S : N - x \in Nat
    OBVIOUS
  <2> QED BY <2>1
<1>2. PICK m \in T : \A y \in T : ~ (<<y, m>> \in OpToRel(<, Nat))
  BY <1>1, NatLessThanWellFounded, WFMin
<1>3. PICK x \in S : m = N - x
  BY <1>2
<1>4. ASSUME NEW y \in S PROVE x >= y
  <2>1. N - y \in T /\ N - y \in Nat /\ m \in Nat
    BY <1>1, <1>2
  <2>2. ~ (N - y < m)
    BY <1>2, <2>1 DEF OpToRel
  <2> QED BY <1>3, <2>2
<1> QED BY <1>4 DEF Max

(* SCPNetworkState::push yields slots again, and no entry shrinks. *)
LEMMA PushGrows ==
  ASSUME NEW net \in [Peer -> Slot], NEW msgs \in SUBSET Msg
  PROVE  /\ push(net, msgs) \in [Peer -> Slot]
         /\ \A p \in Peer : push(net, msgs)[p] >= net[p]
<1> DEFINE Shown(p) == {net[p]} \cup {ImpliedSlot(m) : m \in {x \in msgs : x.from = p}}
<1>1. MaxBlocks \in Nat
  BY BoundsAssumption
<1>2. \A m \in msgs : ImpliedSlot(m) \in 0 .. MaxBlocks
  BY <1>1 DEF Msg, Slot, ImpliedSlot
<1>3. \A p \in Peer : Shown(p) \in SUBSET (0 .. MaxBlocks) /\ net[p] \in Shown(p)
  BY <1>2 DEF Slot
<1> HIDE DEF Shown
<1>4. \A p \in Peer : Max(Shown(p)) \in 0 .. MaxBlocks /\ Max(Shown(p)) >= net[p]
  BY <1>1, <1>3, MaxOfBounded
<1>5. push(net, msgs) = [p \in Peer |-> Max(Shown(p))]
  BY DEF push, Shown
<1> QED BY <1>4, <1>5 DEF Slot

LEMMA SufficientMonotone ==
  ASSUME NEW P, NEW Q, P \subseteq Q, is_blocking_and_quorum(P)
  PROVE  is_blocking_and_quorum(Q)
BY DEF is_blocking_and_quorum

(* A node that has heard more is behind at least as far. *)
LEMMA BehindMonotone ==
  ASSUME NEW net \in [Peer -> Slot], NEW new \in [Peer -> Slot],
         \A p \in Peer : new[p] >= net[p],
         NEW n \in Nat, is_behind(net, n)
  PROVE  is_behind(new, n)
<1>1. {p \in Peer : net[p] > n - 1} \subseteq {p \in Peer : new[p] > n - 1}
  BY BoundsAssumption DEF Slot
<1> QED BY <1>1, SufficientMonotone DEF is_behind

(* A chain that a sufficient set of peers supports is the agreed one. *)
LEMMA SupportedIsAgreed ==
  ASSUME NEW q, is_blocking_and_quorum({p \in Peer : Supports(p, q)})
  PROVE  \E p \in Peer : Len(q) <= height[p] /\ q = SubSeq(chain, 1, Len(q))
<1>1. PICK slice \in Slices : slice \subseteq {p \in Peer : Supports(p, q)}
  BY DEF is_blocking_and_quorum
<1>2. PICK p \in slice : p \notin Faulty
  BY FaultyAssumption
<1> QED BY <1>1, <1>2 DEF Supports

-----------------------------------------------------------------------------
(* Beginnings of the chain *)

(* The ledger as it is, or with a longer beginning of the chain: Learn of AgreedLog. *)
Keeps == UNCHANGED <<chain, ledger>>
Learns ==
  /\ UNCHANGED chain
  /\ \E n \in Len(ledger) + 1 .. Len(chain) : ledger' = SubSeq(chain, 1, n)

LEMMA Beginning ==
  ASSUME chain \in Seq(Block), NEW q \in Seq(Block), Len(q) <= Len(chain),
         \A i \in 1 .. Len(q) : q[i] = chain[i]
  PROVE  q = SubSeq(chain, 1, Len(q))
<1>1. Len(q) \in Nat /\ Len(chain) \in Nat
  BY LenProperties
<1>2. /\ SubSeq(chain, 1, Len(q)) \in Seq(Block)
      /\ Len(SubSeq(chain, 1, Len(q))) = Len(q)
      /\ \A i \in 1 .. Len(q) : SubSeq(chain, 1, Len(q))[i] = chain[i]
  BY <1>1
<1> QED BY <1>2, SeqEqual

(* Of a longer beginning, the ledger still agrees with the chain. *)
LEMMA LearnsAgrees ==
  ASSUME chain \in Seq(Block), ledger \in Seq(Block), Len(ledger) >= 1, Learns
  PROVE  /\ ledger' \in Seq(Block) /\ LedgerAgrees'
         /\ Len(ledger') > Len(ledger) /\ Len(ledger') <= Len(chain)
<1>1. Len(ledger) \in Nat /\ Len(chain) \in Nat
  BY LenProperties
<1>2. PICK n \in Len(ledger) + 1 .. Len(chain) : ledger' = SubSeq(chain, 1, n)
  BY DEF Learns
<1>3. n \in 1 .. Len(chain) /\ n > Len(ledger)
  BY <1>1, <1>2
<1>4. /\ ledger' \in Seq(Block) /\ Len(ledger') = n
      /\ \A i \in 1 .. n : ledger'[i] = chain[i]
  BY SMTT(30), <1>1, <1>2, <1>3
<1>5. chain' = chain
  BY DEF Learns
<1> QED BY <1>1, <1>3, <1>4, <1>5 DEF LedgerAgrees

(* What a sync attempt brings is a beginning of the chain. *)
LEMMA SyncLearns ==
  ASSUME IInv, UNCHANGED chain, ledger' \in SyncOutcomes
  PROVE  (ledger' = ledger) \/ Learns
<1> SUFFICES ASSUME ledger' # ledger PROVE Learns
  OBVIOUS
<1>1. chain \in Seq(Block) /\ ledger \in Seq(Block) /\ height \in [Peer -> Nat]
  BY DEF IInv, TypeOK
<1>2. /\ ledger' \in Extensions
      /\ Len(ledger) < Len(ledger')
      /\ is_blocking_and_quorum({p \in Peer : Supports(p, ledger')})
  BY DEF SyncOutcomes, attempt_ledger_sync
<1>3. PICK p \in Peer : Len(ledger') <= height[p] /\ ledger' = SubSeq(chain, 1, Len(ledger'))
  BY <1>2, SupportedIsAgreed
<1>4. PICK n \in Len(ledger) .. Len(chain), b \in Block :
         ledger' = Append(SubSeq(chain, 1, n), b)
  BY <1>2 DEF Extensions
<1>5. Len(ledger) \in 1 .. Len(chain) /\ Len(chain) \in Nat
  BY <1>1, LenProperties DEF IInv, Sizes
<1>6. SubSeq(chain, 1, n) \in Seq(Block)
  BY <1>1, <1>4, <1>5
<1>7. Len(ledger') \in Nat
  BY <1>4, <1>6
<1>8. height[p] <= Len(chain) /\ height[p] \in Nat
  BY <1>1 DEF IInv, Sizes
<1>9. Len(ledger') \in Len(ledger) + 1 .. Len(chain)
  BY <1>2, <1>3, <1>5, <1>7, <1>8
<1> QED BY <1>3, <1>9 DEF Learns

-----------------------------------------------------------------------------
(* The steps of tick *)

(* receive_tasks leaves the slots and the sync state alone. *)
LEMMA Received ==
  ASSUME IInv, NEW values \in SUBSET Submitted, NEW msgs \in SUBSET Msg,
         NEW r, r = receive_tasks(w, values, msgs)
  PROVE  /\ r \in Worker
         /\ r.current_slot_index = w.current_slot_index /\ r.scp_slot = w.scp_slot
         /\ r.externalized_slots = w.externalized_slots
         /\ r.ledger_sync_state = w.ledger_sync_state /\ r.is_behind = w.is_behind
         /\ \A p \in Peer : r.network_state[p] >= w.network_state[p]
<1>1. w \in Worker /\ Submitted \subseteq Tx
  BY TombstoneAssumption DEF IInv, TypeOK
<1> DEFINE new == {t \in values \ w.pending_values : validate(t, cache, ledger)}
           net == push(w.network_state, msgs)
           slots == {m.slot : m \in msgs}
           need == w.need_nominate \/ new # {}
<1>2. net \in [Peer -> Slot] /\ \A p \in Peer : net[p] >= w.network_state[p]
  BY <1>1, PushGrows DEF Worker
<1>3. new \subseteq Tx /\ slots \subseteq Slot
  BY <1>1 DEF Msg
<1>4. r = [w EXCEPT !.pending_values = @ \cup new,
                    !.need_nominate = need,
                    !.network_state = net,
                    !.pending_consensus_msgs = @ \cup slots]
  BY DEF receive_tasks
<1>5. need \in BOOLEAN
  OBVIOUS
<1> HIDE DEF new, net, slots, need
<1>6. r \in Worker
  BY ZenonT(40), <1>1, <1>2, <1>3, <1>4, <1>5 DEF Worker
<1>7. /\ r.current_slot_index = w.current_slot_index /\ r.scp_slot = w.scp_slot
      /\ r.externalized_slots = w.externalized_slots
      /\ r.ledger_sync_state = w.ledger_sync_state /\ r.is_behind = w.is_behind
      /\ r.network_state = net
  BY <1>1, <1>4 DEF Worker
<1> QED BY <1>2, <1>6, <1>7

(* A worker that may run consensus for the next block of the ledger. *)
Ready(s) ==
  /\ s \in Worker
  /\ s.current_slot_index = Len(ledger) /\ s.scp_slot = Len(ledger)
  /\ s.ledger_sync_state # "IsBehind" /\ ~ s.is_behind
  /\ \A e \in s.externalized_slots : e.slot < s.scp_slot

LEMMA LedgerSlot ==
  ASSUME IInv
  PROVE  /\ Len(ledger) \in Slot /\ Len(ledger) \in Nat \ {0} /\ Len(chain) \in Nat
         /\ Len(ledger) <= Len(chain) /\ Len(chain) <= MaxBlocks /\ MaxBlocks \in Nat
BY BoundsAssumption DEF IInv, Sizes, Slot

(* Transition (7) leaves the worker at the end of the ledger. *)
LEMMA CaughtUp ==
  ASSUME IInv, NEW r \in Worker
  PROVE  /\ catch_up(r) \in Worker
         /\ catch_up(r).current_slot_index = Len(ledger)
         /\ catch_up(r).scp_slot = Len(ledger)
         /\ catch_up(r).externalized_slots = {}
         /\ ~ catch_up(r).is_behind
<1> DEFINE left == {t \in r.pending_values : validate(t, cache, ledger)}
           moved == [r EXCEPT !.is_behind = FALSE, !.current_slot_index = Len(ledger)]
           set == [moved EXCEPT !.scp_slot = Len(ledger), !.externalized_slots = {},
                                !.proposed = {}]
           cleared == [set EXCEPT !.pending_values =
                         {t \in @ : validate(t, cache, ledger)}]
<1>1. Len(ledger) \in Slot
  BY LedgerSlot
<1>2. /\ moved \in Worker /\ moved.current_slot_index = Len(ledger)
      /\ moved.is_behind = FALSE
  BY <1>1 DEF Worker
<1>3. /\ set \in Worker /\ set.current_slot_index = Len(ledger)
      /\ set.is_behind = FALSE /\ set.scp_slot = Len(ledger)
      /\ set.externalized_slots = {}
  <2> HIDE DEF moved
  <2> QED BY <1>1, <1>2 DEF Worker
<1>4. /\ cleared \in Worker /\ cleared.current_slot_index = Len(ledger)
      /\ cleared.is_behind = FALSE /\ cleared.scp_slot = Len(ledger)
      /\ cleared.externalized_slots = {}
  <2> HIDE DEF set
  <2> QED BY <1>3 DEF Worker
<1>5. catch_up(r) = [cleared EXCEPT !.need_nominate = @ \/ cleared.pending_values # {}]
  BY DEF catch_up, clear_invalid_values, reset_slot_index
<1> HIDE DEF cleared
<1>6. (cleared.need_nominate \/ cleared.pending_values # {}) \in BOOLEAN
  OBVIOUS
<1> QED BY <1>4, <1>5, <1>6 DEF Worker

(* A node that takes part in consensus is ready, and meets no assertion of the     *)
(* first half of tick but that of propose_pending_values.                          *)
LEMMA Entered ==
  ASSUME IInv, NEW values \in SUBSET Submitted, NEW msgs \in SUBSET Msg,
         NEW r, r = receive_tasks(w, values, msgs),
         NEW expired, NEW n, n = next_sync_state(r, expired), n # "IsBehind",
         NEW s, s = EnterConsensus(r, n)
  PROVE  Ready(s) /\ FailedEarly(r, s) \in {None, "propose_pending_values"}
<1>1. /\ r \in Worker
      /\ r.current_slot_index = w.current_slot_index /\ r.scp_slot = w.scp_slot
      /\ r.externalized_slots = w.externalized_slots
      /\ r.ledger_sync_state = w.ledger_sync_state /\ r.is_behind = w.is_behind
      /\ \A p \in Peer : r.network_state[p] >= w.network_state[p]
  BY Received
<1>2. n \in {"InSync", "MaybeBehind"}
  BY <1>1 DEF next_sync_state, Worker, SyncState
<1>3. ASSUME r.ledger_sync_state = "IsBehind" PROVE Len(ledger) > r.scp_slot
  <2>1. ~ is_behind(r.network_state, Len(ledger))
    BY <1>3 DEF next_sync_state
  <2>2. ~ is_behind(w.network_state, Len(ledger))
    BY <1>1, <2>1, BehindMonotone, LedgerSlot DEF IInv, TypeOK, Worker
  <2> QED BY <1>1, <1>3, <2>2 DEF IInv, BehindForCause, InStep
<1>4. Ready(s)
  <2>1. CASE r.ledger_sync_state = "IsBehind"
    <3>1. s = [catch_up(r) EXCEPT !.ledger_sync_state = n]
      BY <2>1 DEF EnterConsensus
    <3> QED BY <1>1, <1>2, <3>1, CaughtUp DEF Ready, Worker, SyncState
  <2>2. CASE r.ledger_sync_state # "IsBehind"
    <3>1. s = [r EXCEPT !.ledger_sync_state = n]
      BY <2>2 DEF EnterConsensus
    <3>2. /\ w.current_slot_index = Len(ledger) /\ w.scp_slot = Len(ledger) /\ ~ w.is_behind
          /\ \A e \in w.externalized_slots : e.slot < w.scp_slot
      BY <1>1, <2>2 DEF IInv, InStep, FlagAgrees, KeptIsPast
    <3> QED BY <1>1, <1>2, <3>1, <3>2 DEF Ready, Worker, SyncState
  <2> QED BY <2>1, <2>2
<1>5. \A i \in Processed(s) : ~ i > Len(ledger)
  BY <1>4, LedgerSlot DEF Processed, Ready
<1> QED BY <1>3, <1>4, <1>5 DEF FailedEarly, Ready

LEMMA ProposalsTypes ==
  ASSUME NEW s \in Worker, NEW chosen \in Proposals(s)
  PROVE  chosen \subseteq Tx
BY DEF Proposals, kSubset, Worker

LEMMA Proposed ==
  ASSUME NEW s, Ready(s), NEW chosen \in SUBSET Tx
  PROVE  Ready(propose_pending_values(s, chosen))
BY DEF Ready, Worker, propose_pending_values

(* Before the Node decides it has nothing of the current slot. *)
LEMMA Undecided ==
  ASSUME IInv, NEW s, Ready(s), NEW resolved
  PROVE  /\ Ready(process_consensus_msgs(s, resolved, FALSE))
         /\ get_externalized_values(process_consensus_msgs(s, resolved, FALSE),
              process_consensus_msgs(s, resolved, FALSE).current_slot_index) = {}
<1> DEFINE h == process_consensus_msgs(s, resolved, FALSE)
<1>1. Ready(h)
  BY DEF Ready, Worker, process_consensus_msgs
<1> HIDE DEF h
<1>2. \A e \in h.externalized_slots : e.slot \in Slot /\ e.slot # h.current_slot_index
  BY <1>1, LedgerSlot DEF Ready, Worker, Externalized, Slot
<1>3. get_externalized_values(h, h.current_slot_index) = {}
  BY <1>2 DEF get_externalized_values
<1> QED BY <1>1, <1>3 DEF h

(* When it decides, it has the value of the current slot, which is the next block. *)
LEMMA Decided ==
  ASSUME IInv, NEW s, Ready(s), NEW resolved, CanDecide(s, resolved),
         NEW h, h = process_consensus_msgs(s, resolved, TRUE)
  PROVE  /\ h \in Worker
         /\ h.current_slot_index = Len(ledger) /\ h.scp_slot = Len(ledger) + 1
         /\ ~ h.is_behind
         /\ h.externalized_slots = {[slot |-> Len(ledger), values |-> chain[Len(ledger) + 1]]}
         /\ get_externalized_values(h, Len(ledger)) = {chain[Len(ledger) + 1]}
         /\ Len(ledger) < Len(chain)
         /\ chain[Len(ledger) + 1] \subseteq Fetched(resolved)
<1> DEFINE n == Len(ledger)
           block == chain[n + 1]
<1>1. n \in resolved /\ n < Len(chain)
  BY DEF CanDecide, Ready
<1>2. n \in Slot /\ n + 1 \in Slot /\ n \in Nat /\ n + 1 \in 1 .. Len(chain)
  BY <1>1, LedgerSlot DEF Slot
<1>3. block \in Block
  BY <1>2 DEF IInv, TypeOK
<1>4. block \subseteq Fetched(resolved)
  BY <1>1 DEF Fetched
<1> DEFINE e == [slot |-> n, values |-> block]
<1>5. e \in Externalized /\ e.slot = n /\ e.values = block
  BY <1>2, <1>3 DEF Externalized
<1> HIDE DEF n, block
<1>6. /\ s \in Worker /\ s.scp_slot = n /\ s.current_slot_index = n /\ ~ s.is_behind
  BY DEF Ready, n
<1> DEFINE later == {i \in s.pending_consensus_msgs : i > s.current_slot_index}
<1>7. h = [s EXCEPT !.pending_consensus_msgs = later,
                    !.scp_slot = n + 1, !.proposed = {}, !.externalized_slots = {e}]
  BY <1>6 DEF process_consensus_msgs, block, Worker
<1>8. later \subseteq Slot
  BY <1>6 DEF Worker
<1> HIDE DEF e, later
<1>9. /\ h \in Worker /\ h.current_slot_index = n /\ h.scp_slot = n + 1 /\ ~ h.is_behind
      /\ h.externalized_slots = {e}
  <2> DEFINE kept == {e}
             next == n + 1
  <2>1. kept \subseteq Externalized /\ next \in Slot
    BY <1>2, <1>5
  <2>2. h = [s EXCEPT !.pending_consensus_msgs = later, !.scp_slot = next,
                      !.proposed = {}, !.externalized_slots = kept]
    BY <1>7
  <2> HIDE DEF kept, next
  <2>3. /\ h \in Worker /\ h.current_slot_index = s.current_slot_index
        /\ h.scp_slot = next /\ h.is_behind = s.is_behind /\ h.externalized_slots = kept
    BY <1>6, <1>8, <2>1, <2>2 DEF Worker
  <2> QED BY <1>6, <2>3 DEF kept, next
<1>10. get_externalized_values(h, n) = {block}
  BY <1>5, <1>9 DEF get_externalized_values
<1> QED BY <1>1, <1>4, <1>9, <1>10 DEF n, block, e

(* complete_current_slot moves the worker to the end of the ledger. *)
LEMMA Completed ==
  ASSUME NEW s \in Worker, NEW values, NEW cached, NEW blocks, Len(blocks) \in Slot,
         NEW c, c = complete_current_slot(s, values, cached, blocks)
  PROVE  /\ c \in Worker /\ c.current_slot_index = Len(blocks) /\ c.scp_slot = s.scp_slot
         /\ c.externalized_slots = s.externalized_slots
         /\ c.is_behind = s.is_behind /\ c.ledger_sync_state = "InSync"
<1> DEFINE left == {t \in s.pending_values \ values :
                      /\ Tombstone[t] > Len(blocks) - 1
                      /\ validate(t, cached, blocks)}
           need == s.need_nominate \/ left # {}
<1>1. left \subseteq Tx /\ need \in BOOLEAN
  BY DEF Worker
<1>2. c = [s EXCEPT !.current_slot_index = Len(blocks), !.pending_values = left,
                    !.need_nominate = need, !.ledger_sync_state = "InSync"]
  BY DEF complete_current_slot
<1> HIDE DEF left, need
<1> QED BY <1>1, <1>2 DEF Worker, SyncState

-----------------------------------------------------------------------------
(* One lemma per action *)

(* What a step leaves to show once the worker is at the end of the ledger. *)
LEMMA ReadyInvariant ==
  ASSUME IInv, UNCHANGED <<chain, height>>,
         ledger' = ledger \/ Learns,
         w' \in Worker,
         w'.current_slot_index = Len(ledger'), w'.scp_slot = Len(ledger'),
         w'.ledger_sync_state # "IsBehind", ~ w'.is_behind,
         \A e \in w'.externalized_slots : e.slot < w'.scp_slot,
         cache' \subseteq Tx, requests' \subseteq Submitted,
         NoAssertionFails'
  PROVE  IInv'
<1>1. /\ ledger' \in Seq(Block) /\ LedgerAgrees'
      /\ Len(ledger') \in 1 .. Len(chain)
  <2>1. CASE ledger' = ledger
    BY <2>1 DEF IInv, TypeOK, Sizes, LedgerAgrees
  <2>2. CASE Learns
    <3>1. Len(ledger') \in Nat
      BY <2>2, LearnsAgrees, LedgerSlot DEF IInv, TypeOK
    <3> QED BY <2>2, <3>1, LearnsAgrees, LedgerSlot DEF IInv, TypeOK
  <2> QED BY <2>1, <2>2
<1>2. TypeOK'
  BY <1>1 DEF IInv, TypeOK
<1>3. Sizes'
  BY <1>1 DEF IInv, Sizes
<1>4. InStep'
  BY <1>1, LedgerSlot DEF InStep
<1>5. KeptIsPast' /\ FlagAgrees' /\ BehindForCause'
  BY DEF KeptIsPast, FlagAgrees, BehindForCause
<1> QED BY <1>1, <1>2, <1>3, <1>4, <1>5 DEF IInv

LEMMA ConsensusInvariant ==
  ASSUME IInv, panicked = None, NEW s, Ready(s), NEW chosen \in SUBSET Tx,
         NEW resolved \in SUBSET Processed(s),
         NEW decides \in {FALSE, CanDecide(s, resolved)},
         Consensus(s, chosen, resolved, decides),
         requests' \subseteq Submitted
  PROVE  IInv' /\ (Keeps \/ Learns)
<1> DEFINE nominated == IF s.need_nominate THEN propose_pending_values(s, chosen) ELSE s
           handled == process_consensus_msgs(nominated, resolved, decides)
           cached == cache \cup Fetched(resolved)
<1>1. Ready(nominated)
  BY Proposed
<1>2. Complete(handled, cached) /\ UNCHANGED <<chain, height>>
  BY DEF Consensus
<1>3. cached \subseteq Tx
  <2>1. \A i \in resolved : i \in Nat
    BY LedgerSlot DEF Processed, Ready, Worker, Slot
  <2>2. \A i \in resolved : i < Len(chain) => chain[i + 1] \in Block
    BY <2>1, LedgerSlot DEF IInv, TypeOK
  <2>3. Fetched(resolved) \subseteq Tx
    BY <2>2 DEF Fetched, Block
  <2> QED BY <2>3 DEF IInv, TypeOK
<1>4. nominated.scp_slot = s.scp_slot
  BY DEF Ready, Worker, propose_pending_values
<1> HIDE DEF nominated
<1>5. CASE decides = FALSE
  <2>1. Ready(handled) /\ get_externalized_values(handled, handled.current_slot_index) = {}
    BY <1>1, <1>5, Undecided
  <2>2. w' = handled /\ cache' = cached /\ UNCHANGED <<ledger, panicked>>
    <3> HIDE DEF handled, cached
    <3> QED BY <1>2, <2>1 DEF Complete
  <2>3. NoAssertionFails'
    BY <2>2 DEF NoAssertionFails
  <2> HIDE DEF handled, cached
  <2>4. IInv'
    BY <1>2, <1>3, <2>1, <2>2, <2>3, ReadyInvariant DEF Ready
  <2> QED BY <1>2, <2>2, <2>4 DEF Keeps
<1>6. CASE decides # FALSE
  <2>1. CanDecide(s, resolved) /\ decides = TRUE
    BY <1>6 DEF CanDecide
  <2>2. CanDecide(nominated, resolved)
    BY <1>4, <2>1 DEF CanDecide
  <2> DEFINE block == chain[Len(ledger) + 1]
             e == [slot |-> Len(ledger), values |-> block]
  <2>3. /\ handled \in Worker
        /\ handled.current_slot_index = Len(ledger) /\ handled.scp_slot = Len(ledger) + 1
        /\ ~ handled.is_behind
        /\ handled.externalized_slots = {e}
        /\ get_externalized_values(handled, Len(ledger)) = {block}
        /\ Len(ledger) < Len(chain)
        /\ block \subseteq Fetched(resolved)
    BY <1>1, <2>1, <2>2, Decided
  <2> HIDE DEF handled
  <2>4. FailedLate(handled, block, cached) = None
    BY <2>3 DEF FailedLate
  <2> DEFINE left == remove_expired(cached, Len(ledger))
  <2>5. left \subseteq Tx
    BY <1>3 DEF remove_expired
  <2> HIDE DEF block, cached, left
  <2>6. /\ ledger' = Append(ledger, block) /\ cache' = left
        /\ w' = complete_current_slot(handled, block, left, ledger')
        /\ panicked' = None
    BY <1>2, <2>3, <2>4 DEF Complete, left
  <2>7. Len(ledger) + 1 \in 1 .. Len(chain) /\ Len(ledger) + 1 \in Slot
    BY <2>3, LedgerSlot DEF Slot
  <2>8. block \in Block
    BY <2>7 DEF block, IInv, TypeOK
  <2>9. /\ ledger' \in Seq(Block) /\ Len(ledger') = Len(ledger) + 1
        /\ \A i \in 1 .. Len(ledger) + 1 : ledger'[i] = chain[i]
    BY <2>6, <2>7, <2>8, LedgerSlot DEF IInv, TypeOK, LedgerAgrees, block
  <2>10. ledger' = SubSeq(chain, 1, Len(ledger) + 1)
    BY <2>7, <2>9, Beginning DEF IInv, TypeOK
  <2>11. Learns
    BY <1>2, <2>7, <2>10, LedgerSlot DEF Learns
  <2>12. /\ w' \in Worker /\ w'.current_slot_index = Len(ledger')
         /\ w'.scp_slot = handled.scp_slot
         /\ w'.externalized_slots = handled.externalized_slots
         /\ w'.is_behind = handled.is_behind /\ w'.ledger_sync_state = "InSync"
    <3>1. Len(ledger') \in Slot /\ handled \in Worker
      BY <2>3, <2>7, <2>9
    <3>2. w' = complete_current_slot(handled, block, left, ledger')
      BY <2>6
    <3> QED BY ONLY <3>1, <3>2, Completed
  <2>13. \A x \in w'.externalized_slots : x.slot < w'.scp_slot
    BY <2>3, <2>12, LedgerSlot
  <2>14. NoAssertionFails'
    BY <2>6 DEF NoAssertionFails
  <2>15. IInv'
    BY <1>2, <2>3, <2>5, <2>6, <2>9, <2>11, <2>12, <2>13, <2>14, ReadyInvariant
  <2> QED BY <2>11, <2>15
<1> QED BY <1>5, <1>6

LEMMA TickConsensusInvariant ==
  ASSUME IInv, NEW values \in SUBSET Submitted, NEW msgs \in SUBSET Msg, NEW expired,
         TickConsensus(values, msgs, expired)
  PROVE  IInv' /\ (Keeps \/ Learns)
<1> DEFINE r == receive_tasks(w, values, msgs)
           n == next_sync_state(r, expired)
           s == EnterConsensus(r, n)
<1>1. /\ panicked = None
      /\ n # "IsBehind"
      /\ \/ FailedEarly(r, s) # None /\ Panic(FailedEarly(r, s))
         \/ /\ \E chosen \in Proposals(s), resolved \in SUBSET Processed(s) :
                  \E decides \in {FALSE, CanDecide(s, resolved)} :
                    Consensus(s, chosen, resolved, decides)
            /\ requests' = requests \ values
  BY DEF TickConsensus
<1>2. Ready(s) /\ FailedEarly(r, s) \in {None, "propose_pending_values"}
  BY <1>1, Entered
<1> HIDE DEF r, n, s
<1>3. CASE FailedEarly(r, s) # None /\ Panic(FailedEarly(r, s))
  <2>1. /\ panicked' = "propose_pending_values"
        /\ UNCHANGED <<chain, height, ledger, w, cache, requests>>
    BY <1>2, <1>3 DEF Panic
  <2>2. IInv'
    BY <2>1 DEF IInv, TypeOK, Sizes, LedgerAgrees, InStep, KeptIsPast, FlagAgrees,
       BehindForCause, NoAssertionFails
  <2> QED BY <2>1, <2>2 DEF Keeps
<1>4. ASSUME NEW chosen \in Proposals(s), NEW resolved \in SUBSET Processed(s),
             NEW decides \in {FALSE, CanDecide(s, resolved)},
             Consensus(s, chosen, resolved, decides), requests' = requests \ values
      PROVE  IInv' /\ (Keeps \/ Learns)
  <2>1. chosen \subseteq Tx
    BY <1>2, ProposalsTypes DEF Ready
  <2>2. requests' \subseteq Submitted
    BY <1>4 DEF IInv, TypeOK
  <2> QED BY <1>1, <1>2, <1>4, <2>1, <2>2, ConsensusInvariant
<1> QED BY <1>1, <1>3, <1>4

(* A node that is behind waits, or takes blocks that a sufficient set supports. *)
LEMMA BehindInvariant ==
  ASSUME IInv, NEW values \in SUBSET Submitted, NEW msgs \in SUBSET Msg, NEW expired,
         NEW r, r = receive_tasks(w, values, msgs), panicked = None,
         next_sync_state(r, expired) = "IsBehind",
         ledger' \in SyncOutcomes,
         w' = [r EXCEPT !.ledger_sync_state = "IsBehind", !.is_behind = TRUE],
         requests' = requests \ values,
         UNCHANGED <<chain, height, cache, panicked>>
  PROVE  IInv' /\ (Keeps \/ Learns)
<1>1. /\ r \in Worker
      /\ r.current_slot_index = w.current_slot_index /\ r.scp_slot = w.scp_slot
      /\ r.externalized_slots = w.externalized_slots
  BY Received
<1>2. is_behind(r.network_state, Len(ledger))
  BY DEF next_sync_state
<1>3. /\ w' \in Worker
      /\ w'.current_slot_index = w.current_slot_index /\ w'.scp_slot = w.scp_slot
      /\ w'.externalized_slots = w.externalized_slots
      /\ w'.network_state = r.network_state
      /\ w'.ledger_sync_state = "IsBehind" /\ w'.is_behind
  BY <1>1 DEF Worker, SyncState
<1>4. (ledger' = ledger) \/ Learns
  BY SyncLearns
<1>5. /\ ledger' \in Seq(Block) /\ LedgerAgrees' /\ Len(ledger') \in 1 .. Len(chain)
      /\ (ledger' = ledger) \/ (Len(ledger') > Len(ledger))
  <2>1. CASE ledger' = ledger
    BY <2>1 DEF IInv, TypeOK, Sizes, LedgerAgrees
  <2>2. CASE Learns
    <3>1. Len(ledger') \in Nat
      BY <2>2, LearnsAgrees, LedgerSlot DEF IInv, TypeOK
    <3> QED BY <2>2, <3>1, LearnsAgrees, LedgerSlot DEF IInv, TypeOK
  <2> QED BY <1>4, <2>1, <2>2
<1>6. w.current_slot_index <= Len(ledger) /\ w.current_slot_index \in Nat
  BY LedgerSlot DEF IInv, TypeOK, InStep, Worker, Slot
<1>7. TypeOK'
  BY <1>3, <1>5 DEF IInv, TypeOK
<1>8. Sizes'
  BY <1>5 DEF IInv, Sizes
<1>9. InStep'
  BY <1>3, <1>5, <1>6, LedgerSlot DEF IInv, InStep
<1>10. KeptIsPast' /\ FlagAgrees'
  BY <1>3 DEF IInv, KeptIsPast, FlagAgrees
<1>11. BehindForCause'
  <2>1. CASE ledger' = ledger
    BY <1>2, <1>3, <2>1 DEF BehindForCause, is_behind
  <2>2. CASE Len(ledger') > Len(ledger)
    BY <1>3, <1>5, <1>6, <2>2, LedgerSlot DEF BehindForCause
  <2> QED BY <1>5, <2>1, <2>2
<1>12. NoAssertionFails'
  BY DEF NoAssertionFails
<1> QED BY <1>4, <1>5, <1>7, <1>8, <1>9, <1>10, <1>11, <1>12 DEF IInv, Keeps

LEMMA TickSyncInvariant ==
  ASSUME IInv, NEW values \in SUBSET Submitted, NEW msgs \in SUBSET Msg, NEW expired,
         TickSync(values, msgs, expired)
  PROVE  IInv' /\ (Keeps \/ Learns)
BY BehindInvariant DEF TickSync

LEMMA TickWaitInvariant ==
  ASSUME IInv, NEW values \in SUBSET Submitted, NEW msgs \in SUBSET Msg,
         TickWait(values, msgs)
  PROVE  IInv' /\ Keeps
<1> DEFINE r == receive_tasks(w, values, msgs)
<1>1. /\ panicked = None /\ r.ledger_sync_state = "IsBehind"
      /\ next_sync_state(r, FALSE) = "IsBehind"
      /\ w' = r /\ requests' = requests \ values
      /\ UNCHANGED <<chain, height, ledger, cache, panicked>>
  BY DEF TickWait
<1>2. /\ r \in Worker /\ r.ledger_sync_state = w.ledger_sync_state
      /\ r.is_behind = w.is_behind
  BY Received
<1>3. r.is_behind = TRUE
  BY <1>1, <1>2 DEF IInv, FlagAgrees, TypeOK, Worker
<1>4. r = [r EXCEPT !.ledger_sync_state = "IsBehind", !.is_behind = TRUE]
  <2> HIDE DEF r
  <2> QED BY <1>1, <1>2, <1>3 DEF Worker
<1>5. ledger' \in SyncOutcomes
  BY <1>1 DEF SyncOutcomes, attempt_ledger_sync
<1>6. IInv'
  <2> HIDE DEF r
  <2>1. r = receive_tasks(w, values, msgs)
    BY DEF r
  <2> QED BY <1>1, <1>4, <1>5, <2>1, BehindInvariant
<1> QED BY <1>1, <1>6 DEF Keeps

LEMMA InsertTxInvariant ==
  ASSUME IInv, NEW t \in Submitted, InsertTx(t)
  PROVE  IInv' /\ Keeps
BY TombstoneAssumption DEF InsertTx, IInv, TypeOK, Sizes, LedgerAgrees, InStep,
   KeptIsPast, FlagAgrees, BehindForCause, NoAssertionFails, Keeps

LEMMA BroadcastFailsInvariant ==
  ASSUME IInv, NEW t \in Submitted, BroadcastFails(t)
  PROVE  IInv' /\ Keeps
BY DEF BroadcastFails, Panic, IInv, TypeOK, Sizes, LedgerAgrees, InStep,
   KeptIsPast, FlagAgrees, BehindForCause, NoAssertionFails, Keeps

(* A new worker starts at the end of the ledger. *)
LEMMA NewWorkerReady ==
  ASSUME NEW n \in Slot
  PROVE  LET v == NewWorker(n)
         IN /\ v \in Worker /\ v.current_slot_index = n /\ v.scp_slot = n
            /\ v.ledger_sync_state = "InSync" /\ ~ v.is_behind
            /\ v.externalized_slots = {}
<1>1. 0 \in Slot
  BY BoundsAssumption DEF Slot
<1> QED BY <1>1 DEF NewWorker, Worker, SyncState

LEMMA RestartInvariant ==
  ASSUME IInv, Restart
  PROVE  IInv' /\ Keeps
<1>1. /\ w' = NewWorker(Len(ledger)) /\ cache' = {} /\ requests' = {}
      /\ panicked' = None /\ UNCHANGED <<chain, height, ledger>>
  BY DEF Restart
<1>2. NoAssertionFails'
  BY <1>1 DEF NoAssertionFails
<1>3. IInv'
  BY <1>1, <1>2, LedgerSlot, NewWorkerReady, ReadyInvariant
<1> QED BY <1>1, <1>3 DEF Keeps

LEMMA DecideInvariant ==
  ASSUME IInv, NEW block \in Block, Decide(block)
  PROVE  IInv' /\ chain' = Append(chain, block) /\ UNCHANGED ledger
<1>1. /\ Len(chain) < MaxBlocks /\ chain' = Append(chain, block)
      /\ UNCHANGED <<height, ledger, w, cache, requests, panicked>>
  BY DEF Decide
<1>2. /\ chain' \in Seq(Block) /\ Len(chain') = Len(chain) + 1
      /\ \A i \in 1 .. Len(chain) : chain'[i] = chain[i]
  BY <1>1 DEF IInv, TypeOK
<1>3. TypeOK'
  BY <1>1, <1>2 DEF IInv, TypeOK
<1>4. Sizes'
  BY <1>1, <1>2, LedgerSlot DEF IInv, Sizes, TypeOK
<1>5. LedgerAgrees'
  BY <1>1, <1>2, LedgerSlot DEF IInv, LedgerAgrees
<1>6. InStep' /\ KeptIsPast' /\ FlagAgrees' /\ BehindForCause' /\ NoAssertionFails'
  BY <1>1 DEF IInv, InStep, KeptIsPast, FlagAgrees, BehindForCause, NoAssertionFails
<1> QED BY <1>1, <1>3, <1>4, <1>5, <1>6 DEF IInv

LEMMA PeerAppendsInvariant ==
  ASSUME IInv, NEW p \in Peer, PeerAppends(p)
  PROVE  IInv' /\ Keeps
<1>1. /\ height[p] < Len(chain) /\ height' = [height EXCEPT ![p] = @ + 1]
      /\ UNCHANGED <<chain, ledger, w, cache, requests, panicked>>
  BY DEF PeerAppends
<1>2. height' \in [Peer -> Nat] /\ \A q \in Peer : height'[q] <= Len(chain)
  BY <1>1, LedgerSlot DEF IInv, TypeOK, Sizes
<1>3. TypeOK' /\ Sizes'
  BY <1>1, <1>2 DEF IInv, TypeOK, Sizes
<1>4. LedgerAgrees' /\ InStep' /\ KeptIsPast' /\ FlagAgrees' /\ BehindForCause'
      /\ NoAssertionFails'
  BY <1>1 DEF IInv, LedgerAgrees, InStep, KeptIsPast, FlagAgrees, BehindForCause,
     NoAssertionFails
<1> QED BY <1>1, <1>3, <1>4 DEF IInv, Keeps

-----------------------------------------------------------------------------
(* The invariant *)

LEMMA InitInvariant == Init => IInv
<1> SUFFICES ASSUME Init PROVE IInv
  OBVIOUS
<1>1. 1 \in Slot /\ MaxBlocks \in Nat \ {0}
  BY BoundsAssumption DEF Slot
<1>2. /\ w \in Worker /\ w.current_slot_index = 1 /\ w.scp_slot = 1
      /\ w.ledger_sync_state = "InSync" /\ ~ w.is_behind /\ w.externalized_slots = {}
  BY <1>1, NewWorkerReady DEF Init
<1>3. chain \in Seq(Block) /\ Len(chain) = 1 /\ ledger = chain
  BY DEF Init, Origin, Block
<1>4. TypeOK
  BY <1>2, <1>3 DEF Init, TypeOK
<1>5. Sizes
  BY <1>1, <1>3 DEF Init, Sizes
<1>6. LedgerAgrees /\ NoAssertionFails
  BY <1>3 DEF Init, LedgerAgrees, NoAssertionFails
<1>7. InStep /\ KeptIsPast /\ FlagAgrees /\ BehindForCause
  <2>1. KeptIsPast /\ FlagAgrees /\ BehindForCause
    BY <1>2 DEF KeptIsPast, FlagAgrees, BehindForCause
  <2>2. Len(ledger) = 1
    BY <1>3
  <2>3. InStep
    BY <1>2, <2>2 DEF InStep
  <2> QED BY <2>1, <2>3
<1> QED BY <1>4, <1>5, <1>6, <1>7 DEF IInv

(* Every step keeps the invariant, and decides a block, or learns, or does neither. *)
LEMMA NextInvariant ==
  ASSUME IInv, [Next]_vars
  PROVE  /\ IInv'
         /\ \/ Keeps
            \/ Learns
            \/ \E b \in Block : chain' = Append(chain, b) /\ UNCHANGED ledger
<1>1. ASSUME NEW values \in Arrivals PROVE values \in SUBSET Submitted
  BY DEF Arrivals, IInv, TypeOK
<1>2. ASSUME NEW msgs \in Batches PROVE msgs \in SUBSET Msg
  BY DEF Batches, Sendable
<1>3. CASE UNCHANGED vars
  BY <1>3 DEF vars, IInv, TypeOK, Sizes, LedgerAgrees, InStep, KeptIsPast, FlagAgrees,
     BehindForCause, NoAssertionFails, Keeps
<1>4. ASSUME NEW values \in Arrivals, NEW msgs \in Batches, NEW expired \in Expired,
             TickConsensus(values, msgs, expired) \/ TickSync(values, msgs, expired)
      PROVE  IInv' /\ (Keeps \/ Learns)
  BY <1>1, <1>2, <1>4, TickConsensusInvariant, TickSyncInvariant
<1>5. ASSUME NEW values \in Arrivals, NEW msgs \in Batches, TickWait(values, msgs)
      PROVE  IInv' /\ Keeps
  BY <1>1, <1>2, <1>5, TickWaitInvariant
<1>6. ASSUME NEW t \in Submitted, InsertTx(t) \/ BroadcastFails(t)
      PROVE  IInv' /\ Keeps
  BY <1>6, InsertTxInvariant, BroadcastFailsInvariant
<1>7. CASE Restart
  BY <1>7, RestartInvariant
<1>8. ASSUME NEW block \in Block, Decide(block)
      PROVE  IInv' /\ chain' = Append(chain, block) /\ UNCHANGED ledger
  BY <1>8, DecideInvariant
<1>9. ASSUME NEW p \in Peer \ Faulty, PeerAppends(p)
      PROVE  IInv' /\ Keeps
  BY <1>9, PeerAppendsInvariant
<1> QED BY <1>3, <1>4, <1>5, <1>6, <1>7, <1>8, <1>9 DEF Next

(* The invariant holds in every reachable state. *)
LEMMA SpecInvariant == Spec => []IInv
<1>1. IInv /\ [Next]_vars => IInv'
  BY NextInvariant
<1> QED BY <1>1, InitInvariant, PTL DEF Spec

-----------------------------------------------------------------------------
(* Pending values *)

Held(s) == \A t \in s.pending_values : is_valid(t, ledger)
Nominates(s) == s.pending_values # {} => s.need_nominate \/ s.proposed # {}

PInv == PendingValid /\ NothingForgotten

(* New values were validated, and set need_nominate. *)
LEMMA ReceivedPending ==
  ASSUME IInv, PInv, NEW values, NEW msgs, NEW r, r = receive_tasks(w, values, msgs)
  PROVE  Nominates(r) /\ (w.ledger_sync_state # "IsBehind" => Held(r))
<1> DEFINE new == {t \in values \ w.pending_values : validate(t, cache, ledger)}
           need == w.need_nominate \/ new # {}
           net == push(w.network_state, msgs)
           slots == {m.slot : m \in msgs}
<1>1. r = [w EXCEPT !.pending_values = @ \cup new, !.need_nominate = need,
                    !.network_state = net, !.pending_consensus_msgs = @ \cup slots]
  BY DEF receive_tasks
<1>2. \A t \in new : is_valid(t, ledger)
  BY DEF validate
<1>3. need <=> w.need_nominate \/ new # {}
  OBVIOUS
<1> HIDE DEF new, need, net, slots
<1>4. /\ r.pending_values = w.pending_values \cup new /\ r.need_nominate = need
      /\ r.proposed = w.proposed
  BY <1>1 DEF IInv, TypeOK, Worker
<1> QED BY <1>2, <1>3, <1>4 DEF PInv, PendingValid, NothingForgotten, Held, Nominates

(* clear_invalid_values goes over what a sync made invalid. *)
LEMMA EnteredPending ==
  ASSUME IInv, PInv, NEW values \in SUBSET Submitted, NEW msgs \in SUBSET Msg,
         NEW r, r = receive_tasks(w, values, msgs),
         NEW n, NEW s, s = EnterConsensus(r, n)
  PROVE  Nominates(s) /\ Held(s)
<1>1. /\ r \in Worker /\ r.ledger_sync_state = w.ledger_sync_state
      /\ Nominates(r) /\ (w.ledger_sync_state # "IsBehind" => Held(r))
  BY Received, ReceivedPending
<1>2. CASE r.ledger_sync_state # "IsBehind"
  <2>1. s = [r EXCEPT !.ledger_sync_state = n]
    BY <1>2 DEF EnterConsensus
  <2>2. /\ s.pending_values = r.pending_values /\ s.need_nominate = r.need_nominate
        /\ s.proposed = r.proposed
    BY <1>1, <2>1 DEF Worker
  <2> QED BY <1>1, <1>2, <2>2 DEF Held, Nominates
<1>3. CASE r.ledger_sync_state = "IsBehind"
  <2> DEFINE left == {t \in r.pending_values : validate(t, cache, ledger)}
             need == r.need_nominate \/ left # {}
  <2>1. /\ catch_up(r).pending_values = left
        /\ catch_up(r).need_nominate = need
    BY <1>1 DEF catch_up, clear_invalid_values, reset_slot_index, Worker
  <2>2. s = [catch_up(r) EXCEPT !.ledger_sync_state = n] /\ catch_up(r) \in Worker
    BY <1>1, <1>3, CaughtUp DEF EnterConsensus
  <2>3. \A t \in left : is_valid(t, ledger)
    BY DEF validate
  <2>4. left # {} => need
    OBVIOUS
  <2> HIDE DEF left, need
  <2>5. s.pending_values = left /\ s.need_nominate = need
    BY <2>1, <2>2 DEF Worker
  <2> QED BY <2>3, <2>4, <2>5 DEF Held, Nominates
<1> QED BY <1>2, <1>3

(* Something is proposed when there is something pending. *)
LEMMA ProposalsNonempty ==
  ASSUME NEW s \in Worker, s.need_nominate, s.pending_values # {},
         NEW chosen \in Proposals(s)
  PROVE  chosen # {}
<1>1. MaxNominate \in Nat \ {0}
  BY BoundsAssumption
<1>2. Cardinality({}) = 0
  BY FS_EmptySet
<1>3. chosen = s.pending_values \/ Cardinality(chosen) = MaxNominate
  BY DEF Proposals, kSubset
<1> QED BY <1>1, <1>2, <1>3

(* What is left after a block is valid after it, and nominated for the next. *)
LEMMA CompletedPending ==
  ASSUME NEW s \in Worker, NEW values, NEW cached, NEW blocks,
         NEW c, c = complete_current_slot(s, values, cached, blocks)
  PROVE  /\ \A t \in c.pending_values : is_valid(t, blocks)
         /\ Nominates(c)
<1> DEFINE left == {t \in s.pending_values \ values :
                      /\ Tombstone[t] > Len(blocks) - 1
                      /\ validate(t, cached, blocks)}
           need == s.need_nominate \/ left # {}
<1>1. c = [s EXCEPT !.current_slot_index = Len(blocks), !.pending_values = left,
                    !.need_nominate = need, !.ledger_sync_state = "InSync"]
  BY DEF complete_current_slot
<1>2. \A t \in left : is_valid(t, blocks)
  BY DEF validate
<1>3. left # {} => need
  OBVIOUS
<1> HIDE DEF left, need
<1>4. c.pending_values = left /\ c.need_nominate = need
  BY <1>1 DEF Worker
<1> QED BY <1>2, <1>3, <1>4 DEF Nominates

LEMMA ConsensusPending ==
  ASSUME IInv, NEW s, Ready(s), Nominates(s), Held(s),
         s.need_nominate => s.pending_values # {},
         NEW chosen \in Proposals(s), NEW resolved,
         NEW decides \in {FALSE, CanDecide(s, resolved)},
         Consensus(s, chosen, resolved, decides)
  PROVE  PInv'
<1> DEFINE nominated == IF s.need_nominate THEN propose_pending_values(s, chosen) ELSE s
           handled == process_consensus_msgs(nominated, resolved, decides)
           cached == cache \cup Fetched(resolved)
<1>1. chosen \subseteq Tx
  BY ProposalsTypes DEF Ready
<1>2. Ready(nominated)
  BY <1>1, Proposed
<1>3. Complete(handled, cached)
  BY DEF Consensus
<1>4. /\ nominated.pending_values = s.pending_values
      /\ nominated.scp_slot = s.scp_slot
      /\ s.need_nominate => nominated.proposed = s.proposed \cup chosen
      /\ ~ s.need_nominate => nominated.proposed = s.proposed
  BY DEF Ready, Worker, propose_pending_values
<1>5. nominated.pending_values # {} => nominated.proposed # {}
  BY <1>4, ProposalsNonempty DEF Nominates, Ready
<1> HIDE DEF nominated
<1>6. CASE decides = FALSE
  <2>1. Ready(handled) /\ get_externalized_values(handled, handled.current_slot_index) = {}
    BY <1>2, <1>6, Undecided
  <2>2. handled.pending_values = s.pending_values /\ handled.proposed = nominated.proposed
    BY <1>2, <1>4, <1>6 DEF Ready, Worker, process_consensus_msgs
  <2> HIDE DEF handled, cached
  <2>3. w' = handled /\ UNCHANGED ledger
    BY <1>3, <2>1 DEF Complete
  <2>4. \A t \in w'.pending_values : is_valid(t, ledger')
    BY <2>2, <2>3 DEF Held
  <2> QED BY <1>4, <1>5, <2>2, <2>3, <2>4 DEF PInv, PendingValid, NothingForgotten
<1>7. CASE decides # FALSE
  <2>1. CanDecide(nominated, resolved) /\ decides = TRUE
    BY <1>4, <1>7 DEF CanDecide
  <2>2. /\ handled \in Worker /\ handled.current_slot_index = Len(ledger)
        /\ get_externalized_values(handled, Len(ledger)) # {}
    BY <1>2, <2>1, Decided
  <2> HIDE DEF handled, cached
  <2>3. PICK values, left : w' = complete_current_slot(handled, values, left, ledger')
    BY <1>3, <2>2 DEF Complete
  <2>4. (\A t \in w'.pending_values : is_valid(t, ledger')) /\ Nominates(w')
    BY ONLY <2>2, <2>3, CompletedPending
  <2> QED BY <2>4 DEF PInv, PendingValid, NothingForgotten, Nominates
<1> QED BY <1>6, <1>7

LEMMA NextPending ==
  ASSUME IInv, PInv, [Next]_vars
  PROVE  PInv'
<1>1. ASSUME NEW values \in Arrivals, NEW msgs \in Batches
      PROVE  values \in SUBSET Submitted /\ msgs \in SUBSET Msg
  BY DEF Arrivals, Batches, Sendable, IInv, TypeOK
<1>2. ASSUME NEW values \in Arrivals, NEW msgs \in Batches, NEW expired,
             TickConsensus(values, msgs, expired)
      PROVE  PInv'
  <2> DEFINE r == receive_tasks(w, values, msgs)
             n == next_sync_state(r, expired)
             s == EnterConsensus(r, n)
  <2>1. /\ n # "IsBehind"
        /\ \/ Panic(FailedEarly(r, s))
           \/ /\ FailedEarly(r, s) = None
              /\ \E chosen \in Proposals(s), resolved \in SUBSET Processed(s) :
                   \E decides \in {FALSE, CanDecide(s, resolved)} :
                     Consensus(s, chosen, resolved, decides)
    BY <1>2 DEF TickConsensus
  <2>2. Ready(s) /\ Nominates(s) /\ Held(s)
    BY <1>1, <2>1, Entered, EnteredPending
  <2> HIDE DEF r, n, s
  <2>3. CASE Panic(FailedEarly(r, s))
    BY <2>3 DEF Panic, PInv, PendingValid, NothingForgotten, is_valid, IsSpent
  <2>4. CASE FailedEarly(r, s) = None
    <3>1. s.need_nominate => s.pending_values # {}
      BY <2>4 DEF FailedEarly, None
    <3> QED BY <2>1, <2>2, <2>3, <3>1, ConsensusPending
  <2> QED BY <2>1, <2>3, <2>4
<1>3. ASSUME NEW values \in Arrivals, NEW msgs \in Batches, NEW expired,
             TickSync(values, msgs, expired) \/ TickWait(values, msgs)
      PROVE  PInv'
  <2> DEFINE r == receive_tasks(w, values, msgs)
  <2>1. r \in Worker /\ Nominates(r)
    BY <1>1, Received, ReceivedPending
  <2>2. \/ w' = [r EXCEPT !.ledger_sync_state = "IsBehind", !.is_behind = TRUE]
        \/ w' = r /\ r.ledger_sync_state = "IsBehind"
    BY <1>3 DEF TickSync, TickWait
  <2> HIDE DEF r
  <2>3. /\ w'.ledger_sync_state = "IsBehind" /\ w'.pending_values = r.pending_values
        /\ w'.need_nominate = r.need_nominate /\ w'.proposed = r.proposed
    BY <2>1, <2>2 DEF Worker
  <2> QED BY <2>1, <2>3 DEF PInv, PendingValid, NothingForgotten, Nominates
<1>4. CASE Restart
  BY <1>4 DEF Restart, NewWorker, PInv, PendingValid, NothingForgotten
<1>5. CASE UNCHANGED <<ledger, w>>
  BY <1>5 DEF PInv, PendingValid, NothingForgotten, is_valid, IsSpent
<1> QED BY <1>2, <1>3, <1>4, <1>5
        DEF Next, vars, InsertTx, BroadcastFails, Panic, Decide, PeerAppends

LEMMA SpecPending == Spec => []PInv
<1>1. Init => PInv
  BY DEF Init, NewWorker, PInv, PendingValid, NothingForgotten
<1>2. IInv /\ PInv /\ [Next]_vars => PInv'
  BY NextPending
<1> QED BY <1>1, <1>2, SpecInvariant, PTL DEF Spec

-----------------------------------------------------------------------------
(* Theorems *)

(* Type correctness: slots, messages and the sync state stay within their types,   *)
(* whatever arrives and whenever the process restarts.                             *)
THEOREM TypeCorrect == Spec => []TypeOK
<1>1. IInv => TypeOK
  BY DEF IInv
<1> QED BY <1>1, SpecInvariant, PTL

(* Worker, SCP Node and ledger stay in step in every network, for any peers, any   *)
(* of which may lie as long as they make up no quorum slice.                       *)
THEOREM SlotsInStep == Spec => []InStep
<1>1. IInv => InStep
  BY DEF IInv
<1> QED BY <1>1, SpecInvariant, PTL

(* No assertion of tick fails but the two that NoAssertionFails lists: the slot is *)
(* reset forwards only, messages of later slots wait, blocks are formed from       *)
(* cached transactions and appended for their own slot.                            *)
THEOREM AssertionsHold == Spec => []NoAssertionFails
<1>1. IInv => NoAssertionFails
  BY DEF IInv
<1> QED BY <1>1, SpecInvariant, PTL

(* A node that takes part in consensus holds only pending values that are valid    *)
(* against its ledger as it is, whatever ledger sync added in between.             *)
THEOREM PendingStaysValid == Spec => []PendingValid
<1>1. PInv => PendingValid
  BY DEF PInv
<1> QED BY <1>1, SpecPending, PTL

(* No pending value is left behind by a slot, a sync or a reset of the slot index:  *)
(* it will be nominated, or the current SCP slot was given values to nominate.      *)
THEOREM PendingNotForgotten == Spec => []NothingForgotten
<1>1. PInv => NothingForgotten
  BY DEF PInv
<1> QED BY <1>1, SpecPending, PTL

(* The ledger of the node implements AgreedLog: a replica of what the network      *)
(* decides, which only grows, whether complete_current_slot or ledger sync writes  *)
(* to it.                                                                          *)
THEOREM LedgerReplicates == Spec => Replicates
<1>1. Init => Log!Init
  BY DEF Init, Origin, Log!Init
<1>2. IInv /\ [Next]_vars => [Log!Next]_<<chain, ledger>>
  <2> SUFFICES ASSUME IInv, [Next]_vars PROVE [Log!Next]_<<chain, ledger>>
    OBVIOUS
  <2>1. CASE Keeps
    BY <2>1 DEF Keeps
  <2>2. CASE Learns
    <3>1. PICK n \in Len(ledger) + 1 .. Len(chain) : ledger' = SubSeq(chain, 1, n)
      BY <2>2 DEF Learns
    <3>2. n \in 1 .. Len(chain)
      BY <3>1, LedgerSlot
    <3> QED BY <2>2, <3>1, <3>2 DEF Learns, Log!Next, Log!Learn
  <2>3. ASSUME NEW b \in Block, chain' = Append(chain, b), UNCHANGED ledger
        PROVE  Log!Next
    BY <2>3 DEF Log!Next, Log!Decide
  <2> QED BY <2>1, <2>2, <2>3, NextInvariant
<1> QED BY <1>1, <1>2, SpecInvariant, PTL DEF Spec, Replicates, Log!Spec

=============================================================================
