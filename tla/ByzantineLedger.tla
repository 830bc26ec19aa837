--------------------------- MODULE ByzantineLedger ---------------------------
(***************************************************************************)
(* One consensus node above SCP: the ByzantineLedger worker                *)
(* (consensus/service/src/byzantine_ledger/worker.rs), its pending values, *)
(* the slots of its SCP node, its transaction cache, the threads that feed *)
(* it, and its ledger.  One iteration of the worker's loop is one action.  *)
(*                                                                         *)
(* SCP is what ScpNetwork shows it to be: at most one value per slot.  The *)
(* value of slot i, once the network has one, is chain[i + 1]; block 0 is  *)
(* the origin block, which no slot decides.                                *)
(***************************************************************************)
EXTENDS LedgerSync

CONSTANTS
  Tombstone,        \* the first block that may not hold each transaction
  MaxNominate,      \* MAX_PENDING_VALUES_TO_NOMINATE
  MaxTxs,           \* MAX_TRANSACTIONS_PER_BLOCK
  Submitted,        \* bound: the transactions that reach this node as requests
  MaxBlocks         \* bound: blocks of the chain

ASSUME BoundsAssumption ==
  {MaxNominate, MaxBlocks, MaxTxs} \subseteq Nat \ {0}
ASSUME TombstoneAssumption == Tombstone \in [Tx -> Nat] /\ Submitted \subseteq Tx

VARIABLES
  chain,            \* the blocks the network has decided
  height,           \* the number of blocks each peer has
  ledger,           \* the blocks in the local ledger database
  w,                \* the worker's state, lost in a restart
  cache,            \* the transactions in the TxManager
  requests,         \* the cached values on their way to the worker
  panicked          \* the assertion that ended the process, or None

vars == <<chain, height, ledger, w, cache, requests, panicked>>

None == "none"
SyncState == {"InSync", "MaybeBehind", "IsBehind"}
Slot == 0 .. MaxBlocks
Msg == [from : Peer, slot : Slot \ {0}, externalize : BOOLEAN]
Externalized == [slot : Slot, values : Block]

Worker ==
  [current_slot_index : Slot,
   scp_slot : Slot,                      \* Node::current_slot
   externalized_slots : SUBSET Externalized,
   proposed : SUBSET Tx,                 \* what the current SCP slot was given
   pending_consensus_msgs : SUBSET Slot, \* the slots of the queued messages
   pending_values : SUBSET Tx,
   need_nominate : BOOLEAN,
   network_state : [Peer -> Slot],
   ledger_sync_state : SyncState,
   is_behind : BOOLEAN]

NewWorker(num_blocks) ==
  [current_slot_index |-> num_blocks, scp_slot |-> num_blocks,
   externalized_slots |-> {}, proposed |-> {}, pending_consensus_msgs |-> {},
   pending_values |-> {}, need_nominate |-> FALSE,
   network_state |-> [p \in Peer |-> 0],
   ledger_sync_state |-> "InSync", is_behind |-> FALSE]

Origin == <<{}>>

Init ==
  /\ chain = Origin /\ ledger = Origin
  /\ height = [p \in Peer |-> 1]
  /\ w = NewWorker(1)
  /\ cache = {} /\ requests = {}
  /\ panicked = None

-----------------------------------------------------------------------------
(* TxManager and DefaultTxManagerUntrustedInterfaces *)

IsSpent(t, blocks) ==
  \E i \in 1 .. Len(blocks) : \E u \in blocks[i] : KeyImage[u] = KeyImage[t]

is_valid(t, blocks) == Len(blocks) < Tombstone[t] /\ ~ IsSpent(t, blocks)

validate(t, cached, blocks) == t \in cached /\ is_valid(t, blocks)

well_formed(t, blocks) == Len(blocks) - 1 < Tombstone[t]

remove_expired(cached, block_index) == {t \in cached : Tombstone[t] > block_index}

-----------------------------------------------------------------------------
(* The steps of ByzantineLedgerWorker::tick, on the worker's state s *)

receive_tasks(s, values, msgs) ==
  LET new == {t \in values \ s.pending_values : validate(t, cache, ledger)}
  IN [s EXCEPT !.pending_values = @ \cup new,
               !.need_nominate = @ \/ new # {},
               !.network_state = push(@, msgs),
               !.pending_consensus_msgs = @ \cup {m.slot : m \in msgs}]

(* expired: the grace period has passed since the node first seemed behind. *)
next_sync_state(s, expired) ==
  IF ~ is_behind(s.network_state, Len(ledger)) THEN "InSync"
  ELSE CASE s.ledger_sync_state = "InSync"      -> "MaybeBehind"
         [] s.ledger_sync_state = "MaybeBehind" -> IF expired THEN "IsBehind"
                                                   ELSE "MaybeBehind"
         [] s.ledger_sync_state = "IsBehind"    -> "IsBehind"

(* Mutant: nothing is cleared. *)
clear_invalid_values_none(s) == s

clear_invalid_values(s) ==
  [s EXCEPT !.pending_values = {t \in @ : validate(t, cache, ledger)}]

(* Mutant: the slot in progress is kept. *)
reset_slot_index_kept(s, slot) == s

reset_slot_index(s, slot) ==
  [s EXCEPT !.scp_slot = slot, !.externalized_slots = {}, !.proposed = {}]

(* Transition (7): need_nominate may be set and is never taken back. *)
catch_up(s) ==
  LET moved == [s EXCEPT !.is_behind = FALSE, !.current_slot_index = Len(ledger)]
      r == clear_invalid_values(reset_slot_index(moved, Len(ledger)))
  IN [r EXCEPT !.need_nominate = @ \/ r.pending_values # {}]

propose_pending_values(s, values) ==
  [s EXCEPT !.proposed = @ \cup values, !.need_nominate = FALSE]

(* The first MaxNominate of the pending values; their order is abstracted from. *)
Proposals(s) ==
  IF ~ s.need_nominate THEN {{}}
  ELSE IF Cardinality(s.pending_values) <= MaxNominate THEN {s.pending_values}
  ELSE kSubset(MaxNominate, s.pending_values)

(* The messages of the current and the previous slot; later ones are kept. *)
Processed(s) ==
  {i \in s.pending_consensus_msgs : i \in s.current_slot_index - 1 .. s.current_slot_index}

(* SCP messages are resolved and handled.  When the network has decided the        *)
(* current slot, messages for it may let the local slot externalize, and the Node  *)
(* then moves on, keeping one externalized slot.                                   *)
process_consensus_msgs(s, resolved, decides) ==
  LET kept == [s EXCEPT !.pending_consensus_msgs =
                 {i \in @ : i > s.current_slot_index}]
  IN IF decides
     THEN [kept EXCEPT !.scp_slot = @ + 1, !.proposed = {},
             !.externalized_slots = {[slot |-> s.scp_slot, values |-> chain[s.scp_slot + 1]]}]
     ELSE kept

CanDecide(s, resolved) ==
  s.scp_slot \in resolved /\ s.scp_slot < Len(chain)

(* fetch_missing_txs: a resolved message has its transactions in the cache. *)
Fetched(resolved) ==
  UNION {chain[i + 1] : i \in {r \in resolved : r < Len(chain)}}

get_externalized_values(s, slot) ==
  {e.values : e \in {x \in s.externalized_slots : x.slot = slot}}

(* Mutant: the values that were left out are not nominated again. *)
complete_current_slot_forgets(s, values, cached, blocks) ==
  [s EXCEPT !.current_slot_index = Len(blocks),
            !.pending_values = {t \in @ \ values : validate(t, cached, blocks)},
            !.ledger_sync_state = "InSync"]

(* complete_current_slot, once the block is in the ledger (blocks) and the expired *)
(* transactions are out of the cache.                                              *)
complete_current_slot(s, values, cached, blocks) ==
  LET left == {t \in s.pending_values \ values :
                 /\ Tombstone[t] > Len(blocks) - 1
                 /\ validate(t, cached, blocks)}
  IN [s EXCEPT !.current_slot_index = Len(blocks),
               !.pending_values = left,
               !.need_nominate = @ \/ left # {},
               !.ledger_sync_state = "InSync"]

-----------------------------------------------------------------------------
(* One iteration: ByzantineLedgerWorker::tick *)

(* What peer p may have sent: of its current slot and of all before it. *)
Sendable ==
  {m \in Msg : \/ m.from \in Faulty /\ m.slot = MaxBlocks /\ m.externalize
               \/ m.slot < height[m.from]
               \/ m.slot = height[m.from] /\ ~ m.externalize}

(* After the sync state has moved to n. *)
EnterConsensus(r, n) ==
  [(IF r.ledger_sync_state = "IsBehind" THEN catch_up(r) ELSE r)
     EXCEPT !.ledger_sync_state = n]

(* The assertions met on the way to SCP, in the order of the code.  The first is   *)
(* a debug_assert.                                                                 *)
FailedEarly(r, s) ==
  IF r.ledger_sync_state = "IsBehind" /\ ~ Len(ledger) > r.scp_slot THEN "reset_slot_index"
  ELSE IF s.is_behind THEN "is_behind"
  ELSE IF s.need_nominate /\ s.pending_values = {} THEN "propose_pending_values"
  ELSE IF \E i \in Processed(s) : i > Len(ledger) THEN "process_consensus_msgs"
  ELSE None

FailedLate(s, values, cached) ==
  IF ~ values \subseteq cached THEN "form_block"
  ELSE IF Len(ledger) # s.current_slot_index THEN "complete_current_slot"
  ELSE None

Panic(reason) ==
  panicked' = reason /\ UNCHANGED <<chain, height, ledger, w, cache, requests>>

(* The block of the current slot, if the Node has externalized it. *)
Complete(s, cached) ==
  LET done == get_externalized_values(s, s.current_slot_index)
  IN \/ /\ done = {}
        /\ w' = s /\ cache' = cached
        /\ UNCHANGED <<ledger, panicked>>
     \/ \E values \in done :
          LET failed == FailedLate(s, values, cached)
              left == remove_expired(cached, Len(ledger))
          IN /\ ledger' = Append(ledger, values)
             /\ cache' = left
             /\ w' = complete_current_slot(s, values, left, ledger')
             /\ panicked' = failed

Consensus(s, chosen, resolved, decides) ==
  /\ \E nominated \in {IF s.need_nominate THEN propose_pending_values(s, chosen) ELSE s} :
       \E handled \in {process_consensus_msgs(nominated, resolved, decides)} :
         Complete(handled, cache \cup Fetched(resolved))
  /\ UNCHANGED <<chain, height>>

(* The iteration of a node that is not, or no longer, behind. *)
TickConsensus(values, msgs, expired) ==
  /\ panicked = None
  /\ \E r \in {receive_tasks(w, values, msgs)} : \E n \in {next_sync_state(r, expired)} :
       /\ n # "IsBehind"
       /\ \E s \in {EnterConsensus(r, n)} :
            \/ FailedEarly(r, s) # None /\ Panic(FailedEarly(r, s))
            \/ /\ FailedEarly(r, s) = None
               /\ \E chosen \in Proposals(s), resolved \in SUBSET Processed(s) :
                    \E decides \in {FALSE, CanDecide(s, resolved)} :
                      Consensus(s, chosen, resolved, decides)
               /\ requests' = requests \ values

(* A peer answers with the blocks it has; a faulty one with any.  A chain that     *)
(* forks can only start to be agreed at its first foreign block.                   *)
Supports(p, q) ==
  \/ p \in Faulty
  \/ Len(q) <= height[p] /\ q = SubSeq(chain, 1, Len(q))

Extensions ==
  {Append(SubSeq(chain, 1, n), b) : n \in Len(ledger) .. Len(chain), b \in Block \ {{}}}

SyncOutcomes ==
  attempt_ledger_sync(ledger,
    [q \in Extensions |-> {p \in Peer : Supports(p, q)}])

(* The iteration of a node that is behind: with a sync attempt, when it is time    *)
(* for one (in the iteration that finds out that it is, always), or without.       *)
TickSync(values, msgs, expired) ==
  \E r \in {receive_tasks(w, values, msgs)} :
     /\ panicked = None /\ next_sync_state(r, expired) = "IsBehind"
     /\ ledger' \in SyncOutcomes
     /\ w' = [r EXCEPT !.ledger_sync_state = "IsBehind", !.is_behind = TRUE]
     /\ requests' = requests \ values
     /\ UNCHANGED <<chain, height, cache, panicked>>

TickWait(values, msgs) ==
  \E r \in {receive_tasks(w, values, msgs)} :
     /\ panicked = None /\ r.ledger_sync_state = "IsBehind"
     /\ next_sync_state(r, FALSE) = "IsBehind"
     /\ w' = r /\ requests' = requests \ values
     /\ UNCHANGED <<chain, height, ledger, cache, panicked>>

-----------------------------------------------------------------------------
(* The threads of the gRPC services *)

(* A transaction from a client or a peer is well-formed, or cached already. *)
InsertTx(t) ==
  /\ panicked = None /\ t \notin requests
  /\ t \in cache \/ well_formed(t, ledger)
  /\ cache' = cache \cup {t} /\ requests' = requests \cup {t}
  /\ UNCHANGED <<chain, height, ledger, w, panicked>>

(* scp_client_value_sender hands the value to the worker.  If it came from a       *)
(* client, or from a peer whose transactions this node relays, it broadcasts the   *)
(* transaction first, and panics when it is no longer in the cache.                *)
BroadcastFails(t) ==
  /\ panicked = None /\ t \in requests \ cache
  /\ Panic("scp_client_value_sender")

(* The process may end at any time, and a panic ends it                            *)
(* (mc_common::setup_panic_handler); its supervisor starts it again.  Only the     *)
(* ledger survives.                                                                *)
Restart ==
  /\ w' = NewWorker(Len(ledger))
  /\ cache' = {} /\ requests' = {}
  /\ panicked' = None
  /\ UNCHANGED <<chain, height, ledger>>

(* The rest of the network decides the next block, and the peers append it. *)
Decide(block) ==
  /\ Len(chain) < MaxBlocks
  /\ block # {} /\ Cardinality(block) <= MaxTxs /\ \A t \in block : is_valid(t, chain)
  /\ \A t, u \in block : KeyImage[t] = KeyImage[u] => t = u
  /\ chain' = Append(chain, block)
  /\ UNCHANGED <<height, ledger, w, cache, requests, panicked>>

PeerAppends(p) ==
  /\ height[p] < Len(chain)
  /\ height' = [height EXCEPT ![p] = @ + 1]
  /\ UNCHANGED <<chain, ledger, w, cache, requests, panicked>>

(* What one iteration receives: at most one value and one message. *)
Arrivals == {{}} \cup {{t} : t \in requests}
Batches == {{}} \cup {{m} : m \in Sendable}

(* The grace period counts from when the node first seemed behind. *)
Expired == IF w.ledger_sync_state = "MaybeBehind" THEN BOOLEAN ELSE {FALSE}

Next ==
  \/ \E values \in Arrivals, msgs \in Batches, expired \in Expired :
       \/ TickConsensus(values, msgs, expired)
       \/ TickSync(values, msgs, expired)
  \/ \E values \in Arrivals, msgs \in Batches : TickWait(values, msgs)
  \/ \E t \in Submitted : InsertTx(t) \/ BroadcastFails(t)
  \/ Restart
  \/ \E block \in Block : Decide(block)
  \/ \E p \in Peer \ Faulty : PeerAppends(p)

Spec == Init /\ [][Next]_vars

-----------------------------------------------------------------------------
(* Fairness *)

Tick(values, msgs, expired) ==
  \/ TickConsensus(values, msgs, expired)
  \/ TickSync(values, msgs, expired)
  \/ TickWait(values, msgs)

(* The last message peer p is sure to have sent. *)
LastOf(p) ==
  IF height[p] = 1 THEN {} ELSE {[from |-> p, slot |-> height[p] - 1, externalize |-> TRUE]}

(* It arrives, or the node notices what it says, or panics; that SCP makes         *)
(* progress with it is not assumed.                                                *)
Hears(p) ==
  /\ Tick({}, LastOf(p), FALSE)
  /\ \/ w'.network_state # w.network_state
     \/ w'.ledger_sync_state # w.ledger_sync_state
     \/ panicked' # None

(* The grace period ends, or an attempt brings blocks. *)
Syncs ==
  /\ TickSync({}, {}, TRUE)
  /\ w.ledger_sync_state = "MaybeBehind" \/ Len(ledger') > Len(ledger)

FairSpec ==
  /\ Spec
  /\ \A p \in Peer \ Faulty : WF_vars(Hears(p))
  /\ WF_vars(Syncs)
  /\ WF_vars(panicked # None /\ Restart)
  /\ <>[][panicked # None \/ ~ Restart]_vars      \* it is not killed for ever

-----------------------------------------------------------------------------
TypeOK ==
  /\ chain \in Seq(Block) /\ ledger \in Seq(Block)
  /\ height \in [Peer -> Nat]
  /\ w \in Worker
  /\ cache \subseteq Tx /\ requests \subseteq Submitted

(* The ledger only holds what the network decided, although the node takes blocks  *)
(* from SCP and from peers, some of which may lie to it.                           *)
LedgerAgrees ==
  Len(ledger) <= Len(chain) /\ \A i \in 1 .. Len(ledger) : ledger[i] = chain[i]

(* The slot of the worker, the slot of the SCP Node and the height of the ledger    *)
(* go together between iterations: SCP never works on a block that the ledger       *)
(* already has, or that is not the next one, whether the blocks came from SCP, from *)
(* ledger sync, or the process was restarted in between.                            *)
InStep ==
  /\ w.scp_slot = w.current_slot_index
  /\ w.ledger_sync_state # "IsBehind" => w.current_slot_index = Len(ledger)
  /\ w.current_slot_index <= Len(ledger)

(* Of the assertions in tick and what it calls, none fails but the two that        *)
(* NominateAssertion and the README speak of: the slot index is only reset         *)
(* forwards, no message is handled for a slot past the ledger's end, a block is    *)
(* formed from cached transactions only, and it is appended for its own slot.      *)
NoAssertionFails ==
  panicked \in {None, "propose_pending_values", "scp_client_value_sender"}

(* What a node that takes part in consensus holds pending is valid against its     *)
(* ledger as it is now, although it was validated against an earlier one, and      *)
(* ledger sync adds blocks behind the back of the pending values.                  *)
PendingValid ==
  w.ledger_sync_state # "IsBehind" =>
    \A t \in w.pending_values : is_valid(t, ledger)

(* A pending value is not forgotten: the next iteration in consensus will nominate *)
(* pending values, or the current SCP slot has been given some already; slots that *)
(* end without them and an excursion to ledger sync do not change that.            *)
NothingForgotten ==
  w.pending_values # {} => w.need_nominate \/ w.proposed # {}

(* need_nominate is "set to true when the worker has pending values": the          *)
(* assertion at the head of propose_pending_values, that there are some, holds.    *)
NominateAssertion == panicked # "propose_pending_values"

Log == INSTANCE AgreedLog WITH Content <- Block, decided <- chain, replica <- ledger

(* The ledger is a replica of the chain: it only grows, and only by the blocks     *)
(* the network decided, although they come from SCP and from peers some of which   *)
(* lie, in batches that may end anywhere, across panics and restarts.              *)
Replicates == Log!Spec

(* The node does not stay behind: again and again its ledger is as long as that of *)
(* some honest peer, by SCP or by ledger sync, also when SCP is stuck, messages of *)
(* a faulty peer come in between, and the node panics and restarts on the way.     *)
CatchUp == []<>(\E p \in Peer \ Faulty : Len(ledger) >= height[p])
=============================================================================
