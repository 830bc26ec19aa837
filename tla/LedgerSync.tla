----------------------------- MODULE LedgerSync -----------------------------
(***************************************************************************)
(* What a consensus node knows of the height of its peers                  *)
(* (ledger/sync/src/network_state/scp_network_state.rs) and how it copies  *)
(* from them the blocks it missed                                          *)
(* (ledger/sync/src/ledger_sync/ledger_sync_service.rs).                   *)
(*                                                                         *)
(* A block is the set of its transactions.  Block ids are hashes that      *)
(* cover the parent, so "the same block" means the same chain up to it:    *)
(* a chain is compared as a sequence.                                      *)
(***************************************************************************)
EXTENDS Integers, Sequences, FiniteSetsExt

CONSTANTS
  Peer,             \* the peers of the local node
  Slices,           \* the sets of peers that satisfy the local quorum set
  Faulty,           \* peers that may say anything
  Tx,               \* transactions
  KeyImage,         \* the key image each transaction spends
  SyncLimit         \* the blocks asked for in one attempt (100 in the code)

ASSUME SlicesAssumption == Slices \subseteq SUBSET Peer /\ Slices # {}
ASSUME FaultyAssumption ==
  /\ Faulty \subseteq Peer
  /\ \E slice \in Slices : slice \cap Faulty = {}   \* they do not block
  /\ \A slice \in Slices : ~ slice \subseteq Faulty \* and are no quorum
ASSUME SyncLimitAssumption == SyncLimit \in Nat \ {0}

Block == SUBSET Tx

(* Mutant: one peer is enough. *)
is_blocking_and_quorum_anyone(peers) == peers # {}

(* The dummy messages carry empty quorum sets, so a quorum is a slice of the local *)
(* node; the peers must satisfy one and meet them all.                             *)
is_blocking_and_quorum(peers) ==
  /\ \A slice \in Slices : slice \cap peers # {}
  /\ \E slice \in Slices : slice \subseteq peers

(* Mutants: off by one, each way. *)
ImpliedSlot_previous(m) == m.slot - 1
ImpliedSlot_next(m) == IF m.externalize THEN m.slot + 1 ELSE m.slot

(* The highest slot that a message shows its sender to have externalized. *)
ImpliedSlot(m) == IF m.externalize THEN m.slot ELSE m.slot - 1

(* Mutant: a late message takes an entry back. *)
push_latest(net, msgs) ==
  [p \in Peer |-> IF \E m \in msgs : m.from = p
                  THEN Max({ImpliedSlot(m) : m \in {x \in msgs : x.from = p}}) ELSE net[p]]

(* SCPNetworkState::push of all of msgs: an entry only grows.  No entry is 0: both *)
(* are below every block index that is_behind compares with.                       *)
push(net, msgs) ==
  [p \in Peer |-> Max({net[p]} \cup {ImpliedSlot(m) : m \in {x \in msgs : x.from = p}})]

(* LedgerSyncService::is_behind: num_blocks - 1 is the local block index. *)
is_behind(net, num_blocks) ==
  is_blocking_and_quorum({p \in Peer : net[p] > num_blocks - 1})

NoImageReused(blocks) ==
  \A i, j \in 1 .. Len(blocks) : \A t \in blocks[i], u \in blocks[j] :
    KeyImage[t] = KeyImage[u] => i = j /\ t = u

(* What the ledger can be after attempt_ledger_sync, when offers[q] are the peers   *)
(* that can answer get_blocks with the chain q or one that goes on from it.  The    *)
(* target is the highest block on which a sufficient set of those who answer in     *)
(* time agree; the contents may be missing from any block on, identify_safe_blocks  *)
(* stops at a key image seen before, and an append may fail.  So every chain that   *)
(* a sufficient set can support can come out.                                       *)
attempt_ledger_sync(ledger, offers) ==
  {ledger} \cup
  {q \in DOMAIN offers :
     /\ Len(ledger) < Len(q) /\ Len(q) <= Len(ledger) + SyncLimit
     /\ is_blocking_and_quorum(offers[q])
     /\ NoImageReused(q)}
=============================================================================
