# Verification of MobileCoin in TLA+

TLA+ models of the protocols of MobileCoin, the TLC configurations that
model-check them and TLAPS proofs about them. Three parts of the system are
covered, each from its source:

* **SCP** (`consensus/scp`), with which consensus nodes agree on the next block;
* **the node above it** (`consensus/service/src/byzantine_ledger`, `ledger/sync`),
  which turns decided slots and copied blocks into one ledger;
* **Fog** (`fog/ingest`, `fog/overseer`, `fog/sql_recovery_db`, `fog/view`), which
  scans the ledger for mobile clients and tells them what is theirs.

## 1. The system

MobileCoin is a blockchain. Clients submit transactions to consensus nodes;
the nodes agree with SCP on the set of transactions of the next block, form the
block in an SGX enclave and append it to their ledgers. Other services read
the ledger: nodes that catch up, archives, watchers, Fog and wallets.

| Part | State | Operations | Talks to |
|---|---|---|---|
| Ballots and messages, `consensus/scp/src/{ballot,msg}.rs` | none | order, validation, the statements a message makes | used by the slot |
| Quorum sets, `scp/types/src/quorum_set.rs`, `scp/src/quorum_set_ext.rs` | none | `findQuorum`, `findBlockingSet`, `is_valid`, `nodes` | used by the slot |
| Slot, `scp/src/slot.rs`, `predicates.rs` | phase, last message of each peer (`M`), nomination sets `W X Y Z`, ballots `B P PP H C`, two timers, last message sent | `propose_values`, `handle_messages`, `process_timeouts` | called by the node; returns messages |
| Node, `scp/src/node/node_impl.rs` | current slot, one externalized slot | the same three, `externalize`, `reset_slot_index` | called by the worker |
| ByzantineLedger worker, `consensus/service/src/byzantine_ledger` | pending values, pending messages, sync state, slot index, `need_nominate` | `tick` | node, ledger, ledger sync, transaction manager, broadcaster; fed by gRPC threads through a channel |
| Transaction managers and validators, `consensus/service/src/{tx_manager,mint_tx_manager,validators.rs}` | cache of well-formed transactions | insert, validate, combine, remove expired | worker and gRPC threads |
| Peers, `peers/src` | sent and seen messages | broadcast, relay, retry | other nodes |
| Ledger, `ledger/db` | blocks, outputs, key images, mint configurations | `append_block_data`, queries | worker, sync, APIs |
| Ledger sync, `ledger/sync` | what peers say about their slots | `is_behind`, `attempt_ledger_sync` | worker, archives |
| Enclave and attestation, `consensus/enclave`, `attest` | keys, sessions | decrypt, verify, form block | transaction manager, worker |
| Fog ingest, `fog/ingest/server` | mode, next block, invocation, peers, ingress and egress key in the enclave, state file | `process_next_block`, `activate`, `new_keys`, `retire`, `sync_keys_from_remote`, `peer_checkup`, restore | recovery database, other ingest servers, the ledger |
| Recovery database, `fog/sql_recovery_db` | ingress keys, invocations, ingested blocks, user events, reports | one SQL transaction per operation | ingest, overseer, view, report server |
| Fog overseer, `fog/overseer/server` | the statuses it has seen | poll, activate, new keys, report a key lost | ingest servers, recovery database |
| Fog view, `fog/view` | fetched records, two block trackers, the enclave's records; a client's cursors and sequences | load keys and blocks, tick, query, poll | recovery database, clients |
| Wallet and observers, `mobilecoind`, `watcher`, `light-client`, `t3` | monitors, UTXOs, block signatures | sync, payments | ledger, archives |

### What is hard

* **Concurrency without common state.** An SCP node decides from the *last*
  message it has of each peer. Messages are lost, repeated and reordered;
  nodes are on different ballots, in different phases, at the same time.
* **Two sources of blocks.** The worker's ledger grows by SCP and by ledger
  sync, while slot index, pending values and the flag `need_nominate` were
  set for an earlier ledger. Peers may lie about their blocks.
* **Failure.** A slot lives in memory: a restarted node has forgotten what it
  promised, and its peers drop its new messages because they hold greater ones.
  An ingest server restarts from a state file older than its last commit.
* **Data that is used up by failing.** The ingest enclave advances secret
  sequences before a block is committed; clients find nothing past a gap.
* **Locks across calls.** `activate` holds the state mutex while it calls peers
  whose handlers take theirs.
* **Stale views.** The overseer acts on statuses read one by one; a view server
  computes its count of complete blocks from keys it loaded some time ago; a
  client puts together answers of several servers.
* **Timeouts** raise the ballot and may finish a decision inside a call that
  nobody expects it from.
* **Order and recursion.** `P`, `PP`, `H` and `C` are recomputed from the
  messages at hand, once depending on the iteration order of a `HashSet`;
  `do_prepare_phase` and `do_commit_phase` call themselves.
* **Numbers.** Ballot counters are `u32`; an Externalize message stands for the
  counter `u32::MAX`; clamping subtracts one.

`PROJECT.json` lists these as hazards, each at its line.

### What makes each part correct

* Quorum search: what it returns is a quorum or a blocking set, and it finds
  one when there is one (`QuorumSound`, `QuorumComplete`, `BlockingSound`,
  `BlockingComplete`).
* Slot and SCP node: agreement, validity, stability of a decision, one decision
  across restarts, ballots that only grow, no assertion that fails, messages that
  peers will not refuse, searches that do not contradict each other; every node
  decides (`Agreement`, `Validity`, `DecisionStable`, `DecidesOnce`,
  `BallotMonotone`, `PNonDecreasing`, `AssertionsHold`, `MessagesValid`,
  `SearchesAgree`, `Termination`, `CatchUp`) and moves on (`MovesOn`, which the
  code does not always do).
* Worker and ledger sync: the ledger is a growing copy of what the network
  decided (`Replicates`); worker, SCP node and ledger are on the same slot
  (`InStep`); no assertion fails (`NoAssertionFails`); pending values stay valid
  and are nominated in the end (`PendingValid`, `NothingForgotten`); the node
  does not stay behind (`CatchUp`).
* Ingest: the invocation a server publishes under announces the egress key its
  enclave holds (`InvocationHeld`); the published positions of every sequence are
  whole (`RngSequences`); no block is skipped with a key (`NoSkippedBlock`); a
  published expiry is kept (`ExpiryKept`); what is owed of a lost key is announced
  as missed (`LossAnnounced`).
* Overseer: it makes no second server active (`OneActive`), it gives a key up only
  while no server is active (`LossWhileIdle`), the cluster comes back to scanning
  (`KeepsScanning`), activations end (`ActivationEnds`, which two of them at once
  do not).
* View: nothing is lost between database and enclave (`PipelineWhole`); counts
  promise no more than is there, for the server (`ViewComplete`) and, of the
  sequences it knows, for the client (`ClientComplete`), but for blocks that a server
  counted before it had loaded the key that covers them; the client catches up
  (`ClientCatchesUp`).

## 2. Modules

```
ScpMsg <- ScpVoting <- ScpSlot <- ScpNetwork <- MCScp <- MCBallot
                          |            |   |
                          |            |   Consensus
                   ScpSlotProofs <- ScpNetworkProofs <- ScpValidityProofs
                                                              <- ScpBallotProofs

QuorumSearch <- MCQuorum, MCScp

LedgerSync <- ByzantineLedger <- MCByzantineLedger
                 |       |
            AgreedLog   ByzantineLedgerProofs

RecoveryDb <- FogIngest <- FogOverseer <- MCFog
           <- FogView   <- MCFogView
RecoveryDbProofs <- FogIngestProofs (and FogOverseer), FogViewProofs (and FogView)
```

A module whose name ends in `Proofs` extends the module it is about and holds its
theorems and their lemmas; section 4 says what they prove. No theorem rests on
an MC module.

### SCP

* **ScpMsg** (`ballot.rs`, `msg.rs`). A `Vec<V>` of values is represented by
  its rank in the order of `Vec<V>`, 0 for the empty vector, because ballots
  are compared by it; `values_of` gives its elements and `combine_fn` the
  rank of the combination of a set. `Option<Ballot>` is a ballot or `NoBallot`,
  below every ballot as `None` is below `Some`. Topics are records; `TopicLT` is
  Rust's `Ord`, `WellFormed` is `Msg::validate`, `accepts_prepared`,
  `votes_or_accepts_commits` and the others are the methods of the same name. A
  range of counters is a set of naturals (`a .. b`).
* **ScpVoting** (`predicates.rs`, the fields and helper methods of `slot.rs`).
  A predicate is represented by the function `sat` from sets of nodes to
  whether a candidate is left after testing their messages: this is all that a
  search learns of it. `findQuorum` and `findBlockingSet` are constants here:
  the proofs hold for whatever sets they return.
* **ScpSlot** (`slot.rs`). Each method of the slot is an operator from a state to
  the set of states it may end in. A method that panics leaves `fault` set:
  `"assert"` (an assertion on the slot's own fields), `"search"` (one that relates
  what two searches have found), `"message"` (a message that `Msg::validate` refuses),
  `"phase"` (a phase check that meets a later phase), `"overflow"`
  (arithmetic overflow in a build that checks it; in either build the history field
  `overflow` notes on which side a counter has left the range) or `"depth"` (a phase that
  calls itself more than once, which the model does not follow and
  `SearchesAgree` excludes). A faulty node takes no further step but a restart.
* **ScpNetwork** (`node_impl.rs`). The network: `slot`, `wire` (messages that may
  still arrive), `externalized` (whether `Node::externalize` has moved on) and
  `restarts`. Actions: `ProposeValues`, `HandleMessages`, `ProcessTimeouts`,
  `Restart`. `ProcessTimeouts` leaves `externalized` alone, as
  `Node::process_timeouts` does not look at what the slot returns.
* **Consensus**: the abstract specification of a slot. One of the values that clients
  asked for is chosen, once; nodes learn what is chosen, and may forget it.
  `DecidesOnce` says that ScpNetwork implements it: a value is chosen when the
  members of a quorum that have kept their slots are committed to it, and learned
  by a node that has externalized it. The promise ends (`intact`) when two
  quorums no longer share a node that has kept its slot.
* **QuorumSearch** (`quorum_set.rs`, `quorum_set_ext.rs`). The two recursive
  searches, with inner sets and the quorum sets that messages carry. It uses
  RECURSIVE operators and is therefore used by TLC only.
* **MCScp, MCBallot, MCQuorum** instantiate them for TLC. `MCBallot` starts from
  states that a fixed sequence of calls of the methods of `ScpSlot` reaches from
  the initial state (`Overtaken`: three nodes on three ballots, two of which have timed
  out; `Lagging`: two nodes have prepared a ballot, the third is in nomination), so that
  TLC gets to contested ballots; everything after is free.

### The node above SCP

* **LedgerSync** (`scp_network_state.rs`, `ledger_sync_service.rs`). What a node
  has heard of its peers' slots (`push`, `is_blocking_and_quorum`, `is_behind`) and
  the ledgers an attempt to sync may end with. A block is the set of its
  transactions; since a block id covers its parent, chains are compared whole.
  Peers in `Faulty` answer anything.
* **ByzantineLedger** (`worker.rs`, `pending_values.rs`, `node_impl.rs`,
  `tx_manager`, `validators.rs`, the path of a transaction through
  `client_api_service.rs` and `consensus_service.rs`). `w` is the worker's struct
  with the slots of its SCP node; `cache` and `requests` are shared with the gRPC
  threads; `chain` is what SCP decides, at most one value per slot, which is what
  `ScpNetworkProofs` shows. One iteration of `tick` is one action, split by the
  state it ends in: `TickConsensus` (propose, handle messages, complete the
  slot), `TickSync` (a sync attempt) and `TickWait`. The assertions on the way are
  evaluated in the code's order and end the process (`panicked`); `Restart` keeps
  the ledger only. `InsertTx` and `BroadcastFails` are the gRPC threads; `Decide`
  and `PeerAppends` the rest of the network.
* **AgreedLog**: the abstract specification. Blocks are decided one after the other
  and a replica holds a beginning of them that only grows. `Replicates` says that
  ByzantineLedger implements it (`decided <- chain, replica <- ledger`).

### Fog

* **RecoveryDb** (`sql_recovery_db/src/lib.rs`). The database as a record of its
  tables, each SQL transaction as an operator from contents to contents. The rows
  of a block are the positions of the random-number sequence they are tagged with.
* **FogIngest** (`fog/ingest/server`). `srv[s]` is an `IngestController` with its
  enclave, `file[s]` its state file. Every section under the state mutex is a step;
  `process_next_block` is `BeginBlock`, `IngestChunk` (or `Overflow`,
  `IngestFails`), `CommitBlock`, `SaveState`, with the mutex free in between.
  `activate` holds it from `BeginActivate` to `ActivateFinish`: its calls to peers
  (`ActivateStatus`, `ActivateBackup`) wait for theirs, and whoever calls it waits.
  `CheckPeer` and `CorrectPeer` are the peer checkup; `NewKeys`, `SyncKeys`, `SetPeers`,
  `Retire`, `ReportLost` the operator's other commands; `Crash`, `RestartFresh` and
  `Restart` the loss of memory, with or without the state file.
* **FogOverseer** (`fog/overseer/server/src/worker.rs`) adds the overseer's thread.
  `ov` is where it is and what it has seen; between two of its steps anything else
  may happen.
* **FogView** (`fog/view/server`, `fog/view/protocol`). `store[s]` is a view server:
  the fetcher's keys, pass and tracker, the queue with its separate count, the
  poller's tick and tracker, the enclave's records and the published count. The
  fetcher's steps are `LoadKeys`, `NextPass`, `FetchBlocks`, `FetchFails`, `Push` and
  `CountQueued` (which waits, after the push, for room in the queue); the poller's
  `TakeRecords`, `AddRecords` and `EndTick`; a client's poll `ReadEvents`, `HandleFirst`,
  `ReadCount` and `Search`, each request split where the service reads different
  state. Ingest appears by its effects on the database. The resets of the queue and
  of its count, two mutexes in `get_pending_fetched_records`, are one step. There is
  one user with an output in every block and one shard.
* **MCFog, MCFogView** instantiate them. In MCFogView ingest follows one of three
  plans (a key retired while its successor starts; a failover and a lost key; a lost
  key and its replacement), interleaved in every way with servers and client.

Definitions under a comment that starts with "Mutant" (`..._unchecked`,
`..._kept` and the like) are deliberately wrong variants. No specification uses
them; substituting one for the definition below it must make the property it
is paired with in `PROJECT.json` fail.

## 3. What is checked

The runs of SCP use the release build's wrapping arithmetic. `CHECK_DEADLOCK
FALSE` is set for SCP and ingest: a network that has decided and has delivered
everything stops, and so does one that has used up its bounds.

| Run | Instance | Shows |
|---|---|---|
| `quorum_search` | 4 nodes, 2 candidates, every combination of 7 x 7 x 3 x 2 quorum sets (flat and nested) and of what each message says | `QuorumSound`, `QuorumComplete`, `BlockingSound`, `BlockingComplete` |
| `two_nodes` | 2 nodes, 3 values one of which one node rejects, all old messages on the wire, nomination timeouts, ballot timeouts of one node, one restart anywhere | `TypeOK`, `Validity`, `DecidesOnce`, `CatchUp` |
| `contested` | 3 nodes, any 2 a quorum, on 3 ballots with different values or with one node lagging in nomination; ballot timeouts of all nodes | `Agreement`, `AssertionsHold`, `MessagesValid`, `SearchesAgree`, `DecisionStable`, `PNonDecreasing`, `BallotMonotone`, `Termination` |
| `worker` | a node with 3 peers, one faulty, any two a slice; 2 transactions, one of which expires; 3 blocks; restarts at any time | `TypeOK`, `InStep`, `NoAssertionFails`, `PendingValid`, `NothingForgotten`, `Replicates`, `CatchUp` |
| `ingest` | 2 servers, 2 chunks per block, 3 keys, 4 blocks, any 3 commands of the operator, one crash or overflow | `TypeOK`, `InvocationHeld`, `RngSequences`, `NoSkippedBlock`, `ExpiryKept`, `LossAnnounced` |
| `failover` | 2 servers and the overseer, one crash or failed block, 2 commands (retire, set peers) | `OneActive`, `LossWhileIdle`, `KeepsScanning` |
| `view` | a view server and a client, 2 keys, 2 blocks, 2 invocations, the three plans, a queue with no room to spare, one failed query or request or restart | `TypeOK`, `PipelineWhole`, `ViewComplete`, `ClientComplete`, `ClientCatchesUp` |

Five runs look for what a comment or an assertion of the code says and find that
the code does not always do it (`PROJECT.json`, "findings", gives the lines):

| Run | What it finds |
|---|---|
| `phase_panic` | `do_prepare_phase` calls itself, the inner call enters Commit, and the outer call asserts that the phase is still Prepare: the node panics. |
| `silent_externalize` | Externalize messages take `B` of a node to `u32::MAX` while the ballot timer it set before runs on; the timeout, in which `B.N + 1` wraps, makes the slot externalize, and `Node::process_timeouts` does not look at what the slot returns. A slot does not send the same message twice, so that later messages do not help: the node stays on the decided slot (`MovesOn`). |
| `renominate` | a value arrives at a node that is behind and sets `need_nominate`; sync brings a block that invalidates it; on the way back to consensus it is cleared, `need_nominate` is not, and `propose_pending_values` panics. |
| `two_activations` | two ingest servers activated at the same moment hold their state mutexes while they ask each other for their status, without a deadline: neither call returns (`ActivationEnds`). |
| `abandoned_key` | a key is published by `activate` and lost in a crash before its first block; the overseer's query does not find it outstanding, and its users' blocks are neither scanned nor announced as missed. |

None of them breaks `Agreement` or `Replicates`: agreement is proved without the
invariants they refute, and a panic is a restart.

### Divergences

Further cases in which the code does not do what it says, met while modelling.
Those with a recipe are reproduced with TLC, the others come from reading.

* *Counter overflow* (`slot.rs:262`). A ballot timer that expires once `B.N` is
  `u32::MAX` overflows in `B.N + 1`: `phase_panic.cfg` with `overflow_checks = TRUE`
  and the invariant `\A n \in Node : slot[n].fault # "overflow"`. Without the check, as
  in a release build, the sum wraps to 0. This happens in `contested`: the counter was
  `u32::MAX` because of Externalize messages of peers, and the same messages take `B` up
  again before the call returns, so that `BallotMonotone` and `MessagesValid` hold (no
  counterexample was found with other quorum sets either). It is in such a timeout, though,
  that a slot externalizes unseen (`silent_externalize`). A ballot that got to `u32::MAX`
  by counting would have nothing to take it up again; that takes 2^32 timeouts or peers
  that count as far.
* *Silent externalize* (`node_impl.rs:271`): the run `silent_externalize`. Above SCP
  the node is then behind its peers, and ledger sync gets it on.
* *PP goes back* (`slot.rs:706`, against the note at `slot.rs:698`). `PP` returns to
  `None` and the node sends a message lower than its last one, which peers drop.
* *C and H left behind* (`slot.rs:1214`, against the invariant at `slot.rs:131`).
  After a timeout `B` has another value than `C` and `H`.
* *Transaction expired before its broadcast* (`consensus_service.rs:659`).
  The action `BroadcastFails`: the gRPC thread panics since the worker removed the
  transaction from the cache between its insertion and its broadcast.
* *A block the enclave refuses* (`controller.rs:545`, against the comment at
  `controller.rs:390`). When `ingest_txs` fails, `process_next_block` returns and keeps its
  invocation (`IngestFails`). If the rng store overflowed too often the enclave has a new
  egress key that nobody announces; after any other error (an output without a masked
  amount, a poisoned lock, SGX) the outputs drawn for the chunks before are
  lost and leave a gap. `ingest.cfg` with `"ingest_error"` in `Faults` violates
  `RngSequences` and `InvocationHeld`.
* *confirm_backup* (`controller.rs:1427`): with `update_if_wrong = false` it
  returns `Ok` for a peer with a wrong key, where its comment promises an error.
* *Activations that wait for each other* (`controller.rs:685`): the run
  `two_activations`. Two servers that restart with Active state files wait for each
  other in the same way. The overseer activates one server at a time.
* *A key given up while a server holds it* (`fog/overseer/server/src/worker.rs:390`,
  against `worker.rs:433`, "none of them matches the inactive outstanding key"). The
  overseer polls a backup before it holds the key; the active server's peer checkup
  then gives it the key (`CorrectPeer`); the active server crashes, loses its state
  file and comes back idle with a new key before it is polled; the overseer has seen
  nobody with the key and reports it lost. `failover.cfg` with `Spec`,
  `Commands = {"enable", "retire", "new_keys"}` and `MaxFaults = 2` violates
  `\A k \in Known(db) : db.keys[k].lost => \A s \in Server : srv[s].key # k`. With one
  fault the same comes of an operator's `sync_keys`, or of `activate` and `set_peers`,
  between two polls. Nothing is lost to users thereby (`LossAnnounced`), and no server
  is scanning with the key (`LossWhileIdle`).
* *A count past a key not loaded yet* (`db_fetcher.rs:236`). The fetcher reloads the
  keys only when there is nothing left to load; until then the poller's count takes no
  notice of a new key, and may pass blocks in which that key has outputs.
  `ViewComplete` without `excused` fails under `view.cfg`. So does `ClientComplete`,
  against `view.proto:151` (quoted below): the fetcher makes pass after pass with key 1
  alone; the client reads the events and hears of the invocation of key 2, which has an
  output in block 1; the count passes block 1 without key 2; the client takes the count 2
  and has not found that output of a sequence it knew. A later poll that raises the
  count looks for it again.
* *Events before count* (`fog_view_service.rs:127`, against `view.proto:151`, "After the
  interaction, you can be sure that you got every Txo of yours up to those cursor
  values"). An invocation announced after the events were read may be ingested and
  loaded before the count is. That every row below `client.count` is found fails
  under `view.cfg`; `ClientComplete` is about the sequences the client knew, and of these
  not about the blocks of the entry before.
* *Missed ranges dropped* (`polling.rs:114`). When the count is not news, `poll`
  returns nothing, although it has moved the cursor past the missed ranges.
* *Shards that are not ready* (`shard_responses_processor.rs:82`) are left out of an
  answer rather than retried.
* *Event ids* (`sql_recovery_db/src/lib.rs:712`, against `fog/types/src/view.rs:67`, "all
  events from request.start_from_user_event_id, up to this number"). Ids are drawn
  before commit; a cursor can pass an event that commits later.

### Bounds

`INFINITY` stands for `u32::MAX`: above every counter that timeouts reach, so that
counters below it and `INFINITY` itself both occur. It is 9 in `contested`, where
counters pass each other by several increments and none gets to `INFINITY` by
counting, as none would in 2^32 steps; with 5, counting does get there, and what then
happens is an artefact of the bound. Two values
give three vectors (`[1] < [1,2] < [2]`): enough for a ballot to be above, below and
between others; in `two_nodes` three values give seven. Three nodes with thresholds 1 and 2 of the other two give
majorities that overlap in one node, and unanimity. `MaxBatch` is 1: a batch with
several senders has the effect of its messages in turn, except that intermediate
messages are not sent. `MaxCounter` bounds the ballot timeouts of each node (one at
`INFINITY` is always allowed), `MaxRound` nomination rounds, `MaxRestarts`
restarts. With `KeepOld = FALSE` only the last message of each node can arrive; with
`TRUE` every one can, at any time. Losing a message is not delivering it. The
proofs need none of these bounds. No symmetry is used: leaders break it.

`worker`: three peers of which any two are a slice let one peer lie without being
believed and one be late; of two transactions one expires at block 2, so that it can be
pending, invalidated by sync, and left in a cache; three blocks let the node be
one or two behind. One value and one message arrive per iteration: more have the
effect of several iterations without the steps in between.

`ingest`, `failover`: two servers give an active one, a backup, and both believing to be
active. `Window` and `MaxBlocks` let a retired key expire within the run; `MaxKeys` is
large enough for every command and failover to draw one. `NumberOfTries` is 1.
One fault is a crash at any step, after which the state file may be gone; two crashes in one
run are left to the theorems, which bound neither.

`view`: `BatchSize` 1 makes a full batch, which keeps the fetcher going, and an
empty one both occur; `MaxQueued` 0 makes the fetcher wait at the second block;
`MaxRequest` 1 makes a poll take several rounds. With one server the answers of a poll
differ in age by its restart; the actions are written for any number.

### Fairness

* **SCP.** `Fairness` says that infinitely often a running node has no undelivered news
from a given other node. With `KeepOld = FALSE` that is weak fairness of the
delivery of last messages: the broadcaster retries and relays, and a node that is
connected gets its peers' last message at some time. No
fairness is assumed of timeouts, proposals or restarts: a timer may expire at any
time while it runs, up to the bound, or never. `Termination` therefore starts from
a node that has taken a value for nomination.

The instances decide without the help of timers although not every node helps:
one that confirms a ballot prepared while its own ballot is still zero sets `C` to
counter 0 (`slot.rs:825`), counts itself as voting to commit that ballot
(`slot.rs:1719`) and sends `CN = 0`, which says that it does not (`slot.rs:1308`).
`contested` reaches this case; the other two nodes are a quorum without it. Whether
a larger network can depend on such a node until a timeout is not examined.

* **Worker** (`FairSpec`). The last message of each honest peer arrives (the
  broadcaster retries it), the grace period ends, a sync attempt succeeds in the
  end if peers can support one, a process that panicked is restarted, and it is not
  killed for ever. That SCP makes progress is not assumed: `CatchUp` holds by sync.
* **Overseer** (`FairSpec`). Each server's worker thread and activation, and the
  overseer's thread, go on when they can; a server that is down is restarted.
  Operators' commands and faults need not happen.
* **View** (`Threads`). The fetcher, the poller and the client's loop go on when
  they can, each thread as a whole: within a thread the code fixes the order.

## 4. What is proved

### SCP

`ScpNetworkProofs` proves, for any set of nodes, any quorum sets and whatever
`findQuorum` and `findBlockingSet` return, any values, any `INFINITY` and any
bounds:

* `TypeCorrect`: `Spec => []TypeOK`;
* `AgreementHolds`: `Spec => []Agreement`: no two nodes externalize different
  values, if any two quorums (sets that `findQuorum` can return) share a node that has
  not restarted;
* `DecisionStays`: `Spec => DecisionStable`.

`ScpValidityProofs` and `ScpBallotProofs` add, for the same constants,

* `ValidityHolds`: `Spec => []Validity`;
* `SlotDecidedOnce`: `Spec => DecidesOnce`, the refinement of Consensus;
* `PreparedStays`: `Spec => PNonDecreasing`;
* `BallotsClimb`: `Spec => BallotMonotoneInRange`, that is `BallotMonotone` for slots
  that have not counted past `u32::MAX`;
* `AssertionsNeverFail`: `Spec => []AssertionsHold`, in either arithmetic;
* `MessagesAreValid`: `Spec => []MessagesValidInRange`, that is `MessagesValid` for slots
  whose counters have stayed within a `u32`, all in either arithmetic.

Agreement alone is not inductive. `IInv` adds three facts:

1. *SoundSlots*: in Commit and Externalize a slot's `C` and `B` have one value,
   its last message bears it, and in Externalize `C` and `H` are set (`Sound`).
2. *Promises*: all Commit and Externalize messages of a node that has not
   restarted, on the wire or held by any node, bear the value of the ballot it
   is locked on. A node in Commit or Externalize never changes that value.
3. *Backed*: for a node that has externalized, `findQuorum` returned a quorum
   whose members, those that have not restarted, are locked on its value.

Two nodes that have externalized have quorums that share such a member; it is
locked on the values of both. A restart can only make 2 and 3 say less, since
they speak of nodes that have not restarted.

`ScpSlotProofs` has one lemma per definition of `ScpSlot`: its result is a slot
again and *keeps* what the phase promises (`Keeps`), or enters Externalize
with a quorum behind it (`Enters`). `Advances` collects what any call of the
slot's methods guarantees; the proof about the network uses nothing else.

The proof shows that agreement does not rest on most of the ballot protocol:
not on prepared ballots and not on what blocking sets imply. It rests on every
node accepting a single value committed and on a quorum for confirming it. The
ballot protocol is what makes such a quorum come about, a question of liveness.

**Validity.** `VInv` is `IInv` and, for every node, `Within`: its value sets, its
ballots and what a receiver can take over from the messages it holds are made of
values that clients submitted and that it accepts itself, and the messages on the
wire of submitted values. Messages are validated on arrival
(`handle_messages` drops those with an invalid value), and `combine_fn` selects
from valid ones. That what is decided is not the *empty* vector is the hard half.
A node can confirm a ballot prepared, and so set `C` and vote to commit, while its
own `B` is still the zero ballot with the empty vector (`slot.rs:825`). The
invariant shows why nothing comes of that: a message with such a `B` has
`CN = 0`, so that it votes to commit nothing, and a quorum consists of such
messages unless the node is a quorum by itself. A node of that kind has
confirmed nothing prepared before it has a ballot, the last conjunct of `Within`;
`AloneAssumption` is needed for it.

**One decision.** In the refinement `Chosen` is a function of the slots. It has at
most one value by `IntactIntersection`: two quorums committed to two values would
share a node that is committed to both. It is never taken back, because a node in
Commit or Externalize keeps its value and a node that restarts leaves the
intersections, and it is what a node externalizes by *Backed*. That it is made of
proposed values, and not the empty vector, is validity.

**Ballots.** `Rises(s, t)` says that from slot `s` to slot `t` the phase goes
forwards and, within a phase, `P` and in Prepare `H` do not go down, and, unless
`t` has counted past `u32::MAX`, that `B` climbs: it takes a higher counter or keeps its
value. It is reflexive and transitive, so that a method rises if every step of
it does; there is one lemma per method. `P` is recomputed from the messages, and
is kept only since an update to a lower ballot is refused; `B` gets an
increment from a timeout and from `MoveB`. A release build has `overflow-checks = false`
(`Cargo.toml:205`): there `B.N` can wrap, which the history field `overflow` records, and
the theorem is about the slots in which it has not. Of the others it would need that a
counter at `u32::MAX` always comes from a peer that has externalized, which is false
for networks that count far enough. `BallotMonotone`, without the exemption, is checked in
`contested`, where counters do wrap.

**Assertions and messages.** The assertions of `slot.rs` check some fields at some
places. `AInv` is `VInv` and `Consistent` slots: an order among all of
the fields that holds after every method (`Ordered`): `X` and `Y` are disjoint, `P`
aborts `PP`, `C` is set only with `H` and not above it, and from Commit on `PP` is
gone and `B`, `C`, `H` and, in Commit, `P` have one value, which is not the empty
vector. There is one lemma per method. `UpdateC` takes the lowest ballot from `B` on with the
value of `H` that `P` and `PP` do not abort, which is not above `H` and wraps nowhere,
since `B` is at most `H` and `P` and `PP` do not abort `H`; a range of counters that is voted or accepted
committed has its ends in order; `PP` is taken only with another value than `P`; a
phase is entered with `C` and `H` from one range. That a message is valid needs
besides that `B` has caught up with `H` (`Leads`), since a Prepare message with
`HN > B.N` is refused: `B` is moved up at the end of each pass and only a wrapping
counter takes it down again, hence the exemption of slots that have wrapped. It includes
subtractions: for the arbitrary searches of the theorem `B` may still have the counter 0
when `P` is lowered below it. `P` and `PP` are lowered to fit
below `B` when the message is built, which keeps them in order.

### The worker

`ByzantineLedgerProofs` proves for any peers, slices, faulty peers that neither block
nor are a slice, transactions, tombstones and bounds: `TypeCorrect` (`TypeOK`),
`SlotsInStep` (`InStep`), `AssertionsHold` (`NoAssertionFails`), `PendingStaysValid`
(`PendingValid`), `PendingNotForgotten` (`NothingForgotten`) and `LedgerReplicates`
(`Spec => Replicates`, the refinement of AgreedLog). They rest on two inductive
invariants.

`IInv` is `TypeOK`, `InStep`, `NoAssertionFails` and

1. *Sizes*, *LedgerAgrees*: the ledger is a beginning of the chain. A sync attempt
   only ends with a chain that a slice supports; no slice is all faulty, so an
   honest peer supports it, and honest peers support beginnings of the chain.
2. *KeptIsPast*: the externalized slot that the SCP node keeps is before its
   current slot, so that what `complete_current_slot` finds is what the same
   iteration decided, and the ledger is at its slot.
3. *FlagAgrees*: `is_behind` is set exactly in the state IsBehind, the assertion
   of `tick`.
4. *BehindForCause*: a node that is behind has synced blocks since, or its
   network state still says that it is behind. The network state only grows, so
   leaving IsBehind means that the ledger has grown, and `reset_slot_index` goes
   forwards.

`PInv` is `PendingValid` and `NothingForgotten`, proved from `IInv`: values become
pending or stay so only after they were validated against the ledger of that
moment, and the ledger changes under them only in IsBehind, which is left
through `clear_invalid_values`.

### The recovery database

`RecoveryDbProofs` has the lemmas about the transactions, for tables of any size.
Each yields a database again, and none takes back what ingest and view rely on
(`Grows`): known keys with their start blocks, scanned blocks, the keys announced
by invocations, and the expiry of a key, which does not even grow while the key is
retired. `Follows(d, k, n)` says that all blocks from the start of key `k` up to
`n` are scanned with it; `Grows` keeps it.

### Ingest and overseer

`FogIngestProofs` proves, for any number of servers, chunks, keys, blocks, faults
and commands and any window, of ingest servers and overseer together: `Typing`
(`TypeOK`), `NoBlockSkipped` (`NoSkippedBlock`), `ExpiryHeld` (`ExpiryKept`),
`LossesAnnounced` (`LossAnnounced`) and,
if `ingest_txs` does not fail (`"ingest_error" \notin Faults`),
`WorkerKeepsInvocation` (`InvocationHeld`) and `SequencesWhole` (`RngSequences`).
If the operator leaves activation to the overseer (`"activate" \notin Commands`),
`OneServerActive` (`OneActive`); if he reports no key lost either,
`GivenUpWhileIdle` (`LossWhileIdle`).

`NoSkippedBlock` is about the tables alone and not inductive: that the block a
server commits follows on the others depends on what the server believes. `IInv`
is `Good` and `Watched`. `Good` says that

1. an active server, one at the end of `activate` and a state file that says
   Active `Follow` their key up to their next block. Other servers may scan the
   same blocks meanwhile, a file may be older than the database: since no scanned
   block is taken back, both still follow. A server that lost a block to another
   one reads the database and follows it again;
2. an invocation that a server holds is live, announced for its key, and held by
   no other server; while a worker is within a block it holds one (`ServerOK`,
   `OwnInvocations`);
3. the rows of all tables refer to each other and are within ledger and window
   (`DbOK`).

`Watched` says that the overseer acts on servers of the cluster and gives up known
keys. The action property `ExpiryKept` then is `Grows` of each transaction. For
`LossAnnounced`: a key becomes lost only in `report_lost_ingress_key`, which
announces as missed all blocks past the last scanned one; since there is no hole
among the scanned blocks, nothing remains owed.

`RInv` adds `RngOK`: an egress key belongs to one running server; it is announced
before an output of it is drawn; outputs are drawn in order, and those in the
hands of a worker follow on each other or on the published ones; no output is
published twice. A step is one of four kinds (it draws nothing, it starts a
new egress key, it draws an output, it publishes what a worker holds), with a lemma
for each. `IngestFails` is none of them: it may give the enclave a new egress key and
keeps the invocation of the old one, and it drops outputs that were drawn. The hypothesis excludes exactly what
*Divergences* reports as a disagreement with the code's comment.

`QInv` adds `Led`, what the overseer may rely on, for `OneActive` and `LossWhileIdle`.
Every step that makes a server idle writes its state file, so that a running idle
server has no file that says Active (`Agree`). A server at rest leaves that state
only at the end of an activation (`Calm`, one lemma per action of the cluster); an
activation is under way only on the server the overseer waits for. So what the
overseer has seen of servers that were up and idle remains true until it activates one,
and what it activates is the only one. A server that does not answer makes it start
over: such a server might come back active from its file, which the mutant
`GetStatus_skips` shows to matter. The hypothesis is needed: an operator who takes
a server's peers away (`set_peers`) and activates it has two active servers, for which
`NoSkippedBlock` and `RngSequences` still hold.

### View

`FogViewProofs` proves, for any number of view servers, keys, blocks, invocations
and faults and any sizes of batches, requests and queue: `ViewTyping` (`TypeOK`),
`NothingLostOnTheWay` (`PipelineWhole`), `CountIsComplete` (`ViewComplete`) and
`ClientMissesNothing` (`ClientComplete`). The last two exempt what is in `excused`: the
blocks that a server counted with keys loaded before the one that covers them was
announced (*Divergences*, "A count past a key not loaded yet"). `IInv` says of

1. the database (`DbOK`): the blocks of a key have no hole, and the outputs of an
   invocation are numbered in the order of its blocks without a gap. A client
   that stops at the first output it does not find relies on this;
2. each server (`StoreOK`): rows that were fetched follow on the fetcher's tracker,
   those on their way are the blocks between the poller's and the fetcher's
   tracker, and the enclave has exactly the blocks below the poller's;
3. each count (`Covered`): every block below it is in the enclave or excused;
4. the client (`ClientOK`): between the requests of a poll, every block below the
   new count is scanned (in the database, not in the enclave of the server
   that will be asked, which may be another one), sequences that are done have all
   their outputs below it, and the answer being searched covers what it says.

`ViewComplete` and `ClientComplete` speak of blocks in the database; the invariant
is stronger, as it says the blocks below a count *are* there. With the weaker
statement a block that ingest commits later, below a count already published,
could break them.

### Assumptions, and what is only model-checked

The `ASSUME`s of the modules, all of which TLC evaluates. In ScpNetwork no node
sends a message other than the code would (signatures, no Byzantine nodes), and a
search is a function of the predicate's outcomes. Two assumptions are about
code outside the slot. `CombineSelects`: what `combine_fn` returns is a selection
of the values it is given, as the `combine` of `validators.rs` does.
`AloneAssumption`: a node that can be a quorum by itself finds no blocking set
for a predicate that fails on every set with the node in it. A blocking set meets
every quorum of the node, so that one for such a node contains it; and the search
returns a set only if the predicate holds of it. The runs evaluate the
assumption for the searches of QuorumSearch. ByzantineLedger takes SCP's agreement as given.
FogView takes from ingest what `FogIngestProofs` shows: its steps on the database
follow the key's blocks and draw outputs in order.

Only model-checked:

* liveness: `Termination`, `CatchUp`, `KeepsScanning`, `ClientCatchesUp` (the prover has
  no fairness);
* the quorum searches, which are recursive;
* `SearchesAgree`: a later search looks for a quorum for other candidates, and that
  it finds no less than an earlier one is not true of arbitrary functions in place of
  `findQuorum` and `findBlockingSet`; `"depth"` is a bound of the model;
* `BallotMonotone` and `MessagesValid` of slots whose counters have wrapped.

## 5. What is not modelled

* SCP: durations of timers, metrics and logging, the cache of valid values, the
  hash that chooses nomination leaders (`priority` and `neighbors` are constants),
  Byzantine nodes.
* Worker: mint transactions, fees, block contents beyond transactions, the
  issuing of messages, the answers that the kept externalized slot gives to late
  peers, start-up.
* Fog: the attested channels, the report cache, `set_pubkey_expiry_window` (a
  constant), `enable` and `disable` of the overseer during a run, retries of
  database connections (stuttering), the oblivious memory, sharding and the view
  router, timestamps and readiness, the Fog ledger server.
* Coarser than the code in ingest: `ActivateStart` uses the chain length of its own
  step, where `ledger_num_blocks` is read before the lock (`ingest_service.rs:112`), and
  takes the status query and `new_ingress_key` as one, so that the error
  `CreatingNewIngressKey` (`controller.rs:805`) becomes a resume. `Perform` does
  `set_ingress_private_key` and `set_peers`, two calls (`controller.rs:1480`, `1520`), in one
  step, and `Overflow` the rotation, `new_ingest_invocation` and the new id
  (`controller.rs:543` to `584`).
* Coarser than the code in view: `TakeRecords` empties the queue and resets its count,
  two mutexes (`db_fetcher.rs:149`, `153`), in one step, so that a block pushed and counted in
  between does not have its count erased. The failure of the key query (`db_fetcher.rs:270`,
  which goes on with the old keys as `NextPass` does) is left out. So is the failure of
  `add_records`, after which the poller loops for ever (`server.rs:629`):
  `ClientCatchesUp` does not hold there. `Ingest` commits under the newest invocation
  of a key and gives a block rows of one sequence; in FogIngest an older
  invocation may commit after a newer one is announced, and an overflow puts rows of two
  sequences in one block.
* The parts outside are listed with reasons in `PROJECT.json`. Most of the
  repository by size is transactions, cryptography, attestation, enclaves,
  conversions and generated code, wallets and tools: computations whose
  correctness is that of formulas over groups or bytes, or I/O, which these tools
  do not reach. The share of the lines that is modelled is small for that reason.

## 6. What is left

1. *(done)* SCP, the worker with ledger sync, and Fog ingest, overseer, recovery
   database and view are modelled and checked; their safety is proved but for the
   list at the end of section 4.
2. `SearchesAgree` from assumptions on the searches (what is found for some
   candidates is found for a superset of them), and those from QuorumSearch.
3. ByzantineLedger with Consensus in place of its `Decide`. That ScpNetwork
   implements Consensus is proved, and `Decide` is its `Choose` for one slot after
   the other; the composition is not written down.
4. **LedgerDb** (`append_block_data` as one LMDB transaction with its checks),
   **ThreadedBroadcaster** (deduplication, relaying, retries), sharding of view,
   and the block synchronisation of `mobilecoind` and `watcher`.
