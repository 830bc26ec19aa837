----------------------------- MODULE FogIngest -----------------------------
(***************************************************************************)
(* A cluster of Fog ingest servers (fog/ingest/server) over one recovery   *)
(* database.  One server at a time should be active: its worker thread     *)
(* publishes a report of its ingress key, runs each new block through its  *)
(* enclave and commits the result; the others are idle backups holding the *)
(* same ingress key.  Servers crash and restart from their state file, and *)
(* the operator's RPCs reach any server at any time.                       *)
(*                                                                         *)
(* The mutex on IngestControllerState makes every section under it one     *)
(* step.  Only activate holds it across calls to other servers, so the     *)
(* steps of an activation carry the lock (Locked) and every handler of     *)
(* that server that needs the mutex waits.                                 *)
(***************************************************************************)
EXTENDS RecoveryDb

CONSTANTS
    NumServers,     \* the cluster: servers 1..NumServers, all configured as peers
    Window,         \* pubkey_expiry_window
    NumChunks,      \* chunks of max_transactions outputs that a block fills
    Commands,       \* the operator's commands: see Operator
    MaxKeys,        \* bound: ingress keys ever drawn
    MaxBlocks,      \* bound: blocks in the ledger
    Faults,         \* what goes wrong: see Fault
    MaxFaults,      \* bound: faults
    MaxCommands     \* bound: the operator's commands

Server == 1 .. NumServers

ASSUME FogAssumption ==
    /\ NumServers \in Nat \ {0} /\ Window \in Nat \ {0} /\ NumChunks \in Nat \ {0}
    /\ MaxKeys \in Nat /\ NumServers <= MaxKeys
    /\ MaxBlocks \in Nat \ {0} /\ {MaxFaults, MaxCommands} \subseteq Nat

VARIABLES
    db,     \* the recovery database
    srv,    \* the servers
    file,   \* their state files; a set of at most one summary
    chain,  \* number of blocks in the ledger
    used    \* what was drawn or spent so far: fresh keys and bounds

fogVars == <<db, srv, file, chain, used>>

(* An IngestController.  The enclave holds key (the ingress key), egress   *)
(* and rng, the number of outputs drawn from the egress key's sequence.    *)
(* work is where the worker thread is in process_next_block, rows what the *)
(* enclave returned for the block so far.  call is where an activation is, *)
(* asked the peers whose status it has, tasks the backups it has yet to    *)
(* confirm; checkup is the one the peer checkup has found wrong.           *)
Fresh(key, egress) ==
    [up |-> TRUE, mode |-> "Idle", next |-> 0, iid |-> 0, peers |-> Server,
     key |-> key, egress |-> egress, rng |-> 0,
     work |-> "poll", chunk |-> 0, rows |-> {},
     call |-> "none", asked |-> {}, tasks |-> {},
     checkup |-> {}]

(* write_state_file: the summary and the sealed ingress key. *)
Summary(s) == {[mode |-> s.mode, next |-> s.next, peers |-> s.peers, key |-> s.key]}

FogInit ==
    /\ db = EmptyDb
    /\ srv = [s \in Server |-> Fresh(s, s)]
    /\ file = [s \in Server |-> Summary(srv[s])]
    /\ chain = 1
    /\ used = [keys |-> NumServers, egress |-> NumServers, faults |-> 0,
               commands |-> 0]

(* activate holds the state mutex from its first line to set_active. *)
Locked(s) == srv[s].call \in {"status", "backup", "start", "finish"}

(* A fault of the kind may happen: a crash, an overflow of the enclave's   *)
(* rng store, or an error of ingest_txs.                                   *)
Fault(kind) == kind \in Faults /\ used.faults < MaxFaults

(* A server that answers an RPC that takes the state mutex. *)
Answers(s) == srv[s].up /\ ~Locked(s)

-----------------------------------------------------------------------------
(* process_next_block *)

(* Mutant: the enclave keeps its egress key and its rng store. *)
new_egress_key_kept(s, from, step) ==
    /\ db' = IF srv[s].iid = 0 THEN from
             ELSE decommission_ingest_invocation(from, srv[s].iid)
    /\ srv' = [srv EXCEPT ![s].mode = "Idle", ![s].iid = 0,
                          ![s].work = step, ![s].rows = {}, ![s].chunk = 0]
    /\ file' = [file EXCEPT ![s] = Summary(srv'[s])]
    /\ UNCHANGED used

(* new_egress_key, under the state mutex of a server just set idle: frees  *)
(* the invocation, draws a new egress key, empties the rng store and       *)
(* writes the state file.                                                  *)
new_egress_key(s, from, step) ==
    /\ db' = IF srv[s].iid = 0 THEN from
             ELSE decommission_ingest_invocation(from, srv[s].iid)
    /\ used' = [used EXCEPT !.egress = @ + 1]
    /\ srv' = [srv EXCEPT ![s].mode = "Idle", ![s].iid = 0,
                          ![s].egress = used.egress + 1, ![s].rng = 0,
                          ![s].work = step, ![s].rows = {}, ![s].chunk = 0]
    /\ file' = [file EXCEPT ![s] = Summary(srv'[s])]

(* A retired key whose expiry is behind the block needs no more scanning. *)
Expired(row, index) == row.retired /\ index > row.expiry

(* The worker of an active server takes the next block: it publishes a     *)
(* report, goes idle when its key is retired and expired, and otherwise    *)
(* makes sure that it has an invocation.                                   *)
BeginBlock(s) ==
    /\ Answers(s) /\ srv[s].work = "poll" /\ srv[s].mode = "Active"
    /\ srv[s].next < chain
    /\ \E reported \in {set_report(db, srv[s].key, srv[s].next + Window)} :
          IF Expired(reported.keys[srv[s].key], srv[s].next)
          THEN new_egress_key(s, reported, "poll")
          ELSE /\ db' = IF srv[s].iid # 0 THEN reported
                        ELSE new_ingest_invocation(reported, 0, srv[s].key,
                                                   srv[s].egress, srv[s].next)
               /\ srv' = [srv EXCEPT
                     ![s].iid = IF @ # 0 THEN @ ELSE Len(db'.invocations),
                     ![s].work = "ingest"]
               /\ UNCHANGED <<file, used>>
    /\ UNCHANGED chain

(* The enclave tags one chunk with the next output of the sequence. *)
IngestChunk(s) ==
    /\ srv[s].up /\ srv[s].work = "ingest" /\ srv[s].chunk < NumChunks
    /\ srv' = [srv EXCEPT ![s].rows = @ \cup {<<srv[s].egress, srv[s].rng>>},
                          ![s].rng = @ + 1, ![s].chunk = @ + 1]
    /\ UNCHANGED <<db, file, chain, used>>

(* Mutant: the invocation is kept. *)
Overflow_kept(s) ==
    /\ srv[s].up /\ srv[s].work = "ingest" /\ srv[s].chunk < NumChunks
    /\ Fault("overflow")
    /\ \E egress \in {used.egress + 1} :
          /\ srv' = [srv EXCEPT ![s].egress = egress, ![s].rng = 1,
                                ![s].rows = @ \cup {<<egress, 0>>},
                                ![s].chunk = @ + 1]
          /\ used' = [used EXCEPT !.egress = egress, !.faults = @ + 1]
    /\ UNCHANGED <<db, file, chain>>

(* The rng store overflows: the enclave draws a new egress key and tags    *)
(* the chunk afresh; the server replaces its invocation.                   *)
Overflow(s) ==
    /\ srv[s].up /\ srv[s].work = "ingest" /\ srv[s].chunk < NumChunks
    /\ Fault("overflow")
    /\ \E egress \in {used.egress + 1} :
          /\ db' = new_ingest_invocation(db, srv[s].iid, srv[s].key, egress,
                                         srv[s].next)
          /\ srv' = [srv EXCEPT ![s].iid = Len(db'.invocations),
                                ![s].egress = egress, ![s].rng = 1,
                                ![s].rows = @ \cup {<<egress, 0>>},
                                ![s].chunk = @ + 1]
          /\ used' = [used EXCEPT !.egress = egress, !.faults = @ + 1]
    /\ UNCHANGED <<file, chain>>

(* ingest_txs fails and process_next_block returns with what it had: the   *)
(* rng store overflowed once too often (ChunkTooBig), which leaves the     *)
(* enclave with a new egress key, or something else went wrong.            *)
IngestFails(s) ==
    /\ srv[s].up /\ srv[s].work = "ingest" /\ srv[s].chunk < NumChunks
    /\ Fault("ingest_error")
    /\ \E rotated \in BOOLEAN :
          /\ srv' = [srv EXCEPT ![s].egress = IF rotated THEN used.egress + 1 ELSE @,
                                ![s].rng = IF rotated THEN 0 ELSE @,
                                ![s].work = "poll", ![s].rows = {}, ![s].chunk = 0]
          /\ used' = [used EXCEPT !.egress = IF rotated THEN @ + 1 ELSE @, !.faults = @ + 1]
    /\ UNCHANGED <<db, file, chain>>

(* add_block_data, and what the worker does about its answer: when another *)
(* server has committed the block with the same key, go idle and forget    *)
(* the sequences; otherwise count the block.                               *)
CommitBlock(s) ==
    /\ Answers(s) /\ srv[s].work = "ingest" /\ srv[s].chunk = NumChunks
    /\ IF AlreadyScanned(db, srv[s].iid, srv[s].next)
       THEN new_egress_key(s, db, "save")
       ELSE /\ db' = add_block_data(db, srv[s].iid, srv[s].next, srv[s].rows)
            /\ srv' = [srv EXCEPT ![s].next = @ + 1, ![s].work = "save",
                                  ![s].rows = {}, ![s].chunk = 0]
            /\ UNCHANGED <<file, used>>
    /\ UNCHANGED chain

(* The write_state_file that ends process_next_block. *)
SaveState(s) ==
    /\ Answers(s) /\ srv[s].work = "save"
    /\ file' = [file EXCEPT ![s] = Summary(srv[s])]
    /\ srv' = [srv EXCEPT ![s].work = "poll"]
    /\ UNCHANGED <<db, chain, used>>

-----------------------------------------------------------------------------
(* activate, and the peer checkup *)

Others(s) == srv[s].peers \ {s}

EndCall(s) == [srv EXCEPT ![s].call = "none", ![s].asked = {}, ![s].tasks = {}]

(* An idle server takes its lock and turns to its peers. *)
BeginActivate(s) ==
    /\ Answers(s) /\ srv[s].call = "none" /\ srv[s].mode = "Idle"
    /\ srv' = [srv EXCEPT ![s].call = "status"]
    /\ UNCHANGED <<db, file>>

(* What confirm_backup has to do about peer p, given p's status now. *)
Task(s, p) ==
    [peer |-> p, key |-> srv[s].key, peers |-> srv[s].peers,
     send_key |-> srv[p].key # srv[s].key, send_peers |-> srv[p].peers # srv[s].peers]

(* get_status of one peer; one that is active or unreachable ends it. *)
ActivateStatus(s) ==
    /\ srv[s].call = "status"
    /\ IF Others(s) = srv[s].asked
       THEN srv' = [srv EXCEPT ![s].call = "backup", ![s].asked = {}]
       ELSE \E p \in Others(s) \ srv[s].asked :
               /\ ~Locked(p)
               /\ srv' = IF srv[p].up /\ srv[p].mode = "Idle"
                         THEN [srv EXCEPT ![s].asked = @ \cup {p},
                                          ![s].tasks = @ \cup {Task(s, p)}]
                         ELSE EndCall(s)
    /\ UNCHANGED <<db, file, chain, used>>

(* Whether task t of s succeeds.  The peer must answer; it takes a key     *)
(* only while it is idle, and s sends it only if it still holds it.        *)
Succeeds(s, t) ==
    /\ t.send_key \/ t.send_peers => srv[t.peer].up
    /\ t.send_key => srv[t.peer].mode = "Idle" /\ srv[s].key = t.key

(* The effect of t on the peer, whose state file holds a new key at once.  *)
Perform(t, servers) ==
    /\ srv' = [servers EXCEPT
                  ![t.peer].key = IF t.send_key THEN t.key ELSE @,
                  ![t.peer].peers = IF t.send_peers THEN t.peers ELSE @]
    /\ file' = IF t.send_key /\ srv[t.peer].key # t.key
               THEN [file EXCEPT ![t.peer] =
                        Summary([srv[t.peer] EXCEPT !.key = t.key])]
               ELSE file

ActivateBackup(s) ==
    /\ srv[s].call = "backup"
    /\ IF srv[s].tasks = {}
       THEN srv' = [srv EXCEPT ![s].call = "start"] /\ UNCHANGED file
       ELSE \E t \in srv[s].tasks :
               /\ t.send_key \/ t.send_peers => ~Locked(t.peer)
               /\ IF Succeeds(s, t)
                  THEN Perform(t, [srv EXCEPT ![s].tasks = @ \ {t}])
                  ELSE srv' = EndCall(s) /\ UNCHANGED file
    /\ UNCHANGED <<db, chain, used>>

(* The block to start at: after the last one scanned with the key, or, for *)
(* a new key, after all blocks that the ledger or the database knows.      *)
ActivateStart(s) ==
    /\ srv[s].call = "start"
    /\ db' = IF srv[s].key \in Known(db) THEN db
             ELSE new_ingress_key(db, srv[s].key, chain)
    /\ srv' = [srv EXCEPT ![s].next = ResumeAt(db', srv[s].key),
                          ![s].call = "finish"]
    /\ UNCHANGED <<file, chain, used>>

(* A report is published before the first block; then the server is active *)
(* unless its key has nothing left to scan.                                *)
ActivateFinish(s) ==
    /\ srv[s].call = "finish"
    /\ db' = set_report(db, srv[s].key, srv[s].next + Window)
    /\ srv' = IF Expired(db'.keys[srv[s].key], srv[s].next) THEN EndCall(s)
              ELSE [srv EXCEPT ![s].mode = "Active", ![s].call = "save"]
    /\ UNCHANGED <<file, chain, used>>

(* The write_state_file that ends activate, after the lock is dropped. *)
ActivateSave(s) ==
    /\ srv[s].call = "save"
    /\ file' = [file EXCEPT ![s] = Summary(srv[s])]
    /\ srv' = EndCall(s)
    /\ UNCHANGED <<db, chain, used>>

(* peer_checkup of an active server, without its lock: ask an idle peer    *)
(* for its status, and later correct what was found wrong with it.         *)
CheckPeer(s) ==
    /\ Answers(s) /\ srv[s].mode = "Active" /\ srv[s].checkup = {}
    /\ \E p \in Others(s) :
          /\ Answers(p) /\ srv[p].mode = "Idle"
          /\ Task(s, p).send_key \/ Task(s, p).send_peers
          /\ srv' = [srv EXCEPT ![s].checkup = {Task(s, p)}]
    /\ UNCHANGED <<db, file, chain, used>>

CorrectPeer(s) ==
    /\ \E t \in srv[s].checkup :
          /\ ~Locked(t.peer)
          /\ \E servers \in {[srv EXCEPT ![s].checkup = {}]} :
                IF Succeeds(s, t) THEN Perform(t, servers)
                ELSE srv' = servers /\ UNCHANGED file
    /\ UNCHANGED <<db, chain, used>>

-----------------------------------------------------------------------------
(* The other RPCs of the operator *)

(* new_keys, of an idle server. *)
NewKeys(s, cost) ==
    /\ Answers(s) /\ srv[s].mode = "Idle" /\ used.keys < MaxKeys
    /\ used' = [used EXCEPT !.keys = @ + 1, !.egress = @ + 1, !.commands = @ + cost]
    /\ db' = IF srv[s].iid = 0 THEN db
             ELSE decommission_ingest_invocation(db, srv[s].iid)
    /\ srv' = [srv EXCEPT ![s].iid = 0, ![s].key = used.keys + 1,
                          ![s].egress = used.egress + 1, ![s].rng = 0]
    /\ file' = [file EXCEPT ![s] = Summary(srv'[s])]

(* sync_keys_from_remote: take the ingress key of another server. *)
SyncKeys(s) ==
    /\ Answers(s) /\ srv[s].mode = "Idle"
    /\ \E p \in Server \ {s} :
          srv[p].up /\ srv' = [srv EXCEPT ![s].key = srv[p].key]
    /\ file' = [file EXCEPT ![s] = Summary(srv'[s])]
    /\ UNCHANGED db

SetPeers(s) ==
    /\ Answers(s)
    /\ \E others \in SUBSET (Server \ {s}) :
          srv' = [srv EXCEPT ![s].peers = {s} \cup others]
    /\ UNCHANGED <<db, file>>

Retire(s, flag) ==
    /\ srv[s].up
    /\ db' = retire_ingress_key(db, srv[s].key, flag)
    /\ UNCHANGED <<srv, file>>

ReportLost(s) ==
    /\ srv[s].up
    /\ \E k \in Known(db) : db' = report_lost_ingress_key(db, k)
    /\ UNCHANGED <<srv, file>>

Operator(s) ==
    /\ used.commands < MaxCommands
    /\ \/ "new_keys" \in Commands /\ NewKeys(s, 1)
       \/ /\ \/ "activate" \in Commands /\ BeginActivate(s)
             \/ "sync_keys" \in Commands /\ SyncKeys(s)
             \/ "set_peers" \in Commands /\ SetPeers(s)
             \/ "retire" \in Commands /\ Retire(s, TRUE)
             \/ "unretire" \in Commands /\ Retire(s, FALSE)
             \/ "report_lost" \in Commands /\ ReportLost(s)
          /\ used' = [used EXCEPT !.commands = @ + 1]
    /\ UNCHANGED chain

-----------------------------------------------------------------------------
(* Crashes, restarts and the ledger *)

Down == [Fresh(0, 0) EXCEPT !.up = FALSE]

(* A crash loses the memory; the state file may turn out unreadable, or    *)
(* its sealed key be rejected, and is then moved away.                     *)
Crash(s) ==
    /\ srv[s].up /\ Fault("crash")
    /\ srv' = [srv EXCEPT ![s] = Down]
    /\ \E left \in {file[s], {}} : file' = [file EXCEPT ![s] = left]
    /\ used' = [used EXCEPT !.faults = @ + 1]
    /\ UNCHANGED <<db, chain>>

Start(s, server) ==
    /\ srv' = [srv EXCEPT ![s] = server]
    /\ file' = [file EXCEPT ![s] = Summary(server)]
    /\ UNCHANGED <<db, chain>>

(* A server without a state file starts idle with new keys. *)
RestartFresh(s) ==
    /\ ~srv[s].up /\ file[s] = {} /\ used.keys < MaxKeys
    /\ Start(s, Fresh(used.keys + 1, used.egress + 1))
    /\ used' = [used EXCEPT !.keys = @ + 1, !.egress = @ + 1]

(* restore_state_from_summary.  Before it becomes active again the server  *)
(* asks its peers for their status, retrying while one is unreachable; if  *)
(* one is active it starts idle, from its configuration.                   *)
Restart(s) ==
    /\ ~srv[s].up
    /\ \E f \in file[s] :
       \E new \in {Fresh(f.key, used.egress + 1)} :
          \/ /\ \A p \in f.peers \ {s} :
                    f.mode = "Active" => Answers(p) /\ srv[p].mode = "Idle"
             /\ Start(s, [new EXCEPT !.mode = f.mode, !.next = f.next,
                                     !.peers = f.peers])
          \/ /\ f.mode = "Active"
             /\ \E p \in f.peers \ {s} : Answers(p) /\ srv[p].mode = "Active"
             /\ Start(s, new)
    /\ used' = [used EXCEPT !.egress = @ + 1]

NewBlock ==
    /\ chain < MaxBlocks
    /\ chain' = chain + 1
    /\ UNCHANGED <<db, srv, file, used>>

WorkerStep(s) ==
    BeginBlock(s) \/ IngestChunk(s) \/ Overflow(s) \/ IngestFails(s)
        \/ CommitBlock(s) \/ SaveState(s)

ActivateStep(s) ==
    ActivateStatus(s) \/ ActivateBackup(s) \/ ActivateStart(s)
        \/ ActivateFinish(s) \/ ActivateSave(s)

FogNext ==
    \/ \E s \in Server :
          \/ WorkerStep(s) \/ ActivateStep(s) \/ CheckPeer(s) \/ CorrectPeer(s)
          \/ Operator(s) \/ Crash(s) \/ RestartFresh(s) \/ Restart(s)
    \/ NewBlock

-----------------------------------------------------------------------------
TypeOK ==
    /\ Known(db) \subseteq 1 .. MaxKeys
    /\ \A k \in Known(db) :
          db.keys[k] \in [start : 0 .. MaxBlocks, expiry : 0 .. MaxBlocks + Window,
                          retired : BOOLEAN, lost : BOOLEAN]
    /\ \A b \in db.blocks : b.key \in Known(db) /\ b.index < chain
                             /\ b.iid \in DOMAIN db.invocations
    /\ \A s \in Server :
          /\ srv[s].next <= chain /\ srv[s].iid \in {0} \cup DOMAIN db.invocations
          /\ srv[s].chunk \in 0 .. NumChunks
          /\ srv[s].mode = "Active" => srv[s].up /\ srv[s].key \in Known(db)

(* Between the locked sections of process_next_block nobody takes the      *)
(* block, the key or the invocation from under the worker: its server is   *)
(* still active (the assertion of increment_next_block_index), and its     *)
(* invocation is live and was announced with the very keys of its enclave. *)
(* An idle server has no invocation and an untouched sequence.             *)
(* This is for a worker whose ingest_txs does not fail: the early return   *)
(* at controller.rs:545 (IngestFails) can leave a rotated egress key       *)
(* behind, and does break it, so the fault is left out of the run.         *)
InvocationHeld ==
    \A s \in Server :
        /\ srv[s].work = "ingest" =>
              /\ srv[s].mode = "Active" /\ srv[s].iid # 0
              /\ LET i == db.invocations[srv[s].iid]
                 IN  ~i.decommissioned /\ i.key = srv[s].key /\ i.egress = srv[s].egress
        /\ srv[s].mode = "Idle" => srv[s].iid = 0 /\ srv[s].rng = 0

Published == UNION {b.rows : b \in db.blocks}

(* A client finds its records by drawing the outputs of an announced       *)
(* egress key one after the other until one is missing: what is published  *)
(* of each sequence is announced, starts at its first output, has no gap   *)
(* and no output twice.  An error of ingest_txs (IngestFails, the early    *)
(* return at controller.rs:545) does break it: the chunks that succeeded   *)
(* have used up outputs that are never published, or the next rows are of  *)
(* an egress key nobody announced.  The run leaves that fault out.         *)
RngSequences ==
    /\ \A row \in Published :
          /\ \E i \in DOMAIN db.invocations : db.invocations[i].egress = row[1]
          /\ row[2] > 0 => <<row[1], row[2] - 1>> \in Published
    /\ \A b, c \in db.blocks : b # c => b.rows \cap c.rows = {}

(* Each key scans the blocks from its start block on without a hole,       *)
(* whichever servers did the scanning, and whatever they had crashed at.   *)
NoSkippedBlock ==
    \A k \in Known(db) : \A i \in Scanned(db, k) :
        /\ i >= db.keys[k].start
        /\ i > db.keys[k].start => i - 1 \in Scanned(db, k)

(* The expiry of a key, up to which its blocks are owed to the users, never*)
(* shrinks and is frozen while the key is retired; what the report shows   *)
(* is within it.                                                           *)
ExpiryKept ==
    [][/\ \A k \in Known(db) :
             /\ db'.keys[k].expiry >= db.keys[k].expiry
             /\ db.keys[k].retired /\ db'.keys[k].retired
                   => db'.keys[k].expiry = db.keys[k].expiry
       /\ \A r \in db'.report : r.expiry <= db'.keys[r.key].expiry]_fogVars

(* Whoever gives a key up for lost, the operator or the overseer, and      *)
(* whatever was scanned with it until then: from that moment every block   *)
(* its users were promised is scanned or announced as missed.              *)
LossAnnounced ==
    [][\A k \in Known(db) :
          ~db.keys[k].lost /\ db'.keys[k].lost => Owed(db', k) = {}]_fogVars

=============================================================================
