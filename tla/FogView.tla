------------------------------ MODULE FogView ------------------------------
(***************************************************************************)
(* The Fog view server (fog/view/server) and the client that polls it      *)
(* (fog/view/protocol) over the recovery database that ingest fills.       *)
(*                                                                         *)
(* Two threads of a server copy the records: the fetcher                   *)
(* (db_fetcher.rs) from the database into a queue, the poller (server.rs)  *)
(* from the queue into the enclave.  The poller also computes the count of *)
(* blocks that are complete, which clients take as the extent of what they *)
(* know.  A service thread answers each request in up to three steps: it   *)
(* reads the announced invocations, then the count, then searches the      *)
(* enclave; the threads go on in between.                                  *)
(*                                                                         *)
(* There is one user, who has an output in every block with every key, and *)
(* one shard: every server answers for all blocks.                         *)
(***************************************************************************)
EXTENDS RecoveryDb

CONSTANTS
    Store,          \* the view servers behind the load balancer
    BatchSize,      \* block_query_batch_size
    MaxQueued,      \* MAX_QUEUED_RECORDS
    MaxRequest,     \* the cap on request_multiplier
    Window,         \* pubkey_expiry_window of the ingest servers
    MaxKeys,        \* bound: ingress keys
    MaxBlocks,      \* bound: blocks in the ledger
    MaxInvocations, \* bound: ingest invocations
    MaxFaults       \* bound: failed queries and requests, and restarts

Key == 1 .. MaxKeys
Index == 0 .. MaxBlocks - 1

ASSUME ViewAssumption ==
    /\ Store # {}
    /\ {BatchSize, MaxRequest, Window, MaxKeys, MaxBlocks} \subseteq Nat \ {0}
    /\ {MaxQueued, MaxInvocations, MaxFaults} \subseteq Nat

VARIABLES
    db,         \* the recovery database
    store,      \* the servers
    client,     \* the client's UserRngSet and its poll in progress
    excused,    \* history: <<k, i>> if a count passed block i while the keys
                \* its server had loaded did not say that k covers it
    faults      \* the failures so far

vars == <<db, store, client, excused, faults>>

(* A server.  keys is the fetcher's snapshot of the ingress keys; todo the *)
(* keys it has yet to query in this pass, again whether another pass is    *)
(* needed, rows what the last query returned and is not pushed yet, owing  *)
(* whether it has still to count a push.  A tracker counts the blocks up   *)
(* to the last one processed with each key, 0 if there is none: fetched is *)
(* the fetcher's and tracked the poller's.                                 *)
NewStore ==
    [keys |-> << >>, todo |-> {}, again |-> FALSE, rows |-> << >>,
     fetched |-> [k \in Key |-> 0], queue |-> << >>, owing |-> FALSE, queued |-> 0,
     tick |-> "take", taken |-> << >>,
     tracked |-> [k \in Key |-> 0], enclave |-> {}, count |-> 0]

(* A client.  found and since belong to the random-number sequences of the *)
(* invocations it has heard of, in the order of their events: how many     *)
(* outputs it has found, and (history) its count when it heard of it.      *)
NewClient ==
    [count |-> 0, found |-> << >>, since |-> << >>, step |-> "poll",
     at |-> CHOOSE s \in Store : TRUE, heard |-> 0,
     new |-> 0, answer |-> 0, live |-> {}, multiplier |-> 1]

Init ==
    /\ db = EmptyDb
    /\ store = [s \in Store |-> NewStore]
    /\ client = NewClient
    /\ excused = {} /\ faults = 0

-----------------------------------------------------------------------------
(* Ingest, as far as it shows in the database *)

(* activate with a new key, when the ledger has count blocks: its first    *)
(* report is published.                                                    *)
Activate(k, count) ==
    /\ k = Cardinality(Known(db)) + 1
    /\ \E with_key \in {new_ingress_key(db, k, count)} :
          /\ with_key.keys[k].start < MaxBlocks
          /\ db' = set_report(with_key, k, with_key.keys[k].start + Window)
    /\ UNCHANGED <<store, client, excused, faults>>

Invocations(k) == {i \in DOMAIN db.invocations : db.invocations[i].key = k}

(* A server that activates with k, for the first time or after another one *)
(* has failed, announces its egress key before it ingests a block.         *)
Announce(k) ==
    /\ ~db.keys[k].lost /\ Len(db.invocations) < MaxInvocations
    /\ db' = new_ingest_invocation(db, 0, k, Len(db.invocations) + 1, ResumeAt(db, k))
    /\ UNCHANGED <<store, client, excused, faults>>

RowsOf(iid) == UNION {b.rows : b \in {x \in db.blocks : x.iid = iid}}

(* process_next_block *)
Ingest(k) ==
    /\ Invocations(k) # {} /\ ~db.keys[k].lost
    /\ \E next \in {ResumeAt(db, k)}, iid \in {Max(Invocations(k))} :
          /\ next < MaxBlocks
          /\ db.keys[k].retired => next <= db.keys[k].expiry
          /\ db' = add_block_data(set_report(db, k, next + Window), iid, next,
                                  {<<iid, Cardinality(RowsOf(iid))>>})
    /\ UNCHANGED <<store, client, excused, faults>>

Retire(k) ==
    /\ db' = retire_ingress_key(db, k, TRUE)
    /\ UNCHANGED <<store, client, excused, faults>>

(* Nobody holds the key any more. *)
Lose(k) ==
    /\ db' = report_lost_ingress_key(db, k)
    /\ UNCHANGED <<store, client, excused, faults>>

IngestStep ==
    \/ \E k \in Key, count \in 0 .. MaxBlocks - 1 : Activate(k, count)
    \/ \E k \in Known(db) : Announce(k) \/ Ingest(k) \/ Retire(k) \/ Lose(k)

-----------------------------------------------------------------------------
(* The fetcher *)

Forever == MaxBlocks     \* u64::MAX, past every block

(* The blocks that view has to load with k: up to the last scanned one if  *)
(* the key is lost, and below its expiry if it is retired.                 *)
get_block_range(k) ==
    [from |-> db.keys[k].start,
     to   |-> IF db.keys[k].lost THEN Max({0} \cup {i + 1 : i \in Scanned(db, k)})
              ELSE IF db.keys[k].retired THEN db.keys[k].expiry
              ELSE Forever]

covers_block_index(range, i) == range.from <= i /\ i < range.to

(* The records, reduced to the range that is all view uses of one. *)
get_ingress_key_records == [k \in Known(db) |-> get_block_range(k)]

(* The block after the last one processed, or the first. *)
NextBlock(keys, tracker, k) == IF tracker[k] = 0 THEN keys[k].from ELSE tracker[k]

next_blocks(keys, tracker) ==
    {k \in DOMAIN keys : covers_block_index(keys[k], NextBlock(keys, tracker, k))}

(* get_tx_outs_by_block_range_and_key: consecutive blocks from next on. *)
TxOutsFrom(k, next) ==
    LET n == Max({m \in 0 .. BatchSize : next .. next + m - 1 \subseteq Scanned(db, k)})
    IN  [j \in 1 .. n |-> <<k, next + j - 1>>]

(* Between two queries of a pass, or between passes. *)
AtQuery(s) == store[s].rows = << >> /\ ~store[s].owing

BeginPass(s, keys) ==
    store' = [store EXCEPT ![s].keys = keys, ![s].again = FALSE,
                           ![s].todo = next_blocks(keys, store[s].fetched)]

LoadKeys(s) ==
    /\ AtQuery(s) /\ store[s].todo = {} /\ ~store[s].again
    /\ BeginPass(s, get_ingress_key_records)
    /\ UNCHANGED <<db, client, excused, faults>>

NextPass(s) ==
    /\ AtQuery(s) /\ store[s].todo = {} /\ store[s].again
    /\ BeginPass(s, store[s].keys)
    /\ UNCHANGED <<db, client, excused, faults>>

FetchBlocks(s, k) ==
    /\ AtQuery(s) /\ k \in store[s].todo
    /\ \E rows \in {TxOutsFrom(k, NextBlock(store[s].keys, store[s].fetched, k))} :
          store' = [store EXCEPT ![s].rows = rows, ![s].todo = @ \ {k},
                                 ![s].again = @ \/ Len(rows) = BatchSize]
    /\ UNCHANGED <<db, client, excused, faults>>

Fault == faults < MaxFaults /\ faults' = faults + 1

(* Mutant: the blocks are tracked before they are there. *)
FetchFails_tracked(s, k) ==
    /\ AtQuery(s) /\ k \in store[s].todo /\ Fault
    /\ store' = [store EXCEPT ![s].todo = @ \ {k}, ![s].again = TRUE,
          ![s].fetched[k] = NextBlock(store[s].keys, store[s].fetched, k) + 1]
    /\ UNCHANGED <<db, client, excused>>

(* An error is tried again in the next pass. *)
FetchFails(s, k) ==
    /\ AtQuery(s) /\ k \in store[s].todo /\ Fault
    /\ store' = [store EXCEPT ![s].todo = @ \ {k}, ![s].again = TRUE]
    /\ UNCHANGED <<db, client, excused>>

Push(s) ==
    /\ store[s].rows # << >> /\ ~store[s].owing
    /\ \E row \in {Head(store[s].rows)} :
          store' = [store EXCEPT ![s].rows = Tail(@), ![s].queue = Append(@, row),
                                 ![s].fetched[row[1]] = row[2] + 1, ![s].owing = TRUE]
    /\ UNCHANGED <<db, client, excused, faults>>

(* Waits until the queue has room, after the push. *)
CountQueued(s) ==
    /\ store[s].owing /\ store[s].queued <= MaxQueued
    /\ store' = [store EXCEPT ![s].queued = @ + 1, ![s].owing = FALSE]
    /\ UNCHANGED <<db, client, excused, faults>>

FetcherStep(s) ==
    \/ LoadKeys(s) \/ NextPass(s) \/ Push(s) \/ CountQueued(s)
    \/ \E k \in Key : FetchBlocks(s, k)

-----------------------------------------------------------------------------
(* The poller: tick *)

(* Mutant: the number of queued records is not reset. *)
TakeRecords_full(s) ==
    /\ store[s].tick = "take"
    /\ store' = [store EXCEPT ![s].taken = store[s].queue, ![s].queue = << >>,
                              ![s].tick = "add"]
    /\ UNCHANGED <<db, client, excused, faults>>

(* get_pending_fetched_records.  A push that is not counted yet is taken   *)
(* and counted afterwards.                                                 *)
TakeRecords(s) ==
    /\ store[s].tick = "take"
    /\ store' = [store EXCEPT ![s].taken = store[s].queue, ![s].queue = << >>,
                              ![s].queued = 0, ![s].tick = "add"]
    /\ UNCHANGED <<db, client, excused, faults>>

AddRecords(s) ==
    /\ store[s].tick = "add" /\ store[s].taken # << >>
    /\ \E row \in {Head(store[s].taken)} :
          store' = [store EXCEPT ![s].taken = Tail(@), ![s].enclave = @ \cup {row},
                                 ![s].tracked[row[1]] = row[2] + 1]
    /\ UNCHANGED <<db, client, excused, faults>>

highest_known_block_count(tracker) == Max({0} \cup {tracker[k] : k \in Key})

(* Mutant: a key with which nothing was processed yet does not hold it up. *)
highest_fully_processed_block_count_idle(count, keys, tracker) ==
    Max({count} \cup
        {c \in count .. highest_known_block_count(tracker) :
            \A i \in count .. c - 1, k \in DOMAIN keys :
                covers_block_index(keys[k], i) => tracker[k] \notin 1 .. i})

(* From count on, as far as every key that covers a block has provided it. *)
highest_fully_processed_block_count(count, keys, tracker) ==
    Max({count} \cup
        {c \in count .. highest_known_block_count(tracker) :
            \A i \in count .. c - 1, k \in DOMAIN keys :
                covers_block_index(keys[k], i) => i < tracker[k]})

EndTick(s) ==
    /\ store[s].tick = "add" /\ store[s].taken = << >>
    /\ \E keys \in {store[s].keys} :
       \E count \in {highest_fully_processed_block_count(
                        store[s].count, keys, store[s].tracked)} :
          /\ store' = [store EXCEPT ![s].count = count, ![s].tick = "take"]
          /\ excused' = excused \cup
                {p \in Key \X (store[s].count .. count - 1) :
                    p[1] \in DOMAIN keys => ~covers_block_index(keys[p[1]], p[2])}
    /\ UNCHANGED <<db, client, faults>>

PollerStep(s) == TakeRecords(s) \/ AddRecords(s) \/ EndTick(s)

-----------------------------------------------------------------------------
(* A poll of the client, and the service thread that answers it *)

Return == [client EXCEPT !.step = "poll", !.heard = 0, !.new = 0, !.answer = 0,
                         !.live = {}, !.multiplier = 1]

(* A poll without further live sequences: the count is never taken back. *)
Finish(c) == [c EXCEPT !.step = "poll", !.heard = 0, !.new = 0, !.answer = 0,
                       !.live = {}, !.multiplier = 1, !.count = Max({@, c.new})]

(* The first request: search_user_events from the client's cursor on. *)
ReadEvents(s) ==
    /\ client.step = "poll"
    /\ client' = [client EXCEPT !.at = s, !.step = "first", !.heard = Len(db.invocations)]
    /\ UNCHANGED <<db, store, excused, faults>>

(* Mutant: the last invocation heard of is taken for a new one. *)
HandleFirst_again ==
    /\ client.step = "first"
    /\ client' = [Return EXCEPT !.found = Append(@, 0), !.since = Append(@, client.count)]
    /\ UNCHANGED <<db, store, excused, faults>>

(* ... then the count.  The poll ends here when that is not news. *)
HandleFirst ==
    /\ client.step = "first"
    /\ \E n \in {store[client.at].count}, learnt \in {Len(client.found) + 1 .. client.heard} :
       \E known \in {[client EXCEPT
                        !.found = @ \o [i \in 1 .. Cardinality(learnt) |-> 0],
                        !.since = @ \o [i \in 1 .. Cardinality(learnt) |-> client.count]]} :
          client' = IF client.count >= n
                    THEN [Return EXCEPT !.found = known.found, !.since = known.since]
                    ELSE IF known.found = << >> THEN Finish([known EXCEPT !.new = n])
                    ELSE [known EXCEPT !.new = n, !.live = DOMAIN known.found,
                                       !.step = "round", !.heard = 0]
    /\ UNCHANGED <<db, store, excused, faults>>

(* A request for the next outputs of the live sequences: the count ... *)
ReadCount(s) ==
    /\ client.step = "round"
    /\ client' = [client EXCEPT !.at = s, !.step = "search", !.answer = store[s].count,
                                !.multiplier = Min({2 * @, MaxRequest})]
    /\ UNCHANGED <<db, store, excused, faults>>

(* Output number n of the sequence of invocation i is in the enclave of s. *)
find_record(s, i, n) ==
    \E b \in db.blocks : <<i, n>> \in b.rows /\ <<b.key, b.index>> \in store[s].enclave

Hits(i) ==
    Max({m \in 0 .. client.multiplier :
            \A n \in client.found[i] .. client.found[i] + m - 1 : find_record(client.at, i, n)})

(* Mutant: the count of the first request is kept. *)
HandleRound_first(hits) ==
    LET c == [client EXCEPT !.found = [i \in DOMAIN @ |-> @[i] + hits[i]],
                            !.live = {i \in @ : hits[i] = client.multiplier}]
    IN  client' = IF c.live = {} THEN Finish(c) ELSE [c EXCEPT !.step = "round", !.answer = 0]

(* ... and what was found: a sequence stays live if all of it was.  The    *)
(* poll is worth the least of the counts it was told.                      *)
HandleRound(hits) ==
    LET c == [client EXCEPT !.found = [i \in DOMAIN @ |-> @[i] + hits[i]],
                            !.live = {i \in @ : hits[i] = client.multiplier},
                            !.new = Min({@, client.answer})]
    IN  client' = IF c.live = {} THEN Finish(c) ELSE [c EXCEPT !.step = "round", !.answer = 0]

Search ==
    /\ client.step = "search"
    /\ HandleRound([i \in DOMAIN client.found |-> IF i \in client.live THEN Hits(i) ELSE 0])
    /\ UNCHANGED <<db, store, excused, faults>>

RequestFails ==
    /\ client.step \in {"first", "search"} /\ Fault
    /\ client' = Return
    /\ UNCHANGED <<db, store, excused>>

ClientStep == (\E s \in Store : ReadEvents(s) \/ ReadCount(s)) \/ HandleFirst \/ Search

(* A server starts again with nothing; its requests fail. *)
Restart(s) ==
    /\ Fault
    /\ store' = [store EXCEPT ![s] = NewStore]
    /\ client' = IF client.step \in {"first", "search"} /\ client.at = s THEN Return
                 ELSE client
    /\ UNCHANGED <<db, excused>>

Next ==
    \/ IngestStep \/ ClientStep \/ RequestFails
    \/ \E s \in Store :
          \/ FetcherStep(s) \/ PollerStep(s) \/ Restart(s)
          \/ \E k \in Key : FetchFails(s, k)

Spec == Init /\ [][Next]_vars

(* The two threads of each server run, and the client polls for ever. *)
Threads ==
    /\ \A s \in Store : WF_vars(FetcherStep(s)) /\ WF_vars(PollerStep(s))
    /\ WF_vars(ClientStep)

FairSpec == Spec /\ Threads

-----------------------------------------------------------------------------
TypeOK ==
    /\ Known(db) \subseteq Key
    /\ \A s \in Store :
          /\ DOMAIN store[s].keys \subseteq Known(db) /\ store[s].todo \subseteq Key
          /\ store[s].again \in BOOLEAN /\ store[s].owing \in BOOLEAN
          /\ store[s].tick \in {"take", "add"}
          /\ store[s].enclave \subseteq Key \X Index
          /\ store[s].count \in 0 .. MaxBlocks /\ store[s].queued \in Nat
    /\ client.step \in {"poll", "first", "round", "search"}
    /\ client.at \in Store /\ client.count \in 0 .. MaxBlocks
    /\ client.live \subseteq DOMAIN client.found
    /\ Len(client.found) = Len(client.since) /\ Len(client.found) <= Len(db.invocations)

(* What is on its way from the fetcher to the enclave, and the blocks that *)
(* a sequence of records has of key k.                                     *)
Way(x) == x.taken \o x.queue
BlocksOf(way, k) == {way[j][2] : j \in {j \in DOMAIN way : way[j][1] = k}}

InOrder(way, k) ==
    \A i, j \in DOMAIN way :
        i < j /\ way[i][1] = k /\ way[j][1] = k => way[i][2] < way[j][2]

(* Nothing is lost, doubled or swapped between the fetcher and the enclave: *)
(* of each key, what is on its way are the blocks from the poller's tracker *)
(* to the fetcher's, in order.  (The assertion of block_processed, for both *)
(* trackers.)                                                               *)
PipelineWhole ==
    \A s \in Store : \A k \in Known(db) :
        LET blocks == BlocksOf(Way(store[s]), k)
            from == IF store[s].tracked[k] = 0 THEN db.keys[k].start ELSE store[s].tracked[k]
        IN  /\ InOrder(Way(store[s]), k)
            /\ IF blocks = {} THEN store[s].fetched[k] = store[s].tracked[k]
               ELSE blocks = from .. store[s].fetched[k] - 1

(* A server's count is "the block count for which we know we have loaded   *)
(* all required data": what any key has in a block below it is in the      *)
(* enclave, unless the keys loaded when the count passed the block did not *)
(* show that the key covers it.                                            *)
ViewComplete ==
    \A s \in Store, b \in db.blocks :
        b.index < store[s].count /\ <<b.key, b.index>> \notin excused =>
            <<b.key, b.index>> \in store[s].enclave

(* Once a poll has raised a client's count, it has found its outputs below *)
(* the count in the sequences it knew, although each answer may come from  *)
(* another server, one that is behind or has just restarted, and blocks    *)
(* arrive between the reading of the count and the search.  Exempt are the *)
(* excused blocks: when a server counts a block with keys loaded before    *)
(* one that covers it was announced (db_fetcher.rs:236 keeps passing with  *)
(* the old keys), a client that does know the new key's sequence raises    *)
(* its count past an output that it did not find, which view.proto:151     *)
(* promises it does not.                                                   *)
ClientComplete ==
    \A i \in DOMAIN client.found : client.count > client.since[i] =>
        \A b \in db.blocks :
            b.index < client.count /\ <<b.key, b.index>> \notin excused =>
                \A row \in b.rows : row[1] = i => row[2] < client.found[i]

(* The count clients should come to: every block below it is in the        *)
(* database for every key that covers it.                                  *)
Due ==
    LET keys == get_ingress_key_records
        there == [k \in Key |-> IF k \notin Known(db) THEN 0
                    ELSE Max({0} \cup {i + 1 : i \in
                           {j \in Scanned(db, k) : covers_block_index(keys[k], j)}})]
    IN  highest_fully_processed_block_count(0, keys, there)

(* Clients are not held up: again and again a client's count is all that   *)
(* it can be, whatever keys were lost or retired, although the queue was   *)
(* full, queries failed and servers restarted.                             *)
ClientCatchesUp == []<>(client.count >= Due)

=============================================================================
