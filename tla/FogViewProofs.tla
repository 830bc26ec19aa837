---------------------------- MODULE FogViewProofs ----------------------------
(***************************************************************************)
(* The safety of Fog view (FogView), for any number of servers, keys,      *)
(* blocks, invocations and faults and every batch and queue size: what is  *)
(* on its way into an enclave is whole, a server's count is what it says,  *)
(* and a client that raised its count has found all that is below it.      *)
(***************************************************************************)
EXTENDS FogView, RecoveryDbProofs, FiniteSetTheorems

-----------------------------------------------------------------------------
(* The inductive invariant *)

Row == Key \X Index
Snapshot == UNION {[K -> BlockRange] : K \in SUBSET Key}

Server ==
  [keys : Snapshot, todo : SUBSET Key, again : BOOLEAN, rows : Seq(Row),
   fetched : [Key -> Nat], queue : Seq(Row), owing : BOOLEAN, queued : Nat,
   tick : {"take", "add"}, taken : Seq(Row),
   tracked : [Key -> 0 .. MaxBlocks], enclave : SUBSET Row, count : 0 .. MaxBlocks]

Client ==
  [count : 0 .. MaxBlocks, found : Seq(Nat), since : Seq(Nat),
   step : {"poll", "first", "round", "search"}, at : Store, heard : Nat,
   new : 0 .. MaxBlocks, answer : 0 .. MaxBlocks, live : SUBSET Nat,
   multiplier : Nat \ {0}]

(* Output n of invocation i is published in block b. *)
Publishes(d, b, i, n) == b \in d.blocks /\ <<i, n>> \in b.rows

(* The outputs of an invocation are numbered from 0, without a gap and in  *)
(* the order of the blocks, which all have the invocation's key.           *)
Numbered(d) ==
  /\ \A b \in d.blocks :
        /\ b.iid \in 1 .. Len(d.invocations) /\ b.key = d.invocations[b.iid].key
        /\ \A row \in b.rows : row[1] = b.iid
  /\ \A iid \in 1 .. Len(d.invocations) : \E c \in Nat : \A n \in Nat :
        (\E b \in d.blocks : Publishes(d, b, iid, n)) <=> n < c
  /\ \A b, x \in d.blocks : \A i, n, m \in Nat :
        Publishes(d, b, i, n) /\ Publishes(d, x, i, m) /\ n <= m => b.index <= x.index

(* The keys are numbered as well, and all is within the bounds. *)
Bounded(d) ==
  /\ \E n \in 0 .. MaxKeys : Known(d) = 1 .. n
  /\ \A k \in Known(d) : d.keys[k].start < MaxBlocks
  /\ \A b \in d.blocks : b.index < MaxBlocks
  /\ \A i \in 1 .. Len(d.invocations) : d.invocations[i].key \in Known(d)

DbOK(d) == d \in Database /\ Bounded(d) /\ Whole(d) /\ Numbered(d)

(* The block a tracker of key k is at. *)
From(d, tracker, k) == IF tracker[k] = 0 THEN d.keys[k].start ELSE tracker[k]

(* A server's keys are known with the same start; of a key that is not     *)
(* known the server has nothing.                                           *)
KeysOK(x, d) ==
  /\ x.todo \subseteq DOMAIN x.keys
  /\ \A k \in DOMAIN x.keys : k \in Known(d) /\ x.keys[k].from = d.keys[k].start
  /\ \A k \in Key : k \notin Known(d) => x.fetched[k] = 0 /\ x.tracked[k] = 0

(* What a server has, it has from the database. *)
FromDb(x, d) ==
  /\ \A j \in DOMAIN x.rows : x.rows[j][2] \in Scanned(d, x.rows[j][1])
  /\ \A j \in DOMAIN Way(x) : Way(x)[j][2] \in Scanned(d, Way(x)[j][1])
  /\ \A r \in x.enclave : r[2] \in Scanned(d, r[1])

(* The rows that were fetched follow on the fetcher's tracker. *)
Pending(x, d) ==
  \A j \in DOMAIN x.rows :
    /\ x.rows[j][1] = x.rows[1][1]
    /\ x.rows[j][2] = From(d, x.fetched, x.rows[1][1]) + j - 1

(* PipelineWhole, of one server and one key. *)
Piped(x, d, k) ==
  /\ InOrder(Way(x), k)
  /\ BlocksOf(Way(x), k) = {} => x.fetched[k] = x.tracked[k]
  /\ BlocksOf(Way(x), k) # {} =>
        BlocksOf(Way(x), k) = From(d, x.tracked, k) .. x.fetched[k] - 1

(* The enclave has the blocks of a key below the poller's tracker. *)
Loaded(x, d, k) ==
  /\ x.tracked[k] # 0 => d.keys[k].start < x.tracked[k]
  /\ \A i \in Nat : <<k, i>> \in x.enclave <=> i \in d.keys[k].start .. x.tracked[k] - 1

StoreOK(x, d) ==
  /\ x \in Server
  /\ x.tick = "take" => x.taken = << >>
  /\ KeysOK(x, d) /\ FromDb(x, d) /\ Pending(x, d)
  /\ \A k \in Known(d) : Piped(x, d, k) /\ Loaded(x, d, k)

(* Every block below n that is not excused is in the set. *)
Covered(n, enclave, out) ==
  \A k \in Key, i \in Nat : i < n => <<k, i>> \in out \/ <<k, i>> \in enclave

(* ... is scanned. *)
AllScanned(n, d, out) ==
  \A k \in Key, i \in Nat : i < n => <<k, i>> \in out \/ i \in Scanned(d, k)

(* The first f outputs of invocation i are all it has below block n. *)
FoundBelow(i, f, n, d, out) ==
  \A b \in d.blocks : b.index < n /\ <<b.key, b.index>> \notin out =>
    \A row \in b.rows : row[1] = i => row[2] < f

ClientTyped(c, d) ==
  /\ c \in Client
  /\ Len(c.since) = Len(c.found) /\ Len(c.found) <= Len(d.invocations)
  /\ c.heard <= Len(d.invocations) /\ c.live \subseteq DOMAIN c.found

(* During a poll: what its counts promise, and the sequences it has done.  *)
Polling(c, d, st, out) ==
  /\ AllScanned(c.count, d, out)
  /\ c.step \in {"round", "search"} =>
        /\ AllScanned(c.new, d, out)
        /\ \A i \in DOMAIN c.found : i \notin c.live => FoundBelow(i, c.found[i], c.new, d, out)
  /\ c.step = "search" => Covered(c.answer, st[c.at].enclave, out)

Complete(c, d, out) ==
  \A i \in DOMAIN c.found :
    c.count > c.since[i] => FoundBelow(i, c.found[i], c.count, d, out)

ClientOK(c, d, st, out) == ClientTyped(c, d) /\ Polling(c, d, st, out) /\ Complete(c, d, out)

IInv ==
  /\ DbOK(db)
  /\ store \in [Store -> Server]
  /\ \A s \in Store : StoreOK(store[s], db) /\ Covered(store[s].count, store[s].enclave, excused)
  /\ ClientOK(client, db, store, excused)
  /\ faults \in Nat

-----------------------------------------------------------------------------
(* It implies the invariants *)

LEMMA Constants ==
  /\ {BatchSize, MaxRequest, Window, MaxKeys, MaxBlocks} \subseteq Nat
  /\ MaxBlocks > 0 /\ MaxRequest > 0 /\ BatchSize > 0
  /\ Key \subseteq Nat /\ Index \subseteq Nat /\ {MaxQueued, MaxInvocations, MaxFaults} \subseteq Nat
BY ViewAssumption DEF Key, Index

LEMMA KeysKnown ==
  ASSUME NEW d, DbOK(d)
  PROVE  /\ d \in Database /\ Known(d) \subseteq Key
         /\ \A k \in Known(d) : d.keys[k].start \in Nat /\ d.keys[k].start < MaxBlocks
         /\ \A b \in d.blocks : /\ b \in BlockRow /\ b.key \in Known(d) /\ b.key \in Key
                                /\ b.index \in Index
<1>1. d \in Database
  BY DEF DbOK
<1>2. Known(d) \subseteq Key
  <2>1. PICK n \in 0 .. MaxKeys : Known(d) = 1 .. n
    BY DEF DbOK, Bounded
  <2> QED BY <2>1, Constants DEF Key
<1>3. \A k \in Known(d) : d.keys[k].start \in Nat /\ d.keys[k].start < MaxBlocks
  BY <1>1, KeysOf DEF DbOK, Bounded, KeyRow
<1>4. \A b \in d.blocks : b \in BlockRow
  BY <1>1 DEF Database
<1>5. \A b \in d.blocks : b.index \in Index
  BY <1>4, Constants DEF DbOK, Bounded, BlockRow, Index
<1>6. \A b \in d.blocks : b.key \in Known(d)
  BY DEF DbOK, Whole
<1> QED BY <1>1, <1>2, <1>3, <1>4, <1>5, <1>6

LEMMA DbBounds ==
  ASSUME NEW d, DbOK(d)
  PROVE  /\ MaxBlocks \in Nat /\ \A k \in Known(d) : k \in Nat /\ d.keys[k].start <= MaxBlocks
         /\ \A b \in d.blocks : b.index < MaxBlocks
         /\ Len(d.invocations) \in Nat
<1>0. MaxBlocks \in Nat /\ Key \subseteq Nat
  BY Constants
<1>1. ASSUME NEW k \in Known(d) PROVE k \in Nat /\ d.keys[k].start <= MaxBlocks
  <2> DEFINE a == d.keys[k].start
  <2>1. k \in Key /\ a \in Nat /\ a < MaxBlocks
    BY KeysKnown
  <2> HIDE DEF a
  <2>2. k \in Nat /\ a <= MaxBlocks
    BY <1>0, <2>1
  <2> QED BY <2>2 DEF a
<1>2. Len(d.invocations) \in Nat
  BY KeysKnown DEF Database
<1> QED BY <1>0, <1>1, <1>2 DEF DbOK, Bounded

LEMMA TypeFollows == IInv => TypeOK
<1> SUFFICES ASSUME IInv PROVE TypeOK
  OBVIOUS
<1>1. Known(db) \subseteq Key
  BY KeysKnown DEF IInv
<1>2. ASSUME NEW s \in Store
      PROVE  /\ DOMAIN store[s].keys \subseteq Known(db) /\ store[s].todo \subseteq Key
             /\ store[s].again \in BOOLEAN /\ store[s].owing \in BOOLEAN
             /\ store[s].tick \in {"take", "add"}
             /\ store[s].enclave \subseteq Key \X Index
             /\ store[s].count \in 0 .. MaxBlocks /\ store[s].queued \in Nat
  <2>1. store[s] \in Server /\ KeysOK(store[s], db)
    BY DEF IInv, StoreOK
  <2> QED BY <2>1 DEF Server, KeysOK, Row
<1>3. ClientTyped(client, db)
  BY DEF IInv, ClientOK
<1> QED BY <1>1, <1>2, <1>3 DEF ClientTyped, Client, TypeOK

LEMMA PipelineFollows == IInv => PipelineWhole
BY DEF IInv, StoreOK, Piped, From, PipelineWhole

LEMMA ViewFollows == IInv => ViewComplete
<1> SUFFICES ASSUME IInv, NEW s \in Store, NEW b \in db.blocks,
                    b.index < store[s].count, <<b.key, b.index>> \notin excused
             PROVE  <<b.key, b.index>> \in store[s].enclave
  BY DEF ViewComplete
<1>1. b.key \in Key /\ b.index \in Nat
  BY KeysKnown, Constants DEF IInv
<1>2. Covered(store[s].count, store[s].enclave, excused)
  BY DEF IInv
<1> QED BY <1>1, <1>2 DEF Covered

LEMMA ClientFollows == IInv => ClientComplete
<1> SUFFICES ASSUME IInv PROVE ClientComplete
  OBVIOUS
<1>1. Complete(client, db, excused)
  BY DEF IInv, ClientOK
<1> QED BY <1>1 DEF Complete, FoundBelow, ClientComplete

-----------------------------------------------------------------------------
(* Sequences of records *)

LEMMA BlocksInEmpty == ASSUME NEW k PROVE BlocksOf(<< >>, k) = {} /\ InOrder(<< >>, k)
BY DEF BlocksOf, InOrder

LEMMA BlocksAppended ==
  ASSUME NEW w \in Seq(Row), NEW r \in Row, NEW k, InOrder(w, k),
         r[1] = k => \A i \in BlocksOf(w, k) : i < r[2]
  PROVE  /\ InOrder(Append(w, r), k)
         /\ r[1] = k => BlocksOf(Append(w, r), k) = BlocksOf(w, k) \cup {r[2]}
         /\ r[1] # k => BlocksOf(Append(w, r), k) = BlocksOf(w, k)
<1> DEFINE v == Append(w, r)
           n == Len(w)
<1>1. n \in Nat /\ DOMAIN w = 1 .. n
  OBVIOUS
<1>2. DOMAIN v = 1 .. n + 1 /\ v[n + 1] = r /\ \A i \in 1 .. n : v[i] = w[i]
  OBVIOUS
<1> HIDE DEF v, n
<1>3. 1 .. n + 1 = (1 .. n) \cup {n + 1}
  BY <1>1
<1>4. /\ r[1] = k => BlocksOf(v, k) = BlocksOf(w, k) \cup {r[2]}
      /\ r[1] # k => BlocksOf(v, k) = BlocksOf(w, k)
  BY <1>1, <1>2, <1>3 DEF BlocksOf
<1>5. InOrder(v, k)
  <2> SUFFICES ASSUME NEW i \in 1 .. n + 1, NEW j \in 1 .. n + 1, i < j, v[i][1] = k, v[j][1] = k
               PROVE  v[i][2] < v[j][2]
    BY <1>2 DEF InOrder
  <2>1. i \in 1 .. n
    BY <1>1
  <2>2. CASE j \in 1 .. n
    BY <1>1, <1>2, <2>1, <2>2 DEF InOrder
  <2>3. CASE j = n + 1
    <3>1. w[i][2] \in BlocksOf(w, k) /\ r[1] = k
      BY <1>1, <1>2, <2>1, <2>3 DEF BlocksOf
    <3> QED BY <1>2, <2>1, <2>3, <3>1
  <2> QED BY <1>1, <2>2, <2>3
<1> QED BY <1>4, <1>5 DEF v

LEMMA BlocksTaken ==
  ASSUME NEW w \in Seq(Row), w # << >>, NEW k, InOrder(w, k)
  PROVE  /\ InOrder(Tail(w), k)
         /\ Head(w)[1] # k => BlocksOf(Tail(w), k) = BlocksOf(w, k)
         /\ Head(w)[1] = k => /\ BlocksOf(Tail(w), k) = BlocksOf(w, k) \ {Head(w)[2]}
                              /\ Head(w)[2] \in BlocksOf(w, k)
                              /\ \A i \in BlocksOf(w, k) : Head(w)[2] <= i
<1> DEFINE v == Tail(w)
           n == Len(w)
<1>1. n \in Nat /\ n > 0 /\ DOMAIN w = 1 .. n /\ Head(w) = w[1]
  OBVIOUS
<1>2. DOMAIN v = 1 .. n - 1 /\ \A i \in 1 .. n - 1 : v[i] = w[i + 1]
  OBVIOUS
<1> HIDE DEF v, n
<1>0. \A i \in 1 .. n : w[i][2] \in Nat
  <2>1. \A i \in 1 .. n : w[i] \in Key \X Index
    BY <1>1 DEF Row
  <2> QED BY <2>1, Constants
<1>3. InOrder(v, k)
  <2> SUFFICES ASSUME NEW i \in 1 .. n - 1, NEW j \in 1 .. n - 1, i < j, v[i][1] = k, v[j][1] = k
               PROVE  v[i][2] < v[j][2]
    BY <1>2 DEF InOrder
  <2>1. i + 1 \in 1 .. n /\ j + 1 \in 1 .. n /\ i + 1 < j + 1
    BY <1>1
  <2>2. v[i] = w[i + 1] /\ v[j] = w[j + 1]
    BY <1>2
  <2> QED BY <1>1, <2>1, <2>2 DEF InOrder
<1>4. ASSUME NEW i PROVE i \in BlocksOf(v, k) <=> \E j \in 2 .. n : w[j][1] = k /\ w[j][2] = i
  <2>1. ASSUME i \in BlocksOf(v, k) PROVE \E j \in 2 .. n : w[j][1] = k /\ w[j][2] = i
    <3>1. PICK j \in 1 .. n - 1 : v[j][1] = k /\ v[j][2] = i
      BY <1>2, <2>1 DEF BlocksOf
    <3>2. j + 1 \in 2 .. n /\ w[j + 1] = v[j]
      BY <1>1, <1>2
    <3> QED BY <3>1, <3>2
  <2>2. ASSUME NEW j \in 2 .. n, w[j][1] = k, w[j][2] = i PROVE i \in BlocksOf(v, k)
    <3>1. j - 1 \in 1 .. n - 1 /\ j - 1 + 1 = j
      BY <1>1
    <3>2. v[j - 1] = w[j]
      BY <1>2, <3>1
    <3> QED BY <1>2, <2>2, <3>1, <3>2 DEF BlocksOf
  <2> QED BY <2>1, <2>2
<1>5. ASSUME NEW i PROVE i \in BlocksOf(w, k) <=> \E j \in 1 .. n : w[j][1] = k /\ w[j][2] = i
  BY <1>1 DEF BlocksOf
<1>6. 1 .. n = {1} \cup 2 .. n /\ 1 \in 1 .. n /\ \A j \in 2 .. n : 1 < j /\ j \in 1 .. n
  BY <1>1
<1>7. CASE Head(w)[1] # k
  <2>1. BlocksOf(v, k) = BlocksOf(w, k)
    <3>1. ASSUME NEW i \in BlocksOf(w, k) PROVE i \in BlocksOf(v, k)
      <4>1. PICK j \in 1 .. n : w[j][1] = k /\ w[j][2] = i
        BY <1>5
      <4>2. j \in 2 .. n
        BY <1>1, <1>6, <1>7, <4>1
      <4> QED BY <1>4, <4>1, <4>2
    <3>2. ASSUME NEW i \in BlocksOf(v, k) PROVE i \in BlocksOf(w, k)
      BY <1>4, <1>5, <1>6
    <3> QED BY <3>1, <3>2
  <2> QED BY <1>3, <1>7, <2>1 DEF v
<1>8. CASE Head(w)[1] = k
  <2>1. \A j \in 2 .. n : w[j][1] = k => w[1][2] < w[j][2]
    BY <1>1, <1>6, <1>8 DEF InOrder
  <2>2. w[1][2] \in BlocksOf(w, k)
    BY <1>1, <1>5, <1>6, <1>8
  <2>3. BlocksOf(v, k) = BlocksOf(w, k) \ {w[1][2]}
    <3>1. ASSUME NEW j \in 2 .. n, w[j][1] = k PROVE w[j][2] # w[1][2]
      BY <1>0, <1>6, <2>1, <3>1
    <3> QED BY <1>4, <1>5, <1>6, <1>8, <3>1
  <2>4. \A i \in BlocksOf(w, k) : w[1][2] <= i
    BY <1>0, <1>5, <1>6, <2>1
  <2> QED BY <1>1, <1>3, <1>8, <2>2, <2>3, <2>4 DEF v
<1> QED BY <1>7, <1>8

-----------------------------------------------------------------------------
(* The steps of ingest *)

(* A transaction of ingest: the blocks it adds were not scanned before. *)
IngestsTo(d, e) ==
  /\ DbOK(e) /\ Grows(d, e)
  /\ \A b \in e.blocks : b \notin d.blocks => b.index \notin Scanned(d, b.key)

(* A transaction on the table of keys alone, that adds no key. *)
LEMMA KeysChanged ==
  ASSUME NEW d, DbOK(d), NEW e \in Database, Grows(d, e), Known(e) = Known(d),
         e.blocks = d.blocks, e.invocations = d.invocations
  PROVE  IngestsTo(d, e)
<1>1. Bounded(e)
  BY DEF DbOK, Bounded, Grows
<1>2. Whole(e)
  BY WholeKept DEF DbOK
<1>3. Numbered(e)
  BY DEF DbOK, Numbered, Publishes
<1> QED BY <1>1, <1>2, <1>3 DEF IngestsTo, DbOK

LEMMA RetireIngests ==
  ASSUME DbOK(db), NEW k \in Known(db), Retire(k) PROVE IngestsTo(db, db')
<1>1. db' = retire_ingress_key(db, k, TRUE) /\ db \in Database
  BY KeysKnown DEF Retire
<1>2. /\ db' \in Database /\ Grows(db, db') /\ Known(db') = Known(db)
      /\ db'.blocks = db.blocks /\ db'.invocations = db.invocations
  BY <1>1, RetireKey
<1> QED BY <1>2, KeysChanged

LEMMA LoseIngests ==
  ASSUME DbOK(db), NEW k \in Known(db), Lose(k) PROVE IngestsTo(db, db')
<1>1. db' = report_lost_ingress_key(db, k) /\ db \in Database
  BY KeysKnown DEF Lose
<1>2. MaxBlocks \in Nat /\ db.keys[k].start <= MaxBlocks /\ \A b \in db.blocks : b.index < MaxBlocks
  BY DbBounds
<1>3. /\ db' \in Database /\ Grows(db, db') /\ Known(db') = Known(db)
      /\ db'.blocks = db.blocks /\ db'.invocations = db.invocations
  BY <1>1, <1>2, ReportLostKey
<1> QED BY <1>3, KeysChanged

LEMMA ActivateIngests ==
  ASSUME DbOK(db), NEW k \in Key, NEW count \in 0 .. MaxBlocks - 1, Activate(k, count)
  PROVE  IngestsTo(db, db')
<1> DEFINE e == new_ingress_key(db, k, count)
<1>0. db \in Database /\ k \in Nat /\ MaxBlocks \in Nat /\ count \in Nat /\ count <= MaxBlocks
  BY KeysKnown, Constants
<1>1. PICK n \in 0 .. MaxKeys : Known(db) = 1 .. n
  BY DEF DbOK, Bounded
<1>2. k = n + 1 /\ n \in Nat
  <2>1. n \in Nat /\ 1 \in Int /\ n \in Int
    BY <1>1, Constants
  <2>2. Cardinality(1 .. n) = n
    <3>1. Cardinality(1 .. n) = IF 1 > n THEN 0 ELSE n - 1 + 1
      BY <2>1, FS_Interval
    <3> QED BY <2>1, <3>1
  <2> QED BY <1>1, <2>1, <2>2 DEF Activate
<1>3. k \notin Known(db) /\ Known(db) \cup {k} = 1 .. k /\ k \in 0 .. MaxKeys
  BY <1>1, <1>2 DEF Key
<1>4. /\ e \in Database /\ Grows(db, e) /\ Known(e) = Known(db) \cup {k}
      /\ \A j \in Known(db) : e.keys[j] = db.keys[j]
      /\ e.blocks = db.blocks /\ e.invocations = db.invocations
  BY ZenonT(40), <1>0, <1>3, NewKey DEF DbOK, Bounded
<1>5. e.keys[k].start < MaxBlocks /\ db' = set_report(e, k, e.keys[k].start + Window)
  BY DEF Activate
<1> HIDE DEF e
<1>6. DbOK(e)
  <2>1. Bounded(e)
    BY <1>3, <1>4, <1>5 DEF DbOK, Bounded
  <2>2. Whole(e)
    BY <1>0, <1>4, WholeKept DEF DbOK
  <2>3. Numbered(e)
    BY <1>4 DEF DbOK, Numbered, Publishes
  <2> QED BY <1>4, <2>1, <2>2, <2>3 DEF DbOK
<1>7. k \in Known(e) /\ e.keys[k].start \in Nat /\ e.keys[k].expiry \in Nat
  BY <1>4, KeysOf DEF KeyRow
<1>8. /\ db' \in Database /\ Grows(e, db') /\ Known(db') = Known(e)
      /\ db'.blocks = e.blocks /\ db'.invocations = e.invocations
  <2> DEFINE x == e.keys[k].start + Window
             N == x + e.keys[k].expiry
  <2>1. x \in Nat /\ N \in Nat /\ x <= N /\ e.keys[k].expiry <= N
    BY <1>7, Constants
  <2> HIDE DEF x, N
  <2>2. db' = set_report(e, k, x)
    BY <1>5 DEF x
  <2> QED BY <1>4, <1>7, <2>1, <2>2, SetReport
<1>9. IngestsTo(e, db')
  BY <1>6, <1>8, KeysChanged
<1>10. Grows(db, db')
  <2>1. \A j \in Known(db) : db'.keys[j].start = db.keys[j].start /\ j \in Known(db')
    BY <1>4, <1>8 DEF Grows
  <2>2. \A j \in Known(db) : /\ db'.keys[j].expiry >= db.keys[j].expiry
                             /\ db.keys[j].retired /\ db'.keys[j].retired
                                    => db'.keys[j].expiry = db.keys[j].expiry
    BY <1>4, <1>8 DEF Grows
  <2>3. Len(db.invocations) \in Nat
    BY <1>0 DEF Database
  <2> QED BY <1>4, <1>8, <2>1, <2>2, <2>3 DEF Grows
<1> QED BY <1>4, <1>8, <1>9, <1>10 DEF IngestsTo

LEMMA AnnounceIngests ==
  ASSUME DbOK(db), NEW k \in Known(db), Announce(k) PROVE IngestsTo(db, db')
<1> DEFINE n == Len(db.invocations)
<1>0. /\ db \in Database /\ k \in Nat /\ n \in Nat /\ n + 1 \in Nat /\ 0 \in 0 .. n
      /\ MaxBlocks \in Nat
  BY KeysKnown, DbBounds
<1>1. ResumeAt(db, k) \in Nat
  BY <1>0, DbBounds, ResumesAfterScanned DEF DbOK
<1>2. db' = new_ingest_invocation(db, 0, k, n + 1, ResumeAt(db, k))
  BY DEF Announce
<1>3. Invoked(db, 0, k, n + 1, db')
  BY <1>0, <1>1, <1>2, NewInvocation
<1>4. /\ db' \in Database /\ Grows(db, db') /\ db'.keys = db.keys /\ Known(db') = Known(db)
      /\ db'.blocks = db.blocks /\ Len(db'.invocations) = n + 1
      /\ db'.invocations[n + 1].key = k
      /\ \A i \in 1 .. n : db'.invocations[i].key = db.invocations[i].key
  BY <1>3 DEF Invoked, OnlyInvocations, Grows
<1> HIDE DEF n
<1>5. 1 .. n + 1 = (1 .. n) \cup {n + 1} /\ n + 1 \notin 1 .. n
  BY <1>0
<1>6. Bounded(db')
  BY <1>4, <1>5 DEF DbOK, Bounded, n
<1>7. Whole(db')
  BY <1>0, <1>4, WholeKept DEF DbOK
<1>8. Numbered(db')
  <2>1. Numbered(db)
    BY DEF DbOK
  <2>2. ASSUME NEW b \in db.blocks
        PROVE  /\ b.iid \in 1 .. n + 1 /\ b.key = db'.invocations[b.iid].key
               /\ \A row \in b.rows : row[1] = b.iid
    BY <1>4, <1>5, <2>1 DEF Numbered, n
  <2>3. ASSUME NEW iid \in 1 .. n + 1
        PROVE  \E c \in Nat : \A m \in Nat : (\E b \in db.blocks : Publishes(db', b, iid, m)) <=> m < c
    <3>1. CASE iid \in 1 .. n
      <4>1. PICK c \in Nat : \A m \in Nat : (\E b \in db.blocks : Publishes(db, b, iid, m)) <=> m < c
        BY <2>1, <3>1 DEF Numbered, n
      <4> QED BY <1>4, <4>1 DEF Publishes
    <3>2. CASE iid = n + 1
      <4>1. ASSUME NEW m \in Nat, NEW b \in db.blocks PROVE ~ Publishes(db', b, iid, m)
        <5>1. ASSUME <<iid, m>> \in b.rows PROVE FALSE
          <6>1. <<iid, m>>[1] = b.iid /\ b.iid \in 1 .. n
            BY <2>1, <5>1 DEF Numbered, n
          <6> QED BY <1>5, <3>2, <6>1
        <5> QED BY <5>1 DEF Publishes
      <4>2. \A m \in Nat : ~ (m < 0) /\ 0 \in Nat
        OBVIOUS
      <4> QED BY <4>1, <4>2
    <3> QED BY <1>5, <3>1, <3>2
  <2>4. \A b, x \in db.blocks : \A i, a, m \in Nat :
          Publishes(db', b, i, a) /\ Publishes(db', x, i, m) /\ a <= m => b.index <= x.index
    BY <1>4, <2>1 DEF Numbered, Publishes
  <2> QED BY <1>4, <2>2, <2>3, <2>4 DEF Numbered
<1> QED BY <1>4, <1>6, <1>7, <1>8 DEF IngestsTo, DbOK

(* The number of the outputs of an invocation is the number of the next. *)
LEMMA NextOutput ==
  ASSUME DbOK(db), NEW iid \in 1 .. Len(db.invocations)
  PROVE  LET c == Cardinality(RowsOf(iid))
         IN  /\ c \in Nat
             /\ \A n \in Nat : (\E b \in db.blocks : Publishes(db, b, iid, n)) <=> n < c
<1>1. PICK c \in Nat : \A n \in Nat : (\E b \in db.blocks : Publishes(db, b, iid, n)) <=> n < c
  BY DEF DbOK, Numbered
<1>0. iid \in Nat
  BY DbBounds
<1> DEFINE S == {<<iid, n>> : n \in 0 .. c - 1}
           f == [j \in 1 .. c |-> <<iid, j - 1>>]
<1>2. RowsOf(iid) = S
  <2>1. ASSUME NEW r \in RowsOf(iid) PROVE r \in S
    <3>1. PICK b \in db.blocks : b.iid = iid /\ r \in b.rows
      BY DEF RowsOf
    <3>2. b.rows \in SUBSET (Nat \X Nat)
      BY KeysKnown DEF BlockRow
    <3>3. r \in Nat \X Nat /\ r[1] = iid
      BY <3>1, <3>2 DEF DbOK, Numbered
    <3>4. r = <<iid, r[2]>> /\ r[2] \in Nat
      BY <3>3
    <3>5. Publishes(db, b, iid, r[2])
      BY <3>1, <3>4 DEF Publishes
    <3>6. r[2] < c
      BY <1>1, <3>4, <3>5
    <3>7. r[2] \in 0 .. c - 1
      BY <3>4, <3>6
    <3> QED BY <3>4, <3>7
  <2>2. ASSUME NEW n \in 0 .. c - 1 PROVE <<iid, n>> \in RowsOf(iid)
    <3>1. n \in Nat /\ n < c
      OBVIOUS
    <3>2. PICK b \in db.blocks : Publishes(db, b, iid, n)
      BY <1>1, <3>1
    <3>3. <<iid, n>> \in b.rows
      BY <3>2 DEF Publishes
    <3>4. <<iid, n>>[1] = b.iid
      BY <3>3 DEF DbOK, Numbered
    <3>5. b.iid = iid
      BY <3>4
    <3> QED BY <3>3, <3>5 DEF RowsOf
  <2> QED BY <2>1, <2>2
<1>3. f \in Bijection(1 .. c, S)
  <2>1. \A j \in 1 .. c : j - 1 \in 0 .. c - 1
    OBVIOUS
  <2>2. f \in [1 .. c -> S]
    BY <2>1
  <2>3. ASSUME NEW i \in 1 .. c, NEW j \in 1 .. c, f[i] = f[j] PROVE i = j
    <3>1. <<iid, i - 1>> = <<iid, j - 1>>
      BY <2>3
    <3>2. i - 1 = j - 1
      BY <3>1
    <3> QED BY <3>2
  <2>4. ASSUME NEW r \in S PROVE \E j \in 1 .. c : f[j] = r
    <3>1. PICK n \in 0 .. c - 1 : r = <<iid, n>>
      OBVIOUS
    <3>2. n + 1 \in 1 .. c /\ n + 1 - 1 = n
      OBVIOUS
    <3>3. f[n + 1] = <<iid, n>>
      BY <3>2
    <3> QED BY <3>1, <3>2, <3>3
  <2> HIDE DEF f, S
  <2> QED BY <2>2, <2>3, <2>4 DEF Bijection, Injection, IsInjective, Surjection
<1>4. ExistsBijection(1 .. c, S)
  BY <1>3 DEF ExistsBijection
<1> HIDE DEF S
<1>5. IsFiniteSet(1 .. c) /\ Cardinality(1 .. c) = c
  <2>1. IsFiniteSet(1 .. c) /\ Cardinality(1 .. c) = IF 1 > c THEN 0 ELSE c - 1 + 1
    BY FS_Interval
  <2> QED BY <2>1
<1>6. Cardinality(S) = c
  BY <1>4, <1>5, FS_Bijection
<1> QED BY <1>1, <1>2, <1>6

(* The block that follows on what was scanned, with the next output of the *)
(* last invocation of the key.                                             *)
LEMMA IngestIngests ==
  ASSUME DbOK(db), NEW k \in Known(db), Ingest(k) PROVE IngestsTo(db, db')
<1> DEFINE next == ResumeAt(db, k)
           iid == Max(Invocations(k))
           c == Cardinality(RowsOf(iid))
           d == set_report(db, k, next + Window)
           rows == {<<iid, c>>}
           new == [key |-> k, iid |-> iid, index |-> next, rows |-> rows]
<1>0. /\ db \in Database /\ k \in Nat /\ MaxBlocks \in Nat /\ Len(db.invocations) \in Nat
      /\ Window \in Nat /\ db.keys[k].expiry \in Nat
  BY KeysKnown, DbBounds, KeysOf, Constants DEF KeyRow
<1>1. next \in Nat /\ Follows(db, k, next) /\ next \notin Scanned(db, k)
      /\ \A b \in db.blocks : b.key = k => b.index < next
  <2>1. next \in Nat /\ Follows(db, k, next)
    BY <1>0, DbBounds, ResumesAfterScanned DEF DbOK
  <2>2. ASSUME NEW i \in Scanned(db, k) PROVE i < next
    <3>1. Scanned(db, k) \in SUBSET (0 .. MaxBlocks) /\ Scanned(db, k) # {}
      <4>1. ASSUME NEW j \in Scanned(db, k) PROVE j \in 0 .. MaxBlocks
        <5>1. PICK b \in db.blocks : b.index = j
          BY DEF Scanned
        <5> QED BY <1>0, <5>1, KeysKnown DEF Index
      <4> QED BY <4>1
    <3>2. Max(Scanned(db, k)) >= i /\ Max(Scanned(db, k)) \in Scanned(db, k)
      BY <1>0, <3>1, MaxIsFound
    <3>3. Max(Scanned(db, k)) \in Nat /\ i \in Nat
      BY <3>1, <3>2
    <3>4. next = Max(Scanned(db, k)) + 1
      BY <3>1 DEF ResumeAt
    <3> QED BY <3>2, <3>3, <3>4
  <2>3. \A b \in db.blocks : b.key = k => b.index \in Scanned(db, k)
    BY DEF Scanned
  <2> HIDE DEF next
  <2>4. next \notin Scanned(db, k)
    BY <2>1, <2>2
  <2> QED BY <2>1, <2>2, <2>3, <2>4
<1>2. iid \in 1 .. Len(db.invocations) /\ db.invocations[iid].key = k
  <2>1. Invocations(k) \in SUBSET (0 .. Len(db.invocations)) /\ Invocations(k) # {}
        /\ Invocations(k) \subseteq 1 .. Len(db.invocations)
    BY <1>0 DEF Invocations, Ingest, Database
  <2>2. iid \in Invocations(k)
    BY <1>0, <2>1, MaxIsFound
  <2> QED BY <2>1, <2>2 DEF Invocations
<1>3. c \in Nat /\ \A n \in Nat : (\E b \in db.blocks : Publishes(db, b, iid, n)) <=> n < c
  BY <1>2, NextOutput
<1>4. next < MaxBlocks /\ db' = add_block_data(d, iid, next, rows)
  BY DEF Ingest
<1> HIDE DEF next, iid, c
<1>5. /\ d \in Database /\ Grows(db, d) /\ Known(d) = Known(db)
      /\ d.blocks = db.blocks /\ d.invocations = db.invocations
  <2> DEFINE x == next + Window
             N == x + db.keys[k].expiry
  <2>1. x \in Nat /\ N \in Nat /\ x <= N /\ db.keys[k].expiry <= N
    BY <1>0, <1>1
  <2>2. d = set_report(db, k, x)
    OBVIOUS
  <2> HIDE DEF x, N, d
  <2> QED BY <1>0, <2>1, <2>2, SetReport
<1> HIDE DEF d
<1>6. IngestsTo(db, d)
  BY <1>5, KeysChanged
<1>7. Follows(d, k, next) /\ DbOK(d)
  BY <1>0, <1>1, <1>5, <1>6, FollowsGrows DEF IngestsTo
<1>8. rows \in SUBSET (Nat \X Nat) /\ iid \in Nat
  BY <1>0, <1>2, <1>3
<1> HIDE DEF rows
<1>9. /\ db' \in Database /\ Grows(d, db') /\ db'.keys = d.keys /\ Known(db') = Known(d)
      /\ db'.invocations = d.invocations /\ db'.blocks = d.blocks \cup {new}
  BY <1>1, <1>2, <1>4, <1>5, <1>8, AddBlock
<1>10. Whole(db')
  BY <1>1, <1>2, <1>4, <1>5, <1>7, <1>8, WholeAdds DEF DbOK
<1>11. new.key = k /\ new.iid = iid /\ new.index = next /\ new.rows = {<<iid, c>>}
  BY DEF rows
<1> HIDE DEF new
<1>12. Bounded(db')
  BY <1>4, <1>7, <1>9, <1>11 DEF DbOK, Bounded
<1>13. Grows(db, db')
  BY <1>0, <1>5, <1>9, GrowsTrans
<1>14. Numbered(db')
  <2>0. Numbered(db) /\ db'.blocks = db.blocks \cup {new} /\ db'.invocations = db.invocations
    BY <1>5, <1>9 DEF DbOK
  <2>1. ASSUME NEW b \in db'.blocks
        PROVE  /\ b.iid \in 1 .. Len(db.invocations) /\ b.key = db.invocations[b.iid].key
               /\ \A row \in b.rows : row[1] = b.iid
    BY <1>2, <1>11, <2>0 DEF Numbered
  <2>2. \A b, i, n : Publishes(db', b, i, n) <=>
          Publishes(db, b, i, n) \/ (b = new /\ i = iid /\ n = c)
    BY <1>11, <2>0 DEF Publishes
  <2>3. ASSUME NEW j \in 1 .. Len(db.invocations)
        PROVE  \E e \in Nat : \A n \in Nat : (\E b \in db'.blocks : Publishes(db', b, j, n)) <=> n < e
    <3>1. CASE j = iid
      <4>1. ASSUME NEW n \in Nat
            PROVE  (\E b \in db'.blocks : Publishes(db', b, j, n)) <=> n < c + 1
        <5>1. n < c + 1 <=> n < c \/ n = c
          BY <1>3
        <5>2. (\E b \in db'.blocks : Publishes(db', b, j, n)) <=>
                  (\E b \in db.blocks : Publishes(db, b, j, n)) \/ n = c
          BY <2>0, <2>2, <3>1 DEF Publishes
        <5> QED BY <1>3, <3>1, <5>1, <5>2
      <4>2. c + 1 \in Nat
        BY <1>3
      <4> QED BY <4>1, <4>2
    <3>2. CASE j # iid
      <4>1. PICK e \in Nat : \A n \in Nat : (\E b \in db.blocks : Publishes(db, b, j, n)) <=> n < e
        BY <2>0 DEF Numbered
      <4>2. \A n : (\E b \in db'.blocks : Publishes(db', b, j, n)) <=>
                   (\E b \in db.blocks : Publishes(db, b, j, n))
        BY <2>0, <2>2, <3>2 DEF Publishes
      <4> QED BY <4>1, <4>2
    <3> QED BY <3>1, <3>2
  <2>4. ASSUME NEW b \in db'.blocks, NEW x \in db'.blocks, NEW i \in Nat, NEW n \in Nat, NEW m \in Nat,
               Publishes(db', b, i, n), Publishes(db', x, i, m), n <= m
        PROVE  b.index <= x.index
    <3>0. b.index \in Nat /\ x.index \in Nat
      BY <1>9 DEF Database, BlockRow
    <3>1. CASE Publishes(db, b, i, n) /\ Publishes(db, x, i, m)
      BY <2>0, <2>4, <3>1 DEF Numbered, Publishes
    <3>2. CASE Publishes(db, b, i, n) /\ x = new
      <4>1. i = iid \/ Publishes(db, x, i, m)
        BY <2>2, <2>4
      <4>2. CASE i = iid
        <5>1. b \in db.blocks /\ <<i, n>> \in b.rows
          BY <3>2 DEF Publishes
        <5>2. <<i, n>>[1] = b.iid
          BY <2>0, <5>1 DEF Numbered
        <5>3. b.key = k
          BY <1>2, <2>0, <4>2, <5>1, <5>2 DEF Numbered
        <5> QED BY <1>1, <1>11, <3>0, <3>2, <5>1, <5>3
      <4> QED BY <3>1, <3>2, <4>1, <4>2
    <3>3. CASE b = new /\ i = iid /\ n = c
      <4>1. CASE Publishes(db, x, i, m)
        <5>1. m < c
          BY <1>3, <3>3, <4>1 DEF Publishes
        <5> QED BY <1>3, <2>4, <3>3, <5>1
      <4>2. CASE x = new
        BY <3>0, <3>3, <4>2
      <4> QED BY <2>2, <2>4, <4>1, <4>2
    <3> QED BY <2>2, <2>4, <3>1, <3>2, <3>3
  <2> QED BY <2>0, <2>1, <2>3, <2>4 DEF Numbered
<1>15. \A b \in db'.blocks : b \notin db.blocks => b.index \notin Scanned(db, b.key)
  BY <1>1, <1>5, <1>9, <1>11
<1> QED BY <1>9, <1>10, <1>12, <1>13, <1>14, <1>15 DEF IngestsTo, DbOK

-----------------------------------------------------------------------------
(* What holds of servers and clients still holds when the database grows *)

LEMMA ScannedKnown ==
  ASSUME NEW d, DbOK(d), NEW k, NEW i \in Scanned(d, k)
  PROVE  /\ k \in Known(d) /\ k \in Key /\ i \in Index
         /\ d.keys[k].start <= i
         /\ \A j \in d.keys[k].start .. i : j \in Scanned(d, k)
<1>1. PICK b \in d.blocks : b.key = k /\ b.index = i
  BY DEF Scanned
<1> QED BY <1>1, KeysKnown DEF DbOK, Whole

LEMMA StoreGrows ==
  ASSUME NEW d, DbOK(d), NEW e, IngestsTo(d, e), NEW x, StoreOK(x, d)
  PROVE  StoreOK(x, e)
<1>0. /\ x \in Server /\ Known(d) \subseteq Known(e) /\ Known(e) \subseteq Key
      /\ \A k \in Known(d) : e.keys[k].start = d.keys[k].start
      /\ \A k \in Known(e) : e.keys[k].start \in Nat
  BY KeysKnown DEF StoreOK, IngestsTo, Grows
<1>1. \A k : Scanned(d, k) \subseteq Scanned(e, k)
  BY DEF IngestsTo, Grows, Scanned
<1>2. KeysOK(x, e)
  BY <1>0 DEF StoreOK, KeysOK
<1>3. FromDb(x, e)
  BY <1>1 DEF StoreOK, FromDb
<1>4. Pending(x, e)
  <2> SUFFICES ASSUME NEW j \in DOMAIN x.rows
               PROVE  /\ x.rows[j][1] = x.rows[1][1]
                      /\ x.rows[j][2] = From(e, x.fetched, x.rows[1][1]) + j - 1
    BY DEF Pending
  <2>1. /\ x.rows[j][1] = x.rows[1][1]
        /\ x.rows[j][2] = From(d, x.fetched, x.rows[1][1]) + j - 1
    BY DEF StoreOK, Pending
  <2>2. x.rows[j][2] \in Scanned(d, x.rows[j][1])
    BY DEF StoreOK, FromDb
  <2>3. x.rows[j][1] \in Known(d)
    BY <2>2, ScannedKnown
  <2>4. From(e, x.fetched, x.rows[1][1]) = From(d, x.fetched, x.rows[1][1])
    BY <1>0, <2>1, <2>3 DEF From
  <2> QED BY <2>1, <2>4
<1>5. ASSUME NEW k \in Known(e) PROVE Piped(x, e, k) /\ Loaded(x, e, k)
  <2>1. CASE k \in Known(d)
    <3>1. From(e, x.tracked, k) = From(d, x.tracked, k)
      BY <1>0, <2>1 DEF From
    <3>2. Piped(x, d, k) /\ Loaded(x, d, k)
      BY <2>1 DEF StoreOK
    <3> QED BY <1>0, <2>1, <3>1, <3>2 DEF Piped, Loaded
  <2>2. CASE k \notin Known(d)
    <3>1. x.fetched[k] = 0 /\ x.tracked[k] = 0
      BY <1>0, <2>2 DEF StoreOK, KeysOK
    <3>2. \A j \in DOMAIN Way(x) : Way(x)[j][1] # k
      BY <2>2, ScannedKnown DEF StoreOK, FromDb
    <3>3. BlocksOf(Way(x), k) = {} /\ InOrder(Way(x), k)
      BY <3>2 DEF BlocksOf, InOrder
    <3>4. ASSUME NEW i \in Nat PROVE <<k, i>> \notin x.enclave
      <4>1. ASSUME <<k, i>> \in x.enclave PROVE FALSE
        <5>1. <<k, i>>[2] \in Scanned(d, <<k, i>>[1])
          BY <4>1 DEF StoreOK, FromDb
        <5> QED BY <2>2, <5>1, ScannedKnown
      <4> QED BY <4>1
    <3>5. \A i \in Nat : i \notin e.keys[k].start .. x.tracked[k] - 1
      BY <1>0, <3>1
    <3> QED BY <3>1, <3>3, <3>4, <3>5 DEF Piped, Loaded
  <2> QED BY <2>1, <2>2
<1> QED BY <1>0, <1>2, <1>3, <1>4, <1>5 DEF StoreOK

LEMMA FoundGrows ==
  ASSUME NEW d, NEW e, IngestsTo(d, e), NEW i, NEW f, NEW n, NEW out,
         AllScanned(n, d, out), FoundBelow(i, f, n, d, out)
  PROVE  FoundBelow(i, f, n, e, out)
<1> SUFFICES ASSUME NEW b \in e.blocks, b.index < n, <<b.key, b.index>> \notin out
             PROVE  \A row \in b.rows : row[1] = i => row[2] < f
  BY DEF FoundBelow
<1>1. CASE b \in d.blocks
  BY <1>1 DEF FoundBelow
<1>2. CASE b \notin d.blocks
  <2>1. b.index \notin Scanned(d, b.key)
    BY <1>2 DEF IngestsTo
  <2>2. b.key \in Key /\ b.index \in Nat
    BY KeysKnown, Constants DEF IngestsTo
  <2> QED BY <2>1, <2>2 DEF AllScanned
<1> QED BY <1>1, <1>2

LEMMA ClientGrows ==
  ASSUME NEW d, DbOK(d), NEW e, IngestsTo(d, e), NEW c, NEW st, NEW out, ClientOK(c, d, st, out)
  PROVE  ClientOK(c, e, st, out)
<1>1. \A n : AllScanned(n, d, out) => AllScanned(n, e, out)
  BY DEF IngestsTo, Grows, Scanned, AllScanned
<1>2. ClientTyped(c, e)
  <2>1. Len(d.invocations) \in Nat /\ Len(e.invocations) \in Nat /\ Len(d.invocations) <= Len(e.invocations)
    BY DbBounds DEF IngestsTo, Grows
  <2>2. Len(c.found) \in Nat /\ c.heard \in Nat /\ ClientTyped(c, d)
    BY DEF ClientOK, ClientTyped, Client
  <2> QED BY <2>1, <2>2 DEF ClientTyped
<1>3. Polling(c, e, st, out)
  <2>1. Polling(c, d, st, out)
    BY DEF ClientOK
  <2> QED BY <1>1, <2>1, FoundGrows DEF Polling
<1>4. Complete(c, e, out)
  <2>1. AllScanned(c.count, d, out) /\ Complete(c, d, out)
    BY DEF ClientOK, Polling
  <2> QED BY <2>1, FoundGrows DEF Complete
<1> QED BY <1>2, <1>3, <1>4 DEF ClientOK

LEMMA IngestKeeps == ASSUME IInv, IngestStep PROVE IInv'
<1>0. UNCHANGED <<store, client, excused, faults>>
  BY DEF IngestStep, Activate, Announce, Ingest, Retire, Lose
<1>1. DbOK(db)
  BY DEF IInv
<1>2. IngestsTo(db, db')
  <2>1. CASE \E k \in Key, count \in 0 .. MaxBlocks - 1 : Activate(k, count)
    BY <1>1, <2>1, ActivateIngests
  <2>2. CASE \E k \in Known(db) : Announce(k) \/ Ingest(k) \/ Retire(k) \/ Lose(k)
    BY <1>1, <2>2, AnnounceIngests, IngestIngests, RetireIngests, LoseIngests
  <2> QED BY <2>1, <2>2 DEF IngestStep
<1>3. \A s \in Store : StoreOK(store[s], db')
  BY <1>1, <1>2, StoreGrows DEF IInv
<1>4. ClientOK(client, db', store, excused)
  BY <1>1, <1>2, ClientGrows DEF IInv
<1>5. DbOK(db')
  BY <1>2 DEF IngestsTo
<1> QED BY <1>0, <1>3, <1>4, <1>5 DEF IInv

-----------------------------------------------------------------------------
(* The steps of a server, as they change its record *)

LEMMA WayOf == ASSUME NEW x \in Server PROVE Way(x) \in Seq(Row)
BY DEF Server, Way

LEMMA WayPushed ==
  ASSUME NEW s \in Seq(Row), NEW t \in Seq(Row), NEW r \in Row
  PROVE  s \o Append(t, r) = Append(s \o t, r)
<1>1. <<r>> \in Seq(Row) /\ s \o t \in Seq(Row)
  OBVIOUS
<1>2. Append(t, r) = t \o <<r>> /\ Append(s \o t, r) = (s \o t) \o <<r>>
  BY <1>1, AppendIsConcat
<1> QED BY <1>1, <1>2, ConcatAssociative

LEMMA WayTaken ==
  ASSUME NEW s \in Seq(Row), NEW t \in Seq(Row), s # << >>
  PROVE  /\ s \o t # << >> /\ Head(s \o t) = Head(s) /\ Tail(s \o t) = Tail(s) \o t
         /\ Tail(s) \in Seq(Row) /\ Head(s) \in Row
<1>1. s \o t \in Seq(Row) /\ s \o t # << >>
  BY ConcatProperties, ConcatEqualIffEmpty
<1>2. Tail(s) \in Seq(Row) /\ Head(s) \in Row /\ Len(Tail(s)) = Len(s) - 1 /\ Head(s) = s[1]
  BY HeadTailProperties
<1>3. Len(s) \in Nat /\ Len(s) > 0 /\ Len(t) \in Nat
  OBVIOUS
<1>4. Head(s \o t) = s[1]
  BY <1>1, <1>3, ConcatProperties
<1>5. Tail(s \o t) = Tail(s) \o t
  <2> DEFINE u == Tail(s \o t)
             v == Tail(s) \o t
             n == Len(s) + Len(t) - 1
  <2>1. u \in Seq(Row) /\ Len(u) = n /\ v \in Seq(Row) /\ Len(v) = n /\ n \in Nat
    BY <1>1, <1>2, <1>3, ConcatProperties, HeadTailProperties
  <2>2. ASSUME NEW i \in 1 .. n PROVE u[i] = v[i]
    <3>1. u[i] = (s \o t)[i + 1]
      BY <1>1, <2>1, HeadTailProperties
    <3>2. i + 1 \in 1 .. Len(s) + Len(t)
      BY <1>3
    <3>3. (s \o t)[i + 1] = IF i + 1 <= Len(s) THEN s[i + 1] ELSE t[i + 1 - Len(s)]
      BY <3>2, ConcatProperties
    <3>4. v[i] = IF i <= Len(s) - 1 THEN Tail(s)[i] ELSE t[i - (Len(s) - 1)]
      BY <1>2, <1>3, <2>1, ConcatProperties
    <3>5. i <= Len(s) - 1 => Tail(s)[i] = s[i + 1]
      BY <1>2, <1>3, HeadTailProperties
    <3>6. (i + 1 <= Len(s) <=> i <= Len(s) - 1) /\ i + 1 - Len(s) = i - (Len(s) - 1)
      BY <1>3
    <3> QED BY <3>1, <3>3, <3>4, <3>5, <3>6
  <2> HIDE DEF u, v, n
  <2>3. u = v
    BY <2>1, <2>2, SeqEqual
  <2> QED BY <2>3 DEF u, v
<1> QED BY <1>1, <1>2, <1>4, <1>5

(* A step that moves nothing towards the enclave. *)
SameFlow(x, y) ==
  /\ y.fetched = x.fetched /\ y.tracked = x.tracked /\ y.enclave = x.enclave
  /\ Way(y) = Way(x)

LEMMA QuietServer ==
  ASSUME NEW d, NEW x, StoreOK(x, d), NEW y \in Server, SameFlow(x, y), KeysOK(y, d), Pending(y, d),
         \A j \in DOMAIN y.rows : y.rows[j][2] \in Scanned(d, y.rows[j][1]),
         y.tick = "take" => y.taken = << >>
  PROVE  StoreOK(y, d)
<1>1. FromDb(y, d)
  BY DEF StoreOK, SameFlow, FromDb
<1>2. \A k \in Known(d) : Piped(y, d, k) /\ Loaded(y, d, k)
  BY DEF StoreOK, SameFlow, Piped, Loaded, From
<1> QED BY <1>1, <1>2 DEF StoreOK

(* A step that leaves the fetched rows alone, too. *)
LEMMA IdleServer ==
  ASSUME NEW d, NEW x, StoreOK(x, d), NEW y \in Server, SameFlow(x, y), y.rows = x.rows,
         KeysOK(y, d), y.tick = "take" => y.taken = << >>
  PROVE  StoreOK(y, d)
<1>1. Pending(y, d)
  BY DEF StoreOK, Pending, SameFlow
<1>2. \A j \in DOMAIN y.rows : y.rows[j][2] \in Scanned(d, y.rows[j][1])
  BY DEF StoreOK, FromDb
<1> QED BY <1>1, <1>2, QuietServer

LEMMA NewStoreOK == ASSUME NEW d, DbOK(d) PROVE StoreOK(NewStore, d)
<1> DEFINE x == NewStore
<1>1. << >> \in Snapshot /\ << >> \in Seq(Row) /\ DOMAIN << >> = {} /\ 0 \in 0 .. MaxBlocks
  <2>1. << >> \in [{} -> BlockRange] /\ {} \in SUBSET Key /\ DOMAIN << >> = {}
    OBVIOUS
  <2>2. << >> \in Seq(Row) /\ 0 \in 0 .. MaxBlocks
    BY Constants
  <2> QED BY <2>1, <2>2 DEF Snapshot
<1>2. x \in Server
  BY <1>1 DEF Server, NewStore
<1>3. Way(x) = << >> /\ x.taken = << >>
  BY DEF Way, NewStore
<1>4. /\ x.rows = << >> /\ x.enclave = {} /\ x.keys = << >> /\ x.todo = {}
      /\ \A k \in Key : x.fetched[k] = 0 /\ x.tracked[k] = 0
  BY DEF NewStore
<1> HIDE DEF x
<1>5. KeysOK(x, d) /\ FromDb(x, d) /\ Pending(x, d)
  BY <1>1, <1>3, <1>4 DEF KeysOK, FromDb, Pending
<1>6. ASSUME NEW k \in Known(d) PROVE Piped(x, d, k) /\ Loaded(x, d, k)
  <2>1. k \in Key /\ d.keys[k].start \in Nat
    BY KeysKnown
  <2>2. Piped(x, d, k)
    BY <1>3, <1>4, <2>1, BlocksInEmpty DEF Piped
  <2>3. \A i \in Nat : i \notin d.keys[k].start .. x.tracked[k] - 1
    BY <1>4, <2>1
  <2>4. Loaded(x, d, k)
    BY <1>4, <2>1, <2>3 DEF Loaded
  <2> QED BY <2>2, <2>4
<1> QED BY <1>2, <1>3, <1>5, <1>6 DEF StoreOK, x

(* A record moves from the rows to the queue. *)
Pushed(x, y) ==
  /\ x.rows # << >>
  /\ y = [x EXCEPT !.rows = Tail(x.rows), !.queue = Append(x.queue, Head(x.rows)),
                   !.fetched = [x.fetched EXCEPT ![Head(x.rows)[1]] = Head(x.rows)[2] + 1],
                   !.owing = TRUE]

LEMMA PushOK ==
  ASSUME NEW d, DbOK(d), NEW x, StoreOK(x, d), NEW y, Pushed(x, y)
  PROVE  StoreOK(y, d) /\ y.enclave = x.enclave /\ y.count = x.count
<1> DEFINE row == Head(x.rows)
           k == row[1]
           n == Len(x.rows)
           F == From(d, x.fetched, k)
<1>0. x \in Server /\ x.rows \in Seq(Row) /\ x.queue \in Seq(Row) /\ x.taken \in Seq(Row)
      /\ x.fetched \in [Key -> Nat] /\ x.tracked \in [Key -> 0 .. MaxBlocks]
  BY DEF StoreOK, Server
<1>1. /\ row \in Row /\ row = x.rows[1] /\ n \in Nat /\ n > 0 /\ DOMAIN x.rows = 1 .. n
      /\ Tail(x.rows) \in Seq(Row) /\ DOMAIN Tail(x.rows) = 1 .. n - 1
      /\ \A j \in 1 .. n - 1 : Tail(x.rows)[j] = x.rows[j + 1]
  <2>1. x.rows # << >>
    BY DEF Pushed
  <2> QED BY <1>0, <2>1
<1>2. row[2] = F /\ F \in Scanned(d, k) /\ \A j \in 1 .. n : x.rows[j] \in Row /\ x.rows[j][1] = k
         /\ x.rows[j][2] = F + j - 1 /\ x.rows[j][2] \in Scanned(d, k)
  <2>1. \A j \in 1 .. n : /\ x.rows[j] \in Row /\ x.rows[j][1] = x.rows[1][1]
            /\ x.rows[j][2] = From(d, x.fetched, x.rows[1][1]) + j - 1
            /\ x.rows[j][2] \in Scanned(d, x.rows[j][1])
    <3>1. \A j \in 1 .. n : x.rows[j] \in Row
      BY <1>0, <1>1
    <3>2. Pending(x, d) /\ FromDb(x, d)
      BY DEF StoreOK
    <3> QED BY <1>1, <3>1, <3>2 DEF Pending, FromDb
  <2>2. 1 \in 1 .. n
    BY <1>1
  <2>3. \A j \in 1 .. n : /\ x.rows[j] \in Row /\ x.rows[j][1] = k
            /\ x.rows[j][2] = F + j - 1 /\ x.rows[j][2] \in Scanned(d, k)
    BY <1>1, <2>1
  <2>4. k \in Key /\ row[2] \in Nat /\ k \in Known(d)
    <3>1. row \in Key \X Index /\ row[2] \in Scanned(d, k)
      BY <1>1, <2>2, <2>3 DEF Row
    <3> QED BY <3>1, Constants, ScannedKnown
  <2>5. F \in Nat
    <3>1. d.keys[k].start \in Nat /\ x.fetched[k] \in Nat
      BY <1>0, <2>4, KeysKnown
    <3> QED BY <3>1 DEF From
  <2>6. x.rows[1][2] = F + 1 - 1 /\ F + 1 - 1 = F
    BY <2>2, <2>3, <2>5
  <2> HIDE DEF F
  <2>7. row[2] = F
    BY <1>1, <2>6
  <2> QED BY <1>1, <2>2, <2>3, <2>7
<1>3. k \in Known(d) /\ k \in Key /\ F \in Nat
  BY <1>2, ScannedKnown, Constants
<1> HIDE DEF F, n
<1>4. /\ y \in Server /\ y.rows = Tail(x.rows) /\ y.taken = x.taken /\ y.tick = x.tick
      /\ y.queue = Append(x.queue, row) /\ y.tracked = x.tracked /\ y.enclave = x.enclave
      /\ y.keys = x.keys /\ y.todo = x.todo /\ y.count = x.count
      /\ y.fetched = [x.fetched EXCEPT ![k] = F + 1]
  <2> DEFINE fetched == [x.fetched EXCEPT ![k] = F + 1]
             queue == Append(x.queue, row)
             rows == Tail(x.rows)
  <2>1. fetched \in [Key -> Nat] /\ queue \in Seq(Row) /\ rows \in Seq(Row)
    BY <1>0, <1>1, <1>3
  <2>2. y = [x EXCEPT !.rows = rows, !.queue = queue, !.fetched = fetched, !.owing = TRUE]
    BY <1>2 DEF Pushed
  <2> HIDE DEF fetched, queue, rows, row, k
  <2>3. /\ y \in Server /\ y.rows = rows /\ y.taken = x.taken /\ y.tick = x.tick
        /\ y.queue = queue /\ y.tracked = x.tracked /\ y.enclave = x.enclave
        /\ y.keys = x.keys /\ y.todo = x.todo /\ y.count = x.count /\ y.fetched = fetched
    BY <1>0, <2>1, <2>2 DEF Server
  <2> QED BY <2>3 DEF fetched, queue, rows
<1>5. y.fetched[k] = F + 1 /\ \A j \in Key : j # k => y.fetched[j] = x.fetched[j]
  BY <1>0, <1>3, <1>4
<1> HIDE DEF row, k
<1>6. Way(y) = Append(Way(x), row) /\ Way(x) \in Seq(Row)
  <2>1. Way(y) = x.taken \o Append(x.queue, row)
    BY <1>4 DEF Way
  <2>2. x.taken \o Append(x.queue, row) = Append(x.taken \o x.queue, row)
    BY <1>0, <1>1, WayPushed
  <2> QED BY <1>0, <2>1, <2>2, WayOf DEF Way
<1>7. KeysOK(y, d)
  BY <1>3, <1>4, <1>5 DEF StoreOK, KeysOK
<1>8. Pending(y, d)
  <2> SUFFICES ASSUME NEW j \in 1 .. n - 1
               PROVE  /\ y.rows[j][1] = y.rows[1][1]
                      /\ y.rows[j][2] = From(d, y.fetched, y.rows[1][1]) + j - 1
    BY <1>1, <1>4 DEF Pending
  <2>1. 1 \in 1 .. n - 1 /\ j + 1 \in 1 .. n /\ 1 + 1 \in 1 .. n
    BY <1>1
  <2>2. y.rows[j][1] = k /\ y.rows[j][2] = F + (j + 1) - 1 /\ y.rows[1][1] = k
    <3>1. y.rows[j] = x.rows[j + 1] /\ y.rows[1] = x.rows[1 + 1]
      BY <1>1, <1>4, <2>1
    <3> QED BY <1>2, <2>1, <3>1
  <2>3. From(d, y.fetched, k) = F + 1
    BY <1>3, <1>5 DEF From
  <2>4. F + (j + 1) - 1 = F + 1 + j - 1
    BY <1>3
  <2> QED BY <2>2, <2>3, <2>4
<1>9. FromDb(y, d)
  <2>1. \A j \in DOMAIN y.rows : y.rows[j][2] \in Scanned(d, y.rows[j][1])
    <3> SUFFICES ASSUME NEW j \in 1 .. n - 1 PROVE y.rows[j][2] \in Scanned(d, y.rows[j][1])
      BY <1>1, <1>4
    <3>1. j + 1 \in 1 .. n /\ y.rows[j] = x.rows[j + 1]
      BY <1>1, <1>4
    <3> QED BY <1>2, <3>1
  <2>2. \A j \in DOMAIN Way(y) : Way(y)[j][2] \in Scanned(d, Way(y)[j][1])
    <3> SUFFICES ASSUME NEW j \in DOMAIN Way(y)
                 PROVE  Way(y)[j][2] \in Scanned(d, Way(y)[j][1])
      OBVIOUS
    <3>1. Way(y)[j] = row \/ (j \in DOMAIN Way(x) /\ Way(y)[j] = Way(x)[j])
      BY <1>1, <1>6
    <3> QED BY <1>2, <3>1 DEF StoreOK, FromDb, k
  <2> QED BY <1>4, <2>1, <2>2 DEF StoreOK, FromDb
<1>10. ASSUME NEW j \in Known(d) PROVE Piped(y, d, j)
  <2> DEFINE B == BlocksOf(Way(x), j)
             G == From(d, x.tracked, j)
  <2>0. /\ Piped(x, d, j) /\ j \in Key /\ From(d, y.tracked, j) = G
        /\ d.keys[j].start \in Nat /\ x.tracked[j] \in Nat /\ x.fetched[j] \in Nat
        /\ InOrder(Way(x), j)
    <3>1. j \in Key /\ d.keys[j].start \in Nat
      BY KeysKnown
    <3>2. x.tracked[j] \in Nat /\ x.fetched[j] \in Nat
      BY <1>0, <3>1
    <3>3. Piped(x, d, j) /\ From(d, y.tracked, j) = G
      BY <1>4 DEF StoreOK
    <3> QED BY <3>1, <3>2, <3>3 DEF Piped
  <2>00. G \in Nat
    BY <2>0 DEF From
  <2>1. CASE j # k
    <3>1. row[1] # j
      BY <2>1 DEF k
    <3>2. InOrder(Way(y), j) /\ BlocksOf(Way(y), j) = B
      <4>1. row[1] = j => \A i \in BlocksOf(Way(x), j) : i < row[2]
        BY <3>1
      <4> HIDE DEF B
      <4>2. InOrder(Way(y), j) /\ BlocksOf(Way(y), j) = BlocksOf(Way(x), j)
        BY <1>1, <1>6, <2>0, <3>1, <4>1, BlocksAppended
      <4> QED BY <4>2 DEF B
    <3> QED BY <1>4, <1>5, <2>0, <2>1, <3>2 DEF Piped
  <2>2. CASE j = k
    <3>0. row[1] = j /\ row[2] = F
      BY <1>2, <2>2 DEF k
    <3>1. CASE B = {}
      <4>1. InOrder(Way(y), j) /\ BlocksOf(Way(y), j) = {F}
        BY <1>1, <1>6, <2>0, <3>0, <3>1, BlocksAppended
      <4>2. F = G
        BY <2>0, <2>2, <3>1 DEF Piped, From, F
      <4>3. {F} = G .. F + 1 - 1
        BY <1>3, <4>2
      <4>4. {F} # {} /\ y.fetched[j] = F + 1
        BY <1>5, <2>2
      <4>5. BlocksOf(Way(y), j) # {} /\ BlocksOf(Way(y), j) = From(d, y.tracked, j) .. y.fetched[j] - 1
        BY <2>0, <4>1, <4>3, <4>4
      <4> QED BY <4>1, <4>5 DEF Piped
    <3>2. CASE B # {}
      <4>1. B = G .. x.fetched[j] - 1
        BY <2>0, <3>2 DEF Piped
      <4>2. x.fetched[j] > G
        BY <2>0, <2>00, <3>2, <4>1
      <4>3. F = x.fetched[j]
        BY <2>0, <2>00, <2>2, <4>2 DEF From, F
      <4>4. \A i \in B : i < F
        BY <2>0, <2>00, <4>1, <4>3
      <4>5. InOrder(Way(y), j) /\ BlocksOf(Way(y), j) = B \cup {F}
        <5>1. row[1] = j => \A i \in BlocksOf(Way(x), j) : i < row[2]
          BY <3>0, <4>4
        <5> HIDE DEF B
        <5>2. InOrder(Way(y), j) /\ BlocksOf(Way(y), j) = BlocksOf(Way(x), j) \cup {row[2]}
          BY <1>1, <1>6, <2>0, <3>0, <5>1, BlocksAppended
        <5> QED BY <3>0, <5>2 DEF B
      <4>6. B \cup {F} = G .. F + 1 - 1
        BY <1>3, <2>00, <4>1, <4>2, <4>3
      <4>7. B \cup {F} # {} /\ y.fetched[j] = F + 1
        BY <1>5, <2>2
      <4>8. BlocksOf(Way(y), j) # {} /\ BlocksOf(Way(y), j) = From(d, y.tracked, j) .. y.fetched[j] - 1
        BY <2>0, <4>5, <4>6, <4>7
      <4> QED BY <4>5, <4>8 DEF Piped
    <3> QED BY <3>1, <3>2
  <2> QED BY <2>1, <2>2
<1>11. \A j \in Known(d) : Loaded(y, d, j)
  BY <1>4 DEF StoreOK, Loaded
<1> QED BY <1>4, <1>7, <1>8, <1>9, <1>10, <1>11 DEF StoreOK

(* A record moves from those that were taken into the enclave. *)
Added(x, y) ==
  /\ x.taken # << >> /\ x.tick = "add"
  /\ y = [x EXCEPT !.taken = Tail(x.taken), !.enclave = x.enclave \cup {Head(x.taken)},
                   !.tracked = [x.tracked EXCEPT ![Head(x.taken)[1]] = Head(x.taken)[2] + 1]]

LEMMA AddOK ==
  ASSUME NEW d, DbOK(d), NEW x, StoreOK(x, d), NEW y, Added(x, y)
  PROVE  StoreOK(y, d) /\ x.enclave \subseteq y.enclave /\ y.count = x.count
<1> DEFINE row == Head(x.taken)
           k == row[1]
           i == row[2]
<1>0. x \in Server /\ x.queue \in Seq(Row) /\ x.taken \in Seq(Row) /\ x.enclave \in SUBSET Row
      /\ x.fetched \in [Key -> Nat] /\ x.tracked \in [Key -> 0 .. MaxBlocks]
  BY DEF StoreOK, Server
<1>1. /\ row \in Row /\ Tail(x.taken) \in Seq(Row)
      /\ Way(x) # << >> /\ Head(Way(x)) = row /\ Tail(Way(x)) = Tail(x.taken) \o x.queue
  <2>1. x.taken # << >>
    BY DEF Added
  <2> QED BY <1>0, <2>1, WayTaken DEF Way
<1>2. Way(x) \in Seq(Row) /\ Way(x)[1] = row /\ 1 \in DOMAIN Way(x)
  <2>1. Way(x) \in Seq(Row)
    BY <1>0, WayOf
  <2> QED BY <1>1, <2>1
<1>3. k \in Key /\ i \in Index /\ i \in Nat /\ i + 1 \in 0 .. MaxBlocks /\ row = <<k, i>>
  <2>1. row \in Key \X Index
    BY <1>1 DEF Row
  <2>2. k \in Key /\ i \in Index /\ row = <<k, i>>
    BY <2>1
  <2> HIDE DEF i, k
  <2> QED BY <2>2, Constants DEF Index
<1>4. k \in Known(d) /\ i \in Scanned(d, k) /\ d.keys[k].start \in Nat
  <2>1. FromDb(x, d)
    BY DEF StoreOK
  <2>2. i \in Scanned(d, k)
    BY <1>2, <2>1 DEF FromDb
  <2> QED BY <2>2, ScannedKnown, KeysKnown
<1> DEFINE tracked == [x.tracked EXCEPT ![k] = i + 1]
<1>5. /\ y \in Server /\ y.rows = x.rows /\ y.taken = Tail(x.taken) /\ y.tick = "add"
      /\ y.queue = x.queue /\ y.tracked = tracked /\ y.enclave = x.enclave \cup {row}
      /\ y.keys = x.keys /\ y.todo = x.todo /\ y.count = x.count /\ y.fetched = x.fetched
  <2> DEFINE enclave == x.enclave \cup {row}
             taken == Tail(x.taken)
  <2>1. tracked \in [Key -> 0 .. MaxBlocks] /\ taken \in Seq(Row) /\ enclave \in SUBSET Row
    BY <1>0, <1>1, <1>3
  <2>2. y = [x EXCEPT !.taken = taken, !.enclave = enclave, !.tracked = tracked] /\ x.tick = "add"
    BY DEF Added
  <2> HIDE DEF enclave, taken, tracked, row, k, i
  <2>3. /\ y \in Server /\ y.rows = x.rows /\ y.taken = taken /\ y.tick = "add"
        /\ y.queue = x.queue /\ y.tracked = tracked /\ y.enclave = enclave
        /\ y.keys = x.keys /\ y.todo = x.todo /\ y.count = x.count /\ y.fetched = x.fetched
    BY <1>0, <2>1, <2>2 DEF Server
  <2> QED BY <2>3 DEF enclave, taken
<1>6. tracked[k] = i + 1 /\ \A j \in Key : j # k => tracked[j] = x.tracked[j]
  BY <1>0, <1>3
<1> HIDE DEF tracked, row, k, i
<1>7. Way(y) = Tail(Way(x))
  BY <1>1, <1>5 DEF Way
<1>8. KeysOK(y, d)
  BY <1>4, <1>5, <1>6 DEF StoreOK, KeysOK
<1>9. Pending(y, d)
  BY <1>5 DEF StoreOK, Pending
<1>10. FromDb(y, d)
  <2>0. FromDb(x, d)
    BY DEF StoreOK
  <2>1. \A j \in DOMAIN Way(y) : j + 1 \in DOMAIN Way(x) /\ Way(y)[j] = Way(x)[j + 1]
    BY <1>1, <1>2, <1>7
  <2>2. \A j \in DOMAIN Way(y) : Way(y)[j][2] \in Scanned(d, Way(y)[j][1])
    BY <2>0, <2>1 DEF FromDb
  <2>3. row[2] \in Scanned(d, row[1])
    BY <1>4 DEF k, i
  <2>4. \A r \in y.enclave : r[2] \in Scanned(d, r[1])
    BY <1>5, <2>0, <2>3 DEF FromDb
  <2> QED BY <1>5, <2>0, <2>2, <2>4 DEF FromDb
<1>11. ASSUME NEW j \in Known(d) PROVE Piped(y, d, j) /\ Loaded(y, d, j)
  <2> DEFINE B == BlocksOf(Way(x), j)
             G == From(d, x.tracked, j)
             a == d.keys[j].start
  <2>0. /\ Piped(x, d, j) /\ Loaded(x, d, j) /\ InOrder(Way(x), j) /\ j \in Key
        /\ a \in Nat /\ x.tracked[j] \in Nat /\ x.fetched[j] \in Nat
    <3>1. j \in Key /\ a \in Nat
      BY KeysKnown
    <3>2. x.tracked[j] \in Nat /\ x.fetched[j] \in Nat
      BY <1>0, <3>1
    <3>3. Piped(x, d, j) /\ Loaded(x, d, j)
      BY DEF StoreOK
    <3> QED BY <3>1, <3>2, <3>3 DEF Piped
  <2>1. CASE j # k
    <3>1. InOrder(Way(y), j) /\ BlocksOf(Way(y), j) = B
      <4>1. Head(Way(x))[1] # j
        BY <1>1, <2>1 DEF k
      <4> QED BY <1>1, <1>2, <1>7, <2>0, <4>1, BlocksTaken
    <3>2. y.tracked[j] = x.tracked[j] /\ y.fetched[j] = x.fetched[j]
      BY <1>5, <1>6, <2>0, <2>1
    <3>3. From(d, y.tracked, j) = G
      BY <3>2 DEF From
    <3>4. Piped(y, d, j)
      BY <2>0, <3>1, <3>2, <3>3 DEF Piped
    <3>5. \A m \in Nat : <<j, m>> \in y.enclave <=> <<j, m>> \in x.enclave
      BY <1>3, <1>5, <2>1
    <3>6. Loaded(y, d, j)
      BY <2>0, <3>2, <3>5 DEF Loaded
    <3> QED BY <3>4, <3>6
  <2>2. CASE j = k
    <3>0. Head(Way(x))[1] = j /\ Head(Way(x))[2] = i
      BY <1>1, <2>2 DEF k, i
    <3>1. /\ InOrder(Way(y), j) /\ BlocksOf(Way(y), j) = B \ {i} /\ i \in B
          /\ \A m \in B : i <= m
      BY <1>1, <1>2, <1>7, <2>0, <3>0, BlocksTaken
    <3>2. B = G .. x.fetched[j] - 1
      BY <2>0, <3>1 DEF Piped
    <3>3. G \in Nat /\ (x.tracked[j] = 0 => G = a) /\ (x.tracked[j] # 0 => G = x.tracked[j] /\ a < G)
      BY <2>0 DEF From, Loaded
    <3> HIDE DEF G, B, a
    <3>4. i = G /\ x.fetched[j] > G
      BY <1>3, <2>0, <3>1, <3>2, <3>3
    <3>5. y.tracked[j] = G + 1 /\ y.fetched[j] = x.fetched[j] /\ From(d, y.tracked, j) = G + 1
      <4>1. y.tracked[j] = G + 1 /\ y.fetched[j] = x.fetched[j]
        BY <1>5, <1>6, <2>2, <3>4
      <4> QED BY <3>3, <4>1 DEF From
    <3>6. B \ {i} = G + 1 .. x.fetched[j] - 1
      BY <2>0, <3>2, <3>3, <3>4
    <3>7. Piped(y, d, j)
      <4>1. B \ {i} = {} => x.fetched[j] = G + 1
        <5>1. x.fetched[j] # G + 1 => G + 1 \in G + 1 .. x.fetched[j] - 1
          BY <2>0, <3>3, <3>4
        <5> QED BY <3>6, <5>1
      <4>2. BlocksOf(Way(y), j) = From(d, y.tracked, j) .. y.fetched[j] - 1
        BY <3>1, <3>5, <3>6
      <4>3. BlocksOf(Way(y), j) = {} => y.fetched[j] = y.tracked[j]
        BY <3>1, <3>5, <4>1
      <4> QED BY <3>1, <4>2, <4>3 DEF Piped
    <3>8. Loaded(y, d, j)
      <4>1. a < y.tracked[j]
        BY <2>0, <3>3, <3>5
      <4>2. ASSUME NEW m \in Nat PROVE <<j, m>> \in y.enclave <=> m \in a .. y.tracked[j] - 1
        <5>1. <<j, m>> \in x.enclave <=> m \in a .. x.tracked[j] - 1
          BY <2>0 DEF Loaded, a
        <5>2. <<j, m>> \in y.enclave <=> <<j, m>> \in x.enclave \/ m = i
          BY <1>3, <1>5, <2>2
        <5>3. m \in a .. (G + 1) - 1 <=> m \in a .. x.tracked[j] - 1 \/ m = G
          BY <2>0, <3>3
        <5> QED BY <3>4, <3>5, <5>1, <5>2, <5>3
      <4> QED BY <4>1, <4>2 DEF Loaded, a
    <3> QED BY <3>7, <3>8
  <2> QED BY <2>1, <2>2
<1> QED BY <1>5, <1>8, <1>9, <1>10, <1>11 DEF StoreOK

(* The rows of a query are blocks that were scanned, from the next one on. *)
LEMMA RowsOfQuery ==
  ASSUME NEW k, NEW next \in Nat
  PROVE  LET rows == TxOutsFrom(k, next)
         IN  /\ DOMAIN rows = 1 .. Len(rows) /\ Len(rows) \in Nat
             /\ \A j \in DOMAIN rows : /\ rows[j] = <<k, next + j - 1>>
                                       /\ next + j - 1 \in Scanned(db, k)
             /\ \A S : (\A j \in DOMAIN rows : rows[j] \in S) => rows \in Seq(S)
<1> DEFINE M == {m \in 0 .. BatchSize : next .. next + m - 1 \subseteq Scanned(db, k)}
           n == Max(M)
           rows == [j \in 1 .. n |-> <<k, next + j - 1>>]
<1>1. n \in M /\ n \in Nat
  <2>1. BatchSize \in Nat /\ M \in SUBSET (0 .. BatchSize)
    BY Constants
  <2>2. 0 \in M
    <3>1. next .. next + 0 - 1 = {}
      OBVIOUS
    <3> QED BY <2>1, <3>1
  <2>3. n \in M
    BY <2>1, <2>2, MaxIsFound
  <2> QED BY <2>1, <2>3
<1>2. next .. next + n - 1 \subseteq Scanned(db, k)
  BY <1>1
<1>3. TxOutsFrom(k, next) = rows
  BY DEF TxOutsFrom
<1> HIDE DEF n, M
<1>4. DOMAIN rows = 1 .. n /\ Len(rows) = n /\ \A j \in 1 .. n : rows[j] = <<k, next + j - 1>>
  BY <1>1
<1>5. \A j \in 1 .. n : next + j - 1 \in next .. next + n - 1
  BY <1>1
<1>6. \A S : (\A j \in 1 .. n : rows[j] \in S) => rows \in Seq(S)
  <2> SUFFICES ASSUME NEW S, \A j \in 1 .. n : rows[j] \in S PROVE rows \in Seq(S)
    OBVIOUS
  <2>1. rows \in [1 .. n -> S]
    OBVIOUS
  <2> QED BY <1>1, <2>1, SeqDef
<1> HIDE DEF rows
<1> QED BY <1>1, <1>2, <1>3, <1>4, <1>5, <1>6

LEMMA FetchOK ==
  ASSUME DbOK(db), NEW x, StoreOK(x, db), NEW k \in x.todo, NEW y,
         NEW again \in BOOLEAN,
         y = [x EXCEPT !.rows = TxOutsFrom(k, NextBlock(x.keys, x.fetched, k)),
                       !.todo = x.todo \ {k}, !.again = again]
  PROVE  StoreOK(y, db) /\ y.enclave = x.enclave /\ y.count = x.count
<1> DEFINE next == NextBlock(x.keys, x.fetched, k)
           rows == TxOutsFrom(k, next)
           todo == x.todo \ {k}
<1>0. x \in Server /\ KeysOK(x, db) /\ (x.tick = "take" => x.taken = << >>)
  BY DEF StoreOK
<1>1. k \in Known(db) /\ k \in Key /\ next = From(db, x.fetched, k)
  <2>1. k \in DOMAIN x.keys /\ k \in Known(db) /\ x.keys[k].from = db.keys[k].start
    BY <1>0 DEF KeysOK
  <2> QED BY <2>1, KeysKnown DEF NextBlock, From
<1>2. next \in Nat
  <2>1. x.fetched[k] \in Nat /\ db.keys[k].start \in Nat
    BY <1>0, <1>1, KeysKnown DEF Server
  <2> QED BY <1>1, <2>1 DEF From
<1> HIDE DEF next
<1>3. /\ DOMAIN rows = 1 .. Len(rows) /\ Len(rows) \in Nat
      /\ \A j \in DOMAIN rows : rows[j] = <<k, next + j - 1>> /\ next + j - 1 \in Scanned(db, k)
      /\ \A S : (\A j \in DOMAIN rows : rows[j] \in S) => rows \in Seq(S)
  BY <1>2, RowsOfQuery
<1>4. y = [x EXCEPT !.rows = rows, !.todo = todo, !.again = again]
  BY DEF next
<1> HIDE DEF rows
<1>5. rows \in Seq(Row)
  <2>1. ASSUME NEW j \in DOMAIN rows PROVE rows[j] \in Row
    <3>1. next + j - 1 \in Index
      BY <1>3, ScannedKnown
    <3>2. <<k, next + j - 1>> \in Row
      BY <1>1, <3>1 DEF Row
    <3>3. rows[j] = <<k, next + j - 1>>
      BY <1>3
    <3> QED BY <3>2, <3>3
  <2> QED BY <1>3, <2>1
<1>6. todo \in SUBSET Key
  BY <1>0 DEF Server
<1> HIDE DEF todo
<1>7. /\ y \in Server /\ y.rows = rows /\ y.taken = x.taken /\ y.tick = x.tick
      /\ y.queue = x.queue /\ y.tracked = x.tracked /\ y.enclave = x.enclave
      /\ y.keys = x.keys /\ y.todo = todo /\ y.count = x.count /\ y.fetched = x.fetched
  BY <1>0, <1>4, <1>5, <1>6 DEF Server
<1>8. SameFlow(x, y)
  BY <1>7 DEF SameFlow, Way
<1>9. KeysOK(y, db)
  BY <1>0, <1>7 DEF KeysOK, todo
<1>10. Pending(y, db)
  <2> SUFFICES ASSUME NEW j \in DOMAIN rows
               PROVE  /\ rows[j][1] = rows[1][1]
                      /\ rows[j][2] = From(db, x.fetched, rows[1][1]) + j - 1
    BY <1>7 DEF Pending
  <2>1. 1 \in DOMAIN rows
    BY <1>3
  <2>2. rows[1] = <<k, next + 1 - 1>> /\ rows[j] = <<k, next + j - 1>>
    BY <1>3, <2>1
  <2> QED BY <1>1, <2>2
<1>11. \A j \in DOMAIN y.rows : y.rows[j][2] \in Scanned(db, y.rows[j][1])
  BY <1>3, <1>7
<1> QED BY <1>0, <1>7, <1>8, <1>9, <1>10, <1>11, QuietServer

(* A pass over the keys begins. *)
LEMMA PassOK ==
  ASSUME DbOK(db), NEW x, StoreOK(x, db), NEW keys \in Snapshot, NEW y,
         \A k \in DOMAIN keys : k \in Known(db) /\ keys[k].from = db.keys[k].start,
         y = [x EXCEPT !.keys = keys, !.again = FALSE, !.todo = next_blocks(keys, x.fetched)]
  PROVE  StoreOK(y, db) /\ y.enclave = x.enclave /\ y.count = x.count
<1> DEFINE todo == next_blocks(keys, x.fetched)
<1>0. x \in Server /\ KeysOK(x, db) /\ (x.tick = "take" => x.taken = << >>)
  BY DEF StoreOK
<1>1. todo \subseteq DOMAIN keys /\ DOMAIN keys \subseteq Key
  BY DEF next_blocks, Snapshot
<1> HIDE DEF todo
<1>2. /\ y \in Server /\ y.rows = x.rows /\ y.taken = x.taken /\ y.tick = x.tick
      /\ y.queue = x.queue /\ y.tracked = x.tracked /\ y.enclave = x.enclave
      /\ y.keys = keys /\ y.todo = todo /\ y.count = x.count /\ y.fetched = x.fetched
  <2>1. todo \in SUBSET Key
    BY <1>1
  <2>2. y = [x EXCEPT !.keys = keys, !.again = FALSE, !.todo = todo]
    BY DEF todo
  <2> QED BY <1>0, <2>1, <2>2 DEF Server
<1>3. SameFlow(x, y)
  BY <1>2 DEF SameFlow, Way
<1>4. KeysOK(y, db)
  BY <1>0, <1>1, <1>2 DEF KeysOK
<1> QED BY <1>0, <1>2, <1>3, <1>4, IdleServer

(* The keys that a server loads. *)
LEMMA SnapshotOK ==
  ASSUME DbOK(db)
  PROVE  LET keys == get_ingress_key_records
         IN  /\ keys \in Snapshot
             /\ \A k \in DOMAIN keys : k \in Known(db) /\ keys[k].from = db.keys[k].start
<1>1. ASSUME NEW k \in Known(db)
      PROVE  get_block_range(k) \in BlockRange /\ get_block_range(k).from = db.keys[k].start
  <2> DEFINE S == {0} \cup {i + 1 : i \in Scanned(db, k)}
             to == IF db.keys[k].lost THEN Max(S)
                   ELSE IF db.keys[k].retired THEN db.keys[k].expiry ELSE Forever
  <2>1. MaxBlocks \in Nat
    BY Constants
  <2>2. ASSUME NEW i \in Scanned(db, k) PROVE i + 1 \in 0 .. MaxBlocks
    BY <2>1, ScannedKnown DEF Index
  <2>3. S \in SUBSET (0 .. MaxBlocks) /\ S # {}
    BY <2>1, <2>2
  <2>4. Max(S) \in S
    BY <2>1, <2>3, MaxIsFound
  <2>5. Max(S) \in Nat
    BY <2>1, <2>3, <2>4
  <2>6. db.keys[k].start \in Nat /\ db.keys[k].expiry \in Nat
    BY KeysKnown, KeysOf DEF KeyRow
  <2>7. to \in Nat
    BY <2>1, <2>5, <2>6 DEF Forever
  <2>8. get_block_range(k) = [from |-> db.keys[k].start, to |-> to]
    BY DEF get_block_range
  <2> HIDE DEF to
  <2> QED BY <2>6, <2>7, <2>8 DEF BlockRange
<1>2. Known(db) \in SUBSET Key
  BY KeysKnown
<1>3. get_ingress_key_records \in [Known(db) -> BlockRange]
  BY <1>1 DEF get_ingress_key_records
<1>4. get_ingress_key_records \in Snapshot
  BY <1>2, <1>3 DEF Snapshot
<1>5. /\ DOMAIN get_ingress_key_records = Known(db)
      /\ \A k \in Known(db) : get_ingress_key_records[k] = get_block_range(k)
  BY DEF get_ingress_key_records
<1> QED BY <1>1, <1>4, <1>5

(* The count of complete blocks rises only over blocks that are excused or *)
(* in the enclave, whatever their key.                                     *)
Excuses(x, c) ==
  {p \in Key \X (x.count .. c - 1) :
     p[1] \in DOMAIN x.keys => ~covers_block_index(x.keys[p[1]], p[2])}

LEMMA CountRises ==
  ASSUME NEW d, DbOK(d), NEW x, StoreOK(x, d), NEW out, Covered(x.count, x.enclave, out), NEW c,
         c = highest_fully_processed_block_count(x.count, x.keys, x.tracked)
  PROVE  c \in 0 .. MaxBlocks /\ Covered(c, x.enclave, out \cup Excuses(x, c))
<1> DEFINE T == {0} \cup {x.tracked[k] : k \in Key}
           C == {m \in x.count .. Max(T) : \A i \in x.count .. m - 1, k \in DOMAIN x.keys :
                    covers_block_index(x.keys[k], i) => i < x.tracked[k]}
           S == {x.count} \cup C
<1>0. /\ x \in Server /\ x.tracked \in [Key -> 0 .. MaxBlocks] /\ x.count \in 0 .. MaxBlocks
      /\ MaxBlocks \in Nat /\ x.count \in Nat
  BY SMTT(30), Constants DEF StoreOK, Server
<1>1. Max(T) \in 0 .. MaxBlocks
  <2>1. T \in SUBSET (0 .. MaxBlocks) /\ T # {}
    BY <1>0
  <2>2. Max(T) \in T
    BY <1>0, <2>1, MaxIsFound
  <2> QED BY <2>1, <2>2
<1>2. c = Max(S)
  BY DEF highest_fully_processed_block_count, highest_known_block_count
<1> HIDE DEF T
<1>3. S \in SUBSET (0 .. MaxBlocks) /\ S # {}
  BY <1>0, <1>1
<1>4. c \in S
  BY <1>0, <1>2, <1>3, MaxIsFound
<1>5. c \in 0 .. MaxBlocks /\ c \in Nat
  BY <1>3, <1>4
<1>6. \A i \in x.count .. c - 1, k \in DOMAIN x.keys :
          covers_block_index(x.keys[k], i) => i < x.tracked[k]
  <2>1. CASE c = x.count
    <3>1. x.count .. c - 1 = {}
      BY <1>0, <2>1
    <3> QED BY <3>1
  <2>2. CASE c \in C
    BY <2>2
  <2> QED BY <1>4, <2>1, <2>2
<1> HIDE DEF S, C
<1>7. ASSUME NEW k \in Key, NEW i \in Nat, i < c,
             <<k, i>> \notin out, <<k, i>> \notin Excuses(x, c)
      PROVE  <<k, i>> \in x.enclave
  <2>1. CASE i < x.count
    BY <1>7, <2>1 DEF Covered
  <2>2. CASE ~(i < x.count)
    <3>1. i \in x.count .. c - 1
      BY <1>0, <1>5, <1>7, <2>2
    <3>2. k \in DOMAIN x.keys /\ covers_block_index(x.keys[k], i)
      <4>1. <<k, i>> \in Key \X (x.count .. c - 1) /\ <<k, i>>[1] = k /\ <<k, i>>[2] = i
        BY <3>1
      <4> QED BY <1>7, <4>1 DEF Excuses
    <3>3. i < x.tracked[k] /\ x.keys[k].from <= i
      BY <1>6, <3>1, <3>2 DEF covers_block_index
    <3>4. /\ k \in Known(d) /\ x.keys[k].from = d.keys[k].start /\ d.keys[k].start \in Nat
          /\ x.tracked[k] \in Nat
      BY <1>0, <3>2, KeysKnown DEF StoreOK, KeysOK
    <3>5. i \in d.keys[k].start .. x.tracked[k] - 1
      BY <3>3, <3>4
    <3>6. Loaded(x, d, k)
      BY <3>4 DEF StoreOK
    <3> QED BY <3>5, <3>6 DEF Loaded
  <2> QED BY <2>1, <2>2
<1> QED BY <1>5, <1>7 DEF Covered

-----------------------------------------------------------------------------
(* The steps of the servers *)

(* What a step of server s must establish: the others are not affected,    *)
(* and a client relies on what is in an enclave.                           *)
ServerTo(s, y) ==
  /\ store' = [store EXCEPT ![s] = y]
  /\ StoreOK(y, db) /\ store[s].enclave \subseteq y.enclave
  /\ Covered(y.count, y.enclave, excused') /\ excused \subseteq excused'
  /\ db' = db /\ client' = client /\ faults' \in Nat

LEMMA Excusing ==
  ASSUME NEW out, NEW more, out \subseteq more, NEW n, NEW enclave, NEW big, enclave \subseteq big
  PROVE  /\ Covered(n, enclave, out) => Covered(n, big, more)
         /\ \A d : AllScanned(n, d, out) => AllScanned(n, d, more)
         /\ \A i, f, d : FoundBelow(i, f, n, d, out) => FoundBelow(i, f, n, d, more)
BY DEF Covered, AllScanned, FoundBelow

LEMMA ServerMoves ==
  ASSUME IInv, NEW s \in Store, NEW y, ServerTo(s, y)
  PROVE  IInv'
<1>1. /\ store' = [store EXCEPT ![s] = y] /\ StoreOK(y, db) /\ y \in Server
      /\ store[s].enclave \subseteq y.enclave /\ excused \subseteq excused'
      /\ Covered(y.count, y.enclave, excused')
      /\ db' = db /\ client' = client /\ faults' \in Nat
  BY DEF ServerTo, StoreOK
<1>2. store \in [Store -> Server]
  BY DEF IInv
<1>3. store' \in [Store -> Server] /\ store'[s] = y /\ \A r \in Store : r # s => store'[r] = store[r]
  BY <1>1, <1>2
<1>4. \A r \in Store : store[r].enclave \subseteq store'[r].enclave
  BY <1>1, <1>3
<1>5. ASSUME NEW r \in Store
      PROVE  StoreOK(store'[r], db) /\ Covered(store'[r].count, store'[r].enclave, excused')
  <2>1. CASE r = s
    BY <1>1, <1>3, <2>1
  <2>2. CASE r # s
    <3>1. StoreOK(store[r], db) /\ Covered(store[r].count, store[r].enclave, excused)
      BY DEF IInv
    <3> QED BY <1>1, <1>3, <2>2, <3>1, Excusing
  <2> QED BY <2>1, <2>2
<1>6. ClientOK(client, db, store', excused')
  <2>1. ClientTyped(client, db) /\ Polling(client, db, store, excused) /\ Complete(client, db, excused)
    BY DEF IInv, ClientOK
  <2>2. client.at \in Store
    BY <2>1 DEF ClientTyped, Client
  <2>3. Polling(client, db, store', excused')
    <3>1. AllScanned(client.count, db, excused')
      BY <1>1, <2>1, Excusing DEF Polling
    <3>2. ASSUME client.step \in {"round", "search"}
          PROVE  /\ AllScanned(client.new, db, excused')
                 /\ \A i \in DOMAIN client.found :
                       i \notin client.live => FoundBelow(i, client.found[i], client.new, db, excused')
      BY <1>1, <2>1, <3>2, Excusing DEF Polling
    <3>3. ASSUME client.step = "search"
          PROVE  Covered(client.answer, store'[client.at].enclave, excused')
      <4>1. Covered(client.answer, store[client.at].enclave, excused)
        BY <2>1, <3>3 DEF Polling
      <4>2. store[client.at].enclave \subseteq store'[client.at].enclave
        BY <1>4, <2>2
      <4> QED BY <1>1, <4>1, <4>2 DEF Covered
    <3> QED BY <3>1, <3>2, <3>3 DEF Polling
  <2>4. Complete(client, db, excused')
    BY <1>1, <2>1, Excusing DEF Complete
  <2> QED BY <2>1, <2>3, <2>4 DEF ClientOK
<1>7. DbOK(db)
  BY DEF IInv
<1> QED BY <1>1, <1>3, <1>5, <1>6, <1>7 DEF IInv

(* A step that leaves the enclave, the count and the excuses alone. *)
LEMMA ServerStays ==
  ASSUME IInv, NEW s \in Store, NEW y, store' = [store EXCEPT ![s] = y], StoreOK(y, db),
         store[s].enclave \subseteq y.enclave, y.count = store[s].count,
         db' = db, client' = client, excused' = excused, faults' \in Nat
  PROVE  IInv'
<1>1. Covered(store[s].count, store[s].enclave, excused)
  BY DEF IInv
<1>2. Covered(y.count, y.enclave, excused')
  BY <1>1, Excusing
<1>3. ServerTo(s, y)
  BY <1>2 DEF ServerTo
<1> QED BY <1>3, ServerMoves

LEMMA OfServer ==
  ASSUME IInv, NEW s \in Store
  PROVE  /\ DbOK(db) /\ StoreOK(store[s], db) /\ store[s] \in Server
         /\ store \in [Store -> Server] /\ faults \in Nat
         /\ Covered(store[s].count, store[s].enclave, excused)
BY DEF IInv, StoreOK

LEMMA PassKeeps ==
  ASSUME IInv, NEW s \in Store, LoadKeys(s) \/ NextPass(s)
  PROVE  IInv'
<1> DEFINE x == store[s]
<1>0. DbOK(db) /\ StoreOK(x, db) /\ x \in Server /\ store \in [Store -> Server] /\ faults \in Nat
  BY OfServer
<1>1. UNCHANGED <<db, client, excused, faults>>
  BY DEF LoadKeys, NextPass
<1>2. PICK keys : /\ keys \in Snapshot /\ BeginPass(s, keys)
                  /\ \A k \in DOMAIN keys : k \in Known(db) /\ keys[k].from = db.keys[k].start
  <2>1. CASE LoadKeys(s)
    BY <1>0, <2>1, SnapshotOK DEF LoadKeys
  <2>2. CASE NextPass(s)
    <3>1. x.keys \in Snapshot /\ KeysOK(x, db)
      BY <1>0 DEF Server, StoreOK
    <3> QED BY <2>2, <3>1 DEF NextPass, KeysOK
  <2> QED BY <2>1, <2>2
<1> DEFINE y == [x EXCEPT !.keys = keys, !.again = FALSE, !.todo = next_blocks(keys, x.fetched)]
<1>3. store' = [store EXCEPT ![s] = y]
  BY <1>0, <1>2 DEF BeginPass
<1>4. StoreOK(y, db) /\ y.enclave = x.enclave /\ y.count = x.count
  BY <1>0, <1>2, PassOK
<1> HIDE DEF y
<1> QED BY <1>0, <1>1, <1>3, <1>4, ServerStays

LEMMA FetchKeeps ==
  ASSUME IInv, NEW s \in Store, NEW k \in Key, FetchBlocks(s, k)
  PROVE  IInv'
<1> DEFINE x == store[s]
           rows == TxOutsFrom(k, NextBlock(x.keys, x.fetched, k))
           again == (x.again \/ Len(rows) = BatchSize)
           y == [x EXCEPT !.rows = rows, !.todo = x.todo \ {k}, !.again = again]
<1>0. DbOK(db) /\ StoreOK(x, db) /\ x \in Server /\ store \in [Store -> Server] /\ faults \in Nat
  BY OfServer
<1>1. UNCHANGED <<db, client, excused, faults>> /\ k \in x.todo
  BY DEF FetchBlocks
<1>2. again \in BOOLEAN
  OBVIOUS
<1>3. store' = [store EXCEPT ![s] = y]
  BY <1>0 DEF FetchBlocks
<1> HIDE DEF again
<1>4. StoreOK(y, db) /\ y.enclave = x.enclave /\ y.count = x.count
  BY ZenonT(40), <1>0, <1>1, <1>2, FetchOK
<1> HIDE DEF y
<1> QED BY <1>0, <1>1, <1>3, <1>4, ServerStays

LEMMA FailKeeps ==
  ASSUME IInv, NEW s \in Store, NEW k \in Key, FetchFails(s, k)
  PROVE  IInv'
<1> DEFINE x == store[s]
           todo == x.todo \ {k}
           y == [x EXCEPT !.todo = todo, !.again = TRUE]
<1>0. DbOK(db) /\ StoreOK(x, db) /\ x \in Server /\ store \in [Store -> Server] /\ faults \in Nat
  BY OfServer
<1>1. UNCHANGED <<db, client, excused>> /\ faults' \in Nat
  BY <1>0 DEF FetchFails, Fault
<1>2. store' = [store EXCEPT ![s] = y]
  BY <1>0 DEF FetchFails
<1>3. todo \in SUBSET Key /\ todo \subseteq x.todo
  BY <1>0 DEF Server
<1> HIDE DEF x, todo
<1>4. /\ y \in Server /\ SameFlow(x, y) /\ y.rows = x.rows /\ y.tick = x.tick /\ y.taken = x.taken
      /\ y.keys = x.keys /\ y.todo = todo /\ y.count = x.count /\ y.enclave = x.enclave
      /\ y.fetched = x.fetched /\ y.tracked = x.tracked
  BY <1>0, <1>3 DEF Server, SameFlow, Way
<1> HIDE DEF y
<1>5. StoreOK(y, db)
  <2>1. KeysOK(y, db) /\ (y.tick = "take" => y.taken = << >>)
    BY <1>0, <1>3, <1>4 DEF StoreOK, KeysOK
  <2> QED BY <1>0, <1>4, <2>1, IdleServer
<1> QED BY <1>0, <1>1, <1>2, <1>4, <1>5, ServerStays DEF x

LEMMA PushKeeps ==
  ASSUME IInv, NEW s \in Store, Push(s)
  PROVE  IInv'
<1> DEFINE x == store[s]
           row == Head(x.rows)
           y == [x EXCEPT !.rows = Tail(x.rows), !.queue = Append(x.queue, row),
                          !.fetched = [x.fetched EXCEPT ![row[1]] = row[2] + 1], !.owing = TRUE]
<1>0. DbOK(db) /\ StoreOK(x, db) /\ x \in Server /\ store \in [Store -> Server] /\ faults \in Nat
  BY OfServer
<1>1. UNCHANGED <<db, client, excused, faults>>
  BY DEF Push
<1>2. store' = [store EXCEPT ![s] = y]
  <2>1. store' = [store EXCEPT ![s].rows = Tail(@), ![s].queue = Append(@, row),
                               ![s].fetched[row[1]] = row[2] + 1, ![s].owing = TRUE]
    BY DEF Push
  <2> HIDE DEF row
  <2> QED BY <1>0, <2>1 DEF Server
<1>3. Pushed(x, y)
  BY DEF Push, Pushed
<1> HIDE DEF y
<1>4. StoreOK(y, db) /\ y.enclave = x.enclave /\ y.count = x.count
  BY <1>0, <1>3, PushOK
<1> QED BY <1>0, <1>1, <1>2, <1>4, ServerStays

LEMMA CountQueuedKeeps ==
  ASSUME IInv, NEW s \in Store, CountQueued(s)
  PROVE  IInv'
<1> DEFINE x == store[s]
           queued == x.queued + 1
           y == [x EXCEPT !.queued = queued, !.owing = FALSE]
<1>0. DbOK(db) /\ StoreOK(x, db) /\ x \in Server /\ store \in [Store -> Server] /\ faults \in Nat
  BY OfServer
<1>1. UNCHANGED <<db, client, excused, faults>>
  BY DEF CountQueued
<1>2. store' = [store EXCEPT ![s] = y]
  BY <1>0 DEF CountQueued
<1>3. queued \in Nat
  BY <1>0 DEF Server
<1> HIDE DEF x, queued
<1>4. /\ y \in Server /\ SameFlow(x, y) /\ y.rows = x.rows /\ y.tick = x.tick /\ y.taken = x.taken
      /\ y.keys = x.keys /\ y.todo = x.todo /\ y.count = x.count /\ y.enclave = x.enclave
      /\ y.fetched = x.fetched /\ y.tracked = x.tracked
  BY <1>0, <1>3 DEF Server, SameFlow, Way
<1> HIDE DEF y
<1>5. StoreOK(y, db)
  <2>1. KeysOK(y, db) /\ (y.tick = "take" => y.taken = << >>)
    BY <1>0, <1>4 DEF StoreOK, KeysOK
  <2> QED BY <1>0, <1>4, <2>1, IdleServer
<1> QED BY <1>0, <1>1, <1>2, <1>4, <1>5, ServerStays DEF x

LEMMA TakeKeeps ==
  ASSUME IInv, NEW s \in Store, TakeRecords(s)
  PROVE  IInv'
<1> DEFINE x == store[s]
           y == [x EXCEPT !.taken = x.queue, !.queue = << >>, !.queued = 0, !.tick = "add"]
<1>0. DbOK(db) /\ StoreOK(x, db) /\ x \in Server /\ store \in [Store -> Server] /\ faults \in Nat
  BY OfServer
<1>1. UNCHANGED <<db, client, excused, faults>> /\ x.tick = "take"
  BY DEF TakeRecords
<1>2. store' = [store EXCEPT ![s] = y]
  BY <1>0 DEF TakeRecords
<1>3. x.queue \in Seq(Row) /\ << >> \in Seq(Row) /\ x.taken = << >>
  BY <1>0, <1>1 DEF Server, StoreOK
<1> HIDE DEF x
<1>4. /\ y \in Server /\ y.rows = x.rows /\ y.tick = "add" /\ y.taken = x.queue /\ y.queue = << >>
      /\ y.keys = x.keys /\ y.todo = x.todo /\ y.count = x.count /\ y.enclave = x.enclave
      /\ y.fetched = x.fetched /\ y.tracked = x.tracked
  BY <1>0, <1>3 DEF Server
<1> HIDE DEF y
<1>5. SameFlow(x, y)
  <2>1. Way(y) = Way(x)
    BY <1>3, <1>4, ConcatEmptySeq DEF Way
  <2> QED BY <1>4, <2>1 DEF SameFlow
<1>6. StoreOK(y, db)
  <2>1. KeysOK(y, db) /\ (y.tick = "take" => y.taken = << >>)
    BY <1>0, <1>4 DEF StoreOK, KeysOK
  <2> QED BY <1>0, <1>4, <1>5, <2>1, IdleServer
<1> QED BY <1>0, <1>1, <1>2, <1>4, <1>6, ServerStays DEF x

LEMMA AddKeeps ==
  ASSUME IInv, NEW s \in Store, AddRecords(s)
  PROVE  IInv'
<1> DEFINE x == store[s]
           row == Head(x.taken)
           y == [x EXCEPT !.taken = Tail(x.taken), !.enclave = x.enclave \cup {row},
                          !.tracked = [x.tracked EXCEPT ![row[1]] = row[2] + 1]]
<1>0. DbOK(db) /\ StoreOK(x, db) /\ x \in Server /\ store \in [Store -> Server] /\ faults \in Nat
  BY OfServer
<1>1. UNCHANGED <<db, client, excused, faults>>
  BY DEF AddRecords
<1>2. store' = [store EXCEPT ![s] = y]
  <2>1. store' = [store EXCEPT ![s].taken = Tail(@), ![s].enclave = @ \cup {row},
                               ![s].tracked[row[1]] = row[2] + 1]
    BY DEF AddRecords
  <2> HIDE DEF row
  <2> QED BY <1>0, <2>1 DEF Server
<1>3. Added(x, y)
  BY DEF AddRecords, Added
<1> HIDE DEF y
<1>4. StoreOK(y, db) /\ x.enclave \subseteq y.enclave /\ y.count = x.count
  BY <1>0, <1>3, AddOK
<1> QED BY <1>0, <1>1, <1>2, <1>4, ServerStays

LEMMA EndTickKeeps ==
  ASSUME IInv, NEW s \in Store, EndTick(s)
  PROVE  IInv'
<1> DEFINE x == store[s]
           c == highest_fully_processed_block_count(x.count, x.keys, x.tracked)
           y == [x EXCEPT !.count = c, !.tick = "take"]
<1>0. /\ DbOK(db) /\ StoreOK(x, db) /\ x \in Server /\ store \in [Store -> Server] /\ faults \in Nat
      /\ Covered(x.count, x.enclave, excused)
  BY OfServer
<1>1. UNCHANGED <<db, client, faults>> /\ x.taken = << >>
  BY DEF EndTick
<1>2. excused' = excused \cup Excuses(x, c)
  BY DEF EndTick, Excuses
<1>3. store' = [store EXCEPT ![s] = y]
  BY <1>0 DEF EndTick
<1>4. c \in 0 .. MaxBlocks /\ Covered(c, x.enclave, excused')
  BY <1>0, <1>2, CountRises
<1> HIDE DEF x, c
<1>5. /\ y \in Server /\ SameFlow(x, y) /\ y.rows = x.rows /\ y.tick = "take" /\ y.taken = x.taken
      /\ y.keys = x.keys /\ y.todo = x.todo /\ y.count = c /\ y.enclave = x.enclave
      /\ y.fetched = x.fetched /\ y.tracked = x.tracked
  BY <1>0, <1>4 DEF Server, SameFlow, Way
<1> HIDE DEF y
<1>6. StoreOK(y, db)
  <2>1. KeysOK(y, db) /\ (y.tick = "take" => y.taken = << >>)
    BY <1>0, <1>1, <1>5 DEF StoreOK, KeysOK
  <2> QED BY <1>0, <1>5, <2>1, IdleServer
<1>7. ServerTo(s, y)
  BY <1>0, <1>1, <1>2, <1>3, <1>4, <1>5, <1>6 DEF ServerTo, x
<1> QED BY <1>7, ServerMoves

-----------------------------------------------------------------------------
(* The steps of the client *)

LEMMA CoveredScanned ==
  ASSUME NEW d, NEW x, StoreOK(x, d), NEW n, NEW out, Covered(n, x.enclave, out)
  PROVE  AllScanned(n, d, out)
<1> SUFFICES ASSUME NEW k \in Key, NEW i \in Nat, i < n, <<k, i>> \notin out
             PROVE  i \in Scanned(d, k)
  BY DEF AllScanned
<1>1. <<k, i>> \in x.enclave
  BY DEF Covered
<1>2. <<k, i>>[2] \in Scanned(d, <<k, i>>[1])
  BY <1>1 DEF StoreOK, FromDb
<1> QED BY <1>2

LEMMA FoundMore ==
  ASSUME NEW d, DbOK(d), NEW i, NEW f \in Nat, NEW g \in Nat, f <= g,
         NEW n \in Nat, NEW m \in Nat, m <= n, NEW out, FoundBelow(i, f, n, d, out)
  PROVE  FoundBelow(i, g, m, d, out)
<1> SUFFICES ASSUME NEW b \in d.blocks, b.index < m, <<b.key, b.index>> \notin out,
                    NEW row \in b.rows, row[1] = i
             PROVE  row[2] < g
  BY DEF FoundBelow
<1>1. b.index \in Nat /\ b.rows \in SUBSET (Nat \X Nat)
  BY KeysKnown DEF BlockRow
<1>2. row \in Nat \X Nat
  BY <1>1
<1>3. row[2] \in Nat
  BY <1>2
<1>4. b.index < n
  BY <1>1
<1>5. row[2] < f
  BY <1>4 DEF FoundBelow
<1> QED BY <1>3, <1>5

(* If an output is not in the enclave, neither are those after it; so all  *)
(* the outputs below a count that the enclave covers come before it.       *)
LEMMA MissMeansAll ==
  ASSUME IInv, NEW s \in Store, NEW i \in Nat, NEW n \in Nat, ~find_record(s, i, n),
         NEW a, Covered(a, store[s].enclave, excused)
  PROVE  FoundBelow(i, n, a, db, excused)
<1> SUFFICES ASSUME NEW b \in db.blocks, b.index < a, <<b.key, b.index>> \notin excused,
                    NEW row \in b.rows, row[1] = i, ~(row[2] < n)
             PROVE  FALSE
  BY DEF FoundBelow
<1> DEFINE m == row[2]
           k == b.key
<1>0. DbOK(db) /\ StoreOK(store[s], db) /\ Numbered(db)
  BY OfServer DEF DbOK
<1>1. /\ b.index \in Nat /\ k \in Known(db) /\ k \in Key /\ b.rows \in SUBSET (Nat \X Nat)
      /\ db.keys[k].start \in Nat
  BY <1>0, KeysKnown DEF BlockRow
<1>2. row = <<i, m>> /\ m \in Nat /\ n <= m
  <2>1. row \in Nat \X Nat
    BY <1>1
  <2>2. row = <<i, m>> /\ m \in Nat
    BY <2>1
  <2> QED BY <2>2
<1> HIDE DEF m
<1>3. Publishes(db, b, i, m) /\ b.iid = i /\ i \in 1 .. Len(db.invocations) /\ k = db.invocations[i].key
  BY <1>0, <1>2 DEF Numbered, Publishes
<1>4. <<k, b.index>> \in store[s].enclave
  BY <1>1 DEF Covered
<1>5. PICK x \in db.blocks : Publishes(db, x, i, n)
  <2>1. PICK c \in Nat : \A j \in Nat : (\E x \in db.blocks : Publishes(db, x, i, j)) <=> j < c
    BY <1>0, <1>3 DEF Numbered
  <2>2. m < c
    BY <1>2, <1>3, <2>1
  <2>3. n < c
    BY <1>2, <2>2
  <2> QED BY <2>1, <2>3
<1>6. x.index <= b.index
  BY <1>0, <1>2, <1>3, <1>5 DEF Numbered
<1>7. x.key = k /\ <<i, n>> \in x.rows
  <2>1. <<i, n>> \in x.rows
    BY <1>5 DEF Publishes
  <2>2. <<i, n>>[1] = x.iid
    BY <1>0, <2>1 DEF Numbered
  <2>3. x.iid = i
    BY <2>2
  <2> QED BY <1>0, <1>3, <2>1, <2>3 DEF Numbered
<1>8. x.index \in Nat /\ db.keys[k].start <= x.index
  BY <1>0, <1>7, KeysKnown DEF DbOK, Whole, BlockRow
<1>9. <<k, x.index>> \in store[s].enclave
  <2>1. Loaded(store[s], db, k)
    BY <1>0, <1>1 DEF StoreOK
  <2>2. store[s].tracked[k] \in Nat
    BY SMTT(30), <1>0, <1>1, Constants DEF StoreOK, Server
  <2>3. b.index \in db.keys[k].start .. store[s].tracked[k] - 1
    BY <1>1, <1>4, <2>1 DEF Loaded
  <2>4. x.index \in db.keys[k].start .. store[s].tracked[k] - 1
    BY <1>1, <1>6, <1>8, <2>2, <2>3
  <2> QED BY <1>8, <2>1, <2>4 DEF Loaded
<1> QED BY <1>7, <1>9 DEF find_record

LEMMA HitsEnd ==
  ASSUME NEW i, client.found[i] \in Nat, client.multiplier \in Nat
  PROVE  /\ Hits(i) \in Nat
         /\ Hits(i) # client.multiplier => ~find_record(client.at, i, client.found[i] + Hits(i))
<1> DEFINE f == client.found[i]
           N == client.multiplier
           S == {m \in 0 .. N : \A n \in f .. f + m - 1 : find_record(client.at, i, n)}
           h == Max(S)
<1>0. f \in Nat /\ N \in Nat
  OBVIOUS
<1>1. Hits(i) = h
  BY DEF Hits
<1>2. S \in SUBSET (0 .. N) /\ 0 \in S
  <2>1. f .. f + 0 - 1 = {}
    BY <1>0
  <2> QED BY <1>0, <2>1
<1>3. h \in S /\ \A m \in S : h >= m
  BY <1>0, <1>2, MaxIsFound
<1>4. h \in 0 .. N /\ \A n \in f .. f + h - 1 : find_record(client.at, i, n)
  BY <1>3
<1>5. ASSUME h # N, find_record(client.at, i, f + h) PROVE FALSE
  <2>1. h + 1 \in 0 .. N /\ ~(h >= h + 1)
    BY <1>0, <1>4, <1>5
  <2>2. \A n \in f .. f + (h + 1) - 1 : n = f + h \/ n \in f .. f + h - 1
    BY <1>0, <1>4
  <2>3. \A n \in f .. f + (h + 1) - 1 : find_record(client.at, i, n)
    BY <1>4, <1>5, <2>2
  <2>4. h + 1 \in S
    BY <2>1, <2>3
  <2> HIDE DEF S, h
  <2> QED BY <1>3, <2>1, <2>4
<1> HIDE DEF h
<1>6. h \in Nat
  BY <1>0, <1>4
<1> QED BY <1>1, <1>5, <1>6

(* What a step of the client must establish. *)
LEMMA ClientMoves ==
  ASSUME IInv, db' = db, store' = store, excused' = excused, faults' \in Nat,
         ClientOK(client', db, store, excused)
  PROVE  IInv'
BY DEF IInv

(* Between polls, and before an answer, only the count is relied on. *)
LEMMA IdleClient ==
  ASSUME NEW c, NEW d, NEW st, NEW out, ClientTyped(c, d), c.step \in {"poll", "first"},
         AllScanned(c.count, d, out), Complete(c, d, out)
  PROVE  ClientOK(c, d, st, out)
BY DEF ClientOK, Polling

LEMMA OfClient ==
  ASSUME IInv
  PROVE  /\ DbOK(db) /\ ClientTyped(client, db) /\ client \in Client /\ client.at \in Store
         /\ AllScanned(client.count, db, excused) /\ Complete(client, db, excused)
         /\ faults \in Nat /\ Polling(client, db, store, excused)
         /\ client.found \in Seq(Nat) /\ client.since \in Seq(Nat)
         /\ client.count \in 0 .. MaxBlocks /\ client.new \in 0 .. MaxBlocks
         /\ client.answer \in 0 .. MaxBlocks /\ client.multiplier \in Nat \ {0} /\ MaxBlocks \in Nat
BY Constants DEF IInv, ClientOK, ClientTyped, Polling, Client

(* A poll that is given up leaves what the client had. *)
LEMMA ReturnOK ==
  ASSUME IInv, NEW st
  PROVE  /\ ClientOK(Return, db, st, excused) /\ Return \in Client
         /\ Return.count = client.count /\ Return.found = client.found /\ Return.since = client.since
<1> DEFINE c == Return
<1>0. /\ ClientTyped(client, db) /\ client \in Client /\ AllScanned(client.count, db, excused)
      /\ Complete(client, db, excused) /\ MaxBlocks \in Nat /\ DbOK(db)
  BY OfClient
<1>1. /\ c \in Client /\ c.count = client.count /\ c.found = client.found /\ c.since = client.since
      /\ c.step = "poll" /\ c.heard = 0 /\ c.live = {}
  <2>1. 0 \in 0 .. MaxBlocks /\ 0 \in Nat /\ 1 \in Nat \ {0} /\ {} \in SUBSET Nat
    BY <1>0
  <2>2. c = [client EXCEPT !.step = "poll", !.heard = 0, !.new = 0, !.answer = 0,
                           !.live = {}, !.multiplier = 1]
    BY DEF Return
  <2> HIDE DEF c
  <2>3. c \in Client
    BY <1>0, <2>1, <2>2 DEF Client
  <2> QED BY <1>0, <2>2, <2>3 DEF Client
<1> HIDE DEF c
<1>2. Len(db.invocations) \in Nat
  BY <1>0, DbBounds
<1>3. ClientTyped(c, db)
  BY <1>0, <1>1, <1>2 DEF ClientTyped
<1>4. Complete(c, db, excused)
  BY <1>0, <1>1 DEF Complete
<1>5. ClientOK(c, db, st, excused)
  BY <1>0, <1>1, <1>3, <1>4, IdleClient
<1> QED BY <1>1, <1>5 DEF c

LEMMA RequestFailsKeeps == ASSUME IInv, RequestFails PROVE IInv'
<1>1. client' = Return /\ db' = db /\ store' = store /\ excused' = excused /\ faults' \in Nat
  BY OfClient DEF RequestFails, Fault
<1> QED BY <1>1, ReturnOK, ClientMoves

LEMMA ReadEventsKeeps == ASSUME IInv, NEW s \in Store, ReadEvents(s) PROVE IInv'
<1> DEFINE c == [client EXCEPT !.at = s, !.step = "first", !.heard = Len(db.invocations)]
<1>0. /\ ClientTyped(client, db) /\ client \in Client /\ AllScanned(client.count, db, excused)
      /\ Complete(client, db, excused) /\ faults \in Nat /\ DbOK(db)
  BY OfClient
<1>1. client' = c /\ UNCHANGED <<db, store, excused, faults>>
  BY DEF ReadEvents
<1>2. Len(db.invocations) \in Nat
  BY <1>0, DbBounds
<1>3. /\ c \in Client /\ c.count = client.count /\ c.found = client.found /\ c.since = client.since
      /\ c.step = "first" /\ c.heard = Len(db.invocations) /\ c.live = client.live
  BY <1>0, <1>2 DEF Client
<1> HIDE DEF c
<1>4. ClientTyped(c, db) /\ Complete(c, db, excused)
  BY <1>0, <1>2, <1>3 DEF ClientTyped, Complete
<1>5. ClientOK(c, db, store, excused)
  BY <1>0, <1>3, <1>4, IdleClient
<1> QED BY <1>0, <1>1, <1>5, ClientMoves

LEMMA ReadCountKeeps == ASSUME IInv, NEW s \in Store, ReadCount(s) PROVE IInv'
<1> DEFINE mult == Min({2 * client.multiplier, MaxRequest})
           n == store[s].count
           c == [client EXCEPT !.at = s, !.step = "search", !.answer = n, !.multiplier = mult]
<1>0. /\ ClientTyped(client, db) /\ client \in Client /\ AllScanned(client.count, db, excused)
      /\ Complete(client, db, excused) /\ faults \in Nat /\ DbOK(db)
      /\ Polling(client, db, store, excused) /\ client.multiplier \in Nat \ {0}
  BY OfClient
<1>1. client' = c /\ UNCHANGED <<db, store, excused, faults>> /\ client.step = "round"
  BY DEF ReadCount
<1>2. mult \in Nat \ {0}
  <2> DEFINE S == {2 * client.multiplier, MaxRequest}
  <2>1. MaxRequest \in Nat \ {0} /\ 2 * client.multiplier \in Nat \ {0}
    BY <1>0, Constants
  <2>2. S \in SUBSET Nat /\ S # {} /\ \A m \in S : m \in Nat \ {0}
    BY <2>1
  <2>3. Min(S) \in S
    BY <2>2, MinIsFound
  <2> HIDE DEF S
  <2>4. Min(S) \in Nat \ {0}
    BY <2>2, <2>3
  <2> QED BY <2>4 DEF S
<1>3. n \in 0 .. MaxBlocks /\ Covered(n, store[s].enclave, excused)
  BY OfServer DEF Server
<1> HIDE DEF mult, n
<1>4. /\ c \in Client /\ c.count = client.count /\ c.found = client.found /\ c.since = client.since
      /\ c.step = "search" /\ c.heard = client.heard /\ c.live = client.live
      /\ c.new = client.new /\ c.answer = n /\ c.at = s
  BY <1>0, <1>2, <1>3 DEF Client
<1> HIDE DEF c
<1>5. ClientTyped(c, db) /\ Complete(c, db, excused)
  BY <1>0, <1>4 DEF ClientTyped, Complete
<1>6. Polling(c, db, store, excused)
  BY <1>0, <1>1, <1>3, <1>4 DEF Polling
<1>7. ClientOK(c, db, store, excused)
  BY <1>5, <1>6 DEF ClientOK
<1> QED BY <1>0, <1>1, <1>7, ClientMoves

(* A poll that ends with all sequences found below its new count. *)
Done(c) ==
  /\ c \in Client /\ Len(c.since) = Len(c.found) /\ Len(c.found) <= Len(db.invocations)
  /\ AllScanned(c.count, db, excused) /\ AllScanned(c.new, db, excused)
  /\ Complete(c, db, excused)
  /\ \A i \in DOMAIN c.found : FoundBelow(i, c.found[i], c.new, db, excused)

LEMMA FinishOK ==
  ASSUME DbOK(db), NEW c, Done(c)
  PROVE  ClientOK(Finish(c), db, store, excused)
<1> DEFINE count == Max({c.count, c.new})
           e == Finish(c)
<1>0. /\ c \in Client /\ c.count \in 0 .. MaxBlocks /\ c.new \in 0 .. MaxBlocks /\ MaxBlocks \in Nat
  BY Constants DEF Done, Client
<1>1. count \in 0 .. MaxBlocks /\ (count = c.count \/ count = c.new)
  <2>1. Max({c.count, c.new}) = c.count \/ Max({c.count, c.new}) = c.new
    BY <1>0, MaxOfTwo
  <2> QED BY <1>0, <2>1
<1>2. /\ e \in Client /\ e.count = count /\ e.found = c.found /\ e.since = c.since
      /\ e.step = "poll" /\ e.heard = 0 /\ e.live = {}
  <2>1. 0 \in 0 .. MaxBlocks /\ 0 \in Nat /\ 1 \in Nat \ {0} /\ {} \in SUBSET Nat
    BY <1>0
  <2>2. e = [c EXCEPT !.step = "poll", !.heard = 0, !.new = 0, !.answer = 0,
                      !.live = {}, !.multiplier = 1, !.count = count]
    BY <1>0 DEF Finish, Client
  <2> HIDE DEF e, count
  <2>3. e \in Client
    BY <1>0, <1>1, <2>1, <2>2 DEF Client
  <2> QED BY <1>0, <2>2, <2>3 DEF Client
<1> HIDE DEF e, count
<1>3. Len(db.invocations) \in Nat
  BY DbBounds
<1>4. ClientTyped(e, db)
  BY <1>2, <1>3 DEF ClientTyped, Done
<1>5. AllScanned(e.count, db, excused)
  BY <1>1, <1>2 DEF Done
<1>6. Complete(e, db, excused)
  <2>1. CASE count = c.count
    BY <1>2, <2>1 DEF Complete, Done
  <2>2. CASE count = c.new
    BY <1>2, <2>2 DEF Complete, Done
  <2> QED BY <1>1, <2>1, <2>2
<1>7. ClientOK(e, db, store, excused)
  BY <1>2, <1>4, <1>5, <1>6, IdleClient
<1> QED BY <1>7 DEF e

(* A sequence with m copies of v behind it. *)
LEMMA Extended ==
  ASSUME NEW s \in Seq(Nat), NEW m \in Nat, NEW v \in Nat
  PROVE  LET e == s \o [i \in 1 .. m |-> v]
             L == Len(s)
         IN  /\ e \in Seq(Nat) /\ Len(e) = L + m
             /\ \A i \in 1 .. L : e[i] = s[i]
             /\ \A i \in 1 .. L + m : i \notin 1 .. L => e[i] = v
<1> DEFINE z == [i \in 1 .. m |-> v]
           L == Len(s)
           e == s \o z
<1>1. z \in Seq(Nat) /\ Len(z) = m /\ \A i \in 1 .. m : z[i] = v
  OBVIOUS
<1> HIDE DEF z
<1>2. /\ e \in Seq(Nat) /\ Len(e) = Len(s) + Len(z)
      /\ \A i \in 1 .. Len(s) + Len(z) : e[i] = IF i <= Len(s) THEN s[i] ELSE z[i - Len(s)]
  BY <1>1, ConcatProperties
<1>3. L \in Nat
  OBVIOUS
<1> HIDE DEF e, L
<1>4. \A i \in 1 .. L + m : e[i] = IF i <= L THEN s[i] ELSE z[i - L]
  BY <1>1, <1>2 DEF L
<1>5. /\ \A i \in 1 .. L : i \in 1 .. L + m /\ i <= L
      /\ \A i \in 1 .. L + m : i \notin 1 .. L => ~(i <= L) /\ i - L \in 1 .. m
  BY <1>3
<1>6. /\ \A i \in 1 .. L : e[i] = s[i]
      /\ \A i \in 1 .. L + m : i \notin 1 .. L => e[i] = v
  BY <1>1, <1>4, <1>5
<1> QED BY <1>1, <1>2, <1>6 DEF e, z, L

LEMMA HandleFirstKeeps == ASSUME IInv, HandleFirst PROVE IInv'
<1> DEFINE n == store[client.at].count
           learnt == Len(client.found) + 1 .. client.heard
           m == Cardinality(learnt)
           zeros == [i \in 1 .. m |-> 0]
           counts == [i \in 1 .. m |-> client.count]
           found == client.found \o zeros
           since == client.since \o counts
           known == [client EXCEPT !.found = found, !.since = since]
<1>0. /\ DbOK(db) /\ ClientTyped(client, db) /\ client \in Client /\ client.at \in Store
      /\ AllScanned(client.count, db, excused) /\ Complete(client, db, excused)
      /\ faults \in Nat /\ client.found \in Seq(Nat) /\ client.since \in Seq(Nat)
      /\ client.count \in 0 .. MaxBlocks /\ MaxBlocks \in Nat
  BY OfClient
<1>1. n \in 0 .. MaxBlocks /\ AllScanned(n, db, excused)
  BY <1>0, OfServer, CoveredScanned DEF Server
<1>2. /\ UNCHANGED <<db, store, excused, faults>>
      /\ client' = IF client.count >= n
                   THEN [Return EXCEPT !.found = known.found, !.since = known.since]
                   ELSE IF known.found = << >> THEN Finish([known EXCEPT !.new = n])
                   ELSE [known EXCEPT !.new = n, !.live = DOMAIN known.found,
                                      !.step = "round", !.heard = 0]
  <2>1. known = [client EXCEPT !.found = @ \o [i \in 1 .. Cardinality(learnt) |-> 0],
                               !.since = @ \o [i \in 1 .. Cardinality(learnt) |-> client.count]]
    BY <1>0 DEF Client
  <2> QED BY <2>1 DEF HandleFirst
<1> DEFINE L == Len(client.found)
<1>3. /\ L \in Nat /\ m \in Nat /\ Len(db.invocations) \in Nat /\ L + m <= Len(db.invocations)
      /\ Len(client.since) = L
  <2>1. /\ L \in Nat /\ client.heard \in Nat /\ client.heard <= Len(db.invocations)
        /\ L <= Len(db.invocations) /\ Len(db.invocations) \in Nat /\ Len(client.since) = L
    BY <1>0, DbBounds DEF ClientTyped, Client
  <2> HIDE DEF L
  <2>2. m = IF L + 1 > client.heard THEN 0 ELSE client.heard - (L + 1) + 1
    <3>1. L + 1 \in Int /\ client.heard \in Int
      BY <2>1
    <3>2. learnt = L + 1 .. client.heard
      BY DEF L
    <3> QED BY <3>1, <3>2, FS_Interval
  <2> HIDE DEF m
  <2> QED BY <2>1, <2>2
<1> HIDE DEF m
<1>4. /\ found \in Seq(Nat) /\ Len(found) = L + m /\ since \in Seq(Nat) /\ Len(since) = L + m
      /\ \A i \in 1 .. L : found[i] = client.found[i] /\ since[i] = client.since[i]
      /\ \A i \in 1 .. L + m : i \notin 1 .. L => found[i] = 0 /\ since[i] = client.count
  <2>0. client.count \in Nat /\ 0 \in Nat
    BY <1>0
  <2>1. /\ found \in Seq(Nat) /\ Len(found) = Len(client.found) + m
        /\ \A i \in 1 .. Len(client.found) : found[i] = client.found[i]
        /\ \A i \in 1 .. Len(client.found) + m : i \notin 1 .. Len(client.found) => found[i] = 0
    BY <1>0, <1>3, <2>0, Extended
  <2>2. /\ since \in Seq(Nat) /\ Len(since) = Len(client.since) + m
        /\ \A i \in 1 .. Len(client.since) : since[i] = client.since[i]
        /\ \A i \in 1 .. Len(client.since) + m :
              i \notin 1 .. Len(client.since) => since[i] = client.count
    BY <1>0, <1>3, <2>0, Extended
  <2>3. Len(client.since) = L /\ Len(client.found) = L
    BY <1>3
  <2> HIDE DEF found, since, L
  <2> QED BY <2>1, <2>2, <2>3
<1> HIDE DEF found, since
<1>5. known \in Client /\ known.found = found /\ known.since = since /\ known.count = client.count
  BY <1>0, <1>4 DEF Client
<1> HIDE DEF known, n
<1>6. \A c : c.found = found /\ c.since = since /\ c.count = client.count => Complete(c, db, excused)
  <2> SUFFICES ASSUME NEW c, c.found = found, c.since = since, c.count = client.count,
                      NEW i \in DOMAIN found, client.count > since[i]
               PROVE  FoundBelow(i, found[i], client.count, db, excused)
    BY DEF Complete
  <2>1. i \in 1 .. L + m
    BY <1>4
  <2>2. i \in 1 .. L
    BY <1>0, <1>4, <2>1
  <2>3. i \in DOMAIN client.found /\ found[i] = client.found[i] /\ since[i] = client.since[i]
    <3>1. DOMAIN client.found = 1 .. L
      BY <1>0
    <3> QED BY <1>4, <2>2, <3>1
  <2> QED BY <1>0, <2>3 DEF Complete
<1>7. ClientOK(client', db, store, excused)
  <2>1. CASE client.count >= n
    <3> DEFINE c == [Return EXCEPT !.found = found, !.since = since]
    <3>0. client' = c
      BY <1>2, <1>5, <2>1
    <3>1. Return \in Client /\ Return.count = client.count /\ ClientTyped(Return, db)
          /\ Return.step = "poll" /\ Return.heard = 0 /\ Return.live = {}
      <4>1. Return \in Client /\ Return.count = client.count /\ ClientTyped(Return, db)
        BY ReturnOK DEF ClientOK
      <4>2. Return.step = "poll" /\ Return.heard = 0 /\ Return.live = {}
        BY <1>0 DEF Return, Client
      <4> QED BY <4>1, <4>2
    <3>2. /\ c \in Client /\ c.count = client.count /\ c.found = found /\ c.since = since
          /\ c.step = "poll" /\ c.heard = 0 /\ c.live = {}
      BY <1>4, <3>1 DEF Client
    <3> HIDE DEF c
    <3>3. ClientTyped(c, db)
      BY <1>3, <1>4, <3>2 DEF ClientTyped
    <3> QED BY <1>0, <1>6, <3>0, <3>2, <3>3, IdleClient
  <2>2. CASE ~(client.count >= n) /\ known.found = << >>
    <3> DEFINE c == [known EXCEPT !.new = n]
    <3>1. /\ c \in Client /\ c.count = client.count /\ c.found = found /\ c.since = since
          /\ c.new = n
      BY <1>1, <1>5 DEF Client
    <3>2. client' = Finish(c)
      BY <1>2, <2>2
    <3> HIDE DEF c
    <3>3. DOMAIN c.found = {}
      <4>1. found = << >>
        BY <1>5, <2>2
      <4>2. c.found = << >>
        BY <3>1, <4>1
      <4> QED BY <4>2
    <3>4. Complete(c, db, excused)
      BY <1>6, <3>1
    <3>5. Done(c)
      BY <1>0, <1>1, <1>3, <1>4, <3>1, <3>3, <3>4 DEF Done
    <3> QED BY <1>0, <3>2, <3>5, FinishOK
  <2>3. CASE ~(client.count >= n) /\ known.found # << >>
    <3> DEFINE live == DOMAIN found
               c == [known EXCEPT !.new = n, !.live = live, !.step = "round", !.heard = 0]
    <3>0. client' = c
      BY <1>2, <1>5, <2>3
    <3>1. live \in SUBSET Nat
      BY <1>3, <1>4
    <3> HIDE DEF live
    <3>2. /\ c \in Client /\ c.count = client.count /\ c.found = found /\ c.since = since
          /\ c.new = n /\ c.live = live /\ c.step = "round" /\ c.heard = 0
      BY <1>1, <1>5, <3>1 DEF Client
    <3> HIDE DEF c
    <3>3. ClientTyped(c, db)
      BY <1>3, <1>4, <3>2 DEF ClientTyped, live
    <3>4. Polling(c, db, store, excused)
      BY <1>0, <1>1, <3>2 DEF Polling, live
    <3>5. Complete(c, db, excused)
      BY <1>6, <3>2
    <3> QED BY <3>0, <3>3, <3>4, <3>5 DEF ClientOK
  <2> QED BY <2>1, <2>2, <2>3
<1> QED BY <1>0, <1>2, <1>7, ClientMoves

LEMMA SearchKeeps == ASSUME IInv, Search PROVE IInv'
<1> DEFINE D == DOMAIN client.found
           hits == [i \in D |-> IF i \in client.live THEN Hits(i) ELSE 0]
           found == [i \in D |-> client.found[i] + hits[i]]
           live == {i \in client.live : hits[i] = client.multiplier}
           new == Min({client.new, client.answer})
           c == [client EXCEPT !.found = found, !.live = live, !.new = new]
<1>0. /\ DbOK(db) /\ ClientTyped(client, db) /\ client \in Client /\ client.at \in Store
      /\ AllScanned(client.count, db, excused) /\ Complete(client, db, excused)
      /\ faults \in Nat /\ client.found \in Seq(Nat) /\ Polling(client, db, store, excused)
      /\ client.new \in 0 .. MaxBlocks /\ client.answer \in 0 .. MaxBlocks
      /\ client.count \in Nat /\ client.multiplier \in Nat /\ MaxBlocks \in Nat
  BY OfClient
<1>1. /\ UNCHANGED <<db, store, excused, faults>> /\ client.step = "search"
      /\ client' = IF c.live = {} THEN Finish(c) ELSE [c EXCEPT !.step = "round", !.answer = 0]
  <2>1. c = [client EXCEPT !.found = [i \in DOMAIN @ |-> @[i] + hits[i]],
                           !.live = {i \in @ : hits[i] = client.multiplier},
                           !.new = Min({@, client.answer})]
    BY <1>0 DEF Client
  <2> HIDE DEF c
  <2>2. UNCHANGED <<db, store, excused, faults>> /\ client.step = "search" /\ HandleRound(hits)
    BY DEF Search
  <2> HIDE DEF hits
  <2> QED BY <2>1, <2>2 DEF HandleRound
<1>2. ASSUME NEW i \in D
      PROVE  /\ client.found[i] \in Nat /\ found[i] \in Nat /\ client.found[i] <= found[i]
             /\ i \in Nat
             /\ i \in client.live /\ hits[i] # client.multiplier =>
                    ~find_record(client.at, i, found[i])
  <2>1. client.found[i] \in Nat /\ i \in Nat
    BY <1>0
  <2>2. hits[i] = IF i \in client.live THEN Hits(i) ELSE 0
    OBVIOUS
  <2>3. found[i] = client.found[i] + hits[i]
    OBVIOUS
  <2> HIDE DEF hits, found
  <2>4. /\ Hits(i) \in Nat
        /\ Hits(i) # client.multiplier => ~find_record(client.at, i, client.found[i] + Hits(i))
    BY <1>0, <2>1, HitsEnd
  <2>5. hits[i] \in Nat
    BY <2>2, <2>4
  <2>6. found[i] \in Nat /\ client.found[i] <= found[i]
    BY <2>1, <2>3, <2>5
  <2> QED BY <2>1, <2>2, <2>3, <2>4, <2>6
<1>3. new \in 0 .. MaxBlocks /\ (new = client.new \/ new = client.answer)
      /\ new <= client.new /\ new <= client.answer
  <2> DEFINE S == {client.new, client.answer}
  <2>1. client.new \in Nat /\ client.answer \in Nat
    BY <1>0
  <2>2. Min(S) \in S /\ \A y \in S : Min(S) <= y
    <3>1. \E x \in S : \A y \in S : x <= y
      BY <2>1
    <3> QED BY <3>1 DEF Min
  <2> QED BY <1>0, <2>1, <2>2
<1>4. DOMAIN found = D /\ found \in Seq(Nat) /\ Len(found) = Len(client.found)
  <2>1. D = 1 .. Len(client.found) /\ Len(client.found) \in Nat
    BY <1>0
  <2>2. found \in [D -> Nat]
    <3> HIDE DEF hits
    <3>1. \A i \in D : found[i] \in Nat /\ found[i] = client.found[i] + hits[i]
      BY <1>2
    <3> QED BY <3>1
  <2> HIDE DEF found, D
  <2> QED BY <2>1, <2>2, SeqDef
<1>5. live \in SUBSET Nat /\ live \subseteq client.live /\ live \subseteq D
  BY <1>0 DEF ClientTyped, Client
<1>6. ASSUME NEW i \in D, i \notin live PROVE FoundBelow(i, found[i], new, db, excused)
  <2>0. /\ client.found[i] \in Nat /\ found[i] \in Nat /\ client.found[i] <= found[i] /\ i \in Nat
        /\ new \in Nat /\ client.new \in Nat /\ client.answer \in Nat
    <3>1. client.found[i] \in Nat /\ found[i] \in Nat /\ client.found[i] <= found[i] /\ i \in Nat
      <4> HIDE DEF found, hits, D, live
      <4> QED BY <1>2
    <3> HIDE DEF new, found
    <3> QED BY <1>0, <1>3, <3>1
  <2>1. CASE i \notin client.live
    <3>1. FoundBelow(i, client.found[i], client.new, db, excused)
      BY <1>0, <1>1, <2>1 DEF Polling
    <3> QED BY <1>0, <1>3, <2>0, <3>1, FoundMore
  <2>2. CASE i \in client.live
    <3>1. ~find_record(client.at, i, found[i])
      BY <1>2, <1>6, <2>2
    <3>2. Covered(client.answer, store[client.at].enclave, excused)
      BY <1>0, <1>1 DEF Polling
    <3>3. FoundBelow(i, found[i], client.answer, db, excused)
      BY <1>0, <2>0, <3>1, <3>2, MissMeansAll
    <3> QED BY <1>0, <1>3, <2>0, <3>3, FoundMore
  <2> QED BY <2>1, <2>2
<1>7. ASSUME NEW i \in D, client.count > client.since[i]
      PROVE  FoundBelow(i, found[i], client.count, db, excused)
  <2>1. client.found[i] \in Nat /\ found[i] \in Nat /\ client.found[i] <= found[i]
    BY <1>2
  <2>2. FoundBelow(i, client.found[i], client.count, db, excused)
    BY <1>0, <1>7 DEF Complete
  <2>3. client.count <= client.count
    BY <1>0
  <2> QED BY <1>0, <2>1, <2>2, <2>3, FoundMore
<1>8. AllScanned(new, db, excused)
  <2>1. AllScanned(client.new, db, excused)
    BY <1>0, <1>1 DEF Polling
  <2>2. client.new \in Nat /\ new \in Nat
    BY <1>0, <1>3
  <2>3. \A i \in Nat : i < new => i < client.new
    BY <1>3, <2>2
  <2> QED BY <2>1, <2>3 DEF AllScanned
<1> HIDE DEF found, live, new
<1>9. /\ c \in Client /\ c.count = client.count /\ c.found = found /\ c.since = client.since
      /\ c.live = live /\ c.new = new /\ c.heard = client.heard
  BY <1>0, <1>3, <1>4, <1>5 DEF Client
<1> HIDE DEF c
<1>10. /\ Len(client.since) = Len(found) /\ Len(found) <= Len(db.invocations)
       /\ client.heard <= Len(db.invocations)
  BY <1>0, <1>4 DEF ClientTyped
<1>11. ClientOK(client', db, store, excused)
  <2>1. CASE c.live = {}
    <3>1. Complete(c, db, excused)
      BY <1>4, <1>7, <1>9 DEF Complete
    <3>2. \A i \in DOMAIN c.found : FoundBelow(i, c.found[i], c.new, db, excused)
      BY <1>4, <1>6, <1>9, <2>1
    <3>3. Done(c)
      BY <1>0, <1>8, <1>9, <1>10, <3>1, <3>2 DEF Done
    <3>4. client' = Finish(c)
      BY <1>1, <2>1
    <3> QED BY <1>0, <3>3, <3>4, FinishOK
  <2>2. CASE c.live # {}
    <3> DEFINE e == [c EXCEPT !.step = "round", !.answer = 0]
    <3>1. client' = e
      BY <1>1, <2>2
    <3>2. 0 \in 0 .. MaxBlocks
      BY <1>0
    <3>3. /\ e \in Client /\ e.count = client.count /\ e.found = found /\ e.since = client.since
          /\ e.live = live /\ e.new = new /\ e.heard = client.heard /\ e.step = "round"
      BY <1>9, <3>2 DEF Client
    <3> HIDE DEF e
    <3>4. ClientTyped(e, db)
      BY <1>4, <1>5, <1>10, <3>3 DEF ClientTyped
    <3>5. Polling(e, db, store, excused)
      BY <1>0, <1>4, <1>6, <1>8, <3>3 DEF Polling
    <3>6. Complete(e, db, excused)
      BY <1>4, <1>7, <3>3 DEF Complete
    <3> QED BY <3>1, <3>4, <3>5, <3>6 DEF ClientOK
  <2> QED BY <2>1, <2>2
<1> QED BY <1>0, <1>1, <1>11, ClientMoves

-----------------------------------------------------------------------------
(* A restart, and the whole *)

LEMMA RestartKeeps == ASSUME IInv, NEW s \in Store, Restart(s) PROVE IInv'
<1>0. /\ DbOK(db) /\ store \in [Store -> Server] /\ faults \in Nat
      /\ \A r \in Store : StoreOK(store[r], db) /\ Covered(store[r].count, store[r].enclave, excused)
  BY DEF IInv
<1>1. /\ db' = db /\ excused' = excused /\ faults' \in Nat /\ store' = [store EXCEPT ![s] = NewStore]
      /\ client' = IF client.step \in {"first", "search"} /\ client.at = s THEN Return ELSE client
  BY <1>0 DEF Restart, Fault
<1>2. StoreOK(NewStore, db) /\ NewStore \in Server
  BY <1>0, NewStoreOK DEF StoreOK
<1>3. store' \in [Store -> Server] /\ store'[s] = NewStore /\ \A r \in Store : r # s => store'[r] = store[r]
  BY <1>0, <1>1, <1>2
<1>4. Covered(NewStore.count, NewStore.enclave, excused)
  <2>1. NewStore.count = 0
    BY DEF NewStore
  <2>2. \A i \in Nat : ~(i < 0)
    OBVIOUS
  <2> QED BY <2>1, <2>2 DEF Covered
<1>5. \A r \in Store : StoreOK(store'[r], db) /\ Covered(store'[r].count, store'[r].enclave, excused)
  BY <1>0, <1>2, <1>3, <1>4
<1>6. ClientOK(client', db, store', excused)
  <2>1. CASE client.step \in {"first", "search"} /\ client.at = s
    BY <1>1, <2>1, ReturnOK
  <2>2. CASE ~(client.step \in {"first", "search"} /\ client.at = s)
    <3>1. client' = client
      BY <1>1, <2>2
    <3>2. ClientOK(client, db, store, excused) /\ client.at \in Store
      BY OfClient DEF IInv
    <3>3. client.step = "search" => store'[client.at] = store[client.at]
      BY <1>3, <2>2, <3>2
    <3>4. Polling(client, db, store', excused)
      BY <3>2, <3>3 DEF ClientOK, Polling
    <3> QED BY <3>1, <3>2, <3>4 DEF ClientOK
  <2> QED BY <2>1, <2>2
<1> QED BY <1>0, <1>1, <1>3, <1>5, <1>6 DEF IInv

LEMMA InitGood == Init => IInv
<1> SUFFICES ASSUME Init PROVE IInv
  OBVIOUS
<1>0. /\ db = EmptyDb /\ store = [s \in Store |-> NewStore] /\ client = NewClient
      /\ excused = {} /\ faults = 0
  BY DEF Init
<1>1. /\ db \in Database /\ Known(db) = {} /\ db.blocks = {} /\ db.invocations = << >>
  BY <1>0, EmptyIsDatabase
<1>2. DbOK(db)
  <2>1. 0 \in 0 .. MaxKeys /\ 1 .. 0 = {} /\ Len(db.invocations) = 0
    BY <1>1, Constants
  <2>2. Bounded(db) /\ Whole(db) /\ Numbered(db)
    BY <1>1, <2>1 DEF Bounded, Whole, Numbered
  <2> QED BY <1>1, <2>2 DEF DbOK
<1>3. StoreOK(NewStore, db) /\ NewStore \in Server
  BY <1>2, NewStoreOK DEF StoreOK
<1>4. Covered(NewStore.count, NewStore.enclave, excused)
  <2>1. NewStore.count = 0
    BY DEF NewStore
  <2>2. \A i \in Nat : ~(i < 0)
    OBVIOUS
  <2> QED BY <2>1, <2>2 DEF Covered
<1>5. ClientOK(client, db, store, excused)
  <2>1. (CHOOSE s \in Store : TRUE) \in Store
    BY ViewAssumption
  <2>2. 0 \in 0 .. MaxBlocks /\ << >> \in Seq(Nat) /\ 0 \in Nat /\ 1 \in Nat \ {0} /\ {} \in SUBSET Nat
    BY Constants
  <2>3. client \in Client
    BY <1>0, <2>1, <2>2 DEF NewClient, Client
  <2>4. /\ client.count = 0 /\ client.found = << >> /\ client.since = << >>
        /\ client.step = "poll" /\ client.heard = 0 /\ client.live = {}
    BY <1>0 DEF NewClient
  <2>5. ClientTyped(client, db)
    BY <1>1, <2>3, <2>4 DEF ClientTyped
  <2>6. AllScanned(client.count, db, excused)
    <3>1. \A i \in Nat : ~(i < 0)
      OBVIOUS
    <3> QED BY <2>4, <3>1 DEF AllScanned
  <2>7. Complete(client, db, excused)
    BY <2>4 DEF Complete
  <2> QED BY <2>4, <2>5, <2>6, <2>7, IdleClient
<1> QED BY <1>0, <1>2, <1>3, <1>4, <1>5 DEF IInv

LEMMA StepKeeps == IInv /\ [Next]_vars => IInv'
<1> SUFFICES ASSUME IInv, [Next]_vars PROVE IInv'
  OBVIOUS
<1>1. CASE IngestStep
  BY <1>1, IngestKeeps
<1>2. CASE ClientStep
  BY <1>2, ReadEventsKeeps, ReadCountKeeps, HandleFirstKeeps, SearchKeeps DEF ClientStep
<1>3. CASE RequestFails
  BY <1>3, RequestFailsKeeps
<1>4. ASSUME NEW s \in Store, FetcherStep(s) PROVE IInv'
  BY <1>4, PassKeeps, PushKeeps, CountQueuedKeeps, FetchKeeps DEF FetcherStep
<1>5. ASSUME NEW s \in Store, PollerStep(s) PROVE IInv'
  BY <1>5, TakeKeeps, AddKeeps, EndTickKeeps DEF PollerStep
<1>6. ASSUME NEW s \in Store, Restart(s) PROVE IInv'
  BY <1>6, RestartKeeps
<1>7. ASSUME NEW s \in Store, NEW k \in Key, FetchFails(s, k) PROVE IInv'
  BY <1>7, FailKeeps
<1>8. CASE UNCHANGED vars
  BY <1>8 DEF vars, IInv
<1> QED BY <1>1, <1>2, <1>3, <1>4, <1>5, <1>6, <1>7, <1>8 DEF Next

(* In every behaviour of the view servers, whatever fails or restarts, the *)
(* inductive invariant holds.                                              *)
THEOREM ViewInvariance == Spec => []IInv
BY InitGood, StepKeeps, PTL DEF Spec

(* The servers, the client and the count of blocks stay within their types *)
(* (UserRngSet, DbFetcher and the poller's shared state).                  *)
THEOREM ViewTyping == Spec => []TypeOK
BY ViewInvariance, TypeFollows, PTL

(* Between the fetcher's and the poller's tracker no record is lost,       *)
(* doubled or swapped, so that the assertion of block_processed holds,     *)
(* whichever queries fail and however often a server restarts.             *)
THEOREM NothingLostOnTheWay == Spec => []PipelineWhole
BY ViewInvariance, PipelineFollows, PTL

(* highest_fully_processed_block_count is the count "for which we know we  *)
(* have loaded all required data", for what the loaded keys told.          *)
THEOREM CountIsComplete == Spec => []ViewComplete
BY ViewInvariance, ViewFollows, PTL

(* A client that raised its count has found its outputs below it in the    *)
(* sequences it knew, although ingest, the two threads of each server,     *)
(* restarts and the requests of a poll, each to any server, interleave --  *)
(* except for the excused blocks: those that a server counted with keys    *)
(* loaded before the one that covers them was announced.                   *)
THEOREM ClientMissesNothing == Spec => []ClientComplete
BY ViewInvariance, ClientFollows, PTL

=============================================================================
