-------------------------- MODULE RecoveryDbProofs --------------------------
(***************************************************************************)
(* Lemmas about the transactions of the recovery database, for databases   *)
(* of any size: each yields a database again, in which nothing that ingest *)
(* and view rely on is taken back (Grows), and changes what its name says. *)
(***************************************************************************)
EXTENDS RecoveryDb, SequenceTheorems, WellFoundedInduction, TLAPS

KeyRow == [start : Nat, expiry : Nat, retired : BOOLEAN, lost : BOOLEAN]
Invocation == [key : Nat, egress : Nat, start : Nat, decommissioned : BOOLEAN]
BlockRow == [key : Nat, iid : Nat, index : Nat, rows : SUBSET (Nat \X Nat)]
BlockRange == [from : Nat, to : Nat]
Report == [key : Nat, expiry : Nat]

KeyTable == UNION {[K -> KeyRow] : K \in SUBSET Nat}

Database ==
  [keys : KeyTable, invocations : Seq(Invocation), blocks : SUBSET BlockRow,
   missed : SUBSET BlockRange, report : SUBSET Report]

(* What no transaction takes back: keys with their start blocks, what was  *)
(* scanned, the announced keys of invocations, and the expiry of a key,    *)
(* which does not even grow while the key is retired.                      *)
Grows(d, e) ==
  /\ Known(d) \subseteq Known(e)
  /\ \A k \in Known(d) :
        /\ e.keys[k].start = d.keys[k].start
        /\ e.keys[k].expiry >= d.keys[k].expiry
        /\ d.keys[k].retired /\ e.keys[k].retired
              => e.keys[k].expiry = d.keys[k].expiry
  /\ d.blocks \subseteq e.blocks
  /\ Len(d.invocations) <= Len(e.invocations)
  /\ \A i \in 1 .. Len(d.invocations) :
        /\ e.invocations[i].key = d.invocations[i].key
        /\ e.invocations[i].egress = d.invocations[i].egress

(* The live invocations of d are live in e, but for iid. *)
FreesOnly(d, e, iid) ==
  \A i \in 1 .. Len(d.invocations) :
    i # iid => e.invocations[i].decommissioned = d.invocations[i].decommissioned

-----------------------------------------------------------------------------
(* Sets of numbers *)

(* A set of naturals with an upper bound has a maximum, which Max finds. *)
LEMMA MaxIsFound ==
  ASSUME NEW N \in Nat, NEW S \in SUBSET (0 .. N), S # {}
  PROVE  Max(S) \in S /\ \A y \in S : Max(S) >= y
<1> DEFINE T == {N - x : x \in S}
<1>1. T \subseteq Nat /\ T # {}
  <2>1. \A x \in S : N - x \in Nat
    OBVIOUS
  <2> QED BY <2>1
<1>2. PICK m \in T : \A y \in T : ~ (<<y, m>> \in OpToRel(<, Nat))
  BY <1>1, NatLessThanWellFounded, WFMin
<1>3. PICK x \in S : m = N - x
  BY <1>2
<1>4. ASSUME NEW y \in S PROVE x >= y
  <2>1. N - y \in T /\ N - y \in Nat /\ m \in Nat
    BY <1>1, <1>2
  <2>2. ~ (N - y < m)
    BY <1>2, <2>1 DEF OpToRel
  <2> QED BY <1>3, <2>2
<1> QED BY <1>4 DEF Max

LEMMA MinIsFound ==
  ASSUME NEW S \in SUBSET Nat, S # {}
  PROVE  Min(S) \in S
<1>1. PICK m \in S : \A y \in S : ~ (<<y, m>> \in OpToRel(<, Nat))
  BY NatLessThanWellFounded, WFMin
<1>2. ASSUME NEW y \in S PROVE m <= y
  <2>1. ~ (y < m)
    BY <1>1 DEF OpToRel
  <2> QED BY <2>1
<1> QED BY <1>2 DEF Min

LEMMA MaxOfTwo ==
  ASSUME NEW a \in Nat, NEW b \in Nat
  PROVE  /\ Max({a, b}) \in Nat /\ Max({a, b}) >= a /\ Max({a, b}) >= b
         /\ Max({a, b}) = a \/ Max({a, b}) = b
<1> DEFINE N == a + b
<1>1. {a, b} \in SUBSET (0 .. N) /\ N \in Nat /\ {a, b} # {}
  OBVIOUS
<1>2. Max({a, b}) \in {a, b} /\ \A y \in {a, b} : Max({a, b}) >= y
  BY <1>1, MaxIsFound
<1> QED BY <1>2

-----------------------------------------------------------------------------
(* Tables *)

LEMMA EmptyIsDatabase ==
  /\ EmptyDb \in Database
  /\ Known(EmptyDb) = {} /\ EmptyDb.blocks = {} /\ EmptyDb.report = {}
  /\ EmptyDb.invocations = << >>
BY DEF EmptyDb, Database, KeyTable, Known

LEMMA KeysOf ==
  ASSUME NEW d \in Database
  PROVE  /\ Known(d) \subseteq Nat /\ d.keys \in [Known(d) -> KeyRow]
         /\ \A k \in Known(d) : d.keys[k] \in KeyRow
BY DEF Database, KeyTable, Known

LEMMA ScannedOf ==
  ASSUME NEW d \in Database, NEW k, NEW i
  PROVE  /\ i \in Scanned(d, k) <=> \E b \in d.blocks : b.key = k /\ b.index = i
         /\ Scanned(d, k) \subseteq Nat
BY DEF Scanned, Database, BlockRow

(* A database with another table of keys. *)
LEMMA WithKeys ==
  ASSUME NEW d \in Database, NEW K \in SUBSET Nat, NEW keys \in [K -> KeyRow]
  PROVE  /\ [d EXCEPT !.keys = keys] \in Database
         /\ Known([d EXCEPT !.keys = keys]) = K
         /\ [d EXCEPT !.keys = keys].keys = keys
         /\ [d EXCEPT !.keys = keys].blocks = d.blocks
         /\ [d EXCEPT !.keys = keys].invocations = d.invocations
         /\ [d EXCEPT !.keys = keys].missed = d.missed
         /\ [d EXCEPT !.keys = keys].report = d.report
<1>1. keys \in KeyTable
  BY DEF KeyTable
<1>2. DOMAIN keys = K
  OBVIOUS
<1>3. [d EXCEPT !.keys = keys] \in Database
  BY <1>1 DEF Database
<1> QED BY <1>2, <1>3 DEF Database, Known

LEMMA GrowsRefl == ASSUME NEW d \in Database PROVE Grows(d, d)
<1>1. \A k \in Known(d) : d.keys[k].expiry \in Nat
  BY KeysOf DEF KeyRow
<1>2. Len(d.invocations) \in Nat
  BY DEF Database
<1> QED BY <1>1, <1>2 DEF Grows

(* Growth composes with a step that leaves the table of keys alone. *)
LEMMA GrowsTrans ==
  ASSUME NEW c \in Database, NEW d \in Database, NEW e \in Database,
         Grows(c, d), Grows(d, e), e.keys = d.keys
  PROVE  Grows(c, e)
<1>1. Known(e) = Known(d)
  BY DEF Known
<1>2. Len(c.invocations) \in Nat /\ Len(d.invocations) \in Nat /\ Len(e.invocations) \in Nat
  BY DEF Database
<1>3. 1 .. Len(c.invocations) \subseteq 1 .. Len(d.invocations)
  BY <1>2 DEF Grows
<1> QED BY <1>1, <1>2, <1>3 DEF Grows

-----------------------------------------------------------------------------
(* The transactions *)

(* A new key starts past all blocks of the ledger and of the database. *)
LEMMA NewKey ==
  ASSUME NEW d \in Database, NEW k \in Nat, k \notin Known(d), NEW count \in Nat,
         NEW N \in Nat, count <= N, \A b \in d.blocks : b.index < N
  PROVE  LET e == new_ingress_key(d, k, count)
         IN  /\ e \in Database /\ Grows(d, e)
             /\ Known(e) = Known(d) \cup {k}
             /\ \A j \in Known(d) : e.keys[j] = d.keys[j]
             /\ e.keys[k].start <= N /\ e.keys[k].start >= count
             /\ \A b \in d.blocks : b.index < e.keys[k].start
             /\ e.keys[k].expiry = 0 /\ ~e.keys[k].lost /\ ~e.keys[k].retired
             /\ e.blocks = d.blocks /\ e.invocations = d.invocations
             /\ e.report = d.report
<1> DEFINE known == HighestKnownCount(d)
           start == Max({count, known})
           row == [start |-> start, expiry |-> 0, retired |-> FALSE, lost |-> FALSE]
           keys == [j \in Known(d) \cup {k} |-> IF j \in Known(d) THEN d.keys[j] ELSE row]
           e == [d EXCEPT !.keys = keys]
<1>1. new_ingress_key(d, k, count) = e
  BY DEF new_ingress_key
<1>2. known \in 0 .. N /\ \A b \in d.blocks : b.index < known
  <2> DEFINE S == {0} \cup {b.index + 1 : b \in d.blocks}
  <2>1. \A b \in d.blocks : b.index \in Nat
    BY DEF Database, BlockRow
  <2>2. S \in SUBSET (0 .. N) /\ S # {}
    BY <2>1
  <2>3. Max(S) \in S /\ \A y \in S : Max(S) >= y
    BY <2>2, MaxIsFound
  <2>4. Max(S) \in 0 .. N
    BY <2>2, <2>3
  <2>5. \A b \in d.blocks : b.index + 1 \in S
    OBVIOUS
  <2> HIDE DEF S
  <2>6. \A b \in d.blocks : b.index < Max(S)
    BY <2>1, <2>3, <2>4, <2>5
  <2> QED BY <2>4, <2>6 DEF HighestKnownCount, S
<1> HIDE DEF known
<1>3. start \in 0 .. N /\ start >= count /\ start >= known
  BY <1>2, MaxOfTwo
<1> HIDE DEF start
<1>4. row \in KeyRow
  BY <1>3 DEF KeyRow
<1>5. row.start = start /\ row.expiry = 0 /\ ~row.lost /\ ~row.retired
  OBVIOUS
<1> HIDE DEF row
<1>6. keys \in [Known(d) \cup {k} -> KeyRow] /\ Known(d) \cup {k} \in SUBSET Nat
  BY <1>4, KeysOf
<1>7. keys[k] = row /\ \A j \in Known(d) : keys[j] = d.keys[j]
  OBVIOUS
<1> HIDE DEF keys
<1>8. /\ e \in Database /\ Known(e) = Known(d) \cup {k} /\ e.keys = keys
      /\ e.blocks = d.blocks /\ e.invocations = d.invocations /\ e.report = d.report
  BY <1>6, WithKeys
<1> HIDE DEF e
<1>9. Grows(d, e)
  BY <1>7, <1>8, GrowsRefl DEF Grows
<1>10. \A b \in d.blocks : b.index < start
  BY <1>2, <1>3 DEF Database, BlockRow
<1> QED BY <1>1, <1>3, <1>5, <1>7, <1>8, <1>9, <1>10

(* An update of one row of the table of keys. *)
UpdateKey(d, k, row, missed, report) ==
  [d EXCEPT !.keys = [d.keys EXCEPT ![k] = row], !.missed = missed, !.report = report]

KeepsRow(old, row) ==
  /\ row.start = old.start /\ row.expiry >= old.expiry
  /\ old.retired /\ row.retired => row.expiry = old.expiry

KeyUpdated(d, k, row, missed, report, e) ==
  /\ e \in Database /\ Grows(d, e) /\ Known(e) = Known(d)
  /\ e.keys[k] = row
  /\ \A j \in Known(d) : j # k => e.keys[j] = d.keys[j]
  /\ e.blocks = d.blocks /\ e.invocations = d.invocations
  /\ e.missed = missed /\ e.report = report

LEMMA WithRow ==
  ASSUME NEW d \in Database, NEW k \in Known(d), NEW row \in KeyRow,
         NEW missed \in SUBSET BlockRange, NEW report \in SUBSET Report,
         KeepsRow(d.keys[k], row)
  PROVE  KeyUpdated(d, k, row, missed, report, UpdateKey(d, k, row, missed, report))
<1> DEFINE e == UpdateKey(d, k, row, missed, report)
<1> DEFINE keys == [d.keys EXCEPT ![k] = row]
<1>1. Known(d) \in SUBSET Nat /\ d.keys \in [Known(d) -> KeyRow]
  BY KeysOf
<1>2. /\ keys \in [Known(d) -> KeyRow] /\ keys[k] = row
      /\ \A j \in Known(d) : j # k => keys[j] = d.keys[j]
  BY <1>1
<1>3. e = [d EXCEPT !.keys = keys, !.missed = missed, !.report = report]
  BY DEF UpdateKey
<1> HIDE DEF keys
<1>4. keys \in KeyTable /\ DOMAIN keys = Known(d)
  BY <1>1, <1>2 DEF KeyTable
<1>5. e \in Database
  BY <1>3, <1>4 DEF Database
<1>6. /\ e.keys = keys /\ e.blocks = d.blocks /\ e.invocations = d.invocations
      /\ e.missed = missed /\ e.report = report
  BY <1>3 DEF Database
<1>7. Known(e) = Known(d)
  BY <1>4, <1>6 DEF Known
<1> HIDE DEF e
<1>8. Grows(d, e)
  BY <1>2, <1>6, <1>7, GrowsRefl DEF Grows, KeepsRow
<1> QED BY <1>2, <1>5, <1>6, <1>7, <1>8 DEF e, KeyUpdated

(* A report raises the expiry of its key to its own, or changes nothing. *)
LEMMA SetReport ==
  ASSUME NEW d \in Database, NEW k \in Known(d), NEW expiry \in Nat,
         NEW N \in Nat, expiry <= N, d.keys[k].expiry <= N
  PROVE  LET e == set_report(d, k, expiry)
         IN  /\ e \in Database /\ Grows(d, e) /\ Known(e) = Known(d)
             /\ \A j \in Known(d) : j # k => e.keys[j] = d.keys[j]
             /\ e.keys[k].start = d.keys[k].start
             /\ e.keys[k].expiry <= N
             /\ e.keys[k].retired = d.keys[k].retired
             /\ e.keys[k].lost = d.keys[k].lost
             /\ e.blocks = d.blocks /\ e.invocations = d.invocations
             /\ \/ e.report = d.report
                \/ e.report = {[key |-> k, expiry |-> expiry]} /\ expiry <= e.keys[k].expiry
<1>0. d.keys[k] \in KeyRow /\ k \in Nat
  BY KeysOf
<1>1. CASE d.keys[k].retired
  BY <1>1, GrowsRefl DEF set_report
<1>2. CASE ~d.keys[k].retired
  <2> DEFINE new == Max({d.keys[k].expiry, expiry})
             row == [d.keys[k] EXCEPT !.expiry = new]
             rep == {[key |-> k, expiry |-> expiry]}
             e == set_report(d, k, expiry)
  <2>1. new \in Nat /\ new >= d.keys[k].expiry /\ new >= expiry /\ new <= N
    BY <1>0, MaxOfTwo DEF KeyRow
  <2>2. e = [d EXCEPT !.keys[k].expiry = new, !.report = rep]
    BY <1>2 DEF set_report
  <2>3. e = UpdateKey(d, k, row, d.missed, rep)
    BY <2>2 DEF Database, UpdateKey
  <2> HIDE DEF new, e
  <2>4. /\ row \in KeyRow /\ row.start = d.keys[k].start /\ row.expiry = new
        /\ row.retired = d.keys[k].retired /\ row.lost = d.keys[k].lost
    BY <1>0, <2>1 DEF KeyRow
  <2>5. rep \in SUBSET Report /\ d.missed \in SUBSET BlockRange
    BY <1>0 DEF Report, Database
  <2> HIDE DEF row, rep
  <2>6. /\ e \in Database /\ Grows(d, e) /\ Known(e) = Known(d) /\ e.keys[k] = row
        /\ \A j \in Known(d) : j # k => e.keys[j] = d.keys[j]
        /\ e.blocks = d.blocks /\ e.invocations = d.invocations /\ e.report = rep
    <3>1. row.expiry >= d.keys[k].expiry
      BY <2>1, <2>4
    <3>2. KeepsRow(d.keys[k], row)
      BY <1>2, <2>4, <3>1 DEF KeepsRow
    <3>3. KeyUpdated(d, k, row, d.missed, rep, e)
      BY <2>3, <2>4, <2>5, <3>2, WithRow
    <3> QED BY <3>3 DEF KeyUpdated
  <2> QED BY <2>1, <2>4, <2>6 DEF e, rep
<1> QED BY <1>0, <1>1, <1>2 DEF KeyRow

LEMMA RetireKey ==
  ASSUME NEW d \in Database, NEW k, NEW flag \in BOOLEAN
  PROVE  LET e == retire_ingress_key(d, k, flag)
         IN  /\ e \in Database /\ Grows(d, e) /\ Known(e) = Known(d)
             /\ \A j \in Known(d) : e.keys[j].start = d.keys[j].start
                                    /\ e.keys[j].expiry = d.keys[j].expiry
             /\ e.blocks = d.blocks /\ e.invocations = d.invocations
             /\ e.report = d.report
<1> DEFINE e == retire_ingress_key(d, k, flag)
<1>1. CASE k \notin Known(d)
  BY <1>1, GrowsRefl DEF retire_ingress_key
<1>2. CASE k \in Known(d)
  <2> DEFINE row == [d.keys[k] EXCEPT !.retired = flag]
  <2>0. d.keys[k] \in KeyRow
    BY <1>2, KeysOf
  <2>1. row \in KeyRow /\ row.start = d.keys[k].start /\ row.expiry = d.keys[k].expiry
        /\ row.expiry \in Nat
    BY <2>0 DEF KeyRow
  <2>2. e = UpdateKey(d, k, row, d.missed, d.report)
    BY <1>2 DEF retire_ingress_key, Database, UpdateKey
  <2>3. d.report \in SUBSET Report /\ d.missed \in SUBSET BlockRange
    BY DEF Database
  <2> HIDE DEF row, e
  <2>4. /\ e \in Database /\ Grows(d, e) /\ Known(e) = Known(d) /\ e.keys[k] = row
        /\ \A j \in Known(d) : j # k => e.keys[j] = d.keys[j]
        /\ e.blocks = d.blocks /\ e.invocations = d.invocations /\ e.report = d.report
    <3>1. row.expiry >= d.keys[k].expiry
      BY <2>1
    <3>2. KeepsRow(d.keys[k], row)
      BY <2>1, <3>1 DEF KeepsRow
    <3>3. KeyUpdated(d, k, row, d.missed, d.report, e)
      BY <1>2, <2>1, <2>2, <2>3, <3>2, WithRow
    <3> QED BY <3>3 DEF KeyUpdated
  <2> QED BY <2>1, <2>4 DEF e
<1> QED BY <1>1, <1>2

(* A transaction on the invocations alone. *)
OnlyInvocations(d, e) ==
  /\ e \in Database /\ Grows(d, e)
  /\ e.keys = d.keys /\ Known(e) = Known(d)
  /\ e.blocks = d.blocks /\ e.missed = d.missed /\ e.report = d.report

LEMMA WithInvocations ==
  ASSUME NEW d \in Database, NEW table \in Seq(Invocation),
         Len(d.invocations) <= Len(table),
         \A i \in 1 .. Len(d.invocations) :
            /\ table[i].key = d.invocations[i].key
            /\ table[i].egress = d.invocations[i].egress
  PROVE  /\ OnlyInvocations(d, [d EXCEPT !.invocations = table])
         /\ [d EXCEPT !.invocations = table].invocations = table
<1> DEFINE e == [d EXCEPT !.invocations = table]
<1>1. e \in Database
  BY DEF Database
<1>2. /\ e.keys = d.keys /\ e.invocations = table
      /\ e.blocks = d.blocks /\ e.missed = d.missed /\ e.report = d.report
  BY DEF Database
<1> HIDE DEF e
<1>3. Known(e) = Known(d)
  BY <1>2 DEF Known
<1>4. Grows(d, e)
  BY <1>2, <1>3, GrowsRefl DEF Grows
<1> QED BY <1>1, <1>2, <1>3, <1>4 DEF e, OnlyInvocations

LEMMA Decommission ==
  ASSUME NEW d \in Database, NEW iid \in 1 .. Len(d.invocations)
  PROVE  LET e == decommission_ingest_invocation(d, iid)
         IN  /\ OnlyInvocations(d, e) /\ FreesOnly(d, e, iid)
             /\ Len(e.invocations) = Len(d.invocations)
<1> DEFINE n == Len(d.invocations)
           row == [d.invocations[iid] EXCEPT !.decommissioned = TRUE]
           table == [d.invocations EXCEPT ![iid] = row]
           e == [d EXCEPT !.invocations = table]
<1>1. d.invocations \in Seq(Invocation) /\ n \in Nat
  BY DEF Database
<1>2. d.invocations[iid] \in Invocation
  BY <1>1
<1>3. /\ row \in Invocation /\ row.key = d.invocations[iid].key
      /\ row.egress = d.invocations[iid].egress
  BY <1>2 DEF Invocation
<1>4. decommission_ingest_invocation(d, iid) = e
  BY DEF decommission_ingest_invocation, Database
<1> HIDE DEF row
<1>5. /\ table \in Seq(Invocation) /\ Len(table) = n
      /\ \A i \in 1 .. n : table[i] = IF i = iid THEN row ELSE d.invocations[i]
  BY <1>1, <1>3
<1> HIDE DEF table
<1>6. \A i \in 1 .. n : /\ table[i].key = d.invocations[i].key
                         /\ table[i].egress = d.invocations[i].egress
  BY <1>3, <1>5
<1>7. OnlyInvocations(d, e) /\ e.invocations = table
  BY <1>1, <1>5, <1>6, WithInvocations
<1> HIDE DEF e
<1> QED BY <1>4, <1>5, <1>7 DEF FreesOnly

(* A new invocation gets the next id; prev, if there is one, is freed. *)
Invoked(d, prev, k, egress, e) ==
  LET n == Len(d.invocations)
  IN  /\ OnlyInvocations(d, e) /\ FreesOnly(d, e, prev)
      /\ n \in Nat /\ Len(e.invocations) = n + 1
      /\ e.invocations[n + 1].key = k
      /\ e.invocations[n + 1].egress = egress
      /\ ~e.invocations[n + 1].decommissioned

LEMMA NewInvocation ==
  ASSUME NEW d \in Database, NEW prev \in 0 .. Len(d.invocations),
         NEW k \in Nat, NEW egress \in Nat, NEW start \in Nat
  PROVE  Invoked(d, prev, k, egress, new_ingest_invocation(d, prev, k, egress, start))
<1> DEFINE c == IF prev = 0 THEN d ELSE decommission_ingest_invocation(d, prev)
           n == Len(d.invocations)
           row == [key |-> k, egress |-> egress, start |-> start, decommissioned |-> FALSE]
           table == Append(c.invocations, row)
           e == [c EXCEPT !.invocations = table]
<1>1. OnlyInvocations(d, c) /\ FreesOnly(d, c, prev) /\ Len(c.invocations) = n /\ n \in Nat
  <2>0. n \in Nat
    BY DEF Database
  <2>1. CASE prev = 0
    BY <2>0, <2>1, GrowsRefl DEF OnlyInvocations, FreesOnly
  <2>2. CASE prev # 0
    BY <2>0, <2>2, Decommission
  <2> QED BY <2>1, <2>2
<1>2. new_ingest_invocation(d, prev, k, egress, start) = e
  BY DEF new_ingest_invocation
<1> HIDE DEF c
<1>3. row \in Invocation /\ row.key = k /\ row.egress = egress /\ ~row.decommissioned
  BY DEF Invocation
<1> HIDE DEF row
<1>4. c \in Database /\ c.invocations \in Seq(Invocation)
  BY <1>1 DEF OnlyInvocations, Database
<1>5. /\ table \in Seq(Invocation) /\ Len(table) = n + 1 /\ table[n + 1] = row
      /\ \A i \in 1 .. n : table[i] = c.invocations[i]
  BY <1>1, <1>3, <1>4
<1> HIDE DEF table
<1>6. OnlyInvocations(c, e) /\ e.invocations = table
  BY SMTT(30), <1>1, <1>4, <1>5, WithInvocations
<1> HIDE DEF e
<1>7. OnlyInvocations(d, e)
  BY <1>1, <1>6, GrowsTrans DEF OnlyInvocations
<1>8. FreesOnly(d, e, prev)
  BY <1>1, <1>5, <1>6 DEF FreesOnly
<1> QED BY <1>1, <1>2, <1>3, <1>5, <1>6, <1>7, <1>8 DEF Invoked

(* A block is added under the key of its invocation. *)
LEMMA AddBlock ==
  ASSUME NEW d \in Database, NEW iid \in 1 .. Len(d.invocations),
         NEW index \in Nat, NEW rows \in SUBSET (Nat \X Nat)
  PROVE  LET e == add_block_data(d, iid, index, rows)
             k == d.invocations[iid].key
         IN  /\ e \in Database /\ Grows(d, e)
             /\ e.keys = d.keys /\ Known(e) = Known(d) /\ e.report = d.report
             /\ e.invocations = d.invocations /\ e.missed = d.missed
             /\ e.blocks = d.blocks \cup {[key |-> k, iid |-> iid, index |-> index, rows |-> rows]}
             /\ Scanned(e, k) = Scanned(d, k) \cup {index}
             /\ \A j : j # k => Scanned(e, j) = Scanned(d, j)
<1> DEFINE k == d.invocations[iid].key
           b == [key |-> k, iid |-> iid, index |-> index, rows |-> rows]
           e == [d EXCEPT !.blocks = d.blocks \cup {b}]
<1>1. add_block_data(d, iid, index, rows) = e
  BY DEF add_block_data
<1>2. d.invocations[iid] \in Invocation
  BY DEF Database
<1>3. k \in Nat /\ iid \in Nat
  BY <1>2 DEF Invocation, Database
<1>4. b \in BlockRow /\ b.key = k /\ b.index = index
  BY <1>3 DEF BlockRow
<1>5. e \in Database
  BY <1>4 DEF Database
<1> HIDE DEF b
<1>6. /\ e.keys = d.keys /\ e.invocations = d.invocations /\ e.missed = d.missed
      /\ e.report = d.report /\ e.blocks = d.blocks \cup {b}
  BY DEF Database
<1> HIDE DEF e, k
<1>7. Known(e) = Known(d)
  BY <1>6 DEF Known
<1>8. Grows(d, e)
  BY <1>6, <1>7, GrowsRefl DEF Grows
<1>9. Scanned(e, k) = Scanned(d, k) \cup {index} /\ \A j : j # k => Scanned(e, j) = Scanned(d, j)
  BY <1>4, <1>6 DEF Scanned
<1> QED BY <1>1, <1>5, <1>6, <1>7, <1>8, <1>9 DEF b, k

(* A key given up for lost keeps its start block and its expiry. *)
LEMMA ReportLostKey ==
  ASSUME NEW d \in Database, NEW k \in Known(d), NEW N \in Nat,
         d.keys[k].start <= N, \A b \in d.blocks : b.index < N
  PROVE  LET e == report_lost_ingress_key(d, k)
         IN  /\ e \in Database /\ Grows(d, e) /\ Known(e) = Known(d)
             /\ \A j \in Known(d) : e.keys[j].start = d.keys[j].start
                                    /\ e.keys[j].expiry = d.keys[j].expiry
             /\ e.blocks = d.blocks /\ e.invocations = d.invocations
             /\ e.report = d.report
<1> DEFINE range == MissedRange(d, k)
           e == report_lost_ingress_key(d, k)
<1>0. d.keys[k] \in KeyRow
  BY KeysOf
<1>1. CASE range \in d.missed
  BY <1>1, GrowsRefl DEF report_lost_ingress_key, LossFails
<1>2. CASE range \notin d.missed
  <2> DEFINE row == [d.keys[k] EXCEPT !.lost = TRUE]
             S == {d.keys[k].start} \cup {i + 1 : i \in Scanned(d, k)}
             missed == IF range.from < range.to THEN d.missed \cup {range} ELSE d.missed
  <2>1. S \in SUBSET (0 .. N) /\ S # {}
    <3>1. d.keys[k].start \in 0 .. N
      BY <1>0 DEF KeyRow
    <3>2. \A i \in Scanned(d, k) : i + 1 \in 0 .. N
      BY DEF Scanned, Database, BlockRow
    <3> QED BY <3>1, <3>2
  <2> HIDE DEF S
  <2>2. Max(S) \in Nat
    <3>1. Max(S) \in S
      BY <2>1, MaxIsFound
    <3>2. S \subseteq Nat
      BY <2>1
    <3> QED BY <3>1, <3>2
  <2>3. range \in BlockRange
    BY <1>0, <2>2 DEF MissedRange, BlockRange, KeyRow, S
  <2> HIDE DEF range
  <2>4. missed \in SUBSET BlockRange /\ d.report \in SUBSET Report
    BY <2>3 DEF Database
  <2>5. e = [d EXCEPT !.keys[k].lost = TRUE, !.missed = missed]
    BY <1>2 DEF report_lost_ingress_key, LossFails, range
  <2> HIDE DEF missed, e
  <2>6. e = UpdateKey(d, k, row, missed, d.report)
    BY <2>5 DEF UpdateKey, Database
  <2>7. row \in KeyRow /\ row.start = d.keys[k].start /\ row.expiry = d.keys[k].expiry
    BY <1>0 DEF KeyRow
  <2>8. KeepsRow(d.keys[k], row)
    BY <1>0, <2>7 DEF KeepsRow, KeyRow
  <2> HIDE DEF row
  <2>9. KeyUpdated(d, k, row, missed, d.report, e)
    BY <2>4, <2>6, <2>7, <2>8, WithRow
  <2> QED BY <2>7, <2>9 DEF KeyUpdated, e
<1> QED BY <1>1, <1>2

-----------------------------------------------------------------------------
(* What was scanned with a key *)

(* The blocks from the start of key k up to n are scanned with it. *)
Follows(d, k, n) ==
  /\ k \in Known(d) /\ d.keys[k].start <= n
  /\ \A i \in d.keys[k].start .. n - 1 : i \in Scanned(d, k)

(* Every block scanned with a key follows on the others. *)
Whole(d) ==
  \A b \in d.blocks :
    /\ b.key \in Known(d) /\ d.keys[b.key].start <= b.index
    /\ \A i \in d.keys[b.key].start .. b.index : i \in Scanned(d, b.key)

LEMMA FollowsGrows ==
  ASSUME NEW d \in Database, NEW e \in Database, Grows(d, e), NEW k, NEW n,
         Follows(d, k, n)
  PROVE  Follows(e, k, n)
<1>1. Scanned(d, k) \subseteq Scanned(e, k)
  BY DEF Grows, Scanned
<1> QED BY <1>1 DEF Follows, Grows

LEMMA WholeKept ==
  ASSUME NEW d \in Database, NEW e \in Database, Grows(d, e),
         e.blocks = d.blocks, Whole(d)
  PROVE  Whole(e)
<1>1. \A k : Scanned(e, k) = Scanned(d, k)
  BY DEF Scanned
<1> QED BY <1>1 DEF Whole, Grows

(* A key is resumed right after the blocks scanned with it. *)
LEMMA ResumesAfterScanned ==
  ASSUME NEW d \in Database, Whole(d), NEW k \in Known(d), NEW N \in Nat,
         d.keys[k].start <= N, \A b \in d.blocks : b.index < N
  PROVE  ResumeAt(d, k) \in Nat /\ ResumeAt(d, k) <= N /\ Follows(d, k, ResumeAt(d, k))
<1> DEFINE S == Scanned(d, k)
<1>0. d.keys[k].start \in Nat
  BY KeysOf DEF KeyRow
<1>1. CASE S = {}
  BY <1>0, <1>1 DEF ResumeAt, Follows
<1>2. CASE S # {}
  <2>1. S \in SUBSET (0 .. N) /\ \A i \in S : i < N
    BY DEF Scanned, Database, BlockRow
  <2>2. Max(S) \in S
    BY <1>2, <2>1, MaxIsFound
  <2>3. PICK b \in d.blocks : b.key = k /\ b.index = Max(S)
    BY <2>2 DEF Scanned
  <2> DEFINE m == Max(S)
  <2>4. ResumeAt(d, k) = m + 1
    BY <1>2 DEF ResumeAt
  <2>5. m \in Nat /\ m < N
    BY <2>1, <2>2
  <2>6. d.keys[k].start <= m /\ \A i \in d.keys[k].start .. m : i \in S
    BY <2>3 DEF Whole
  <2> HIDE DEF m
  <2> QED BY <1>0, <2>4, <2>5, <2>6 DEF Follows
<1> QED BY <1>1, <1>2

(* A block that follows on what is scanned keeps a key whole. *)
LEMMA WholeAdds ==
  ASSUME NEW d \in Database, Whole(d), NEW iid \in 1 .. Len(d.invocations),
         NEW index \in Nat, NEW rows \in SUBSET (Nat \X Nat),
         Follows(d, d.invocations[iid].key, index)
  PROVE  LET e == add_block_data(d, iid, index, rows)
         IN  Whole(e) /\ Follows(e, d.invocations[iid].key, index + 1)
<1> DEFINE k == d.invocations[iid].key
           b == [key |-> k, iid |-> iid, index |-> index, rows |-> rows]
           e == add_block_data(d, iid, index, rows)
<1>1. /\ e \in Database /\ Grows(d, e) /\ e.keys = d.keys /\ Known(e) = Known(d)
      /\ e.blocks = d.blocks \cup {b}
      /\ Scanned(e, k) = Scanned(d, k) \cup {index}
      /\ \A j : j # k => Scanned(e, j) = Scanned(d, j)
  BY AddBlock
<1>2. b.key = k /\ b.index = index
  OBVIOUS
<1>3. k \in Known(d) /\ d.keys[k].start \in Nat /\ d.keys[k].start <= index
  BY KeysOf DEF Follows, KeyRow
<1> HIDE DEF b, e
<1>4. \A i \in d.keys[k].start .. index : i \in Scanned(e, k)
  <2>1. \A i \in d.keys[k].start .. index : i = index \/ i \in d.keys[k].start .. index - 1
    BY <1>3
  <2> QED BY <1>1, <2>1 DEF Follows
<1>5. Follows(e, k, index + 1)
  <2>1. d.keys[k].start .. (index + 1) - 1 = d.keys[k].start .. index
    BY <1>3
  <2> QED BY <1>1, <1>3, <1>4, <2>1 DEF Follows
<1>6. Whole(e)
  <2> SUFFICES ASSUME NEW x \in e.blocks
               PROVE  /\ x.key \in Known(e) /\ e.keys[x.key].start <= x.index
                      /\ \A i \in e.keys[x.key].start .. x.index : i \in Scanned(e, x.key)
    BY DEF Whole
  <2>1. CASE x = b
    BY <1>1, <1>2, <1>3, <1>4, <2>1
  <2>2. CASE x \in d.blocks
    <3>1. Scanned(d, x.key) \subseteq Scanned(e, x.key)
      BY <1>1
    <3> QED BY <1>1, <2>2, <3>1 DEF Whole
  <2> QED BY <1>1, <2>1, <2>2
<1> QED BY <1>5, <1>6 DEF e

(* Blocks are scanned without a hole, so that what is left of a key are the blocks *)
(* past the last one scanned: once it is reported lost they are all announced.     *)
LEMMA LostIsAnnounced ==
  ASSUME NEW d \in Database, Whole(d), NEW k \in Known(d), NEW N \in Nat,
         d.keys[k].start <= N, \A b \in d.blocks : b.index < N,
         NEW e, e = report_lost_ingress_key(d, k)
  PROVE  /\ \A j \in Known(d) \ {k} : e.keys[j].lost = d.keys[j].lost
         /\ e.keys[k].lost => d.keys[k].lost \/ Owed(e, k) = {}
<1> DEFINE range == MissedRange(d, k)
           S == {d.keys[k].start} \cup {i + 1 : i \in Scanned(d, k)}
<1>0. d.keys \in [Known(d) -> KeyRow] /\ d.keys[k] \in KeyRow
  BY KeysOf
<1>1. CASE range \in d.missed
  BY <1>1 DEF report_lost_ingress_key, LossFails
<1>2. CASE range \notin d.missed
  <2>1. e = [d EXCEPT !.keys[k].lost = TRUE,
                      !.missed = IF range.from < range.to THEN d.missed \cup {range}
                                 ELSE d.missed]
    BY <1>2 DEF report_lost_ingress_key, LossFails
  <2>2. /\ range.from = Max(S) /\ range.to = d.keys[k].expiry
    BY DEF MissedRange
  <2> HIDE DEF range
  <2>3. e.keys = [d.keys EXCEPT ![k].lost = TRUE] /\ e.blocks = d.blocks
    BY <2>1 DEF Database
  <2>4. e.missed = IF range.from < range.to THEN d.missed \cup {range} ELSE d.missed
    BY <2>1 DEF Database
  <2>5. /\ e.keys[k].start = d.keys[k].start /\ e.keys[k].expiry = d.keys[k].expiry
        /\ \A j \in Known(d) \ {k} : e.keys[j].lost = d.keys[j].lost
    BY <1>0, <2>3 DEF KeyRow
  <2>6. Scanned(e, k) = Scanned(d, k)
    BY <2>3 DEF Scanned
  <2>7. S \in SUBSET (0 .. N) /\ S # {}
    <3>1. d.keys[k].start \in 0 .. N
      BY <1>0 DEF KeyRow
    <3>2. \A i \in Scanned(d, k) : i + 1 \in 0 .. N
      BY DEF Scanned, Database, BlockRow
    <3> QED BY <3>1, <3>2
  <2>8. Max(S) \in S /\ \A y \in S : Max(S) >= y
    BY <2>7, MaxIsFound
  <2>9. ASSUME NEW i \in d.keys[k].start .. d.keys[k].expiry - 1, i \notin Scanned(d, k)
        PROVE  range.from <= i /\ i < range.to
    <3>0. d.keys[k].start \in Nat /\ d.keys[k].expiry \in Nat
      BY <1>0 DEF KeyRow
    <3>1. i \in Nat /\ i < range.to /\ d.keys[k].start <= i
      BY <2>2, <2>9, <3>0
    <3>2. CASE Max(S) = d.keys[k].start
      BY <2>2, <3>1, <3>2
    <3>3. ASSUME NEW j \in Scanned(d, k), Max(S) = j + 1
          PROVE  Max(S) <= i
      <4>1. PICK b \in d.blocks : b.key = k /\ b.index = j
        BY DEF Scanned
      <4>2. j \in Nat
        BY ScannedOf
      <4>3. \A m \in d.keys[k].start .. j : m \in Scanned(d, k)
        BY <4>1 DEF Whole
      <4>4. ~(i <= j)
        BY <2>9, <3>0, <3>1, <4>2, <4>3
      <4> QED BY <3>1, <3>3, <4>2, <4>4
    <3>4. Max(S) <= i
      BY <2>8, <3>1, <3>2, <3>3
    <3> QED BY <2>2, <3>1, <3>4
  <2>10. Owed(e, k) = {}
    <3> SUFFICES ASSUME NEW i \in d.keys[k].start .. d.keys[k].expiry - 1,
                        i \notin Scanned(d, k)
                 PROVE  \E r \in e.missed : r.from <= i /\ i < r.to
      BY <2>5, <2>6 DEF Owed
    <3>1. range.from <= i /\ i < range.to
      BY <2>9
    <3>2. range.from < range.to
      <4>1. Max(S) \in Nat /\ d.keys[k].expiry \in Nat /\ d.keys[k].start \in Nat
        BY <1>0, <2>7, <2>8 DEF KeyRow
      <4> QED BY <2>2, <3>1, <4>1
    <3> QED BY <2>4, <3>1, <3>2
  <2> QED BY <2>5, <2>10
<1> QED BY <1>1, <1>2

(* The other transactions give no key up. *)
SameLost(d, e) == \A k \in Known(d) : e.keys[k].lost = d.keys[k].lost

LEMMA LostKept ==
  ASSUME NEW d \in Database
  PROVE  /\ \A k, x : SameLost(d, set_report(d, k, x))
         /\ \A k, x : SameLost(d, retire_ingress_key(d, k, x))
         /\ \A k, x : SameLost(d, new_ingress_key(d, k, x))
         /\ \A i : decommission_ingest_invocation(d, i).keys = d.keys
         /\ \A p, k, g, x : new_ingest_invocation(d, p, k, g, x).keys = d.keys
         /\ \A i, x, rows : add_block_data(d, i, x, rows).keys = d.keys
<1>0. d.keys \in [Known(d) -> KeyRow]
  BY KeysOf
<1>1. ASSUME NEW k, NEW x PROVE SameLost(d, set_report(d, k, x))
  <2>1. CASE d.keys[k].retired
    BY <2>1 DEF set_report, SameLost
  <2>2. CASE ~d.keys[k].retired
    <3>1. set_report(d, k, x).keys = [d.keys EXCEPT ![k].expiry = Max({d.keys[k].expiry, x})]
      BY <2>2 DEF set_report, Database
    <3> QED BY <1>0, <3>1 DEF SameLost, KeyRow
  <2> QED BY <2>1, <2>2
<1>2. ASSUME NEW k, NEW x PROVE SameLost(d, retire_ingress_key(d, k, x))
  <2>1. CASE k \notin Known(d)
    BY <2>1 DEF retire_ingress_key, SameLost
  <2>2. CASE k \in Known(d)
    <3>1. retire_ingress_key(d, k, x).keys = [d.keys EXCEPT ![k].retired = x]
      BY <2>2 DEF retire_ingress_key, Database
    <3> QED BY <1>0, <3>1 DEF SameLost, KeyRow
  <2> QED BY <2>1, <2>2
<1>3. ASSUME NEW k, NEW x PROVE SameLost(d, new_ingress_key(d, k, x))
  BY DEF new_ingress_key, SameLost, Database
<1>4. \A i : decommission_ingest_invocation(d, i).keys = d.keys
  BY DEF decommission_ingest_invocation, Database
<1>5. \A p, k, g, x : new_ingest_invocation(d, p, k, g, x).keys = d.keys
  BY DEF new_ingest_invocation, decommission_ingest_invocation, Database
<1>6. \A i, x, rows : add_block_data(d, i, x, rows).keys = d.keys
  BY DEF add_block_data, Database
<1> QED BY <1>1, <1>2, <1>3, <1>4, <1>5, <1>6

=============================================================================
