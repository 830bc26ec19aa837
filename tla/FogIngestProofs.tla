-------------------------- MODULE FogIngestProofs ---------------------------
(***************************************************************************)
(* Safety of the Fog ingest cluster and its overseer, for any number of    *)
(* servers, keys, blocks, chunks, faults and commands, and any expiry      *)
(* window.                                                                 *)
(*                                                                         *)
(* Good is the inductive invariant.  What an active server, a server about *)
(* to become active and a state file that says Active have in common is    *)
(* Follows: all blocks from the start of the key up to the next block are  *)
(* scanned with the key.  Another server may scan them meanwhile, but no   *)
(* transaction takes a scanned block back, so that Follows is never lost;  *)
(* it is what makes the block that a server commits extend the blocks of   *)
(* its key without a hole.                                                 *)
(***************************************************************************)
EXTENDS FogOverseer, RecoveryDbProofs

Mode == {"Idle", "Active"}
Activating == {"status", "backup", "start", "finish"}

TaskType == [peer : Server, key : Nat, peers : SUBSET Server,
             send_key : BOOLEAN, send_peers : BOOLEAN]

ServerType ==
  [up : BOOLEAN, mode : Mode, next : Nat, iid : Nat, peers : SUBSET Server,
   key : Nat, egress : Nat, rng : Nat,
   work : {"poll", "ingest", "save"}, chunk : Nat, rows : SUBSET (Nat \X Nat),
   call : Activating \cup {"none", "save"}, asked : SUBSET Server,
   tasks : SUBSET TaskType, checkup : SUBSET TaskType]

SummaryType == [mode : Mode, next : Nat, peers : SUBSET Server, key : Nat]

UsedType == [keys : Nat, egress : Nat, faults : Nat, commands : Nat]

Types(d, v, f, n, u) ==
  /\ d \in Database
  /\ v \in [Server -> ServerType]
  /\ f \in [Server -> SUBSET SummaryType]
  /\ n \in Nat /\ u \in UsedType

(* The tables, for a ledger of n blocks and keys 1..keys drawn so far. *)
DbOK(d, n, keys) ==
  /\ Known(d) \subseteq 1 .. keys
  /\ \A k \in Known(d) : d.keys[k].start <= n /\ d.keys[k].expiry <= n + Window
  /\ Whole(d)
  /\ \A b \in d.blocks : b.index < n /\ b.iid \in 1 .. Len(d.invocations)
  /\ \A r \in d.report : r.key \in Known(d) /\ r.expiry <= d.keys[r.key].expiry

(* The invocation iid is live and was announced for key k. *)
Holds(d, iid, k) ==
  /\ iid \in 1 .. Len(d.invocations)
  /\ d.invocations[iid].key = k /\ ~d.invocations[iid].decommissioned

ServerOK(x, d, n, keys) ==
  /\ x.next <= n /\ x.chunk <= NumChunks
  /\ x.up => x.key \in 1 .. keys
  /\ ~x.up => x.mode = "Idle" /\ x.call = "none" /\ x.work = "poll"
              /\ x.tasks = {} /\ x.checkup = {}
  /\ x.mode = "Idle" => x.iid = 0 /\ x.rng = 0 /\ x.work # "ingest"
  /\ x.call \in Activating => x.mode = "Idle"
  /\ x.mode = "Active" \/ x.call = "finish" => Follows(d, x.key, x.next)
  /\ x.iid # 0 => Holds(d, x.iid, x.key)
  /\ x.work = "ingest" => x.iid # 0 /\ x.next < n
  /\ x.work # "ingest" => x.rows = {} /\ x.chunk = 0
  /\ \A t \in x.tasks \cup x.checkup : t.key \in 1 .. keys

FileOK(f, d, n, keys) ==
  /\ f.next <= n /\ f.key \in 1 .. keys
  /\ f.mode = "Active" => Follows(d, f.key, f.next)

(* No two servers have the same invocation. *)
OwnInvocations(v) ==
  \A s, t \in Server : s # t /\ v[s].iid # 0 => v[s].iid # v[t].iid

Sound(d, v, f, n, u) ==
  /\ n \in 1 .. MaxBlocks /\ u.keys <= MaxKeys
  /\ DbOK(d, n, u.keys)
  /\ \A s \in Server : ServerOK(v[s], d, n, u.keys)
  /\ \A s \in Server : \A x \in f[s] : FileOK(x, d, n, u.keys)
  /\ OwnInvocations(v)

Good(d, v, f, n, u) == Types(d, v, f, n, u) /\ Sound(d, v, f, n, u)

(* The overseer works on servers of the cluster, and gives up known keys. *)
OvType == [enabled : BOOLEAN, step : {"poll", "lost", "new_keys", "activate", "wait"},
           seen : Seq([mode : Mode, key : Nat]), node : Nat, tries : Nat, key : Nat]

Watched(o, d) ==
  /\ o \in OvType
  /\ o.step \in {"new_keys", "activate", "wait"} => o.node \in Server
  /\ o.step = "lost" => o.key \in Known(d)

IInv == Good(db, srv, file, chain, used) /\ Watched(ov, db)

-----------------------------------------------------------------------------
(* What a step of one server leaves as it was *)

(* Transaction d -> e of a server whose invocation is iid, with u -> w. *)
EnvStep(d, e, iid, u, w) ==
  /\ e \in Database /\ Grows(d, e) /\ FreesOnly(d, e, iid)
  /\ w \in UsedType /\ u.keys <= w.keys /\ w.keys <= MaxKeys

LEMMA ServerKept ==
  ASSUME NEW d \in Database, NEW e \in Database, Grows(d, e),
         NEW iid, FreesOnly(d, e, iid),
         NEW n \in Nat, NEW m \in Nat, n <= m,
         NEW j \in Nat, NEW k \in Nat, j <= k,
         NEW x \in ServerType, x.iid # 0 => x.iid # iid, ServerOK(x, d, n, j)
  PROVE  ServerOK(x, e, m, k)
<1>1. x.mode = "Active" \/ x.call = "finish" => Follows(e, x.key, x.next)
  BY FollowsGrows DEF ServerOK
<1>2. x.iid # 0 => Holds(e, x.iid, x.key)
  <2>1. Len(d.invocations) \in Nat /\ Len(e.invocations) \in Nat
    BY DEF Database
  <2> QED BY <2>1 DEF ServerOK, Holds, Grows, FreesOnly
<1>3. x.next \in Nat /\ 1 .. j \subseteq 1 .. k
  BY DEF ServerType
<1> QED BY <1>1, <1>2, <1>3 DEF ServerOK

LEMMA FileKept ==
  ASSUME NEW d \in Database, NEW e \in Database, Grows(d, e),
         NEW n \in Nat, NEW m \in Nat, n <= m,
         NEW j \in Nat, NEW k \in Nat, j <= k,
         NEW x \in SummaryType, FileOK(x, d, n, j)
  PROVE  FileOK(x, e, m, k)
<1>1. x.mode = "Active" => Follows(e, x.key, x.next)
  BY FollowsGrows DEF FileOK
<1> QED BY <1>1 DEF FileOK, SummaryType

(* The state file a running server writes. *)
LEMMA SummaryOK ==
  ASSUME NEW d, NEW n, NEW keys, NEW x \in ServerType, x.up, ServerOK(x, d, n, keys)
  PROVE  /\ Summary(x) \in SUBSET SummaryType
         /\ \A y \in Summary(x) : FileOK(y, d, n, keys)
BY DEF Summary, SummaryType, ServerType, ServerOK, FileOK

LEMMA DbMoreKeys ==
  ASSUME NEW d \in Database, NEW n \in Nat, NEW m \in Nat, n <= m,
         NEW j \in Nat, NEW k \in Nat, j <= k, DbOK(d, n, j)
  PROVE  DbOK(d, m, k)
<1>1. /\ Window \in Nat /\ 1 .. j \subseteq 1 .. k
      /\ \A i \in Known(d) : d.keys[i].start \in Nat /\ d.keys[i].expiry \in Nat
      /\ \A b \in d.blocks : b.index \in Nat
  BY FogAssumption, KeysOf DEF KeyRow, Database, BlockRow
<1> QED BY <1>1 DEF DbOK

(* A transaction that leaves the blocks and the report alone. *)
LEMMA DbKept ==
  ASSUME NEW d \in Database, NEW e \in Database, NEW n \in Nat, NEW keys \in Nat,
         DbOK(d, n, keys), Grows(d, e), Known(e) = Known(d),
         e.blocks = d.blocks, e.report = d.report,
         \A k \in Known(d) : e.keys[k].expiry <= n + Window
  PROVE  DbOK(e, n, keys)
<1>1. Whole(e)
  BY WholeKept DEF DbOK
<1>2. /\ Window \in Nat
      /\ \A i \in Known(d) : d.keys[i].expiry \in Nat /\ e.keys[i].expiry \in Nat
      /\ Len(d.invocations) \in Nat /\ Len(e.invocations) \in Nat
  <2>1. Window \in Nat
    BY FogAssumption
  <2>2. \A i \in Known(d) : d.keys[i] \in KeyRow /\ e.keys[i] \in KeyRow
    BY KeysOf
  <2>3. \A i \in Known(d) : d.keys[i].expiry \in Nat /\ e.keys[i].expiry \in Nat
    BY <2>2 DEF KeyRow
  <2>4. d.invocations \in Seq(Invocation) /\ e.invocations \in Seq(Invocation)
    BY DEF Database
  <2> QED BY <2>1, <2>3, <2>4
<1>3. \A r \in d.report : r.expiry \in Nat
  BY DEF Database, Report
<1>4. \A b \in d.blocks : b.index < n /\ b.iid \in 1 .. Len(e.invocations)
  BY <1>2 DEF DbOK, Grows
<1>5. \A r \in d.report : r.key \in Known(d) /\ r.expiry <= e.keys[r.key].expiry
  BY SMTT(30), <1>2, <1>3 DEF DbOK, Grows
<1> QED BY <1>1, <1>2, <1>4, <1>5 DEF DbOK, Grows

LEMMA InvocationsKeepDb ==
  ASSUME NEW d \in Database, NEW e, NEW n \in Nat, NEW keys \in Nat,
         DbOK(d, n, keys), OnlyInvocations(d, e)
  PROVE  DbOK(e, n, keys)
<1>1. /\ e \in Database /\ Grows(d, e) /\ Known(e) = Known(d) /\ e.blocks = d.blocks
      /\ e.report = d.report /\ \A k \in Known(d) : e.keys[k].expiry <= n + Window
  BY DEF OnlyInvocations, DbOK
<1> QED BY <1>1, DbKept

(* A report of a known key keeps the published expiries in bounds. *)
LEMMA ReportedDb ==
  ASSUME NEW d \in Database, NEW e \in Database, NEW n \in Nat, NEW keys \in Nat,
         NEW k \in Known(d), NEW expiry \in Nat,
         DbOK(d, n, keys), Grows(d, e), Known(e) = Known(d), e.blocks = d.blocks,
         \A j \in Known(d) : j # k => e.keys[j] = d.keys[j],
         e.keys[k].expiry <= n + Window,
         \/ e.report = d.report
         \/ e.report = {[key |-> k, expiry |-> expiry]} /\ expiry <= e.keys[k].expiry
  PROVE  DbOK(e, n, keys)
<1>1. Whole(e)
  BY WholeKept DEF DbOK
<1>2. /\ Window \in Nat
      /\ \A i \in Known(d) : d.keys[i].expiry \in Nat /\ e.keys[i].expiry \in Nat
      /\ Len(d.invocations) \in Nat /\ Len(e.invocations) \in Nat
  <2>1. Window \in Nat
    BY FogAssumption
  <2>2. \A i \in Known(d) : d.keys[i] \in KeyRow /\ e.keys[i] \in KeyRow
    BY KeysOf
  <2>3. \A i \in Known(d) : d.keys[i].expiry \in Nat /\ e.keys[i].expiry \in Nat
    BY <2>2 DEF KeyRow
  <2>4. d.invocations \in Seq(Invocation) /\ e.invocations \in Seq(Invocation)
    BY DEF Database
  <2> QED BY <2>1, <2>3, <2>4
<1>3. \A r \in d.report : r.expiry \in Nat
  BY DEF Database, Report
<1>4. \A b \in d.blocks : b.index < n /\ b.iid \in 1 .. Len(e.invocations)
  BY <1>2 DEF DbOK, Grows
<1>5. \A r \in d.report : r.key \in Known(d) /\ r.expiry <= e.keys[r.key].expiry
  BY SMTT(30), <1>2, <1>3 DEF DbOK, Grows
<1>6. \A r \in e.report : r.key \in Known(d) /\ r.expiry <= e.keys[r.key].expiry
  <2>1. CASE e.report = d.report
    BY <1>5, <2>1
  <2>2. CASE e.report = {[key |-> k, expiry |-> expiry]} /\ expiry <= e.keys[k].expiry
    BY <2>2
  <2> QED BY <2>1, <2>2
<1>7. \A j \in Known(d) : e.keys[j].start <= n /\ e.keys[j].expiry <= n + Window
  BY DEF DbOK, Grows
<1> QED BY <1>1, <1>4, <1>6, <1>7 DEF DbOK

(* The step of one server. *)
LEMMA OneServer ==
  ASSUME NEW d, NEW v, NEW f, NEW n, NEW u, Good(d, v, f, n, u),
         NEW s \in Server, NEW x \in ServerType, NEW e, NEW w,
         EnvStep(d, e, v[s].iid, u, w), DbOK(e, n, w.keys),
         ServerOK(x, e, n, w.keys),
         x.iid \in {0, v[s].iid, Len(d.invocations) + 1}
  PROVE  /\ Good(e, [v EXCEPT ![s] = x], f, n, w)
         /\ x.up => Good(e, [v EXCEPT ![s] = x], [f EXCEPT ![s] = Summary(x)], n, w)
<1> DEFINE z == [v EXCEPT ![s] = x]
<1>1. /\ d \in Database /\ v \in [Server -> ServerType] /\ u \in UsedType
      /\ f \in [Server -> SUBSET SummaryType] /\ n \in Nat
  BY DEF Good, Types
<1>2. e \in Database /\ Grows(d, e) /\ w \in UsedType /\ u.keys \in Nat /\ w.keys \in Nat
      /\ u.keys <= w.keys
  BY <1>1 DEF EnvStep, UsedType
<1>3. z \in [Server -> ServerType] /\ z[s] = x /\ \A t \in Server : t # s => z[t] = v[t]
  BY <1>1
<1> HIDE DEF z
<1>4. \A t \in Server : t # s => ServerOK(v[t], e, n, w.keys)
  <2> SUFFICES ASSUME NEW t \in Server, t # s PROVE ServerOK(v[t], e, n, w.keys)
    OBVIOUS
  <2>1. v[t].iid # 0 => v[t].iid # v[s].iid
    BY DEF Good, Sound, OwnInvocations
  <2>2. ServerOK(v[t], d, n, u.keys) /\ v[t] \in ServerType
    BY <1>1 DEF Good, Sound
  <2> QED BY <1>1, <1>2, <2>1, <2>2, ServerKept DEF EnvStep
<1>5. \A t \in Server : ServerOK(z[t], e, n, w.keys)
  BY <1>3, <1>4
<1>6. OwnInvocations(z)
  <2>1. \A t \in Server : v[t].iid # 0 => v[t].iid \in 1 .. Len(d.invocations)
    BY DEF Good, Sound, ServerOK, Holds
  <2>2. Len(d.invocations) \in Nat
    BY <1>1 DEF Database
  <2>3. \A t \in Server : v[t].iid # Len(d.invocations) + 1
    BY <2>1, <2>2
  <2>4. \A t, r \in Server : t # r /\ v[t].iid # 0 => v[t].iid # v[r].iid
    BY DEF Good, Sound, OwnInvocations
  <2>5. \A t \in Server : t # s /\ x.iid # 0 => z[t].iid # x.iid
    BY <1>3, <2>3, <2>4
  <2> QED BY <1>3, <2>4, <2>5 DEF OwnInvocations
<1>7. \A t \in Server : \A y \in f[t] : FileOK(y, e, n, w.keys)
  <2> SUFFICES ASSUME NEW t \in Server, NEW y \in f[t] PROVE FileOK(y, e, n, w.keys)
    OBVIOUS
  <2>1. FileOK(y, d, n, u.keys) /\ y \in SummaryType
    BY <1>1 DEF Good, Sound
  <2> QED BY <1>1, <1>2, <2>1, FileKept
<1>8. Good(e, z, f, n, w)
  BY <1>1, <1>2, <1>3, <1>5, <1>6, <1>7 DEF Good, Sound, Types, EnvStep
<1>9. ASSUME x.up PROVE Good(e, z, [f EXCEPT ![s] = Summary(x)], n, w)
  <2> DEFINE g == [f EXCEPT ![s] = Summary(x)]
  <2>1. Summary(x) \in SUBSET SummaryType /\ \A y \in Summary(x) : FileOK(y, e, n, w.keys)
    BY <1>9, SummaryOK
  <2>2. g \in [Server -> SUBSET SummaryType]
    BY <1>1, <2>1
  <2>3. \A t \in Server : \A y \in g[t] : FileOK(y, e, n, w.keys)
    BY <1>1, <1>7, <2>1
  <2> HIDE DEF g
  <2>4. Good(e, z, g, n, w)
    BY <1>8, <2>2, <2>3 DEF Good, Sound, Types
  <2> QED BY <2>4 DEF g
<1> QED BY <1>8, <1>9 DEF z

(* The step of one server that leaves the database alone. *)
OwnStep(d, y, n, u, x, w) ==
  /\ x \in ServerType /\ x.iid \in {0, y.iid} /\ ServerOK(x, d, n, w.keys)
  /\ w \in UsedType /\ u.keys <= w.keys /\ w.keys <= MaxKeys

LEMMA ServerOnly ==
  ASSUME NEW d, NEW v, NEW f, NEW n, NEW u, Good(d, v, f, n, u),
         NEW s \in Server, NEW x, NEW w, OwnStep(d, v[s], n, u, x, w)
  PROVE  /\ Good(d, [v EXCEPT ![s] = x], f, n, w)
         /\ x.up => Good(d, [v EXCEPT ![s] = x], [f EXCEPT ![s] = Summary(x)], n, w)
<1>0. x \in ServerType /\ ServerOK(x, d, n, w.keys) /\ x.iid \in {0, v[s].iid}
  BY DEF OwnStep
<1>1. d \in Database /\ n \in Nat /\ u.keys \in Nat /\ w.keys \in Nat /\ u.keys <= w.keys
  BY DEF Good, Types, UsedType, OwnStep
<1>2. EnvStep(d, d, v[s].iid, u, w)
  BY <1>1, GrowsRefl DEF EnvStep, FreesOnly, OwnStep
<1>3. DbOK(d, n, u.keys)
  BY DEF Good, Sound
<1>4. DbOK(d, n, w.keys)
  BY <1>1, <1>3, DbMoreKeys
<1> QED BY <1>0, <1>2, <1>4, OneServer

-----------------------------------------------------------------------------
(* The worker *)

GoodNow == Good(db, srv, file, chain, used)

LEMMA FactsOf ==
  ASSUME GoodNow
  PROVE  /\ db \in Database /\ used \in UsedType /\ used.keys \in Nat /\ used.keys <= MaxKeys
         /\ chain \in Nat /\ srv \in [Server -> ServerType] /\ DbOK(db, chain, used.keys)
         /\ file \in [Server -> SUBSET SummaryType]
         /\ \A s \in Server : srv[s] \in ServerType /\ ServerOK(srv[s], db, chain, used.keys)
BY DEF GoodNow, Good, Types, Sound, UsedType

LEMMA NewEgress ==
  ASSUME GoodNow, NEW s \in Server, srv[s].up, srv[s].call \notin Activating,
         NEW from \in Database, Grows(db, from), from.invocations = db.invocations,
         DbOK(from, chain, used.keys), NEW step \in {"poll", "save"},
         new_egress_key(s, from, step), chain' = chain
  PROVE  GoodNow' /\ Grows(db, db')
<1> DEFINE y == srv[s]
           x == [y EXCEPT !.mode = "Idle", !.iid = 0, !.egress = used.egress + 1, !.rng = 0,
                          !.work = step, !.rows = {}, !.chunk = 0]
<1>0. /\ y \in ServerType /\ ServerOK(y, db, chain, used.keys) /\ srv \in [Server -> ServerType]
      /\ chain \in Nat /\ used \in UsedType /\ used.keys \in Nat /\ used.keys <= MaxKeys
      /\ db \in Database /\ NumChunks \in Nat /\ used.egress + 1 \in Nat
  BY FactsOf, FogAssumption DEF UsedType
<1>1. srv' = [srv EXCEPT ![s] = x]
  BY <1>0 DEF new_egress_key
<1>2. used' = [used EXCEPT !.egress = used.egress + 1] /\ file' = [file EXCEPT ![s] = Summary(x)]
  BY <1>0, <1>1 DEF new_egress_key
<1>3. used' \in UsedType /\ used'.keys = used.keys
  BY <1>0, <1>2 DEF UsedType
<1>4. x \in ServerType /\ x.iid = 0 /\ x.up
  BY <1>0 DEF ServerType, Mode
<1>5. ServerOK(x, db', chain, used.keys)
  BY <1>0, <1>4 DEF ServerOK, Activating
<1>6. EnvStep(db, db', y.iid, used, used') /\ DbOK(db', chain, used.keys)
  <2>1. CASE y.iid = 0
    <3>1. db' = from
      BY <2>1 DEF new_egress_key
    <3> QED BY <1>0, <1>3, <3>1 DEF EnvStep, FreesOnly
  <2>2. CASE y.iid # 0
    <3>1. db' = decommission_ingest_invocation(from, y.iid)
      BY <2>2 DEF new_egress_key
    <3>2. y.iid \in 1 .. Len(from.invocations)
      BY <1>0, <2>2 DEF ServerOK, Holds
    <3>3. OnlyInvocations(from, db') /\ FreesOnly(from, db', y.iid)
      BY <3>1, <3>2, Decommission
    <3>4. Grows(db, db') /\ db' \in Database
      BY <1>0, <3>3, GrowsTrans DEF OnlyInvocations
    <3>5. FreesOnly(db, db', y.iid)
      BY <3>3 DEF FreesOnly
    <3>6. DbOK(db', chain, used.keys)
      BY <1>0, <3>3, InvocationsKeepDb
    <3> QED BY <1>0, <1>3, <3>4, <3>5, <3>6 DEF EnvStep
  <2> QED BY <2>1, <2>2
<1> HIDE DEF x, y
<1>7. Good(db', [srv EXCEPT ![s] = x], [file EXCEPT ![s] = Summary(x)], chain, used')
  BY <1>3, <1>4, <1>5, <1>6, OneServer DEF GoodNow, y
<1> QED BY <1>1, <1>2, <1>6, <1>7 DEF GoodNow, EnvStep

LEMMA BeginBlockGood ==
  ASSUME GoodNow, NEW s \in Server, BeginBlock(s)
  PROVE  GoodNow' /\ Grows(db, db')
<1> DEFINE y == srv[s]
           k == srv[s].key
           expiry == srv[s].next + Window
           reported == set_report(db, k, expiry)
<1>0. /\ y \in ServerType /\ ServerOK(y, db, chain, used.keys) /\ srv \in [Server -> ServerType]
      /\ chain \in Nat /\ used \in UsedType /\ used.keys \in Nat /\ used.keys <= MaxKeys
      /\ db \in Database /\ Window \in Nat /\ DbOK(db, chain, used.keys)
  BY FactsOf, FogAssumption
<1>1. /\ y.up /\ y.call \notin Activating /\ y.work = "poll" /\ y.mode = "Active"
      /\ y.next < chain /\ chain' = chain
  BY DEF BeginBlock, Answers, Locked, Activating
<1>2. /\ k \in Known(db) /\ expiry \in Nat /\ expiry <= chain + Window /\ y.next \in Nat /\ k \in Nat
      /\ db.keys[k].expiry <= chain + Window /\ chain + Window \in Nat /\ y.egress \in Nat
  BY <1>0, <1>1 DEF ServerOK, Follows, DbOK, ServerType
<1> HIDE DEF expiry
<1>3. /\ reported \in Database /\ Grows(db, reported) /\ Known(reported) = Known(db)
      /\ reported.blocks = db.blocks /\ reported.invocations = db.invocations
      /\ \A j \in Known(db) : j # k => reported.keys[j] = db.keys[j]
      /\ reported.keys[k].expiry <= chain + Window
      /\ \/ reported.report = db.report
         \/ reported.report = {[key |-> k, expiry |-> expiry]} /\ expiry <= reported.keys[k].expiry
  BY <1>0, <1>2, SetReport
<1> HIDE DEF reported
<1>4. DbOK(reported, chain, used.keys)
  BY <1>0, <1>2, <1>3, ReportedDb
<1>5. CASE Expired(reported.keys[k], y.next)
  <2>1. new_egress_key(s, reported, "poll")
    BY <1>5 DEF BeginBlock, reported, expiry
  <2> QED BY <1>1, <1>3, <1>4, <2>1, NewEgress
<1>6. CASE ~Expired(reported.keys[k], y.next)
  <2> DEFINE x == [y EXCEPT !.iid = IF y.iid # 0 THEN y.iid ELSE Len(db'.invocations),
                            !.work = "ingest"]
  <2>1. /\ db' = IF y.iid # 0 THEN reported
                 ELSE new_ingest_invocation(reported, 0, k, y.egress, y.next)
        /\ srv' = [srv EXCEPT ![s] = x]
        /\ UNCHANGED <<file, used>>
    BY <1>0, <1>6 DEF BeginBlock, reported, expiry
  <2>2. /\ db' \in Database /\ Grows(db, db') /\ FreesOnly(db, db', 0) /\ DbOK(db', chain, used.keys)
        /\ x.iid \in {y.iid, Len(db.invocations) + 1} /\ x.iid # 0 /\ x.iid \in Nat
        /\ Holds(db', x.iid, k)
    <3>1. CASE y.iid # 0
      <4>1. x.iid = y.iid /\ y.iid \in Nat
        BY <1>0, <3>1 DEF ServerType
      <4>2. Holds(db, y.iid, k)
        BY <1>0, <3>1 DEF ServerOK
      <4> QED BY <1>3, <1>4, <2>1, <3>1, <4>1, <4>2 DEF Holds, FreesOnly
    <3>2. CASE y.iid = 0
      <4>1. /\ OnlyInvocations(reported, db') /\ FreesOnly(reported, db', 0)
            /\ Len(db.invocations) \in Nat /\ Len(db'.invocations) = Len(db.invocations) + 1
            /\ db'.invocations[Len(db.invocations) + 1].key = k
            /\ ~db'.invocations[Len(db.invocations) + 1].decommissioned
        <5>1. db' = new_ingest_invocation(reported, 0, k, y.egress, y.next)
          BY <2>1, <3>2
        <5>2. 0 \in 0 .. Len(reported.invocations)
          BY <1>3 DEF Database
        <5>3. Invoked(reported, 0, k, y.egress, db')
          BY <1>2, <1>3, <5>1, <5>2, NewInvocation
        <5> QED BY <1>3, <5>3 DEF Invoked
      <4>2. x.iid = Len(db.invocations) + 1
        BY <1>0, <3>2, <4>1 DEF ServerType
      <4>3. db' \in Database /\ Grows(db, db')
        BY <1>0, <1>3, <4>1, GrowsTrans DEF OnlyInvocations
      <4>4. DbOK(db', chain, used.keys)
        BY <1>0, <1>3, <1>4, <4>1, InvocationsKeepDb
      <4>5. FreesOnly(db, db', 0)
        BY <1>3, <4>1 DEF FreesOnly
      <4> QED BY <4>1, <4>2, <4>3, <4>4, <4>5 DEF Holds
    <3> QED BY <3>1, <3>2
  <2>3. x \in ServerType /\ x.key = k /\ x.next = y.next
    <3>1. Len(db'.invocations) \in Nat
      BY <2>2 DEF Database
    <3> QED BY <1>0, <2>2, <3>1 DEF ServerType
  <2>4. FreesOnly(db, db', y.iid)
    BY <2>2 DEF FreesOnly, Database
  <2>5. Follows(db', k, y.next)
    BY <1>0, <1>1, <2>2, FollowsGrows DEF ServerOK
  <2>6. ServerOK(x, db', chain, used.keys)
    BY <1>0, <1>1, <2>2, <2>3, <2>5 DEF ServerOK, Activating
  <2>7. EnvStep(db, db', y.iid, used, used)
    BY <1>0, <2>2, <2>4 DEF EnvStep
  <2> HIDE DEF x
  <2>8. Good(db', [srv EXCEPT ![s] = x], file, chain, used)
    BY <2>2, <2>3, <2>6, <2>7, OneServer DEF GoodNow
  <2> QED BY <1>1, <2>1, <2>2, <2>8 DEF GoodNow
<1> QED BY <1>5, <1>6

LEMMA IngestChunkGood ==
  ASSUME GoodNow, NEW s \in Server, IngestChunk(s)
  PROVE  GoodNow'
<1> DEFINE y == srv[s]
           x == [y EXCEPT !.rows = y.rows \cup {<<y.egress, y.rng>>},
                          !.rng = y.rng + 1, !.chunk = y.chunk + 1]
<1>0. /\ y \in ServerType /\ ServerOK(y, db, chain, used.keys) /\ srv \in [Server -> ServerType]
      /\ chain \in Nat /\ used \in UsedType /\ used.keys \in Nat /\ used.keys <= MaxKeys
      /\ NumChunks \in Nat
  BY FactsOf, FogAssumption
<1>1. /\ y.up /\ y.work = "ingest" /\ y.chunk < NumChunks
      /\ srv' = [srv EXCEPT ![s] = x] /\ UNCHANGED <<db, file, chain, used>>
  BY <1>0 DEF IngestChunk
<1>2. x \in ServerType
  <2>1. y.egress \in Nat /\ y.rng \in Nat /\ y.chunk \in Nat /\ y.rows \in SUBSET (Nat \X Nat)
    BY <1>0 DEF ServerType
  <2>2. /\ y.rng + 1 \in Nat /\ y.chunk + 1 \in Nat
        /\ y.rows \cup {<<y.egress, y.rng>>} \in SUBSET (Nat \X Nat)
    BY <2>1
  <2> QED BY <1>0, <2>2 DEF ServerType
<1>3. x.iid = y.iid /\ ServerOK(x, db, chain, used.keys)
  BY <1>0, <1>1 DEF ServerOK, ServerType, Mode
<1> HIDE DEF x
<1>4. Good(db, [srv EXCEPT ![s] = x], file, chain, used)
  <2>1. OwnStep(db, srv[s], chain, used, x, used)
    BY <1>0, <1>2, <1>3 DEF OwnStep
  <2> QED BY <2>1, ServerOnly DEF GoodNow
<1> QED BY <1>1, <1>4 DEF GoodNow

LEMMA OverflowGood ==
  ASSUME GoodNow, NEW s \in Server, Overflow(s)
  PROVE  GoodNow' /\ Grows(db, db')
<1> DEFINE y == srv[s]
           egress == used.egress + 1
           x == [y EXCEPT !.iid = Len(db'.invocations), !.egress = egress, !.rng = 1,
                          !.rows = y.rows \cup {<<egress, 0>>}, !.chunk = y.chunk + 1]
<1>0. /\ y \in ServerType /\ ServerOK(y, db, chain, used.keys) /\ srv \in [Server -> ServerType]
      /\ chain \in Nat /\ used \in UsedType /\ used.keys \in Nat /\ used.keys <= MaxKeys
      /\ NumChunks \in Nat /\ db \in Database /\ DbOK(db, chain, used.keys)
      /\ egress \in Nat /\ used.faults + 1 \in Nat
  BY FactsOf, FogAssumption DEF UsedType
<1>1. /\ y.up /\ y.work = "ingest" /\ y.chunk < NumChunks
      /\ db' = new_ingest_invocation(db, y.iid, y.key, egress, y.next)
      /\ srv' = [srv EXCEPT ![s] = x]
      /\ used' = [used EXCEPT !.egress = egress, !.faults = used.faults + 1]
      /\ UNCHANGED <<file, chain>>
  BY ZenonT(40), <1>0 DEF Overflow
<1> HIDE DEF egress
<1>2. /\ y.iid # 0 /\ y.iid \in 0 .. Len(db.invocations) /\ y.key \in Nat /\ y.next \in Nat
      /\ y.rng \in Nat /\ y.chunk \in Nat /\ y.rows \in SUBSET (Nat \X Nat)
      /\ y.mode = "Active" /\ Follows(db, y.key, y.next)
  BY <1>0, <1>1 DEF ServerOK, Holds, ServerType, Mode
<1>3. Invoked(db, y.iid, y.key, egress, db')
  BY <1>0, <1>1, <1>2, NewInvocation
<1>4. used' \in UsedType /\ used'.keys = used.keys
  BY <1>0, <1>1 DEF UsedType
<1>5. /\ EnvStep(db, db', y.iid, used, used') /\ DbOK(db', chain, used.keys)
      /\ db' \in Database /\ Grows(db, db')
  <2>1. OnlyInvocations(db, db') /\ FreesOnly(db, db', y.iid)
    BY <1>3 DEF Invoked
  <2> QED BY <1>0, <1>4, <2>1, InvocationsKeepDb DEF EnvStep, OnlyInvocations
<1>6. x \in ServerType /\ x.iid = Len(db.invocations) + 1 /\ x.key = y.key /\ x.next = y.next
  <2>1. y.chunk + 1 \in Nat
    BY <1>2
  <2>2. y.rows \cup {<<egress, 0>>} \in SUBSET (Nat \X Nat)
    BY <1>0, <1>2
  <2>3. Len(db'.invocations) \in Nat /\ Len(db'.invocations) = Len(db.invocations) + 1
    BY <1>3 DEF Invoked
  <2> QED BY <1>0, <2>1, <2>2, <2>3 DEF ServerType
<1>7. Holds(db', x.iid, x.key) /\ x.iid # 0
  BY <1>3, <1>6 DEF Holds, Invoked
<1>8. Follows(db', y.key, y.next)
  BY <1>0, <1>2, <1>5, FollowsGrows
<1>9. ServerOK(x, db', chain, used.keys)
  BY SMTT(30), <1>0, <1>1, <1>2, <1>6, <1>7, <1>8 DEF ServerOK
<1> HIDE DEF x
<1>10. Good(db', [srv EXCEPT ![s] = x], file, chain, used')
  BY <1>4, <1>5, <1>6, <1>9, OneServer DEF GoodNow
<1> QED BY <1>1, <1>5, <1>10 DEF GoodNow

LEMMA IngestFailsGood ==
  ASSUME GoodNow, NEW s \in Server, IngestFails(s)
  PROVE  GoodNow'
<1> DEFINE y == srv[s]
<1>0. /\ y \in ServerType /\ ServerOK(y, db, chain, used.keys) /\ srv \in [Server -> ServerType]
      /\ chain \in Nat /\ used \in UsedType /\ used.keys \in Nat /\ used.keys <= MaxKeys
      /\ NumChunks \in Nat /\ used.egress + 1 \in Nat /\ used.faults + 1 \in Nat
      /\ y.egress \in Nat /\ y.rng \in Nat
  BY FactsOf, FogAssumption DEF UsedType, ServerType
<1>1. PICK rotated \in BOOLEAN :
        /\ srv' = [srv EXCEPT ![s].egress = IF rotated THEN used.egress + 1 ELSE @,
                              ![s].rng = IF rotated THEN 0 ELSE @,
                              ![s].work = "poll", ![s].rows = {}, ![s].chunk = 0]
        /\ used' = [used EXCEPT !.egress = IF rotated THEN @ + 1 ELSE @, !.faults = @ + 1]
  BY DEF IngestFails
<1> DEFINE egress == IF rotated THEN used.egress + 1 ELSE y.egress
           rng == IF rotated THEN 0 ELSE y.rng
           x == [y EXCEPT !.egress = egress, !.rng = rng, !.work = "poll",
                          !.rows = {}, !.chunk = 0]
<1>2. /\ y.up /\ y.work = "ingest" /\ srv' = [srv EXCEPT ![s] = x]
      /\ UNCHANGED <<db, file, chain>> /\ egress \in Nat /\ rng \in Nat
  BY <1>0, <1>1 DEF IngestFails
<1>3. used' \in UsedType /\ used'.keys = used.keys
  BY <1>0, <1>1 DEF UsedType
<1> HIDE DEF egress, rng
<1>4. x \in ServerType /\ x.iid = y.iid
  BY <1>0, <1>2 DEF ServerType
<1>5. ServerOK(x, db, chain, used.keys)
  BY <1>0, <1>2 DEF ServerOK, ServerType, Mode
<1> HIDE DEF x
<1>6. Good(db, [srv EXCEPT ![s] = x], file, chain, used')
  <2>1. OwnStep(db, srv[s], chain, used, x, used')
    BY <1>0, <1>3, <1>4, <1>5 DEF OwnStep
  <2> QED BY <2>1, ServerOnly DEF GoodNow
<1> QED BY <1>2, <1>6 DEF GoodNow

LEMMA CommitBlockGood ==
  ASSUME GoodNow, NEW s \in Server, CommitBlock(s)
  PROVE  GoodNow' /\ Grows(db, db')
<1> DEFINE y == srv[s]
<1>0. /\ y \in ServerType /\ ServerOK(y, db, chain, used.keys) /\ srv \in [Server -> ServerType]
      /\ chain \in Nat /\ used \in UsedType /\ used.keys \in Nat /\ used.keys <= MaxKeys
      /\ NumChunks \in Nat /\ db \in Database /\ DbOK(db, chain, used.keys)
  BY FactsOf, FogAssumption
<1>1. /\ y.up /\ y.call \notin Activating /\ y.work = "ingest" /\ chain' = chain
  BY DEF CommitBlock, Answers, Locked, Activating
<1>2. /\ y.iid # 0 /\ y.iid \in 1 .. Len(db.invocations) /\ y.next \in Nat
      /\ y.rows \in SUBSET (Nat \X Nat) /\ y.mode = "Active" /\ y.next < chain
      /\ Follows(db, y.key, y.next) /\ Holds(db, y.iid, y.key)
      /\ db.invocations[y.iid].key = y.key
  BY <1>0, <1>1 DEF ServerOK, Holds, ServerType, Mode
<1>3. CASE AlreadyScanned(db, y.iid, y.next)
  <2>1. new_egress_key(s, db, "save")
    BY <1>3 DEF CommitBlock
  <2> QED BY <1>0, <1>1, <2>1, GrowsRefl, NewEgress
<1>4. CASE ~AlreadyScanned(db, y.iid, y.next)
  <2> DEFINE x == [y EXCEPT !.next = y.next + 1, !.work = "save", !.rows = {}, !.chunk = 0]
  <2>1. /\ db' = add_block_data(db, y.iid, y.next, y.rows)
        /\ srv' = [srv EXCEPT ![s] = x] /\ UNCHANGED <<file, used>>
    BY <1>0, <1>4 DEF CommitBlock
  <2>2. /\ db' \in Database /\ Grows(db, db')
        /\ db'.keys = db.keys /\ Known(db') = Known(db) /\ db'.report = db.report
        /\ db'.invocations = db.invocations
        /\ db'.blocks = db.blocks \cup
              {[key |-> y.key, iid |-> y.iid, index |-> y.next, rows |-> y.rows]}
    BY <1>0, <1>2, <2>1, AddBlock
  <2>3. Whole(db') /\ Follows(db', y.key, y.next + 1)
    <3>1. Whole(db)
      BY <1>0 DEF DbOK
    <3> QED BY <1>0, <1>2, <2>1, <3>1, WholeAdds
  <2>4. DbOK(db', chain, used.keys)
    <3> DEFINE b == [key |-> y.key, iid |-> y.iid, index |-> y.next, rows |-> y.rows]
    <3>1. b.index < chain /\ b.iid \in 1 .. Len(db.invocations)
      BY <1>2
    <3> HIDE DEF b
    <3>2. db'.blocks = db.blocks \cup {b}
      BY <2>2 DEF b
    <3> QED BY <1>0, <2>2, <2>3, <3>1, <3>2 DEF DbOK
  <2>5. x \in ServerType /\ x.iid = y.iid
    <3>1. y.next + 1 \in Nat
      BY <1>2
    <3> QED BY <1>0, <3>1 DEF ServerType
  <2>6. Holds(db', y.iid, y.key)
    BY <1>2, <2>2 DEF Holds
  <2>7. ServerOK(x, db', chain, used.keys)
    BY <1>0, <1>1, <1>2, <2>3, <2>6 DEF ServerOK, Activating, ServerType
  <2>8. EnvStep(db, db', y.iid, used, used)
    BY <1>0, <2>2 DEF EnvStep, FreesOnly
  <2> HIDE DEF x
  <2>9. Good(db', [srv EXCEPT ![s] = x], file, chain, used)
    BY <2>4, <2>5, <2>7, <2>8, OneServer DEF GoodNow
  <2> QED BY <1>1, <2>1, <2>2, <2>9 DEF GoodNow
<1> QED BY <1>3, <1>4

LEMMA SaveStateGood ==
  ASSUME GoodNow, NEW s \in Server, SaveState(s)
  PROVE  GoodNow'
<1> DEFINE y == srv[s]
           x == [y EXCEPT !.work = "poll"]
<1>0. /\ y \in ServerType /\ ServerOK(y, db, chain, used.keys) /\ srv \in [Server -> ServerType]
      /\ used \in UsedType /\ used.keys \in Nat /\ used.keys <= MaxKeys
  BY FactsOf
<1>1. /\ y.up /\ y.work = "save" /\ srv' = [srv EXCEPT ![s] = x]
      /\ file' = [file EXCEPT ![s] = Summary(y)] /\ UNCHANGED <<db, chain, used>>
  BY <1>0 DEF SaveState, Answers
<1>2. x \in ServerType /\ x.iid = y.iid /\ x.up /\ Summary(x) = Summary(y)
  BY <1>0, <1>1 DEF ServerType, Summary
<1>3. ServerOK(x, db, chain, used.keys)
  BY <1>0, <1>1 DEF ServerOK, ServerType
<1> HIDE DEF x
<1>4. Good(db, [srv EXCEPT ![s] = x], [file EXCEPT ![s] = Summary(x)], chain, used)
  <2>1. OwnStep(db, srv[s], chain, used, x, used)
    BY <1>0, <1>2, <1>3 DEF OwnStep
  <2> QED BY <1>2, <2>1, ServerOnly DEF GoodNow
<1> QED BY <1>1, <1>2, <1>4 DEF GoodNow

-----------------------------------------------------------------------------
(* activate and the peer checkup *)

LEMMA EndCallGood ==
  ASSUME GoodNow, NEW s \in Server
  PROVE  /\ Good(db, EndCall(s), file, chain, used)
         /\ srv[s].up => Good(db, EndCall(s), [file EXCEPT ![s] = Summary(srv[s])], chain, used)
<1> DEFINE y == srv[s]
           x == [y EXCEPT !.call = "none", !.asked = {}, !.tasks = {}]
<1>0. /\ y \in ServerType /\ ServerOK(y, db, chain, used.keys) /\ srv \in [Server -> ServerType]
      /\ used \in UsedType /\ used.keys \in Nat /\ used.keys <= MaxKeys
  BY FactsOf
<1>1. EndCall(s) = [srv EXCEPT ![s] = x]
  BY <1>0 DEF EndCall
<1>2. x \in ServerType /\ x.iid = y.iid /\ x.up = y.up /\ Summary(x) = Summary(y)
  BY <1>0 DEF ServerType, Summary
<1>3. ServerOK(x, db, chain, used.keys)
  BY <1>0 DEF ServerOK, ServerType, Activating
<1> HIDE DEF x
<1>4. OwnStep(db, srv[s], chain, used, x, used)
  BY <1>0, <1>2, <1>3 DEF OwnStep
<1>5. /\ Good(db, [srv EXCEPT ![s] = x], file, chain, used)
      /\ x.up => Good(db, [srv EXCEPT ![s] = x], [file EXCEPT ![s] = Summary(x)], chain, used)
  BY <1>4, ServerOnly DEF GoodNow
<1> QED BY <1>1, <1>2, <1>5

LEMMA BeginActivateGood ==
  ASSUME GoodNow, NEW s \in Server, BeginActivate(s),
         chain' = chain, used' \in UsedType, used'.keys = used.keys
  PROVE  GoodNow'
<1> DEFINE y == srv[s]
           x == [y EXCEPT !.call = "status"]
<1>0. /\ y \in ServerType /\ ServerOK(y, db, chain, used.keys) /\ srv \in [Server -> ServerType]
      /\ used \in UsedType /\ used.keys \in Nat /\ used.keys <= MaxKeys
  BY FactsOf
<1>1. /\ y.up /\ y.mode = "Idle" /\ srv' = [srv EXCEPT ![s] = x] /\ UNCHANGED <<db, file>>
  BY <1>0 DEF BeginActivate, Answers
<1>2. x \in ServerType /\ x.iid = y.iid
  BY <1>0 DEF ServerType, Activating
<1>3. ServerOK(x, db, chain, used.keys)
  BY <1>0, <1>1 DEF ServerOK, ServerType, Activating
<1> HIDE DEF x
<1>4. OwnStep(db, srv[s], chain, used, x, used')
  BY <1>0, <1>2, <1>3 DEF OwnStep
<1> QED BY <1>1, <1>4, ServerOnly DEF GoodNow

LEMMA TaskOf ==
  ASSUME GoodNow, NEW s \in Server, NEW p \in Server, srv[s].up
  PROVE  Task(s, p) \in TaskType /\ Task(s, p).key \in 1 .. used.keys
<1>1. /\ srv[s] \in ServerType /\ srv[p] \in ServerType
      /\ ServerOK(srv[s], db, chain, used.keys)
  BY FactsOf
<1> QED BY <1>1 DEF Task, TaskType, ServerType, ServerOK

LEMMA ActivateStatusGood ==
  ASSUME GoodNow, NEW s \in Server, ActivateStatus(s)
  PROVE  GoodNow'
<1> DEFINE y == srv[s]
<1>0. /\ y \in ServerType /\ ServerOK(y, db, chain, used.keys) /\ srv \in [Server -> ServerType]
      /\ used \in UsedType /\ used.keys \in Nat /\ used.keys <= MaxKeys
  BY FactsOf
<1>1. y.call = "status" /\ UNCHANGED <<db, file, chain, used>> /\ y.up /\ y.mode = "Idle"
  BY <1>0 DEF ActivateStatus, ServerOK, Activating
<1>2. ASSUME NEW x \in ServerType, x.iid = y.iid, ServerOK(x, db, chain, used.keys),
             srv' = [srv EXCEPT ![s] = x]
      PROVE  GoodNow'
  <2>1. OwnStep(db, srv[s], chain, used, x, used)
    BY <1>0, <1>2 DEF OwnStep
  <2> QED BY <1>1, <1>2, <2>1, ServerOnly DEF GoodNow
<1>3. CASE Others(s) = y.asked
  <2> DEFINE x == [y EXCEPT !.call = "backup", !.asked = {}]
  <2>1. srv' = [srv EXCEPT ![s] = x]
    BY <1>0, <1>3 DEF ActivateStatus
  <2>2. x \in ServerType /\ x.iid = y.iid
    BY <1>0 DEF ServerType, Activating
  <2>3. ServerOK(x, db, chain, used.keys)
    BY <1>0, <1>1 DEF ServerOK, ServerType, Activating
  <2> QED BY <1>2, <2>1, <2>2, <2>3
<1>4. CASE Others(s) # y.asked
  <2>1. PICK p \in Others(s) \ y.asked :
          srv' = IF srv[p].up /\ srv[p].mode = "Idle"
                 THEN [srv EXCEPT ![s].asked = @ \cup {p}, ![s].tasks = @ \cup {Task(s, p)}]
                 ELSE EndCall(s)
    BY <1>4 DEF ActivateStatus
  <2>2. p \in Server
    BY <1>0 DEF Others, ServerType
  <2>3. CASE srv[p].up /\ srv[p].mode = "Idle"
    <3> DEFINE task == Task(s, p)
    <3>1. task \in TaskType /\ task.key \in 1 .. used.keys
      BY <1>1, <2>2, TaskOf
    <3> HIDE DEF task
    <3> DEFINE x == [y EXCEPT !.asked = y.asked \cup {p}, !.tasks = y.tasks \cup {task}]
    <3>2. srv' = [srv EXCEPT ![s] = x]
      BY <1>0, <2>1, <2>3 DEF task
    <3>3. x \in ServerType /\ x.iid = y.iid
      BY <1>0, <2>2, <3>1 DEF ServerType
    <3>4. ServerOK(x, db, chain, used.keys)
      BY <1>0, <1>1, <3>1 DEF ServerOK, ServerType, Activating
    <3> HIDE DEF x
    <3> QED BY <1>2, <3>2, <3>3, <3>4
  <2>4. CASE ~(srv[p].up /\ srv[p].mode = "Idle")
    BY <1>1, <2>1, <2>4, EndCallGood DEF GoodNow
  <2> QED BY <2>3, <2>4
<1> QED BY <1>3, <1>4

LEMMA WriteFile ==
  ASSUME NEW d, NEW v, NEW f, NEW n, NEW u, Good(d, v, f, n, u), NEW s \in Server,
         NEW new \in SUBSET SummaryType, \A y \in new : FileOK(y, d, n, u.keys)
  PROVE  Good(d, v, [f EXCEPT ![s] = new], n, u)
<1> DEFINE g == [f EXCEPT ![s] = new]
<1>1. f \in [Server -> SUBSET SummaryType]
  BY DEF Good, Types
<1>2. g \in [Server -> SUBSET SummaryType] /\ g[s] = new /\ \A t \in Server : t # s => g[t] = f[t]
  BY <1>1
<1> HIDE DEF g
<1>3. \A t \in Server : \A y \in g[t] : FileOK(y, d, n, u.keys)
  BY <1>2 DEF Good, Sound
<1>4. Good(d, v, g, n, u)
  BY <1>2, <1>3 DEF Good, Sound, Types
<1> QED BY <1>4 DEF g

(* A task is performed on a peer that takes the key, idle and not locked. *)
LEMMA PerformGood ==
  ASSUME GoodNow, NEW v, Good(db, v, file, chain, used),
         NEW t \in TaskType, t.key \in 1 .. used.keys,
         v[t.peer].key = srv[t.peer].key,
         t.send_key => srv[t.peer].up /\ srv[t.peer].mode = "Idle",
         v[t.peer].up = srv[t.peer].up, v[t.peer].mode = srv[t.peer].mode,
         t.send_key => v[t.peer].call \notin Activating,
         Perform(t, v), UNCHANGED <<db, chain, used>>
  PROVE  GoodNow'
<1> DEFINE p == t.peer
           y == v[p]
           x == [y EXCEPT !.key = IF t.send_key THEN t.key ELSE y.key,
                          !.peers = IF t.send_peers THEN t.peers ELSE y.peers]
<1>0. /\ p \in Server /\ v \in [Server -> ServerType] /\ y \in ServerType
      /\ ServerOK(y, db, chain, used.keys) /\ srv[p] \in ServerType
      /\ ServerOK(srv[p], db, chain, used.keys)
      /\ used \in UsedType /\ used.keys \in Nat /\ used.keys <= MaxKeys
  BY FactsOf DEF TaskType, Good, Sound, Types
<1>1. srv' = [v EXCEPT ![p] = x]
  BY <1>0 DEF Perform
<1>2. x \in ServerType /\ x.iid = y.iid
  BY <1>0 DEF ServerType, TaskType
<1>3. ServerOK(x, db, chain, used.keys)
  <2>1. CASE t.send_key
    BY <1>0, <2>1 DEF ServerOK, ServerType, Activating
  <2>2. CASE ~t.send_key
    BY <1>0, <2>2 DEF ServerOK, ServerType
  <2> QED BY <2>1, <2>2
<1> HIDE DEF x
<1>4. OwnStep(db, v[p], chain, used, x, used)
  BY <1>0, <1>2, <1>3 DEF OwnStep
<1>5. Good(db, srv', file, chain, used)
  BY <1>0, <1>1, <1>4, ServerOnly
<1>6. CASE t.send_key /\ srv[p].key # t.key
  <2> DEFINE new == Summary([srv[p] EXCEPT !.key = t.key])
  <2>1. file' = [file EXCEPT ![p] = new]
    BY <1>6 DEF Perform
  <2>2. new \in SUBSET SummaryType
    BY <1>0 DEF Summary, SummaryType, ServerType, TaskType
  <2>3. \A z \in new : FileOK(z, db, chain, used.keys)
    BY <1>0, <1>6 DEF Summary, ServerType, FileOK, ServerOK
  <2> HIDE DEF new
  <2>4. Good(db, srv', file', chain, used)
    BY <1>0, <1>5, <2>1, <2>2, <2>3, WriteFile
  <2> QED BY <2>4 DEF GoodNow
<1>7. CASE ~(t.send_key /\ srv[p].key # t.key)
  BY <1>5, <1>7 DEF Perform, GoodNow
<1> QED BY <1>6, <1>7

(* What s holds of its own is irrelevant to what it does to a peer. *)
LEMMA TaskDone ==
  ASSUME GoodNow, NEW s \in Server, NEW t \in srv[s].tasks \cup srv[s].checkup,
         NEW x, x = [srv[s] EXCEPT !.tasks = srv[s].tasks \ {t}]
                \/ x = [srv[s] EXCEPT !.checkup = {}],
         NEW v, v = [srv EXCEPT ![s] = x],
         t.send_key \/ t.send_peers => ~Locked(t.peer), Succeeds(s, t),
         Perform(t, v), UNCHANGED <<db, chain, used>>
  PROVE  GoodNow'
<1> DEFINE y == srv[s]
           p == t.peer
<1>0. /\ y \in ServerType /\ ServerOK(y, db, chain, used.keys) /\ srv \in [Server -> ServerType]
      /\ used \in UsedType /\ used.keys \in Nat /\ used.keys <= MaxKeys
  BY FactsOf
<1>1. t \in TaskType /\ p \in Server /\ t.key \in 1 .. used.keys
  BY <1>0 DEF ServerType, TaskType, ServerOK
<1>2. /\ x \in ServerType /\ x.iid = y.iid /\ x.up = y.up /\ x.mode = y.mode
      /\ x.key = y.key /\ x.call = y.call
  BY <1>0 DEF ServerType
<1>3. ServerOK(x, db, chain, used.keys)
  <2>1. CASE x = [y EXCEPT !.tasks = y.tasks \ {t}]
    BY <1>0, <2>1 DEF ServerOK, ServerType
  <2>2. CASE x = [y EXCEPT !.checkup = {}]
    BY <1>0, <2>2 DEF ServerOK, ServerType
  <2> QED BY <2>1, <2>2
<1>4. Good(db, v, file, chain, used)
  <2>1. OwnStep(db, srv[s], chain, used, x, used)
    BY <1>0, <1>2, <1>3 DEF OwnStep
  <2>2. Good(db, [srv EXCEPT ![s] = x], file, chain, used)
    BY <2>1, ServerOnly DEF GoodNow
  <2> QED BY <2>2
<1>5. /\ v[p].key = srv[p].key /\ v[p].up = srv[p].up /\ v[p].mode = srv[p].mode
      /\ v[p].call = srv[p].call
  BY <1>0, <1>1, <1>2
<1>6. t.send_key => v[p].call \notin Activating
  BY <1>5 DEF Locked, Activating
<1>7. t.send_key => srv[p].up /\ srv[p].mode = "Idle"
  BY DEF Succeeds
<1> QED BY <1>1, <1>4, <1>5, <1>6, <1>7, PerformGood

LEMMA ActivateBackupGood ==
  ASSUME GoodNow, NEW s \in Server, ActivateBackup(s)
  PROVE  GoodNow'
<1> DEFINE y == srv[s]
<1>0. /\ y \in ServerType /\ ServerOK(y, db, chain, used.keys) /\ srv \in [Server -> ServerType]
      /\ used \in UsedType /\ used.keys \in Nat /\ used.keys <= MaxKeys
  BY FactsOf
<1>1. y.call = "backup" /\ UNCHANGED <<db, chain, used>> /\ y.up /\ y.mode = "Idle"
  BY <1>0 DEF ActivateBackup, ServerOK, Activating
<1>2. CASE y.tasks = {}
  <2> DEFINE x == [y EXCEPT !.call = "start"]
  <2>1. srv' = [srv EXCEPT ![s] = x] /\ file' = file
    BY <1>0, <1>2 DEF ActivateBackup
  <2>2. x \in ServerType /\ x.iid = y.iid
    BY <1>0 DEF ServerType, Activating
  <2>3. ServerOK(x, db, chain, used.keys)
    BY <1>0, <1>1 DEF ServerOK, ServerType, Activating
  <2> HIDE DEF x
  <2>4. OwnStep(db, srv[s], chain, used, x, used)
    BY <1>0, <2>2, <2>3 DEF OwnStep
  <2> QED BY <1>1, <2>1, <2>4, ServerOnly DEF GoodNow
<1>3. CASE y.tasks # {}
  <2>1. PICK t \in y.tasks :
          /\ t.send_key \/ t.send_peers => ~Locked(t.peer)
          /\ IF Succeeds(s, t) THEN Perform(t, [srv EXCEPT ![s].tasks = @ \ {t}])
             ELSE srv' = EndCall(s) /\ UNCHANGED file
    BY <1>3 DEF ActivateBackup
  <2>2. CASE Succeeds(s, t)
    <3> DEFINE x == [y EXCEPT !.tasks = y.tasks \ {t}]
               v == [srv EXCEPT ![s] = x]
    <3>1. [srv EXCEPT ![s].tasks = @ \ {t}] = v
      BY <1>0
    <3>2. Perform(t, v)
      BY <2>1, <2>2, <3>1
    <3> HIDE DEF v
    <3> QED BY <1>1, <2>1, <2>2, <3>2, TaskDone DEF v
  <2>3. CASE ~Succeeds(s, t)
    BY <1>1, <2>1, <2>3, EndCallGood DEF GoodNow
  <2> QED BY <2>2, <2>3
<1> QED BY <1>2, <1>3

LEMMA CorrectPeerGood ==
  ASSUME GoodNow, NEW s \in Server, CorrectPeer(s)
  PROVE  GoodNow'
<1> DEFINE y == srv[s]
           x == [y EXCEPT !.checkup = {}]
           v == [srv EXCEPT ![s] = x]
<1>0. /\ y \in ServerType /\ ServerOK(y, db, chain, used.keys) /\ srv \in [Server -> ServerType]
      /\ used \in UsedType /\ used.keys \in Nat /\ used.keys <= MaxKeys
  BY FactsOf
<1>1. [srv EXCEPT ![s].checkup = {}] = v
  BY <1>0
<1>2. PICK t \in y.checkup :
        /\ ~Locked(t.peer)
        /\ IF Succeeds(s, t) THEN Perform(t, v) ELSE srv' = v /\ UNCHANGED file
  BY <1>1 DEF CorrectPeer
<1>3. UNCHANGED <<db, chain, used>>
  BY DEF CorrectPeer
<1> HIDE DEF v
<1>4. CASE Succeeds(s, t)
  BY <1>2, <1>3, <1>4, TaskDone DEF v
<1>5. CASE ~Succeeds(s, t)
  <2>1. x \in ServerType /\ x.iid = y.iid
    BY <1>0 DEF ServerType
  <2>2. ServerOK(x, db, chain, used.keys)
    BY <1>0 DEF ServerOK, ServerType
  <2> HIDE DEF x
  <2>3. OwnStep(db, srv[s], chain, used, x, used)
    BY <1>0, <2>1, <2>2 DEF OwnStep
  <2>4. Good(db, v, file, chain, used)
    BY <2>3, ServerOnly DEF GoodNow, v
  <2> QED BY <1>2, <1>3, <1>5, <2>4 DEF GoodNow
<1> QED BY <1>4, <1>5

LEMMA ActivateStartGood ==
  ASSUME GoodNow, NEW s \in Server, ActivateStart(s)
  PROVE  GoodNow' /\ Grows(db, db')
<1> DEFINE y == srv[s]
           k == srv[s].key
           from == ResumeAt(db', k)
           x == [y EXCEPT !.next = from, !.call = "finish"]
<1>0. /\ y \in ServerType /\ ServerOK(y, db, chain, used.keys) /\ srv \in [Server -> ServerType]
      /\ used \in UsedType /\ used.keys \in Nat /\ used.keys <= MaxKeys
      /\ db \in Database /\ chain \in Nat /\ DbOK(db, chain, used.keys)
  BY FactsOf
<1>1. /\ y.call = "start" /\ UNCHANGED <<file, chain, used>> /\ y.up /\ y.mode = "Idle"
      /\ db' = IF k \in Known(db) THEN db ELSE new_ingress_key(db, k, chain)
      /\ srv' = [srv EXCEPT ![s] = x]
  BY <1>0 DEF ActivateStart, ServerOK, Activating
<1>2. k \in 1 .. used.keys /\ k \in Nat
  BY <1>0, <1>1 DEF ServerOK
<1> HIDE DEF k
<1>3. /\ db' \in Database /\ Grows(db, db') /\ db'.blocks = db.blocks
      /\ db'.invocations = db.invocations
      /\ DbOK(db', chain, used.keys) /\ k \in Known(db')
  <2>1. CASE k \in Known(db)
    BY <1>0, <1>1, <2>1, GrowsRefl
  <2>2. CASE k \notin Known(db)
    <3>1. db' = new_ingress_key(db, k, chain)
      BY <1>1, <2>2
    <3>2. \A b \in db.blocks : b.index < chain
      BY <1>0 DEF DbOK
    <3>3. /\ db' \in Database /\ Grows(db, db') /\ Known(db') = Known(db) \cup {k}
          /\ \A j \in Known(db) : db'.keys[j] = db.keys[j]
          /\ db'.keys[k].start <= chain /\ db'.keys[k].expiry = 0
          /\ db'.blocks = db.blocks /\ db'.invocations = db.invocations
          /\ db'.report = db.report
      BY <1>0, <1>2, <2>2, <3>1, <3>2, NewKey
    <3>4. Whole(db')
      BY <1>0, <3>3, WholeKept DEF DbOK
    <3>5. Window \in Nat
      BY FogAssumption
    <3>6. DbOK(db', chain, used.keys)
      BY <1>0, <1>2, <3>3, <3>4, <3>5 DEF DbOK
    <3> QED BY <3>3, <3>6
  <2> QED BY <2>1, <2>2
<1>4. from \in Nat /\ from <= chain /\ Follows(db', k, from)
  <2>1. Whole(db') /\ db'.keys[k].start <= chain /\ \A b \in db'.blocks : b.index < chain
    BY <1>3 DEF DbOK
  <2> QED BY <1>0, <1>3, <2>1, ResumesAfterScanned
<1> HIDE DEF from
<1>5. x \in ServerType /\ x.iid = y.iid /\ x.key = k
  BY <1>0, <1>4 DEF ServerType, Activating, k
<1>6. EnvStep(db, db', y.iid, used, used)
  BY <1>0, <1>3 DEF EnvStep, FreesOnly
<1>7. ServerOK(x, db', chain, used.keys)
  <2>1. y.iid = 0
    BY <1>0, <1>1 DEF ServerOK
  <2> QED BY <1>0, <1>1, <1>2, <1>4, <1>5, <2>1 DEF ServerOK, Activating
<1> HIDE DEF x
<1>8. Good(db', [srv EXCEPT ![s] = x], file, chain, used)
  BY <1>3, <1>5, <1>6, <1>7, OneServer DEF GoodNow
<1> QED BY <1>1, <1>3, <1>8 DEF GoodNow

LEMMA ActivateFinishGood ==
  ASSUME GoodNow, NEW s \in Server, ActivateFinish(s)
  PROVE  GoodNow' /\ Grows(db, db')
<1> DEFINE y == srv[s]
           k == srv[s].key
           expiry == srv[s].next + Window
           x == IF Expired(db'.keys[k], y.next)
                THEN [y EXCEPT !.call = "none", !.asked = {}, !.tasks = {}]
                ELSE [y EXCEPT !.mode = "Active", !.call = "save"]
<1>0. /\ y \in ServerType /\ ServerOK(y, db, chain, used.keys) /\ srv \in [Server -> ServerType]
      /\ used \in UsedType /\ used.keys \in Nat /\ used.keys <= MaxKeys
      /\ db \in Database /\ chain \in Nat /\ DbOK(db, chain, used.keys) /\ Window \in Nat
  BY FactsOf, FogAssumption
<1>1. /\ y.call = "finish" /\ UNCHANGED <<file, chain, used>> /\ y.up /\ y.mode = "Idle"
      /\ db' = set_report(db, k, expiry) /\ srv' = [srv EXCEPT ![s] = x]
  BY <1>0 DEF ActivateFinish, ServerOK, Activating, EndCall
<1>2. /\ k \in Known(db) /\ expiry \in Nat /\ expiry <= chain + Window /\ y.next \in Nat
      /\ db.keys[k].expiry <= chain + Window /\ chain + Window \in Nat
      /\ Follows(db, k, y.next)
  BY <1>0, <1>1 DEF ServerOK, Follows, DbOK, ServerType
<1> HIDE DEF expiry
<1>3. /\ db' \in Database /\ Grows(db, db') /\ Known(db') = Known(db)
      /\ db'.blocks = db.blocks /\ db'.invocations = db.invocations
      /\ \A j \in Known(db) : j # k => db'.keys[j] = db.keys[j]
      /\ db'.keys[k].expiry <= chain + Window
      /\ \/ db'.report = db.report
         \/ db'.report = {[key |-> k, expiry |-> expiry]} /\ expiry <= db'.keys[k].expiry
  BY <1>0, <1>1, <1>2, SetReport
<1>4. DbOK(db', chain, used.keys)
  BY <1>0, <1>2, <1>3, ReportedDb
<1>5. x \in ServerType /\ x.iid = y.iid
  BY <1>0 DEF ServerType, Activating, Mode
<1>6. EnvStep(db, db', y.iid, used, used)
  BY <1>0, <1>3 DEF EnvStep, FreesOnly
<1>7. ServerOK(x, db', chain, used.keys)
  <2>1. Follows(db', k, y.next)
    BY <1>0, <1>2, <1>3, FollowsGrows
  <2>2. y.iid = 0
    BY <1>0, <1>1 DEF ServerOK
  <2>3. CASE Expired(db'.keys[k], y.next)
    BY <1>0, <1>1, <2>2, <2>3 DEF ServerOK, ServerType, Activating
  <2>4. CASE ~Expired(db'.keys[k], y.next)
    BY <1>0, <1>1, <2>1, <2>2, <2>4 DEF ServerOK, ServerType, Activating
  <2> QED BY <2>3, <2>4
<1> HIDE DEF x
<1>8. Good(db', [srv EXCEPT ![s] = x], file, chain, used)
  BY <1>4, <1>5, <1>6, <1>7, OneServer DEF GoodNow
<1> QED BY <1>1, <1>3, <1>8 DEF GoodNow

LEMMA ActivateSaveGood ==
  ASSUME GoodNow, NEW s \in Server, ActivateSave(s)
  PROVE  GoodNow'
<1>1. /\ srv[s].call = "save" /\ file' = [file EXCEPT ![s] = Summary(srv[s])]
      /\ srv' = EndCall(s) /\ UNCHANGED <<db, chain, used>>
  BY DEF ActivateSave
<1>2. srv[s].up
  BY <1>1, FactsOf DEF ServerOK, ServerType
<1> QED BY <1>1, <1>2, EndCallGood DEF GoodNow

LEMMA CheckPeerGood ==
  ASSUME GoodNow, NEW s \in Server, CheckPeer(s)
  PROVE  GoodNow'
<1> DEFINE y == srv[s]
<1>0. /\ y \in ServerType /\ ServerOK(y, db, chain, used.keys) /\ srv \in [Server -> ServerType]
      /\ used \in UsedType /\ used.keys \in Nat /\ used.keys <= MaxKeys
  BY FactsOf
<1>1. PICK p \in Others(s) : srv' = [srv EXCEPT ![s].checkup = {Task(s, p)}]
  BY DEF CheckPeer
<1>2. y.up /\ p \in Server /\ UNCHANGED <<db, file, chain, used>>
  BY <1>0 DEF CheckPeer, Answers, Others, ServerType
<1> DEFINE task == Task(s, p)
           x == [y EXCEPT !.checkup = {task}]
<1>3. task \in TaskType /\ task.key \in 1 .. used.keys
  BY <1>2, TaskOf
<1> HIDE DEF task
<1>4. srv' = [srv EXCEPT ![s] = x]
  BY <1>0, <1>1 DEF task
<1>5. x \in ServerType /\ x.iid = y.iid
  BY <1>0, <1>3 DEF ServerType
<1>6. ServerOK(x, db, chain, used.keys)
  BY <1>0, <1>2, <1>3 DEF ServerOK, ServerType
<1> HIDE DEF x
<1>7. OwnStep(db, srv[s], chain, used, x, used)
  BY <1>0, <1>5, <1>6 DEF OwnStep
<1> QED BY <1>2, <1>4, <1>7, ServerOnly DEF GoodNow

-----------------------------------------------------------------------------
(* The operator, crashes and restarts, and the ledger *)

LEMMA NewKeysGood ==
  ASSUME GoodNow, NEW s \in Server, NEW cost \in Nat, NewKeys(s, cost), chain' = chain
  PROVE  GoodNow' /\ db' = db
<1> DEFINE y == srv[s]
           x == [y EXCEPT !.iid = 0, !.key = used.keys + 1,
                          !.egress = used.egress + 1, !.rng = 0]
<1>0. /\ y \in ServerType /\ ServerOK(y, db, chain, used.keys) /\ srv \in [Server -> ServerType]
      /\ used \in UsedType /\ used.keys \in Nat /\ MaxKeys \in Nat
  BY FactsOf, FogAssumption
<1>1. /\ y.up /\ y.call \notin Activating /\ y.mode = "Idle" /\ used.keys < MaxKeys
      /\ used' = [used EXCEPT !.keys = used.keys + 1, !.egress = used.egress + 1,
                              !.commands = used.commands + cost]
      /\ srv' = [srv EXCEPT ![s] = x]
  BY <1>0 DEF NewKeys, Answers, Locked, Activating
<1>2. file' = [file EXCEPT ![s] = Summary(x)]
  BY <1>0, <1>1 DEF NewKeys
<1>3. db' = db
  BY <1>0, <1>1 DEF NewKeys, ServerOK
<1>4. used.egress + 1 \in Nat /\ used.keys + 1 \in Nat /\ used.commands + cost \in Nat
  BY <1>0 DEF UsedType
<1>5. used' \in UsedType /\ used'.keys = used.keys + 1
  BY <1>0, <1>1, <1>4 DEF UsedType
<1>6. x \in ServerType /\ x.iid = 0 /\ x.up
  BY <1>0, <1>1, <1>4 DEF ServerType
<1>7. ServerOK(x, db, chain, used.keys + 1)
  BY <1>0, <1>1 DEF ServerOK, ServerType, Activating
<1> HIDE DEF x
<1>8. OwnStep(db, srv[s], chain, used, x, used')
  BY <1>0, <1>1, <1>5, <1>6, <1>7 DEF OwnStep
<1>9. Good(db, [srv EXCEPT ![s] = x], [file EXCEPT ![s] = Summary(x)], chain, used')
  BY <1>6, <1>8, ServerOnly DEF GoodNow
<1> QED BY <1>1, <1>2, <1>3, <1>9 DEF GoodNow

LEMMA SyncKeysGood ==
  ASSUME GoodNow, NEW s \in Server, SyncKeys(s),
         chain' = chain, used' \in UsedType, used'.keys = used.keys
  PROVE  GoodNow'
<1> DEFINE y == srv[s]
<1>0. /\ y \in ServerType /\ ServerOK(y, db, chain, used.keys) /\ srv \in [Server -> ServerType]
      /\ used \in UsedType /\ used.keys \in Nat /\ used.keys <= MaxKeys
  BY FactsOf
<1>1. PICK p \in Server : srv[p].up /\ srv' = [srv EXCEPT ![s].key = srv[p].key]
  BY DEF SyncKeys
<1>2. srv[p].key \in Nat /\ srv[p].key \in 1 .. used.keys
  BY <1>1, FactsOf DEF ServerOK, ServerType
<1> DEFINE x == [y EXCEPT !.key = srv[p].key]
<1>3. /\ y.up /\ y.call \notin Activating /\ y.mode = "Idle" /\ db' = db
      /\ srv' = [srv EXCEPT ![s] = x]
  BY <1>0, <1>1 DEF SyncKeys, Answers, Locked, Activating
<1>4. file' = [file EXCEPT ![s] = Summary(x)]
  BY <1>0, <1>3 DEF SyncKeys
<1>5. x \in ServerType /\ x.iid = y.iid /\ x.up
  BY <1>0, <1>2, <1>3 DEF ServerType
<1>6. ServerOK(x, db, chain, used.keys)
  BY <1>0, <1>2, <1>3 DEF ServerOK, ServerType, Activating
<1> HIDE DEF x
<1>7. OwnStep(db, srv[s], chain, used, x, used')
  BY <1>0, <1>5, <1>6 DEF OwnStep
<1>8. Good(db, [srv EXCEPT ![s] = x], [file EXCEPT ![s] = Summary(x)], chain, used')
  BY <1>5, <1>7, ServerOnly DEF GoodNow
<1> QED BY <1>3, <1>4, <1>8 DEF GoodNow

LEMMA SetPeersGood ==
  ASSUME GoodNow, NEW s \in Server, SetPeers(s),
         chain' = chain, used' \in UsedType, used'.keys = used.keys
  PROVE  GoodNow'
<1> DEFINE y == srv[s]
<1>0. /\ y \in ServerType /\ ServerOK(y, db, chain, used.keys) /\ srv \in [Server -> ServerType]
      /\ used \in UsedType /\ used.keys \in Nat /\ used.keys <= MaxKeys
  BY FactsOf
<1>1. PICK others \in SUBSET (Server \ {s}) : srv' = [srv EXCEPT ![s].peers = {s} \cup others]
  BY DEF SetPeers
<1> DEFINE x == [y EXCEPT !.peers = {s} \cup others]
<1>2. srv' = [srv EXCEPT ![s] = x] /\ UNCHANGED <<db, file>>
  BY <1>0, <1>1 DEF SetPeers
<1>3. x \in ServerType /\ x.iid = y.iid
  BY <1>0 DEF ServerType
<1>4. ServerOK(x, db, chain, used.keys)
  BY <1>0 DEF ServerOK, ServerType
<1> HIDE DEF x
<1>5. OwnStep(db, srv[s], chain, used, x, used')
  BY <1>0, <1>3, <1>4 DEF OwnStep
<1> QED BY <1>2, <1>5, ServerOnly DEF GoodNow

(* A transaction of the operator or the overseer on a key. *)
LEMMA KeyTransaction ==
  ASSUME GoodNow, NEW e \in Database, Grows(db, e), Known(e) = Known(db),
         \A j \in Known(db) : e.keys[j].expiry = db.keys[j].expiry,
         e.blocks = db.blocks, e.invocations = db.invocations, e.report = db.report,
         NEW w \in UsedType, w.keys = used.keys
  PROVE  Good(e, srv, file, chain, w)
<1>1. /\ db \in Database /\ chain \in Nat /\ used.keys \in Nat /\ DbOK(db, chain, used.keys)
      /\ FreesOnly(db, e, 0)
  BY FactsOf DEF FreesOnly
<1>2. \A j \in Known(db) : e.keys[j].expiry <= chain + Window
  BY <1>1 DEF DbOK
<1>3. DbOK(e, chain, used.keys)
  BY <1>1, <1>2, DbKept
<1>4. \A s \in Server : ServerOK(srv[s], e, chain, used.keys)
  <2> SUFFICES ASSUME NEW s \in Server PROVE ServerOK(srv[s], e, chain, used.keys)
    OBVIOUS
  <2>1. srv[s] \in ServerType /\ ServerOK(srv[s], db, chain, used.keys)
    BY FactsOf
  <2> QED BY <1>1, <2>1, ServerKept
<1>5. \A s \in Server : \A x \in file[s] : FileOK(x, e, chain, used.keys)
  <2> SUFFICES ASSUME NEW s \in Server, NEW x \in file[s] PROVE FileOK(x, e, chain, used.keys)
    OBVIOUS
  <2>1. x \in SummaryType /\ FileOK(x, db, chain, used.keys)
    BY DEF GoodNow, Good, Types, Sound
  <2> QED BY <1>1, <2>1, FileKept
<1> QED BY <1>3, <1>4, <1>5 DEF GoodNow, Good, Types, Sound

LEMMA RetireGood ==
  ASSUME GoodNow, NEW s \in Server, NEW flag \in BOOLEAN, Retire(s, flag),
         chain' = chain, used' \in UsedType, used'.keys = used.keys
  PROVE  GoodNow' /\ Grows(db, db')
<1>1. db' = retire_ingress_key(db, srv[s].key, flag) /\ UNCHANGED <<srv, file>>
  BY DEF Retire
<1>2. db \in Database
  BY FactsOf
<1>3. /\ db' \in Database /\ Grows(db, db') /\ Known(db') = Known(db)
      /\ \A j \in Known(db) : db'.keys[j].expiry = db.keys[j].expiry
      /\ db'.blocks = db.blocks /\ db'.invocations = db.invocations
      /\ db'.report = db.report
  BY <1>1, <1>2, RetireKey
<1>4. Good(db', srv, file, chain, used')
  BY <1>3, KeyTransaction
<1> QED BY <1>1, <1>3, <1>4 DEF GoodNow

LEMMA LostGood ==
  ASSUME GoodNow, NEW k \in Known(db), db' = report_lost_ingress_key(db, k),
         UNCHANGED <<srv, file, chain>>, used' \in UsedType, used'.keys = used.keys
  PROVE  GoodNow' /\ Grows(db, db')
<1>1. /\ db \in Database /\ chain \in Nat /\ db.keys[k].start <= chain
      /\ \A b \in db.blocks : b.index < chain
  BY FactsOf DEF DbOK
<1>2. /\ db' \in Database /\ Grows(db, db') /\ Known(db') = Known(db)
      /\ \A j \in Known(db) : db'.keys[j].expiry = db.keys[j].expiry
      /\ db'.blocks = db.blocks /\ db'.invocations = db.invocations
      /\ db'.report = db.report
  BY <1>1, ReportLostKey
<1>3. Good(db', srv, file, chain, used')
  BY <1>2, KeyTransaction
<1> QED BY <1>2, <1>3 DEF GoodNow

LEMMA OperatorGood ==
  ASSUME GoodNow, NEW s \in Server, Operator(s)
  PROVE  GoodNow' /\ Grows(db, db')
<1>0. used \in UsedType /\ chain' = chain /\ Grows(db, db)
  BY FactsOf, GrowsRefl DEF Operator
<1>1. CASE NewKeys(s, 1)
  BY <1>0, <1>1, NewKeysGood
<1>2. CASE used' = [used EXCEPT !.commands = @ + 1]
  <2>0. used' \in UsedType /\ used'.keys = used.keys
    BY <1>0, <1>2 DEF UsedType
  <2>1. CASE BeginActivate(s)
    BY <1>0, <2>0, <2>1, BeginActivateGood DEF BeginActivate
  <2>2. CASE SyncKeys(s)
    BY <1>0, <2>0, <2>2, SyncKeysGood DEF SyncKeys
  <2>3. CASE SetPeers(s)
    BY <1>0, <2>0, <2>3, SetPeersGood DEF SetPeers
  <2>4. ASSUME NEW flag \in BOOLEAN, Retire(s, flag) PROVE GoodNow' /\ Grows(db, db')
    BY <1>0, <2>0, <2>4, RetireGood
  <2>5. CASE ReportLost(s)
    BY <1>0, <2>0, <2>5, LostGood DEF ReportLost
  <2>6. BeginActivate(s) \/ SyncKeys(s) \/ SetPeers(s) \/ Retire(s, TRUE) \/ Retire(s, FALSE)
           \/ ReportLost(s) \/ NewKeys(s, 1)
    BY DEF Operator
  <2> QED BY <1>1, <2>1, <2>2, <2>3, <2>4, <2>5, <2>6
<1> QED BY <1>1, <1>2 DEF Operator

LEMMA FreshServer ==
  ASSUME NEW key \in Nat, NEW egress \in Nat
  PROVE  Fresh(key, egress) \in ServerType
BY DEF Fresh, ServerType, Mode, Activating

LEMMA CrashGood ==
  ASSUME GoodNow, NEW s \in Server, Crash(s)
  PROVE  GoodNow'
<1>0. /\ srv \in [Server -> ServerType] /\ file \in [Server -> SUBSET SummaryType]
      /\ used \in UsedType /\ used.keys \in Nat /\ used.keys <= MaxKeys /\ chain \in Nat
      /\ used.faults + 1 \in Nat /\ NumChunks \in Nat
  BY FactsOf, FogAssumption DEF UsedType
<1>1. /\ srv' = [srv EXCEPT ![s] = Down] /\ UNCHANGED <<db, chain>>
      /\ used' = [used EXCEPT !.faults = used.faults + 1]
  BY DEF Crash
<1>2. used' \in UsedType /\ used'.keys = used.keys
  BY <1>0, <1>1 DEF UsedType
<1>3. Down \in ServerType
  BY DEF Down, Fresh, ServerType, Mode, Activating
<1>4. ServerOK(Down, db, chain, used.keys) /\ Down.iid = 0
  BY <1>0 DEF ServerOK, Down, Fresh, Activating
<1>5. OwnStep(db, srv[s], chain, used, Down, used')
  BY <1>0, <1>2, <1>3, <1>4 DEF OwnStep
<1>6. Good(db, srv', file, chain, used')
  BY <1>1, <1>5, ServerOnly DEF GoodNow
<1>7. PICK left \in {file[s], {}} : file' = [file EXCEPT ![s] = left]
  BY DEF Crash
<1>8. left \in SUBSET SummaryType /\ \A y \in left : FileOK(y, db, chain, used'.keys)
  BY <1>0, <1>6, <1>7 DEF Good, Sound
<1>9. Good(db, srv', file', chain, used')
  BY <1>6, <1>7, <1>8, WriteFile
<1> QED BY <1>1, <1>9 DEF GoodNow

(* A server that is down and starts as x. *)
LEMMA StartGood ==
  ASSUME GoodNow, NEW s \in Server, NEW x, x.up, OwnStep(db, srv[s], chain, used, x, used'),
         Start(s, x)
  PROVE  GoodNow'
<1>1. /\ srv' = [srv EXCEPT ![s] = x] /\ file' = [file EXCEPT ![s] = Summary(x)]
      /\ UNCHANGED <<db, chain>>
  BY DEF Start
<1>2. Good(db, [srv EXCEPT ![s] = x], [file EXCEPT ![s] = Summary(x)], chain, used')
  BY ServerOnly DEF GoodNow
<1> QED BY <1>1, <1>2 DEF GoodNow

LEMMA RestartFreshGood ==
  ASSUME GoodNow, NEW s \in Server, RestartFresh(s)
  PROVE  GoodNow'
<1> DEFINE x == Fresh(used.keys + 1, used.egress + 1)
<1>0. /\ used \in UsedType /\ used.keys \in Nat /\ used.keys + 1 \in Nat /\ chain \in Nat
      /\ used.egress + 1 \in Nat /\ NumChunks \in Nat /\ MaxKeys \in Nat
  BY FactsOf, FogAssumption DEF UsedType
<1>1. /\ used.keys < MaxKeys /\ Start(s, x)
      /\ used' = [used EXCEPT !.keys = used.keys + 1, !.egress = used.egress + 1]
  BY DEF RestartFresh
<1>2. used' \in UsedType /\ used'.keys = used.keys + 1
  BY <1>0, <1>1 DEF UsedType
<1>3. x \in ServerType /\ x.iid = 0 /\ x.up
  BY <1>0, FreshServer DEF Fresh
<1>4. ServerOK(x, db, chain, used.keys + 1)
  BY <1>0 DEF ServerOK, Fresh, Activating
<1> HIDE DEF x
<1>5. OwnStep(db, srv[s], chain, used, x, used')
  BY <1>0, <1>1, <1>2, <1>3, <1>4 DEF OwnStep
<1> QED BY <1>1, <1>3, <1>5, StartGood

LEMMA RestartGood ==
  ASSUME GoodNow, NEW s \in Server, Restart(s)
  PROVE  GoodNow'
<1>0. /\ used \in UsedType /\ used.keys \in Nat /\ used.keys <= MaxKeys /\ chain \in Nat
      /\ used.egress + 1 \in Nat /\ NumChunks \in Nat
      /\ file \in [Server -> SUBSET SummaryType]
  BY FactsOf, FogAssumption DEF UsedType
<1>1. PICK f \in file[s] :
        \/ Start(s, [Fresh(f.key, used.egress + 1) EXCEPT !.mode = f.mode, !.next = f.next,
                                                          !.peers = f.peers])
        \/ Start(s, Fresh(f.key, used.egress + 1))
  BY DEF Restart
<1>2. used' = [used EXCEPT !.egress = used.egress + 1]
  BY DEF Restart
<1>3. used' \in UsedType /\ used'.keys = used.keys
  BY <1>0, <1>2 DEF UsedType
<1>4. f \in SummaryType /\ FileOK(f, db, chain, used.keys) /\ f.key \in Nat
  BY <1>0 DEF GoodNow, Good, Sound, SummaryType
<1> DEFINE new == Fresh(f.key, used.egress + 1)
           x == [new EXCEPT !.mode = f.mode, !.next = f.next, !.peers = f.peers]
<1>5. new \in ServerType
  BY <1>0, <1>4, FreshServer
<1>6. CASE Start(s, new)
  <2>1. new.iid = 0 /\ new.up
    BY DEF Fresh
  <2>2. ServerOK(new, db, chain, used.keys)
    BY <1>0, <1>4 DEF ServerOK, Fresh, Activating, FileOK
  <2> HIDE DEF new
  <2>3. OwnStep(db, srv[s], chain, used, new, used')
    BY <1>0, <1>3, <1>5, <2>1, <2>2 DEF OwnStep
  <2> QED BY <1>6, <2>1, <2>3, StartGood
<1>7. CASE Start(s, x)
  <2>1. x \in ServerType
    BY <1>4, <1>5 DEF ServerType, SummaryType
  <2>2. x.iid = 0 /\ x.up
    BY DEF Fresh
  <2>3. ServerOK(x, db, chain, used.keys)
    BY <1>0, <1>4 DEF ServerOK, Fresh, Activating, FileOK, SummaryType, Mode
  <2> HIDE DEF x
  <2>4. OwnStep(db, srv[s], chain, used, x, used')
    BY <1>0, <1>3, <2>1, <2>2, <2>3 DEF OwnStep
  <2> QED BY <1>7, <2>2, <2>4, StartGood
<1> QED BY <1>1, <1>6, <1>7

LEMMA NewBlockGood ==
  ASSUME GoodNow, NewBlock
  PROVE  GoodNow'
<1>1. chain < MaxBlocks /\ chain' = chain + 1 /\ UNCHANGED <<db, srv, file, used>>
  BY DEF NewBlock
<1>2. /\ db \in Database /\ chain \in Nat /\ used.keys \in Nat /\ DbOK(db, chain, used.keys)
      /\ Grows(db, db) /\ FreesOnly(db, db, 0) /\ chain' \in Nat /\ chain <= chain'
      /\ MaxBlocks \in Nat
  BY <1>1, FactsOf, GrowsRefl, FogAssumption DEF FreesOnly
<1>3. DbOK(db, chain', used.keys)
  BY <1>2, DbMoreKeys
<1>4. \A s \in Server : ServerOK(srv[s], db, chain', used.keys)
  <2> SUFFICES ASSUME NEW s \in Server PROVE ServerOK(srv[s], db, chain', used.keys)
    OBVIOUS
  <2>1. srv[s] \in ServerType /\ ServerOK(srv[s], db, chain, used.keys)
    BY FactsOf
  <2> QED BY <1>2, <2>1, ServerKept
<1>5. \A s \in Server : \A x \in file[s] : FileOK(x, db, chain', used.keys)
  <2> SUFFICES ASSUME NEW s \in Server, NEW x \in file[s] PROVE FileOK(x, db, chain', used.keys)
    OBVIOUS
  <2>1. x \in SummaryType /\ FileOK(x, db, chain, used.keys)
    BY DEF GoodNow, Good, Types, Sound
  <2> QED BY <1>2, <2>1, FileKept
<1>6. chain' \in 1 .. MaxBlocks
  BY <1>1, <1>2 DEF GoodNow, Good, Sound
<1>7. Good(db, srv, file, chain', used)
  BY <1>2, <1>3, <1>4, <1>5, <1>6 DEF GoodNow, Good, Types, Sound
<1> QED BY <1>1, <1>7 DEF GoodNow

-----------------------------------------------------------------------------
(* The invariant *)

LEMMA InitGood == Init => IInv
<1> SUFFICES ASSUME Init PROVE IInv
  OBVIOUS
<1> USE FogAssumption
<1>1. /\ db = EmptyDb /\ srv = [s \in Server |-> Fresh(s, s)]
      /\ file = [s \in Server |-> Summary(srv[s])] /\ chain = 1
      /\ used = [keys |-> NumServers, egress |-> NumServers, faults |-> 0, commands |-> 0]
  BY DEF Init, FogInit
<1>2. Server \subseteq Nat
  BY DEF Server
<1>3. /\ db \in Database /\ Known(db) = {} /\ db.blocks = {} /\ db.report = {}
      /\ db.invocations = << >>
  BY <1>1, EmptyIsDatabase
<1>4. DbOK(db, chain, used.keys)
  BY <1>3 DEF DbOK, Whole
<1>5. \A s \in Server : srv[s] \in ServerType /\ srv[s].iid = 0 /\ srv[s].up
  BY <1>1, <1>2, FreshServer DEF Fresh
<1>6. \A s \in Server : ServerOK(srv[s], db, chain, used.keys)
  BY <1>1, <1>2 DEF ServerOK, Fresh, Server, Activating
<1>7. \A s \in Server : /\ file[s] \in SUBSET SummaryType
                         /\ \A x \in file[s] : FileOK(x, db, chain, used.keys)
  BY <1>1, <1>5, <1>6, SummaryOK
<1>8. srv \in [Server -> ServerType] /\ file \in [Server -> SUBSET SummaryType]
  BY <1>1, <1>5, <1>7
<1>9. used \in UsedType /\ used.keys = NumServers /\ chain \in 1 .. MaxBlocks
  BY <1>1 DEF UsedType
<1>10. Good(db, srv, file, chain, used)
  BY <1>3, <1>4, <1>5, <1>6, <1>7, <1>8, <1>9 DEF Good, Types, Sound, OwnInvocations
<1>11. Watched(ov, db)
  BY DEF Init, OvInit, Poll, Watched, OvType
<1> QED BY <1>10, <1>11 DEF IInv

LEMMA IngestStepGood ==
  ASSUME GoodNow, FogNext
  PROVE  GoodNow' /\ Grows(db, db')
<1>0. Grows(db, db)
  BY FactsOf, GrowsRefl
<1>1. CASE NewBlock
  BY <1>0, <1>1, NewBlockGood DEF NewBlock
<1>2. ASSUME NEW s \in Server,
             \/ WorkerStep(s) \/ ActivateStep(s) \/ CheckPeer(s) \/ CorrectPeer(s)
             \/ Operator(s) \/ Crash(s) \/ RestartFresh(s) \/ Restart(s)
      PROVE  GoodNow' /\ Grows(db, db')
  <2>1. CASE BeginBlock(s)
    BY <2>1, BeginBlockGood
  <2>2. CASE IngestChunk(s)
    BY <1>0, <2>2, IngestChunkGood DEF IngestChunk
  <2>3. CASE Overflow(s)
    BY <2>3, OverflowGood
  <2>4. CASE IngestFails(s)
    BY <1>0, <2>4, IngestFailsGood DEF IngestFails
  <2>5. CASE CommitBlock(s)
    BY <2>5, CommitBlockGood
  <2>6. CASE SaveState(s)
    BY <1>0, <2>6, SaveStateGood DEF SaveState
  <2>7. CASE ActivateStatus(s)
    BY <1>0, <2>7, ActivateStatusGood DEF ActivateStatus
  <2>8. CASE ActivateBackup(s)
    BY <1>0, <2>8, ActivateBackupGood DEF ActivateBackup
  <2>9. CASE ActivateStart(s)
    BY <2>9, ActivateStartGood
  <2>10. CASE ActivateFinish(s)
    BY <2>10, ActivateFinishGood
  <2>11. CASE ActivateSave(s)
    BY <1>0, <2>11, ActivateSaveGood DEF ActivateSave
  <2>12. CASE CheckPeer(s)
    BY <1>0, <2>12, CheckPeerGood DEF CheckPeer
  <2>13. CASE CorrectPeer(s)
    BY <1>0, <2>13, CorrectPeerGood DEF CorrectPeer
  <2>14. CASE Operator(s)
    BY <2>14, OperatorGood
  <2>15. CASE Crash(s)
    BY <1>0, <2>15, CrashGood DEF Crash
  <2>16. CASE RestartFresh(s)
    BY <1>0, <2>16, RestartFreshGood DEF RestartFresh, Start
  <2>17. CASE Restart(s)
    BY <1>0, <2>17, RestartGood DEF Restart, Start
  <2> QED BY <1>2, <2>1, <2>2, <2>3, <2>4, <2>5, <2>6, <2>7, <2>8, <2>9, <2>10, <2>11,
             <2>12, <2>13, <2>14, <2>15, <2>16, <2>17 DEF WorkerStep, ActivateStep
<1> QED BY <1>1, <1>2 DEF FogNext

LEMMA FailedWatched ==
  ASSUME NEW d, Watched(ov, d), ov.step \in {"new_keys", "activate", "wait"}
  PROVE  Watched(Failed, d) /\ Failed \in OvType /\ Failed.node \in Nat
         /\ (Failed.step # "poll" => Failed.node \in Server)
<1>0. NumServers \in Nat /\ NumberOfTries \in Nat
  BY FogAssumption, OverseerAssumption
<1>1. /\ ov \in OvType /\ ov.node \in Server /\ ov.tries \in Nat /\ ov.node \in Nat
      /\ ov.step \notin {"poll", "lost"}
  BY DEF Watched, OvType
<1>2. CASE ov.tries > 1
  <2>1. ov.tries - 1 \in Nat
    BY <1>1, <1>2
  <2> QED BY <1>1, <1>2, <2>1 DEF Failed, OvType, Watched
<1>3. CASE ~(ov.tries > 1) /\ ov.step = "new_keys" /\ ov.node < NumServers
  <2>1. ov.node + 1 \in Server /\ ov.node + 1 \in Nat
    BY <1>0, <1>1, <1>3 DEF Server
  <2> QED BY <1>0, <1>1, <1>3, <2>1 DEF Failed, OvType, Watched
<1>4. CASE ~(ov.tries > 1) /\ ~(ov.step = "new_keys" /\ ov.node < NumServers)
  BY <1>4 DEF Failed, Poll, OvType, Watched
<1> QED BY <1>2, <1>3, <1>4

LEMMA OverseerStepGood ==
  ASSUME IInv, OverseerStep
  PROVE  IInv' /\ Grows(db, db')
<1>0. /\ GoodNow /\ Watched(ov, db) /\ ov \in OvType /\ Grows(db, db)
      /\ NumServers \in Nat \ {0} /\ NumberOfTries \in Nat
      /\ db \in Database /\ used \in UsedType
  BY FactsOf, GrowsRefl, FogAssumption, OverseerAssumption DEF IInv, GoodNow, Watched
<1>1. Watched(Poll(TRUE), db) /\ Watched(Poll(FALSE), db) /\ \A d : Watched(Poll(TRUE), d)
  BY DEF Poll, Watched, OvType
<1>2. \A d : Watched(SetNewKey, d)
  <2>1. 1 \in Server
    BY <1>0 DEF Server
  <2> QED BY <1>0, <2>1 DEF SetNewKey, Watched, OvType
<1>3. ASSUME UNCHANGED fogVars, Watched(ov', db) PROVE IInv' /\ Grows(db, db')
  BY <1>0, <1>3 DEF fogVars, IInv, GoodNow
<1>4. CASE GetStatus
  <2> DEFINE s == Len(ov.seen) + 1
             status == [mode |-> srv[s].mode, key |-> srv[s].key]
  <2>1. s \in Server
    BY <1>0, <1>4 DEF GetStatus, OvType, Server
  <2>2. status \in [mode : Mode, key : Nat]
    BY <1>0, <2>1, FactsOf DEF ServerType
  <2>3. UNCHANGED fogVars /\ (ov' = [ov EXCEPT !.seen = Append(ov.seen, status)] \/ ov' = Poll(TRUE))
    BY <1>4 DEF GetStatus
  <2> HIDE DEF status
  <2>4. Append(ov.seen, status) \in Seq([mode : Mode, key : Nat])
    BY <1>0, <2>2 DEF OvType
  <2>5. Watched([ov EXCEPT !.seen = Append(ov.seen, status)], db)
    BY <1>0, <2>4 DEF Watched, OvType
  <2> QED BY <1>1, <1>3, <2>3, <2>5
<1>5. CASE Decide
  <2> DEFINE holders == {s \in Server : ov.seen[s].key \in Outstanding(db)}
             lost == [ov EXCEPT !.step = "lost", !.key = Max(Outstanding(db))]
             act == [ov EXCEPT !.step = "activate", !.node = Min(holders), !.tries = 1]
  <2>1. /\ UNCHANGED fogVars
        /\ \/ ov' \in {Poll(TRUE), SetNewKey, Poll(FALSE)}
           \/ Outstanding(db) # {} /\ ov' = lost
           \/ holders # {} /\ ov' = act
    BY <1>5 DEF Decide
  <2>2. ASSUME Outstanding(db) # {} PROVE Watched(lost, db)
    <3> DEFINE S == Outstanding(db)
    <3>1. used.keys \in Nat /\ Known(db) \subseteq 0 .. used.keys
      BY <1>0, FactsOf DEF DbOK
    <3>2. S \in SUBSET (0 .. used.keys) /\ S \subseteq Known(db)
      BY <3>1 DEF Outstanding
    <3> HIDE DEF S
    <3>3. Max(S) \in S
      BY <2>2, <3>1, <3>2, MaxIsFound DEF S
    <3>4. Max(S) \in Known(db) /\ Max(S) \in Nat
      <4>1. Known(db) \subseteq Nat
        BY <3>1
      <4> QED BY <3>2, <3>3, <4>1
    <3> QED BY <1>0, <3>4 DEF Watched, OvType, S
  <2>3. ASSUME holders # {} PROVE Watched(act, db)
    <3>1. holders \in SUBSET Nat
      BY DEF Server
    <3> HIDE DEF holders
    <3>2. Min(holders) \in holders
      BY <2>3, <3>1, MinIsFound
    <3>3. Min(holders) \in Server /\ Min(holders) \in Nat
      BY <3>1, <3>2 DEF holders
    <3> QED BY <1>0, <3>3 DEF Watched, OvType
  <2> HIDE DEF lost, act
  <2> QED BY <1>1, <1>2, <1>3, <2>1, <2>2, <2>3
<1>6. CASE GiveUpKey
  <2>1. /\ ov.step = "lost" /\ db' = report_lost_ingress_key(db, ov.key)
        /\ ov' \in {Poll(TRUE), SetNewKey} /\ UNCHANGED <<srv, file, chain, used>>
    BY <1>6 DEF GiveUpKey
  <2>2. ov.key \in Known(db)
    BY <1>0, <2>1 DEF Watched
  <2>3. GoodNow' /\ Grows(db, db')
    BY <1>0, <2>1, <2>2, LostGood
  <2> QED BY <1>1, <1>2, <2>1, <2>3 DEF IInv, GoodNow
<1>7. CASE TryNewKeys
  <2>1. ov.step = "new_keys" /\ chain' = chain
    BY <1>7 DEF TryNewKeys
  <2>2. ov.node \in Server
    BY <1>0, <2>1 DEF Watched
  <2>3. CASE /\ NewKeys(ov.node, 0)
             /\ ov' = [ov EXCEPT !.step = "activate", !.tries = NumberOfTries]
    <3>1. GoodNow' /\ db' = db
      BY <1>0, <2>1, <2>2, <2>3, NewKeysGood
    <3>2. Watched(ov', db)
      BY <1>0, <2>2, <2>3 DEF Watched, OvType
    <3> QED BY <1>0, <3>1, <3>2 DEF IInv, GoodNow
  <2>4. CASE ov' = Failed /\ UNCHANGED <<db, srv, file, used>>
    BY <1>0, <1>3, <2>1, <2>4, FailedWatched DEF fogVars
  <2> QED BY <1>7, <2>3, <2>4 DEF TryNewKeys
<1>8. CASE CallActivate
  <2>1. /\ ov.step = "activate" /\ BeginActivate(ov.node)
        /\ ov' = [ov EXCEPT !.step = "wait"] /\ UNCHANGED <<chain, used>>
    BY <1>8 DEF CallActivate
  <2>2. ov.node \in Server
    BY <1>0, <2>1 DEF Watched
  <2>3. GoodNow' /\ db' = db
    BY <1>0, <2>1, <2>2, BeginActivateGood DEF BeginActivate
  <2>4. Watched(ov', db)
    BY <1>0, <2>1, <2>2 DEF Watched, OvType
  <2> QED BY <1>0, <2>3, <2>4 DEF IInv, GoodNow
<1>9. CASE EndActivate
  <2>1. /\ ov.step \in {"wait", "activate"} /\ UNCHANGED fogVars
        /\ \/ ov' = Poll(TRUE)
           \/ ov' = [Failed EXCEPT !.step = IF Failed.step = "poll" THEN Failed.step ELSE "activate"]
    BY <1>9 DEF EndActivate
  <2>2. Failed \in OvType /\ Watched(Failed, db) /\ (Failed.step # "poll" => Failed.node \in Server)
    BY <1>0, <2>1, FailedWatched
  <2>3. Watched([Failed EXCEPT !.step = IF Failed.step = "poll" THEN Failed.step ELSE "activate"], db)
    BY <2>2 DEF Watched, OvType
  <2> QED BY <1>1, <1>3, <2>1, <2>3
<1> QED BY <1>4, <1>5, <1>6, <1>7, <1>8, <1>9 DEF OverseerStep

LEMMA StepGood ==
  ASSUME IInv, [Next]_vars
  PROVE  IInv' /\ Grows(db, db')
<1>1. CASE FogNext /\ UNCHANGED ov
  <2>1. GoodNow' /\ Grows(db, db')
    BY <1>1, IngestStepGood DEF IInv, GoodNow
  <2>2. Watched(ov, db')
    BY <2>1 DEF IInv, Watched, Grows
  <2> QED BY <1>1, <2>1, <2>2 DEF IInv, GoodNow
<1>2. CASE OverseerStep
  BY <1>2, OverseerStepGood
<1>3. CASE UNCHANGED vars
  <2>1. Grows(db, db)
    BY FactsOf, GrowsRefl DEF IInv, GoodNow
  <2> QED BY <1>3, <2>1 DEF vars, fogVars, IInv
<1> QED BY <1>1, <1>2, <1>3 DEF Next

(* The inductive invariant holds in every reachable state of the ingest    *)
(* cluster and its overseer.                                               *)
THEOREM Invariance == Spec => []IInv
<1>1. IInv /\ [Next]_vars => IInv'
  BY StepGood
<1> QED BY <1>1, InitGood, PTL DEF Spec

(* The tables and the servers keep their types and bounds: every key was   *)
(* drawn, starts within the ledger and expires within the window past it,  *)
(* every row refers to an invocation, no server is past the ledger, and an *)
(* active server runs with a key that the database knows.                  *)
THEOREM Typing == Spec => []TypeOK
<1>1. IInv => TypeOK
  <2> SUFFICES ASSUME IInv PROVE TypeOK
    OBVIOUS
  <2> USE FogAssumption
  <2>1. GoodNow /\ chain \in 1 .. MaxBlocks
    BY DEF IInv, GoodNow, Good, Sound
  <2>2. /\ db \in Database /\ used.keys \in Nat /\ used.keys <= MaxKeys /\ chain \in Nat
        /\ DbOK(db, chain, used.keys)
        /\ \A s \in Server : srv[s] \in ServerType /\ ServerOK(srv[s], db, chain, used.keys)
    BY <2>1, FactsOf
  <2>3. Known(db) \subseteq 1 .. MaxKeys
    BY <2>2 DEF DbOK
  <2>4. ASSUME NEW k \in Known(db)
        PROVE  db.keys[k] \in [start : 0 .. MaxBlocks, expiry : 0 .. MaxBlocks + Window,
                               retired : BOOLEAN, lost : BOOLEAN]
    <3>1. db.keys[k] \in KeyRow
      BY <2>2, KeysOf
    <3>2. db.keys[k].start <= chain /\ db.keys[k].expiry <= chain + Window
      BY <2>2 DEF DbOK
    <3>3. db.keys[k].start \in 0 .. MaxBlocks /\ db.keys[k].expiry \in 0 .. MaxBlocks + Window
      BY <2>1, <3>1, <3>2 DEF KeyRow
    <3> QED BY <3>1, <3>3 DEF KeyRow
  <2>5. DOMAIN db.invocations = 1 .. Len(db.invocations)
    BY <2>2 DEF Database
  <2>6. \A b \in db.blocks : b.key \in Known(db) /\ b.index < chain /\ b.iid \in DOMAIN db.invocations
    BY <2>2, <2>5 DEF DbOK, Whole
  <2>7. ASSUME NEW s \in Server
        PROVE  /\ srv[s].next <= chain /\ srv[s].iid \in {0} \cup DOMAIN db.invocations
               /\ srv[s].chunk \in 0 .. NumChunks
               /\ srv[s].mode = "Active" => srv[s].up /\ srv[s].key \in Known(db)
    <3>1. srv[s] \in ServerType /\ ServerOK(srv[s], db, chain, used.keys)
      BY <2>2
    <3> QED BY <2>5, <3>1 DEF ServerOK, ServerType, Holds, Follows
  <2> QED BY <2>3, <2>4, <2>6, <2>7 DEF TypeOK
<1> QED BY <1>1, Invariance, PTL

(* No key ever skips a block: whichever servers scan with it, in whatever  *)
(* order they crash, restart from a stale state file, are activated by the *)
(* operator or the overseer, or lose a block to another server.            *)
THEOREM NoBlockSkipped == Spec => []NoSkippedBlock
<1>1. IInv => NoSkippedBlock
  <2> SUFFICES ASSUME IInv, NEW k \in Known(db), NEW i \in Scanned(db, k)
               PROVE  /\ i >= db.keys[k].start
                      /\ i > db.keys[k].start => i - 1 \in Scanned(db, k)
    BY DEF NoSkippedBlock
  <2>1. db \in Database /\ Whole(db)
    BY DEF IInv, Good, Types, Sound, DbOK
  <2>2. PICK b \in db.blocks : b.key = k /\ b.index = i
    BY DEF Scanned
  <2>3. db.keys[k].start <= i /\ \A j \in db.keys[k].start .. i : j \in Scanned(db, k)
    BY <2>1, <2>2 DEF Whole
  <2>4. i \in Nat /\ db.keys[k].start \in Nat
    BY <2>1, <2>2, KeysOf DEF Database, BlockRow, KeyRow
  <2> QED BY <2>3, <2>4
<1> QED BY <1>1, Invariance, PTL

(* The expiry published for a key never shrinks and does not move while    *)
(* the key is retired, whoever publishes reports for it and whatever they  *)
(* were activated with; the report that is shown is within it.             *)
THEOREM ExpiryHeld == Spec => ExpiryKept
<1>1. ASSUME IInv, [Next]_vars
      PROVE  [/\ \A k \in Known(db) :
                    /\ db'.keys[k].expiry >= db.keys[k].expiry
                    /\ db.keys[k].retired /\ db'.keys[k].retired
                          => db'.keys[k].expiry = db.keys[k].expiry
              /\ \A r \in db'.report : r.expiry <= db'.keys[r.key].expiry]_fogVars
  <2>1. Grows(db, db') /\ IInv'
    BY <1>1, StepGood
  <2>2. \A r \in db'.report : r.expiry <= db'.keys[r.key].expiry
    BY <2>1 DEF IInv, Good, Sound, DbOK
  <2> QED BY <2>1, <2>2 DEF Grows
<1> QED BY <1>1, Invariance, PTL DEF Spec, ExpiryKept

(* A step of a server gives a key up only when the operator reports it.   *)
LossOnly(d, e) ==
  \/ SameLost(d, e)
  \/ "report_lost" \in Commands /\ \E k \in Known(d) : e = report_lost_ingress_key(d, k)

LEMMA NewEgressLoss ==
  ASSUME NEW d \in Database, NEW s \in Server, NEW step, new_egress_key(s, d, step)
  PROVE  db'.keys = d.keys
BY LostKept DEF new_egress_key

LEMMA WorkerLoss ==
  ASSUME GoodNow, NEW s \in Server, WorkerStep(s)
  PROVE  LossOnly(db, db')
<1>0. /\ db \in Database /\ SameLost(db, db)
      /\ \A d : d.keys = db.keys => SameLost(db, d)
  BY FactsOf DEF SameLost
<1>1. CASE BeginBlock(s)
  <2>1. srv[s].key \in Known(db) /\ chain \in Nat /\ srv[s].next \in Nat
    BY <1>1, FactsOf DEF BeginBlock, ServerOK, Holds, Follows, ServerType
  <2> DEFINE reported == set_report(db, srv[s].key, srv[s].next + Window)
  <2>2. SameLost(db, reported)
    BY <1>0, LostKept
  <2>3. reported \in Database
    <3>1. srv[s].next + Window \in Nat /\ db.keys[srv[s].key].expiry \in Nat
      BY <1>0, <2>1, KeysOf, FogAssumption DEF KeyRow
    <3> DEFINE x == srv[s].next + Window
               N == x + db.keys[srv[s].key].expiry
    <3>2. N \in Nat /\ x \in Nat /\ x <= N /\ db.keys[srv[s].key].expiry <= N
      BY <3>1
    <3> HIDE DEF N
    <3> QED BY <1>0, <2>1, <3>2, SetReport
  <2>4. \/ new_egress_key(s, reported, "poll")
        \/ db' = IF srv[s].iid # 0 THEN reported
                 ELSE new_ingest_invocation(reported, 0, srv[s].key, srv[s].egress, srv[s].next)
    BY <1>1 DEF BeginBlock
  <2> HIDE DEF reported
  <2>5. db'.keys = reported.keys
    BY <2>3, <2>4, NewEgressLoss, LostKept
  <2> QED BY <2>2, <2>5 DEF SameLost, LossOnly
<1>2. CASE Overflow(s)
  BY <1>0, <1>2, LostKept DEF Overflow, LossOnly
<1>3. CASE CommitBlock(s)
  <2>1. db'.keys = db.keys
    BY <1>0, <1>3, NewEgressLoss, LostKept DEF CommitBlock
  <2> QED BY <1>0, <2>1 DEF LossOnly
<1>4. CASE IngestChunk(s) \/ IngestFails(s) \/ SaveState(s)
  BY <1>0, <1>4 DEF IngestChunk, IngestFails, SaveState, LossOnly
<1> QED BY <1>1, <1>2, <1>3, <1>4 DEF WorkerStep

LEMMA NewKeysLoss ==
  ASSUME db \in Database, NEW s \in Server, NEW cost, NewKeys(s, cost)
  PROVE  LossOnly(db, db')
BY LostKept DEF NewKeys, LossOnly, SameLost

LEMMA CommandLoss ==
  ASSUME GoodNow, NEW s \in Server,
         ActivateStep(s) \/ CheckPeer(s) \/ CorrectPeer(s) \/ Operator(s) \/ Crash(s)
           \/ RestartFresh(s) \/ Restart(s)
  PROVE  LossOnly(db, db')
<1>0. db \in Database /\ LossOnly(db, db)
  BY FactsOf DEF SameLost, LossOnly
<1>1. CASE ActivateStep(s)
  <2>1. CASE ActivateStatus(s) \/ ActivateBackup(s) \/ ActivateSave(s)
    BY <1>0, <2>1 DEF ActivateStatus, ActivateBackup, ActivateSave
  <2>2. CASE ActivateStart(s)
    BY <1>0, <2>2, LostKept DEF ActivateStart, LossOnly
  <2>3. CASE ActivateFinish(s)
    BY <1>0, <2>3, LostKept DEF ActivateFinish, LossOnly
  <2> QED BY <1>1, <2>1, <2>2, <2>3 DEF ActivateStep
<1>2. CASE CheckPeer(s) \/ CorrectPeer(s) \/ Crash(s)
  BY <1>0, <1>2 DEF CheckPeer, CorrectPeer, Crash
<1>3. CASE RestartFresh(s) \/ Restart(s)
  <2>1. \E server : Start(s, server)
    <3>1. CASE RestartFresh(s)
      BY <3>1 DEF RestartFresh
    <3>2. CASE Restart(s)
      BY ZenonT(40), <3>2 DEF Restart
    <3> QED BY <1>3, <3>1, <3>2
  <2> QED BY <1>0, <2>1 DEF Start
<1>4. CASE Operator(s)
  <2>1. CASE NewKeys(s, 1)
    BY <1>0, <2>1, NewKeysLoss
  <2>2. CASE BeginActivate(s) \/ SyncKeys(s) \/ SetPeers(s)
    BY <1>0, <2>2 DEF BeginActivate, SyncKeys, SetPeers
  <2>3. CASE Retire(s, TRUE) \/ Retire(s, FALSE)
    BY <1>0, <2>3, LostKept DEF Retire, LossOnly
  <2>4. CASE "report_lost" \in Commands /\ ReportLost(s)
    BY <2>4 DEF ReportLost, LossOnly
  <2> QED BY <1>4, <2>1, <2>2, <2>3, <2>4 DEF Operator
<1> QED BY <1>1, <1>2, <1>3, <1>4

LEMMA StepLoss ==
  ASSUME IInv, [Next]_vars
  PROVE  LossOnly(db, db') \/ GiveUpKey
<1>0. GoodNow /\ db \in Database /\ LossOnly(db, db)
  BY FactsOf DEF IInv, GoodNow, SameLost, LossOnly
<1>1. CASE FogNext
  <2>1. CASE NewBlock
    BY <1>0, <2>1 DEF NewBlock
  <2> QED BY <1>0, <1>1, <2>1, WorkerLoss, CommandLoss DEF FogNext
<1>2. CASE OverseerStep
  <2>1. CASE GiveUpKey
    BY <2>1
  <2>2. CASE TryNewKeys
    <3>1. ov.node \in Server
      BY <2>2 DEF IInv, Watched, TryNewKeys
    <3> QED BY <1>0, <2>2, <3>1, NewKeysLoss DEF TryNewKeys
  <2>3. CASE GetStatus \/ Decide \/ EndActivate
    BY <1>0, <2>3 DEF GetStatus, Decide, EndActivate, fogVars
  <2>4. CASE CallActivate
    BY <1>0, <2>4 DEF CallActivate, BeginActivate
  <2> QED BY <1>2, <2>1, <2>2, <2>3, <2>4 DEF OverseerStep
<1>3. CASE UNCHANGED vars
  BY <1>0, <1>3 DEF vars, fogVars
<1> QED BY <1>1, <1>2, <1>3 DEF Next

(* Whoever gives a key up for lost, and at whatever moment of a failover,  *)
(* every block its users were promised is scanned or announced as missed   *)
(* from then on: what report_lost_ingress_key announces starts right past  *)
(* the blocks scanned, among which there is no hole.                       *)
THEOREM LossesAnnounced == Spec => LossAnnounced
<1>1. ASSUME IInv, [Next]_vars
      PROVE  [\A k \in Known(db) :
                 ~db.keys[k].lost /\ db'.keys[k].lost => Owed(db', k) = {}]_fogVars
  <2> SUFFICES ASSUME NEW j \in Known(db), ~db.keys[j].lost, db'.keys[j].lost
               PROVE  Owed(db', j) = {}
    OBVIOUS
  <2>1. ~SameLost(db, db')
    BY DEF SameLost
  <2>2. PICK k \in Known(db) : db' = report_lost_ingress_key(db, k)
    <3>1. CASE GiveUpKey
      BY <1>1, <3>1 DEF IInv, Watched, GiveUpKey
    <3> QED BY <1>1, <2>1, <3>1, StepLoss DEF LossOnly
  <2>3. /\ db \in Database /\ Whole(db) /\ chain \in Nat /\ db.keys[k].start <= chain
        /\ \A b \in db.blocks : b.index < chain
    BY <1>1, FactsOf DEF IInv, GoodNow, DbOK
  <2>4. /\ \A i \in Known(db) \ {k} : db'.keys[i].lost = db.keys[i].lost
        /\ db'.keys[k].lost => db.keys[k].lost \/ Owed(db', k) = {}
    BY <2>2, <2>3, LostIsAnnounced
  <2> QED BY <2>4
<1> QED BY <1>1, Invariance, PTL DEF Spec, LossAnnounced

-----------------------------------------------------------------------------
(* At most one server is active, where only the overseer activates.  Every *)
(* step that makes a server idle writes its state file, so that a status   *)
(* the overseer took of a server that was up and idle says that the server *)
(* is at rest, and a server at rest leaves that state only at the end of   *)
(* an activation: which the overseer alone begins, waits for, and begins   *)
(* only when all other servers are at rest.                                *)

Rest(x, y) == x.mode = "Idle" /\ \A f \in y : f.mode = "Idle"

(* The state file y of a server x that runs does not make it active again  *)
(* when it is idle.                                                        *)
Agree(x, y) == x.up /\ x.mode # "Active" => \A f \in y : f.mode = "Idle"

(* What no step but the begin of an activation does to a server. *)
Calm(x, y, x2, y2) ==
  /\ Agree(x, y) => Agree(x2, y2)
  /\ Agree(x, y) /\ Rest(x, y) /\ x.call # "finish" => Rest(x2, y2)
  /\ x2.call # "none" => x.call # "none"

AllCalm == \A t \in Server : Calm(srv[t], file[t], srv'[t], file'[t])

(* What the overseer knows of the servers v, their state files f. *)
Led(v, f, o) ==
  /\ \A s \in Server : Agree(v[s], f[s])
  /\ \A s \in Server : v[s].call # "none" => o.step = "wait" /\ o.node = s
  /\ o.step = "poll" => \A s \in Server :
        s <= Len(o.seen) /\ o.seen[s].mode # "Active" => Rest(v[s], f[s])
  /\ o.step \in {"lost", "new_keys"} => \A s \in Server : Rest(v[s], f[s])
  /\ o.step \in {"activate", "wait"} => \A s \in Server : s # o.node => Rest(v[s], f[s])
  /\ \A s, t \in Server : ~Rest(v[s], f[s]) /\ ~Rest(v[t], f[t]) => s = t

QInv == IInv /\ Led(srv, file, ov)

LEMMA CalmSame ==
  ASSUME NEW x, NEW y
  PROVE  Calm(x, y, x, y)
BY DEF Calm

(* A step that neither starts nor stops the server nor writes its file. *)
LEMMA CalmUnwritten ==
  ASSUME NEW x, NEW y, NEW x2, x2.mode = x.mode, x2.up = x.up,
         x2.call # "none" => x.call # "none"
  PROVE  Calm(x, y, x2, y)
BY DEF Calm, Agree, Rest

(* A step that writes its file. *)
LEMMA CalmWritten ==
  ASSUME NEW x, NEW y, NEW x2, x2.mode = x.mode \/ x2.mode = "Idle", x.mode \in Mode,
         x2.call # "none" => x.call # "none"
  PROVE  Calm(x, y, x2, Summary(x2))
<1>1. \A f \in Summary(x2) : f.mode = x2.mode
  BY DEF Summary
<1>2. x2.mode \in Mode
  BY DEF Mode
<1> QED BY <1>1, <1>2 DEF Calm, Agree, Rest, Mode

(* A step that changes at most server s. *)
LEMMA CalmOne ==
  ASSUME NEW s \in Server, NEW x, NEW y, Calm(srv[s], file[s], x, y),
         srv \in [Server -> ServerType], file \in [Server -> SUBSET SummaryType],
         srv' = [srv EXCEPT ![s] = x], file' = [file EXCEPT ![s] = y]
  PROVE  AllCalm
<1>1. srv'[s] = x /\ file'[s] = y
  OBVIOUS
<1>2. \A t \in Server : t # s => srv'[t] = srv[t] /\ file'[t] = file[t]
  OBVIOUS
<1> QED BY <1>1, <1>2, CalmSame DEF AllCalm

(* No server changes its mode, starts, stops or begins an activation. *)
Steady(v, w) ==
  \A t \in Server : /\ w[t].mode = v[t].mode /\ w[t].up = v[t].up
                    /\ w[t].call # "none" => v[t].call # "none"

LEMMA SteadyCalm ==
  ASSUME srv \in [Server -> ServerType], Steady(srv, srv'),
         \A t \in Server : file'[t] = file[t] \/ \A f \in file'[t] : f.mode = srv[t].mode
  PROVE  AllCalm
<1> SUFFICES ASSUME NEW t \in Server PROVE Calm(srv[t], file[t], srv'[t], file'[t])
  BY DEF AllCalm
<1>1. /\ srv'[t].mode = srv[t].mode /\ srv'[t].up = srv[t].up
      /\ srv'[t].call # "none" => srv[t].call # "none"
  BY DEF Steady
<1>2. srv[t].mode \in Mode
  BY DEF ServerType
<1>3. CASE file'[t] = file[t]
  BY <1>1, <1>3 DEF Calm, Agree, Rest
<1>4. CASE \A f \in file'[t] : f.mode = srv[t].mode
  BY <1>1, <1>2, <1>4 DEF Calm, Agree, Rest, Mode
<1> QED BY <1>3, <1>4

LEMMA EndCallSteady ==
  ASSUME srv \in [Server -> ServerType], NEW s \in Server
  PROVE  Steady(srv, EndCall(s))
BY DEF Steady, EndCall, ServerType

LEMMA PerformCalm ==
  ASSUME GoodNow, NEW v \in [Server -> ServerType], Steady(srv, v), NEW t, Perform(t, v)
  PROVE  AllCalm
<1>0. srv \in [Server -> ServerType] /\ file \in [Server -> SUBSET SummaryType]
  BY FactsOf
<1>1. \A r \in Server : /\ srv'[r].mode = v[r].mode /\ srv'[r].up = v[r].up
                         /\ srv'[r].call = v[r].call
  BY DEF Perform, ServerType
<1>2. Steady(srv, srv')
  BY <1>1 DEF Steady
<1>3. ASSUME NEW r \in Server
      PROVE  file'[r] = file[r] \/ \A f \in file'[r] : f.mode = srv[r].mode
  <2> DEFINE x == [srv[t.peer] EXCEPT !.key = t.key]
  <2>1. file' = file \/ file' = [file EXCEPT ![t.peer] = Summary(x)]
    BY DEF Perform
  <2>2. t.peer = r => \A f \in Summary(x) : f.mode = srv[r].mode
    <3>1. t.peer = r => x.mode = srv[r].mode
      BY <1>0 DEF ServerType
    <3> HIDE DEF x
    <3> QED BY <3>1 DEF Summary
  <2> HIDE DEF x
  <2> QED BY <1>0, <2>1, <2>2
<1> QED BY <1>0, <1>2, <1>3, SteadyCalm

LEMMA NewEgressCalm ==
  ASSUME GoodNow, NEW s \in Server, NEW d, NEW step, new_egress_key(s, d, step)
  PROVE  AllCalm
<1>0. srv \in [Server -> ServerType] /\ file \in [Server -> SUBSET SummaryType]
  BY FactsOf
<1> DEFINE x == [srv[s] EXCEPT !.mode = "Idle", !.iid = 0, !.egress = used.egress + 1, !.rng = 0,
                               !.work = step, !.rows = {}, !.chunk = 0]
<1>1. x.mode = "Idle" /\ x.call = srv[s].call /\ srv[s].mode \in Mode
  BY <1>0 DEF ServerType
<1>2. srv' = [srv EXCEPT ![s] = x]
  BY <1>0 DEF new_egress_key
<1> HIDE DEF x
<1>3. file' = [file EXCEPT ![s] = Summary(x)]
  BY <1>0, <1>2 DEF new_egress_key
<1>4. Calm(srv[s], file[s], x, Summary(x))
  BY <1>1, CalmWritten
<1> QED BY <1>0, <1>2, <1>3, <1>4, CalmOne

LEMMA WorkerCalm ==
  ASSUME GoodNow, NEW s \in Server, WorkerStep(s)
  PROVE  AllCalm
<1>0. srv \in [Server -> ServerType] /\ file \in [Server -> SUBSET SummaryType]
  BY FactsOf
<1>1. CASE BeginBlock(s)
  <2>1. CASE \E d : new_egress_key(s, d, "poll")
    BY <2>1, NewEgressCalm
  <2>2. CASE /\ srv' = [srv EXCEPT ![s].iid = IF @ # 0 THEN @ ELSE Len(db'.invocations),
                                   ![s].work = "ingest"]
             /\ file' = file
    <3>1. Steady(srv, srv')
      BY <1>0, <2>2 DEF Steady, ServerType
    <3> QED BY <1>0, <2>2, <3>1, SteadyCalm
  <2> QED BY <1>1, <2>1, <2>2 DEF BeginBlock
<1>2. CASE Overflow(s)
  <2>1. Steady(srv, srv')
    BY <1>0, <1>2 DEF Overflow, Steady, ServerType
  <2> QED BY <1>0, <1>2, <2>1, SteadyCalm DEF Overflow
<1>3. CASE CommitBlock(s)
  <2>1. CASE new_egress_key(s, db, "save")
    BY <2>1, NewEgressCalm
  <2>2. CASE /\ srv' = [srv EXCEPT ![s].next = @ + 1, ![s].work = "save",
                                   ![s].rows = {}, ![s].chunk = 0]
             /\ file' = file
    <3>1. Steady(srv, srv')
      BY <1>0, <2>2 DEF Steady, ServerType
    <3> QED BY <1>0, <2>2, <3>1, SteadyCalm
  <2> QED BY <1>3, <2>1, <2>2 DEF CommitBlock
<1>4. CASE IngestChunk(s)
  <2>1. Steady(srv, srv')
    BY <1>0, <1>4 DEF IngestChunk, Steady, ServerType
  <2> QED BY <1>0, <1>4, <2>1, SteadyCalm DEF IngestChunk
<1>6. CASE IngestFails(s)
  <2>1. \E egress, rng :
           srv' = [srv EXCEPT ![s].egress = egress, ![s].rng = rng, ![s].work = "poll",
                              ![s].rows = {}, ![s].chunk = 0]
    <3>1. PICK rotated \in BOOLEAN :
            srv' = [srv EXCEPT ![s].egress = IF rotated THEN used.egress + 1 ELSE @,
                               ![s].rng = IF rotated THEN 0 ELSE @,
                               ![s].work = "poll", ![s].rows = {}, ![s].chunk = 0]
      BY <1>6 DEF IngestFails
    <3>2. CASE rotated
      BY <1>0, <3>1, <3>2
    <3>3. CASE ~rotated
      BY <1>0, <3>1, <3>3
    <3> QED BY <3>2, <3>3
  <2>2. PICK egress, rng :
          srv' = [srv EXCEPT ![s].egress = egress, ![s].rng = rng, ![s].work = "poll",
                             ![s].rows = {}, ![s].chunk = 0]
    BY <2>1
  <2>3. Steady(srv, srv')
    BY <1>0, <2>2 DEF Steady, ServerType
  <2> QED BY <1>0, <1>6, <2>3, SteadyCalm DEF IngestFails
<1>5. CASE SaveState(s)
  <2>1. Steady(srv, srv')
    BY <1>0, <1>5 DEF SaveState, Steady, ServerType
  <2>2. \A f \in Summary(srv[s]) : f.mode = srv[s].mode
    BY DEF Summary
  <2>3. file' = [file EXCEPT ![s] = Summary(srv[s])]
    BY <1>5 DEF SaveState
  <2> QED BY <1>0, <2>1, <2>2, <2>3, SteadyCalm
<1> QED BY <1>1, <1>2, <1>3, <1>4, <1>5, <1>6 DEF WorkerStep

LEMMA ActivateCalm ==
  ASSUME GoodNow, NEW s \in Server, ActivateStep(s)
  PROVE  AllCalm
<1>0. srv \in [Server -> ServerType] /\ file \in [Server -> SUBSET SummaryType]
  BY FactsOf
<1>e. Steady(srv, EndCall(s))
  BY <1>0, EndCallSteady
<1>1. CASE ActivateStatus(s)
  <2>1. file' = file /\ srv[s].call = "status"
    BY <1>1 DEF ActivateStatus
  <2>2. CASE srv' = EndCall(s)
    BY <1>0, <1>e, <2>1, <2>2, SteadyCalm
  <2>3. CASE srv' = [srv EXCEPT ![s].call = "backup", ![s].asked = {}]
    <3>1. Steady(srv, srv')
      BY <1>0, <2>1, <2>3 DEF Steady, ServerType
    <3> QED BY <1>0, <2>1, <3>1, SteadyCalm
  <2>4. ASSUME NEW p, srv' = [srv EXCEPT ![s].asked = @ \cup {p},
                                         ![s].tasks = @ \cup {Task(s, p)}]
        PROVE  AllCalm
    <3> DEFINE task == Task(s, p)
    <3>1. srv' = [srv EXCEPT ![s].asked = @ \cup {p}, ![s].tasks = @ \cup {task}]
      BY <2>4
    <3> HIDE DEF task
    <3>2. Steady(srv, srv')
      BY <1>0, <3>1 DEF Steady, ServerType
    <3> QED BY <1>0, <2>1, <3>2, SteadyCalm
  <2> QED BY <1>1, <2>2, <2>3, <2>4 DEF ActivateStatus
<1>2. CASE ActivateBackup(s)
  <2>1. CASE srv' = EndCall(s) /\ file' = file
    BY <1>0, <1>e, <2>1, SteadyCalm
  <2>2. CASE srv' = [srv EXCEPT ![s].call = "start"] /\ file' = file
    <3>1. srv[s].call = "backup"
      BY <1>2 DEF ActivateBackup
    <3>2. Steady(srv, srv')
      BY <1>0, <2>2, <3>1 DEF Steady, ServerType
    <3> QED BY <1>0, <2>2, <3>2, SteadyCalm
  <2>3. ASSUME NEW t \in srv[s].tasks, Perform(t, [srv EXCEPT ![s].tasks = @ \ {t}])
        PROVE  AllCalm
    <3> DEFINE v == [srv EXCEPT ![s].tasks = @ \ {t}]
    <3>1. v \in [Server -> ServerType]
      BY <1>0 DEF ServerType
    <3>2. Steady(srv, v)
      BY <1>0 DEF Steady, ServerType
    <3> HIDE DEF v
    <3> QED BY <2>3, <3>1, <3>2, PerformCalm DEF v
  <2> QED BY <1>2, <2>1, <2>2, <2>3 DEF ActivateBackup
<1>3. CASE ActivateStart(s)
  <2>1. Steady(srv, srv')
    BY <1>0, <1>3 DEF ActivateStart, Steady, ServerType
  <2> QED BY <1>0, <1>3, <2>1, SteadyCalm DEF ActivateStart
<1>4. CASE ActivateFinish(s)
  <2>1. CASE srv' = EndCall(s)
    BY <1>0, <1>e, <1>4, <2>1, SteadyCalm DEF ActivateFinish
  <2>2. CASE srv' = [srv EXCEPT ![s].mode = "Active", ![s].call = "save"]
    <3> DEFINE x == [srv[s] EXCEPT !.mode = "Active", !.call = "save"]
    <3>1. x.mode = "Active" /\ srv[s].call = "finish"
      BY <1>0, <1>4 DEF ActivateFinish, ServerType
    <3>2. Calm(srv[s], file[s], x, file[s])
      BY <3>1 DEF Calm, Agree
    <3>3. srv' = [srv EXCEPT ![s] = x] /\ file' = [file EXCEPT ![s] = file[s]]
      BY <1>0, <1>4, <2>2 DEF ActivateFinish
    <3> HIDE DEF x
    <3> QED BY <1>0, <3>2, <3>3, CalmOne
  <2> QED BY <1>4, <2>1, <2>2 DEF ActivateFinish
<1>5. CASE ActivateSave(s)
  <2>1. \A f \in Summary(srv[s]) : f.mode = srv[s].mode
    BY DEF Summary
  <2>2. file' = [file EXCEPT ![s] = Summary(srv[s])] /\ srv' = EndCall(s)
    BY <1>5 DEF ActivateSave
  <2> QED BY <1>0, <1>e, <2>1, <2>2, SteadyCalm
<1> QED BY <1>1, <1>2, <1>3, <1>4, <1>5 DEF ActivateStep

LEMMA NewKeysCalm ==
  ASSUME GoodNow, NEW s \in Server, NEW cost, NewKeys(s, cost)
  PROVE  AllCalm
<1>0. srv \in [Server -> ServerType] /\ file \in [Server -> SUBSET SummaryType]
  BY FactsOf
<1>1. Steady(srv, srv')
  BY <1>0 DEF NewKeys, Steady, ServerType
<1>2. \A f \in Summary(srv'[s]) : f.mode = srv[s].mode
  BY <1>1 DEF Summary, Steady
<1>3. file' = [file EXCEPT ![s] = Summary(srv'[s])]
  BY DEF NewKeys
<1> QED BY <1>0, <1>1, <1>2, <1>3, SteadyCalm

LEMMA StartCalm ==
  ASSUME GoodNow, NEW s \in Server, ~srv[s].up, NEW x, Start(s, x), x.call = "none",
         x.mode = "Idle" \/ \E f \in file[s] : x.mode = f.mode
  PROVE  AllCalm
<1>0. srv \in [Server -> ServerType] /\ file \in [Server -> SUBSET SummaryType]
  BY FactsOf
<1>1. \A f \in Summary(x) : f.mode = x.mode
  BY DEF Summary
<1>2. x.mode \in Mode
  BY <1>0 DEF Mode, SummaryType
<1>3. Calm(srv[s], file[s], x, Summary(x))
  BY <1>1, <1>2 DEF Calm, Agree, Rest, Mode
<1> QED BY <1>0, <1>3, CalmOne DEF Start

LEMMA RestartCalm ==
  ASSUME GoodNow, NEW s \in Server, Crash(s) \/ RestartFresh(s) \/ Restart(s)
  PROVE  AllCalm
<1>0. srv \in [Server -> ServerType] /\ file \in [Server -> SUBSET SummaryType]
  BY FactsOf
<1>1. CASE Crash(s)
  <2>1. Down.up = FALSE /\ Down.mode = "Idle" /\ Down.call = "none"
    BY DEF Down, Fresh
  <2>2. PICK left \in {file[s], {}} : file' = [file EXCEPT ![s] = left]
    BY <1>1 DEF Crash
  <2>3. Calm(srv[s], file[s], Down, left)
    BY <2>1 DEF Calm, Agree, Rest
  <2>4. srv' = [srv EXCEPT ![s] = Down]
    BY <1>1 DEF Crash
  <2> QED BY <1>0, <2>2, <2>3, <2>4, CalmOne
<1>2. CASE RestartFresh(s)
  <2> DEFINE x == Fresh(used.keys + 1, used.egress + 1)
  <2>1. x.mode = "Idle" /\ x.call = "none"
    BY DEF Fresh
  <2>2. ~srv[s].up /\ Start(s, x)
    BY <1>2 DEF RestartFresh
  <2> HIDE DEF x
  <2> QED BY <2>1, <2>2, StartCalm
<1>3. CASE Restart(s)
  <2>1. ~srv[s].up
    BY ZenonT(40), <1>3 DEF Restart
  <2>2. PICK f \in file[s] :
          \/ Start(s, [Fresh(f.key, used.egress + 1) EXCEPT !.mode = f.mode, !.next = f.next,
                                                            !.peers = f.peers])
          \/ Start(s, Fresh(f.key, used.egress + 1))
    BY ZenonT(40), <1>3 DEF Restart
  <2> DEFINE new == Fresh(f.key, used.egress + 1)
             old == [new EXCEPT !.mode = f.mode, !.next = f.next, !.peers = f.peers]
  <2>3. new.mode = "Idle" /\ new.call = "none" /\ old.mode = f.mode /\ old.call = "none"
    BY DEF Fresh
  <2>4. Start(s, old) \/ Start(s, new)
    BY <2>2
  <2> HIDE DEF new, old
  <2> QED BY <2>1, <2>3, <2>4, StartCalm
<1> QED BY <1>1, <1>2, <1>3

LEMMA OperatorCalm ==
  ASSUME GoodNow, "activate" \notin Commands, NEW s \in Server, Operator(s)
  PROVE  AllCalm
<1>0. srv \in [Server -> ServerType] /\ file \in [Server -> SUBSET SummaryType]
  BY FactsOf
<1>1. CASE NewKeys(s, 1)
  BY <1>1, NewKeysCalm
<1>2. CASE SyncKeys(s)
  <2>1. Steady(srv, srv')
    BY <1>0, <1>2 DEF SyncKeys, Steady, ServerType
  <2>2. \A f \in Summary(srv'[s]) : f.mode = srv[s].mode
    BY <2>1 DEF Summary, Steady
  <2>3. file' = [file EXCEPT ![s] = Summary(srv'[s])]
    BY <1>2 DEF SyncKeys
  <2> QED BY <1>0, <2>1, <2>2, <2>3, SteadyCalm
<1>3. CASE SetPeers(s)
  <2>1. Steady(srv, srv')
    BY <1>0, <1>3 DEF SetPeers, Steady, ServerType
  <2> QED BY <1>0, <1>3, <2>1, SteadyCalm DEF SetPeers
<1>4. CASE Retire(s, TRUE) \/ Retire(s, FALSE) \/ ReportLost(s)
  BY <1>4, CalmSame DEF Retire, ReportLost, AllCalm
<1> QED BY <1>1, <1>2, <1>3, <1>4 DEF Operator

LEMMA CheckupCalm ==
  ASSUME GoodNow, NEW s \in Server, CheckPeer(s) \/ CorrectPeer(s)
  PROVE  AllCalm
<1>0. srv \in [Server -> ServerType] /\ file \in [Server -> SUBSET SummaryType]
  BY FactsOf
<1>1. CASE CheckPeer(s)
  <2>1. PICK tasks : srv' = [srv EXCEPT ![s].checkup = tasks]
    BY <1>1 DEF CheckPeer
  <2>2. Steady(srv, srv')
    BY <1>0, <2>1 DEF Steady, ServerType
  <2> QED BY <1>0, <1>1, <2>2, SteadyCalm DEF CheckPeer
<1>2. CASE CorrectPeer(s)
  <2> DEFINE v == [srv EXCEPT ![s].checkup = {}]
  <2>1. v \in [Server -> ServerType]
    BY <1>0 DEF ServerType
  <2>2. Steady(srv, v)
    BY <1>0 DEF Steady, ServerType
  <2>3. \/ \E t : Perform(t, v)
        \/ srv' = v /\ file' = file
    BY <1>2 DEF CorrectPeer
  <2> HIDE DEF v
  <2>4. CASE srv' = v /\ file' = file
    BY <1>0, <2>2, <2>4, SteadyCalm
  <2> QED BY <2>1, <2>2, <2>3, <2>4, PerformCalm
<1> QED BY <1>1, <1>2

LEMMA FogCalm ==
  ASSUME GoodNow, "activate" \notin Commands, FogNext
  PROVE  AllCalm
<1>1. CASE NewBlock
  BY <1>1, CalmSame DEF NewBlock, AllCalm
<1> QED BY <1>1, WorkerCalm, ActivateCalm, CheckupCalm, OperatorCalm, RestartCalm DEF FogNext

(* The servers step while the overseer does not. *)
LEMMA LedByCalm ==
  ASSUME NEW v, NEW f, NEW w, NEW g, NEW o, Led(v, f, o),
         \A t \in Server : Calm(v[t], f[t], w[t], g[t])
  PROVE  Led(w, g, o)
<1>1. \A s \in Server : Agree(w[s], g[s])
  BY DEF Led, Calm
<1>2. \A s \in Server : w[s].call # "none" => o.step = "wait" /\ o.node = s
  BY DEF Led, Calm
<1>3. \A s \in Server : Rest(v[s], f[s]) =>
         Rest(w[s], g[s]) \/ (o.step = "wait" /\ o.node = s)
  BY DEF Led, Calm
<1>4. ASSUME NEW s \in Server, NEW t \in Server, ~Rest(w[s], g[s]), ~Rest(w[t], g[t])
      PROVE  s = t
  <2>1. CASE o.step = "wait"
    BY <1>3, <1>4, <2>1 DEF Led
  <2>2. CASE o.step # "wait"
    BY <1>3, <1>4, <2>2 DEF Led
  <2> QED BY <2>1, <2>2
<1> QED BY <1>1, <1>2, <1>3, <1>4 DEF Led

LEMMA LedPoll ==
  ASSUME NEW o, Led(srv, file, o), NEW enabled, \A s \in Server : srv[s].call = "none"
  PROVE  Led(srv, file, Poll(enabled))
<1>1. /\ Poll(enabled).step = "poll" /\ Len(Poll(enabled).seen) = 0
  BY DEF Poll
<1>2. \A s \in Server : ~(s <= 0)
  BY FogAssumption DEF Server
<1> QED BY <1>1, <1>2 DEF Led

(* The overseer's own steps, on the servers as they are.  Its activation   *)
(* is refused or has ended, or none was begun.                             *)
LEMMA LedFailed ==
  ASSUME Watched(ov, db), Led(srv, file, ov), ov.step \in {"new_keys", "activate", "wait"},
         \A s \in Server : srv[s].call = "none"
  PROVE  /\ Led(srv, file, Failed)
         /\ Led(srv, file, [Failed EXCEPT !.step = IF Failed.step = "poll" THEN Failed.step
                                                                    ELSE "activate"])
<1>0. ov \in OvType
  BY DEF Watched
<1>1. CASE ov.tries > 1
  <2> DEFINE o == [ov EXCEPT !.tries = ov.tries - 1]
             p == [o EXCEPT !.step = IF o.step = "poll" THEN o.step ELSE "activate"]
  <2>1. Failed = o
    BY <1>1 DEF Failed
  <2>2. /\ o.step = ov.step /\ o.node = ov.node
        /\ p.step = "activate" /\ p.node = ov.node
    BY <1>0 DEF OvType
  <2> HIDE DEF o, p
  <2>3. Led(srv, file, o) /\ Led(srv, file, p)
    BY <2>2 DEF Led
  <2> QED BY <2>1, <2>3 DEF p
<1>2. CASE ~(ov.tries > 1) /\ ov.step = "new_keys" /\ ov.node < NumServers
  <2> DEFINE o == [ov EXCEPT !.node = ov.node + 1, !.tries = NumberOfTries]
             p == [o EXCEPT !.step = IF o.step = "poll" THEN o.step ELSE "activate"]
  <2>1. Failed = o
    BY <1>2 DEF Failed
  <2>2. o.step = "new_keys" /\ p.step = "activate"
    BY <1>0, <1>2 DEF OvType
  <2> HIDE DEF o, p
  <2>3. Led(srv, file, o) /\ Led(srv, file, p)
    BY <1>2, <2>2 DEF Led
  <2> QED BY <2>1, <2>3 DEF p
<1>3. CASE ~(ov.tries > 1) /\ ~(ov.step = "new_keys" /\ ov.node < NumServers)
  <2>1. Failed = Poll(TRUE)
    BY <1>3 DEF Failed
  <2>2. Poll(TRUE).step = "poll"
    BY DEF Poll
  <2> DEFINE o == Poll(TRUE)
             p == [o EXCEPT !.step = IF o.step = "poll" THEN o.step ELSE "activate"]
  <2>3. p = o
    BY DEF Poll
  <2>4. Led(srv, file, o)
    BY LedPoll
  <2> HIDE DEF o, p
  <2> QED BY <2>1, <2>3, <2>4 DEF o, p
<1> QED BY <1>1, <1>2, <1>3

LEMMA OverseerLed ==
  ASSUME QInv, OverseerStep
  PROVE  Led(srv', file', ov')
<1>0. /\ GoodNow /\ Watched(ov, db) /\ ov \in OvType /\ Led(srv, file, ov)
      /\ srv \in [Server -> ServerType] /\ file \in [Server -> SUBSET SummaryType]
      /\ NumServers \in Nat
  BY FactsOf, FogAssumption DEF QInv, IInv, GoodNow, Watched
<1>1. \A s \in Server : ov.step # "wait" => srv[s].call = "none"
  BY <1>0 DEF Led
<1>2. CASE GetStatus
  <2>1. /\ ov.step = "poll" /\ srv' = srv /\ file' = file
        /\ Len(ov.seen) < NumServers
    BY <1>2 DEF GetStatus, fogVars
  <2> DEFINE r == Len(ov.seen) + 1
             status == [mode |-> srv[r].mode, key |-> srv[r].key]
             o == [ov EXCEPT !.seen = Append(ov.seen, status)]
  <2>2. CASE ov' = Poll(TRUE)
    <3>1. Led(srv, file, Poll(TRUE))
      BY <1>0, <1>1, <2>1, LedPoll
    <3> QED BY <2>1, <2>2, <3>1
  <2>3. CASE srv[r].up /\ ov' = o
    <3>1. r \in Server /\ Len(ov.seen) \in Nat
      BY <1>0, <2>1 DEF OvType, Server
    <3>2. srv[r].mode \in Mode /\ srv[r].key \in Nat
      BY <1>0, <3>1 DEF ServerType
    <3>3. /\ o.step = "poll" /\ o.seen = Append(ov.seen, status)
      BY <1>0, <2>1 DEF OvType
    <3>4. /\ Len(o.seen) = Len(ov.seen) + 1
          /\ o.seen[r].mode = srv[r].mode
          /\ \A i \in 1 .. Len(ov.seen) : o.seen[i] = ov.seen[i]
      <4>1. ov.seen \in Seq([mode : Mode, key : Nat]) /\ status \in [mode : Mode, key : Nat]
        BY <1>0, <3>2 DEF OvType
      <4>2. status.mode = srv[r].mode
        OBVIOUS
      <4> DEFINE q == ov.seen
                 T == [mode : Mode, key : Nat]
      <4>3. q \in Seq(T) /\ status \in T
        BY <4>1
      <4> HIDE DEF q, T, status
      <4>4. /\ Len(Append(q, status)) = Len(q) + 1
            /\ Append(q, status)[Len(q) + 1] = status
            /\ \A i \in 1 .. Len(q) : Append(q, status)[i] = q[i]
        BY <4>3
      <4> QED BY <3>3, <4>2, <4>4 DEF q
    <3>5. Agree(srv[r], file[r])
      BY <1>0, <3>1 DEF Led
    <3>6. srv[r].mode # "Active" => Rest(srv[r], file[r])
      BY <2>3, <3>2, <3>5 DEF Agree, Rest, Mode
    <3>7. ASSUME NEW s \in Server, s <= Len(o.seen), o.seen[s].mode # "Active"
          PROVE  Rest(srv[s], file[s])
      <4>1. s \in Nat /\ 1 <= s
        BY <1>0 DEF Server
      <4>2. CASE s = r
        BY <3>4, <3>6, <3>7, <4>2
      <4>3. CASE s # r
        <5>1. s <= Len(ov.seen)
          BY <3>1, <3>4, <3>7, <4>1, <4>3
        <5>2. o.seen[s] = ov.seen[s]
          BY <3>1, <3>4, <4>1, <5>1
        <5> QED BY <1>0, <2>1, <3>7, <5>1, <5>2 DEF Led
      <4> QED BY <4>2, <4>3
    <3> HIDE DEF o
    <3>8. Led(srv, file, o)
      BY <1>0, <1>1, <2>1, <3>3, <3>7 DEF Led
    <3> QED BY <2>1, <2>3, <3>8
  <2> QED BY <1>2, <2>2, <2>3 DEF GetStatus
<1>3. CASE Decide
  <2>1. /\ ov.step = "poll" /\ srv' = srv /\ file' = file
        /\ Len(ov.seen) = NumServers
    BY <1>3 DEF Decide, fogVars
  <2> DEFINE holders == {s \in Server : ov.seen[s].key \in Outstanding(db)}
             lost == [ov EXCEPT !.step = "lost", !.key = Max(Outstanding(db))]
             act == [ov EXCEPT !.step = "activate", !.node = Min(holders), !.tries = 1]
  <2>2. \/ ov' = Poll(TRUE) \/ ov' = Poll(FALSE)
        \/ /\ ~ \E s \in Server : ov.seen[s].mode = "Active"
           /\ ov' = SetNewKey \/ ov' = lost \/ ov' = act
    BY <1>3 DEF Decide
  <2>3. CASE ov' = Poll(TRUE) \/ ov' = Poll(FALSE)
    <3>1. \A enabled : Led(srv, file, Poll(enabled))
      BY <1>0, <1>1, <2>1, LedPoll
    <3> QED BY <2>1, <2>3, <3>1
  <2>4. CASE /\ ~ \E s \in Server : ov.seen[s].mode = "Active"
             /\ ov' = SetNewKey \/ ov' = lost \/ ov' = act
    <3>1. \A s \in Server : Rest(srv[s], file[s])
      <4>1. \A s \in Server : s <= Len(ov.seen)
        BY <1>0, <2>1 DEF Server
      <4> QED BY <1>0, <2>1, <2>4, <4>1 DEF Led
    <3>2. ov'.step \in {"lost", "new_keys", "activate"}
      <4>1. lost.step = "lost" /\ act.step = "activate" /\ SetNewKey.step = "new_keys"
        BY <1>0 DEF OvType, SetNewKey
      <4> HIDE DEF lost, act
      <4> QED BY <2>4, <4>1
    <3> QED BY <1>0, <1>1, <2>1, <3>1, <3>2 DEF Led
  <2> HIDE DEF lost, act
  <2> QED BY <2>2, <2>3, <2>4
<1>4. CASE GiveUpKey
  <2>1. ov.step = "lost" /\ srv' = srv /\ file' = file
    BY <1>4 DEF GiveUpKey
  <2>2. Led(srv, file, Poll(TRUE))
    BY <1>0, <1>1, <2>1, LedPoll
  <2>3. SetNewKey.step = "new_keys"
    BY <1>0 DEF OvType, SetNewKey
  <2>4. Led(srv, file, SetNewKey)
    BY <1>0, <1>1, <2>1, <2>3 DEF Led
  <2>5. ov' = Poll(TRUE) \/ ov' = SetNewKey
    BY <1>4 DEF GiveUpKey
  <2> QED BY <2>1, <2>2, <2>4, <2>5
<1>5. CASE TryNewKeys
  <2>1. ov.step = "new_keys" /\ ov.node \in Server
    BY <1>0, <1>5 DEF TryNewKeys, Watched
  <2>2. CASE NewKeys(ov.node, 0) /\ ov' = [ov EXCEPT !.step = "activate", !.tries = NumberOfTries]
    <3>1. AllCalm
      BY <1>0, <2>1, <2>2, NewKeysCalm
    <3>2. Led(srv', file', ov)
      BY <1>0, <3>1, LedByCalm DEF AllCalm
    <3>3. ov'.step = "activate"
      BY <1>0, <2>2 DEF OvType
    <3> QED BY <2>1, <3>2, <3>3 DEF Led
  <2>3. CASE ov' = Failed /\ srv' = srv /\ file' = file
    BY <1>0, <1>1, <2>1, <2>3, LedFailed
  <2> QED BY <1>5, <2>2, <2>3 DEF TryNewKeys
<1>6. CASE CallActivate
  <2>1. /\ ov.step = "activate" /\ ov.node \in Server /\ file' = file
        /\ srv' = [srv EXCEPT ![ov.node].call = "status"]
        /\ ov' = [ov EXCEPT !.step = "wait"]
    BY <1>0, <1>6 DEF CallActivate, BeginActivate, Watched
  <2>2. ov'.step = "wait" /\ ov'.node = ov.node
    BY <1>0, <2>1 DEF OvType
  <2>3. \A s \in Server : /\ srv'[s].mode = srv[s].mode /\ srv'[s].up = srv[s].up
                          /\ s # ov.node => srv'[s].call = srv[s].call
    BY <1>0, <2>1 DEF ServerType
  <2>4. \A s \in Server : /\ Rest(srv'[s], file'[s]) <=> Rest(srv[s], file[s])
                          /\ Agree(srv'[s], file'[s]) <=> Agree(srv[s], file[s])
    BY <2>1, <2>3 DEF Rest, Agree
  <2> QED BY <1>0, <1>1, <2>1, <2>2, <2>3, <2>4 DEF Led
<1>7. CASE EndActivate
  <2>1. /\ srv' = srv /\ file' = file /\ ov.step \in {"activate", "wait"}
        /\ ov.step = "wait" => srv[ov.node].call = "none"
    BY <1>7 DEF EndActivate, fogVars
  <2>2. \A s \in Server : srv[s].call = "none"
    BY <1>0, <1>1, <2>1 DEF Led
  <2>3. Led(srv, file, Poll(TRUE))
    BY <1>0, <2>2, LedPoll
  <2> DEFINE p == [Failed EXCEPT !.step = IF Failed.step = "poll" THEN Failed.step ELSE "activate"]
  <2>4. Led(srv, file, p)
    BY <1>0, <2>1, <2>2, LedFailed
  <2>5. ov' = Poll(TRUE) \/ ov' = p
    BY <1>7 DEF EndActivate
  <2> HIDE DEF p
  <2> QED BY <2>1, <2>3, <2>4, <2>5
<1> QED BY <1>2, <1>3, <1>4, <1>5, <1>6, <1>7 DEF OverseerStep

LEMMA InitLed == Init => Led(srv, file, ov)
<1> SUFFICES ASSUME Init PROVE Led(srv, file, ov)
  OBVIOUS
<1>1. \A s \in Server : srv[s] = Fresh(s, s) /\ file[s] = Summary(Fresh(s, s))
  BY DEF Init, FogInit
<1>f. \A k, egress : Fresh(k, egress).mode = "Idle" /\ Fresh(k, egress).call = "none"
  BY DEF Fresh
<1>2. \A s \in Server : srv[s].mode = "Idle" /\ srv[s].call = "none"
  BY <1>1, <1>f
<1>3. ASSUME NEW s \in Server, NEW f \in file[s] PROVE f.mode = "Idle"
  BY <1>1, <1>f DEF Summary
<1>4. ov.step = "poll"
  BY DEF Init, OvInit, Poll
<1> QED BY <1>2, <1>3, <1>4 DEF Led, Agree, Rest

LEMMA LedInvariance ==
  ASSUME "activate" \notin Commands
  PROVE  Spec => []QInv
<1>1. Init => QInv
  BY InitGood, InitLed DEF QInv
<1>2. ASSUME QInv, [Next]_vars PROVE QInv'
  <2>1. IInv'
    BY <1>2, StepGood DEF QInv
  <2>2. CASE FogNext /\ UNCHANGED ov
    <3>1. AllCalm
      BY <1>2, <2>2, FogCalm DEF QInv, IInv, GoodNow
    <3>2. Led(srv', file', ov)
      BY <1>2, <3>1, LedByCalm DEF AllCalm, QInv
    <3> QED BY <2>1, <2>2, <3>2 DEF QInv
  <2>3. CASE OverseerStep
    BY <1>2, <2>1, <2>3, OverseerLed DEF QInv
  <2>4. CASE UNCHANGED vars
    BY <1>2, <2>1, <2>4 DEF QInv, vars, fogVars
  <2> QED BY <1>2, <2>2, <2>3, <2>4 DEF Next
<1> QED BY <1>1, <1>2, PTL DEF Spec

(* Where the operator leaves the activation of servers to the overseer,    *)
(* there is never more than one server that is active or would come back   *)
(* active from its state file, for any number of servers, crashes, lost    *)
(* state files and other commands, although the overseer decides on        *)
(* statuses it took one after the other.                                   *)
THEOREM OneServerActive ==
  ASSUME "activate" \notin Commands
  PROVE  Spec => []OneActive
<1>1. QInv => OneActive
  BY DEF QInv, Led, OneActive, AtRest, Rest
<1> QED BY <1>1, LedInvariance, PTL

(* Where, besides, the operator reports no key lost, a key is given up     *)
(* only while no server is active or can come back active: between the     *)
(* statuses that made the overseer give it up and the report nothing       *)
(* brings a server back.                                                   *)
THEOREM GivenUpWhileIdle ==
  ASSUME "activate" \notin Commands, "report_lost" \notin Commands
  PROVE  Spec => LossWhileIdle
<1>1. ASSUME QInv, [Next]_vars
      PROVE  [\A k \in Known(db) : ~db.keys[k].lost /\ db'.keys[k].lost =>
                 \A s \in Server : AtRest(s)]_vars
  <2> SUFFICES ASSUME NEW k \in Known(db), ~db.keys[k].lost, db'.keys[k].lost
               PROVE  \A s \in Server : AtRest(s)
    OBVIOUS
  <2>1. GiveUpKey
    BY <1>1, StepLoss DEF QInv, LossOnly, SameLost
  <2> QED BY <1>1, <2>1 DEF GiveUpKey, QInv, Led, AtRest, Rest
<1> QED BY <1>1, LedInvariance, PTL DEF Spec, LossWhileIdle

-----------------------------------------------------------------------------
(* The random-number sequences.  An error of ingest_txs drops the outputs  *)
(* that were drawn, and may leave a server with a new egress key and the   *)
(* invocation of the old one, so that what follows is about clusters in    *)
(* which it does not happen.                                               *)

(* What is published, and what is published or held by a worker. *)
Pub(d) == UNION {b.rows : b \in d.blocks}
Drawn(d, v) == Pub(d) \cup UNION {v[t].rows : t \in Server}

Announced(d, egress) ==
  \E i \in 1 .. Len(d.invocations) : d.invocations[i].egress = egress

(* Every egress key belongs to one server that runs, is announced before   *)
(* an output of it is drawn, and has its outputs drawn in order; a worker  *)
(* holds outputs that follow on each other or on what is published.        *)
RngOK(d, v, u) ==
  /\ \A s \in Server : v[s].egress <= u.egress
  /\ \A s, t \in Server : s # t /\ v[s].up /\ v[t].up => v[s].egress # v[t].egress
  /\ \A s \in Server : v[s].iid # 0 => d.invocations[v[s].iid].egress = v[s].egress
  /\ \A r \in Drawn(d, v) : r[1] <= u.egress /\ Announced(d, r[1])
  /\ \A r \in Pub(d) : r[2] > 0 => <<r[1], r[2] - 1>> \in Pub(d)
  /\ \A s \in Server : \A r \in v[s].rows :
        r \notin Pub(d) /\ (r[2] > 0 => <<r[1], r[2] - 1>> \in Pub(d) \cup v[s].rows)
  /\ \A s, t \in Server : s # t => v[s].rows \cap v[t].rows = {}
  /\ \A s \in Server : v[s].up =>
        \A r \in Drawn(d, v) : r[1] = v[s].egress => r[2] < v[s].rng
  /\ \A s \in Server : v[s].rng > 0 =>
        <<v[s].egress, v[s].rng - 1>> \in Pub(d) \cup v[s].rows
  /\ \A b, c \in d.blocks : b # c => b.rows \cap c.rows = {}

RInv == IInv /\ RngOK(db, srv, used)

LEMMA AnnouncedGrows ==
  ASSUME NEW d \in Database, NEW e \in Database, Grows(d, e), NEW egress, Announced(d, egress)
  PROVE  Announced(e, egress)
<1>1. Len(d.invocations) \in Nat /\ Len(e.invocations) \in Nat
  BY DEF Database
<1> QED BY <1>1 DEF Announced, Grows

LEMMA DrawnType ==
  ASSUME NEW d \in Database, NEW v \in [Server -> ServerType]
  PROVE  /\ Pub(d) \subseteq Nat \X Nat /\ Drawn(d, v) \subseteq Nat \X Nat
         /\ \A s \in Server : v[s].rows \subseteq Nat \X Nat /\ v[s].rows \subseteq Drawn(d, v)
         /\ Pub(d) \subseteq Drawn(d, v)
<1>1. \A b \in d.blocks : b.rows \subseteq Nat \X Nat
  BY DEF Database, BlockRow
<1>2. \A s \in Server : v[s].rows \subseteq Nat \X Nat
  BY DEF ServerType
<1> QED BY <1>1, <1>2 DEF Pub, Drawn

(* The sequences of server t are the same in v and w. *)
SameSeq(v, w, t) ==
  w[t].up = v[t].up /\ w[t].egress = v[t].egress /\ w[t].rng = v[t].rng /\ w[t].rows = v[t].rows

SeqTypes(d, v, u) ==
  /\ d \in Database /\ v \in [Server -> ServerType] /\ u \in UsedType
  /\ \A t \in Server : v[t].iid # 0 => v[t].iid \in 1 .. Len(d.invocations)

(* A step that draws and publishes nothing. *)
QuietStep(d, v, u, e, w, z) ==
  /\ Grows(d, e) /\ e.blocks = d.blocks /\ u.egress <= z.egress
  /\ \A t \in Server : SameSeq(v, w, t)
  /\ \A t \in Server : w[t].iid = v[t].iid \/ e.invocations[w[t].iid].egress = w[t].egress

LEMMA QuietKeeps ==
  ASSUME NEW d, NEW v, NEW u, NEW e, NEW w, NEW z, SeqTypes(d, v, u), SeqTypes(e, w, z),
         RngOK(d, v, u), QuietStep(d, v, u, e, w, z)
  PROVE  RngOK(e, w, z)
<1>1. Pub(e) = Pub(d)
  BY DEF Pub, QuietStep
<1>2. /\ \A t \in Server : w[t].rows = v[t].rows /\ w[t].egress = v[t].egress
                            /\ w[t].rng = v[t].rng /\ w[t].up = v[t].up
      /\ d \in Database /\ e \in Database /\ Grows(d, e)
      /\ u.egress \in Nat /\ z.egress \in Nat /\ u.egress <= z.egress
      /\ \A t \in Server : v[t].egress \in Nat
  BY DEF QuietStep, SameSeq, SeqTypes, UsedType, ServerType
<1>3. Drawn(e, w) = Drawn(d, v)
  BY <1>1, <1>2 DEF Drawn
<1>4. \A s \in Server : w[s].iid # 0 => e.invocations[w[s].iid].egress = w[s].egress
  BY <1>2 DEF QuietStep, SeqTypes, RngOK, Grows
<1>5. \A r \in Drawn(e, w) : r[1] <= z.egress /\ Announced(e, r[1])
  <2>1. \A r \in Drawn(d, v) : r[1] \in Nat
    BY DrawnType DEF SeqTypes
  <2> QED BY <1>2, <1>3, <2>1, AnnouncedGrows DEF RngOK
<1>6. \A s \in Server : w[s].egress <= z.egress
  BY <1>2 DEF RngOK
<1>7. \A b, c \in e.blocks : b # c => b.rows \cap c.rows = {}
  BY DEF QuietStep, RngOK
<1>8. \A s, t \in Server : s # t => w[s].rows \cap w[t].rows = {}
  BY <1>2 DEF RngOK
<1>9. \A s \in Server : w[s].up =>
         \A r \in Drawn(e, w) : r[1] = w[s].egress => r[2] < w[s].rng
  BY <1>2, <1>3 DEF RngOK
<1>10. \A s \in Server : w[s].rng > 0 =>
         <<w[s].egress, w[s].rng - 1>> \in Pub(e) \cup w[s].rows
  BY <1>1, <1>2 DEF RngOK
<1>11. \A s \in Server : \A r \in w[s].rows :
         r \notin Pub(e) /\ (r[2] > 0 => <<r[1], r[2] - 1>> \in Pub(e) \cup w[s].rows)
  BY <1>1, <1>2 DEF RngOK
<1>12. \A r \in Pub(e) : r[2] > 0 => <<r[1], r[2] - 1>> \in Pub(e)
  BY <1>1 DEF RngOK
<1>13. \A s, t \in Server : s # t /\ w[s].up /\ w[t].up => w[s].egress # w[t].egress
  BY <1>2 DEF RngOK
<1> QED BY <1>4, <1>5, <1>6, <1>7, <1>8, <1>9, <1>10, <1>11, <1>12, <1>13 DEF RngOK

(* A step after which server s has nothing drawn, and either is down or    *)
(* has an egress key that nobody ever had.                                 *)
ResetStep(d, v, u, s, e, w, z) ==
  /\ Grows(d, e) /\ e.blocks = d.blocks /\ u.egress <= z.egress
  /\ \A t \in Server : t # s => SameSeq(v, w, t) /\ w[t].iid = v[t].iid
  /\ w[s].iid = 0 /\ w[s].rng = 0 /\ w[s].rows = {}
  /\ w[s].egress <= z.egress
  /\ w[s].up => w[s].egress = u.egress + 1

LEMMA ResetKeeps ==
  ASSUME NEW d, NEW v, NEW u, NEW s \in Server, NEW e, NEW w, NEW z,
         SeqTypes(d, v, u), SeqTypes(e, w, z), RngOK(d, v, u), ResetStep(d, v, u, s, e, w, z)
  PROVE  RngOK(e, w, z)
<1>1. Pub(e) = Pub(d)
  BY DEF Pub, ResetStep
<1>2. /\ \A t \in Server : t # s =>
            /\ w[t].rows = v[t].rows /\ w[t].egress = v[t].egress
            /\ w[t].rng = v[t].rng /\ w[t].up = v[t].up /\ w[t].iid = v[t].iid
      /\ d \in Database /\ e \in Database /\ Grows(d, e)
      /\ u.egress \in Nat /\ z.egress \in Nat /\ u.egress <= z.egress
      /\ \A t \in Server : v[t].egress \in Nat /\ v[t].egress <= u.egress
      /\ w[s].iid = 0 /\ w[s].rng = 0 /\ w[s].rows = {} /\ w[s].egress <= z.egress
      /\ w[s].up => w[s].egress = u.egress + 1
  BY DEF ResetStep, SameSeq, SeqTypes, UsedType, ServerType, RngOK
<1>3. Drawn(e, w) \subseteq Drawn(d, v)
  BY <1>1, <1>2 DEF Drawn
<1>4. \A t \in Server : w[t].iid # 0 => e.invocations[w[t].iid].egress = w[t].egress
  BY SMTT(30), <1>2 DEF SeqTypes, RngOK, Grows
<1>5. \A r \in Drawn(e, w) : r[1] <= z.egress /\ Announced(e, r[1]) /\ r[1] # u.egress + 1
  <2>1. \A r \in Drawn(d, v) : r[1] \in Nat
    BY DrawnType DEF SeqTypes
  <2> QED BY <1>2, <1>3, <2>1, AnnouncedGrows DEF RngOK
<1>6. \A t \in Server : w[t].egress <= z.egress
  BY <1>2
<1>7. \A b, c \in e.blocks : b # c => b.rows \cap c.rows = {}
  BY DEF ResetStep, RngOK
<1>8. \A t, r \in Server : t # r => w[t].rows \cap w[r].rows = {}
  BY <1>2 DEF RngOK
<1>9. \A t \in Server : w[t].up =>
         \A r \in Drawn(e, w) : r[1] = w[t].egress => r[2] < w[t].rng
  BY <1>2, <1>3, <1>5 DEF RngOK
<1>10. \A t \in Server : w[t].rng > 0 =>
         <<w[t].egress, w[t].rng - 1>> \in Pub(e) \cup w[t].rows
  BY <1>1, <1>2 DEF RngOK
<1>11. \A t \in Server : \A r \in w[t].rows :
         r \notin Pub(e) /\ (r[2] > 0 => <<r[1], r[2] - 1>> \in Pub(e) \cup w[t].rows)
  BY <1>1, <1>2 DEF RngOK
<1>12. \A r \in Pub(e) : r[2] > 0 => <<r[1], r[2] - 1>> \in Pub(e)
  BY <1>1 DEF RngOK
<1>13. \A r, t \in Server : r # t /\ w[r].up /\ w[t].up => w[r].egress # w[t].egress
  <2>1. \A t \in Server : t # s => w[t].egress # u.egress + 1
    BY <1>2
  <2> QED BY <1>2, <2>1 DEF RngOK
<1> QED BY <1>4, <1>5, <1>6, <1>7, <1>8, <1>9, <1>10, <1>11, <1>12, <1>13 DEF RngOK

(* A step that draws the row new for server s. *)
DrawStep(d, v, u, s, new, e, w, z) ==
  /\ Grows(d, e) /\ e.blocks = d.blocks /\ u.egress <= z.egress
  /\ \A t \in Server : t # s => SameSeq(v, w, t) /\ w[t].iid = v[t].iid
  /\ w[s].up = v[s].up /\ w[s].rows = v[s].rows \cup {new}
  /\ w[s].iid # 0 /\ e.invocations[w[s].iid].egress = w[s].egress
  /\ new = <<w[s].egress, w[s].rng - 1>> /\ w[s].rng > 0
  /\ \/ w[s].egress = v[s].egress /\ w[s].rng = v[s].rng + 1
     \/ w[s].egress = u.egress + 1 /\ w[s].egress <= z.egress /\ w[s].rng = 1

LEMMA DrawKeeps ==
  ASSUME NEW d, NEW v, NEW u, NEW s \in Server, NEW new, NEW e, NEW w, NEW z,
         SeqTypes(d, v, u), SeqTypes(e, w, z), v[s].up, RngOK(d, v, u),
         DrawStep(d, v, u, s, new, e, w, z)
  PROVE  RngOK(e, w, z)
<1>1. Pub(e) = Pub(d)
  BY DEF Pub, DrawStep
<1>2. /\ \A t \in Server : t # s =>
            /\ w[t].rows = v[t].rows /\ w[t].egress = v[t].egress
            /\ w[t].rng = v[t].rng /\ w[t].up = v[t].up /\ w[t].iid = v[t].iid
      /\ d \in Database /\ e \in Database /\ Grows(d, e)
      /\ u.egress \in Nat /\ z.egress \in Nat /\ u.egress <= z.egress
      /\ \A t \in Server : /\ v[t].egress \in Nat /\ v[t].egress <= u.egress /\ v[t].rng \in Nat
                            /\ w[t].egress \in Nat /\ w[t].rng \in Nat
      /\ w[s].up = v[s].up /\ w[s].rows = v[s].rows \cup {new}
      /\ w[s].iid # 0 /\ e.invocations[w[s].iid].egress = w[s].egress
      /\ new = <<w[s].egress, w[s].rng - 1>> /\ w[s].rng > 0
  BY DEF DrawStep, SameSeq, SeqTypes, UsedType, ServerType, RngOK
<1>3. Drawn(e, w) = Drawn(d, v) \cup {new}
  BY <1>1, <1>2 DEF Drawn
<1>4. new[1] = w[s].egress /\ new[2] = w[s].rng - 1 /\ new[2] \in Nat
  BY <1>2
<1>5. \A r \in Drawn(d, v) : r \in Nat \X Nat /\ r[1] <= u.egress
  <2>1. Drawn(d, v) \subseteq Nat \X Nat
    BY DrawnType DEF SeqTypes
  <2> QED BY <2>1 DEF RngOK
<1>5a. ASSUME NEW r \in Drawn(d, v), r[1] = w[s].egress PROVE r[2] < w[s].rng - 1
  <2>1. r[1] \in Nat /\ r[2] \in Nat /\ r[1] <= u.egress
    BY <1>5
  <2>2. CASE w[s].egress = v[s].egress /\ w[s].rng = v[s].rng + 1
    <3>1. r[2] < v[s].rng
      BY <1>5a, <2>2 DEF RngOK
    <3> QED BY <1>2, <2>1, <2>2, <3>1
  <2>3. CASE w[s].egress = u.egress + 1
    BY <1>2, <1>5a, <2>1, <2>3
  <2> QED BY <2>2, <2>3 DEF DrawStep
<1>6. new \notin Drawn(d, v)
  <2> SUFFICES ASSUME new \in Drawn(d, v) PROVE FALSE
    OBVIOUS
  <2>1. new[2] < w[s].rng - 1
    BY <1>4, <1>5a
  <2>2. w[s].rng \in Nat
    BY <1>2
  <2> QED BY <1>4, <2>1, <2>2
<1>7. \A t \in Server : v[t].rows \subseteq Drawn(d, v) /\ Pub(d) \subseteq Drawn(d, v)
  BY DrawnType DEF SeqTypes
<1>8. \A t \in Server : w[t].iid # 0 => e.invocations[w[t].iid].egress = w[t].egress
  <2> SUFFICES ASSUME NEW t \in Server, t # s, w[t].iid # 0
               PROVE  e.invocations[w[t].iid].egress = w[t].egress
    BY <1>2
  <2>1. v[t].iid # 0 /\ w[t].iid = v[t].iid /\ w[t].egress = v[t].egress
    BY <1>2
  <2>2. v[t].iid \in 1 .. Len(d.invocations) /\ d.invocations[v[t].iid].egress = v[t].egress
    BY <2>1 DEF SeqTypes, RngOK
  <2> QED BY <1>2, <2>1, <2>2 DEF Grows
<1>9. Announced(e, w[s].egress) /\ w[s].egress <= z.egress
  BY <1>2 DEF Announced, SeqTypes, DrawStep
<1>10. \A r \in Drawn(e, w) : r[1] <= z.egress /\ Announced(e, r[1])
  <2>1. \A r \in Drawn(d, v) : Announced(e, r[1])
    BY <1>2, AnnouncedGrows DEF RngOK
  <2>2. ASSUME NEW r \in Drawn(d, v) PROVE r[1] <= z.egress
    <3>1. r[1] \in Nat /\ r[1] <= u.egress
      BY <1>5
    <3> QED BY <1>2, <3>1
  <2> QED BY <1>3, <1>4, <1>9, <2>1, <2>2
<1>11. \A t \in Server : w[t].egress <= z.egress
  BY <1>2, <1>9
<1>12. \A b, c \in e.blocks : b # c => b.rows \cap c.rows = {}
  BY DEF DrawStep, RngOK
<1>13. \A t, r \in Server : t # r => w[t].rows \cap w[r].rows = {}
  BY <1>2, <1>6, <1>7 DEF RngOK
<1>14. \A r, t \in Server : r # t /\ w[r].up /\ w[t].up => w[r].egress # w[t].egress
  <2>1. \A t \in Server : t # s /\ v[t].up => v[t].egress # w[s].egress
    BY <1>2 DEF DrawStep, RngOK
  <2> QED BY <1>2, <2>1 DEF RngOK
<1>15. \A t \in Server : w[t].up =>
         \A r \in Drawn(e, w) : r[1] = w[t].egress => r[2] < w[t].rng
  <2> SUFFICES ASSUME NEW t \in Server, w[t].up, NEW r \in Drawn(e, w), r[1] = w[t].egress
               PROVE  r[2] < w[t].rng
    OBVIOUS
  <2>1. CASE r = new
    <3>1. t = s
      BY <1>2, <1>4, <1>14, <2>1
    <3> QED BY <1>2, <1>4, <2>1, <3>1
  <2>2. CASE r \in Drawn(d, v) /\ t = s
    <3>1. r[2] \in Nat /\ r[2] < w[s].rng - 1
      BY <1>5, <1>5a, <2>2
    <3>2. w[s].rng \in Nat
      BY <1>2
    <3> QED BY <2>2, <3>1, <3>2
  <2>3. CASE r \in Drawn(d, v) /\ t # s
    BY <1>2, <2>3 DEF RngOK
  <2> QED BY <1>3, <2>1, <2>2, <2>3
<1>16. \A t \in Server : w[t].rng > 0 =>
         <<w[t].egress, w[t].rng - 1>> \in Pub(e) \cup w[t].rows
  BY <1>1, <1>2 DEF RngOK
<1>17. \A t \in Server : \A r \in w[t].rows :
         r \notin Pub(e) /\ (r[2] > 0 => <<r[1], r[2] - 1>> \in Pub(e) \cup w[t].rows)
  <2>1. new \notin Pub(e) /\ (new[2] > 0 => <<new[1], new[2] - 1>> \in Pub(e) \cup w[s].rows)
    <3>1. new \notin Pub(e)
      BY <1>1, <1>6, <1>7
    <3>2. CASE w[s].egress = v[s].egress /\ w[s].rng = v[s].rng + 1
      <4>1. v[s].rng > 0 => <<v[s].egress, v[s].rng - 1>> \in Pub(d) \cup v[s].rows
        BY DEF RngOK
      <4>2. new[1] = v[s].egress /\ new[2] = v[s].rng
        BY <1>2, <1>4, <3>2
      <4> QED BY <1>1, <1>2, <3>1, <4>1, <4>2
    <3>3. CASE w[s].rng = 1
      BY <1>4, <3>1, <3>3
    <3> QED BY <3>2, <3>3 DEF DrawStep
  <2>2. \A t \in Server : v[t].rows \subseteq w[t].rows
    BY <1>2
  <2>3. \A t \in Server : \A r \in v[t].rows :
          r \notin Pub(d) /\ (r[2] > 0 => <<r[1], r[2] - 1>> \in Pub(d) \cup v[t].rows)
    BY DEF RngOK
  <2>4. \A t \in Server : \A r \in w[t].rows : r \in v[t].rows \/ (t = s /\ r = new)
    BY <1>2
  <2> QED BY <1>1, <2>1, <2>2, <2>3, <2>4
<1>18. \A r \in Pub(e) : r[2] > 0 => <<r[1], r[2] - 1>> \in Pub(e)
  BY <1>1 DEF RngOK
<1> QED BY <1>8, <1>10, <1>11, <1>12, <1>13, <1>14, <1>15, <1>16, <1>17, <1>18 DEF RngOK

(* A step that publishes what server s holds, as block b. *)
PublishStep(d, v, u, s, b, e, w) ==
  /\ Grows(d, e) /\ e.blocks = d.blocks \cup {b} /\ b.rows = v[s].rows
  /\ \A t \in Server : t # s => SameSeq(v, w, t)
  /\ \A t \in Server : w[t].iid = v[t].iid
  /\ w[s].up = v[s].up /\ w[s].egress = v[s].egress /\ w[s].rng = v[s].rng /\ w[s].rows = {}

LEMMA PublishKeeps ==
  ASSUME NEW d, NEW v, NEW u, NEW s \in Server, NEW b, NEW e, NEW w,
         SeqTypes(d, v, u), SeqTypes(e, w, u), RngOK(d, v, u),
         PublishStep(d, v, u, s, b, e, w)
  PROVE  RngOK(e, w, u)
<1>1. Pub(e) = Pub(d) \cup v[s].rows
  BY DEF Pub, PublishStep
<1>2. /\ \A t \in Server : t # s => w[t].rows = v[t].rows
      /\ \A t \in Server : /\ w[t].egress = v[t].egress
                            /\ w[t].rng = v[t].rng /\ w[t].up = v[t].up /\ w[t].iid = v[t].iid
      /\ d \in Database /\ e \in Database /\ Grows(d, e) /\ w[s].rows = {}
  BY DEF PublishStep, SameSeq, SeqTypes
<1>3. Drawn(e, w) = Drawn(d, v)
  BY <1>1, <1>2 DEF Drawn
<1>4. \A t \in Server : w[t].iid # 0 => e.invocations[w[t].iid].egress = w[t].egress
  BY <1>2 DEF SeqTypes, RngOK, Grows
<1>5. \A r \in Drawn(e, w) : r[1] <= u.egress /\ Announced(e, r[1])
  BY <1>2, <1>3, AnnouncedGrows DEF RngOK
<1>6. \A x, y \in e.blocks : x # y => x.rows \cap y.rows = {}
  <2>1. \A x \in d.blocks : x.rows \cap b.rows = {}
    <3>1. \A r \in v[s].rows : r \notin Pub(d)
      BY DEF RngOK
    <3> QED BY <3>1 DEF Pub, PublishStep
  <2>2. \A x, y \in d.blocks : x # y => x.rows \cap y.rows = {}
    BY DEF RngOK
  <2>3. e.blocks = d.blocks \cup {b}
    BY DEF PublishStep
  <2> QED BY <2>1, <2>2, <2>3
<1>7. \A r, t \in Server : r # t => w[r].rows \cap w[t].rows = {}
  BY <1>2 DEF RngOK
<1>8. \A t \in Server : w[t].up =>
         \A r \in Drawn(e, w) : r[1] = w[t].egress => r[2] < w[t].rng
  BY <1>2, <1>3 DEF RngOK
<1>9. \A t \in Server : w[t].rng > 0 =>
         <<w[t].egress, w[t].rng - 1>> \in Pub(e) \cup w[t].rows
  BY <1>1, <1>2 DEF RngOK
<1>10. \A t \in Server : \A r \in w[t].rows :
         r \notin Pub(e) /\ (r[2] > 0 => <<r[1], r[2] - 1>> \in Pub(e) \cup w[t].rows)
  <2>1. \A t \in Server : t # s => v[t].rows \cap v[s].rows = {}
    BY DEF RngOK
  <2>2. \A t \in Server : \A r \in v[t].rows :
          r \notin Pub(d) /\ (r[2] > 0 => <<r[1], r[2] - 1>> \in Pub(d) \cup v[t].rows)
    BY DEF RngOK
  <2> QED BY <1>1, <1>2, <2>1, <2>2
<1>11. \A r \in Pub(e) : r[2] > 0 => <<r[1], r[2] - 1>> \in Pub(e)
  <2>1. \A r \in v[s].rows : r[2] > 0 => <<r[1], r[2] - 1>> \in Pub(d) \cup v[s].rows
    BY DEF RngOK
  <2>2. \A r \in Pub(d) : r[2] > 0 => <<r[1], r[2] - 1>> \in Pub(d)
    BY DEF RngOK
  <2> QED BY <1>1, <2>1, <2>2
<1>12. \A r, t \in Server : r # t /\ w[r].up /\ w[t].up => w[r].egress # w[t].egress
  BY <1>2 DEF RngOK
<1>13. \A t \in Server : w[t].egress <= u.egress
  BY <1>2 DEF RngOK
<1> QED BY <1>4, <1>5, <1>6, <1>7, <1>8, <1>9, <1>10, <1>11, <1>12, <1>13 DEF RngOK

(* The transactions that leave the blocks alone. *)
LEMMA BlocksKept ==
  ASSUME NEW d \in Database
  PROVE  /\ \A k, x : set_report(d, k, x).blocks = d.blocks
         /\ \A k, x : retire_ingress_key(d, k, x).blocks = d.blocks
         /\ \A k : report_lost_ingress_key(d, k).blocks = d.blocks
         /\ \A k, x : new_ingress_key(d, k, x).blocks = d.blocks
         /\ \A i : decommission_ingest_invocation(d, i).blocks = d.blocks
<1>1. \A k, x : set_report(d, k, x).blocks = d.blocks
  BY DEF set_report, Database
<1>2. \A k, x : retire_ingress_key(d, k, x).blocks = d.blocks
  BY DEF retire_ingress_key, Database
<1>3. \A k : report_lost_ingress_key(d, k).blocks = d.blocks
  BY DEF report_lost_ingress_key, LossFails, Database
<1>4. \A k, x : new_ingress_key(d, k, x).blocks = d.blocks
  BY DEF new_ingress_key, Database
<1>5. \A i : decommission_ingest_invocation(d, i).blocks = d.blocks
  BY DEF decommission_ingest_invocation, Database
<1> QED BY <1>1, <1>2, <1>3, <1>4, <1>5

SameDraws(v, w) == \A t \in Server : SameSeq(v, w, t) /\ w[t].iid = v[t].iid

LEMMA PerformDraws ==
  ASSUME NEW v \in [Server -> ServerType], srv \in [Server -> ServerType],
         SameDraws(srv, v), NEW t, Perform(t, v)
  PROVE  SameDraws(srv, srv')
<1>1. \A r \in Server : /\ srv'[r].up = v[r].up /\ srv'[r].egress = v[r].egress
                         /\ srv'[r].rng = v[r].rng /\ srv'[r].rows = v[r].rows
                         /\ srv'[r].iid = v[r].iid
  BY DEF Perform, ServerType
<1> QED BY <1>1 DEF SameDraws, SameSeq

LEMMA QuietActions ==
  ASSUME GoodNow, NEW s \in Server,
         \/ SaveState(s) \/ ActivateStep(s) \/ CheckPeer(s) \/ CorrectPeer(s)
         \/ BeginActivate(s) \/ SyncKeys(s) \/ SetPeers(s)
         \/ Retire(s, TRUE) \/ Retire(s, FALSE) \/ ReportLost(s)
  PROVE  SameDraws(srv, srv') /\ db'.blocks = db.blocks
<1>0. srv \in [Server -> ServerType] /\ db \in Database
  BY FactsOf
<1>1. SameDraws(srv, srv) /\ SameDraws(srv, EndCall(s))
  <2>1. \A r \in Server : /\ EndCall(s)[r].up = srv[r].up /\ EndCall(s)[r].egress = srv[r].egress
                           /\ EndCall(s)[r].rng = srv[r].rng /\ EndCall(s)[r].rows = srv[r].rows
                           /\ EndCall(s)[r].iid = srv[r].iid
    BY <1>0 DEF EndCall, ServerType
  <2> QED BY <2>1 DEF SameDraws, SameSeq
<1>2. CASE SaveState(s)
  BY <1>0, <1>2 DEF SaveState, SameDraws, SameSeq, ServerType
<1>3. CASE ActivateStatus(s)
  <2>1. CASE srv' = EndCall(s)
    BY <1>1, <1>3, <2>1 DEF ActivateStatus
  <2>2. CASE srv' = [srv EXCEPT ![s].call = "backup", ![s].asked = {}]
    <3>1. SameDraws(srv, srv')
      BY <1>0, <2>2 DEF SameDraws, SameSeq, ServerType
    <3> QED BY <1>3, <3>1 DEF ActivateStatus
  <2>3. ASSUME NEW p, srv' = [srv EXCEPT ![s].asked = @ \cup {p},
                                         ![s].tasks = @ \cup {Task(s, p)}]
        PROVE  SameDraws(srv, srv') /\ db'.blocks = db.blocks
    <3> DEFINE task == Task(s, p)
    <3>1. srv' = [srv EXCEPT ![s].asked = @ \cup {p}, ![s].tasks = @ \cup {task}]
      BY <2>3
    <3> HIDE DEF task
    <3>2. SameDraws(srv, srv')
      BY <1>0, <3>1 DEF SameDraws, SameSeq, ServerType
    <3> QED BY <1>3, <3>2 DEF ActivateStatus
  <2> QED BY <1>3, <2>1, <2>2, <2>3 DEF ActivateStatus
<1>4. CASE ActivateBackup(s)
  <2>1. CASE srv' = EndCall(s)
    BY <1>1, <1>4, <2>1 DEF ActivateBackup
  <2>2. CASE srv' = [srv EXCEPT ![s].call = "start"]
    BY <1>0, <1>4, <2>2 DEF ActivateBackup, SameDraws, SameSeq, ServerType
  <2>3. ASSUME NEW t \in srv[s].tasks, Perform(t, [srv EXCEPT ![s].tasks = @ \ {t}])
        PROVE  SameDraws(srv, srv') /\ db'.blocks = db.blocks
    <3> DEFINE v == [srv EXCEPT ![s].tasks = @ \ {t}]
    <3>1. v \in [Server -> ServerType]
      BY <1>0 DEF ServerType
    <3>2. SameDraws(srv, v)
      BY <1>0 DEF SameDraws, SameSeq, ServerType
    <3> HIDE DEF v
    <3>3. SameDraws(srv, srv')
      BY <1>0, <2>3, <3>1, <3>2, PerformDraws DEF v
    <3> QED BY <1>4, <3>3 DEF ActivateBackup
  <2> QED BY <1>4, <2>1, <2>2, <2>3 DEF ActivateBackup
<1>5. CASE ActivateStart(s)
  <2>1. db'.blocks = db.blocks
    BY <1>0, <1>5, BlocksKept DEF ActivateStart
  <2>2. SameDraws(srv, srv')
    BY <1>0, <1>5 DEF ActivateStart, SameDraws, SameSeq, ServerType
  <2> QED BY <2>1, <2>2
<1>6. CASE ActivateFinish(s)
  <2>1. db'.blocks = db.blocks
    BY <1>0, <1>6, BlocksKept DEF ActivateFinish
  <2>2. CASE srv' = EndCall(s)
    BY <1>1, <2>1, <2>2
  <2>3. CASE srv' = [srv EXCEPT ![s].mode = "Active", ![s].call = "save"]
    BY <1>0, <2>1, <2>3 DEF SameDraws, SameSeq, ServerType
  <2> QED BY <1>6, <2>2, <2>3 DEF ActivateFinish
<1>7. CASE ActivateSave(s)
  BY <1>1, <1>7 DEF ActivateSave
<1>8. CASE CheckPeer(s)
  <2>1. PICK p : srv' = [srv EXCEPT ![s].checkup = {Task(s, p)}]
    BY <1>8 DEF CheckPeer
  <2>2. SameDraws(srv, srv')
    BY <1>0, <2>1 DEF SameDraws, SameSeq, ServerType
  <2> QED BY <1>8, <2>2 DEF CheckPeer
<1>9. CASE CorrectPeer(s)
  <2> DEFINE v == [srv EXCEPT ![s].checkup = {}]
  <2>1. v \in [Server -> ServerType]
    BY <1>0 DEF ServerType
  <2>2. SameDraws(srv, v)
    BY <1>0 DEF SameDraws, SameSeq, ServerType
  <2>3. PICK t : srv' = v \/ Perform(t, v)
    BY <1>9 DEF CorrectPeer
  <2> HIDE DEF v
  <2>4. SameDraws(srv, srv')
    BY <1>0, <2>1, <2>2, <2>3, PerformDraws
  <2> QED BY <1>9, <2>4 DEF CorrectPeer
<1>10. CASE BeginActivate(s)
  BY <1>0, <1>10 DEF BeginActivate, SameDraws, SameSeq, ServerType
<1>11. CASE SyncKeys(s)
  <2>1. PICK p : srv' = [srv EXCEPT ![s].key = srv[p].key]
    BY <1>11 DEF SyncKeys
  <2>2. SameDraws(srv, srv')
    BY <1>0, <2>1 DEF SameDraws, SameSeq, ServerType
  <2> QED BY <1>11, <2>2 DEF SyncKeys
<1>12. CASE SetPeers(s)
  <2>1. PICK others : srv' = [srv EXCEPT ![s].peers = {s} \cup others]
    BY <1>12 DEF SetPeers
  <2>2. SameDraws(srv, srv')
    BY <1>0, <2>1 DEF SameDraws, SameSeq, ServerType
  <2> QED BY <1>12, <2>2 DEF SetPeers
<1>13. CASE Retire(s, TRUE) \/ Retire(s, FALSE)
  <2>1. PICK flag \in BOOLEAN : db' = retire_ingress_key(db, srv[s].key, flag) /\ srv' = srv
    BY <1>13 DEF Retire
  <2>2. db'.blocks = db.blocks
    BY <1>0, <2>1, BlocksKept
  <2> QED BY <1>1, <2>1, <2>2
<1>14. CASE ReportLost(s)
  BY <1>0, <1>1, <1>14, BlocksKept DEF ReportLost
<1> QED BY <1>2, <1>3, <1>4, <1>5, <1>6, <1>7, <1>8, <1>9, <1>10, <1>11, <1>12, <1>13,
           <1>14 DEF ActivateStep

LEMMA SeqTypesOf ==
  ASSUME NEW d, NEW v, NEW f, NEW n, NEW u, Good(d, v, f, n, u)
  PROVE  SeqTypes(d, v, u)
BY DEF Good, Types, Sound, ServerOK, Holds, SeqTypes

(* A step after which only server s, now x, may have other sequences. *)
LEMMA OthersSame ==
  ASSUME srv \in [Server -> ServerType], NEW s \in Server, NEW x, srv' = [srv EXCEPT ![s] = x]
  PROVE  srv'[s] = x /\ \A t \in Server : t # s => SameSeq(srv, srv', t) /\ srv'[t].iid = srv[t].iid
BY DEF SameSeq

LEMMA NewEgressResets ==
  ASSUME GoodNow, NEW s \in Server, NEW from, NEW step, new_egress_key(s, from, step),
         from \in Database, from.blocks = db.blocks, Grows(db, db')
  PROVE  ResetStep(db, srv, used, s, db', srv', used')
<1> DEFINE y == srv[s]
           x == [y EXCEPT !.mode = "Idle", !.iid = 0, !.egress = used.egress + 1, !.rng = 0,
                          !.work = step, !.rows = {}, !.chunk = 0]
<1>0. y \in ServerType /\ srv \in [Server -> ServerType] /\ used \in UsedType /\ used.egress \in Nat
  BY FactsOf DEF UsedType
<1>1. srv' = [srv EXCEPT ![s] = x] /\ used' = [used EXCEPT !.egress = used.egress + 1]
  BY <1>0 DEF new_egress_key
<1>2. x.iid = 0 /\ x.egress = used.egress + 1 /\ x.rng = 0 /\ x.rows = {}
  BY <1>0 DEF ServerType
<1>3. used'.egress = used.egress + 1
  BY <1>0, <1>1 DEF UsedType
<1>4. db'.blocks = db.blocks
  BY BlocksKept DEF new_egress_key
<1> HIDE DEF x
<1>5. srv'[s] = x /\ \A t \in Server : t # s => SameSeq(srv, srv', t) /\ srv'[t].iid = srv[t].iid
  BY <1>0, <1>1, OthersSame
<1> QED BY <1>0, <1>2, <1>3, <1>4, <1>5 DEF ResetStep

LEMMA NewKeysResets ==
  ASSUME GoodNow, NEW s \in Server, NEW cost, NewKeys(s, cost), db' = db
  PROVE  ResetStep(db, srv, used, s, db', srv', used')
<1> DEFINE y == srv[s]
           x == [y EXCEPT !.iid = 0, !.key = used.keys + 1,
                          !.egress = used.egress + 1, !.rng = 0]
<1>0. /\ y \in ServerType /\ srv \in [Server -> ServerType] /\ used \in UsedType
      /\ used.egress \in Nat /\ ServerOK(y, db, chain, used.keys) /\ Grows(db, db)
  BY FactsOf, GrowsRefl DEF UsedType
<1>1. /\ srv' = [srv EXCEPT ![s] = x] /\ y.mode = "Idle"
      /\ used' = [used EXCEPT !.keys = used.keys + 1, !.egress = used.egress + 1,
                              !.commands = used.commands + cost]
  BY <1>0 DEF NewKeys
<1>2. x.iid = 0 /\ x.egress = used.egress + 1 /\ x.rng = 0 /\ x.rows = y.rows
  BY <1>0 DEF ServerType
<1>3. x.rows = {}
  BY <1>0, <1>1, <1>2 DEF ServerOK
<1>4. used'.egress = used.egress + 1
  BY <1>0, <1>1 DEF UsedType
<1> HIDE DEF x
<1>5. srv'[s] = x /\ \A t \in Server : t # s => SameSeq(srv, srv', t) /\ srv'[t].iid = srv[t].iid
  BY <1>0, <1>1, OthersSame
<1> QED BY <1>0, <1>2, <1>3, <1>4, <1>5 DEF ResetStep

(* Server x has drawn nothing, and is down or has a new egress key. *)
Unused(x, u, z) ==
  /\ x.iid = 0 /\ x.rng = 0 /\ x.rows = {}
  /\ u.egress <= z.egress /\ x.egress <= z.egress
  /\ x.up => x.egress = u.egress + 1

LEMMA ResetBy ==
  ASSUME GoodNow, NEW s \in Server, NEW x, srv' = [srv EXCEPT ![s] = x], db' = db,
         Unused(x, used, used')
  PROVE  ResetStep(db, srv, used, s, db', srv', used')
<1>0. srv \in [Server -> ServerType] /\ Grows(db, db)
  BY FactsOf, GrowsRefl
<1>1. srv'[s] = x /\ \A t \in Server : t # s => SameSeq(srv, srv', t) /\ srv'[t].iid = srv[t].iid
  BY <1>0, OthersSame
<1> QED BY <1>0, <1>1 DEF ResetStep, Unused

LEMMA CrashResets ==
  ASSUME GoodNow, NEW s \in Server, Crash(s) \/ RestartFresh(s) \/ Restart(s)
  PROVE  ResetStep(db, srv, used, s, db', srv', used')
<1>0. used \in UsedType /\ used.egress \in Nat
  BY FactsOf DEF UsedType
<1>1. CASE Crash(s)
  <2>1. srv' = [srv EXCEPT ![s] = Down] /\ db' = db /\ used' = [used EXCEPT !.faults = @ + 1]
    BY <1>1 DEF Crash
  <2>2. used'.egress = used.egress
    BY <1>0, <2>1 DEF UsedType
  <2>3. Down.egress = 0 /\ Down.iid = 0 /\ Down.rng = 0 /\ Down.rows = {} /\ ~Down.up
    BY DEF Down, Fresh
  <2>4. Unused(Down, used, used')
    BY <1>0, <2>2, <2>3 DEF Unused
  <2> QED BY <2>1, <2>4, ResetBy
<1>2. CASE RestartFresh(s)
  <2> DEFINE x == Fresh(used.keys + 1, used.egress + 1)
  <2>1. /\ srv' = [srv EXCEPT ![s] = x] /\ db' = db
        /\ used' = [used EXCEPT !.keys = @ + 1, !.egress = @ + 1]
    BY <1>2 DEF RestartFresh, Start
  <2>2. used'.egress = used.egress + 1
    BY <1>0, <2>1 DEF UsedType
  <2>3. x.egress = used.egress + 1 /\ x.iid = 0 /\ x.rng = 0 /\ x.rows = {}
    BY DEF Fresh
  <2> HIDE DEF x
  <2>4. Unused(x, used, used')
    BY <1>0, <2>2, <2>3 DEF Unused
  <2> QED BY <2>1, <2>4, ResetBy
<1>3. CASE Restart(s)
  <2>1. PICK f \in file[s] :
        \/ Start(s, [Fresh(f.key, used.egress + 1) EXCEPT !.mode = f.mode, !.next = f.next,
                                                          !.peers = f.peers])
        \/ Start(s, Fresh(f.key, used.egress + 1))
    BY <1>3 DEF Restart
  <2>2. used' = [used EXCEPT !.egress = @ + 1]
    BY <1>3 DEF Restart
  <2>3. used'.egress = used.egress + 1
    BY <1>0, <2>2 DEF UsedType
  <2> DEFINE new == Fresh(f.key, used.egress + 1)
             x == [new EXCEPT !.mode = f.mode, !.next = f.next, !.peers = f.peers]
  <2>4. /\ new.egress = used.egress + 1 /\ new.iid = 0 /\ new.rng = 0 /\ new.rows = {}
        /\ x.egress = used.egress + 1 /\ x.iid = 0 /\ x.rng = 0 /\ x.rows = {}
    BY DEF Fresh
  <2>5. Start(s, x) \/ Start(s, new)
    BY <2>1
  <2> HIDE DEF x, new
  <2>6. Unused(x, used, used') /\ Unused(new, used, used')
    BY <1>0, <2>3, <2>4 DEF Unused
  <2> QED BY <2>5, <2>6, ResetBy DEF Start
<1> QED BY <1>1, <1>2, <1>3

(* No step but a failing ingest_txs breaks a sequence. *)
LEMMA IngestStepRng ==
  ASSUME GoodNow, RngOK(db, srv, used), FogNext, "ingest_error" \notin Faults
  PROVE  RngOK(db', srv', used')
<1>0. /\ GoodNow' /\ Grows(db, db') /\ SeqTypes(db, srv, used) /\ SeqTypes(db', srv', used')
      /\ srv \in [Server -> ServerType] /\ db \in Database /\ used \in UsedType
      /\ used.egress \in Nat
  <2>1. GoodNow' /\ Grows(db, db')
    BY IngestStepGood
  <2>2. SeqTypes(db', srv', used') /\ SeqTypes(db, srv, used)
    BY <2>1, SeqTypesOf DEF GoodNow
  <2> QED BY <2>1, <2>2, FactsOf DEF UsedType
<1>1. ASSUME SameDraws(srv, srv'), db'.blocks = db.blocks, used.egress <= used'.egress
      PROVE  RngOK(db', srv', used')
  BY <1>0, <1>1, QuietKeeps DEF QuietStep, SameDraws
<1>2. ASSUME NEW s \in Server, ResetStep(db, srv, used, s, db', srv', used')
      PROVE  RngOK(db', srv', used')
  BY <1>0, <1>2, ResetKeeps
<1>3. CASE NewBlock
  BY <1>0, <1>1, <1>3 DEF NewBlock, SameDraws, SameSeq
<1>4. ASSUME NEW s \in Server,
             \/ WorkerStep(s) \/ ActivateStep(s) \/ CheckPeer(s) \/ CorrectPeer(s)
             \/ Operator(s) \/ Crash(s) \/ RestartFresh(s) \/ Restart(s)
      PROVE  RngOK(db', srv', used')
  <2> DEFINE y == srv[s]
  <2>0. y \in ServerType /\ ServerOK(y, db, chain, used.keys)
    BY FactsOf
  <2>1. CASE BeginBlock(s)
    <3> DEFINE reported == set_report(db, y.key, y.next + Window)
    <3>1. /\ y.mode = "Active" /\ y.work = "poll"
          /\ \/ new_egress_key(s, reported, "poll")
             \/ /\ db' = IF y.iid # 0 THEN reported
                         ELSE new_ingest_invocation(reported, 0, y.key, y.egress, y.next)
                /\ srv' = [srv EXCEPT ![s].iid = IF @ # 0 THEN @ ELSE Len(db'.invocations),
                                      ![s].work = "ingest"]
                /\ used' = used
      BY <2>1 DEF BeginBlock
    <3>2. /\ reported \in Database /\ reported.blocks = db.blocks
          /\ reported.invocations = db.invocations
      <4>1. /\ y.key \in Known(db) /\ y.next + Window \in Nat /\ chain + Window \in Nat
            /\ y.next + Window <= chain + Window /\ db.keys[y.key].expiry <= chain + Window
        <5>1. /\ y.key \in Known(db) /\ y.next \in Nat /\ y.next <= chain
              /\ DbOK(db, chain, used.keys)
          BY <2>0, <3>1, FactsOf DEF ServerOK, Follows, ServerType
        <5>2. chain \in Nat /\ Window \in Nat
          BY FactsOf, FogAssumption
        <5> QED BY <5>1, <5>2 DEF DbOK
      <4> HIDE DEF y
      <4> QED BY <1>0, <4>1, SetReport
    <3> HIDE DEF reported
    <3>3. CASE new_egress_key(s, reported, "poll")
      BY <1>0, <1>2, <3>2, <3>3, NewEgressResets
    <3>4. CASE ~new_egress_key(s, reported, "poll")
      <4>1. \A t \in Server : SameSeq(srv, srv', t) /\ (t # s => srv'[t].iid = srv[t].iid)
        BY <1>0, <3>1, <3>4 DEF SameSeq, ServerType
      <4>2. srv'[s].iid = IF y.iid # 0 THEN y.iid ELSE Len(db'.invocations)
        BY <1>0, <3>1, <3>4 DEF ServerType
      <4>3. CASE y.iid # 0
        BY <1>0, <1>1, <3>1, <3>2, <3>4, <4>1, <4>2, <4>3 DEF SameDraws
      <4>4. CASE y.iid = 0
        <5>1. db' = new_ingest_invocation(reported, 0, y.key, y.egress, y.next)
          BY <3>1, <3>4, <4>4
        <5>2. 0 \in 0 .. Len(reported.invocations)
          BY <3>2 DEF Database
        <5>3. y.key \in Nat /\ y.egress \in Nat /\ y.next \in Nat
          BY <2>0 DEF ServerType
        <5>4. Invoked(reported, 0, y.key, y.egress, db')
          BY <3>2, <5>1, <5>2, <5>3, NewInvocation
        <5>5. /\ db'.blocks = db.blocks
              /\ db'.invocations[Len(db'.invocations)].egress = y.egress
          BY <3>2, <5>4 DEF Invoked, OnlyInvocations
        <5>6. srv'[s].egress = y.egress
          BY <4>1 DEF SameSeq
        <5>7. QuietStep(db, srv, used, db', srv', used')
          BY <1>0, <3>1, <3>4, <4>1, <4>2, <4>4, <5>5, <5>6 DEF QuietStep
        <5> QED BY <1>0, <5>7, QuietKeeps
      <4> QED BY <4>3, <4>4
    <3> QED BY <3>3, <3>4
  <2>2. CASE IngestChunk(s)
    <3> DEFINE new == <<y.egress, y.rng>>
               x == [y EXCEPT !.rows = y.rows \cup {new}, !.rng = y.rng + 1, !.chunk = y.chunk + 1]
    <3>1. y.up /\ y.work = "ingest" /\ srv' = [srv EXCEPT ![s] = x] /\ db' = db /\ used' = used
      BY <1>0, <2>2 DEF IngestChunk
    <3>2. /\ x.up = y.up /\ x.rows = y.rows \cup {new} /\ x.rng = y.rng + 1
          /\ x.egress = y.egress /\ x.iid = y.iid /\ y.rng \in Nat
      BY <2>0 DEF ServerType
    <3> HIDE DEF x
    <3>3. srv'[s] = x /\ \A t \in Server : t # s => SameSeq(srv, srv', t) /\ srv'[t].iid = srv[t].iid
      BY <1>0, <3>1, OthersSame
    <3>4. y.iid # 0 /\ db.invocations[y.iid].egress = y.egress
      BY <2>0, <3>1 DEF ServerOK, RngOK
    <3>5. new = <<x.egress, x.rng - 1>> /\ x.rng > 0
      BY <3>2
    <3> HIDE DEF new
    <3>6. DrawStep(db, srv, used, s, new, db', srv', used')
      <4>1. /\ srv'[s].up = srv[s].up /\ srv'[s].rows = srv[s].rows \cup {new}
            /\ srv'[s].iid # 0 /\ db'.invocations[srv'[s].iid].egress = srv'[s].egress
            /\ srv'[s].egress = srv[s].egress /\ srv'[s].rng = srv[s].rng + 1
        BY <3>1, <3>2, <3>3, <3>4
      <4>2. db'.blocks = db.blocks /\ used.egress <= used'.egress
        BY <1>0, <3>1
      <4> QED BY <1>0, <3>3, <3>5, <4>1, <4>2 DEF DrawStep
    <3> QED BY <1>0, <3>1, <3>6, DrawKeeps
  <2>3. CASE Overflow(s)
    <3> DEFINE egress == used.egress + 1
               new == <<egress, 0>>
               x == [y EXCEPT !.iid = Len(db'.invocations), !.egress = egress, !.rng = 1,
                              !.rows = y.rows \cup {new}, !.chunk = y.chunk + 1]
    <3>1. /\ y.up /\ y.work = "ingest" /\ srv' = [srv EXCEPT ![s] = x]
          /\ used' = [used EXCEPT !.egress = egress, !.faults = @ + 1]
          /\ db' = new_ingest_invocation(db, y.iid, y.key, egress, y.next)
      BY ZenonT(40), <1>0, <2>3 DEF Overflow
    <3>2. /\ y.iid \in 0 .. Len(db.invocations) /\ y.key \in Nat /\ y.next \in Nat
          /\ egress \in Nat
      BY <1>0, <2>0, <3>1 DEF ServerOK, Holds, ServerType
    <3>3. used'.egress = egress /\ used.egress <= egress
      BY <1>0, <3>1 DEF UsedType
    <3> HIDE DEF egress
    <3>4. Invoked(db, y.iid, y.key, egress, db')
      BY <1>0, <3>1, <3>2, NewInvocation
    <3>5. /\ db'.blocks = db.blocks /\ Len(db'.invocations) # 0
          /\ db'.invocations[Len(db'.invocations)].egress = egress
      BY <3>4 DEF Invoked, OnlyInvocations
    <3>6. /\ x.up = y.up /\ x.rows = y.rows \cup {new} /\ x.rng = 1
          /\ x.egress = egress /\ x.iid = Len(db'.invocations)
      BY <2>0 DEF ServerType
    <3> HIDE DEF x
    <3>7. srv'[s] = x /\ \A t \in Server : t # s => SameSeq(srv, srv', t) /\ srv'[t].iid = srv[t].iid
      BY <1>0, <3>1, OthersSame
    <3>8. new = <<x.egress, x.rng - 1>> /\ x.rng > 0
      BY <3>6
    <3> HIDE DEF new
    <3>9. DrawStep(db, srv, used, s, new, db', srv', used')
      <4>1. x.egress = used.egress + 1 /\ x.egress <= used'.egress
        BY <3>2, <3>3, <3>6 DEF egress
      <4> QED BY <1>0, <3>3, <3>5, <3>6, <3>7, <3>8, <4>1 DEF DrawStep
    <3> QED BY <1>0, <3>1, <3>9, DrawKeeps
  <2>4. CASE IngestFails(s)
    BY <2>4 DEF IngestFails, Fault
  <2>5. CASE CommitBlock(s)
    <3>1. CASE new_egress_key(s, db, "save")
      BY <1>0, <1>2, <3>1, NewEgressResets
    <3>2. CASE ~new_egress_key(s, db, "save")
      <4> DEFINE x == [y EXCEPT !.next = y.next + 1, !.work = "save", !.rows = {}, !.chunk = 0]
                 b == [key |-> db.invocations[y.iid].key, iid |-> y.iid, index |-> y.next,
                       rows |-> y.rows]
      <4>1. /\ db' = add_block_data(db, y.iid, y.next, y.rows)
            /\ srv' = [srv EXCEPT ![s] = x] /\ used' = used /\ y.work = "ingest"
        BY <1>0, <2>5, <3>2 DEF CommitBlock
      <4>2. y.iid \in 1 .. Len(db.invocations) /\ y.next \in Nat /\ y.rows \in SUBSET (Nat \X Nat)
        BY <2>0, <4>1 DEF ServerOK, Holds, ServerType
      <4>3. db'.blocks = db.blocks \cup {b}
        BY <1>0, <4>1, <4>2, AddBlock
      <4>4. b.rows = y.rows
        OBVIOUS
      <4>5. /\ x.up = y.up /\ x.rows = {} /\ x.rng = y.rng
            /\ x.egress = y.egress /\ x.iid = y.iid
        BY <2>0 DEF ServerType
      <4> HIDE DEF x, b
      <4>6. srv'[s] = x /\ \A t \in Server : t # s => SameSeq(srv, srv', t) /\ srv'[t].iid = srv[t].iid
        BY <1>0, <4>1, OthersSame
      <4>7. PublishStep(db, srv, used, s, b, db', srv')
        BY <1>0, <4>3, <4>4, <4>5, <4>6 DEF PublishStep
      <4>8. RngOK(db', srv', used)
        BY <1>0, <4>1, <4>7, PublishKeeps
      <4> QED BY <4>1, <4>8
    <3> QED BY <3>1, <3>2
  <2>6. CASE SaveState(s) \/ ActivateStep(s) \/ CheckPeer(s) \/ CorrectPeer(s)
    <3>1. SameDraws(srv, srv') /\ db'.blocks = db.blocks
      BY <2>6, QuietActions
    <3>2. used' = used
      BY <2>6 DEF SaveState, ActivateStep, ActivateStatus, ActivateBackup, ActivateStart,
                  ActivateFinish, ActivateSave, CheckPeer, CorrectPeer
    <3> QED BY <1>0, <1>1, <3>1, <3>2
  <2>7. CASE Operator(s)
    <3>1. CASE NewKeys(s, 1)
      <4>1. db' = db
        BY <2>7, <3>1, NewKeysGood DEF Operator
      <4> QED BY <1>2, <3>1, <4>1, NewKeysResets
    <3>2. CASE ~NewKeys(s, 1)
      <4>1. /\ used' = [used EXCEPT !.commands = @ + 1]
            /\ \/ BeginActivate(s) \/ SyncKeys(s) \/ SetPeers(s)
               \/ Retire(s, TRUE) \/ Retire(s, FALSE) \/ ReportLost(s)
        BY <2>7, <3>2 DEF Operator
      <4>2. SameDraws(srv, srv') /\ db'.blocks = db.blocks
        BY <4>1, QuietActions
      <4>3. used'.egress = used.egress
        BY <1>0, <4>1 DEF UsedType
      <4> QED BY <1>0, <1>1, <4>2, <4>3
    <3> QED BY <3>1, <3>2
  <2>8. CASE Crash(s) \/ RestartFresh(s) \/ Restart(s)
    BY <1>2, <2>8, CrashResets
  <2> QED BY <1>4, <2>1, <2>2, <2>3, <2>4, <2>5, <2>6, <2>7, <2>8 DEF WorkerStep
<1> QED BY <1>3, <1>4 DEF FogNext

LEMMA StepRng ==
  ASSUME IInv, RngOK(db, srv, used), [Next]_vars, "ingest_error" \notin Faults
  PROVE  RngOK(db', srv', used')
<1>0. /\ GoodNow /\ SeqTypes(db, srv, used) /\ srv \in [Server -> ServerType]
      /\ db \in Database /\ Watched(ov, db) /\ used.egress \in Nat
  BY SeqTypesOf, FactsOf DEF IInv, GoodNow, UsedType
<1>1. SeqTypes(db', srv', used') /\ Grows(db, db')
  BY StepGood, SeqTypesOf DEF IInv
<1>2. CASE FogNext
  BY <1>0, <1>2, IngestStepRng
<1>3. CASE UNCHANGED fogVars
  BY <1>3 DEF fogVars
<1>4. CASE GiveUpKey
  <2>1. db'.blocks = db.blocks /\ srv' = srv /\ used' = used
    BY <1>0, <1>4, BlocksKept DEF GiveUpKey
  <2>2. QuietStep(db, srv, used, db', srv', used')
    BY <1>0, <1>1, <2>1 DEF QuietStep, SameSeq
  <2> QED BY <1>0, <1>1, <2>2, QuietKeeps
<1>5. CASE TryNewKeys
  <2>1. CASE NewKeys(ov.node, 0)
    <3>1. ov.node \in Server /\ chain' = chain
      BY <1>0, <1>5 DEF TryNewKeys, Watched
    <3>2. db' = db
      BY <1>0, <2>1, <3>1, NewKeysGood
    <3>3. ResetStep(db, srv, used, ov.node, db', srv', used')
      BY <1>0, <2>1, <3>1, <3>2, NewKeysResets
    <3> QED BY <1>0, <1>1, <3>1, <3>3, ResetKeeps
  <2>2. CASE UNCHANGED <<db, srv, file, used>>
    BY <2>2
  <2> QED BY <1>5, <2>1, <2>2 DEF TryNewKeys
<1>6. CASE CallActivate
  <2>1. ov.node \in Server /\ BeginActivate(ov.node) /\ used' = used
    BY <1>0, <1>6 DEF CallActivate, Watched
  <2>2. SameDraws(srv, srv') /\ db'.blocks = db.blocks
    BY <1>0, <2>1, QuietActions
  <2>3. QuietStep(db, srv, used, db', srv', used')
    BY <1>0, <1>1, <2>1, <2>2 DEF QuietStep, SameDraws
  <2> QED BY <1>0, <1>1, <2>3, QuietKeeps
<1> QED BY <1>2, <1>3, <1>4, <1>5, <1>6
    DEF Next, vars, OverseerStep, GetStatus, Decide, EndActivate

LEMMA InitRng == Init => RngOK(db, srv, used)
<1> SUFFICES ASSUME Init PROVE RngOK(db, srv, used)
  OBVIOUS
<1>1. /\ db = EmptyDb /\ srv = [s \in Server |-> Fresh(s, s)] /\ used.egress = NumServers
  BY DEF Init, FogInit
<1>2. db.blocks = {}
  BY <1>1, EmptyIsDatabase
<1>3. \A s \in Server : /\ srv[s].egress = s /\ srv[s].iid = 0 /\ srv[s].rows = {}
                         /\ srv[s].rng = 0
  BY <1>1 DEF Fresh
<1>4. Pub(db) = {} /\ Drawn(db, srv) = {}
  BY <1>2, <1>3 DEF Pub, Drawn
<1>5. \A s \in Server : srv[s].egress <= used.egress
  BY <1>1, <1>3, FogAssumption DEF Server
<1> QED BY <1>2, <1>3, <1>4, <1>5 DEF RngOK

LEMMA RngInvariance ==
  ASSUME "ingest_error" \notin Faults
  PROVE  Spec => []RInv
<1>1. Init => RInv
  BY InitGood, InitRng DEF RInv
<1>2. RInv /\ [Next]_vars => RInv'
  BY StepGood, StepRng DEF RInv
<1> QED BY <1>1, <1>2, PTL DEF Spec

(* As long as ingest_txs does not fail (controller.rs:545 returns then and *)
(* leaves the enclave with a rotated egress key), nobody takes the block,  *)
(* the key or the invocation from under the worker between the locked      *)
(* sections of process_next_block, and an idle server holds neither an     *)
(* invocation nor a started sequence.                                      *)
THEOREM WorkerKeepsInvocation ==
  ASSUME "ingest_error" \notin Faults
  PROVE  Spec => []InvocationHeld
<1>1. RInv => InvocationHeld
  <2> SUFFICES ASSUME RInv, NEW s \in Server
               PROVE  /\ srv[s].work = "ingest" =>
                           /\ srv[s].mode = "Active" /\ srv[s].iid # 0
                           /\ LET i == db.invocations[srv[s].iid]
                              IN  /\ ~i.decommissioned /\ i.key = srv[s].key
                                  /\ i.egress = srv[s].egress
                      /\ srv[s].mode = "Idle" => srv[s].iid = 0 /\ srv[s].rng = 0
    BY DEF InvocationHeld
  <2>1. srv[s] \in ServerType /\ ServerOK(srv[s], db, chain, used.keys)
    BY FactsOf DEF RInv, IInv, GoodNow
  <2>2. srv[s].iid # 0 => db.invocations[srv[s].iid].egress = srv[s].egress
    BY DEF RInv, RngOK
  <2> QED BY <2>1, <2>2 DEF ServerOK, Holds, ServerType, Mode
<1> QED BY <1>1, RngInvariance, PTL

(* As long as ingest_txs does not fail (controller.rs:545), what is        *)
(* published of every egress key is announced, starts at the first output  *)
(* of its sequence and has no gap and no output twice, through overflows,  *)
(* crashes in the middle of a block, and blocks that another server        *)
(* committed first.                                                        *)
THEOREM SequencesWhole ==
  ASSUME "ingest_error" \notin Faults
  PROVE  Spec => []RngSequences
<1>1. RInv => RngSequences
  <2> SUFFICES ASSUME RInv PROVE RngSequences
    OBVIOUS
  <2>1. db \in Database /\ srv \in [Server -> ServerType] /\ RngOK(db, srv, used)
    BY FactsOf DEF RInv, IInv, GoodNow
  <2>2. DOMAIN db.invocations = 1 .. Len(db.invocations)
    BY <2>1 DEF Database
  <2>3. Published = Pub(db) /\ Pub(db) \subseteq Drawn(db, srv)
    BY DEF Published, Pub, Drawn
  <2>4. \A row \in Published : \E i \in DOMAIN db.invocations : db.invocations[i].egress = row[1]
    BY <2>1, <2>2, <2>3 DEF RngOK, Announced
  <2> QED BY <2>1, <2>3, <2>4 DEF RngOK, RngSequences
<1> QED BY <1>1, RngInvariance, PTL

=============================================================================
