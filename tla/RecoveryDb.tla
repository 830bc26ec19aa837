----------------------------- MODULE RecoveryDb -----------------------------
(***************************************************************************)
(* The SQL recovery database of Fog (fog/sql_recovery_db): the tables the  *)
(* ingest servers, the overseer and the report server share.  Every public *)
(* operation of the database is one transaction, modelled by an operator   *)
(* from the database's contents to its new contents.                       *)
(*                                                                         *)
(* A database is a record of                                               *)
(*   keys         the ingress_keys table, a function from the known keys   *)
(*   invocations  the ingest_invocations table, indexed by its serial id   *)
(*   blocks       the ingested_blocks table                                *)
(*   missed       the missing_blocks rows of user_events                   *)
(*   report       the row of reports for the one fog_report_id             *)
(* What a block row publishes is abstracted to the positions of the        *)
(* random-number sequence its ETxOutRecords were tagged with.              *)
(***************************************************************************)
EXTENDS Naturals, Sequences, FiniteSetsExt

EmptyDb == [keys |-> << >>, invocations |-> << >>, blocks |-> {},
            missed |-> {}, report |-> {}]

Known(db) == DOMAIN db.keys

(* The indices of the blocks scanned with key k. *)
Scanned(db, k) == {b.index : b \in {x \in db.blocks : x.key = k}}

(* Mutant: off by one. *)
HighestKnownCount_past(db) == Max({0} \cup {b.index + 2 : b \in db.blocks})

(* One past get_highest_known_block_index. *)
HighestKnownCount(db) == Max({0} \cup {b.index + 1 : b \in db.blocks})

(* Mutant: takes the index of the last block for a count of blocks past it. *)
ResumeAt_skips(db, k) ==
    IF Scanned(db, k) = {} THEN db.keys[k].start
    ELSE Max(Scanned(db, k)) + 2

(* The block a server that activates with the known key k starts at: one   *)
(* past get_last_scanned_block_index, or the key's own start block.        *)
ResumeAt(db, k) ==
    IF Scanned(db, k) = {} THEN db.keys[k].start
    ELSE Max(Scanned(db, k)) + 1

(* Inserts a key, which must not be known, with no expiry published yet. *)
new_ingress_key(db, k, count) ==
    [db EXCEPT !.keys = [j \in Known(db) \cup {k} |->
        IF j \in Known(db) THEN db.keys[j]
        ELSE [start |-> Max({count, HighestKnownCount(db)}), expiry |-> 0,
              retired |-> FALSE, lost |-> FALSE]]]

retire_ingress_key(db, k, set_retired) ==
    IF k \in Known(db) THEN [db EXCEPT !.keys[k].retired = set_retired] ELSE db

(* Mutant: writes the expiry of the report as it is. *)
set_report_lowers(db, k, expiry) ==
    IF db.keys[k].retired THEN db
    ELSE [db EXCEPT !.keys[k].expiry = expiry,
                    !.report = {[key |-> k, expiry |-> expiry]}]

(* Raises the key's published expiry and replaces the published report,    *)
(* both only while the key is not retired.                                 *)
set_report(db, k, expiry) ==
    IF db.keys[k].retired THEN db
    ELSE [db EXCEPT !.keys[k].expiry = Max({@, expiry}),
                    !.report = {[key |-> k, expiry |-> expiry]}]

decommission_ingest_invocation(db, iid) ==
    [db EXCEPT !.invocations[iid].decommissioned = TRUE]

(* A new invocation, the id of which is the new length of the table; a     *)
(* previous invocation (iid 0 is none) is decommissioned with it.          *)
new_ingest_invocation(db, prev, k, egress, start) ==
    LET cleared == IF prev = 0 THEN db
                   ELSE decommission_ingest_invocation(db, prev)
    IN  [cleared EXCEPT !.invocations = Append(@,
            [key |-> k, egress |-> egress, start |-> start,
             decommissioned |-> FALSE])]

(* The two UNIQUE constraints of ingested_blocks. *)
AlreadyScanned(db, iid, index) ==
    index \in Scanned(db, db.invocations[iid].key)

add_block_data(db, iid, index, rows) ==
    [db EXCEPT !.blocks = @ \cup {[key |-> db.invocations[iid].key, iid |-> iid,
                                   index |-> index, rows |-> rows]}]

(* Mutant: off by one. *)
MissedRange_late(db, k) ==
    [from |-> Max({db.keys[k].start} \cup {i + 2 : i \in Scanned(db, k)}),
     to   |-> db.keys[k].expiry]

(* The half-open range of blocks nobody will scan with a lost key. *)
MissedRange(db, k) ==
    [from |-> Max({db.keys[k].start} \cup {i + 1 : i \in Scanned(db, k)}),
     to   |-> db.keys[k].expiry]

(* A range that was announced before violates the UNIQUE constraint of     *)
(* user_events, and the whole transaction is rolled back.                  *)
LossFails(db, k) == MissedRange(db, k) \in db.missed

(* Marks a key lost and announces its missed range unless it is empty. *)
report_lost_ingress_key(db, k) ==
    LET range == MissedRange(db, k)
    IN  IF LossFails(db, k) THEN db
        ELSE [db EXCEPT !.keys[k].lost = TRUE,
                        !.missed = IF range.from < range.to THEN @ \cup {range}
                                   ELSE @]

(* Mutant: should_only_include_unexpired_keys is not applied. *)
Outstanding_expired(db) ==
    {k \in Known(db) : ~db.keys[k].lost /\ Scanned(db, k) # {}}

(* The keys get_ingress_key_records finds for the overseer: not lost, with *)
(* a last scanned block that is below the published expiry.                *)
Outstanding(db) ==
    {k \in Known(db) : /\ ~db.keys[k].lost
                       /\ Scanned(db, k) # {}
                       /\ db.keys[k].expiry > Max(Scanned(db, k))}

(***************************************************************************)
(* What is owed to the users of a key: the blocks below the largest expiry *)
(* that was published for it, unless they are scanned or announced missed. *)
(***************************************************************************)
Owed(db, k) ==
    {i \in db.keys[k].start .. db.keys[k].expiry - 1 :
        /\ i \notin Scanned(db, k)
        /\ \A r \in db.missed : ~(r.from <= i /\ i < r.to)}

=============================================================================
