-------------------------- MODULE MCByzantineLedger --------------------------
(* Instances of ByzantineLedger for TLC: three peers, one of them faulty. *)
EXTENDS ByzantineLedger, TLC

CONSTANTS p1, p2, p3, t1, t2

AnyTwo == {{p1, p2}, {p1, p3}, {p2, p3}}
OwnImage == [t \in Tx |-> t]
(* t1 can only be in block 1; t2 in any. *)
FirstExpires == t1 :> 2 @@ t2 :> MaxBlocks + 1
=============================================================================
