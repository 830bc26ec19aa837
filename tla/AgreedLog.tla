------------------------------ MODULE AgreedLog ------------------------------
(***************************************************************************)
(* What the network promises of one replica: blocks are decided one after  *)
(* the other, and the replica holds a beginning of what was decided, which *)
(* only grows.                                                             *)
(***************************************************************************)
EXTENDS Naturals, Sequences

CONSTANT Content    \* what a block can hold
VARIABLES decided, replica

Init == Len(decided) = 1 /\ replica = decided

Decide(b) == decided' = Append(decided, b) /\ UNCHANGED replica

Learn(n) ==
  /\ n \in Len(replica) + 1 .. Len(decided)
  /\ replica' = SubSeq(decided, 1, n)
  /\ UNCHANGED decided

Next == (\E b \in Content : Decide(b)) \/ (\E n \in 1 .. Len(decided) : Learn(n))

Spec == Init /\ [][Next]_<<decided, replica>>
=============================================================================
