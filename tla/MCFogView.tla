----------------------------- MODULE MCFogView ------------------------------
(* Instances of FogView for TLC: ingest follows one of a few plans, step by  *)
(* step, while the servers and the client are free.                          *)
EXTENDS FogView

CONSTANT s1

VARIABLE plan    \* what ingest has yet to do

(* A key is retired while its successor starts. *)
Rotation == <<<<"activate", 1>>, <<"announce", 1>>, <<"ingest", 1>>,
              <<"activate", 2>>, <<"announce", 2>>, <<"retire", 1>>,
              <<"ingest", 2>>, <<"ingest", 1>>>>

(* A key is lost, its server having failed over once. *)
Failover == <<<<"activate", 1>>, <<"announce", 1>>, <<"ingest", 1>>,
              <<"announce", 1>>, <<"ingest", 1>>, <<"lose", 1>>>>

Replacement == <<<<"activate", 1>>, <<"announce", 1>>, <<"ingest", 1>>, <<"lose", 1>>,
              <<"activate", 2>>, <<"announce", 2>>, <<"ingest", 2>>>>

Plans == {Rotation, Failover, Replacement}

Planned(op, k) ==
    \/ op = "activate" /\ Activate(k, 0)
    \/ op = "announce" /\ Announce(k)
    \/ op = "ingest" /\ Ingest(k)
    \/ op = "retire" /\ Retire(k)
    \/ op = "lose" /\ Lose(k)

ViewInit == Init /\ plan \in Plans

ViewNext ==
    /\ Next
    /\ \/ db' = db /\ plan' = plan
       \/ /\ plan # << >> /\ Planned(Head(plan)[1], Head(plan)[2])
          /\ plan' = Tail(plan)

ViewSpec ==
    /\ ViewInit /\ [][ViewNext]_<<vars, plan>>
    /\ Threads
=============================================================================
