---------------------------- MODULE FogOverseer ----------------------------
(***************************************************************************)
(* The Fog overseer (fog/overseer/server) beside the ingest cluster: a     *)
(* thread that polls every server, and, when none is active, activates one *)
(* that holds the outstanding key, or gives the key up for lost and starts *)
(* a new one.  It works on what it saw: between its steps servers crash,   *)
(* restart, finish and are commanded.                                      *)
(***************************************************************************)
EXTENDS FogIngest

CONSTANT NumberOfTries   \* NUMBER_OF_TRIES

ASSUME OverseerAssumption == NumberOfTries \in Nat \ {0}

VARIABLE ov   \* is_enabled, the step, the statuses seen, the node, the tries left
              \* and the key to be reported lost

vars == <<fogVars, ov>>

Poll(enabled) == [enabled |-> enabled, step |-> "poll", seen |-> << >>,
                  node |-> 0, tries |-> 0, key |-> 0]

OvInit == ov = Poll("enable" \in Commands)

(* Mutant: a server that does not answer is taken for idle. *)
GetStatus_skips ==
    /\ ov.enabled /\ ov.step = "poll" /\ Len(ov.seen) < NumServers
    /\ LET s == Len(ov.seen) + 1
       IN  /\ ~Locked(s)
           /\ ov' = [ov EXCEPT !.seen = Append(@, [mode |-> srv[s].mode, key |-> srv[s].key])]
    /\ UNCHANGED fogVars

(* get_status of the servers in order; an unresponsive one ends the round. *)
GetStatus ==
    /\ ov.enabled /\ ov.step = "poll" /\ Len(ov.seen) < NumServers
    /\ LET s == Len(ov.seen) + 1
       IN  /\ ~Locked(s)
           /\ ov' = IF srv[s].up
                    THEN [ov EXCEPT !.seen = Append(@, [mode |-> srv[s].mode,
                                                        key |-> srv[s].key])]
                    ELSE Poll(TRUE)
    /\ UNCHANGED fogVars

SetNewKey == [ov EXCEPT !.step = "new_keys", !.node = 1, !.tries = NumberOfTries]

(* perform_automatic_failover when no status was active. *)
Decide ==
    /\ ov.step = "poll" /\ Len(ov.seen) = NumServers
    /\ LET holders == {s \in Server : ov.seen[s].key \in Outstanding(db)}
       IN  ov' = IF \E s \in Server : ov.seen[s].mode = "Active" THEN Poll(TRUE)
                 ELSE IF Outstanding(db) = {} THEN SetNewKey
                 ELSE IF Cardinality(Outstanding(db)) > 1 THEN Poll(FALSE)
                 ELSE IF holders = {} THEN [ov EXCEPT !.step = "lost", !.key = Max(Outstanding(db))]
                 ELSE [ov EXCEPT !.step = "activate", !.node = Min(holders), !.tries = 1]
    /\ UNCHANGED fogVars

(* report_lost_ingress_key of the key found outstanding. *)
GiveUpKey ==
    /\ ov.step = "lost"
    /\ db' = report_lost_ingress_key(db, ov.key)
    /\ ov' = IF LossFails(db, ov.key) THEN Poll(TRUE) ELSE SetNewKey
    /\ UNCHANGED <<srv, file, chain, used>>

Failed ==
    IF ov.tries > 1 THEN [ov EXCEPT !.tries = @ - 1]
    ELSE IF ov.step = "new_keys" /\ ov.node < NumServers
         THEN [ov EXCEPT !.node = @ + 1, !.tries = NumberOfTries]
         ELSE Poll(TRUE)

(* set_new_key_on_a_node: new_keys on the first server that takes them. *)
TryNewKeys ==
    /\ ov.step = "new_keys" /\ ~Locked(ov.node)
    /\ \/ /\ NewKeys(ov.node, 0)
          /\ ov' = [ov EXCEPT !.step = "activate", !.tries = NumberOfTries]
       \/ /\ ~(srv[ov.node].up /\ srv[ov.node].mode = "Idle")
          /\ ov' = Failed
          /\ UNCHANGED <<db, srv, file, used>>
    /\ UNCHANGED chain

(* activate on a server: the call, its refusal, and its outcome. *)
CallActivate ==
    /\ ov.step = "activate"
    /\ BeginActivate(ov.node)
    /\ ov' = [ov EXCEPT !.step = "wait"]
    /\ UNCHANGED <<chain, used>>

EndActivate ==
    /\ \/ ov.step = "wait" /\ srv[ov.node].call = "none"
       \/ ov.step = "activate" /\ ~Locked(ov.node)
          /\ ~(srv[ov.node].up /\ srv[ov.node].mode = "Idle")
    /\ ov' = IF srv[ov.node].mode = "Active" THEN Poll(TRUE)
             ELSE [Failed EXCEPT !.step = IF Failed.step = "poll" THEN @ ELSE "activate"]
    /\ UNCHANGED fogVars

OverseerStep ==
    GetStatus \/ Decide \/ GiveUpKey \/ TryNewKeys \/ CallActivate \/ EndActivate

Init == FogInit /\ OvInit
Next == (FogNext /\ UNCHANGED ov) \/ OverseerStep
Spec == Init /\ [][Next]_vars

(* The threads of a server and of the overseer keep running, an activation *)
(* goes on when its peers answer, and a server that is down is restarted.  *)
FairSpec ==
    /\ Spec
    /\ WF_vars(OverseerStep)
    /\ \A s \in Server : /\ WF_vars(WorkerStep(s) /\ UNCHANGED ov)
                         /\ WF_vars(ActivateStep(s) /\ UNCHANGED ov)
                         /\ WF_vars((RestartFresh(s) \/ Restart(s)) /\ UNCHANGED ov)

-----------------------------------------------------------------------------
(* Server s is idle, and has no state file that would make it active again *)
(* when it restarts.                                                       *)
AtRest(s) == srv[s].mode = "Idle" /\ \A f \in file[s] : f.mode = "Idle"

(* The overseer activates a server on the strength of statuses it took one *)
(* after the other, of servers that crash and restart from state files     *)
(* meanwhile.  Where only the overseer activates servers there is          *)
(* nevertheless never more than one that is active or would come back      *)
(* active: no block is scanned by two.                                     *)
OneActive ==
    \A s, t \in Server : ~AtRest(s) /\ ~AtRest(t) => s = t

(* The overseer gives a key up some steps after it looked at the servers.  *)
(* When it does, no server is active, nor can one come back active: a key  *)
(* that is being scanned with is never reported lost.                      *)
LossWhileIdle ==
    [][\A k \in Known(db) :
          ~db.keys[k].lost /\ db'.keys[k].lost => \A s \in Server : AtRest(s)]_vars

(* The cluster never stays idle or behind: again and again a server is     *)
(* active and has scanned every block of the ledger with its key, through  *)
(* crashes, lost state files, the retirement of the key and servers that   *)
(* went idle because a block they wanted to commit was committed already.  *)
KeepsScanning ==
    []<>(\E s \in Server : srv[s].mode = "Active" /\ srv[s].next = chain)

(* A key that still owes blocks is held by a server, or can be restored    *)
(* from a state file, or is found outstanding by the overseer, which will  *)
(* then report it lost: nobody's blocks are silently dropped.              *)
NoKeyAbandoned ==
    \A k \in Known(db) : Owed(db, k) # {} =>
        \/ \E s \in Server : srv[s].key = k \/ \E f \in file[s] : f.key = k
        \/ k \in Outstanding(db)

-----------------------------------------------------------------------------
(* What a comment in the code says, and the code does not do *)

(* IngestController::activate "Returns: A status report of the ingest      *)
(* server after this operation, or an error", whoever else is activating   *)
(* at the time.                                                            *)
ActivationEnds ==
    \A s \in Server : (srv[s].call # "none") ~> (srv[s].call = "none")

=============================================================================
