---------------------------- MODULE RollbackTest ----------------------------
(***************************************************************************)
(* jstests/replsets/libs/rollback_test.js: a driver that takes a replica   *)
(* set of three through rollbacks by cutting connections, in an order that *)
(* lets one node be elected and not the other.  The test writes between    *)
(* the transitions and, in shutdown mode, restarts nodes.                  *)
(*                                                                         *)
(* The replica set (elections, replication, rollback) is external: what    *)
(* the driver relies on and no more.                                       *)
(***************************************************************************)
EXTENDS Naturals, Sequences, FiniteSets, FiniteSetsExt, SequencesExt

CONSTANTS
    MaxWrites,    \* bound: writes of the test
    MaxRollbacks, \* bound: how often the test goes through all states
    MaxRestarts   \* bound: calls of restartNode()

ASSUME RollbackTestAssumption ==
    MaxWrites \in Nat /\ MaxRollbacks \in Nat /\ MaxRestarts \in Nat

Electable == {0, 1}   \* rst.nodes; the third one has priority 0
tiebreakerNode == 2
Nodes == Electable \cup {tiebreakerNode}

VARIABLES
    rollbackShutdowns, curState, curPrimary, curSecondary, lastRBID,
    pc,                      \* the next call of the driver, "idle" in the test
    nodeId,                  \* the argument of restartNode()
    writes, rollbacks, restarts,
    links,                   \* the pairs of nodes the bridges connect
    role, term, log, rbid,   \* of each node
    frozen, stopped          \* nodes that do not run for election, that do not replicate

driver == <<rollbackShutdowns, curState, curPrimary, curSecondary, lastRBID, pc, nodeId>>
counts == <<writes, rollbacks, restarts>>
nodes == <<role, term, log, rbid>>
vars == <<driver, counts, links, nodes, frozen, stopped>>

States == {"kStopped", "kRollbackOps", "kSyncSourceOpsBeforeRollback",
           "kSyncSourceOpsDuringRollback", "kSteadyStateOps"}

\* A log entry: the term it was written in, and whether it is to be rolled back.
Entry == [term : Nat, lose : BOOLEAN]

TypeOK ==
    /\ rollbackShutdowns \in BOOLEAN /\ curState \in States
    /\ {curPrimary, curSecondary, nodeId} \subseteq Nodes /\ lastRBID \in Nat
    /\ writes \in 0 .. MaxWrites /\ rollbacks \in 0 .. MaxRollbacks /\ restarts \in 0 .. MaxRestarts
    /\ links \subseteq kSubset(2, Nodes)
    /\ role \in [Nodes -> {"primary", "secondary", "rollback", "down"}]
    /\ term \in [Nodes -> Nat] /\ rbid \in [Nodes -> Nat]
    /\ \A n \in Nodes : log[n] \in Seq(Entry)
    /\ frozen \subseteq Nodes /\ stopped \subseteq Nodes

\* After validateAndUseSetup: one document is on all nodes.
Init ==
    /\ rollbackShutdowns \in BOOLEAN
    /\ curState = "kSteadyStateOps" /\ curPrimary = 0 /\ curSecondary = 1 /\ lastRBID = 0
    /\ pc = "idle" /\ nodeId = 0 /\ writes = 0 /\ rollbacks = 0 /\ restarts = 0
    /\ links = kSubset(2, Nodes)
    /\ role = [n \in Nodes |-> IF n = 0 THEN "primary" ELSE "secondary"]
    /\ term = [n \in Nodes |-> 1] /\ rbid = [n \in Nodes |-> 0]
    /\ log = [n \in Nodes |-> <<[term |-> 1, lose |-> FALSE]>>]
    /\ frozen = {} /\ stopped = {tiebreakerNode}

(***************************************************************************)
(* The replica set.                                                        *)
(***************************************************************************)
Up(n) == role[n] # "down"
Linked(m, n) == {m, n} \in links /\ Up(m) /\ Up(n)

Newer(l1, l2) ==
    \/ Last(l1).term > Last(l2).term
    \/ Last(l1).term = Last(l2).term /\ Len(l1) > Len(l2)

Voters(n) == {m \in Nodes : m = n \/ (Linked(m, n) /\ ~Newer(log[m], log[n]))}
CanWin(n) == role[n] = "secondary" /\ n \in Electable /\ Cardinality(Voters(n)) >= 2

\* A new primary begins its term with an entry.
BecomePrimary(n) ==
    LET t == Max({term[m] : m \in Voters(n)}) + 1
    IN /\ role' = [role EXCEPT ![n] = "primary"]
       /\ term' = [m \in Nodes |-> IF m \in Voters(n) THEN t ELSE term[m]]
       /\ log' = [log EXCEPT ![n] = Append(@, [term |-> t, lose |-> FALSE])]
       /\ UNCHANGED rbid

SeesPrimary(n) == \E m \in Nodes : Linked(m, n) /\ role[m] = "primary" /\ term[m] >= term[n]

\* Nothing is heard of a primary for the election timeout.
Elect(n) ==
    /\ n \notin frozen /\ ~SeesPrimary(n) /\ CanWin(n)
    /\ BecomePrimary(n)
    /\ UNCHANGED <<driver, counts, links, frozen, stopped>>

\* A node hears of a higher term.
Learn(n) ==
    /\ \E m \in Nodes : Linked(m, n) /\ term[m] > term[n] /\ term' = [term EXCEPT ![n] = term[m]]
    /\ role' = [role EXCEPT ![n] = IF @ = "primary" THEN "secondary" ELSE @]
    /\ UNCHANGED <<driver, counts, links, log, rbid, frozen, stopped>>

\* A primary that cannot reach a majority steps down.
Relinquish(n) ==
    /\ role[n] = "primary" /\ ~\E m \in Nodes : m # n /\ Linked(m, n)
    /\ role' = [role EXCEPT ![n] = "secondary"]
    /\ UNCHANGED <<driver, counts, links, term, log, rbid, frozen, stopped>>

\* Chaining is not allowed: the sync source is a primary.
Source(m, n) == Linked(m, n) /\ role[m] = "primary" /\ term[m] >= term[n] /\ n \notin stopped

Replicate(n) ==
    /\ role[n] = "secondary"
    /\ \E m \in Nodes : /\ Source(m, n) /\ IsStrictPrefix(log[n], log[m])
                        /\ log' = [log EXCEPT ![n] = Append(@, log[m][Len(@) + 1])]
    /\ UNCHANGED <<driver, counts, links, role, term, rbid, frozen, stopped>>

\* The rollback id changes when a rollback begins.
BeginRollback(n) ==
    /\ role[n] = "secondary"
    /\ \E m \in Nodes : Source(m, n) /\ Newer(log[m], log[n]) /\ ~IsPrefix(log[n], log[m])
    /\ role' = [role EXCEPT ![n] = "rollback"]
    /\ rbid' = [rbid EXCEPT ![n] = @ + 1]
    /\ UNCHANGED <<driver, counts, links, term, log, frozen, stopped>>

EndRollback(n) ==
    /\ role[n] = "rollback"
    /\ \E m \in Nodes : /\ Source(m, n)
                        /\ log' = [log EXCEPT ![n] = LongestCommonPrefix({@, log[m]})]
    /\ role' = [role EXCEPT ![n] = "secondary"]
    /\ UNCHANGED <<driver, counts, links, term, rbid, frozen, stopped>>

ReplicaSet == \E n \in Nodes :
    Elect(n) \/ Learn(n) \/ Relinquish(n) \/ Replicate(n) \/ BeginRollback(n) \/ EndRollback(n)

(***************************************************************************)
(* The driver.                                                             *)
(***************************************************************************)
AcceptableTransitions ==
    {<<"kRollbackOps", "kSyncSourceOpsBeforeRollback">>,
     <<"kSyncSourceOpsBeforeRollback", "kSyncSourceOpsDuringRollback">>,
     <<"kSyncSourceOpsDuringRollback", "kSteadyStateOps">>,
     <<"kSteadyStateOps", "kStopped">>, <<"kSteadyStateOps", "kRollbackOps">>}

topology == <<curPrimary, curSecondary>>
fixed == <<rollbackShutdowns, nodeId>>

\* One call of the driver: at is its place, to the next one.
Step(at, to) == pc = at /\ pc' = to

\* A step that leaves the driver's own fields alone.
Calls(at, to) == Step(at, to) /\ UNCHANGED <<fixed, curState, topology, lastRBID, counts>>

transitionIfAllowed(newState) == <<curState, newState>> \in AcceptableTransitions /\ curState' = newState

Check(at, to, ok) == Calls(at, IF ok THEN to ELSE "failed")

disconnect(at, to, pairs) ==
    Calls(at, to) /\ links' = links \ pairs /\ UNCHANGED <<nodes, frozen, stopped>>
reconnect(at, to, pairs) ==
    Calls(at, to) /\ links' = links \cup pairs /\ UNCHANGED <<nodes, frozen, stopped>>

Await(at, to, condition) ==
    condition /\ Calls(at, to) /\ UNCHANGED <<links, nodes, frozen, stopped>>

awaitSecondaryNodes == \A n \in Nodes : role[n] \in {"primary", "secondary"}

awaitReplication(ns) == \A n \in ns : log[n] = log[curPrimary]

Goes(newState, to) ==
    /\ Step("idle", to) /\ transitionIfAllowed(newState)
    /\ UNCHANGED <<fixed, topology, lastRBID, counts, links, nodes, frozen, stopped>>

\* Slip: the primary and the secondary are separated first.
CutsReversed == <<{{curPrimary, curSecondary}}, {{curSecondary, tiebreakerNode}}>>

\* What is disconnected first and second: the secondary, so that it cannot win an
\* election when it loses the primary; then the primary, which keeps the tiebreaker.
Cuts == <<{{curSecondary, tiebreakerNode}}, {{curPrimary, curSecondary}}>>

\* Slip: the tiebreaker goes on replicating.
NotStopped == stopped

stopServerReplication == stopped \cup {tiebreakerNode}

\* Slip: the secondary need not have caught up.
SecondaryIsUp == awaitSecondaryNodes

\* What was written is on the node that becomes the sync source.
SyncSourceIsReady == awaitSecondaryNodes /\ awaitReplication({curSecondary})

transitionToRollbackOperations ==
    \/ /\ rollbacks < MaxRollbacks /\ curState = "kSteadyStateOps"
       /\ Step("idle", "awaitReplication") /\ rollbacks' = rollbacks + 1
       /\ UNCHANGED <<fixed, curState, topology, lastRBID, writes, restarts,
                      links, nodes, frozen, stopped>>
    \/ /\ Step("awaitReplication", "isolateSecondary")
       /\ SyncSourceIsReady
       /\ transitionIfAllowed("kRollbackOps")
       /\ UNCHANGED <<fixed, topology, lastRBID, counts, links, nodes, frozen, stopped>>
    \/ disconnect("isolateSecondary", "isolatePrimary", Cuts[1])
    \/ disconnect("isolatePrimary", "idle", Cuts[2])

transitionToSyncSourceOperationsBeforeRollback ==
    \/ Goes("kSyncSourceOpsBeforeRollback", "ensureRollback")
    \/ /\ Check("ensureRollback", "isolateOldPrimary", role[curPrimary] = "primary")
       /\ log' = [log EXCEPT ![curPrimary] = Append(@, [term |-> term[curPrimary], lose |-> TRUE])]
       /\ UNCHANGED <<links, role, term, rbid, frozen, stopped>>
    \/ disconnect("isolateOldPrimary", "replSetStepDown", {{curPrimary, tiebreakerNode}})
    \/ /\ Calls("replSetStepDown", "reconnectSecondary")
       /\ role' = [role EXCEPT ![curPrimary] = "secondary"]
       /\ UNCHANGED <<links, term, log, rbid, frozen, stopped>>
    \/ reconnect("reconnectSecondary", "replSetStepUp", {{curSecondary, tiebreakerNode}})
    \/ /\ Calls("replSetStepUp", "newPrimary")
       /\ \/ role[curSecondary] = "primary" /\ UNCHANGED nodes
          \/ CanWin(curSecondary) /\ BecomePrimary(curSecondary)
       /\ UNCHANGED <<links, frozen, stopped>>
    \/ \E newPrimary \in Nodes :
          /\ {n \in Nodes : role[n] = "primary"} = {newPrimary}
          /\ Step("newPrimary", IF newPrimary = curSecondary THEN "idle" ELSE "failed")
          /\ curPrimary' = newPrimary /\ curSecondary' = curPrimary
          /\ lastRBID' = rbid[curPrimary]
          /\ UNCHANGED <<fixed, curState, counts, links, nodes, frozen, stopped>>

transitionToSyncSourceOperationsDuringRollback ==
    \/ Goes("kSyncSourceOpsDuringRollback", "replSetFreeze")
    \/ /\ Calls("replSetFreeze", "reconnectRollbackNode") /\ role[curSecondary] = "secondary"
       /\ frozen' = frozen \cup {curSecondary}
       /\ UNCHANGED <<links, nodes, stopped>>
    \/ reconnect("reconnectRollbackNode", "idle", {{curPrimary, curSecondary}})

\* rst.checkOplogs()
Consistent == \A m, n \in Nodes : log[m] = log[n]

transitionToSteadyStateOperations ==
    \/ /\ curState = "kSyncSourceOpsDuringRollback"
       /\ Await("idle", "waitForRBID", TRUE)
    \/ /\ rbid[curSecondary] > lastRBID \/ rollbackShutdowns
       /\ Check("waitForRBID", "reconnectTiebreaker",
                rbid[curSecondary] = lastRBID + 1 \/ rollbackShutdowns)
       /\ UNCHANGED <<links, nodes, frozen, stopped>>
    \/ reconnect("reconnectTiebreaker", "restartReplication",
                 {{tiebreakerNode, curPrimary}, {tiebreakerNode, curSecondary}})
    \/ /\ Calls("restartReplication", "awaitAll")
       /\ stopped' = stopped \ {tiebreakerNode}
       /\ UNCHANGED <<links, nodes, frozen>>
    \/ Await("awaitAll", "unfreeze", awaitSecondaryNodes /\ awaitReplication(Nodes))
    \/ /\ Step("unfreeze", "checkDataConsistency") /\ transitionIfAllowed("kSteadyStateOps")
       /\ frozen' = frozen \ {curSecondary}
       /\ UNCHANGED <<fixed, topology, lastRBID, counts, links, nodes, stopped>>
    \/ /\ Check("checkDataConsistency", "stopReplication", Consistent)
       /\ UNCHANGED <<links, nodes, frozen, stopped>>
    \/ /\ Calls("stopReplication", "idle")
       /\ stopped' = stopServerReplication
       /\ UNCHANGED <<links, nodes, frozen>>

stop ==
    \/ /\ curState = "kSteadyStateOps"
       /\ Calls("idle", "stopping") /\ stopped' = stopped \ {tiebreakerNode}
       /\ UNCHANGED <<links, nodes, frozen>>
    \/ /\ awaitReplication(Nodes)
       /\ Step("stopping", IF Consistent THEN "stopped" ELSE "failed")
       /\ transitionIfAllowed("kStopped")
       /\ UNCHANGED <<fixed, topology, lastRBID, counts, links, nodes, frozen, stopped>>

\* What a node finds in its log when it starts again.  After SIGKILL the last entries
\* may be gone, if no other node has them.
Recovered(n) ==
    LET shared == Max({Len(LongestCommonPrefix({log[n], log[m]})) : m \in Nodes \ {n}})
    IN {SubSeq(log[n], 1, k) : k \in shared .. Len(log[n])}

\* rst.stop(), rst.start(), rst.freeze(), and the primary that is found then.
restartNode ==
    \/ /\ rollbackShutdowns /\ restarts < MaxRestarts /\ curState # "kStopped"
       /\ Step("idle", "start") /\ restarts' = restarts + 1
       /\ nodeId' \in Electable
       /\ role' = [role EXCEPT ![nodeId'] = "down"] /\ frozen' = frozen \ {nodeId'}
       /\ UNCHANGED <<rollbackShutdowns, curState, topology, lastRBID, writes, rollbacks,
                      links, term, log, rbid, stopped>>
    \/ /\ Calls("start", "freeze")
       /\ role' = [role EXCEPT ![nodeId] = "secondary"]
       /\ log' \in {[log EXCEPT ![nodeId] = l] : l \in Recovered(nodeId)}
       /\ UNCHANGED <<links, term, rbid, frozen, stopped>>
    \/ /\ Calls("freeze", "getPrimary")
       /\ frozen' = IF curState = "kSyncSourceOpsDuringRollback" /\ curSecondary = nodeId
                    THEN frozen \cup {nodeId} ELSE frozen
       /\ UNCHANGED <<links, nodes, stopped>>
    \/ \E p \in Nodes :
          /\ {n \in Nodes : role[n] = "primary"} = {p}
          /\ Step("getPrimary", IF curState = "kSteadyStateOps" \/ p = curPrimary THEN "idle" ELSE "failed")
          /\ curPrimary' = p /\ curSecondary' = Min(Nodes \ {p})
          /\ UNCHANGED <<fixed, curState, lastRBID, counts, links, nodes, frozen, stopped>>

\* The test writes to the node the last transition returned.
Write ==
    /\ pc = "idle" /\ writes < MaxWrites /\ curState # "kStopped"
    /\ role[curPrimary] = "primary"
    /\ writes' = writes + 1
    /\ log' = [log EXCEPT ![curPrimary] =
                  Append(@, [term |-> term[curPrimary], lose |-> curState = "kRollbackOps"])]
    /\ UNCHANGED <<driver, rollbacks, restarts, links, role, term, rbid, frozen, stopped>>

Driver ==
    \/ transitionToRollbackOperations \/ transitionToSyncSourceOperationsBeforeRollback
    \/ transitionToSyncSourceOperationsDuringRollback \/ transitionToSteadyStateOperations
    \/ stop \/ restartNode

Next == Driver \/ Write \/ ReplicaSet

Spec == Init /\ [][Next]_vars

\* The driver is one thread, whose waits end when what it waits for is there.  Nodes
\* that are up and connected elect, hear of terms, replicate and roll back in time;
\* that an isolated primary steps down by itself is not needed.
FairSpec == Spec /\ WF_vars(Driver)
    /\ \A n \in Nodes : WF_vars(Elect(n)) /\ WF_vars(Learn(n)) /\ WF_vars(Replicate(n))
                        /\ WF_vars(BeginRollback(n)) /\ WF_vars(EndRollback(n))

----------------------------------------------------------------------------
(* None of the driver's assertions fails, at whatever moment between its   *)
(* calls a node is elected, replicates or rolls back: the write that       *)
(* ensures a rollback finds its primary, the old secondary is the one      *)
(* elected, the rollback id grows by exactly one, a restart outside the    *)
(* steady state does not change the primary, and the oplogs agree.         *)
ChecksHold == pc # "failed"

Settled == curState = "kSteadyStateOps" /\ pc = "idle"

RollbackOpsGone == Settled => \A n \in Nodes : \A i \in DOMAIN log[n] : ~log[n][i].lose

KeptOps(n) == {i \in DOMAIN log[n] : ~log[n][i].lose}

OthersKept == \A n \in Nodes : \A i \in KeptOps(n) : i \in DOMAIN log'[n] /\ log'[n][i] = log[n][i]

(* The rollback removes what it should and nothing else.  When             *)
(* transitionToSteadyStateOperations has returned, no node keeps an        *)
(* operation of the state kRollbackOps ("subsequent operations on it will  *)
(* eventually be rolled back").  With shutdowns this holds although the    *)
(* driver does not wait for a rollback: when there is none, it is because  *)
(* the node has lost these operations by itself.  And without shutdowns no *)
(* step removes or replaces, on any node, an operation that was written in *)
(* another state: those before are on the sync source in time              *)
(* (awaitReplication of transitionToRollbackOperations), those after are   *)
(* on the sync source.                                                     *)
RollsBackExactly == [][RollbackOpsGone' /\ (~rollbackShutdowns => OthersKept)]_vars

(* Every transition, restart and stop of the driver returns or throws:     *)
(* none of its waits (for replication, an election, a rollback id) is for  *)
(* something that the connections it has left cannot bring about.          *)
TransitionsReturn == (pc \notin {"idle", "failed", "stopped"}) ~> (pc \in {"idle", "failed", "stopped"})
=============================================================================
