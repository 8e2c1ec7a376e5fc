------------------------------ MODULE Sharding ------------------------------
(***************************************************************************)
(* The Sharding service of a pod (sharding.ts): its cache of assignments,  *)
(* its shutdown flag, the singleton it may run, and which entities are     *)
(* alive in it.  Every variable is a function of the pods: a step of one   *)
(* pod changes its own entry.  Cluster says when these steps happen.       *)
(*                                                                         *)
(* An entity stands for its shard, and every pod registers one singleton.  *)
(* A process without the service is one whose cache is empty.              *)
(***************************************************************************)
EXTENDS Integers

CONSTANTS Shards, Pods, NoPod

VARIABLES
    cache,      \* shardAssignments: shard -> pod, NoPod for a shard without entry
    leaving,    \* isShuttingDownRef
    singleton,  \* whether the fiber of the singleton runs
    entities    \* the entities alive in the pod

shardingVars == <<cache, leaving, singleton, entities>>

NoEntries   == [s \in Shards |-> NoPod]
Assignments == [Shards -> Pods \cup {NoPod}]

\* getAssignedShardIds
OwnShards(p) == {s \in Shards : cache[p][s] = p}

\* Messages for a new entity are accepted (isEntityOnLocalShards, isShuttingDown).
Serves(p, s) == cache[p][s] = p /\ ~leaving[p]

IsSingletonNode(p) == 1 \in Shards /\ cache[p][1] = p

SetCache(p, map)   == cache' = [cache EXCEPT ![p] = map]
StartSingletons(p) == singleton' = [singleton EXCEPT ![p] = @ \/ IsSingletonNode(p)']
StopSingletons(p)  == singleton' = [singleton EXCEPT ![p] = @ /\ IsSingletonNode(p)']
----------------------------------------------------------------------------
(* Calls of the manager.                                                   *)

\* assign answers without doing anything once the pod is shutting down.
Assign(p, S) ==
  /\ IF leaving[p]
     THEN UNCHANGED <<cache, singleton>>
     ELSE /\ SetCache(p, [s \in Shards |-> IF s \in S THEN p ELSE cache[p][s]])
          /\ StartSingletons(p)
  /\ UNCHANGED <<leaving, entities>>

\* Mutant: the singleton is left running.
UnassignOnly(p, S) ==
  /\ SetCache(p, [s \in Shards |-> IF s \in S /\ cache[p][s] = p THEN NoPod ELSE cache[p][s]])
  /\ UNCHANGED <<leaving, singleton, entities>>

\* unassign does not touch the entities: terminateEntitiesOnShards has no caller.
Unassign(p, S) ==
  /\ SetCache(p, [s \in Shards |-> IF s \in S /\ cache[p][s] = p THEN NoPod ELSE cache[p][s]])
  /\ StopSingletons(p)
  /\ UNCHANGED <<leaving, entities>>
----------------------------------------------------------------------------
(* Steps of a pod on its own.                                              *)

\* updateAssignments with the manager's answer: used only while the cache is empty,
\* and a shard nobody owns is then the pod's own.  refreshAssignments asks when the
\* service starts and again when its stream fails.  (A pod that reports another one asks
\* too; the answer can only matter if all its entries went away since: left out.)
RefreshFromManager(p, map) ==
  /\ SetCache(p, IF cache[p] = NoEntries
                 THEN [s \in Shards |-> IF map[s] = NoPod THEN p ELSE map[s]]
                 ELSE cache[p])
  /\ StartSingletons(p)
  /\ UNCHANGED <<leaving, entities>>

\* Mutant: what the storage says about the pod itself counts.
RefreshFromStorageAll(p, map) ==
  /\ SetCache(p, map)
  /\ StartSingletons(p)
  /\ UNCHANGED <<leaving, entities>>

\* updateAssignments with an element of assignmentsStream: own entries stay as they
\* are, the others are replaced.
RefreshFromStorage(p, map) ==
  /\ SetCache(p, [s \in Shards |-> IF cache[p][s] = p THEN p
                                   ELSE IF map[s] = p THEN NoPod ELSE map[s]])
  /\ StartSingletons(p)
  /\ UNCHANGED <<leaving, entities>>

\* The first message for an entity starts it.
EntityStarts(p, s) ==
  /\ Serves(p, s) /\ s \notin entities[p]
  /\ entities' = [entities EXCEPT ![p] = @ \cup {s}]
  /\ UNCHANGED <<cache, leaving, singleton>>

\* An entity was idle for long enough, or ends because the pod leaves.
EntityEnds(p, s) ==
  /\ s \in entities[p]
  /\ entities' = [entities EXCEPT ![p] = @ \ {s}]
  /\ UNCHANGED <<cache, leaving, singleton>>

\* The first half of unregister, once the manager has answered: the flag is set and the
\* entities are told to end.  The pod stops waiting for them after a timeout.
BeginLeaving(p) ==
  /\ ~leaving[p]
  /\ leaving' = [leaving EXCEPT ![p] = TRUE]
  /\ UNCHANGED <<cache, singleton, entities>>

\* The first half of register: the flag is cleared, whatever the cache still holds.
Resume(p) ==
  /\ leaving[p]
  /\ leaving' = [leaving EXCEPT ![p] = FALSE]
  /\ UNCHANGED <<cache, singleton, entities>>

\* The process ends: everything in memory is gone.
Stop(p) ==
  /\ SetCache(p, NoEntries)
  /\ leaving' = [leaving EXCEPT ![p] = FALSE]
  /\ singleton' = [singleton EXCEPT ![p] = FALSE]
  /\ entities' = [entities EXCEPT ![p] = {}]
----------------------------------------------------------------------------
Init ==
  /\ cache     = [p \in Pods |-> NoEntries]
  /\ leaving   = [p \in Pods |-> FALSE]
  /\ singleton = [p \in Pods |-> FALSE]
  /\ entities  = [p \in Pods |-> {}]

TypeOK ==
  /\ cache     \in [Pods -> Assignments]
  /\ leaving   \in [Pods -> BOOLEAN]
  /\ singleton \in [Pods -> BOOLEAN]
  /\ entities  \in [Pods -> SUBSET Shards]
============================================================================
