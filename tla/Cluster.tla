------------------------------- MODULE Cluster -------------------------------
(***************************************************************************)
(* The Shard Manager and the pods together.  A call of the manager to a    *)
(* pod is a step of both: what the pod does with it (Sharding) and what    *)
(* the manager makes of the answer (ShardManager).  A call the manager     *)
(* takes for failed may still have reached the pod.                        *)
(*                                                                         *)
(* In ShardManager the pods answer, report and register as they like; here *)
(* they run Sharding.                                                      *)
(***************************************************************************)
EXTENDS ShardManager

CONSTANTS
    MaxEntities,    \* bound: entities alive at a time, in all pods
    MaxUnderWay,    \* bound: elements under way at a time, to all pods
    MaxKnown        \* bound: entries of a pod that asks the manager for its assignments

VARIABLES
    cache, leaving, singleton, entities,
    underWay,   \* elements of refreshAssignments read and not yet used, of each pod
    stray,      \* history: own shards a pod holds without the manager's knowledge
    departed    \* history: pods that have begun to leave since their process started

Pod == INSTANCE Sharding

podVars     == <<cache, leaving, singleton, entities>>
clusterVars == <<vars, podVars, underWay, stray, departed>>

\* What refreshAssignments merges: the answer of getAssignments and elements of
\* assignmentsStream, each with where it is from.
Elements == [map : ShardMaps, fromShardManager : BOOLEAN]

SetStray(p, S) == stray' = [stray EXCEPT ![p] = S]
InAllPods(f)   == MapThenSumSet(LAMBDA q : Cardinality(f[q]), Pods)
----------------------------------------------------------------------------
(* Steps of the pods.                                                      *)

\* register, before the manager is called (within the bound on registrations).
ResumePod(p) ==
  /\ p \in alive /\ used["registers"] < MaxRegisters
  /\ Pod!Resume(p)
  /\ UNCHANGED <<vars, underWay, stray, departed>>

\* The call of register, of a pod that may be registered still: it was, crashed, and came
\* back before anybody noticed.
RegisterPod(p, v) ==
  /\ ~leaving[p]
  /\ Register(p, v)
  /\ UNCHANGED <<podVars, underWay, stray, departed>>

\* unregister does nothing at all when getAssignments fails.
LeavePod(p) ==
  /\ status = "up" /\ p \in alive
  /\ Pod!BeginLeaving(p)
  /\ departed' = departed \cup {p}
  /\ UNCHANGED <<vars, underWay, stray>>

\* The pod keeps its cache: what is in there now is no longer known to the manager.
UnregisterPod(p) ==
  /\ leaving[p]
  /\ Unregister(p)
  /\ SetStray(p, Pod!OwnShards(p))
  /\ UNCHANGED <<podVars, underWay, departed>>

\* A pod with an entry for p fails to reach it.
ReportPod(p) ==
  /\ \E q \in alive : \E s \in Shards : q # p /\ cache[q][s] = p
  /\ NotifyUnhealthyPod(p)
  /\ UNCHANGED <<podVars, underWay, stray, departed>>

Entries(p) == {s \in Shards : cache[p][s] # NoPod}

\* The manager answers getAssignments, or the storage has an element.  A new service asks
\* before it has an entry, and one with entries ignores the answer: those that ask when
\* they have some matter only if they lose them before the answer comes, and are bounded.
ReadAssignments(p) ==
  /\ p \in alive /\ InAllPods(underWay) < MaxUnderWay
  /\ \E e \in Elements :
       /\ \/ /\ status = "up" /\ Cardinality(Entries(p)) <= MaxKnown
             /\ e = [map |-> state.shards, fromShardManager |-> TRUE]
          \/ e = [map |-> stored.shards, fromShardManager |-> FALSE]
       /\ underWay' = [underWay EXCEPT ![p] = @ \cup {e}]
  /\ UNCHANGED <<vars, podVars, stray, departed>>

\* The pod uses it, some time later and in any order (the elements of the storage come one
\* after the other; the manager's answer may come at any time).  The shards a pod takes by
\* itself are not known to the manager.
Refresh(p) ==
  /\ \E e \in underWay[p] :
       /\ underWay' = [underWay EXCEPT ![p] = @ \ {e}]
       /\ IF e.fromShardManager THEN Pod!RefreshFromManager(p, e.map)
                                ELSE Pod!RefreshFromStorage(p, e.map)
  /\ SetStray(p, stray[p] \cup (Pod!OwnShards(p)' \ Pod!OwnShards(p)))
  /\ UNCHANGED <<vars, departed>>

StartEntity(p, s) ==
  /\ InAllPods(entities) < MaxEntities
  /\ Pod!EntityStarts(p, s)
  /\ UNCHANGED <<vars, underWay, stray, departed>>

EndEntity(p, s) == Pod!EntityEnds(p, s) /\ UNCHANGED <<vars, underWay, stray, departed>>

KillPod(p) ==
  /\ PodDies(p) /\ Pod!Stop(p) /\ SetStray(p, {})
  /\ departed' = departed \ {p} /\ underWay' = [underWay EXCEPT ![p] = {}]

RestartPod(p) == PodStarts(p) /\ UNCHANGED <<podVars, underWay, stray, departed>>
----------------------------------------------------------------------------
(* Steps of the manager that concern a pod.                                *)

\* A pod that is alive keeps its shards and does not hear that it is dropped.
DropPod(p) ==
  /\ UnregisterDead(p)
  /\ SetStray(p, Pod!OwnShards(p))
  /\ UNCHANGED <<podVars, underWay, departed>>

\* The call reaches the pod, also if its answer is lost; or it does not.
CallUnassignPod(p) ==
  /\ CallUnassign(p)
  /\ \/ p \in alive /\ Pod!Unassign(p, ToUnassign(p)) /\ SetStray(p, stray[p] \ ToUnassign(p))
     \/ p \in job'.unassignFailed /\ UNCHANGED <<podVars, stray>>
  /\ UNCHANGED <<underWay, departed>>

CallAssignPod(p) ==
  /\ CallAssign(p)
  /\ \/ /\ p \in job'.acked
        /\ Pod!Assign(p, ToAssign(p))
        /\ SetStray(p, stray[p] \ ToAssign(p))
     \/ /\ p \in job'.assignFailed /\ p \in alive
        /\ Pod!Assign(p, ToAssign(p))
        /\ SetStray(p, stray[p] \cup (ToAssign(p) \cap Pod!OwnShards(p)'))
     \/ p \in job'.assignFailed /\ UNCHANGED <<podVars, stray>>
  /\ UNCHANGED <<underWay, departed>>

\* A pod that was dropped in between keeps what the call gave it.
FinishAssignPod(p) ==
  /\ FinishAssign(p)
  /\ SetStray(p, IF Has(state.pods, p) THEN stray[p]
                 ELSE stray[p] \cup (ToAssign(p) \cap Pod!OwnShards(p)))
  /\ UNCHANGED <<podVars, underWay, departed>>

\* The manager forgets what every pod has.
CrashManager ==
  /\ Crash
  /\ stray' = [p \in Pods |-> Pod!OwnShards(p)]
  /\ UNCHANGED <<podVars, underWay, departed>>

\* The steps the pods do not notice.  A periodic rebalance that finds nothing to move
\* only passes through its phases: left out.
ManagerAlone ==
  /\ \/ \E p \in Pods : CheckHealth(p) \/ Ping(p) \/ FinishUnassign(p)
     \/ PhaseEnds \/ StartUrgent \/ StartOfRegister
     \/ StartPeriodic /\ job'.plan # Stay
     \/ SavePods \/ SaveAssignments \/ Boot
  /\ UNCHANGED <<podVars, underWay, stray, departed>>
----------------------------------------------------------------------------
ClusterInit ==
  /\ Init /\ Pod!Init
  /\ underWay = [p \in Pods |-> {}] /\ stray = [p \in Pods |-> {}] /\ departed = {}

PodSteps(p) ==
  \/ ResumePod(p) \/ \E v \in Versions : RegisterPod(p, v)
  \/ LeavePod(p) \/ UnregisterPod(p)
  \/ ReportPod(p) \/ ReadAssignments(p) \/ Refresh(p)
  \/ \E s \in Shards : StartEntity(p, s) \/ EndEntity(p, s)
  \/ KillPod(p) \/ RestartPod(p)

ManagerSteps(p) ==
  \/ DropPod(p) \/ CallUnassignPod(p) \/ CallAssignPod(p) \/ FinishAssignPod(p)

ClusterNext ==
  \/ \E p \in Pods : PodSteps(p) \/ ManagerSteps(p)
  \/ ManagerAlone \/ CrashManager

ClusterSpec == ClusterInit /\ [][ClusterNext]_clusterVars
----------------------------------------------------------------------------
(* Properties.                                                             *)

ClusterTypeOK ==
  /\ TypeOK /\ Pod!TypeOK
  /\ underWay \in [Pods -> SUBSET Elements]
  /\ stray \in [Pods -> SUBSET Shards] /\ departed \subseteq Pods

\* The one guarantee the protocol of rebalance gives about the pods themselves: two pods
\* serve the same shard only if one of them took or kept it without the manager knowing.
\* Whatever else happens, the old pod has stopped before the new one starts.
SingleServer ==
  \A p, q \in Pods : \A s \in Shards :
    (p # q /\ Pod!Serves(p, s) /\ Pod!Serves(q, s)) => s \in stray[p] \cup stray[q]

\* Why: a shard a pod holds with the manager's knowledge is assigned to it in the table
\* of the manager, or is on its way into the table.
HeldShardsKnown ==
  \A p \in Pods : \A s \in Pod!OwnShards(p) \ stray[p] :
    \/ state.shards[s] = p
    \/ job.phase = "assign" /\ p \in job.acked /\ s \in ToAssign(p)

\* The singleton runs in one pod only ("guaranteed to run only on a single pod"), as
\* long as no pod is leaving and none holds the singleton's shard unknown to the manager.
SingletonOnce ==
  \A p, q \in Pods :
    (p # q /\ singleton[p] /\ singleton[q]) => 1 \in stray[p] \cup stray[q]

\* As long as no pod died, no call failed and the manager did not restart, a shard in the
\* manager's table is held by its pod, except while it is being taken away or if the pod has
\* been leaving: it answers assign and ignores it, and may be registered again by the
\* time the manager processes the answer.
TableIsHeld ==
  (used["faults"] = 0 /\ used["deaths"] = 0 /\ used["restarts"] = 0) =>
    \A s \in Shards : \A p \in Pods :
      state.shards[s] = p =>
        \/ cache[p][s] = p
        \/ p \in departed
        \/ job.phase = "unassign" /\ p \in job.acked /\ s \in ToUnassign(p)

\* "An EntityType is a RecipientType that is ensured to be alive only on a single Pod at
\* a time": its entities, while no pod holds their shard unknown to the manager.
EntityOnSinglePod ==
  \A p, q \in Pods : p # q => (entities[p] \cap entities[q]) \ (stray[p] \cup stray[q]) = {}
============================================================================
