---------------------------- MODULE Cluster_proofs ----------------------------
(***************************************************************************)
(* Proofs about Cluster, for any pods, shards, versions and bounds: the    *)
(* Shard Manager keeps its promises with pods that run Sharding, and what  *)
(* the manager's table says about a shard is true of the pods themselves.  *)
(***************************************************************************)
EXTENDS MCCluster, ShardManager_proofs

USE NoneAssumption

\* The shards a pod holds with the manager's knowledge.
Known(p) == Pod!OwnShards(p) \ stray[p]
----------------------------------------------------------------------------
(* The manager of the cluster is ShardManager.                             *)

LEMMA ClusterInitManager == ClusterInit => Init
BY DEF ClusterInit

LEMMA ManagerStep ==
  ASSUME [ClusterNext]_clusterVars
  PROVE  [Next]_vars
<1>1. ASSUME NEW p \in Pods, PodSteps(p) PROVE [Next]_vars
  <2>1. ASSUME NEW v \in Versions, RegisterPod(p, v) PROVE Next
    BY <2>1 DEF RegisterPod, Next, Requests
  <2>2. UnregisterPod(p) \/ ReportPod(p) => Next
    BY DEF UnregisterPod, ReportPod, Next, Requests
  <2>3. KillPod(p) \/ RestartPod(p) => Next
    BY DEF KillPod, RestartPod, Next
  <2>4. ResumePod(p) \/ LeavePod(p) \/ ReadAssignments(p) \/ Refresh(p) => UNCHANGED vars
    BY DEF ResumePod, LeavePod, ReadAssignments, Refresh
  <2>5. ASSUME NEW s \in Shards, StartEntity(p, s) \/ EndEntity(p, s) PROVE UNCHANGED vars
    BY <2>5 DEF StartEntity, EndEntity
  <2> QED BY <1>1, <2>1, <2>2, <2>3, <2>4, <2>5 DEF PodSteps
<1>2. ASSUME NEW p \in Pods, ManagerSteps(p) PROVE Next
  BY <1>2 DEF ManagerSteps, DropPod, CallUnassignPod, CallAssignPod, FinishAssignPod, Next, PodCalls
<1>3. ASSUME ManagerAlone PROVE Next
  BY <1>3 DEF ManagerAlone, Next, PodCalls, Starts
<1>4. ASSUME CrashManager PROVE Next
  BY <1>4 DEF CrashManager, Next
<1>5. ASSUME UNCHANGED clusterVars PROVE UNCHANGED vars
  BY <1>5 DEF clusterVars
<1> QED BY <1>1, <1>2, <1>3, <1>4, <1>5 DEF ClusterNext

\* The pods of the cluster are pods ShardManager allows for: everything proved of the
\* manager with pods that answer and register as they like holds in the cluster.
THEOREM ClusterRunsShardManager == ClusterSpec => Spec
<1>1. [ClusterNext]_clusterVars => [Next]_vars
  BY ManagerStep
<1> QED BY <1>1, ClusterInitManager, PTL DEF ClusterSpec, Spec
----------------------------------------------------------------------------
(* What a step of a pod does to the shards it holds.                       *)

\* The singleton runs only in a pod that holds its shard.
SingletonWithShard == \A p \in Pods : singleton[p] => Pod!IsSingletonNode(p)

PodTypes == Pod!TypeOK /\ SingletonWithShard

\* The entry of one pod changes, and its singleton with it.
LEMMA CacheUpdate ==
  ASSUME PodTypes, NEW p \in Pods, NEW map \in [Shards -> PodOpt],
         cache' = [cache EXCEPT ![p] = map], leaving' \in [Pods -> BOOLEAN],
         NEW runs \in BOOLEAN, singleton' = [singleton EXCEPT ![p] = runs],
         runs => 1 \in Shards /\ map[1] = p,
         entities' \in [Pods -> SUBSET Shards]
  PROVE  /\ PodTypes'
         /\ \A s \in Shards : s \in Pod!OwnShards(p)' <=> map[s] = p
         /\ \A q \in Pods \ {p} : Pod!OwnShards(q)' = Pod!OwnShards(q)
<1>1. /\ cache' \in [Pods -> [Shards -> PodOpt]]
      /\ cache'[p] = map
      /\ \A q \in Pods \ {p} : cache'[q] = cache[q]
  BY DEF PodTypes, Pod!TypeOK, Pod!Assignments, PodOpt
<1>2. /\ singleton' \in [Pods -> BOOLEAN]
      /\ singleton'[p] = runs
      /\ \A q \in Pods \ {p} : singleton'[q] = singleton[q]
  BY DEF PodTypes, Pod!TypeOK
<1>3. Pod!TypeOK'
  BY <1>1, <1>2 DEF Pod!TypeOK, Pod!Assignments, PodOpt
<1>4. SingletonWithShard'
  BY <1>1, <1>2 DEF PodTypes, SingletonWithShard, Pod!IsSingletonNode
<1>5. \A q \in Pods \ {p} : Pod!OwnShards(q)' = Pod!OwnShards(q)
  BY <1>1 DEF Pod!OwnShards
<1>6. \A s \in Shards : s \in Pod!OwnShards(p)' <=> map[s] = p
  BY <1>1 DEF Pod!OwnShards
<1> QED BY <1>3, <1>4, <1>5, <1>6 DEF PodTypes

\* assign adds its shards to those of the pod, unless the pod is leaving.
LEMMA AssignOwns ==
  ASSUME PodTypes, NEW p \in Pods, NEW S \in SUBSET Shards, Pod!Assign(p, S)
  PROVE  /\ PodTypes'
         /\ Pod!OwnShards(p)' = IF leaving[p] THEN Pod!OwnShards(p) ELSE Pod!OwnShards(p) \cup S
         /\ \A q \in Pods \ {p} : Pod!OwnShards(q)' = Pod!OwnShards(q)
<1>1. leaving' = leaving /\ entities' = entities
  BY DEF Pod!Assign
<1>2. CASE leaving[p]
  <2>1. cache' = cache /\ singleton' = singleton
    BY <1>2 DEF Pod!Assign
  <2> QED BY <1>1, <1>2, <2>1
          DEF PodTypes, Pod!TypeOK, SingletonWithShard, Pod!IsSingletonNode, Pod!OwnShards
<1>3. CASE ~leaving[p]
  <2> DEFINE map == [s \in Shards |-> IF s \in S THEN p ELSE cache[p][s]]
             runs == singleton[p] \/ Pod!IsSingletonNode(p)'
  <2>1. map \in [Shards -> PodOpt]
    BY DEF PodTypes, Pod!TypeOK, Pod!Assignments, PodOpt
  <2>2. cache' = [cache EXCEPT ![p] = map] /\ singleton' = [singleton EXCEPT ![p] = runs]
    BY <1>3 DEF Pod!Assign, Pod!SetCache, Pod!StartSingletons
  <2>3. cache'[p] = map
    BY <2>2 DEF PodTypes, Pod!TypeOK
  <2>4. runs \in BOOLEAN /\ (runs => 1 \in Shards /\ map[1] = p)
    BY <2>3 DEF PodTypes, Pod!TypeOK, SingletonWithShard, Pod!IsSingletonNode
  <2>5. \A s \in Shards : map[s] = p <=> s \in Pod!OwnShards(p) \cup S
    BY DEF Pod!OwnShards
  <2>6. leaving' \in [Pods -> BOOLEAN] /\ entities' \in [Pods -> SUBSET Shards]
    BY <1>1 DEF PodTypes, Pod!TypeOK
  <2> HIDE DEF map, runs
  <2>7. /\ PodTypes'
        /\ \A s \in Shards : s \in Pod!OwnShards(p)' <=> map[s] = p
        /\ \A q \in Pods \ {p} : Pod!OwnShards(q)' = Pod!OwnShards(q)
    BY <2>1, <2>2, <2>4, <2>6, CacheUpdate
  <2>8. Pod!OwnShards(p)' \subseteq Shards /\ Pod!OwnShards(p) \subseteq Shards
    BY DEF Pod!OwnShards
  <2> QED BY <1>3, <2>5, <2>7, <2>8
<1> QED BY <1>2, <1>3

\* unassign takes its shards away from the pod, and the singleton with them.
LEMMA UnassignOwns ==
  ASSUME PodTypes, NEW p \in Pods, NEW S \in SUBSET Shards, Pod!Unassign(p, S)
  PROVE  /\ PodTypes'
         /\ Pod!OwnShards(p)' = Pod!OwnShards(p) \ S
         /\ \A q \in Pods \ {p} : Pod!OwnShards(q)' = Pod!OwnShards(q)
<1> DEFINE map == [s \in Shards |-> IF s \in S /\ cache[p][s] = p THEN NoPod ELSE cache[p][s]]
           runs == singleton[p] /\ Pod!IsSingletonNode(p)'
<1>1. map \in [Shards -> PodOpt]
  BY DEF PodTypes, Pod!TypeOK, Pod!Assignments, PodOpt
<1>2. /\ cache' = [cache EXCEPT ![p] = map] /\ singleton' = [singleton EXCEPT ![p] = runs]
      /\ leaving' = leaving /\ entities' = entities
  BY DEF Pod!Unassign, Pod!SetCache, Pod!StopSingletons
<1>3. cache'[p] = map
  BY <1>2 DEF PodTypes, Pod!TypeOK
<1>4. runs \in BOOLEAN /\ (runs => 1 \in Shards /\ map[1] = p)
  BY <1>3 DEF PodTypes, Pod!TypeOK, Pod!IsSingletonNode
<1>5. \A s \in Shards : map[s] = p <=> s \in Pod!OwnShards(p) \ S
  BY DEF Pod!OwnShards
<1>6. leaving' \in [Pods -> BOOLEAN] /\ entities' \in [Pods -> SUBSET Shards]
  BY <1>2 DEF PodTypes, Pod!TypeOK
<1> HIDE DEF map, runs
<1>7. /\ PodTypes'
      /\ \A s \in Shards : s \in Pod!OwnShards(p)' <=> map[s] = p
      /\ \A q \in Pods \ {p} : Pod!OwnShards(q)' = Pod!OwnShards(q)
  BY <1>1, <1>2, <1>4, <1>6, CacheUpdate
<1>8. Pod!OwnShards(p)' \subseteq Shards /\ Pod!OwnShards(p) \subseteq Shards
  BY DEF Pod!OwnShards
<1> QED BY <1>5, <1>7, <1>8

\* A pod that asks the manager, or follows the storage, keeps the shards it has; what
\* the map says is its own is among them after it asked the manager.
LEMMA RefreshOwns ==
  ASSUME PodTypes, NEW p \in Pods, NEW map \in ShardMaps,
         Pod!RefreshFromManager(p, map) \/ Pod!RefreshFromStorage(p, map)
  PROVE  /\ PodTypes'
         /\ Pod!OwnShards(p) \subseteq Pod!OwnShards(p)'
         /\ \A q \in Pods \ {p} : Pod!OwnShards(q)' = Pod!OwnShards(q)
<1> DEFINE asked == IF cache[p] = Pod!NoEntries
                    THEN [s \in Shards |-> IF map[s] = NoPod THEN p ELSE map[s]]
                    ELSE cache[p]
           streamed == [s \in Shards |-> IF cache[p][s] = p THEN p
                                         ELSE IF map[s] = p THEN NoPod ELSE map[s]]
           runs == singleton[p] \/ Pod!IsSingletonNode(p)'
<1>1. PICK new \in {asked, streamed} : cache' = [cache EXCEPT ![p] = new]
  BY DEF Pod!RefreshFromManager, Pod!RefreshFromStorage, Pod!SetCache
<1>2. /\ singleton' = [singleton EXCEPT ![p] = runs]
      /\ leaving' = leaving /\ entities' = entities
  BY DEF Pod!RefreshFromManager, Pod!RefreshFromStorage, Pod!StartSingletons
<1>3. asked \in [Shards -> PodOpt] /\ streamed \in [Shards -> PodOpt]
  BY DEF PodTypes, Pod!TypeOK, Pod!Assignments, PodOpt, ShardMaps
<1>4. \A s \in Shards : cache[p][s] = p => asked[s] = p /\ streamed[s] = p
  BY DEF Pod!NoEntries
<1> HIDE DEF asked, streamed
<1>5. cache'[p] = new
  BY <1>1 DEF PodTypes, Pod!TypeOK
<1>6. runs \in BOOLEAN /\ (runs => 1 \in Shards /\ new[1] = p)
  BY <1>4, <1>5 DEF PodTypes, Pod!TypeOK, SingletonWithShard, Pod!IsSingletonNode
<1>7. leaving' \in [Pods -> BOOLEAN] /\ entities' \in [Pods -> SUBSET Shards]
  BY <1>2 DEF PodTypes, Pod!TypeOK
<1> HIDE DEF runs
<1>8. /\ PodTypes'
      /\ \A s \in Shards : s \in Pod!OwnShards(p)' <=> new[s] = p
      /\ \A q \in Pods \ {p} : Pod!OwnShards(q)' = Pod!OwnShards(q)
  BY <1>1, <1>2, <1>3, <1>6, <1>7, CacheUpdate
<1> QED BY <1>4, <1>8 DEF Pod!OwnShards

\* A process that ends holds nothing.
LEMMA StopOwns ==
  ASSUME PodTypes, NEW p \in Pods, Pod!Stop(p)
  PROVE  /\ PodTypes'
         /\ Pod!OwnShards(p)' = {}
         /\ \A q \in Pods \ {p} : Pod!OwnShards(q)' = Pod!OwnShards(q)
<1>1. Pod!NoEntries \in [Shards -> PodOpt] /\ \A s \in Shards : Pod!NoEntries[s] = NoPod
  BY DEF Pod!NoEntries, PodOpt
<1>2. /\ leaving' \in [Pods -> BOOLEAN] /\ entities' \in [Pods -> SUBSET Shards]
      /\ cache' = [cache EXCEPT ![p] = Pod!NoEntries]
      /\ singleton' = [singleton EXCEPT ![p] = FALSE]
  BY DEF PodTypes, Pod!TypeOK, Pod!Stop, Pod!SetCache
<1>3. /\ PodTypes'
      /\ \A s \in Shards : s \in Pod!OwnShards(p)' <=> Pod!NoEntries[s] = p
      /\ \A q \in Pods \ {p} : Pod!OwnShards(q)' = Pod!OwnShards(q)
  BY <1>1, <1>2, CacheUpdate
<1> QED BY <1>1, <1>3 DEF Pod!OwnShards

\* Steps that only touch the flag of leaving or the entities.
LEMMA CacheKept ==
  ASSUME PodTypes, cache' = cache, singleton' = singleton,
         leaving' \in [Pods -> BOOLEAN], entities' \in [Pods -> SUBSET Shards]
  PROVE  PodTypes' /\ \A q \in Pods : Pod!OwnShards(q)' = Pod!OwnShards(q)
BY DEF PodTypes, Pod!TypeOK, SingletonWithShard, Pod!IsSingletonNode, Pod!OwnShards
----------------------------------------------------------------------------
(* A rebalance calls every pod at most once in a phase: a pod it still has *)
(* to call is not among those whose call failed.                           *)

CalledOnce ==
  /\ job.phase \in {"ping", "unassign"} => job.assignFailed = {}
  /\ job.phase = "unassign" => job.todo \cap job.unassignFailed = {}
  /\ job.phase = "assign" => job.todo \cap job.assignFailed = {}

LEMMA BeginFailures ==
  ASSUME NEW st, NEW kind, NEW immediately, Begin(st, kind, immediately)
  PROVE  CalledOnce'
<1>1. job'.phase = "ping" /\ job'.assignFailed = {}
  BY DEF Begin, Idle
<1> QED BY <1>1 DEF CalledOnce

LEMMA CalledOnceCalls ==
  ASSUME IInv, CalledOnce, NEW p \in Pods, PodCalls(p)
  PROVE  CalledOnce'
<1>1. job \in JobType
  BY DEF IInv, TypeOK
<1>2. CASE Ping(p)
  BY <1>1, <1>2 DEF Ping, JobType, CalledOnce
<1>3. CASE CallUnassign(p)
  BY <1>1, <1>3 DEF CallUnassign, JobType, CalledOnce
<1>4. CASE CallAssign(p)
  BY <1>1, <1>4 DEF CallAssign, JobType, CalledOnce
<1>5. CASE FinishUnassign(p)
  BY <1>1, <1>5 DEF FinishUnassign, JobType, CalledOnce
<1>6. CASE FinishAssign(p)
  <2>1. p \notin job.todo
    BY <1>6 DEF FinishAssign, IInv, PhaseContracts
  <2>2. /\ job'.phase = job.phase /\ job'.todo = job.todo
        /\ job'.assignFailed \in {job.assignFailed, job.assignFailed \cup {p}}
    BY <1>1, <1>6 DEF FinishAssign, JobType
  <2> QED BY <1>6, <2>1, <2>2 DEF FinishAssign, CalledOnce
<1> QED BY <1>2, <1>3, <1>4, <1>5, <1>6 DEF PodCalls

LEMMA CalledOnceNext ==
  ASSUME IInv, CalledOnce, [Next]_vars
  PROVE  CalledOnce'
<1>1. ASSUME job' = job PROVE CalledOnce'
  BY <1>1 DEF CalledOnce
<1>2. ASSUME NEW p \in Pods,
             Requests(p) \/ CheckHealth(p) \/ UnregisterDead(p) \/ PodDies(p) \/ PodStarts(p)
      PROVE  job' = job
  BY <1>2 DEF Requests, Register, Unregister, NotifyUnhealthyPod, CheckHealth, UnregisterDead,
              PodDies, PodStarts, managerVars
<1>3. CASE PhaseEnds
  <2>1. job \in JobType
    BY DEF IInv, TypeOK
  <2>2. CASE PingsDone
    <3>1. /\ job'.phase = "unassign" /\ job'.unassignFailed = {} /\ job'.assignFailed = {}
      BY <2>1, <2>2 DEF PingsDone, JobType, CalledOnce, IInv, PhaseContracts
    <3> QED BY <3>1 DEF CalledOnce
  <2>3. CASE UnassignsDone
    <3>1. job'.phase = "assign" /\ job'.assignFailed = {}
      BY <2>1, <2>3 DEF UnassignsDone, JobType, CalledOnce
    <3> QED BY <3>1 DEF CalledOnce
  <2>4. CASE AssignsDone
    BY <2>4 DEF AssignsDone, EndRun, Idle, CalledOnce
  <2> QED BY <1>3, <2>2, <2>3, <2>4 DEF PhaseEnds
<1>4. CASE Starts
  BY <1>4, BeginFailures DEF Starts, StartUrgent, StartOfRegister, StartPeriodic
<1>5. CASE Boot
  <2>1. \E st \in StateType, now \in BOOLEAN : Begin(st, "boot", now)
    BY <1>5, BootState DEF IInv
  <2> QED BY <2>1, BeginFailures
<1>6. CASE Crash
  BY <1>6 DEF Crash, Idle, CalledOnce
<1>7. CASE SavePods \/ SaveAssignments \/ UNCHANGED vars
  BY <1>1, <1>7 DEF SavePods, SaveAssignments, vars, managerVars
<1> QED BY <1>1, <1>2, <1>3, <1>4, <1>5, <1>6, <1>7, CalledOnceCalls DEF Next

LEMMA ManagerInductive == Spec => [](IInv /\ CalledOnce)
<1>1. Init => CalledOnce
  BY DEF Init, Idle, CalledOnce
<1>2. IInv /\ CalledOnce /\ [Next]_vars => CalledOnce'
  BY CalledOnceNext
<1> QED BY <1>1, <1>2, Inductive, PTL DEF Spec
----------------------------------------------------------------------------
(* The steps of the cluster, by what they do to the shards that the pods   *)
(* hold with the manager's knowledge, and to the manager's table.          *)

HistoryTypes == stray \in [Pods -> SUBSET Shards] /\ departed \subseteq Pods

\* What is under way to a pod are maps of assignments.
UnderWayTyped == underWay \in [Pods -> SUBSET Elements]

\* What a pod does by itself: nothing gets into the table or out of it, and no pod
\* gets to hold a shard with the manager's knowledge.
PodAlone(p) ==
  \/ ResumePod(p) \/ \E v \in Versions : RegisterPod(p, v)
  \/ LeavePod(p) \/ ReportPod(p) \/ ReadAssignments(p) \/ Refresh(p)
  \/ \E s \in Shards : StartEntity(p, s) \/ EndEntity(p, s)
  \/ KillPod(p) \/ RestartPod(p)

LEMMA StrayUpdate ==
  ASSUME HistoryTypes, NEW p \in Pods, NEW S \in SUBSET Shards, SetStray(p, S)
  PROVE  /\ stray' \in [Pods -> SUBSET Shards]
         /\ stray'[p] = S
         /\ \A q \in Pods \ {p} : stray'[q] = stray[q]
BY DEF HistoryTypes, SetStray

LEMMA OwnInShards == \A p : Pod!OwnShards(p) \subseteq Shards /\ Pod!OwnShards(p)' \subseteq Shards
BY DEF Pod!OwnShards

LEMMA PodAloneEffect ==
  ASSUME TypeOK, PodTypes, HistoryTypes, UnderWayTyped, NEW p \in Pods, PodAlone(p)
  PROVE  /\ PodTypes' /\ HistoryTypes'
         /\ job' = job /\ state'.shards = state.shards /\ status' = status
         /\ status = "down" => UNCHANGED <<waiting, suspects, condemned>>
         /\ \A q \in Pods : Known(q)' \subseteq Known(q)
<1>1. CASE ResumePod(p) \/ LeavePod(p)
  <2>1. /\ cache' = cache /\ singleton' = singleton /\ entities' = entities
        /\ leaving' \in [Pods -> BOOLEAN]
    BY <1>1 DEF ResumePod, LeavePod, Pod!Resume, Pod!BeginLeaving, PodTypes, Pod!TypeOK
  <2>2. UNCHANGED <<vars, stray>> /\ departed' \in {departed, departed \cup {p}}
    BY <1>1 DEF ResumePod, LeavePod
  <2>3. PodTypes' /\ \A q \in Pods : Pod!OwnShards(q)' = Pod!OwnShards(q)
    BY <2>1, CacheKept DEF PodTypes, Pod!TypeOK
  <2> QED BY <2>2, <2>3 DEF vars, managerVars, HistoryTypes, Known
<1>2. ASSUME NEW s \in Shards, StartEntity(p, s) \/ EndEntity(p, s)
      PROVE  /\ PodTypes' /\ \A q \in Pods : Pod!OwnShards(q)' = Pod!OwnShards(q)
             /\ UNCHANGED <<vars, stray, departed>>
  <2>1. Pod!EntityStarts(p, s) \/ Pod!EntityEnds(p, s)
    BY <1>2 DEF StartEntity, EndEntity
  <2>2. UNCHANGED <<vars, stray, departed>>
    BY <1>2 DEF StartEntity, EndEntity
  <2>3. /\ cache' = cache /\ singleton' = singleton /\ leaving' = leaving
        /\ entities' \in [Pods -> SUBSET Shards]
    BY <2>1 DEF Pod!EntityStarts, Pod!EntityEnds, PodTypes, Pod!TypeOK
  <2> QED BY <2>2, <2>3, CacheKept DEF PodTypes, Pod!TypeOK
<1>3. CASE \E s \in Shards : StartEntity(p, s) \/ EndEntity(p, s)
  BY <1>2, <1>3 DEF vars, managerVars, HistoryTypes, Known
<1>4. CASE \/ \E v \in Versions : RegisterPod(p, v)
           \/ ReportPod(p) \/ ReadAssignments(p) \/ RestartPod(p)
  <2>1. UNCHANGED <<podVars, stray, departed>>
    BY <1>4 DEF RegisterPod, ReportPod, ReadAssignments, RestartPod
  <2>2. PodTypes' /\ \A q \in Pods : Pod!OwnShards(q)' = Pod!OwnShards(q)
    BY <2>1, CacheKept DEF podVars, PodTypes, Pod!TypeOK
  <2>3. ASSUME NEW v \in Versions, RegisterPod(p, v)
        PROVE  /\ job' = job /\ state'.shards = state.shards /\ status' = status
               /\ status = "up"
    <3>1. Register(p, v)
      BY <2>3 DEF RegisterPod
    <3>2. state' = Make(Put(state.pods, p, v), state.shards)
      BY <3>1 DEF Register
    <3>3. state.pods \in PodMaps /\ state.shards \in ShardMaps
      BY DEF TypeOK, StateType
    <3>4. state'.shards = state.shards
      BY <3>2, <3>3, PutType, MakeType
    <3> QED BY <3>1, <3>4 DEF Register
  <2>4. /\ job' = job /\ state'.shards = state.shards /\ status' = status
        /\ status = "down" => UNCHANGED <<waiting, suspects, condemned>>
    BY <1>4, <2>3
       DEF ReportPod, ReadAssignments, RestartPod, NotifyUnhealthyPod, PodStarts, managerVars, vars
  <2> QED BY <2>1, <2>2, <2>4 DEF HistoryTypes, Known
<1>5. CASE Refresh(p)
  <2>1. /\ UNCHANGED vars /\ departed' = departed
        /\ SetStray(p, stray[p] \cup (Pod!OwnShards(p)' \ Pod!OwnShards(p)))
    BY <1>5 DEF Refresh
  <2>2. PICK e \in underWay[p] :
          Pod!RefreshFromManager(p, e.map) \/ Pod!RefreshFromStorage(p, e.map)
    BY <1>5 DEF Refresh
  <2>3. /\ PodTypes'
        /\ \A q \in Pods \ {p} : Pod!OwnShards(q)' = Pod!OwnShards(q)
    <3>1. e.map \in ShardMaps
      BY <2>2 DEF UnderWayTyped, Elements
    <3> QED BY <2>2, <3>1, RefreshOwns
  <2>4. /\ stray' \in [Pods -> SUBSET Shards]
        /\ stray'[p] = stray[p] \cup (Pod!OwnShards(p)' \ Pod!OwnShards(p))
        /\ \A q \in Pods \ {p} : stray'[q] = stray[q]
    <3>1. stray[p] \cup (Pod!OwnShards(p)' \ Pod!OwnShards(p)) \in SUBSET Shards
      BY OwnInShards DEF HistoryTypes
    <3> QED BY <2>1, <3>1, StrayUpdate
  <2>5. \A q \in Pods : Known(q)' \subseteq Known(q)
    BY <2>3, <2>4 DEF Known
  <2> QED BY <2>1, <2>3, <2>4, <2>5 DEF vars, managerVars, HistoryTypes
<1>6. CASE KillPod(p)
  <2>1. /\ UNCHANGED managerVars /\ departed' = departed \ {p} /\ SetStray(p, {})
        /\ Pod!Stop(p)
    BY <1>6 DEF KillPod, PodDies
  <2>2. /\ PodTypes' /\ Pod!OwnShards(p)' = {}
        /\ \A q \in Pods \ {p} : Pod!OwnShards(q)' = Pod!OwnShards(q)
    BY <2>1, StopOwns
  <2>3. /\ stray' \in [Pods -> SUBSET Shards]
        /\ \A q \in Pods \ {p} : stray'[q] = stray[q]
    BY <2>1, StrayUpdate
  <2> QED BY <2>1, <2>2, <2>3 DEF managerVars, HistoryTypes, Known
<1> QED BY <1>1, <1>3, <1>4, <1>5, <1>6 DEF PodAlone
----------------------------------------------------------------------------
(* The inductive invariant.  HeldShardsKnown lets a pod hold a shard that  *)
(* is in the table as its own or is about to be.  What it needs besides:   *)
(* when the answer to an unassignment is processed, the pod has really let *)
(* go of the shards (UnassignHeard), and when the manager boots, with an   *)
(* empty table, no pod holds a shard it would know of (NothingWhileDown).  *)

UnassignHeard ==
  job.phase = "unassign" => \A p \in job.acked : Known(p) \cap ToUnassign(p) = {}

NothingWhileDown ==
  status = "down" =>
    /\ job.phase = "idle" /\ waiting = NoRequest
    /\ suspects = {} /\ condemned = {}
    /\ \A p \in Pods : Known(p) = {}

Kept ==
  /\ PodTypes /\ HistoryTypes
  /\ HeldShardsKnown /\ UnassignHeard /\ NothingWhileDown

ManagerInv == IInv /\ CalledOnce /\ UnderWayTyped

\* The shards of a call are shards.
LEMMA CallShards ==
  \A p : ToUnassign(p) \subseteq Shards /\ ToAssign(p) \subseteq Shards
BY DEF ToUnassign, TakenFrom, Moved, ToAssign, GivenTo

LEMMA KnownShards == \A p : Known(p) \subseteq Shards
BY OwnInShards DEF Known

\* HeldShardsKnown, said with Known.
LEMMA HeldShards ==
  HeldShardsKnown <=>
    \A p \in Pods : \A s \in Known(p) :
      \/ state.shards[s] = p
      \/ job.phase = "assign" /\ p \in job.acked /\ s \in ToAssign(p)
BY DEF HeldShardsKnown, Known

LEMMA HeldShardsNext ==
  HeldShardsKnown' <=>
    \A p \in Pods : \A s \in Known(p)' :
      \/ state'.shards[s] = p
      \/ job'.phase = "assign" /\ p \in job'.acked /\ s \in ToAssign(p)'
BY DEF HeldShardsKnown, Known

\* Pods that hold less, and a table that only loses what nobody knowingly holds.
LEMMA HeldByLess ==
  ASSUME HeldShardsKnown, UnassignHeard, job' = job,
         \A q \in Pods : Known(q)' \subseteq Known(q),
         \A q \in Pods : \A s \in Known(q)' : state.shards[s] = q => state'.shards[s] = q,
         TypeOK
  PROVE  HeldShardsKnown' /\ UnassignHeard'
<1>1. \A p : ToUnassign(p)' = ToUnassign(p) /\ ToAssign(p)' = ToAssign(p)
  BY SameToUnassign, SameToAssign
<1>2. HeldShardsKnown'
  BY <1>1, HeldShards, HeldShardsNext
<1>3. job.acked \subseteq Pods
  BY DEF TypeOK, JobType
<1>4. UnassignHeard'
  BY <1>1, <1>3 DEF UnassignHeard
<1> QED BY <1>2, <1>4

LEMMA KeptPodAlone ==
  ASSUME ManagerInv, Kept, NEW p \in Pods, PodAlone(p)
  PROVE  Kept'
<1> USE DEF ManagerInv, IInv, Kept
<1>1. /\ PodTypes' /\ HistoryTypes'
      /\ job' = job /\ state'.shards = state.shards /\ status' = status
      /\ status = "down" => UNCHANGED <<waiting, suspects, condemned>>
      /\ \A q \in Pods : Known(q)' \subseteq Known(q)
  BY PodAloneEffect
<1>2. HeldShardsKnown' /\ UnassignHeard'
  BY <1>1, HeldByLess
<1>3. NothingWhileDown'
  BY <1>1 DEF NothingWhileDown
<1> QED BY <1>1, <1>2, <1>3

\* The pod whose shards go knows nothing of it: what it holds becomes stray.
LEMMA KeptDrop ==
  ASSUME ManagerInv, Kept, NEW p \in Pods, UnregisterPod(p) \/ DropPod(p)
  PROVE  Kept'
<1> USE DEF ManagerInv, IInv, Kept
<1>1. /\ UNCHANGED <<podVars, departed>> /\ SetStray(p, Pod!OwnShards(p))
      /\ job' = job /\ status' = status
      /\ Drop(p) \/ state' = state
  BY DEF UnregisterPod, DropPod, Unregister, UnregisterDead
<1>2. status # "down"
  BY DEF UnregisterPod, Unregister, DropPod, UnregisterDead, NothingWhileDown
<1>3. \A s \in Shards : state'.shards[s] # state.shards[s] => state.shards[s] = p
  <2>1. CASE Drop(p)
    <3>1. state'.shards =
            [s \in Shards |-> IF state.shards[s] = p THEN NoPod ELSE state.shards[s]]
      BY <2>1, DropType DEF TypeOK
    <3> QED BY <3>1
  <2> QED BY <1>1, <2>1
<1>4. PodTypes' /\ \A q \in Pods : Pod!OwnShards(q)' = Pod!OwnShards(q)
  BY <1>1, CacheKept DEF podVars, PodTypes, Pod!TypeOK
<1>5. /\ stray' \in [Pods -> SUBSET Shards] /\ stray'[p] = Pod!OwnShards(p)
      /\ \A q \in Pods \ {p} : stray'[q] = stray[q]
  BY <1>1, OwnInShards, StrayUpdate
<1>6. Known(p)' = {} /\ \A q \in Pods \ {p} : Known(q)' = Known(q)
  BY <1>4, <1>5 DEF Known
<1>7. \A q \in Pods : \A s \in Known(q)' : state.shards[s] = q => state'.shards[s] = q
  BY <1>3, <1>6, KnownShards
<1>8. HeldShardsKnown' /\ UnassignHeard'
  BY <1>1, <1>6, <1>7, HeldByLess
<1>9. NothingWhileDown'
  BY <1>1, <1>2 DEF NothingWhileDown
<1> QED BY <1>1, <1>4, <1>5, <1>8, <1>9 DEF HistoryTypes

\* The call that takes shards away: a pod that answers holds none of them any more.
LEMMA KeptCallUnassign ==
  ASSUME ManagerInv, Kept, NEW p \in Pods, CallUnassignPod(p)
  PROVE  Kept'
<1> USE DEF ManagerInv, IInv, Kept
<1>1. /\ CallUnassign(p) /\ departed' = departed
      /\ \/ Pod!Unassign(p, ToUnassign(p)) /\ SetStray(p, stray[p] \ ToUnassign(p))
         \/ p \in job'.unassignFailed /\ UNCHANGED <<podVars, stray>>
  BY DEF CallUnassignPod
<1>2. /\ job.phase = "unassign" /\ p \in job.todo /\ state' = state /\ status' = status
      /\ \/ job' = [job EXCEPT !.todo = @ \ {p}, !.acked = @ \cup {p}]
         \/ job' = [job EXCEPT !.todo = @ \ {p}, !.unassignFailed = @ \cup {p}]
  BY <1>1 DEF CallUnassign
<1>3. /\ job'.phase = job.phase /\ job'.plan = job.plan /\ job'.old = job.old
      /\ job'.pingFailed = job.pingFailed
      /\ \/ job'.acked = job.acked \cup {p} /\ job'.unassignFailed = job.unassignFailed
         \/ job'.acked = job.acked
  BY <1>2, Answered, UnassignFailed DEF TypeOK
<1>4. p \notin job.acked /\ p \notin job.unassignFailed
  BY <1>2 DEF CalledOnce, PhaseContracts
<1>5. \A q : ToUnassign(q)' = ToUnassign(q)
  BY <1>3, SameToUnassign
<1>6. /\ PodTypes' /\ HistoryTypes'
      /\ \A q \in Pods : Known(q)' \subseteq Known(q)
      /\ p \in job'.acked => Known(p)' \cap ToUnassign(p) = {}
  <2>1. CASE Pod!Unassign(p, ToUnassign(p)) /\ SetStray(p, stray[p] \ ToUnassign(p))
    <3>1. /\ PodTypes' /\ Pod!OwnShards(p)' = Pod!OwnShards(p) \ ToUnassign(p)
          /\ \A q \in Pods \ {p} : Pod!OwnShards(q)' = Pod!OwnShards(q)
      BY <2>1, CallShards, UnassignOwns
    <3>2. /\ stray' \in [Pods -> SUBSET Shards] /\ stray'[p] = stray[p] \ ToUnassign(p)
          /\ \A q \in Pods \ {p} : stray'[q] = stray[q]
      <4>1. stray[p] \ ToUnassign(p) \in SUBSET Shards
        BY DEF HistoryTypes
      <4> QED BY <2>1, <4>1, StrayUpdate
    <3> QED BY <1>1, <3>1, <3>2 DEF Known, HistoryTypes
  <2>2. CASE p \in job'.unassignFailed /\ UNCHANGED <<podVars, stray>>
    <3>1. p \notin job'.acked
      BY <1>3, <1>4, <2>2
    <3>2. PodTypes' /\ \A q \in Pods : Pod!OwnShards(q)' = Pod!OwnShards(q)
      BY <2>2, CacheKept DEF podVars, PodTypes, Pod!TypeOK
    <3> QED BY <1>1, <2>2, <3>1, <3>2 DEF Known, HistoryTypes
  <2> QED BY <1>1, <2>1, <2>2
<1>7. HeldShardsKnown'
  BY <1>2, <1>6, HeldShards, HeldShardsNext
<1>8. UnassignHeard'
  <2>1. job.acked \subseteq Pods
    BY DEF TypeOK, JobType
  <2> QED BY <1>2, <1>3, <1>5, <1>6, <2>1 DEF UnassignHeard
<1>9. NothingWhileDown'
  BY <1>2 DEF NothingWhileDown
<1> QED BY <1>6, <1>7, <1>8, <1>9

\* The call that gives shards: what a pod that answers holds then is on its way into the
\* table; what a pod whose answer is lost took is not known of.
LEMMA KeptCallAssign ==
  ASSUME ManagerInv, Kept, NEW p \in Pods, CallAssignPod(p)
  PROVE  Kept'
<1> USE DEF ManagerInv, IInv, Kept
<1>1. /\ CallAssign(p) /\ departed' = departed
  BY DEF CallAssignPod
<1>2. /\ job.phase = "assign" /\ p \in job.todo /\ state' = state /\ status' = status
      /\ \/ job' = [job EXCEPT !.todo = @ \ {p}, !.acked = @ \cup {p}]
         \/ job' = [job EXCEPT !.todo = @ \ {p}, !.assignFailed = @ \cup {p}]
  BY <1>1 DEF CallAssign
<1>3. /\ job'.phase = job.phase /\ job'.plan = job.plan /\ job'.old = job.old
      /\ job'.pingFailed = job.pingFailed /\ job'.unassignFailed = job.unassignFailed
      /\ job.acked \subseteq job'.acked
  BY <1>2, Answered, AssignFailed DEF TypeOK
<1>4. \A q : ToAssign(q)' = ToAssign(q)
  BY <1>3, SameToAssign
<1>5. /\ PodTypes' /\ HistoryTypes'
      /\ \A q \in Pods \ {p} : Known(q)' \subseteq Known(q)
      /\ \/ p \in job'.acked /\ Known(p)' \subseteq Known(p) \cup ToAssign(p)
         \/ Known(p)' \subseteq Known(p)
  <2> DEFINE gained == stray[p] \cup (ToAssign(p) \cap Pod!OwnShards(p)')
  <2>1. /\ stray[p] \ ToAssign(p) \in SUBSET Shards
        /\ gained \in SUBSET Shards
    BY CallShards DEF HistoryTypes
  <2>2. ASSUME Pod!Assign(p, ToAssign(p))
        PROVE  /\ PodTypes'
               /\ Pod!OwnShards(p)' \subseteq Pod!OwnShards(p) \cup ToAssign(p)
               /\ \A q \in Pods \ {p} : Pod!OwnShards(q)' = Pod!OwnShards(q)
    BY <2>2, CallShards, AssignOwns
  <2>3. CASE /\ p \in job'.acked /\ Pod!Assign(p, ToAssign(p))
             /\ SetStray(p, stray[p] \ ToAssign(p))
    <3>1. /\ stray' \in [Pods -> SUBSET Shards] /\ stray'[p] = stray[p] \ ToAssign(p)
          /\ \A q \in Pods \ {p} : stray'[q] = stray[q]
      BY <2>1, <2>3, StrayUpdate
    <3> QED BY <1>1, <2>2, <2>3, <3>1 DEF Known, HistoryTypes
  <2>4. CASE Pod!Assign(p, ToAssign(p)) /\ SetStray(p, gained)
    <3>1. /\ stray' \in [Pods -> SUBSET Shards] /\ stray'[p] = gained
          /\ \A q \in Pods \ {p} : stray'[q] = stray[q]
      <4> HIDE DEF gained
      <4> QED BY <2>1, <2>4, StrayUpdate
    <3> QED BY <1>1, <2>2, <2>4, <3>1 DEF Known, HistoryTypes
  <2>5. CASE UNCHANGED <<podVars, stray>>
    <3>1. PodTypes' /\ \A q \in Pods : Pod!OwnShards(q)' = Pod!OwnShards(q)
      BY <2>5, CacheKept DEF podVars, PodTypes, Pod!TypeOK
    <3> QED BY <1>1, <2>5, <3>1 DEF Known, HistoryTypes
  <2> QED BY <2>3, <2>4, <2>5 DEF CallAssignPod
<1>6. HeldShardsKnown'
  BY <1>2, <1>3, <1>4, <1>5, HeldShards, HeldShardsNext
<1>7. UnassignHeard' /\ NothingWhileDown'
  BY <1>2, <1>3 DEF UnassignHeard, NothingWhileDown
<1> QED BY <1>5, <1>6, <1>7

\* The table takes up what the call gave, if the pod is still registered: nobody else
\* holds those shards with the manager's knowledge, since they had no owner.
LEMMA KeptFinishAssign ==
  ASSUME ManagerInv, Kept, NEW p \in Pods, FinishAssignPod(p)
  PROVE  Kept'
<1> USE DEF ManagerInv, IInv, Kept
<1>1. /\ FinishAssign(p) /\ UNCHANGED <<podVars, departed>>
      /\ SetStray(p, IF Has(state.pods, p) THEN stray[p]
                     ELSE stray[p] \cup (ToAssign(p) \cap Pod!OwnShards(p)))
  BY DEF FinishAssignPod
<1>2. /\ job.phase = "assign" /\ p \in job.acked /\ status' = status
      /\ \/ job' = [job EXCEPT !.acked = @ \ {p}]
         \/ job' = [job EXCEPT !.acked = @ \ {p}, !.assignFailed = @ \cup {p}]
  BY <1>1 DEF FinishAssign
<1>3. /\ job'.phase = job.phase /\ job'.plan = job.plan /\ job'.old = job.old
      /\ job'.pingFailed = job.pingFailed /\ job'.unassignFailed = job.unassignFailed
      /\ job'.acked = job.acked \ {p}
  <2>1. job \in JobType
    BY DEF TypeOK
  <2>2. CASE job' = [job EXCEPT !.acked = @ \ {p}]
    BY <2>1, <2>2 DEF JobType
  <2>3. CASE job' = [job EXCEPT !.acked = @ \ {p}, !.assignFailed = @ \cup {p}]
    BY <2>1, <2>3, UpdateFailed
  <2> QED BY <1>2, <2>2, <2>3
<1>4. \A q : ToAssign(q)' = ToAssign(q)
  BY <1>3, SameToAssign
<1>5. PodTypes' /\ \A q \in Pods : Pod!OwnShards(q)' = Pod!OwnShards(q)
  BY <1>1, CacheKept DEF podVars, PodTypes, Pod!TypeOK
<1>6. /\ stray' \in [Pods -> SUBSET Shards]
      /\ stray'[p] = IF Has(state.pods, p) THEN stray[p]
                     ELSE stray[p] \cup (ToAssign(p) \cap Pod!OwnShards(p))
      /\ \A q \in Pods \ {p} : stray'[q] = stray[q]
  <2> DEFINE S == IF Has(state.pods, p) THEN stray[p]
                  ELSE stray[p] \cup (ToAssign(p) \cap Pod!OwnShards(p))
  <2>1. S \in SUBSET Shards
    BY OwnInShards DEF HistoryTypes
  <2>2. SetStray(p, S)
    BY <1>1
  <2> HIDE DEF S
  <2>3. /\ stray' \in [Pods -> SUBSET Shards] /\ stray'[p] = S
        /\ \A q \in Pods \ {p} : stray'[q] = stray[q]
    BY <2>1, <2>2, StrayUpdate
  <2> QED BY <2>3 DEF S
<1>7. /\ \A q \in Pods : Known(q)' \subseteq Known(q)
      /\ ~Has(state.pods, p) => Known(p)' \cap ToAssign(p) = {}
  BY <1>5, <1>6 DEF Known
<1>8. \A s \in Shards :
        state'.shards[s] = IF Has(state.pods, p) /\ s \in ToAssign(p) THEN p ELSE state.shards[s]
  <2>1. SetShards(ToAssign(p), p).shards =
          [s \in Shards |-> IF s \in ToAssign(p) THEN p ELSE state.shards[s]]
    BY CallShards, SetShardsType DEF TypeOK, PodOpt
  <2> QED BY <1>1, <2>1 DEF FinishAssign
<1>9. \A s \in ToAssign(p) : state.shards[s] = NoPod
  BY <1>2 DEF PhaseContracts
<1>10. ASSUME NEW q \in Pods, NEW s \in Known(q)'
       PROVE  \/ state'.shards[s] = q
              \/ job'.phase = "assign" /\ q \in job'.acked /\ s \in ToAssign(q)'
  <2>1. s \in Known(q) /\ s \in Shards
    BY <1>7, KnownShards
  <2>2. CASE state.shards[s] = q
    BY <1>8, <1>9, <2>1, <2>2
  <2>3. CASE job.phase = "assign" /\ q \in job.acked /\ s \in ToAssign(q)
    BY <1>3, <1>4, <1>7, <1>8, <2>1, <2>3
  <2> QED BY <2>1, <2>2, <2>3, HeldShards
<1>11. HeldShardsKnown'
  BY <1>10, HeldShardsNext
<1>12. UnassignHeard' /\ NothingWhileDown'
  BY <1>2, <1>3 DEF UnassignHeard, NothingWhileDown
<1> QED BY <1>1, <1>5, <1>6, <1>11, <1>12 DEF HistoryTypes
----------------------------------------------------------------------------
\* A manager that loses its memory knows of nothing any more.
LEMMA KeptCrash ==
  ASSUME ManagerInv, Kept, CrashManager
  PROVE  Kept'
<1> USE DEF ManagerInv, IInv, Kept
<1>1. /\ Crash /\ UNCHANGED <<podVars, departed>>
      /\ stray' = [p \in Pods |-> Pod!OwnShards(p)]
  BY DEF CrashManager
<1>2. /\ job' = Idle /\ waiting' = NoRequest /\ suspects' = {} /\ condemned' = {}
  BY <1>1 DEF Crash
<1>3. PodTypes' /\ \A q \in Pods : Pod!OwnShards(q)' = Pod!OwnShards(q)
  BY <1>1, CacheKept DEF podVars, PodTypes, Pod!TypeOK
<1>4. HistoryTypes' /\ \A q \in Pods : Known(q)' = {}
  BY <1>1, <1>3, OwnInShards DEF HistoryTypes, Known
<1>5. job'.phase = "idle"
  BY <1>2 DEF Idle
<1>6. HeldShardsKnown' /\ UnassignHeard' /\ NothingWhileDown'
  BY <1>2, <1>4, <1>5, HeldShardsNext DEF UnassignHeard, NothingWhileDown
<1> QED BY <1>3, <1>4, <1>6

\* The end of an unassignment leaves the table's other entries; the pod it is about does
\* not hold the shards any more, and no other pod did.
LEMMA KeptFinishUnassign ==
  ASSUME ManagerInv, Kept, NEW p \in Pods, FinishUnassign(p),
         \A q \in Pods : Known(q)' = Known(q)
  PROVE  HeldShardsKnown' /\ UnassignHeard'
<1> USE DEF ManagerInv, IInv, Kept
<1>1. /\ job.phase = "unassign" /\ p \in job.acked
      /\ state' = SetShards(ToUnassign(p), NoPod)
      /\ job' = [job EXCEPT !.acked = @ \ {p}]
  BY DEF FinishUnassign
<1>2. /\ job'.phase = "unassign" /\ job'.plan = job.plan /\ job'.old = job.old
      /\ job'.pingFailed = job.pingFailed /\ job'.acked = job.acked \ {p}
  BY <1>1 DEF TypeOK, JobType
<1>3. \A q : ToUnassign(q)' = ToUnassign(q)
  BY <1>2, SameToUnassign
<1>4. \A s \in Shards :
        state'.shards[s] = IF s \in ToUnassign(p) THEN NoPod ELSE state.shards[s]
  <2>1. SetShards(ToUnassign(p), NoPod).shards =
          [s \in Shards |-> IF s \in ToUnassign(p) THEN NoPod ELSE state.shards[s]]
    BY CallShards, SetShardsType DEF TypeOK, PodOpt
  <2> QED BY <1>1, <2>1
<1>5. ASSUME NEW s \in ToUnassign(p) PROVE state.shards[s] \in {p, NoPod}
  <2>1. s \in Moved(job.plan) /\ job.old[s] = p
    BY DEF ToUnassign, TakenFrom
  <2> QED BY <1>1, <2>1 DEF PhaseContracts
<1>6. Known(p) \cap ToUnassign(p) = {}
  BY <1>1 DEF UnassignHeard
<1>7. ASSUME NEW q \in Pods, NEW s \in Known(q)' PROVE state'.shards[s] = q
  <2>1. s \in Shards /\ s \in Known(q) /\ state.shards[s] = q
    BY <1>1, HeldShards, KnownShards
  <2>2. s \notin ToUnassign(p)
    BY <1>5, <1>6, <2>1
  <2> QED BY <1>4, <2>1, <2>2
<1>8. HeldShardsKnown'
  BY <1>7, HeldShardsNext
<1>9. job.acked \subseteq Pods
  BY DEF TypeOK, JobType
<1>10. UnassignHeard'
  BY <1>1, <1>2, <1>3, <1>9 DEF UnassignHeard
<1> QED BY <1>8, <1>10

LEMMA KeptManagerAlone ==
  ASSUME ManagerInv, Kept, ManagerAlone
  PROVE  Kept'
<1> USE DEF ManagerInv, IInv, Kept
<1>1. UNCHANGED <<podVars, stray, departed>>
  BY DEF ManagerAlone
<1>2. PodTypes' /\ \A q \in Pods : Pod!OwnShards(q)' = Pod!OwnShards(q)
  BY <1>1, CacheKept DEF podVars, PodTypes, Pod!TypeOK
<1>3. HistoryTypes' /\ \A q \in Pods : Known(q)' = Known(q)
  BY <1>1, <1>2 DEF HistoryTypes, Known
<1>4. ASSUME job' = job, state' = state PROVE HeldShardsKnown' /\ UnassignHeard'
  BY <1>3, <1>4, HeldByLess
<1>5. ASSUME job.phase \in {"idle", "ping", "unassign"}, state' = state,
             job'.phase # "unassign" \/ job'.acked = {}
      PROVE  HeldShardsKnown' /\ UnassignHeard'
  <2>1. HeldShardsKnown'
    BY <1>3, <1>5, HeldShards, HeldShardsNext
  <2>2. UnassignHeard'
    BY <1>5 DEF UnassignHeard
  <2> QED BY <2>1, <2>2
<1>6. ASSUME NEW p \in Pods, CheckHealth(p) PROVE Kept'
  <2>1. HeldShardsKnown' /\ UnassignHeard'
    BY <1>4, <1>6 DEF CheckHealth
  <2>2. NothingWhileDown'
    BY <1>6 DEF CheckHealth, NothingWhileDown
  <2> QED BY <1>2, <1>3, <2>1, <2>2
<1>7. ASSUME NEW p \in Pods, Ping(p) PROVE Kept'
  <2>1. job.phase = "ping" /\ job'.phase = "ping" /\ state' = state /\ status' = status
    BY <1>7 DEF Ping, TypeOK, JobType
  <2>2. HeldShardsKnown' /\ UnassignHeard'
    BY <1>5, <2>1
  <2>3. NothingWhileDown'
    BY <2>1 DEF NothingWhileDown
  <2> QED BY <1>2, <1>3, <2>2, <2>3
<1>8. ASSUME NEW p \in Pods, FinishUnassign(p) PROVE Kept'
  <2>1. NothingWhileDown'
    BY <1>8 DEF FinishUnassign, NothingWhileDown
  <2> QED BY <1>2, <1>3, <1>8, <2>1, KeptFinishUnassign
<1>9. CASE PhaseEnds
  <2>1. job \in JobType
    BY DEF TypeOK
  <2>2. CASE PingsDone
    <3>1. job.phase = "ping" /\ state' = state /\ status' = status /\ job'.acked = {}
      BY <2>1, <2>2 DEF PingsDone, JobType, PhaseContracts
    <3>2. HeldShardsKnown' /\ UnassignHeard'
      BY <1>5, <3>1
    <3> QED BY <1>2, <1>3, <3>1, <3>2 DEF NothingWhileDown
  <2>3. CASE UnassignsDone
    <3>1. /\ job.phase = "unassign" /\ job'.phase = "assign"
          /\ state' = state /\ status' = status
      BY <2>1, <2>3 DEF UnassignsDone, JobType
    <3>2. HeldShardsKnown' /\ UnassignHeard'
      BY <1>5, <3>1
    <3> QED BY <1>2, <1>3, <3>1, <3>2 DEF NothingWhileDown
  <2>4. CASE AssignsDone
    <3>1. /\ job.phase = "assign" /\ job.acked = {} /\ job'.phase = "idle"
          /\ state' = state /\ status' \in {status, "up"}
      BY <2>4 DEF AssignsDone, EndRun, Idle
    <3>2. HeldShardsKnown'
      BY <1>3, <3>1, HeldShards, HeldShardsNext
    <3>3. UnassignHeard' /\ NothingWhileDown'
      BY <3>1 DEF UnassignHeard, NothingWhileDown
    <3> QED BY <1>2, <1>3, <3>2, <3>3
  <2> QED BY <1>9, <2>2, <2>3, <2>4 DEF PhaseEnds
<1>10. CASE StartUrgent \/ StartOfRegister \/ StartPeriodic
  <2>1. /\ job.phase = "idle" /\ state' = state /\ status' = status
        /\ \/ Begin(state, "urgent", TRUE)
           \/ Begin(state, "register", FALSE)
           \/ Begin(state, "periodic", FALSE)
    BY <1>10 DEF StartUrgent, StartOfRegister, StartPeriodic
  <2>2. job'.phase = "ping"
    BY <2>1 DEF Begin, Idle
  <2>3. status # "down"
    <3>1. status = "down" => waiting.urgent = 0 /\ waiting.register = 0
      BY DEF NothingWhileDown, NoRequest
    <3>2. waiting.urgent > 0 \/ waiting.register > 0 \/ status = "up"
      BY <1>10 DEF StartUrgent, StartOfRegister, StartPeriodic
    <3> QED BY <3>1, <3>2
  <2>4. HeldShardsKnown' /\ UnassignHeard'
    BY <1>5, <2>1, <2>2
  <2> QED BY <1>2, <1>3, <2>1, <2>3, <2>4 DEF NothingWhileDown
<1>11. CASE SavePods \/ SaveAssignments
  <2>1. HeldShardsKnown' /\ UnassignHeard'
    BY <1>4, <1>11 DEF SavePods, SaveAssignments
  <2>2. NothingWhileDown'
    BY <1>3, <1>11 DEF SavePods, SaveAssignments, NothingWhileDown
  <2> QED BY <1>2, <1>3, <2>1, <2>2
<1>12. CASE Boot
  <2>1. \E st, now : Begin(st, "boot", now)
    BY <1>12, BootState
  <2>2. job'.phase = "ping"
    BY <2>1 DEF Begin, Idle
  <2>3. status = "down" /\ status' = "booting"
    BY <1>12 DEF Boot
  <2>4. \A q \in Pods : Known(q)' = {}
    BY <1>3, <2>3 DEF NothingWhileDown
  <2>5. HeldShardsKnown'
    BY <2>4, HeldShardsNext
  <2> QED BY <1>2, <1>3, <2>2, <2>3, <2>5 DEF UnassignHeard, NothingWhileDown
<1> QED BY <1>6, <1>7, <1>8, <1>9, <1>10, <1>11, <1>12 DEF ManagerAlone

LEMMA KeptNext ==
  ASSUME ManagerInv, Kept, [ClusterNext]_clusterVars
  PROVE  Kept'
<1>1. ASSUME NEW p \in Pods, PodSteps(p) PROVE Kept'
  <2>1. PodAlone(p) \/ UnregisterPod(p)
    BY <1>1 DEF PodSteps, PodAlone
  <2> QED BY <2>1, KeptPodAlone, KeptDrop
<1>2. ASSUME NEW p \in Pods, ManagerSteps(p) PROVE Kept'
  BY <1>2, KeptDrop, KeptCallUnassign, KeptCallAssign, KeptFinishAssign DEF ManagerSteps
<1>3. CASE UNCHANGED clusterVars
  <2>1. UNCHANGED <<status, state, job, waiting, suspects, condemned>>
    BY <1>3 DEF clusterVars, vars, managerVars
  <2>2. UNCHANGED <<podVars, stray, departed>>
    BY <1>3 DEF clusterVars
  <2>3. PodTypes' /\ \A q \in Pods : Pod!OwnShards(q)' = Pod!OwnShards(q)
    BY <2>2, CacheKept DEF podVars, Kept, PodTypes, Pod!TypeOK
  <2>4. HistoryTypes' /\ \A q \in Pods : Known(q)' = Known(q)
    BY <2>2, <2>3 DEF Kept, HistoryTypes, Known
  <2>5. HeldShardsKnown' /\ UnassignHeard'
    BY <2>1, <2>4, HeldByLess DEF Kept, ManagerInv, IInv
  <2>6. NothingWhileDown'
    BY <2>1, <2>4 DEF Kept, NothingWhileDown
  <2> QED BY <2>3, <2>4, <2>5, <2>6 DEF Kept
<1> QED BY <1>1, <1>2, <1>3, KeptManagerAlone, KeptCrash DEF ClusterNext

LEMMA KeptInit == ClusterInit => Kept
<1> SUFFICES ASSUME ClusterInit PROVE Kept
  OBVIOUS
<1>1. Pod!NoEntries \in [Shards -> PodOpt] /\ \A s \in Shards : Pod!NoEntries[s] = NoPod
  BY DEF Pod!NoEntries, PodOpt
<1>2. /\ cache = [p \in Pods |-> Pod!NoEntries] /\ leaving = [p \in Pods |-> FALSE]
      /\ singleton = [p \in Pods |-> FALSE] /\ entities = [p \in Pods |-> {}]
      /\ stray = [p \in Pods |-> {}] /\ departed = {}
  BY DEF ClusterInit, Pod!Init
<1>3. PodTypes /\ HistoryTypes
  BY <1>1, <1>2
     DEF PodTypes, Pod!TypeOK, Pod!Assignments, PodOpt, SingletonWithShard, HistoryTypes
<1>4. \A p \in Pods : Known(p) = {}
  BY <1>1, <1>2 DEF Known, Pod!OwnShards
<1>5. /\ job.phase = "idle" /\ waiting = NoRequest /\ suspects = {} /\ condemned = {}
  BY DEF ClusterInit, Init, Idle
<1>6. HeldShardsKnown /\ UnassignHeard /\ NothingWhileDown
  BY <1>4, <1>5, HeldShards DEF UnassignHeard, NothingWhileDown
<1> QED BY <1>3, <1>6 DEF Kept

\* Only what the manager or the storage says gets under way.
LEMMA UnderWayNext ==
  ASSUME TypeOK, UnderWayTyped, [ClusterNext]_clusterVars
  PROVE  UnderWayTyped'
<1>1. ASSUME NEW p \in Pods, PodSteps(p) PROVE UnderWayTyped'
  <2>1. CASE ReadAssignments(p)
    <3>1. PICK e \in Elements : underWay' = [underWay EXCEPT ![p] = @ \cup {e}]
      BY <2>1 DEF ReadAssignments
    <3> QED BY <3>1 DEF UnderWayTyped
  <2>2. CASE Refresh(p)
    <3>1. PICK e \in underWay[p] : underWay' = [underWay EXCEPT ![p] = @ \ {e}]
      BY <2>2 DEF Refresh
    <3> QED BY <3>1 DEF UnderWayTyped
  <2>3. CASE KillPod(p)
    BY <2>3 DEF KillPod, UnderWayTyped
  <2>4. ASSUME ~ReadAssignments(p), ~Refresh(p), ~KillPod(p) PROVE underWay' = underWay
    BY <1>1, <2>4
       DEF PodSteps, ResumePod, RegisterPod, LeavePod, UnregisterPod, ReportPod, StartEntity,
           EndEntity, RestartPod
  <2> QED BY <2>1, <2>2, <2>3, <2>4 DEF UnderWayTyped
<1>2. ASSUME NEW p \in Pods, ManagerSteps(p) PROVE underWay' = underWay
  BY <1>2 DEF ManagerSteps, DropPod, CallUnassignPod, CallAssignPod, FinishAssignPod
<1>3. ManagerAlone \/ CrashManager \/ UNCHANGED clusterVars => underWay' = underWay
  BY DEF ManagerAlone, CrashManager, clusterVars
<1> QED BY <1>1, <1>2, <1>3 DEF ClusterNext, UnderWayTyped

LEMMA ClusterInductive == ClusterSpec => [](ManagerInv /\ Kept)
<1>1. ManagerInv /\ Kept /\ [ClusterNext]_clusterVars => Kept'
  BY KeptNext
<1>2. ClusterSpec => [](IInv /\ CalledOnce)
  BY ClusterRunsShardManager, ManagerInductive, PTL
<1>3. ClusterInit => UnderWayTyped
  BY DEF ClusterInit, UnderWayTyped
<1>4. IInv /\ UnderWayTyped /\ [ClusterNext]_clusterVars => UnderWayTyped'
  BY UnderWayNext DEF IInv
<1>5. ManagerInv <=> IInv /\ CalledOnce /\ UnderWayTyped
  BY DEF ManagerInv
<1> QED BY <1>1, <1>2, <1>3, <1>4, <1>5, KeptInit, PTL DEF ClusterSpec
----------------------------------------------------------------------------
(* The theorems.                                                           *)

\* Every variable of the manager and of the pods stays within its type, through crashes,
\* restarts and lost calls.
THEOREM ClusterTypeCorrect == ClusterSpec => []ClusterTypeOK
<1>1. ManagerInv /\ Kept => ClusterTypeOK
  BY DEF ManagerInv, IInv, Kept, PodTypes, HistoryTypes, UnderWayTyped, ClusterTypeOK
<1> QED BY <1>1, ClusterInductive, PTL

\* A shard a pod holds is in the manager's table as its own, or is about to be, unless
\* the pod took or kept it without the manager.
THEOREM HeldShardsAreKnown == ClusterSpec => []HeldShardsKnown
<1>1. ManagerInv /\ Kept => HeldShardsKnown
  BY DEF Kept
<1> QED BY <1>1, ClusterInductive, PTL

\* No shard is held by two pods with the manager's knowledge.
LEMMA OneHolder ==
  ASSUME ManagerInv, Kept, NEW p \in Pods, NEW q \in Pods,
         NEW s \in Known(p), s \in Known(q)
  PROVE  p = q
<1> USE DEF ManagerInv, IInv, Kept
<1>1. /\ \/ state.shards[s] = p
         \/ job.phase = "assign" /\ p \in job.acked /\ s \in ToAssign(p)
      /\ \/ state.shards[s] = q
         \/ job.phase = "assign" /\ q \in job.acked /\ s \in ToAssign(q)
  BY HeldShards
<1>2. \A r \in {p, q} : (job.phase = "assign" /\ r \in job.acked /\ s \in ToAssign(r))
        => state.shards[s] = NoPod /\ job.plan[s] = r
  BY DEF PhaseContracts, ToAssign, GivenTo
<1> QED BY <1>1, <1>2

LEMMA KeptIsSafe ==
  ASSUME ManagerInv, Kept
  PROVE  SingleServer /\ SingletonOnce
<1>1. ASSUME NEW p \in Pods, NEW q \in Pods, NEW s \in Shards,
             p # q, Pod!Serves(p, s), Pod!Serves(q, s)
      PROVE  s \in stray[p] \cup stray[q]
  <2>1. s \in Pod!OwnShards(p) /\ s \in Pod!OwnShards(q)
    BY <1>1 DEF Pod!Serves, Pod!OwnShards
  <2> QED BY <1>1, <2>1, OneHolder DEF Known
<1>2. ASSUME NEW p \in Pods, NEW q \in Pods, p # q, singleton[p], singleton[q]
      PROVE  1 \in stray[p] \cup stray[q]
  <2>1. 1 \in Pod!OwnShards(p) /\ 1 \in Pod!OwnShards(q)
    BY <1>2 DEF Kept, PodTypes, SingletonWithShard, Pod!IsSingletonNode, Pod!OwnShards
  <2> QED BY <1>2, <2>1, OneHolder DEF Known
<1> QED BY <1>1, <1>2 DEF SingleServer, SingletonOnce

\* Two pods serve the same shard only if one of them took or kept it without the manager
\* knowing: the old pod of a rebalance has stopped before the new one starts.
THEOREM OneServer == ClusterSpec => []SingleServer
BY ClusterInductive, KeptIsSafe, PTL

\* The singleton runs in two pods only if one of them holds its shard without the
\* manager knowing.
THEOREM OneSingleton == ClusterSpec => []SingletonOnce
BY ClusterInductive, KeptIsSafe, PTL
----------------------------------------------------------------------------
(* The other direction: what the table says is held.                       *)

\* No pod died, no call failed and the manager did not restart.
Undisturbed == used["faults"] = 0 /\ used["deaths"] = 0 /\ used["restarts"] = 0

\* A pod that leaves is known to be leaving, and one that answered assign has the shards
\* unless it is leaving or has been.
AssignHeard ==
  /\ \A p \in Pods : leaving[p] => p \in departed
  /\ job.phase = "assign" =>
       \A p \in job.acked \ departed : ToAssign(p) \subseteq Pod!OwnShards(p)

TableHeld ==
  \A s \in Shards : \A p \in Pods :
    state.shards[s] = p =>
      \/ s \in Pod!OwnShards(p)
      \/ p \in departed
      \/ job.phase = "unassign" /\ p \in job.acked /\ s \in ToUnassign(p)

WhileUndisturbed == Undisturbed => AssignHeard /\ TableHeld

LEMMA TableHeldIs == TableIsHeld <=> (Undisturbed => TableHeld)
BY DEF TableIsHeld, TableHeld, Undisturbed, Pod!OwnShards

LEMMA TableHeldNext ==
  TableHeld' <=>
    \A s \in Shards : \A p \in Pods :
      state'.shards[s] = p =>
        \/ s \in Pod!OwnShards(p)'
        \/ p \in departed'
        \/ job'.phase = "unassign" /\ p \in job'.acked /\ s \in ToUnassign(p)'
BY DEF TableHeld

\* Faults, deaths and restarts are only ever added.
LEMMA UndisturbedBefore ==
  ASSUME TypeOK, [Next]_vars, Undisturbed'
  PROVE  Undisturbed /\ ~Crash /\ \A p \in Pods : ~PodDies(p) /\ (p \in alive => ~Fails(p))
<1> USE DEF Undisturbed, Spend, Bounded, TypeOK
<1>1. ASSUME NEW p \in Pods, p \in alive, Fails(p) PROVE FALSE
  BY <1>1 DEF Fails
<1>2. ASSUME NEW p \in Pods, PodDies(p) PROVE FALSE
  BY <1>2 DEF PodDies
<1>3. ASSUME Crash PROVE FALSE
  BY <1>3 DEF Crash
<1>4. ASSUME NEW p \in Pods, NEW v \in Versions, Register(p, v) PROVE Undisturbed
  BY <1>4 DEF Register
<1>5. ASSUME NEW p \in Pods, Answers(p) \/ Fails(p) PROVE Undisturbed
  BY <1>5 DEF Answers, Fails
<1>6. ASSUME Boot PROVE Undisturbed
  <2>1. PICK missed \in SUBSET (DOMAIN stored.pods \cap alive) :
          used' = [used EXCEPT !["faults"] = used["faults"] + Cardinality(missed)]
    BY <1>6 DEF Boot
  <2>2. Cardinality(missed) \in Nat
    BY PodsAssumption, FS_Subset, FS_CardinalityType
  <2> QED BY <2>1, <2>2
<1>7. ASSUME used' = used PROVE Undisturbed
  BY <1>7
<1>8. ASSUME NEW p \in Pods, Requests(p) \/ CheckHealth(p) \/ UnregisterDead(p) \/ PodCalls(p)
      PROVE  Undisturbed
  <2>1. \/ used' = used \/ Answers(p) \/ Fails(p)
        \/ \E v \in Versions : Register(p, v)
    BY <1>8 DEF Requests, Unregister, NotifyUnhealthyPod, CheckHealth, UnregisterDead,
                PodCalls, Ping, CallUnassign, CallAssign, FinishUnassign, FinishAssign
  <2> QED BY <1>4, <1>5, <1>7, <2>1
<1>9. ASSUME PhaseEnds \/ Starts \/ SavePods \/ SaveAssignments \/ UNCHANGED vars PROVE Undisturbed
  <2>1. used' = used
    BY <1>9 DEF PhaseEnds, PingsDone, UnassignsDone, AssignsDone, EndRun, Starts, StartUrgent,
                StartOfRegister, StartPeriodic, SavePods, SaveAssignments, vars
  <2> QED BY <1>7, <2>1
<1>10. ASSUME NEW p \in Pods, PodStarts(p) PROVE Undisturbed
  BY <1>7, <1>10 DEF PodStarts
<1> HIDE DEF Undisturbed, Spend, Bounded, TypeOK
<1> QED BY <1>1, <1>2, <1>3, <1>6, <1>8, <1>9, <1>10 DEF Next

\* Steps that take no shard from a pod, add none to the table, and leave the job alone.
LEMMA TableKept ==
  ASSUME TypeOK, AssignHeard, TableHeld, job' = job, departed \subseteq departed',
         \A q \in Pods : Pod!OwnShards(q) \subseteq Pod!OwnShards(q)',
         \A q \in Pods : leaving'[q] => leaving[q] \/ q \in departed',
         \A s \in Shards : state'.shards[s] \in {state.shards[s], NoPod}
  PROVE  AssignHeard' /\ TableHeld'
<1>1. \A p : ToUnassign(p)' = ToUnassign(p) /\ ToAssign(p)' = ToAssign(p)
  BY SameToUnassign, SameToAssign
<1>2. job.acked \subseteq Pods
  BY DEF TypeOK, JobType
<1>3. AssignHeard'
  <2>1. \A q \in Pods : leaving'[q] => q \in departed'
    BY DEF AssignHeard
  <2>2. ASSUME job'.phase = "assign", NEW p \in job'.acked \ departed'
        PROVE  ToAssign(p)' \subseteq Pod!OwnShards(p)'
    BY <1>1, <1>2, <2>2 DEF AssignHeard
  <2> QED BY <2>1, <2>2 DEF AssignHeard
<1>4. ASSUME NEW s \in Shards, NEW p \in Pods, state'.shards[s] = p
      PROVE  \/ s \in Pod!OwnShards(p)' \/ p \in departed'
             \/ job'.phase = "unassign" /\ p \in job'.acked /\ s \in ToUnassign(p)'
  BY <1>1, <1>4 DEF TableHeld
<1> QED BY <1>3, <1>4, TableHeldNext

LEMMA TablePodAlone ==
  ASSUME TypeOK, PodTypes, HistoryTypes, UnderWayTyped, AssignHeard, TableHeld,
         NEW p \in Pods, PodAlone(p), ~PodDies(p)
  PROVE  AssignHeard' /\ TableHeld'
<1>1. job' = job /\ state'.shards = state.shards
  BY PodAloneEffect
<1>2. CASE ResumePod(p)
  <2>1. /\ cache' = cache /\ leaving' = [leaving EXCEPT ![p] = FALSE] /\ departed' = departed
    BY <1>2 DEF ResumePod, Pod!Resume
  <2>2. \A q \in Pods : leaving'[q] => leaving[q]
    BY <2>1 DEF PodTypes, Pod!TypeOK
  <2>3. \A q \in Pods : Pod!OwnShards(q)' = Pod!OwnShards(q)
    BY <2>1 DEF Pod!OwnShards
  <2> QED BY <1>1, <2>1, <2>2, <2>3, TableKept
<1>3. CASE LeavePod(p)
  <2>1. /\ cache' = cache /\ leaving' = [leaving EXCEPT ![p] = TRUE]
        /\ departed' = departed \cup {p}
    BY <1>3 DEF LeavePod, Pod!BeginLeaving
  <2>2. \A q \in Pods : leaving'[q] => leaving[q] \/ q \in departed'
    BY <2>1 DEF PodTypes, Pod!TypeOK
  <2>3. \A q \in Pods : Pod!OwnShards(q)' = Pod!OwnShards(q)
    BY <2>1 DEF Pod!OwnShards
  <2> QED BY <1>1, <2>1, <2>2, <2>3, TableKept
<1>4. CASE Refresh(p)
  <2>1. PICK e \in underWay[p] :
          Pod!RefreshFromManager(p, e.map) \/ Pod!RefreshFromStorage(p, e.map)
    BY <1>4 DEF Refresh
  <2>2. /\ Pod!OwnShards(p) \subseteq Pod!OwnShards(p)'
        /\ \A q \in Pods \ {p} : Pod!OwnShards(q)' = Pod!OwnShards(q)
    <3>1. e.map \in ShardMaps
      BY <2>1 DEF UnderWayTyped, Elements
    <3> QED BY <2>1, <3>1, RefreshOwns
  <2>3. leaving' = leaving /\ departed' = departed
    BY <1>4 DEF Refresh, Pod!RefreshFromManager, Pod!RefreshFromStorage
  <2> QED BY <1>1, <2>2, <2>3, TableKept
<1>5. CASE \E s \in Shards : StartEntity(p, s) \/ EndEntity(p, s)
  <2>1. PICK s \in Shards : StartEntity(p, s) \/ EndEntity(p, s)
    BY <1>5
  <2>2. Pod!EntityStarts(p, s) \/ Pod!EntityEnds(p, s)
    BY <2>1 DEF StartEntity, EndEntity
  <2>3. departed' = departed
    BY <2>1 DEF StartEntity, EndEntity
  <2>4. cache' = cache /\ leaving' = leaving
    BY <2>2 DEF Pod!EntityStarts, Pod!EntityEnds
  <2> QED BY <1>1, <2>3, <2>4, TableKept DEF Pod!OwnShards
<1>6. CASE \/ \E v \in Versions : RegisterPod(p, v)
           \/ ReportPod(p) \/ ReadAssignments(p) \/ RestartPod(p)
  <2>1. UNCHANGED <<podVars, departed>>
    BY <1>6 DEF RegisterPod, ReportPod, ReadAssignments, RestartPod
  <2>2. cache' = cache /\ leaving' = leaving /\ departed' = departed
    BY <2>1 DEF podVars
  <2> QED BY <1>1, <2>2, TableKept DEF Pod!OwnShards
<1>7. ~KillPod(p)
  BY DEF KillPod
<1> QED BY <1>2, <1>3, <1>4, <1>5, <1>6, <1>7 DEF PodAlone

\* Losing a pod, and the other steps that leave the pods and the job alone.
LEMMA TablePodsAlone ==
  ASSUME TypeOK, AssignHeard, TableHeld, UNCHANGED <<podVars, departed>>, job' = job,
         \A s \in Shards : state'.shards[s] \in {state.shards[s], NoPod}
  PROVE  AssignHeard' /\ TableHeld'
<1>1. cache' = cache /\ leaving' = leaving /\ departed' = departed
  BY DEF podVars
<1> QED BY <1>1, TableKept DEF Pod!OwnShards

LEMMA TableCallUnassign ==
  ASSUME ManagerInv, Kept, AssignHeard, TableHeld, NEW p \in Pods, CallUnassignPod(p),
         p \in alive => ~Fails(p)
  PROVE  AssignHeard' /\ TableHeld'
<1> USE DEF ManagerInv, IInv, Kept
<1>1. /\ CallUnassign(p) /\ departed' = departed
      /\ \/ p \in alive /\ Pod!Unassign(p, ToUnassign(p))
         \/ p \in job'.unassignFailed /\ UNCHANGED <<podVars, stray>>
  BY DEF CallUnassignPod
<1>2. /\ job.phase = "unassign" /\ p \in job.todo /\ state' = state
      /\ \/ Answers(p) /\ job' = [job EXCEPT !.todo = @ \ {p}, !.acked = @ \cup {p}]
         \/ Fails(p) /\ job' = [job EXCEPT !.todo = @ \ {p}, !.unassignFailed = @ \cup {p}]
  BY <1>1 DEF CallUnassign
<1>3. /\ job'.phase = job.phase /\ job'.plan = job.plan /\ job'.old = job.old
      /\ job'.pingFailed = job.pingFailed /\ job.acked \subseteq job'.acked
      /\ Answers(p) => p \in job'.acked
  BY <1>1, <1>2, Answered, UnassignFailed, ZenonT(60) DEF TypeOK, Answers
<1>4. \A q : ToUnassign(q)' = ToUnassign(q)
  BY <1>3, SameToUnassign
<1>5. leaving' = leaving
  BY <1>1 DEF podVars, Pod!Unassign
<1>6. /\ \A q \in Pods \ {p} : Pod!OwnShards(q)' = Pod!OwnShards(q)
      /\ \/ Pod!OwnShards(p)' = Pod!OwnShards(p)
         \/ p \in job'.acked /\ Pod!OwnShards(p)' = Pod!OwnShards(p) \ ToUnassign(p)
  <2>1. CASE p \in alive /\ Pod!Unassign(p, ToUnassign(p))
    <3>1. p \in job'.acked
      BY <1>2, <1>3, <2>1
    <3>2. /\ Pod!OwnShards(p)' = Pod!OwnShards(p) \ ToUnassign(p)
          /\ \A q \in Pods \ {p} : Pod!OwnShards(q)' = Pod!OwnShards(q)
      BY <2>1, CallShards, UnassignOwns
    <3> QED BY <3>1, <3>2
  <2>2. CASE UNCHANGED <<podVars, stray>>
    BY <2>2 DEF podVars, Pod!OwnShards
  <2> QED BY <1>1, <2>1, <2>2
<1>7. AssignHeard'
  BY <1>1, <1>2, <1>3, <1>5 DEF AssignHeard
<1>8. ASSUME NEW s \in Shards, NEW q \in Pods, state'.shards[s] = q
      PROVE  \/ s \in Pod!OwnShards(q)' \/ q \in departed'
             \/ job'.phase = "unassign" /\ q \in job'.acked /\ s \in ToUnassign(q)'
  <2>1. \/ s \in Pod!OwnShards(q) \/ q \in departed
        \/ q \in job.acked /\ s \in ToUnassign(q)
    BY <1>2, <1>8 DEF TableHeld
  <2> QED BY <1>1, <1>2, <1>3, <1>4, <1>6, <2>1
<1> QED BY <1>7, <1>8, TableHeldNext

LEMMA TableCallAssign ==
  ASSUME ManagerInv, Kept, AssignHeard, TableHeld, NEW p \in Pods, CallAssignPod(p),
         p \in alive => ~Fails(p)
  PROVE  AssignHeard' /\ TableHeld'
<1> USE DEF ManagerInv, IInv, Kept
<1>1. CallAssign(p) /\ departed' = departed
  BY DEF CallAssignPod
<1>2. /\ job.phase = "assign" /\ p \in job.todo /\ state' = state
      /\ \/ Answers(p) /\ job' = [job EXCEPT !.todo = @ \ {p}, !.acked = @ \cup {p}]
         \/ Fails(p) /\ job' = [job EXCEPT !.todo = @ \ {p}, !.assignFailed = @ \cup {p}]
  BY <1>1 DEF CallAssign
<1>3. p \notin job.acked /\ p \notin job.assignFailed
  BY <1>2 DEF CalledOnce, PhaseContracts
<1>4. /\ job'.phase = job.phase /\ job'.plan = job.plan /\ job'.old = job.old
      /\ job'.pingFailed = job.pingFailed /\ job'.unassignFailed = job.unassignFailed
      /\ \/ /\ Answers(p) /\ job'.acked = job.acked \cup {p}
            /\ job'.assignFailed = job.assignFailed
         \/ Fails(p) /\ job'.acked = job.acked
  <2>1. job \in JobType
    BY DEF TypeOK
  <2> QED BY <1>2, <2>1 DEF JobType
<1>5. \A q : ToAssign(q)' = ToAssign(q)
  BY <1>4, SameToAssign
<1>6. leaving' = leaving
  BY DEF CallAssignPod, podVars, Pod!Assign
<1>7. /\ \A q \in Pods : Pod!OwnShards(q) \subseteq Pod!OwnShards(q)'
      /\ p \in job'.acked \ departed => ToAssign(p) \subseteq Pod!OwnShards(p)'
  <2>1. CASE Pod!Assign(p, ToAssign(p))
    <3>1. /\ Pod!OwnShards(p)' = IF leaving[p] THEN Pod!OwnShards(p)
                                 ELSE Pod!OwnShards(p) \cup ToAssign(p)
          /\ \A q \in Pods \ {p} : Pod!OwnShards(q)' = Pod!OwnShards(q)
      BY <2>1, CallShards, AssignOwns
    <3> QED BY <3>1 DEF AssignHeard
  <2>2. CASE p \in job'.assignFailed /\ UNCHANGED <<podVars, stray>>
    <3>1. p \notin job'.acked
      BY <1>3, <1>4, <2>2
    <3> QED BY <2>2, <3>1 DEF podVars, Pod!OwnShards
  <2> QED BY <2>1, <2>2 DEF CallAssignPod
<1>8. job.acked \subseteq Pods /\ job'.acked \subseteq job.acked \cup {p}
  BY <1>4 DEF TypeOK, JobType
<1>9. AssignHeard'
  <2>1. \A q \in Pods : leaving'[q] => q \in departed'
    BY <1>1, <1>6 DEF AssignHeard
  <2>2. ASSUME NEW q \in job'.acked \ departed' PROVE ToAssign(q)' \subseteq Pod!OwnShards(q)'
    BY <1>1, <1>2, <1>5, <1>7, <1>8, <2>2 DEF AssignHeard
  <2> QED BY <2>1, <2>2 DEF AssignHeard
<1>10. ASSUME NEW s \in Shards, NEW q \in Pods, state'.shards[s] = q
       PROVE  s \in Pod!OwnShards(q)' \/ q \in departed'
  BY <1>1, <1>2, <1>7, <1>10 DEF TableHeld
<1> QED BY <1>9, <1>10, TableHeldNext
----------------------------------------------------------------------------
\* The table takes up the shards of a call: a pod that is not leaving took them then.
LEMMA TableFinishAssign ==
  ASSUME ManagerInv, Kept, AssignHeard, TableHeld, NEW p \in Pods, FinishAssignPod(p)
  PROVE  AssignHeard' /\ TableHeld'
<1> USE DEF ManagerInv, IInv, Kept
<1>1. FinishAssign(p) /\ UNCHANGED <<podVars, departed>>
  BY DEF FinishAssignPod
<1>2. /\ leaving' = leaving /\ departed' = departed
      /\ \A q \in Pods : Pod!OwnShards(q)' = Pod!OwnShards(q)
  BY <1>1 DEF podVars, Pod!OwnShards
<1>3. /\ job.phase = "assign" /\ p \in job.acked
      /\ \/ job' = [job EXCEPT !.acked = @ \ {p}]
         \/ job' = [job EXCEPT !.acked = @ \ {p}, !.assignFailed = @ \cup {p}]
  BY <1>1 DEF FinishAssign
<1>4. /\ job'.phase = job.phase /\ job'.plan = job.plan /\ job'.old = job.old
      /\ job'.pingFailed = job.pingFailed /\ job'.unassignFailed = job.unassignFailed
      /\ job'.acked = job.acked \ {p}
  <2>1. job \in JobType
    BY DEF TypeOK
  <2> QED BY <1>3, <2>1 DEF JobType
<1>5. \A q : ToAssign(q)' = ToAssign(q)
  BY <1>4, SameToAssign
<1>6. \A s \in Shards :
        \/ state'.shards[s] = state.shards[s]
        \/ s \in ToAssign(p) /\ state'.shards[s] = p
  <2>1. SetShards(ToAssign(p), p).shards =
          [s \in Shards |-> IF s \in ToAssign(p) THEN p ELSE state.shards[s]]
    BY CallShards, SetShardsType DEF TypeOK, PodOpt
  <2> QED BY <1>1, <2>1 DEF FinishAssign
<1>7. job.acked \subseteq Pods
  BY DEF TypeOK, JobType
<1>8. AssignHeard'
  <2>1. \A q \in Pods : leaving'[q] => q \in departed'
    BY <1>2 DEF AssignHeard
  <2>2. ASSUME NEW q \in job'.acked \ departed' PROVE ToAssign(q)' \subseteq Pod!OwnShards(q)'
    BY <1>2, <1>3, <1>4, <1>5, <1>7, <2>2 DEF AssignHeard
  <2> QED BY <2>1, <2>2 DEF AssignHeard
<1>9. ASSUME NEW s \in Shards, NEW q \in Pods, state'.shards[s] = q
      PROVE  s \in Pod!OwnShards(q)' \/ q \in departed'
  <2>1. CASE state'.shards[s] = state.shards[s]
    BY <1>2, <1>3, <1>9, <2>1 DEF TableHeld
  <2>2. CASE s \in ToAssign(p) /\ q = p
    BY <1>2, <1>3, <2>2 DEF AssignHeard
  <2> QED BY <1>6, <1>9, <2>1, <2>2
<1> QED BY <1>8, <1>9, TableHeldNext

\* The end of an unassignment takes the shards out of the table.
LEMMA TableFinishUnassign ==
  ASSUME ManagerInv, Kept, AssignHeard, TableHeld, NEW p \in Pods, FinishUnassign(p),
         UNCHANGED <<podVars, departed>>
  PROVE  AssignHeard' /\ TableHeld'
<1> USE DEF ManagerInv, IInv, Kept
<1>1. /\ leaving' = leaving /\ departed' = departed
      /\ \A q \in Pods : Pod!OwnShards(q)' = Pod!OwnShards(q)
  BY DEF podVars, Pod!OwnShards
<1>2. /\ job.phase = "unassign" /\ job' = [job EXCEPT !.acked = @ \ {p}]
      /\ state' = SetShards(ToUnassign(p), NoPod)
  BY DEF FinishUnassign
<1>3. /\ job'.phase = "unassign" /\ job'.plan = job.plan /\ job'.old = job.old
      /\ job'.pingFailed = job.pingFailed /\ job'.acked = job.acked \ {p}
  BY <1>2 DEF TypeOK, JobType
<1>4. \A q : ToUnassign(q)' = ToUnassign(q)
  BY <1>3, SameToUnassign
<1>5. \A s \in Shards :
        state'.shards[s] = IF s \in ToUnassign(p) THEN NoPod ELSE state.shards[s]
  <2>1. SetShards(ToUnassign(p), NoPod).shards =
          [s \in Shards |-> IF s \in ToUnassign(p) THEN NoPod ELSE state.shards[s]]
    BY CallShards, SetShardsType DEF TypeOK, PodOpt
  <2> QED BY <1>2, <2>1
<1>6. AssignHeard'
  BY <1>1, <1>3 DEF AssignHeard
<1>7. ASSUME NEW s \in Shards, NEW q \in Pods, state'.shards[s] = q
      PROVE  \/ s \in Pod!OwnShards(q)' \/ q \in departed'
             \/ job'.phase = "unassign" /\ q \in job'.acked /\ s \in ToUnassign(q)'
  <2>1. s \notin ToUnassign(p) /\ state.shards[s] = q
    BY <1>5, <1>7
  <2> QED BY <1>1, <1>3, <1>4, <2>1 DEF TableHeld
<1> QED BY <1>6, <1>7, TableHeldNext

LEMMA TableManagerAlone ==
  ASSUME ManagerInv, Kept, AssignHeard, TableHeld, ManagerAlone
  PROVE  AssignHeard' /\ TableHeld'
<1> USE DEF ManagerInv, IInv, Kept
<1>1. UNCHANGED <<podVars, departed>>
  BY DEF ManagerAlone
<1>2. /\ leaving' = leaving /\ departed' = departed
      /\ \A q \in Pods : Pod!OwnShards(q)' = Pod!OwnShards(q)
  BY <1>1 DEF podVars, Pod!OwnShards
<1>3. ASSUME NEW p \in Pods, CheckHealth(p) PROVE AssignHeard' /\ TableHeld'
  <2>1. job' = job /\ state' = state
    BY <1>3 DEF CheckHealth
  <2> QED BY <1>1, <2>1, TablePodsAlone
<1>4. CASE SavePods \/ SaveAssignments
  <2>1. job' = job /\ state' = state
    BY <1>4 DEF SavePods, SaveAssignments
  <2> QED BY <1>1, <2>1, TablePodsAlone
\* A phase in which no call is under way begins, or a call of ping ends.
<1>5. ASSUME state' = state, job.phase # "unassign" \/ job.acked = {},
             job'.phase # "assign" \/ job'.acked = {}
      PROVE  AssignHeard' /\ TableHeld'
  <2>1. AssignHeard'
    BY <1>2, <1>5 DEF AssignHeard
  <2>2. TableHeld'
    BY <1>2, <1>5, TableHeldNext DEF TableHeld
  <2> QED BY <2>1, <2>2
<1>6. job \in JobType
  BY DEF TypeOK
<1>7. ASSUME NEW p \in Pods, Ping(p) PROVE AssignHeard' /\ TableHeld'
  <2>1. job.phase = "ping" /\ job'.phase = "ping" /\ state' = state
    BY <1>6, <1>7 DEF Ping, JobType
  <2> QED BY <1>5, <2>1
<1>8. CASE PhaseEnds
  <2>1. CASE PingsDone
    <3>1. job.phase = "ping" /\ job'.phase = "unassign" /\ state' = state
      BY <1>6, <2>1 DEF PingsDone, JobType
    <3> QED BY <1>5, <3>1
  <2>2. CASE UnassignsDone
    <3>1. job.acked = {} /\ job'.acked = {} /\ state' = state
      BY <1>6, <2>2 DEF UnassignsDone, JobType
    <3> QED BY <1>5, <3>1
  <2>3. CASE AssignsDone
    <3>1. job.phase = "assign" /\ job'.phase = "idle" /\ state' = state
      BY <2>3 DEF AssignsDone, EndRun, Idle
    <3> QED BY <1>5, <3>1
  <2> QED BY <1>8, <2>1, <2>2, <2>3 DEF PhaseEnds
<1>9. CASE StartUrgent \/ StartOfRegister \/ StartPeriodic
  <2>1. /\ job.phase = "idle" /\ state' = state
        /\ \/ Begin(state, "urgent", TRUE)
           \/ Begin(state, "register", FALSE)
           \/ Begin(state, "periodic", FALSE)
    BY <1>9 DEF StartUrgent, StartOfRegister, StartPeriodic
  <2>2. job'.phase = "ping"
    BY <2>1 DEF Begin, Idle
  <2> QED BY <1>5, <2>1, <2>2
<1>10. CASE Boot
  <2>1. state'.shards = Stay /\ \E st, now : Begin(st, "boot", now)
    BY <1>10, BootState
  <2>2. job'.phase = "ping"
    BY <2>1 DEF Begin, Idle
  <2>3. AssignHeard'
    BY <1>2, <2>2 DEF AssignHeard
  <2>4. TableHeld'
    BY <2>1, TableHeldNext DEF Stay
  <2> QED BY <2>3, <2>4
<1>11. ASSUME NEW p \in Pods, FinishUnassign(p) PROVE AssignHeard' /\ TableHeld'
  BY <1>1, <1>11, TableFinishUnassign
<1> QED BY <1>3, <1>4, <1>7, <1>8, <1>9, <1>10, <1>11 DEF ManagerAlone

LEMMA TableNext ==
  ASSUME ManagerInv, Kept, WhileUndisturbed, [ClusterNext]_clusterVars
  PROVE  WhileUndisturbed'
<1> SUFFICES ASSUME Undisturbed' PROVE AssignHeard' /\ TableHeld'
  BY DEF WhileUndisturbed
<1> USE DEF ManagerInv, IInv, Kept
<1>1. Undisturbed /\ ~Crash /\ \A p \in Pods : ~PodDies(p) /\ (p \in alive => ~Fails(p))
  BY ManagerStep, UndisturbedBefore
<1>2. AssignHeard /\ TableHeld
  BY <1>1 DEF WhileUndisturbed
<1>3. ASSUME NEW p \in Pods, PodSteps(p) PROVE AssignHeard' /\ TableHeld'
  <2>1. PodAlone(p) \/ UnregisterPod(p)
    BY <1>3 DEF PodSteps, PodAlone
  <2>2. CASE PodAlone(p)
    BY <1>1, <1>2, <2>2, TablePodAlone
  <2>3. CASE UnregisterPod(p)
    <3>1. Drop(p) /\ job' = job /\ UNCHANGED <<podVars, departed>>
      BY <2>3 DEF UnregisterPod, Unregister
    <3>2. state'.shards =
            [s \in Shards |-> IF state.shards[s] = p THEN NoPod ELSE state.shards[s]]
      BY <3>1, DropType DEF TypeOK
    <3>3. \A s \in Shards : state'.shards[s] \in {state.shards[s], NoPod}
      BY <3>2
    <3> QED BY <1>2, <3>1, <3>3, TablePodsAlone
  <2> QED BY <2>1, <2>2, <2>3
<1>4. ASSUME NEW p \in Pods, DropPod(p) PROVE AssignHeard' /\ TableHeld'
  <2>1. (Drop(p) \/ state' = state) /\ job' = job /\ UNCHANGED <<podVars, departed>>
    BY <1>4 DEF DropPod, UnregisterDead
  <2>2. \A s \in Shards : state'.shards[s] \in {state.shards[s], NoPod}
    <3>1. CASE Drop(p)
      <4>1. state'.shards =
              [s \in Shards |-> IF state.shards[s] = p THEN NoPod ELSE state.shards[s]]
        BY <3>1, DropType DEF TypeOK
      <4> QED BY <4>1
    <3> QED BY <2>1, <3>1
  <2> QED BY <1>2, <2>1, <2>2, TablePodsAlone
<1>5. ASSUME NEW p \in Pods, ManagerSteps(p) PROVE AssignHeard' /\ TableHeld'
  BY <1>1, <1>2, <1>4, <1>5, TableCallUnassign, TableCallAssign, TableFinishAssign
     DEF ManagerSteps
<1>6. ~CrashManager
  BY <1>1 DEF CrashManager
<1>7. CASE UNCHANGED clusterVars
  <2>1. job' = job /\ state' = state /\ UNCHANGED <<podVars, departed>>
    BY <1>7 DEF clusterVars, vars, managerVars
  <2> QED BY <1>2, <2>1, TablePodsAlone
<1> QED BY <1>2, <1>3, <1>5, <1>6, <1>7, TableManagerAlone DEF ClusterNext

\* As long as no pod died, no call failed and the manager did not restart, a shard in the
\* table is held by its pod, except while it is taken away or if the pod has been leaving.
THEOREM TableHeldByPods == ClusterSpec => []TableIsHeld
<1>1. ClusterInit => WhileUndisturbed
  <2> SUFFICES ASSUME ClusterInit PROVE AssignHeard /\ TableHeld
    BY DEF WhileUndisturbed
  <2>1. state.shards = Stay
    BY NoneType, MakeType DEF ClusterInit, Init
  <2>2. job.phase = "idle" /\ leaving = [p \in Pods |-> FALSE]
    BY DEF ClusterInit, Init, Idle, Pod!Init
  <2> QED BY <2>1, <2>2 DEF AssignHeard, TableHeld, Stay
<1>2. ManagerInv /\ Kept /\ WhileUndisturbed /\ [ClusterNext]_clusterVars => WhileUndisturbed'
  BY TableNext
<1>3. WhileUndisturbed => TableIsHeld
  BY TableHeldIs DEF WhileUndisturbed
<1> QED BY <1>1, <1>2, <1>3, ClusterInductive, PTL DEF ClusterSpec

\* The manager of the cluster keeps its promises: what each phase of a rebalance relies
\* on holds,
THEOREM ClusterContracts == ClusterSpec => []PhaseContracts
BY ClusterRunsShardManager, ContractsHold, PTL

\* a shard is only given away after its old pod has let go of it, in this rebalance,
THEOREM ClusterOnlyReleasedMove == ClusterSpec => OnlyReleasedShardsMove
BY ClusterRunsShardManager, OnlyReleasedMove, PTL

\* and no step takes a shard from one pod and gives it to another.
THEOREM ClusterImplementsOwnership == ClusterSpec => ImplementsOwnership
BY ClusterRunsShardManager, OwnershipImplemented, PTL
----------------------------------------------------------------------------
(* A cluster that has settled is a state the invariant allows: what is     *)
(* proved of ClusterSpec also holds from there.                            *)

LEMMA SettledStart == SettledInit => ManagerInv /\ Kept /\ WhileUndisturbed
<1> SUFFICES ASSUME SettledInit PROVE ManagerInv /\ Kept /\ WhileUndisturbed
  OBVIOUS
<1> DEFINE All(p) == [s \in Shards |-> p]
<1>1. PICK p \in Pods, v \in Versions :
        /\ status = "up"
        /\ state = [Make(Put(NoPods, p, v), Stay) EXCEPT !.shards = All(p)]
        /\ job = Idle /\ waiting = NoRequest
        /\ suspects = {} /\ condemned = {} /\ saving = {}
        /\ stored = [pods |-> Put(NoPods, p, v), shards |-> All(p)]
        /\ alive = Pods
        /\ used = [what \in Bounded |-> IF what = "registers" THEN 1 ELSE 0]
        /\ cache     = [q \in Pods |-> IF q = p THEN All(p) ELSE Pod!NoEntries]
        /\ leaving   = [q \in Pods |-> FALSE]
        /\ singleton = [q \in Pods |-> q = p /\ 1 \in Shards]
        /\ entities  = [q \in Pods |-> {}]
        /\ underWay  = [q \in Pods |-> {}]
        /\ stray     = [q \in Pods |-> {}]
        /\ departed  = {}
  BY DEF SettledInit, SettledOn
<1>2. Put(NoPods, p, v) \in PodMaps /\ p \in DOMAIN Put(NoPods, p, v)
  BY NoneType, PutType DEF Put
<1>3. All(p) \in ShardMaps
  BY DEF ShardMaps, PodOpt
<1>4. state \in StateType /\ state.pods = Put(NoPods, p, v) /\ state.shards = All(p)
  <2>1. /\ Make(Put(NoPods, p, v), Stay) \in StateType
        /\ Make(Put(NoPods, p, v), Stay).pods = Put(NoPods, p, v)
    BY <1>2, NoneType, MakeType
  <2> DEFINE made == Make(Put(NoPods, p, v), Stay)
  <2>2. state = [made EXCEPT !.shards = All(p)] /\ made \in StateType
    BY <1>1, <2>1
  <2> HIDE DEF made, All
  <2>3. state \in StateType /\ state.pods = made.pods /\ state.shards = All(p)
    BY <1>3, <2>2 DEF StateType
  <2> QED BY <2>1, <2>3 DEF made
<1>5. job \in JobType /\ job.phase = "idle" /\ job.todo = {} /\ job.acked = {}
  BY <1>1, NoneType DEF Idle, JobType, Phases, Kinds
<1>6. used \in [Bounded -> Nat] /\ waiting \in [urgent : Nat, register : Nat]
  BY <1>1 DEF NoRequest
<1>7. stored \in [pods : PodMaps, shards : ShardMaps]
  BY <1>1, <1>2, <1>3
<1>8. TypeOK
  BY <1>1, <1>4, <1>5, <1>6, <1>7 DEF TypeOK
<1>9. AssignedPodsRegistered /\ PhaseContracts /\ CalledOnce
  BY <1>2, <1>4, <1>5 DEF AssignedPodsRegistered, Registered, PhaseContracts, CalledOnce
<1>10. PodTypes /\ HistoryTypes /\ UnderWayTyped
  BY <1>1, <1>3 DEF PodTypes, Pod!TypeOK, Pod!Assignments, Pod!NoEntries, PodOpt, ShardMaps,
                    SingletonWithShard, Pod!IsSingletonNode, HistoryTypes, UnderWayTyped
<1>11. /\ \A q \in Pods \ {p} : Known(q) = {}
       /\ \A s \in Shards : state.shards[s] = p /\ s \in Pod!OwnShards(p)
  BY <1>1, <1>4 DEF Known, Pod!OwnShards, Pod!NoEntries
<1>12. HeldShardsKnown
  BY <1>11, HeldShards, KnownShards
<1>13. UnassignHeard /\ NothingWhileDown
  BY <1>1, <1>5 DEF UnassignHeard, NothingWhileDown
<1>14. AssignHeard /\ TableHeld
  BY <1>1, <1>5, <1>11 DEF AssignHeard, TableHeld
<1> QED BY <1>8, <1>9, <1>10, <1>12, <1>13, <1>14
        DEF ManagerInv, IInv, Kept, WhileUndisturbed

\* Two pods serve a shard, or run the singleton, only if one of them took or kept the
\* shard without the manager knowing, the table is true of the pods while nothing
\* fails, and the phases of a rebalance can rely on each other, in a cluster of any
\* size that has settled on one pod before.
THEOREM SettledSafe ==
  SettledSpec => [](SingleServer /\ SingletonOnce /\ TableIsHeld /\ PhaseContracts)
<1> DEFINE J == ManagerInv /\ Kept /\ WhileUndisturbed
<1>1. J /\ [ClusterNext]_clusterVars => J'
  <2> SUFFICES ASSUME J, [ClusterNext]_clusterVars PROVE J'
    OBVIOUS
  <2>1. [Next]_vars
    BY ManagerStep
  <2>2. ManagerInv'
    BY <2>1, TypeNext, RegisteredNext, ContractsNext, CalledOnceNext, UnderWayNext
       DEF ManagerInv, IInv
  <2> QED BY <2>2, KeptNext, TableNext
<1>2. J => SingleServer /\ SingletonOnce /\ TableIsHeld /\ PhaseContracts
  BY KeptIsSafe, TableHeldIs DEF ManagerInv, IInv, WhileUndisturbed
<1> HIDE DEF J
<1>3. SettledInit => J
  BY SettledStart DEF J
<1> QED BY <1>1, <1>2, <1>3, PTL DEF SettledSpec

\* The manager of such a cluster implements ShardOwnership from there on: no shard goes from
\* one pod to another directly.
THEOREM SettledImplementsOwnership == SettledSpec => ImplementsOwnership
<1>1. ManagerInv /\ [ClusterNext]_clusterVars => ManagerInv'
  <2> SUFFICES ASSUME ManagerInv, [ClusterNext]_clusterVars PROVE ManagerInv'
    OBVIOUS
  <2>1. [Next]_vars
    BY ManagerStep
  <2> QED BY <2>1, TypeNext, RegisteredNext, ContractsNext, CalledOnceNext, UnderWayNext
             DEF ManagerInv, IInv
<1>2. ManagerInv /\ [ClusterNext]_clusterVars => [Ownership!Next]_(Ownership!vars)
  BY ManagerStep, OwnershipStep DEF ManagerInv
<1>3. SettledInit => ManagerInv
  BY SettledStart
<1>4. ManagerInv => Ownership!Init
  <2> SUFFICES ASSUME ManagerInv PROVE Ownership!Init
    OBVIOUS
  <2>1. state.pods \in PodMaps /\ state.shards \in ShardMaps
    BY DEF ManagerInv, IInv, TypeOK, StateType
  <2>2. DOMAIN state.pods \subseteq Pods
    BY <2>1 DEF PodMaps
  <2>3. \A s \in Shards : state.shards[s] \in DOMAIN state.pods \cup {NoPod}
    BY <2>1 DEF ManagerInv, IInv, AssignedPodsRegistered, Registered, ShardMaps, PodOpt, Has
  <2> QED BY <2>1, <2>2, <2>3 DEF Ownership!Init, ShardMaps
<1> QED BY <1>1, <1>2, <1>3, <1>4, PTL DEF SettledSpec, ImplementsOwnership, Ownership!Spec
=============================================================================
