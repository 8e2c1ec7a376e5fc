---------------------------- MODULE ShardManager ----------------------------
(***************************************************************************)
(* The Shard Manager service (shardManager.ts): registration of pods,      *)
(* health checks, the rebalance with its three rounds of calls to pods,    *)
(* and the persistence of what it knows.                                   *)
(*                                                                         *)
(* Every change of the manager's state is one atomic update of a           *)
(* RefSynchronized.  What runs concurrently are fibers: the rebalance that *)
(* holds the semaphore (`job`), the rebalances that wait for it, the       *)
(* health checks, the saves, and the requests of pods.  Inside a phase of  *)
(* a rebalance the calls to the pods are concurrent.                       *)
(*                                                                         *)
(* The pods are the environment: they start, die, register and answer.     *)
(***************************************************************************)
EXTENDS Rebalance

CONSTANTS
    MaxRegisters,   \* bound: how often pods register
    MaxDeaths,      \* bound: how often a pod dies
    MaxFaults,      \* bound: how often a live pod seems unavailable
    MaxRestarts     \* bound: how often the manager restarts

ASSUME BoundsAssumption ==
  /\ MaxRegisters \in Nat /\ MaxDeaths \in Nat
  /\ MaxFaults \in Nat    /\ MaxRestarts \in Nat

VARIABLES
    status,     \* "down", "booting" (the layer is being built) or "up"
    state,      \* stateRef
    job,        \* the rebalance that holds rebalanceSemaphore
    waiting,    \* rebalances that wait for it: urgent ones and those of register
    suspects,   \* pods with a notifyUnhealthyPod that has not checked them yet
    condemned,  \* pods found dead whose unregister has not run yet
    saving,     \* forked saves that have not run yet: "pods", "assignments"
    stored,     \* external: the Storage
    alive,      \* external: the pods whose process runs
    used        \* how much of each bound is used up

managerVars == <<status, state, job, waiting, suspects, condemned, saving>>
vars == <<managerVars, stored, alive, used>>

Registered == DOMAIN state.pods
----------------------------------------------------------------------------
(* The rebalance job.                                                      *)

Phases == {"idle", "ping", "unassign", "assign"}
Kinds  == {"boot", "register", "urgent", "periodic"}

Idle == [phase |-> "idle", kind |-> "periodic", immediately |-> FALSE,
         plan |-> Stay, old |-> Stay, todo |-> {}, acked |-> {},
         pingFailed |-> {}, unassignFailed |-> {}, assignFailed |-> {}]

JobType ==
  [phase : Phases, kind : Kinds, immediately : BOOLEAN,
   plan : ShardMaps, old : ShardMaps, todo : SUBSET Pods, acked : SUBSET Pods,
   pingFailed : SUBSET Pods, unassignFailed : SUBSET Pods, assignFailed : SUBSET Pods]

\* Mutant: only the shards that go to a pod that failed its ping.
RemovedTargets == {s \in Moved(job.plan) : job.plan[s] \in job.pingFailed}

\* shardsToRemove: the shards that would come from or go to a pod that failed its ping.
Removed ==
  {s \in Moved(job.plan) : job.plan[s] \in job.pingFailed \/ job.old[s] \in job.pingFailed}

\* readyUnassignments
ToUnassign(p) == TakenFrom(job.plan, job.old, p) \ Removed

\* Mutant: failed unassignments are not remembered.
UnreleasedForgotten == {}

\* failedUnassignedShards
Unreleased == UNION {ToUnassign(p) : p \in job.unassignFailed}

\* readyAssignments without the pods, and filteredAssignments without the shards,
\* of the unassignments that failed.  A pod may be left with no shard to assign.
ToAssign(p) == (GivenTo(job.plan, p) \ Removed) \ Unreleased
AssignPods  == {p \in Pods : GivenTo(job.plan, p) \ Removed # {}} \ job.unassignFailed

FailedPods == job.pingFailed \cup job.unassignFailed \cup job.assignFailed

\* The snapshot, the decision, and the pods to ping.
Begin(st, kind, immediately) ==
  \E plan \in {Decide(st, immediately)} :
     job' = [Idle EXCEPT !.phase = "ping", !.kind = kind, !.immediately = immediately,
                         !.plan = plan, !.old = st.shards,
                         !.todo = Targets(plan) \cup Sources(plan, st.shards)]

Bounded     == {"registers", "deaths", "faults", "restarts"}
Spend(what) == used' = [used EXCEPT ![what] = @ + 1]

\* A call to p fails when p is dead; a live pod may miss one (a timeout, a lost
\* request or answer, a defect turned into PodUnavailable).
Answers(p) == p \in alive /\ UNCHANGED used
Fails(p) ==
  \/ p \notin alive /\ UNCHANGED used
  \/ p \in alive /\ used["faults"] < MaxFaults /\ Spend("faults")
----------------------------------------------------------------------------
(* Requests of pods.                                                       *)

\* register: make recomputes the indexes; with shards unassigned the request runs
\* a rebalance itself and forks persistPods only after it.
Register(p, v) ==
  /\ status = "up" /\ p \in alive
  /\ used["registers"] < MaxRegisters /\ Spend("registers")
  /\ state' = Make(Put(state.pods, p, v), state.shards)
  /\ IF state'.unassigned # {}
     THEN waiting' = [waiting EXCEPT !.register = @ + 1] /\ UNCHANGED saving
     ELSE saving' = saving \cup {"pods"} /\ UNCHANGED waiting
  /\ UNCHANGED <<status, job, suspects, condemned, stored, alive>>

\* The body of unregister.  It spreads the old state: the indexes stay as they were.
Drop(p) ==
  /\ state' = [state EXCEPT
        !.pods   = Restrict(@, DOMAIN @ \ {p}),
        !.shards = [s \in Shards |-> IF @[s] = p THEN NoPod ELSE @[s]]]
  /\ saving' = saving \cup {"pods"}
  /\ waiting' = [waiting EXCEPT !.urgent = @ + 1]

Unregister(p) ==
  /\ status = "up" /\ p \in alive /\ Has(state.pods, p)
  /\ Drop(p)
  /\ UNCHANGED <<status, job, suspects, condemned, stored, alive, used>>

\* A pod that could not reach p reports it.
NotifyUnhealthyPod(p) ==
  /\ status = "up" /\ Has(state.pods, p) /\ p \notin suspects
  /\ Fails(p)
  /\ suspects' = suspects \cup {p}
  /\ UNCHANGED <<status, state, job, waiting, condemned, saving, stored, alive>>

\* Mutant: the verdict of isAlive leads to nothing.
CheckHealthOnly(p) ==
  /\ p \in suspects
  /\ suspects' = suspects \ {p}
  /\ UNCHANGED <<status, state, job, waiting, condemned, saving, stored, alive, used>>

\* isAlive answers.  A live pod may be taken for dead (PodsHealth.local is a ping).
CheckHealth(p) ==
  /\ p \in suspects
  /\ suspects' = suspects \ {p}
  /\ \/ (~Has(state.pods, p) \/ Answers(p)) /\ UNCHANGED <<condemned, used>>
     \/ Has(state.pods, p) /\ Fails(p) /\ condemned' = condemned \cup {p}
  /\ UNCHANGED <<status, state, job, waiting, saving, stored, alive>>

\* The unregister of notifyUnhealthyPod, some time after isAlive answered.
UnregisterDead(p) ==
  /\ p \in condemned
  /\ condemned' = condemned \ {p}
  /\ IF Has(state.pods, p) THEN Drop(p) ELSE UNCHANGED <<state, saving, waiting>>
  /\ UNCHANGED <<status, job, suspects, stored, alive, used>>
----------------------------------------------------------------------------
(* rebalance.                                                              *)

\* Mutant: a rebalance nobody asked for.
StartUrgentUnasked ==
  /\ job.phase = "idle"
  /\ waiting' = [waiting EXCEPT !.urgent = @ - 1]
  /\ Begin(state, "urgent", TRUE)
  /\ UNCHANGED <<status, state, suspects, condemned, saving, stored, alive, used>>

StartUrgent ==
  /\ job.phase = "idle" /\ waiting.urgent > 0
  /\ waiting' = [waiting EXCEPT !.urgent = @ - 1]
  /\ Begin(state, "urgent", TRUE)
  /\ UNCHANGED <<status, state, suspects, condemned, saving, stored, alive, used>>

StartOfRegister ==
  /\ job.phase = "idle" /\ waiting.register > 0
  /\ waiting' = [waiting EXCEPT !.register = @ - 1]
  /\ Begin(state, "register", FALSE)
  /\ UNCHANGED <<status, state, suspects, condemned, saving, stored, alive, used>>

StartPeriodic ==
  /\ job.phase = "idle" /\ status = "up"
  /\ Begin(state, "periodic", FALSE)
  /\ UNCHANGED <<status, state, waiting, suspects, condemned, saving, stored, alive, used>>

Ping(p) ==
  /\ job.phase = "ping" /\ p \in job.todo
  /\ \/ Answers(p) /\ job' = [job EXCEPT !.todo = @ \ {p}]
     \/ Fails(p)   /\ job' = [job EXCEPT !.todo = @ \ {p}, !.pingFailed = @ \cup {p}]
  /\ UNCHANGED <<status, state, waiting, suspects, condemned, saving, stored, alive>>

PingsDone ==
  /\ job.phase = "ping" /\ job.todo = {}
  /\ job' = [job EXCEPT !.phase = "unassign", !.todo = {p \in Pods : ToUnassign(p) # {}}]
  /\ UNCHANGED <<status, state, waiting, suspects, condemned, saving, stored, alive, used>>

\* podApi.unassignShards, then updateShardsState(shards, none) in a step of its own.
\* Unlike the ping the call has no timeout: the step may never come.
CallUnassign(p) ==
  /\ job.phase = "unassign" /\ p \in job.todo
  /\ \/ Answers(p) /\ job' = [job EXCEPT !.todo = @ \ {p}, !.acked = @ \cup {p}]
     \/ Fails(p)   /\ job' = [job EXCEPT !.todo = @ \ {p}, !.unassignFailed = @ \cup {p}]
  /\ UNCHANGED <<status, state, waiting, suspects, condemned, saving, stored, alive>>

\* updateShardsState: replaces the shards only, the indexes stay as they were.
SetShards(S, pod) ==
  [state EXCEPT !.shards = [s \in Shards |-> IF s \in S THEN pod ELSE @[s]]]

FinishUnassign(p) ==
  /\ job.phase = "unassign" /\ p \in job.acked
  /\ state' = SetShards(ToUnassign(p), NoPod)
  /\ job' = [job EXCEPT !.acked = @ \ {p}]
  /\ UNCHANGED <<status, waiting, suspects, condemned, saving, stored, alive, used>>

\* Mutant: the assignments start while answers to unassignments are being processed.
UnassignsDoneEarly ==
  /\ job.phase = "unassign" /\ job.todo = {}
  /\ job' = [job EXCEPT !.phase = "assign", !.todo = AssignPods]
  /\ UNCHANGED <<status, state, waiting, suspects, condemned, saving, stored, alive, used>>

UnassignsDone ==
  /\ job.phase = "unassign" /\ job.todo = {} /\ job.acked = {}
  /\ job' = [job EXCEPT !.phase = "assign", !.todo = AssignPods]
  /\ UNCHANGED <<status, state, waiting, suspects, condemned, saving, stored, alive, used>>

\* podApi.assignShards, without a timeout as well.
CallAssign(p) ==
  /\ job.phase = "assign" /\ p \in job.todo
  /\ \/ Answers(p) /\ job' = [job EXCEPT !.todo = @ \ {p}, !.acked = @ \cup {p}]
     \/ Fails(p)   /\ job' = [job EXCEPT !.todo = @ \ {p}, !.assignFailed = @ \cup {p}]
  /\ UNCHANGED <<status, state, waiting, suspects, condemned, saving, stored, alive>>

\* Mutant: whether the pod is still there is not looked at.
FinishAssignUnchecked(p) ==
  /\ job.phase = "assign" /\ p \in job.acked
  /\ state' = SetShards(ToAssign(p), p)
  /\ job' = [job EXCEPT !.acked = @ \ {p}]
  /\ UNCHANGED <<status, waiting, suspects, condemned, saving, stored, alive, used>>

\* Mutant: the update of the state waits for the pod to be registered.
FinishAssignBlocking(p) ==
  /\ Has(state.pods, p)
  /\ FinishAssignUnchecked(p)

\* A pod that left meanwhile fails with PodNoLongerRegistered, after the call.
FinishAssign(p) ==
  /\ job.phase = "assign" /\ p \in job.acked
  /\ IF Has(state.pods, p)
     THEN /\ state' = SetShards(ToAssign(p), p)
          /\ job' = [job EXCEPT !.acked = @ \ {p}]
     ELSE /\ job' = [job EXCEPT !.acked = @ \ {p}, !.assignFailed = @ \cup {p}]
          /\ UNCHANGED state
  /\ UNCHANGED <<status, waiting, suspects, condemned, saving, stored, alive, used>>

\* Mutant: a registration that had to rebalance is not persisted.
ChangesToSave == IF job.plan # Stay THEN {"assignments"} ELSE {}

\* What the end of the run forks to be saved: the changes, and the pods if register
\* called the rebalance.
ToSave ==
  {what \in {"assignments", "pods"} :
      IF what = "assignments" THEN job.plan # Stay ELSE job.kind = "register"}

\* The end of the run: check the pods that failed, retry an immediate rebalance,
\* persist the changes; what called the rebalance goes on.
EndRun ==
  /\ job.phase = "assign" /\ job.todo = {}
  /\ suspects' = suspects \cup FailedPods
  /\ waiting' = IF FailedPods # {} /\ job.immediately
                THEN [waiting EXCEPT !.urgent = @ + 1] ELSE waiting
  /\ saving' = saving \cup ToSave
  /\ status' = IF job.kind = "boot" THEN "up" ELSE status
  /\ job' = Idle
  /\ UNCHANGED <<state, condemned, stored, alive, used>>

\* Mutant: answers to assignments may still come in.
AssignsDoneEarly == EndRun

AssignsDone == job.acked = {} /\ EndRun
----------------------------------------------------------------------------
(* Persistence, restart, and the processes of the pods.                    *)

\* The storages read the state and write it without a pause in between.  A write that
\* throws is a defect, which withRetry does not retry: not modelled.
SavePods ==
  /\ "pods" \in saving
  /\ stored' = [stored EXCEPT !.pods = state.pods]
  /\ saving' = saving \ {"pods"}
  /\ UNCHANGED <<status, state, job, waiting, suspects, condemned, alive, used>>

SaveAssignments ==
  /\ "assignments" \in saving
  /\ stored' = [stored EXCEPT !.shards = state.shards]
  /\ saving' = saving \ {"assignments"}
  /\ UNCHANGED <<status, state, job, waiting, suspects, condemned, alive, used>>

NoPods    == [p \in {} |-> NoVersion]
NoRequest == [urgent |-> 0, register |-> 0]

\* A crash loses everything but what is stored.
Crash ==
  /\ status # "down" /\ used["restarts"] < MaxRestarts /\ Spend("restarts")
  /\ status' = "down"
  /\ state' = Make(NoPods, Stay)
  /\ job' = Idle /\ waiting' = NoRequest
  /\ suspects' = {} /\ condemned' = {} /\ saving' = {}
  /\ UNCHANGED <<stored, alive>>

\* HashMap.union: the second map wins.
UnionOf(f, g) ==
  [k \in DOMAIN f \cup DOMAIN g |-> IF Has(g, k) THEN g[k] ELSE f[k]]

\* `live`: drop the pods isAlive does not find (a live one may be missed) and their
\* shards, add a None for every shard, and rebalance before the service can be called.
InitialShards(pods) ==
  LET filtered == RestrictValues(stored.shards, LAMBDA p : Has(pods, p))
  IN  UnionOf(filtered, Stay)

Boot ==
  /\ status = "down"
  /\ status' = "booting"
  /\ \E missed \in SUBSET (DOMAIN stored.pods \cap alive) :
        LET pods    == Restrict(stored.pods, (DOMAIN stored.pods \cap alive) \ missed)
            initial == Make(pods, InitialShards(pods))
            faults  == used["faults"] + Cardinality(missed)
        IN  /\ faults <= MaxFaults /\ used' = [used EXCEPT !["faults"] = faults]
            /\ state' = initial
            /\ Begin(initial, "boot", initial.unassigned # {})
  /\ saving' = {"pods"}
  /\ UNCHANGED <<waiting, suspects, condemned, stored, alive>>

PodDies(p) ==
  /\ p \in alive /\ used["deaths"] < MaxDeaths /\ Spend("deaths")
  /\ alive' = alive \ {p}
  /\ UNCHANGED <<managerVars, stored>>

PodStarts(p) ==
  /\ p \notin alive
  /\ alive' = alive \cup {p}
  /\ UNCHANGED <<managerVars, stored, used>>
----------------------------------------------------------------------------
Init ==
  /\ status = "down"
  /\ state = Make(NoPods, Stay)
  /\ job = Idle /\ waiting = NoRequest
  /\ suspects = {} /\ condemned = {} /\ saving = {}
  /\ stored = [pods |-> NoPods, shards |-> Stay]
  /\ alive = Pods
  /\ used = [what \in Bounded |-> 0]

Requests(p) ==
  \/ \E v \in Versions : Register(p, v)
  \/ Unregister(p)
  \/ NotifyUnhealthyPod(p)

PodCalls(p) ==
  \/ Ping(p)
  \/ CallUnassign(p) \/ FinishUnassign(p)
  \/ CallAssign(p)   \/ FinishAssign(p)

PhaseEnds == PingsDone \/ UnassignsDone \/ AssignsDone

Starts == StartUrgent \/ StartOfRegister \/ StartPeriodic

Next ==
  \/ \E p \in Pods : Requests(p) \/ CheckHealth(p) \/ UnregisterDead(p) \/ PodCalls(p)
  \/ PhaseEnds \/ Starts
  \/ SavePods \/ SaveAssignments
  \/ Crash \/ Boot
  \/ \E p \in Pods : PodDies(p) \/ PodStarts(p)

\* The only step of Next that is one of these is StartOfRegister, and it is enabled when
\* this is.  (TLC would make the decision again to see whether StartOfRegister is enabled.)
RegisterServed ==
  /\ job.phase = "idle" /\ waiting.register > 0
  /\ waiting' = [waiting EXCEPT !.register = @ - 1]
  /\ status' = status

\* Fibers the runtime has started run on: health checks, the phases of a rebalance, the
\* saves, the boot.  A ping ends, by its timeout at the latest; unassignShards and
\* assignShards have none and may stay without answer.  The semaphore serves its waiters in
\* order, so the rebalance of a registration gets its turn although periodic ones keep
\* coming: the strong fairness.  Nothing is assumed of pods, crashes, reports or periodic runs.
Fairness ==
  /\ \A p \in Pods : WF_vars(CheckHealth(p)) /\ WF_vars(UnregisterDead(p))
  /\ \A p \in Pods : WF_vars(Ping(p)) /\ WF_vars(FinishUnassign(p)) /\ WF_vars(FinishAssign(p))
  /\ WF_vars(PhaseEnds) /\ SF_waiting(RegisterServed)
  /\ WF_vars(SavePods)

Spec     == Init /\ [][Next]_vars
FairSpec == Spec /\ Fairness
----------------------------------------------------------------------------
(* Properties.                                                             *)

TypeOK ==
  /\ status \in {"down", "booting", "up"}
  /\ state \in StateType
  /\ job \in JobType
  /\ waiting \in [urgent : Nat, register : Nat]
  /\ suspects \subseteq Pods /\ condemned \subseteq Pods
  /\ saving \subseteq {"pods", "assignments"}
  /\ stored \in [pods : PodMaps, shards : ShardMaps]
  /\ alive \subseteq Pods
  /\ used \in [Bounded -> Nat]

\* A shard is only ever assigned to a registered pod, although pods leave between
\* the decision, the call and the state update of a rebalance (updateShardsState).
AssignedPodsRegistered ==
  \A s \in Shards : state.shards[s] # NoPod => state.shards[s] \in Registered

\* The manager implements ShardOwnership: in particular no step hands a shard from
\* one pod to another directly, with pods leaving, joining and failing in between
\* the phases of the rebalance.
Ownership == INSTANCE ShardOwnership WITH
  members <- DOMAIN state.pods,
  owner   <- state.shards

ImplementsOwnership == Ownership!Spec

\* A rebalance never gives away a shard whose old pod did not confirm to have let go
\* of it ("remove assignments of shards that couldn't be unassigned, as well as
\* faulty pods"), not even when that pod is unregistered during the same rebalance.
OnlyReleasedShardsMove ==
  [][\A s \in Shards :
       LET old == job.old[s]
           new == state'.shards[s]
       IN  (new # NoPod /\ new # state.shards[s]) =>
             /\ old = NoPod \/ old \notin job.pingFailed \cup job.unassignFailed
             /\ new \notin job.pingFailed \cup job.unassignFailed]_vars

\* What each phase of a rebalance relies on, whatever registers, leaves or fails
\* beside it.  Until the assign phase a shard to move is where the rebalance found it,
\* or nowhere; a pod whose unassignment is over without failure has none of its shards
\* to move left; and a shard about to be assigned has no owner.
PhaseContracts ==
  /\ job.todo \cap job.acked = {}
  /\ job.phase = "ping" => job.acked = {} /\ job.unassignFailed = {}
  /\ job.phase \in {"ping", "unassign"} =>
       \A s \in Moved(job.plan) : state.shards[s] \in {job.old[s], NoPod}
  /\ job.phase = "unassign" =>
       \A p \in Pods \ (job.todo \cup job.acked \cup job.unassignFailed) :
          \A s \in ToUnassign(p) : state.shards[s] = NoPod
  /\ job.phase = "assign" =>
       \A p \in job.todo \cup job.acked :
          /\ p \notin job.unassignFailed
          /\ \A s \in ToAssign(p) : state.shards[s] = NoPod

\* The rebalance waits for the answer of p to unassignShards or assignShards.
AwaitsPod(p) == job.phase \in {"unassign", "assign"} /\ p \in job.todo

\* Every rebalance ends, unless a pod never answers unassignShards or assignShards, which
\* have no timeout: nothing else that pods do in the middle, dying, leaving, registering or
\* failing, keeps the only permit of the semaphore.
RebalanceEnds ==
  \/ (job.phase # "idle") ~> (job.phase = "idle")
  \/ \E p \in Pods : <>[]AwaitsPod(p)

\* A pod that was found unresponsive and is dead does not stay registered, not even while
\* a rebalance hangs in a call.
SuspectsLeave ==
  \A p \in Pods :
    (p \in suspects /\ p \notin alive)
      ~> (~Has(state.pods, p) \/ p \in alive \/ status = "down")

\* A registration reaches the storage, also when its pod has to wait for a rebalance,
\* unless a call of that rebalance, or of the one before it, is never answered.
RegistrationsSaved ==
  \/ \A p \in Pods :
       Has(state.pods, p)
         ~> (Has(stored.pods, p) \/ ~Has(state.pods, p) \/ status = "down")
  \/ \E p \in Pods : <>[]AwaitsPod(p)

\* A restart keeps the assignments to pods that are still there: what `live` loads
\* and filters them for ("responsible of persisting assignments").
RestartKeepsAssignments ==
  [][Boot => \A s \in Shards :
        Has(state'.pods, stored.shards[s]) => state'.shards[s] = stored.shards[s]]_vars

\* The shards of a pod that is gone go somewhere else ("If the pod is not alive,
\* shards can be safely reassigned somewhere else"): a manager that has nothing left
\* to run and nothing left to decide has assigned every shard.
AtRest ==
  /\ status = "up" /\ job.phase = "idle" /\ waiting = NoRequest
  /\ suspects = {} /\ condemned = {}
  /\ Decide(state, FALSE) = Stay

NoOrphansAtRest ==
  (AtRest /\ Registered # {}) => \A s \in Shards : state.shards[s] # NoPod
============================================================================
