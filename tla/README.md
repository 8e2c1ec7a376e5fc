# A TLA+ model of effect-cluster

effect-cluster spreads *entities* over *pods*. An entity belongs to a shard, a
central **Shard Manager** assigns shards to pods, and every pod runs a **Sharding**
service that accepts messages for the shards it holds. Pending messages can be stored
and sent again, and *workflows* run on a journal that survives crashes. This directory holds TLA+
modules of that system, the TLC runs that check them on small instances, and proofs,
for every instance, of the safety of the manager and its decisions, of the cluster it makes with its
pods, of the entity manager, of messages under way and of the workflow runtime. `PROJECT.json` maps every
definition to the lines it models and lists the runs, mutants, findings, hazards and
theorems.

Paths below are relative to `src/packages/`.

## 1. Inventory

| Component | State | Operations | What makes it correct |
|---|---|---|---|
| **Manager state** `cluster/src/internal/shardManagerState.ts`, `podWithMetadata.ts` | pods, shards, and indexes derived from them | `make`, `compareVersion` | the indexes describe the shards; the maximum is the newest version |
| **Rebalance decision** `cluster/src/internal/shardManager.ts:362-526` | none | `decideAssignmentsForUnassignedShards`, `decideAssignmentsForUnbalancedShards`, `pickNewPods` | shards go to the newest version, pods end up even, nothing moves back and forth |
| **ShardManager** `shardManager.ts` | `stateRef`, `rebalanceSemaphore`, forked fibers | `register`, `unregister`, `notifyUnhealthyPod`, `rebalance`, `persist*`, `live` | one owner per shard, handed over only after it was released; rebalances end; the table survives restarts |
| **Storage** `storage.ts`, `cluster-node/src/StorageFile.ts` | pods, assignments | `get*`, `save*`, `assignmentsStream` | what was saved is found again |
| **PodsHealth** `podsHealth.ts` | none | `isAlive` | dead pods are not alive |
| **Sharding** `sharding.ts` | `shardAssignments`, `isShuttingDownRef`, `singletons` | `register`, `unregister`, `assign`, `unassign`, `refreshAssignments`, singletons | one pod serves a shard; one pod runs the singletons |
| **EntityManager** `entityManager.ts`, `entityState.ts` | `entityStates`: scope, expiration and termination fiber of each entity | `sendAndGetState`, `terminate*`, expiration | one instance per entity; what was acknowledged is processed |
| **Messenger, Broadcaster** `sharding.ts:500-666` | retries in progress | `send`, `sendDiscard`, `broadcast`, `broadcastDiscard` | a message reaches the pod that holds the shard and is handled once there; a broadcast reaches every pod |
| **RecipientBehaviour** `recipientBehaviour.ts` | queue, states of messages | offer, reply, poison pill | a message is handled once per entity instance |
| **At-least-once** `atLeastOnce.ts`, `cluster-pg/src/AtLeastOnceStoragePostgres.ts` | stored pending messages | upsert, sweep, mark | no stored message stays unprocessed |
| **Workflow runtime** `cluster-workflow/src/WorkflowRuntime.ts`, `Activity.ts`, `WorkflowEngine.ts` | replay or execution phase, mailbox of the coordinator | `attempt`, replay, `forkAndJoin`, `isYielding`, interruption | a replay repeats what is on record; the result of an activity is decided once; an attempt ends |
| **Durable execution journal** `DurableExecutionJournal*.ts`, `cluster-pg/src/DurableExecutionJournalPostgres.ts` | events per persistence id | `append`, `read` | events are numbered without gap or repetition |
| **RPC** `cluster-node/src/*Rpc.ts`, `cluster-browser/src/RpcBroadcastChannel.ts` | none | request, answer | failures become the exceptions the callers retry on |

Interactions. Pods call the manager (`register`, `unregister`, `notifyUnhealthyPod`,
`getAssignments`) and the manager calls pods (`ping`, `assignShards`,
`unassignShards`). Pods follow the assignments through two more channels, the answer
of `getAssignments` at their start and the stream of the storage. Messages go from
pod to pod by the sender's cache of assignments; the receiving pod gives them to its
entity manager, which creates the entity on its first message. The at-least-once
behaviour stores a message before it is offered, and a sweeper of the pod sends stored
messages again. The workflow engine runs attempts of executions; the coordinator of an
attempt and the fibers of its activities talk through a mailbox and share the journal.

What is hard. Everything is a fiber: while one rebalance runs through its three
rounds of concurrent calls, pods register, leave and die, health checks run, and
saves are forked. The rebalance works on a snapshot. Calls fail, or are carried out
while their answer is lost. The manager restarts from two storages written at
different moments. In a pod, three fibers may end the entity a fourth one sends a
message to. A workflow is cut at any moment and repeated from what the journal says.
`PROJECT.json` lists 40 hazards at their lines, with the properties that would catch
them going wrong, or the reason why none does.

## 2. Modules

| Module | What it is |
|---|---|
| `ShardManagerState` | the state record, `Make`, `CompareVersion`, `MaxVersion` |
| `Rebalance` | the decision: `PickNewPods` and what calls it |
| `Rebalance_proofs` | lemmas about `Make`, the versions and the decision |
| `RebalanceRounds` | the periodic rebalance repeated, on indexes that age |
| `RebalanceRounds_proofs` | theorems about it |
| `ShardOwnership` | abstract: shards have at most one owner and change owner only through having none |
| `ShardManager` | the service: one action per request, call, answer, phase end, save, crash; refines `ShardOwnership` |
| `ShardManager_proofs` | theorems about it |
| `Sharding` | the service of a pod: one operation per method |
| `Cluster` | the manager (`ShardManager`) and the pods (`Sharding`) together |
| `Cluster_proofs` | theorems about it, and that it implements `ShardManager` |
| `EntityLife` | abstract: an entity lives, receives a message, processes it once, and ends |
| `EntityManager` | the entities of a pod with queue, timer and termination, the senders, the storage of pending messages, the sweeper; refines `EntityLife` |
| `EntityManager_proofs` | theorems about it, and that it refines `EntityLife` |
| `Messaging` | messengers and broadcasters of a pod; the pods they send to are instances of `EntityLife` |
| `Messaging_proofs` | theorems about it |
| `DurableExecution` | abstract: the result of each activity is decided once, the workflow ends once, with these results |
| `DurableExecutionJournal` | events, `append`, `read`, the fold of an activity over its events |
| `WorkflowRuntime` | the attempts of one execution: coordinator, replay, branches, activities, crash, interruption; refines `DurableExecution` |
| `WorkflowRuntime_proofs` | theorems about it, for any program |
| `DurableExecution_proofs` | theorems about it for programs whose forks have one order, and that it refines `DurableExecution` |
| `WorkflowEngine` | `WorkflowRuntime` with the attempts as `WorkflowEngine.makeScoped` starts them |
| `MC...` | constants of the runs; `MCCluster` also has a start in the middle of a cluster's life |

The abstract specifications join the parts. `Messaging` does not repeat what a pod does
with a message: it takes `EntityLife`, which `EntityManager` is shown to implement, and
lets entities live and end as that allows. Who holds a shard, which `EntityManager` and
`Messaging` take from `Move`, `RouteChanges` and `HolderChanges`, is what `Cluster` is about.

### 2.1 Manager, pods and cluster

A `HashMap` is a function on its keys. The iteration order of
a `HashMap` or `HashSet` is arbitrary and fixed, so shards and pods are numbers and
iterated in their order. (Therefore no run uses symmetry.) The maximum of shards per pod is
`podCount` and the number of shards: the average is a fraction in the code, and
`ExtraShards` rounds the way `List.take` does.

`ShardManager` has the manager's `stateRef` (`state`), the one rebalance that holds
the semaphore (`job`: phase, plan, the snapshot of the shards, the pods still to call,
the pods that answered and whose answer is not yet in the state, the failures of each
round), the rebalances that wait (`waiting`), and the forked fibers (`suspects`,
`condemned`, `saving`). A call to a pod and the update of the state after it are two
steps; the health check and the unregistration it leads to are two steps; every save
is a step of its own. Where the code assigns only `pods` and `shards` of the state, the
model leaves the indexes stale in the same way.

`Cluster` joins both sides: a call of the manager is one step of `ShardManager` and of
`Sharding`. A call that fails for the manager may still have been carried out. Two
history variables make the properties say exactly what the protocol gives:
`stray[p]` are the shards p holds without the manager's knowledge (it took them from an
answer or the storage, kept them when it was dropped or the manager restarted, or
got them in a call whose answer was lost), and `departed` the pods that have begun to leave
since their process started.

`refreshAssignments` merges the answer of `getAssignments` with the stream of the storage.
What a pod reads (`ReadAssignments`) is under way (`underWay`) until the pod uses it
(`Refresh`); by then the manager and the storage may be elsewhere, and the pod may have
been called, or have begun to leave. A pod may register at any time, also one that is registered still
because nobody noticed that it had crashed.

Abstractions. Versions are sequences of numbers; the timeout of a ping is a call that fails. An entity
stands for all entities of its
shard. A call of the manager and what the pod does with it are one step: an answer that comes late
is a call carried out late, and one that never comes is a step never taken. `Cluster` leaves out periodic
rebalances that find nothing to move (they only pass through
their phases; `ShardManager` has them) and the refresh after a report (it acts on an
empty cache only). `underWay` is a set, so it allows more orders than the stream of the storage
has, whose elements come one after the other. The manager's saves do not fail: the storages write synchronously, and one that
throws is a defect the code does not retry. A new service asks the manager while it has no entry, and one with entries ignores
the answer; one that asks with entries and loses them before the answer comes is within `MaxKnown`.

### 2.2 Entities

`entry` is the map `entityStates`, and `creator` the call that holds its lock for as long
as the behaviour of a new entity is built; every other use of the lock is one step that
needs it free. An element of `instance` is what one creation made: the queue and the
states of messages (`recipientBehaviour.ts`), the handler fiber, the expiration timer, and
how far its termination fiber is (`ending`). A `call` is one `sendAndGetState`: the check
of the shard, the search under the lock, the creation, and then, outside of the lock, the
behaviour: `upsert`, the offer, `markAsProcessed`. The search tells a found entity from one
that is ending (the call is made again after 100 ms), from one to be created, and from
one refused because the pod shuts down. Expiration, `forkShutdown` and
`terminateAllEntities` all mark the entity as ending; `CloseScope` stops the timer and
offers the poison, and `RemoveEntity` comes after the handler ended. `leaving` is
`unregister` with its one wait after the other, each ended by the termination or the
timeout. Senders send again every 100 ms until the message is processed, the sweeper
reads what is pending and sends it, one message after the other, until one fails.

The storage in Postgres logs every failure of `upsert` and `markAsProcessed` and answers as if
it had written (`AtLeastOnceStoragePostgres.ts:56,64`). `Upsert` and `Mark` have both outcomes
(`WriteFails`, at most `MaxFailedWrites` times for each message): the message is offered although it is not on
record, and "Processed" is answered although the record is still pending. The history variable `handled` has the messages
an instance has handled, so that a property can say what an answer means nevertheless.

Abstractions. All types are registered and all messages decode: a sweep ends early only because the pod
does not manage an entity (in the code an unregistered type or a message that does not decode ends it as well), and
a read of the storage that fails, which ends a sweep too, is left out. Between two asynchronous operations a fiber runs undisturbed (the
scheduler's yield after 2048 operations is left out). `fromFunctionEffect`, which keeps no
state and calls its handler for whatever it is offered, is not modelled, nor is
`terminateEntitiesOnShards`, which nothing calls. Handlers reply to every message.

### 2.3 Messages

`route` is the cache of the pod `Here`, `holds` the other pods that hold the shard of
the entity (they may disagree with the cache, and more than one may), `up` the pods that run. A call looks up the pod, sends, waits for the
answer and decides whether it has enough: a reply for `send`, anything that is no exception
for the others. A request may fail to arrive, an answer may be lost after the message
was received; either is a `PodUnavailable`, which reports the pod at most once per
interval, and the call is made again. A send looks up its pod again; a broadcast keeps the pods
it found when it began. Calls to `Here` do not go through the transport and do not fail.

Abstraction: losses, ended lives or pods, and changes of shards are "troubles" of one
budget, `MaxTroubles`. All messages to entities go to one entity.

### 2.4 Workflows

An attempt is a record: how far its coordinator is (`phase`), the state of
`WorkflowRuntimeState` (`tag`, `version`, `next`, `delayed`), its mailbox and the messages a
reduce is going through (`backlog`), the fiber of the workflow, and what the workflow got from its
activities. Replay takes one event of the journal per step, with the message that
answers it: an early join is put aside, a fork that is not the expected one is a defect,
as in the code. Execution handles one message per step with the event it appends. A
branch is a fiber of the workflow that runs activities one after the other through
`forkAndJoin`; its interruption (by a yield, or by a timeout when the branch is in `Timed`)
reaches it wherever it is, and finalizers run on. In a crash everything but the journals is lost; the next
attempt runs code of any version that is deployed then, and its activities may return other values.
`WorkflowEngine` adds the `FiberMap`: `keyed` is the attempt it holds for the execution. `sendDiscard` interrupts
that one only, if its fiber still runs, and puts its own in its place; `send` neither looks at the map nor enters it.

Abstractions. Every append is one step. In Postgres an append can itself be
interrupted and one that repeats a sequence number fails by the primary key; in memory
it does not, and the model has the journal in memory. Activities succeed, the branches of a workflow start in
their order, the workflow returns what it knows of its activities. A timeout is the
interruption of a branch: the activity by which `sleep` and `timeout` put on record when they began, and the
sleep for what remains (`Workflow.ts:88-113`), are left out, so a timeout may strike at any time after the request.
An attempt yields because its fiber is interrupted; `yieldExecution`, by which a workflow yields by itself
(`WorkflowRuntime.ts:388`, `Workflow.ts:127`), is left out.
`InterruptionRequested` is never appended by the code.

## 3. Runs

| Run | Bounds | Shows |
|---|---|---|
| `rebalance_rounds` | 5 shards, 3 pods, 2 versions, rate 1/4, every start | `NewestVersionOnly`, `NoShardSwaps`, `FreshRoundsEvenOut`, `FreshRoundBalances`, `NeverMovesBack` |
| `shard_manager` | 2 shards, 2 pods; 1 registration, or both registered; 1 death, 1 restart; fair | `AssignedPodsRegistered`, `RebalanceEnds`, `SuspectsLeave`, `RegistrationsSaved` |
| `cluster` | 2 shards, 2 pods, one has both; 1 more registration, 1 fault, 1 element under way | `SingleServer`, `SingletonOnce`, `TableIsHeld`, `PhaseContracts`, `OnlyReleasedShardsMove`, `ImplementsOwnership` |
| `cluster_failures` | 1 shard, 1 pod that has it; 1 more registration, 1 death, 1 fault, 1 restart, 1 entity, 1 element under way | `HeldShardsKnown` when everything fails |
| `entity_manager` | 1 entity, 1 message, a sender and the sweeper, storage; 1 termination, 1 move, 1 crash, 1 failing write | `OneInstance`, `HandledOnce`, `NoneLeftBehind`, `ProcessedIsMarked`, `SendEnds`, `AtLeastOnce`, `RefinesEntityLife` |
| `messaging` | 2 pods, 2 shards, a send and a broadcast without reply, 2 troubles | `HandledOncePerLife`, `RepliesArrive`, `BroadcastDelivered` |
| `workflow` | 2 parallel activities, 3 attempts with a new version and new values each, 1 crash, 1 yield | `JournalInOrder`, `NeverOutOfOrder`, `JoinedHaveResult`, `VersionPinned`, `ReplayIsDeterministic`, `NoReexecution`, `RefinesDurableExecution`, `AttemptEnds` |
| `older_version` | 2 shards, versions 2.0 and 1.5 | violates `NewestVersionOnly` |
| `orphaned_shards` | 2 shards, 2 pods, no failure | violates `NoOrphansAtRest` |
| `lost_assignments` | 2 shards, 2 pods, 1 restart | violates `RestartKeepsAssignments` |
| `two_entities` | as `cluster`, no fault, 2 entities | violates `EntityOnSinglePod` |
| `journal_out_of_order` | as `workflow`, `WorkflowEngine`, no crash | violates `NeverOutOfOrder`, which holds when attempts do not overlap |

Every module with variables has a type invariant in one of these runs (`TypeOK`,
`ClusterTypeOK`). The largest run has 1.8 million states; the longest takes about two minutes.

**Bounds.** Five shards on three pods are the smallest instance in which averages are
fractions, a surplus is more than one shard, and a round can leave a difference of two; two versions let one pod be older. With two shards and two pods a shard is
handed over from a live pod to another, and one can fail while the other goes on. One fault
is enough for a lost answer and its consequences (the check of the pod, a wrong verdict,
a second rebalance). `shard_manager` has two kinds of initial states, the first boot and
`BothRegistered` (one of two registered pods has every shard), so that shards are both assigned
for the first time and moved while a pod dies or the manager restarts. A call to a live pod that fails
is left to the cluster runs. These start when one pod holds every shard and nothing is left to do, which saves the boot
(`OneStartSpec`; with another pod in its place the states are the same but for the names). In `cluster` the other pod
registers and one of the shards goes over to it, released by a call that may fail, while either pod leaves, comes back or is dropped.
One element under way is enough for an answer that is used after the shards have moved. In `cluster` a pod asks the manager only while it has no entry (`MaxKnown` is 0), in the other two runs at any time. In `cluster_failures`
one pod may die, come back and register again while the manager still has it, or be dropped while it holds the
shard; after the restart of the manager, which forgets every assignment, the cluster boots anew. What two pods do to each
other while everything fails is left to the proofs of section 5, which have no bounds.

Two lives of an entity (one termination, and one after a crash) let an entity end while a message to it is under way, and
be created again while its sender waits; one failing write is a message that is not on record when the pod crashes, or one that is sent
again after it was answered; the sender and the sweeper are two calls that meet in the lock, in the queue and in
the storage. Two troubles are a lost answer and the end of the entity that
had received the message, or a pod that dies when its shard has moved. Two parallel activities are requested in
one order and end in another, three attempts let the second one be cut in the middle of its replay or after it. `MaxRegisters`,
`MaxDeaths`, `MaxFaults`, `MaxRestarts`, `MaxEntities`, `MaxUnderWay`, `MaxKnown`, `MaxTerminations`, `MaxMoves`, `MaxCrashes`,
`MaxFailedWrites`, `MaxTroubles`,
`MaxAttempts` and `MaxYields` are guards of the actions they name.

Deadlock is checked for the manager and the cluster. Entities, messages and workflows may
stop (`CHECK_DEADLOCK FALSE`): their work is done when all is sent, answered or completed; that
they do not stop earlier is what their liveness properties say.

**Fairness.** Forked fibers run on. Of the calls of a rebalance only the ping has a timeout
(`shardManager.ts:219`); `unassignShards` and `assignShards` have none (256, 296), nor has the transport.

- `ShardManager` (`FairSpec`): health checks, pings, updates of the state after a call, phases of a rebalance, saves.
  Nothing makes a call of `unassignShards` or `assignShards` end: one that is never answered holds the only permit
  of the semaphore. `RebalanceEnds` and `RegistrationsSaved` therefore say that this is the only thing that can
  hold up a rebalance or the save of a registration: either all end, or from some time on one pod is waited for
  (`AwaitsPod`). `SuspectsLeave` has no such exception; it takes it that the ping of a dead pod by `isAlive`
  fails (`podsHealth.ts:37` has no timeout either). The
  semaphore serves its waiters in order, so the rebalance of a registration gets its turn
  between periodic ones: strong fairness of `StartOfRegister`, stated as that of
  `RegisterServed`, a formula for the same steps without the decision they make. Nothing is assumed of pods,
  reports, crashes, or of the periodic rebalance.
- `EntityManager`: each call, its repetition every 100 ms, the handler and the termination of each instance,
  shutdown, sweeper. Writes need not succeed but for the bound. Nobody has to send, shards need not move, timers need not run out.
- `Messaging`: the calls, the handlers, the interval between two reports. A call does not
  have to fail unless its pod is down.
- `WorkflowRuntime`: replay, the handling of the mailbox, each branch, and the interruption of branches
  once the workflow yields. Timeouts, yields and crashes need not happen.

**Mutants.** For each property of a passing run `PROJECT.json` names a small change of
the code's logic (a definition commented "Mutant") under which TLC finds it violated.

## 4. What the runs found

1. `compareVersion` never answers 1: its second test repeats the first
   (`podWithMetadata.ts:60-61`). Versions like 2.0 and 1.5 are each "older" than the
   other, and shards go to the older pod. (`older_version`)
2. `unregister` keeps the indexes of the state (`shardManager.ts:132`): its own rebalance sees no
   unassigned shard. Periodic rebalances decide on the same indexes: they may still move what they take for the surplus of the
   pod that left (shard 1 goes to pod 2 in the trace), and then nothing any more; its other shards (shard 2) stay without
   owner until a pod registers and the indexes are computed anew. (`orphaned_shards`)
3. `live` unites the stored assignments with a `None` for every shard, which wins
   (`shardManager.ts:553`). Every restart starts from an empty table. (`lost_assignments`)
4. `unassign` does not end the entities of the shards (`sharding.ts:337`), so an entity
   can be alive in two pods without any failure. (`two_entities`)
5. Requests for one execution that overlap each make an attempt (`WorkflowEngine.ts:61`), and the attempts
   number their events from the same journal: two `Attempted` with number 0, and the next attempt
   dies with "Seems like journal is broken or out of order." (`journal_out_of_order`)

The modules state four more properties that TLC refutes; they have no run of their own.

| Property | How to see it | What happens |
|---|---|---|
| `BalancedWhenSettled` of `RebalanceRounds` | `RebalanceRounds.cfg` with `OneVersion` | `updateShardsState` keeps the indexes (`shardManager.ts:187`): rebalances after the first decide on the assignment of the last registration and stop while pods are two shards apart, against "Rebalance when 2 shard difference" (`cluster/test/ShardManager.test.ts:94`) |
| `AttemptEnds` of `WorkflowRuntime`, with timeouts | `WorkflowRuntime.cfg` with `Timed <- MCTimed`, `Deployed <- MCDeployed2`, `Returns <- MCReturns2`, `MaxAttempts = 2`, `MaxYields = 0` | an activity that is timed out after its fork was permitted and before it is attempted is on record as forked and joined without a result. The replay runs it, the activity asks `isYielding`, and the coordinator, which waits for the join, puts that question aside: the attempt hangs |
| `PendingRepliesFail` of `EntityManager` | `EntityManager.cfg` with `Persisted = FALSE`, `MaxMoves = 0`, `MaxCrashes = 0` | "failing pending replies" (`entityManager.ts:117`): the sender of a message that an ended entity did not handle is not told |
| `BroadcastEnds` of `Messaging` | `Messaging.cfg` with `Discards = {}`, `MaxTroubles = 0` | the retry of `broadcast` is around the decoding of the answer (`sharding.ts:648`): a first answer "Acknowledged" is decoded again for ever and the pod not asked again |

Smaller divergences: `ReplayIsDeterministic` has one exception, a workflow that is interrupted while
a completed execution is replayed dies with "Determinism has been broken!" (`WorkflowRuntime.ts:92`); the rebalance rate limits each receiving
pod and not the total; `persistRetryCount` has no effect; two pods that start at once
take all unassigned shards each; a pod that unregisters keeps its singletons; a `sendDiscard`
that finds an entity just before it ends is lost unless messages are stored; a message whose `upsert` failed is lost in
a crash like one that was never stored, and one whose `markAsProcessed` failed is sent to the entity again, and handled again by its next life.

## 5. Proofs

TLAPS checks eight modules, for all values of the constants that the named assumptions allow. Bounds such as
`MaxFaults` are constants too: the theorems hold for any number of faults.

### 5.1 Manager, rebalance and cluster

| Theorem of `ShardManager_proofs` | States |
|---|---|
| `TypeCorrect` | `Spec => []TypeOK` |
| `AssignedToRegistered` | `Spec => []AssignedPodsRegistered` |
| `ContractsHold` | `Spec => []PhaseContracts` |
| `OwnershipImplemented` | `Spec => ImplementsOwnership`: `ShardManager` refines `ShardOwnership` |
| `OnlyReleasedMove` | `Spec => OnlyReleasedShardsMove` |

For all finite sets of shards and pods, all
versions, every rate and every bound (`ShardsAssumption`,
`PodsAssumption`, `VersionsAssumption`, `NoneAssumption`, `RateAssumption`,
`BoundsAssumption`). The inductive invariant is `IInv == TypeOK /\ AssignedPodsRegistered /\ PhaseContracts`.
The two properties of steps are not inductive by themselves: that the manager gives a
shard only when nobody owns it follows from the fact that, in the assign phase, every
shard still to be assigned has no owner; that follows from the unassign phase, in which
a pod that is neither still to call nor failed has none of its shards to move left; and
that from the first phase, in which these shards are where the snapshot saw them. Other
actions keep these facts because they can only take owners away (`ContractsSurviveLosses`).
The proof has one step per action. It needs nothing of the decision except that a plan
is a map from shards to pods: safety does not depend on what `pickNewPods` picks, and
`Begin` takes a plan of that type.

| Theorem of `RebalanceRounds_proofs` | States |
|---|---|
| `RoundsTypeCorrect` | `Spec => []TypeOK` |
| `NoShardReturns` | `Spec => []NeverMovesBack` |
| `ReceiversLoseNothing` | `Spec => NoShardSwaps` |
| `NewestOfComparable` | `Comparable` implies `Spec => []NewestVersionOnly` |
| `FreshRoundsEven` | `Spec => FreshRoundsEvenOut` |
| `FreshRoundsBalance` | `Spec => FreshRoundBalances` |

From `ShardsAssumption`, `PodsAssumption`, `VersionsAssumption`, `NoneAssumption` and `RateAssumption`. The decision is a
reduce over the shards, so these are facts about every plan on the way. The provers take no induction rule
for a formula, so `Rebalance_proofs` has one for a set of naturals (`SetInduction`), and `PlanInduction`
and `SeenInduction` apply it to the set of the lengths of the list up to which a plan is as it should be.
The inductive invariant `IInv == TypeOK /\ IndexesFit /\ ReceiversFit /\ LeftAreFuller` relates a state to
its indexes, which are old after the first round.

- `LeftAreFuller` is why shards do not go back: every move goes at least two down in the *index*, which
  the rounds do not change; the pods a shard has left are therefore fuller, by the index, than the one it is with.
- `NewestOfComparable` says which versions the filter works for: those of which one is at least as
  new in every part (`Comparable`). The run `older_version` shows that the hypothesis is needed.
- For `FreshRoundsEvenOut` a plan is taken apart into moves: one shard moved from a pod with n to one with at
  most n - 2 shards loses two or more of the pairs of shards that share a pod.
- For `FreshRoundBalances` suppose a pod that lost nothing ends two behind another. The rate held nobody back
  and the versions exclude nobody, so the reduce would have given it the last shard it gave away, unless it
  gave none; then no pod had a surplus, and counting the shards contradicts the average.

| Theorem of `Cluster_proofs` | States |
|---|---|
| `ClusterRunsShardManager` | `ClusterSpec => Spec`: `Cluster` implements `ShardManager` |
| `ClusterTypeCorrect` | `ClusterSpec => []ClusterTypeOK` |
| `HeldShardsAreKnown` | `ClusterSpec => []HeldShardsKnown` |
| `OneServer`, `OneSingleton` | `ClusterSpec => []SingleServer`, `ClusterSpec => []SingletonOnce` |
| `TableHeldByPods` | `ClusterSpec => []TableIsHeld` |
| `ClusterContracts`, `ClusterOnlyReleasedMove`, `ClusterImplementsOwnership` | what `ShardManager_proofs` proves, of the cluster |
| `SettledSafe`, `SettledImplementsOwnership` | `SettledSpec => [](SingleServer /\ SingletonOnce /\ TableIsHeld /\ PhaseContracts)`, `SettledSpec => ImplementsOwnership` |

From the manager's assumptions. Every step of the cluster is a step of the
manager (`ManagerStep`), so what is proved of the manager holds here, and only what relates it to its pods is
new. `HeldShardsKnown` (what a pod holds with the manager's knowledge is in the table) is nearly inductive; `Kept` adds what is
missing: pods that answered to `unassign` hold none of the shards they were called for
(`UnassignHeard`), since the table loses these shards only after the answer; and while the manager is down no
shard counts as known (`NothingWhileDown`), since it comes back with an empty table. The second needs that a
manager that is down has nothing forked that could start a rebalance. `CalledOnce`, about the manager alone, says that
a pod is called once in each phase: a failed call cannot be answered later in the same phase. `SingleServer` and
`SingletonOnce` follow (`OneHolder`): two pods that know of a shard would both be its owner in a table that is a function.
`TableIsHeld` is the converse of `HeldShardsKnown` and true only while nothing failed; `WhileUndisturbed`
adds to it that pods which answered to `assign` hold what they were given (`AssignHeard`).
The last two start from the states `MCCluster` starts from, in which one pod holds all shards; `ShardOwnership` may begin with any owners. That elements are used some time
after they were read changes nothing in the argument: a pod takes what it read as `stray`, and the invariant says of `underWay` only what
type it has (`UnderWayTyped`).

### 5.2 Entities and messages

| Theorem of `EntityManager_proofs` | States |
|---|---|
| `TypeCorrect` | `Spec => []TypeOK` |
| `NeverTwoInstances` | `Spec => []OneInstance` |
| `MarkedBeforeAnswered` | `Spec => []ProcessedIsMarked`: what an answer and a record mean, with writes that fail |
| `ShutdownLeavesNone` | `Spec => []NoneLeftBehind` |

From `NamesAssumption` and `BoundsAssumption` only: any number of entities, messages,
senders, terminations and crashes. `OneInstance` speaks of pairs of instances and is not
inductive. The invariant is `IInv == PodTypeOK /\ CallsFit /\ LockHeld /\ EntriesFit /\ InstancesHeld /\
ShutdownFits`: an instance whose handler runs either is in the map
(`InstancesHeld`), which has one instance per entity, or is about to be put there by the call
that holds the lock, which found no entry and keeps everybody else from making one (`LockHeld`). An instance therefore
cannot leave the map before its handler ended. `ShutdownFits` says that what `unregister` has gone past without a
timeout has ended, or was being created when it began. Most actions only let instances get on with their lives:
`Evolves` names what they may change and `Quiet` what they leave alone, and the facts about instances are kept by
whatever evolves.

`ProcessedIsMarked` needs a second invariant, `MInv` (which also has the types of the record), about calls, records and states of messages: an instance says "Processed" of
a message only after it was handled (`Handling`), and a call that has got past `upsert` has its message on record, or a write of it
has failed (`Recorded`). `Mark` runs after the answer of the instance, so what is marked was handled; and if it updates nothing, either
it failed or the `upsert` before it had.

| Theorem of `EntityManager_proofs` | States |
|---|---|
| `NeverHandledTwice` | `Spec => []HandledOnce` |
| `ImplementsEntityLife` | `Spec => RefinesEntityLife`: `EntityManager` refines `EntityLife` |

From the same assumptions. `HandledOnce` needs the converse of what it says: every message in a queue
is acknowledged and in no other place of the queue (`QueuesFit`), so that an offer, which requires that the
message is unknown, cannot repeat one that waits, and the head that is processed is not further back again.
`StepKinds` sorts the steps by what they do to the instances. The refinement reads the lives off the sequence
of instances (`AliveIn`, `KnownIn`); by `OneInstance` every life is that of one instance, and one lemma
for each kind of step says how the view changes: the creation of an instance is a `Start`
since no instance of the entity lives, an offer to an instance whose handler has ended changes nothing, the
poison is an `End` of one entity and a crash the `End` of all.

| Theorem of `Messaging_proofs` | States |
|---|---|
| `TypeCorrect` | `Spec => []TypeOK` |
| `HandledOnceAtHome` | `Spec => []HandledOncePerLife` |

From `NamesAssumption` (which also says that the names of senders are no names of the calls of a broadcast) and
`LimitsAssumption`: any pods, messages, senders and broadcasts. The invariant is
`IInv == TypeOK /\ CallsHavePods /\ DeadKnowNothing /\ OneHome`. As long as nothing ended and nothing moved,
the entity lives on one pod or nowhere (`OneHome`): a sender looks up the pod at every attempt
and that pod is the only one to take the message. `handled` then counts what that life knows: a message sent again after
its answer was lost finds the state "Processed", which `EntityLife` does not leave. `DeadKnowNothing` lets the life start.

### 5.3 Workflows

| Theorem of `WorkflowRuntime_proofs` | States |
|---|---|
| `TypeCorrect` | `Spec => []TypeOK` |
| `VersionAlwaysPinned` | `Spec => []VersionPinned` |
| `WorkflowJournalInOrder` | `Spec => []WorkflowInOrder`: the workflow's part of `JournalInOrder` |
| `JournalNeverBroken` | `Spec => []NeverOutOfOrder` |

From `ProgramAssumption`, `DataAssumption` and `LimitsAssumption`: any program of branches, any deployed versions,
values, timeouts, crashes and interruptions. `Spec` starts an attempt only when no other is live; with the attempts of
`WorkflowEngine` the last theorem is false, as `journal_out_of_order` shows, and the proof shows where: `OneLive`
is what lets an append of one attempt leave the others alone. `CoordinatorFits` relates a coordinator to the
journal: what is still to be replayed is the end of the journal, and its counter is the number of events before
that, or of all of them once the replay is over. `FiberFits` says that a fiber runs the version of the
first event; it holds for attempts that died as well, whose fibers go on attempting activities. A coordinator that
replays could still meet an event that it does not expect after the exit, or before the first attempt: a second
invariant, `OrderInv`, says that the journal begins with an attempt and that nothing follows the exit, which needs
that a coordinator that records anything has met no exit in its replay (`NoExit`).

| Theorem of `DurableExecution_proofs` | States, if `Determined` |
|---|---|
| `JournalsInOrder` | `Spec => []JournalInOrder` |
| `JoinedOnRecord` | `Spec => []JoinedHaveResult` |
| `DeterminismKept` | `Spec => []ReplayIsDeterministic` |
| `NeverRunAgain` | `Spec => NoReexecution` |
| `ImplementsDurableExecution` | `Spec => RefinesDurableExecution`: `WorkflowRuntime` refines `DurableExecution` |

`Determined` says that the program alone gives the order in which activities are forked: no activity has a timeout or
occurs twice, and only the last branch may go on to a second one. A sequential workflow of any length and
one with any number of parallel activities are such programs, and so are those that fork some activities and then go
on with others one after the other. Versions, values, crashes and interruptions are as arbitrary as before.

The five properties hang together. That an activity's events are in order needs that nobody
else writes its journal while it runs; that needs that its result was not on record when it was permitted to run, so
that every join on record has a result; and that needs that a replay lets the branches come to where the journal says
they were, so that the fork it permits is the one that was recorded. They are one induction, with `IInv`, `OrderInv` and
`DetInv`, whose parts are:

- `HistoryFits`: the forks on record are in the order of the program, without gaps; an activity is
  joined once; the exit comes after all joins. `RecordFits`: the events of an activity are numbered, and its exit is a value.
- `WriterFits`: a branch between its permission to run an activity and the record of its exit knows the length of
  the activity's journal, which has no exit. As only one attempt is live and no activity occurs twice, it is the only such branch.
- `GotRight`: what an attempt knows of its activities is on record.
- `ProgressFits`: while nothing disturbs the branches, their positions are those the replayed part of the journal gives:
  an activity is forked, or joined, there exactly if its branch was permitted to run it, or has gone past it.
- `QueueFits` and `MailFits`: what the coordinator has put aside, has to handle again and has in its mailbox,
  one after the other, are the requests of the branches that wait, the forks in the order of the
  program. So the first fork it meets is the next on record, whatever the order of the joins.
- `BranchesFollow`: when these relations hold: as long as the attempt is live, its fiber has begun and it is not yielding.

A step takes a message from this queue or adds one (`Shorter`, `Longer`), moves one branch
(`OnlyMoves`) and appends one event; there is a lemma for each of the three, and the lemma of an action puts them together.
An interruption ends the relations for its attempt, which records nothing more of the workflow; an activity that runs
may still record its exit, which is why `WriterFits` holds in any attempt. The refinement follows: the exit of an activity is
appended only where `WriterFits` holds (`Decide`), the exit of the workflow only when all branches have gone past their
activities, with what the attempt knows, which `GotRight` says is on record (`End`).

`DetInv` was checked with TLC before it was proved, on the instance of the run `workflow` and on the branches `<<x1>>` and
`<<x2, x3>>`.

### 5.4 What the proofs found

Three properties that TLC had found true of the runs' instances turned out to be wrong in general. They are now stated as the code
has them, and proved (the first two) or checked.

- "A round balances": `FreshRoundBalances` said of all pods that they end within one shard of each other. The proof
  got stuck at pods that lose shards: `pickNewPods` gives nothing in a round to a pod it takes from. Nine shards on
  five pods, spread 2, 2, 5, 0, 0: such a pod can end two behind. It has the average rounded down, and that is stated.
- "A shard moves once": there were two moves of a shard in a row, and only the measure of `LeftAreFuller` goes
  down. Seven shards on pods with 0, 2 and 5 and a rebalance rate of 1/7: the first round gives the emptiest pod one shard, is not
  allowed more, and takes the next one to the second pod; the next round takes that shard on to the emptiest. `NeverMovesBack` is
  what remains.
- "A replay is deterministic": the branches of a workflow are fibers that fork their activities in some
  order; where a branch goes on to a second activity, this order depends on when the others end, and a
  replay may repeat it differently. TLC finds `ReplayIsDeterministic` violated for the branches
  `<<x1, x2>>` and `<<x3>>`, with the interleaving of fibers the model allows (any); whether the scheduler of `effect`
  takes these orders is outside of the model. In the run every branch has one activity.

### 5.5 What is only model-checked

Every safety property and every refinement the runs check is a theorem. Liveness and `ENABLED` are out of the provers'
reach: `RebalanceEnds`, `SuspectsLeave`, `RegistrationsSaved`, `SendEnds`, `AtLeastOnce`,
`RepliesArrive`, `BroadcastDelivered` and `AttemptEnds` stay with TLC.

For programs that are not `Determined` the five theorems of `DurableExecution_proofs` do not hold as they are: `ReplayIsDeterministic`
is false where two branches go on (5.4), and `JoinedHaveResult` where there are timeouts (section 4). Without timeouts, TLC finds the
other four true of the branches `<<x1, x2>>` and `<<x3>>` as well: an attempt that dies of broken determinism
records nothing wrong there. They are not proved for such programs: without the order of the forks the induction above has no
hold on what a replay permits.

## 6. What is left

Worth proving next: those four properties for any program without timeouts, with a weaker relation between the branches and the
journal that an attempt may leave by dying.

Not modelled: encodings, schemas and the formats of addresses (their values are opaque here); the RPC
layers below "a call succeeds, fails or loses its answer", HTTP and the browser's broadcast
channel (I/O); Postgres itself (external; what the code asks of it is modelled); a file torn
by a crash during a write (`StorageFile.ts` writes in place, at the level of the operating
system); `fromFunctionEffect` (no state); the scheduler of `CrashableRuntime` (test support; its effect is `Crash`).
