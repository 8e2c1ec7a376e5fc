------------------------- MODULE ShardManager_proofs -------------------------
(***************************************************************************)
(* Proofs about ShardManager, for any pods, shards, versions, rebalance    *)
(* rate and bounds.  Of Decide they use only that it is a plan for shards  *)
(* (DecideSound): whatever a rebalance decides, its phases and the         *)
(* requests that run beside it keep the table of owners sound.             *)
(***************************************************************************)
EXTENDS ShardManager, Rebalance_proofs

USE ShardsAssumption, PodsAssumption, VersionsAssumption, NoneAssumption

\* HashMap.set and HashMap.remove on the registered pods.
LEMMA PutType ==
  ASSUME NEW pods \in PodMaps, NEW p \in Pods, NEW v \in Versions
  PROVE  Put(pods, p, v) \in PodMaps
<1>1. PICK P \in SUBSET Pods : pods \in [P -> Versions]
  BY DEF PodMaps
<1>2. /\ Put(pods, p, v) \in [P \cup {p} -> Versions]
      /\ P \cup {p} \in SUBSET Pods
  BY <1>1 DEF Put
<1> QED BY <1>2 DEF PodMaps

LEMMA RestrictType ==
  ASSUME NEW pods \in PodMaps, NEW S \in SUBSET DOMAIN pods
  PROVE  Restrict(pods, S) \in PodMaps /\ DOMAIN Restrict(pods, S) = S
<1>1. PICK P \in SUBSET Pods : pods \in [P -> Versions]
  BY DEF PodMaps
<1>2. Restrict(pods, S) \in [S -> Versions] /\ S \in SUBSET Pods
  BY <1>1 DEF Restrict
<1> QED BY <1>2 DEF PodMaps

LEMMA NoneType ==
  NoPods \in PodMaps /\ DOMAIN NoPods = {} /\ Stay \in ShardMaps
<1>1. NoPods \in [{} -> Versions] /\ {} \in SUBSET Pods
  BY DEF NoPods
<1> QED BY <1>1 DEF NoPods, PodMaps, ShardMaps, Stay, PodOpt

\* HashMap.union with a None for every shard: whatever was loaded, no shard has a pod.
LEMMA InitialShardsStay ==
  ASSUME stored.shards \in ShardMaps, NEW pods
  PROVE  InitialShards(pods) = Stay
<1> DEFINE kept == {s \in DOMAIN stored.shards : Has(pods, stored.shards[s])}
           filtered == Restrict(stored.shards, kept)
<1>1. InitialShards(pods) = UnionOf(filtered, Stay)
  BY DEF InitialShards, RestrictValues
<1>2. DOMAIN filtered \subseteq Shards
  BY DEF ShardMaps, Restrict
<1> HIDE DEF filtered
<1>3. DOMAIN filtered \cup DOMAIN Stay = Shards
  BY <1>2 DEF Stay
<1>4. UnionOf(filtered, Stay) = [s \in Shards |-> NoPod]
  BY <1>3 DEF UnionOf, Has, Stay
<1> QED BY <1>1, <1>4 DEF Stay

\* The job a rebalance starts with: pings outstanding, nothing called yet.
LEMMA BeginJob ==
  ASSUME NEW st \in StateType, NEW kind \in Kinds, NEW immediately \in BOOLEAN,
         Begin(st, kind, immediately)
  PROVE  /\ job' \in JobType
         /\ job'.phase = "ping" /\ job'.acked = {} /\ job'.old = st.shards
         /\ job'.unassignFailed = {}
<1>1. PICK plan \in ShardMaps :
        job' = [Idle EXCEPT !.phase = "ping", !.kind = kind, !.immediately = immediately,
                            !.plan = plan, !.old = st.shards,
                            !.todo = Targets(plan) \cup Sources(plan, st.shards)]
  <2>1. Decide(st, immediately) \in ShardMaps
    BY DecideSound DEF SoundPlan
  <2> QED BY <2>1 DEF Begin
<1>2. st.shards \in ShardMaps
  BY DEF StateType
<1>3. /\ Targets(plan) \subseteq Pods
      /\ Sources(plan, st.shards) \subseteq Pods
  BY <1>2 DEF Targets, Sources, Moved, ShardMaps, PodOpt
<1>4. job' = [phase |-> "ping", kind |-> kind, immediately |-> immediately,
              plan |-> plan, old |-> st.shards,
              todo |-> Targets(plan) \cup Sources(plan, st.shards), acked |-> {},
              pingFailed |-> {}, unassignFailed |-> {}, assignFailed |-> {}]
  BY <1>1 DEF Idle
<1> QED BY <1>2, <1>3, <1>4 DEF JobType, Phases

\* updateShardsState and the body of unregister keep the type of the state.
LEMMA SetShardsType ==
  ASSUME state \in StateType, NEW S \in SUBSET Shards, NEW pod \in PodOpt
  PROVE  /\ SetShards(S, pod) \in StateType
         /\ SetShards(S, pod).pods = state.pods
         /\ SetShards(S, pod).shards =
              [s \in Shards |-> IF s \in S THEN pod ELSE state.shards[s]]
<1> DEFINE new == [s \in Shards |-> IF s \in S THEN pod ELSE state.shards[s]]
<1>1. new \in ShardMaps
  BY DEF StateType, ShardMaps
<1>2. SetShards(S, pod) = [state EXCEPT !.shards = new]
  BY DEF SetShards
<1> HIDE DEF new
<1>3. /\ SetShards(S, pod) \in StateType
      /\ SetShards(S, pod).pods = state.pods
      /\ SetShards(S, pod).shards = new
  BY <1>1, <1>2 DEF StateType
<1> QED BY <1>3 DEF new

LEMMA DropType ==
  ASSUME state \in StateType, NEW p \in Pods,
         saving \subseteq {"pods", "assignments"},
         waiting \in [urgent : Nat, register : Nat],
         Drop(p)
  PROVE  /\ state' \in StateType
         /\ DOMAIN state'.pods = DOMAIN state.pods \ {p}
         /\ state'.shards =
              [s \in Shards |-> IF state.shards[s] = p THEN NoPod ELSE state.shards[s]]
         /\ saving' \subseteq {"pods", "assignments"}
         /\ waiting' \in [urgent : Nat, register : Nat]
<1> DEFINE left == DOMAIN state.pods \ {p}
           new == [s \in Shards |-> IF state.shards[s] = p THEN NoPod ELSE state.shards[s]]
<1>1. /\ Restrict(state.pods, left) \in PodMaps
      /\ DOMAIN Restrict(state.pods, left) = left
  <2>1. state.pods \in PodMaps
    BY DEF StateType
  <2> QED BY <2>1, RestrictType
<1>2. new \in ShardMaps
  BY DEF StateType, ShardMaps, PodOpt
<1>3. state' = [state EXCEPT !.pods = Restrict(state.pods, left), !.shards = new]
  BY DEF Drop
<1> HIDE DEF left, new
<1>4. /\ state' \in StateType
      /\ state'.pods = Restrict(state.pods, left) /\ state'.shards = new
  BY <1>1, <1>2, <1>3 DEF StateType
<1>5. /\ saving' \subseteq {"pods", "assignments"}
      /\ waiting' \in [urgent : Nat, register : Nat]
  BY DEF Drop
<1> QED BY <1>1, <1>4, <1>5 DEF left, new
----------------------------------------------------------------------------
(* Type correctness.                                                       *)

LEMMA TypeInit == Init => TypeOK
<1> SUFFICES ASSUME Init PROVE TypeOK
  OBVIOUS
<1>1. state \in StateType
  BY NoneType, MakeType DEF Init
<1>2. job \in JobType
  BY NoneType DEF Init, Idle, JobType, Phases, Kinds
<1> QED BY <1>1, <1>2, NoneType DEF Init, TypeOK, NoRequest, Bounded

LEMMA SpendType ==
  ASSUME TypeOK, NEW what \in Bounded, Spend(what)
  PROVE  used' \in [Bounded -> Nat]
BY DEF TypeOK, Spend

\* A pod that answers or fails only touches the bound on faults.
LEMMA OutcomeType ==
  ASSUME TypeOK, NEW p \in Pods, Answers(p) \/ Fails(p)
  PROVE  used' \in [Bounded -> Nat]
BY SpendType DEF TypeOK, Answers, Fails, Bounded

\* The updates of a call to a pod keep the type of the job.
LEMMA JobUpdate ==
  ASSUME job \in JobType, NEW p \in Pods
  PROVE  /\ [job EXCEPT !.todo = @ \ {p}] \in JobType
         /\ [job EXCEPT !.acked = @ \ {p}] \in JobType
         /\ [job EXCEPT !.todo = @ \ {p}, !.acked = @ \cup {p}] \in JobType
         /\ [job EXCEPT !.todo = @ \ {p}, !.pingFailed = @ \cup {p}] \in JobType
         /\ [job EXCEPT !.todo = @ \ {p}, !.unassignFailed = @ \cup {p}] \in JobType
         /\ [job EXCEPT !.todo = @ \ {p}, !.assignFailed = @ \cup {p}] \in JobType
         /\ [job EXCEPT !.acked = @ \ {p}, !.assignFailed = @ \cup {p}] \in JobType
BY DEF JobType

\* The state and the job the manager boots with.
LEMMA BootState ==
  ASSUME TypeOK, Boot
  PROVE  \E st \in StateType, now \in BOOLEAN :
            /\ state' = st /\ state'.shards = Stay /\ Begin(st, "boot", now)
            /\ used' \in [Bounded -> Nat]
<1> USE DEF TypeOK
<1>0. PICK missed \in SUBSET (DOMAIN stored.pods \cap alive) :
        LET pods    == Restrict(stored.pods, (DOMAIN stored.pods \cap alive) \ missed)
            initial == Make(pods, InitialShards(pods))
            faults  == used["faults"] + Cardinality(missed)
        IN  /\ faults <= MaxFaults /\ used' = [used EXCEPT !["faults"] = faults]
            /\ state' = initial
            /\ Begin(initial, "boot", initial.unassigned # {})
  BY DEF Boot
<1> DEFINE pods    == Restrict(stored.pods, (DOMAIN stored.pods \cap alive) \ missed)
           initial == Make(pods, InitialShards(pods))
<1>1. initial \in StateType /\ initial.shards = Stay
  BY RestrictType, InitialShardsStay, NoneType, MakeType
<1>2. (initial.unassigned # {}) \in BOOLEAN
  OBVIOUS
<1>3. state' = initial /\ Begin(initial, "boot", initial.unassigned # {})
  BY <1>0
<1>4. used' \in [Bounded -> Nat]
  <2>1. Cardinality(missed) \in Nat
    BY FS_Subset, FS_CardinalityType
  <2> QED BY <1>0, <2>1 DEF Bounded
<1> HIDE DEF initial
<1> QED BY <1>1, <1>2, <1>3, <1>4

LEMMA TypeNext == TypeOK /\ [Next]_vars => TypeOK'
<1> SUFFICES ASSUME TypeOK, [Next]_vars PROVE TypeOK'
  OBVIOUS
<1> USE DEF TypeOK
<1>1. ASSUME NEW p \in Pods, NEW v \in Versions, Register(p, v) PROVE TypeOK'
  <2>1. state' \in StateType
    BY <1>1, PutType, MakeType DEF Register, StateType
  <2>2. used' \in [Bounded -> Nat]
    BY <1>1, SpendType DEF Register, Bounded
  <2>3. /\ waiting' \in [urgent : Nat, register : Nat]
        /\ saving' \subseteq {"pods", "assignments"}
    BY <1>1, SMTT(40) DEF Register
  <2> QED BY <1>1, <2>1, <2>2, <2>3 DEF Register
<1>2. ASSUME NEW p \in Pods, Unregister(p) PROVE TypeOK'
  BY <1>2, DropType DEF Unregister
<1>3. ASSUME NEW p \in Pods, NotifyUnhealthyPod(p) PROVE TypeOK'
  BY <1>3, OutcomeType DEF NotifyUnhealthyPod
<1>4. ASSUME NEW p \in Pods, CheckHealth(p) PROVE TypeOK'
  BY <1>4, OutcomeType DEF CheckHealth
<1>5. ASSUME NEW p \in Pods, UnregisterDead(p) PROVE TypeOK'
  BY <1>5, DropType DEF UnregisterDead
<1>6. ASSUME NEW p \in Pods, PodCalls(p) PROVE TypeOK'
  <2>1. CASE Ping(p)
    <3>1. job' \in JobType
      BY <2>1, JobUpdate, ZenonT(60) DEF Ping
    <3>2. used' \in [Bounded -> Nat]
      BY <2>1, OutcomeType DEF Ping
    <3> QED BY <2>1, <3>1, <3>2, SMTT(40) DEF Ping
  <2>2. CASE CallUnassign(p)
    <3>1. job' \in JobType
      BY <2>2, JobUpdate, ZenonT(60) DEF CallUnassign
    <3>2. used' \in [Bounded -> Nat]
      BY <2>2, OutcomeType DEF CallUnassign
    <3> QED BY <2>2, <3>1, <3>2 DEF CallUnassign
  <2>3. CASE CallAssign(p)
    <3>1. job' \in JobType
      BY <2>3, JobUpdate DEF CallAssign
    <3>2. used' \in [Bounded -> Nat]
      BY <2>3, OutcomeType DEF CallAssign
    <3> QED BY <2>3, <3>1, <3>2 DEF CallAssign
  <2>4. CASE FinishUnassign(p)
    <3>1. ToUnassign(p) \subseteq Shards
      BY DEF ToUnassign, TakenFrom, Moved
    <3>2. state' \in StateType
      BY <2>4, <3>1, SetShardsType DEF FinishUnassign, PodOpt
    <3> QED BY <2>4, <3>2 DEF FinishUnassign, JobType
  <2>5. CASE FinishAssign(p)
    <3>1. ToAssign(p) \subseteq Shards
      BY DEF ToAssign, GivenTo
    <3>2. state' \in StateType
      <4>1. SetShards(ToAssign(p), p) \in StateType
        BY <3>1, SetShardsType DEF PodOpt
      <4> QED BY <2>5, <4>1 DEF FinishAssign
    <3>3. job' \in JobType
      BY <2>5, JobUpdate DEF FinishAssign
    <3> QED BY <2>5, <3>2, <3>3 DEF FinishAssign
  <2> QED BY <1>6, <2>1, <2>2, <2>3, <2>4, <2>5 DEF PodCalls
<1>7. CASE PhaseEnds
  <2>1. CASE PingsDone
    BY <2>1 DEF PingsDone, JobType, Phases
  <2>2. CASE UnassignsDone
    BY <2>2 DEF UnassignsDone, AssignPods, JobType, Phases
  <2>3. CASE AssignsDone
    <3>1. Idle \in JobType
      BY NoneType DEF Idle, JobType, Phases, Kinds
    <3>2. FailedPods \subseteq Pods
      BY DEF FailedPods, JobType
    <3> QED BY <2>3, <3>1, <3>2 DEF AssignsDone, EndRun, ToSave
  <2> QED BY <1>7, <2>1, <2>2, <2>3 DEF PhaseEnds
<1>8. CASE Starts
  <2>1. \/ Begin(state, "urgent", TRUE)
        \/ Begin(state, "register", FALSE)
        \/ Begin(state, "periodic", FALSE)
    BY <1>8 DEF Starts, StartUrgent, StartOfRegister, StartPeriodic
  <2>2. {"urgent", "register", "periodic"} \subseteq Kinds
    BY DEF Kinds
  <2>3. job' \in JobType
    BY <2>1, <2>2, BeginJob
  <2>4. waiting' \in [urgent : Nat, register : Nat]
    <3>1. CASE StartUrgent
      BY <3>1 DEF StartUrgent
    <3>2. CASE StartOfRegister
      BY <3>2 DEF StartOfRegister
    <3>3. CASE StartPeriodic
      BY <3>3 DEF StartPeriodic
    <3> QED BY <1>8, <3>1, <3>2, <3>3 DEF Starts
  <2> QED BY <1>8, <2>3, <2>4 DEF Starts, StartUrgent, StartOfRegister, StartPeriodic
<1>9. CASE SavePods \/ SaveAssignments
  BY <1>9 DEF SavePods, SaveAssignments, StateType
<1>10. CASE Crash
  <2>1. Idle \in JobType
    BY NoneType DEF Idle, JobType, Phases, Kinds
  <2>2. state' \in StateType
    BY <1>10, NoneType, MakeType DEF Crash
  <2>3. used' \in [Bounded -> Nat]
    BY <1>10, SpendType DEF Crash, Bounded
  <2> QED BY <1>10, <2>1, <2>2, <2>3 DEF Crash, NoRequest
<1>11. CASE Boot
  <2>1. state' \in StateType /\ job' \in JobType /\ used' \in [Bounded -> Nat]
    BY <1>11, BootState, BeginJob DEF Kinds
  <2> QED BY <1>11, <2>1 DEF Boot
<1>12. ASSUME NEW p \in Pods, PodDies(p) \/ PodStarts(p) PROVE TypeOK'
  <2>1. used' \in [Bounded -> Nat]
    BY <1>12, SpendType DEF PodDies, PodStarts, Bounded
  <2>2. UNCHANGED managerVars /\ UNCHANGED stored
    BY <1>12 DEF PodDies, PodStarts
  <2>3. alive' \subseteq Pods
    BY <1>12 DEF PodDies, PodStarts
  <2> QED BY <2>1, <2>2, <2>3 DEF managerVars
<1>13. CASE UNCHANGED vars
  BY <1>13 DEF vars, managerVars
<1> QED BY <1>1, <1>2, <1>3, <1>4, <1>5, <1>6, <1>7, <1>8, <1>9, <1>10, <1>11, <1>12, <1>13
        DEF Next, Requests

\* Every variable of the manager stays within its type, through crashes and restarts.
THEOREM TypeCorrect == Spec => []TypeOK
BY TypeInit, TypeNext, PTL DEF Spec
----------------------------------------------------------------------------
(* The inductive invariant.  AssignedPodsRegistered alone would do for its *)
(* own induction; that the manager implements ShardOwnership also needs to *)
(* know, at FinishAssign, that the shards of the call have no owner, which *)
(* is the last of the contracts the phases of a rebalance hand on.         *)

IInv == TypeOK /\ AssignedPodsRegistered /\ PhaseContracts

\* What a rebalance still has to release and to assign depends on its decision and
\* on the failures so far only.
LEMMA SameToUnassign ==
  ASSUME job'.plan = job.plan, job'.old = job.old, job'.pingFailed = job.pingFailed
  PROVE  /\ Moved(job'.plan) = Moved(job.plan) /\ Removed' = Removed
         /\ \A p : ToUnassign(p)' = ToUnassign(p)
BY DEF ToUnassign, TakenFrom, Moved, Removed

LEMMA SameToAssign ==
  ASSUME job'.plan = job.plan, job'.old = job.old, job'.pingFailed = job.pingFailed,
         job'.unassignFailed = job.unassignFailed
  PROVE  \A p : ToAssign(p)' = ToAssign(p)
<1>1. Removed' = Removed /\ \A p : ToUnassign(p)' = ToUnassign(p)
  BY SameToUnassign
<1>2. Unreleased' = Unreleased
  BY <1>1 DEF Unreleased
<1> QED BY <1>1, <1>2 DEF ToAssign, GivenTo

\* Shards that lose their pod, by whatever request, do not disturb a running rebalance.
LEMMA ContractsSurviveLosses ==
  ASSUME PhaseContracts, job' = job, TypeOK,
         \A s \in Shards : state'.shards[s] \in {state.shards[s], NoPod}
  PROVE  PhaseContracts'
<1>1. /\ Moved(job'.plan) = Moved(job.plan)
      /\ \A p : ToUnassign(p)' = ToUnassign(p) /\ ToAssign(p)' = ToAssign(p)
  BY SameToUnassign, SameToAssign
<1>2. /\ Moved(job.plan) \subseteq Shards
      /\ \A p : ToUnassign(p) \subseteq Shards /\ ToAssign(p) \subseteq Shards
  BY DEF Moved, ToUnassign, TakenFrom, ToAssign, GivenTo
<1> QED BY <1>1, <1>2 DEF PhaseContracts

LEMMA ContractsAtBegin ==
  ASSUME NEW st \in StateType, NEW kind \in Kinds, NEW immediately \in BOOLEAN,
         Begin(st, kind, immediately), state'.shards = st.shards
  PROVE  PhaseContracts'
<1>1. /\ job'.phase = "ping" /\ job'.acked = {} /\ job'.old = st.shards
      /\ job'.unassignFailed = {}
  BY BeginJob
<1> QED BY <1>1 DEF PhaseContracts

LEMMA ContractsInit == Init => PhaseContracts
BY DEF Init, Idle, PhaseContracts

\* A pod has answered a call.
LEMMA Answered ==
  ASSUME job \in JobType, NEW p \in Pods, job' = [job EXCEPT !.todo = @ \ {p}, !.acked = @ \cup {p}]
  PROVE  /\ job'.phase = job.phase /\ job'.plan = job.plan /\ job'.old = job.old
         /\ job'.pingFailed = job.pingFailed
         /\ job'.todo = job.todo \ {p} /\ job'.acked = job.acked \cup {p}
         /\ job'.unassignFailed = job.unassignFailed
BY DEF JobType

\* An unassignment has failed.
LEMMA UnassignFailed ==
  ASSUME job \in JobType, NEW p \in Pods, job' = [job EXCEPT !.todo = @ \ {p}, !.unassignFailed = @ \cup {p}]
  PROVE  /\ job'.phase = job.phase /\ job'.plan = job.plan /\ job'.old = job.old
         /\ job'.pingFailed = job.pingFailed
         /\ job'.todo = job.todo \ {p} /\ job'.acked = job.acked
         /\ job'.unassignFailed = job.unassignFailed \cup {p}
BY DEF JobType

\* An assignment has failed: the call, or the update of the state after it.
LEMMA AssignFailed ==
  ASSUME job \in JobType, NEW p \in Pods, job' = [job EXCEPT !.todo = @ \ {p}, !.assignFailed = @ \cup {p}]
  PROVE  /\ job'.phase = job.phase /\ job'.plan = job.plan /\ job'.old = job.old
         /\ job'.pingFailed = job.pingFailed
         /\ job'.todo = job.todo \ {p} /\ job'.acked = job.acked
         /\ job'.unassignFailed = job.unassignFailed
BY DEF JobType

LEMMA UpdateFailed ==
  ASSUME job \in JobType, NEW p \in Pods, job' = [job EXCEPT !.acked = @ \ {p}, !.assignFailed = @ \cup {p}]
  PROVE  /\ job'.phase = job.phase /\ job'.plan = job.plan /\ job'.old = job.old
         /\ job'.pingFailed = job.pingFailed
         /\ job'.todo = job.todo /\ job'.acked = job.acked \ {p}
         /\ job'.unassignFailed = job.unassignFailed
BY DEF JobType

\* The calls to the pods and the phases of the rebalance.
LEMMA ContractsPodCalls ==
  ASSUME IInv, NEW p \in Pods, PodCalls(p)
  PROVE  PhaseContracts'
<1> USE DEF IInv, TypeOK
<1>0. ToUnassign(p) \subseteq Shards /\ ToAssign(p) \subseteq Shards
  BY DEF ToUnassign, TakenFrom, Moved, ToAssign, GivenTo
<1>1. CASE Ping(p)
  <2>1. /\ job'.phase = "ping" /\ job'.acked = {} /\ job'.unassignFailed = {}
        /\ job'.plan = job.plan /\ job'.old = job.old
    BY <1>1, ZenonT(60) DEF Ping, PhaseContracts, JobType
  <2>2. state' = state
    BY <1>1 DEF Ping
  <2>3. Moved(job'.plan) = Moved(job.plan)
    BY <2>1
  <2> QED BY <1>1, <2>1, <2>2, <2>3 DEF PhaseContracts, Ping
<1>2. CASE CallUnassign(p)
  <2>1. \/ job' = [job EXCEPT !.todo = @ \ {p}, !.acked = @ \cup {p}]
        \/ job' = [job EXCEPT !.todo = @ \ {p}, !.unassignFailed = @ \cup {p}]
    BY <1>2 DEF CallUnassign
  <2>2. /\ job'.phase = job.phase /\ job'.plan = job.plan /\ job'.old = job.old
        /\ job'.pingFailed = job.pingFailed
        /\ job'.todo = job.todo \ {p}
        /\ \/ /\ job'.acked = job.acked \cup {p}
              /\ job'.unassignFailed = job.unassignFailed
           \/ /\ job'.acked = job.acked
              /\ job'.unassignFailed = job.unassignFailed \cup {p}
    BY <2>1, Answered, UnassignFailed
  <2>3. job.phase = "unassign" /\ p \in job.todo /\ state' = state
    BY <1>2 DEF CallUnassign
  <2>4. /\ Moved(job'.plan) = Moved(job.plan)
        /\ \A q : ToUnassign(q)' = ToUnassign(q)
    BY <2>2, SameToUnassign
  <2>5. /\ job'.todo \cup job'.acked \cup job'.unassignFailed
             = job.todo \cup job.acked \cup job.unassignFailed
        /\ job'.todo \cap job'.acked = {}
    BY <2>2, <2>3 DEF PhaseContracts
  <2> QED BY <2>2, <2>3, <2>4, <2>5 DEF PhaseContracts
<1>3. CASE FinishUnassign(p)
  <2>1. /\ job.phase = "unassign" /\ job'.phase = "unassign" /\ p \in job.acked
        /\ job'.plan = job.plan /\ job'.old = job.old /\ job'.pingFailed = job.pingFailed
        /\ job'.todo = job.todo /\ job'.acked = job.acked \ {p}
        /\ job'.unassignFailed = job.unassignFailed
    BY <1>3 DEF FinishUnassign, JobType
  <2>2. /\ Moved(job'.plan) = Moved(job.plan)
        /\ \A q : ToUnassign(q)' = ToUnassign(q)
    BY <2>1, SameToUnassign
  <2>3. \A s \in Shards :
          state'.shards[s] = IF s \in ToUnassign(p) THEN NoPod ELSE state.shards[s]
    <3>1. NoPod \in PodOpt
      BY DEF PodOpt
    <3>2. SetShards(ToUnassign(p), NoPod).shards =
            [s \in Shards |-> IF s \in ToUnassign(p) THEN NoPod ELSE state.shards[s]]
      BY <1>0, <3>1, SetShardsType
    <3> QED BY <1>3, <3>2 DEF FinishUnassign
  <2>4. /\ Moved(job.plan) \subseteq Shards
        /\ \A q : ToUnassign(q) \subseteq Shards
    BY DEF Moved, ToUnassign, TakenFrom
  <2> QED BY <2>1, <2>2, <2>3, <2>4 DEF PhaseContracts
<1>4. CASE CallAssign(p)
  <2>1. \/ job' = [job EXCEPT !.todo = @ \ {p}, !.acked = @ \cup {p}]
        \/ job' = [job EXCEPT !.todo = @ \ {p}, !.assignFailed = @ \cup {p}]
    BY <1>4 DEF CallAssign
  <2>2. /\ job'.phase = job.phase /\ job'.plan = job.plan /\ job'.old = job.old
        /\ job'.pingFailed = job.pingFailed
        /\ job'.unassignFailed = job.unassignFailed
        /\ job'.todo = job.todo \ {p}
        /\ job'.acked \in {job.acked, job.acked \cup {p}}
    BY <2>1, Answered, AssignFailed
  <2>3. job.phase = "assign" /\ p \in job.todo /\ state' = state
    BY <1>4 DEF CallAssign
  <2>4. \A q : ToAssign(q)' = ToAssign(q)
    BY <2>2, SameToAssign
  <2>5. /\ job'.todo \cup job'.acked \subseteq job.todo \cup job.acked
        /\ job'.todo \cap job'.acked = {}
    BY <2>2, <2>3 DEF PhaseContracts
  <2> QED BY <2>2, <2>3, <2>4, <2>5 DEF PhaseContracts
<1>5. CASE FinishAssign(p)
  <2>1. /\ job.phase = "assign" /\ job'.phase = "assign" /\ p \in job.acked
        /\ job'.plan = job.plan /\ job'.old = job.old /\ job'.pingFailed = job.pingFailed
        /\ job'.todo = job.todo /\ job'.acked = job.acked \ {p}
        /\ job'.unassignFailed = job.unassignFailed
    <3>1. CASE job' = [job EXCEPT !.acked = @ \ {p}]
      BY <1>5, <3>1 DEF FinishAssign, JobType
    <3>2. CASE job' = [job EXCEPT !.acked = @ \ {p}, !.assignFailed = @ \cup {p}]
      BY <1>5, <3>2, UpdateFailed DEF FinishAssign
    <3> QED BY <1>5, <3>1, <3>2 DEF FinishAssign
  <2>2. \A q : ToAssign(q)' = ToAssign(q)
    BY <2>1, SameToAssign
  <2>3. SetShards(ToAssign(p), p).shards =
          [s \in Shards |-> IF s \in ToAssign(p) THEN p ELSE state.shards[s]]
    BY <1>0, SetShardsType DEF PodOpt
  <2>4. \A s \in Shards \ ToAssign(p) : state'.shards[s] = state.shards[s]
    BY <1>5, <2>3 DEF FinishAssign
  <2>5. p \notin job'.todo \cup job'.acked
    BY <2>1 DEF PhaseContracts
  <2>6. \A q \in job'.todo \cup job'.acked : ToAssign(q) \subseteq Shards \ ToAssign(p)
    BY <2>5 DEF ToAssign, GivenTo
  <2>7. /\ job'.todo \cap job'.acked = {}
        /\ job'.todo \cup job'.acked \subseteq job.todo \cup job.acked
    BY <2>1 DEF PhaseContracts
  <2> QED BY <2>1, <2>2, <2>4, <2>6, <2>7 DEF PhaseContracts
<1> QED BY <1>1, <1>2, <1>3, <1>4, <1>5 DEF PodCalls

LEMMA ContractsPhaseEnds ==
  ASSUME IInv, PhaseEnds
  PROVE  PhaseContracts'
<1> USE DEF IInv, TypeOK
<1>1. CASE PingsDone
  <2>1. /\ job.phase = "ping" /\ job'.phase = "unassign" /\ state' = state
        /\ job'.plan = job.plan /\ job'.old = job.old /\ job'.pingFailed = job.pingFailed
        /\ job'.todo = {p \in Pods : ToUnassign(p) # {}}
        /\ job'.acked = {} /\ job'.unassignFailed = {}
    BY <1>1 DEF PingsDone, PhaseContracts, JobType
  <2>2. /\ Moved(job'.plan) = Moved(job.plan)
        /\ \A q : ToUnassign(q)' = ToUnassign(q)
    BY <2>1, SameToUnassign
  <2> QED BY <2>1, <2>2 DEF PhaseContracts
<1>2. CASE UnassignsDone
  <2>1. /\ job.phase = "unassign" /\ job'.phase = "assign" /\ state' = state
        /\ job'.plan = job.plan /\ job'.old = job.old /\ job'.pingFailed = job.pingFailed
        /\ job.todo = {} /\ job.acked = {}
        /\ job'.todo = AssignPods /\ job'.acked = {}
        /\ job'.unassignFailed = job.unassignFailed
    BY <1>2 DEF UnassignsDone, JobType
  <2>2. \A q : ToAssign(q)' = ToAssign(q)
    BY <2>1, SameToAssign
  <2>3. ASSUME NEW p \in AssignPods, NEW s \in ToAssign(p) PROVE state.shards[s] = NoPod
    <3>1. /\ s \in Moved(job.plan) /\ s \in Shards /\ s \notin Removed /\ s \notin Unreleased
      BY <2>3 DEF ToAssign, GivenTo, Moved, AssignPods
    <3>2. state.shards[s] \in {job.old[s], NoPod}
      BY <2>1, <3>1 DEF PhaseContracts
    <3>3. CASE job.old[s] = NoPod
      BY <3>2, <3>3
    <3>4. CASE job.old[s] # NoPod
      <4>1. job.old[s] \in Pods
        BY <3>1, <3>4 DEF JobType, ShardMaps, PodOpt
      <4>2. s \in ToUnassign(job.old[s])
        BY <3>1 DEF ToUnassign, TakenFrom
      <4>3. job.old[s] \notin job.unassignFailed
        BY <3>1, <4>2 DEF Unreleased
      <4> QED BY <2>1, <4>1, <4>2, <4>3 DEF PhaseContracts
    <3> QED BY <3>3, <3>4
  <2>4. AssignPods \cap job.unassignFailed = {}
    BY DEF AssignPods
  <2> QED BY <2>1, <2>2, <2>3, <2>4 DEF PhaseContracts
<1>3. CASE AssignsDone
  BY <1>3 DEF AssignsDone, EndRun, Idle, PhaseContracts
<1> QED BY <1>1, <1>2, <1>3 DEF PhaseEnds

\* A shard that loses its pod, or an initial state without owners, is no step for
\* AssignedPodsRegistered; the one step that gives a shard to a pod checks the pod.
LEMMA RegisteredNext ==
  ASSUME IInv, [Next]_vars
  PROVE  AssignedPodsRegistered'
<1> USE DEF IInv, TypeOK
<1>1. ASSUME state'.shards = state.shards, DOMAIN state.pods \subseteq DOMAIN state'.pods
      PROVE  AssignedPodsRegistered'
  BY <1>1 DEF AssignedPodsRegistered, Registered
<1>2. ASSUME NEW p \in Pods, NEW v \in Versions, Register(p, v)
      PROVE  AssignedPodsRegistered'
  <2>1. state' = Make(Put(state.pods, p, v), state.shards)
    BY <1>2 DEF Register
  <2>2. state'.shards = state.shards /\ state'.pods = Put(state.pods, p, v)
    BY <2>1, PutType, MakeType DEF StateType
  <2> QED BY <1>1, <2>2 DEF Put
<1>3. ASSUME NEW p \in Pods, Drop(p) PROVE AssignedPodsRegistered'
  BY <1>3, DropType, ZenonT(60) DEF AssignedPodsRegistered, Registered
<1>4. ASSUME NEW p \in Pods, PodCalls(p) PROVE AssignedPodsRegistered'
  <2>1. CASE FinishUnassign(p)
    <3>1. ToUnassign(p) \subseteq Shards /\ NoPod \in PodOpt
      BY DEF ToUnassign, TakenFrom, Moved, PodOpt
    <3>2. /\ state'.pods = state.pods
          /\ state'.shards =
               [s \in Shards |-> IF s \in ToUnassign(p) THEN NoPod ELSE state.shards[s]]
      BY <2>1, <3>1, SetShardsType DEF FinishUnassign
    <3> QED BY <3>2 DEF AssignedPodsRegistered, Registered
  <2>2. CASE FinishAssign(p)
    <3>1. ToAssign(p) \subseteq Shards /\ p \in PodOpt
      BY DEF ToAssign, GivenTo, PodOpt
    <3>2. CASE Has(state.pods, p)
      <4>1. /\ state'.pods = state.pods
            /\ state'.shards =
                 [s \in Shards |-> IF s \in ToAssign(p) THEN p ELSE state.shards[s]]
        BY <2>2, <3>1, <3>2, SetShardsType DEF FinishAssign
      <4> QED BY <3>2, <4>1 DEF AssignedPodsRegistered, Registered, Has
    <3>3. CASE ~Has(state.pods, p)
      BY <1>1, <2>2, <3>3 DEF FinishAssign
    <3> QED BY <3>2, <3>3
  <2>3. CASE Ping(p) \/ CallUnassign(p) \/ CallAssign(p)
    BY <1>1, <2>3 DEF Ping, CallUnassign, CallAssign
  <2> QED BY <1>4, <2>1, <2>2, <2>3 DEF PodCalls
<1>5. CASE Crash
  <2>1. state'.shards = Stay
    BY <1>5, NoneType, MakeType DEF Crash
  <2> QED BY <2>1 DEF AssignedPodsRegistered, Stay
<1>6. CASE Boot
  <2>1. state'.shards = Stay
    BY <1>6, BootState
  <2> QED BY <2>1 DEF AssignedPodsRegistered, Stay
<1>7. CASE PhaseEnds \/ Starts \/ SavePods \/ SaveAssignments
  <2>1. state' = state
    BY <1>7 DEF PhaseEnds, PingsDone, UnassignsDone, AssignsDone, EndRun, Starts, StartUrgent,
                StartOfRegister, StartPeriodic, SavePods, SaveAssignments
  <2> QED BY <1>1, <2>1
<1>8. ASSUME NEW p \in Pods, \/ Unregister(p) \/ NotifyUnhealthyPod(p) \/ CheckHealth(p)
                            \/ UnregisterDead(p) \/ PodDies(p) \/ PodStarts(p)
      PROVE  AssignedPodsRegistered'
  <2>1. state' = state \/ Drop(p)
    BY <1>8 DEF Unregister, NotifyUnhealthyPod, CheckHealth, UnregisterDead, PodDies,
                PodStarts, managerVars
  <2> QED BY <1>1, <1>3, <2>1
<1>9. CASE UNCHANGED vars
  BY <1>1, <1>9 DEF vars, managerVars
<1> QED BY <1>2, <1>4, <1>5, <1>6, <1>7, <1>8, <1>9 DEF Next, Requests

\* The contracts of the phases survive every step.
LEMMA ContractsNext ==
  ASSUME IInv, [Next]_vars
  PROVE  PhaseContracts'
<1> USE DEF IInv, TypeOK
<1>1. ASSUME job' = job, \A s \in Shards : state'.shards[s] \in {state.shards[s], NoPod}
      PROVE  PhaseContracts'
  BY <1>1, ContractsSurviveLosses
<1>2. ASSUME NEW p \in Pods, NEW v \in Versions, Register(p, v)
      PROVE  PhaseContracts'
  <2>1. state'.shards = state.shards /\ job' = job
    BY <1>2, PutType, MakeType DEF Register, StateType
  <2> QED BY <1>1, <2>1
<1>3. ASSUME NEW p \in Pods, \/ Unregister(p) \/ NotifyUnhealthyPod(p) \/ CheckHealth(p)
                            \/ UnregisterDead(p) \/ PodDies(p) \/ PodStarts(p)
      PROVE  PhaseContracts'
  <2>1. job' = job /\ (state' = state \/ Drop(p))
    BY <1>3 DEF Unregister, NotifyUnhealthyPod, CheckHealth, UnregisterDead, PodDies,
                PodStarts, managerVars
  <2>2. CASE Drop(p)
    <3>1. state'.shards =
            [s \in Shards |-> IF state.shards[s] = p THEN NoPod ELSE state.shards[s]]
      BY <2>2, DropType
    <3> QED BY <1>1, <2>1, <3>1
  <2> QED BY <1>1, <2>1, <2>2
<1>4. CASE Starts
  <2>1. /\ state' = state
        /\ \/ Begin(state, "urgent", TRUE)
           \/ Begin(state, "register", FALSE)
           \/ Begin(state, "periodic", FALSE)
    BY <1>4 DEF Starts, StartUrgent, StartOfRegister, StartPeriodic
  <2> QED BY <2>1, ContractsAtBegin DEF Kinds
<1>5. CASE Boot
  BY <1>5, BootState, ContractsAtBegin DEF Kinds
<1>6. CASE Crash
  BY <1>6 DEF Crash, Idle, PhaseContracts
<1>7. CASE SavePods \/ SaveAssignments \/ UNCHANGED vars
  BY <1>1, <1>7 DEF SavePods, SaveAssignments, vars, managerVars
<1> QED BY <1>2, <1>3, <1>4, <1>5, <1>6, <1>7, ContractsPodCalls, ContractsPhaseEnds
        DEF Next, Requests

LEMMA Inductive == Spec => []IInv
<1>1. Init => IInv
  <2> SUFFICES ASSUME Init PROVE IInv
    OBVIOUS
  <2>1. state.shards = Stay
    BY NoneType, MakeType DEF Init
  <2>2. AssignedPodsRegistered
    BY <2>1 DEF AssignedPodsRegistered, Stay
  <2> QED BY <2>2, TypeInit, ContractsInit DEF IInv
<1>2. IInv /\ [Next]_vars => IInv'
  BY TypeNext, RegisteredNext, ContractsNext DEF IInv
<1> QED BY <1>1, <1>2, PTL DEF Spec

\* A shard is only ever assigned to a registered pod.
THEOREM AssignedToRegistered == Spec => []AssignedPodsRegistered
BY Inductive, PTL DEF IInv

\* What each phase of a rebalance relies on holds, whatever runs beside it.
THEOREM ContractsHold == Spec => []PhaseContracts
BY Inductive, PTL DEF IInv
----------------------------------------------------------------------------
(* The manager implements ShardOwnership.                                  *)

\* At the end of a call, the shards it is about still have the owner the rebalance
\* found, or none.
LEMMA OwnersOfCalls ==
  ASSUME IInv, NEW p \in Pods
  PROVE  /\ FinishUnassign(p) => \A s \in ToUnassign(p) : state.shards[s] \in {p, NoPod}
         /\ FinishAssign(p)   => \A s \in ToAssign(p)   : state.shards[s] = NoPod
<1>1. ASSUME FinishUnassign(p), NEW s \in ToUnassign(p)
      PROVE  state.shards[s] \in {p, NoPod}
  <2>1. s \in Moved(job.plan) /\ job.old[s] = p
    BY DEF ToUnassign, TakenFrom
  <2> QED BY <1>1, <2>1 DEF IInv, PhaseContracts, FinishUnassign
<1>2. ASSUME FinishAssign(p) PROVE \A s \in ToAssign(p) : state.shards[s] = NoPod
  BY <1>2 DEF IInv, PhaseContracts, FinishAssign
<1> QED BY <1>1, <1>2

LEMMA OwnershipStep ==
  ASSUME IInv, [Next]_vars
  PROVE  [Ownership!Next]_(Ownership!vars)
<1> USE DEF IInv, TypeOK
<1>1. ASSUME NEW p \in Pods, NEW v \in Versions, Register(p, v)
      PROVE  Ownership!Join(p)
  <2>1. state' = Make(Put(state.pods, p, v), state.shards)
    BY <1>1 DEF Register
  <2>2. state'.shards = state.shards /\ state'.pods = Put(state.pods, p, v)
    BY <2>1, PutType, MakeType DEF StateType
  <2> QED BY <2>2 DEF Put, Ownership!Join
<1>2. ASSUME NEW p \in Pods, Drop(p) PROVE Ownership!Leave(p)
  <2>1. /\ DOMAIN state'.pods = DOMAIN state.pods \ {p}
        /\ state'.shards =
             [s \in Shards |-> IF state.shards[s] = p THEN NoPod ELSE state.shards[s]]
    BY <1>2, DropType
  <2> QED BY <2>1 DEF Ownership!Leave, Ownership!Give
<1>3. ASSUME NEW p \in Pods, FinishUnassign(p)
      PROVE  Ownership!Release(p, ToUnassign(p)) /\ ToUnassign(p) \in SUBSET Shards
  <2>1. ToUnassign(p) \subseteq Shards /\ NoPod \in PodOpt
    BY DEF ToUnassign, TakenFrom, Moved, PodOpt
  <2>2. /\ state'.pods = state.pods
        /\ state'.shards =
             [s \in Shards |-> IF s \in ToUnassign(p) THEN NoPod ELSE state.shards[s]]
    BY <1>3, <2>1, SetShardsType DEF FinishUnassign
  <2> QED BY <1>3, <2>1, <2>2, OwnersOfCalls DEF Ownership!Release, Ownership!Give
<1>4. ASSUME NEW p \in Pods, FinishAssign(p), Has(state.pods, p)
      PROVE  Ownership!Grant(p, ToAssign(p)) /\ ToAssign(p) \in SUBSET Shards
  <2>1. ToAssign(p) \subseteq Shards /\ p \in PodOpt
    BY DEF ToAssign, GivenTo, PodOpt
  <2>2. /\ state'.pods = state.pods
        /\ state'.shards =
             [s \in Shards |-> IF s \in ToAssign(p) THEN p ELSE state.shards[s]]
    BY <1>4, <2>1, SetShardsType DEF FinishAssign
  <2> QED BY <1>4, <2>1, <2>2, OwnersOfCalls DEF Ownership!Grant, Ownership!Give, Has
<1>5. CASE Crash
  <2>1. state' = Make(NoPods, Stay)
    BY <1>5 DEF Crash
  <2>2. state'.shards = Stay /\ DOMAIN state'.pods = {}
    BY <2>1, NoneType, MakeType
  <2> QED BY <2>2 DEF Ownership!Next, Ownership!Restart, Ownership!Nobody, Stay
<1>6. CASE Boot
  <2>1. state' \in StateType /\ state'.shards = Stay
    BY <1>6, BootState
  <2>2. state'.pods \in PodMaps
    BY <2>1 DEF StateType
  <2>3. PICK P \in SUBSET Pods : state'.pods \in [P -> Versions]
    BY <2>2, ZenonT(60) DEF PodMaps
  <2> QED BY <2>1, <2>3 DEF Ownership!Next, Ownership!Restart, Ownership!Nobody, Stay
<1>7. CASE state' = state
  BY <1>7 DEF Ownership!vars
<1>8. ASSUME NEW p \in Pods, PodCalls(p)
      PROVE  \/ FinishUnassign(p)
             \/ FinishAssign(p) /\ Has(state.pods, p)
             \/ state' = state
  BY <1>8 DEF PodCalls, Ping, CallUnassign, CallAssign, FinishAssign
<1>9. ASSUME NEW p \in Pods, \/ Unregister(p) \/ NotifyUnhealthyPod(p) \/ CheckHealth(p)
                            \/ UnregisterDead(p) \/ PodDies(p) \/ PodStarts(p)
      PROVE  Drop(p) \/ state' = state
  BY <1>9 DEF Unregister, NotifyUnhealthyPod, CheckHealth, UnregisterDead, PodDies,
              PodStarts, managerVars
<1>10. ASSUME PhaseEnds \/ Starts \/ SavePods \/ SaveAssignments \/ UNCHANGED vars
       PROVE  state' = state
  BY <1>10 DEF PhaseEnds, PingsDone, UnassignsDone, AssignsDone, EndRun, Starts, StartUrgent,
               StartOfRegister, StartPeriodic, SavePods, SaveAssignments, vars, managerVars
<1> QED
  BY <1>1, <1>2, <1>3, <1>4, <1>5, <1>6, <1>7, <1>8, <1>9, <1>10
     DEF Next, Requests, Ownership!Next

\* The only step that gives a shard to a pod is the end of a call to assign it.
LEMMA OnlyFinishAssignGives ==
  ASSUME IInv, [Next]_vars, NEW s \in Shards,
         state'.shards[s] # NoPod, state'.shards[s] # state.shards[s]
  PROVE  \E p \in Pods : FinishAssign(p) /\ s \in ToAssign(p) /\ state'.shards[s] = p
<1> USE DEF IInv, TypeOK
<1>1. ~(state' = state)
  OBVIOUS
<1>2. ASSUME NEW p \in Pods, NEW v \in Versions, Register(p, v) PROVE FALSE
  <2>1. state' = Make(Put(state.pods, p, v), state.shards)
    BY <1>2 DEF Register
  <2> QED BY <2>1, PutType, MakeType DEF StateType
<1>3. ASSUME NEW p \in Pods, Drop(p) PROVE FALSE
  BY <1>3, DropType
<1>4. ~Boot
  BY BootState DEF Stay
<1>5. ~Crash
  BY NoneType, MakeType DEF Crash, Stay
<1>6. ASSUME NEW p \in Pods, PodCalls(p)
      PROVE  FinishAssign(p) /\ s \in ToAssign(p) /\ state'.shards[s] = p
  <2>1. CASE FinishUnassign(p)
    <3>1. ToUnassign(p) \subseteq Shards /\ NoPod \in PodOpt
      BY DEF ToUnassign, TakenFrom, Moved, PodOpt
    <3>2. state'.shards =
            [q \in Shards |-> IF q \in ToUnassign(p) THEN NoPod ELSE state.shards[q]]
      BY <2>1, <3>1, SetShardsType DEF FinishUnassign
    <3> QED BY <3>2
  <2>2. CASE FinishAssign(p)
    <3>1. ToAssign(p) \subseteq Shards /\ p \in PodOpt
      BY DEF ToAssign, GivenTo, PodOpt
    <3>2. SetShards(ToAssign(p), p).shards =
            [q \in Shards |-> IF q \in ToAssign(p) THEN p ELSE state.shards[q]]
      BY <3>1, SetShardsType
    <3> QED BY <1>1, <2>2, <3>2 DEF FinishAssign
  <2>3. CASE Ping(p) \/ CallUnassign(p) \/ CallAssign(p)
    BY <1>1, <2>3 DEF Ping, CallUnassign, CallAssign
  <2> QED BY <1>6, <2>1, <2>2, <2>3 DEF PodCalls
<1>7. ASSUME NEW p \in Pods, \/ Unregister(p) \/ NotifyUnhealthyPod(p) \/ CheckHealth(p)
                            \/ UnregisterDead(p) \/ PodDies(p) \/ PodStarts(p)
      PROVE  FALSE
  BY <1>1, <1>3, <1>7 DEF Unregister, NotifyUnhealthyPod, CheckHealth, UnregisterDead,
                          PodDies, PodStarts, managerVars
<1>8. ~(PhaseEnds \/ Starts \/ SavePods \/ SaveAssignments \/ UNCHANGED vars)
  BY <1>1 DEF PhaseEnds, PingsDone, UnassignsDone, AssignsDone, EndRun, Starts, StartUrgent,
              StartOfRegister, StartPeriodic, SavePods, SaveAssignments, vars, managerVars
<1> QED BY <1>2, <1>4, <1>5, <1>6, <1>7, <1>8 DEF Next, Requests

\* No step of the manager takes a shard from one pod and gives it to another, whatever
\* registers, leaves, fails or restarts between the phases of its rebalances.
THEOREM OwnershipImplemented == Spec => ImplementsOwnership
<1>1. Init => Ownership!Init
  <2> SUFFICES ASSUME Init PROVE Ownership!Init
    OBVIOUS
  <2>1. state.shards = Stay /\ DOMAIN state.pods = {}
    BY NoneType, MakeType DEF Init
  <2> QED BY <2>1 DEF Ownership!Init, Stay
<1> QED BY <1>1, Inductive, OwnershipStep, PTL DEF Spec, ImplementsOwnership, Ownership!Spec

\* A shard is only given away after its old pod has let go of it, in this rebalance.
THEOREM OnlyReleasedMove == Spec => OnlyReleasedShardsMove
<1>1. ASSUME IInv, [Next]_vars, NEW s \in Shards,
             state'.shards[s] # NoPod, state'.shards[s] # state.shards[s]
      PROVE  /\ job.old[s] = NoPod \/ job.old[s] \notin job.pingFailed \cup job.unassignFailed
             /\ state'.shards[s] \notin job.pingFailed \cup job.unassignFailed
  <2> USE DEF IInv, TypeOK
  <2>1. PICK p \in Pods : FinishAssign(p) /\ s \in ToAssign(p) /\ state'.shards[s] = p
    BY <1>1, OnlyFinishAssignGives
  <2>2. /\ job.plan[s] = p /\ s \in Moved(job.plan)
        /\ s \notin Removed /\ s \notin Unreleased
    BY <2>1, NoneAssumption DEF ToAssign, GivenTo, Moved
  <2>3. p \notin job.pingFailed /\ job.old[s] \notin job.pingFailed
    BY <2>2 DEF Removed
  <2>4. p \notin job.unassignFailed
    <3>1. job.phase = "assign" /\ p \in job.acked
      BY <2>1 DEF FinishAssign
    <3> QED BY <1>1, <3>1 DEF PhaseContracts
  <2>5. ASSUME job.old[s] # NoPod PROVE job.old[s] \notin job.unassignFailed
    <3>1. s \in ToUnassign(job.old[s])
      BY <2>2 DEF ToUnassign, TakenFrom
    <3> QED BY <2>2, <3>1 DEF Unreleased
  <2> QED BY <2>1, <2>3, <2>4, <2>5
<1> DEFINE Safely ==
      \A s \in Shards :
        LET old == job.old[s]
            new == state'.shards[s]
        IN  (new # NoPod /\ new # state.shards[s]) =>
              /\ old = NoPod \/ old \notin job.pingFailed \cup job.unassignFailed
              /\ new \notin job.pingFailed \cup job.unassignFailed
<1>2. IInv /\ [Next]_vars => [Safely]_vars
  BY <1>1
<1>3. OnlyReleasedShardsMove <=> [][Safely]_vars
  BY DEF OnlyReleasedShardsMove
<1> HIDE DEF Safely
<1> QED BY <1>2, <1>3, Inductive, PTL DEF Spec
=============================================================================
