------------------------ MODULE RebalanceRounds_proofs ------------------------
(***************************************************************************)
(* Proofs about the rounds of the periodic rebalance, for any pods,        *)
(* shards, versions and rebalance rate, and for any number of rounds.      *)
(***************************************************************************)
EXTENDS RebalanceRounds, Rebalance_proofs

USE ShardsAssumption, PodsAssumption, NoneAssumption

\* The indexes of the state are those of its pods, whatever became of its shards since.
IndexesFit ==
  /\ st.maxVersion = MaxVersion(st.pods)
  /\ DOMAIN st.perPod = DOMAIN st.pods

\* Pods that received shards passed the filter on the version.
ReceiversFit == \A p \in Targets(plan) : p \in DOMAIN st.perPod /\ NewEnough(st, p)

\* How many shards the index gives pod p, whatever the rounds have moved since.
Indexed(r, p) == Load(r, Stay, p)

\* Every move goes down by two in the index: by that measure the pods a shard has left are all
\* fuller than the one it is with.
LeftAreFuller ==
  \A s \in Shards : \A p \in left[s] :
     st.shards[s] # NoPod /\ Indexed(st, st.shards[s]) + 1 < Indexed(st, p)

IInv == TypeOK /\ IndexesFit /\ ReceiversFit /\ LeftAreFuller

LEMMA RoundsInit == Init => IInv
<1>1. SUFFICES ASSUME Init PROVE IInv
  OBVIOUS
<1>11. PICK pods \in PodMaps : \E shards \in [Shards -> DOMAIN pods \cup {NoPod}] :
        st = Make(pods, shards) /\ plan = Stay
  BY <1>1 DEF Init
<1>2. PICK shards \in [Shards -> DOMAIN pods \cup {NoPod}] :
        st = Make(pods, shards) /\ plan = Stay
  BY <1>11
<1>3. DOMAIN pods \in SUBSET Pods
  BY DEF PodMaps
<1>4. shards \in ShardMaps
  BY <1>3 DEF ShardMaps, PodOpt
<1>5. st \in StateType /\ st.pods = pods
  BY <1>2, <1>4, MakeType
<1>6. st.maxVersion = MaxVersion(pods)
  BY <1>2 DEF Make
<1>7. DOMAIN st.perPod = DOMAIN pods \cup ({shards[s] : s \in Shards} \ {NoPod})
  BY <1>2 DEF Make
<1>8. {shards[s] : s \in Shards} \ {NoPod} \subseteq DOMAIN pods
  OBVIOUS
<1>9. plan \in ShardMaps /\ Moved(plan) = {}
  BY <1>2 DEF Stay, ShardMaps, PodOpt, Moved
<1>10. Targets(plan) = {}
  BY <1>9 DEF Targets
<1>12. left \in [Shards -> SUBSET Pods] /\ \A s \in Shards : left[s] = {}
  BY <1>1 DEF Init
<1>13. TypeOK /\ LeftAreFuller
  BY <1>5, <1>9, <1>12 DEF TypeOK, LeftAreFuller
<1> QED BY <1>2, <1>5, <1>6, <1>7, <1>8, <1>10, <1>13 DEF IInv, IndexesFit, ReceiversFit

\* What a round leaves alone of the state.
LEMMA RoundState ==
  ASSUME TypeOK, Round
  PROVE  /\ st' \in StateType /\ st'.pods = st.pods /\ st'.perPod = st.perPod
         /\ st'.maxVersion = st.maxVersion
         /\ st'.shards = [s \in Shards |-> IF plan'[s] = NoPod THEN st.shards[s] ELSE plan'[s]]
         /\ plan' = Decide(st, FALSE) /\ plan' \in ShardMaps
<1>1. plan' = Decide(st, FALSE) /\ plan' \in ShardMaps
  <2>1. plan' = Decide(st, FALSE) /\ st \in StateType
    BY DEF TypeOK, Round
  <2>2. \E rate \in BOOLEAN : SoundPlan(st, Decide(st, FALSE), rate)
    BY <2>1, DecideSound
  <2> QED BY <2>1, <2>2 DEF SoundPlan
<1> DEFINE new == [s \in Shards |-> IF plan'[s] = NoPod THEN st.shards[s] ELSE plan'[s]]
<1>2. st' = [st EXCEPT !.shards = new]
  BY DEF Round
<1>3. st.shards \in ShardMaps
  BY DEF TypeOK, StateType
<1>4. new \in ShardMaps
  BY <1>1, <1>3 DEF ShardMaps
<1> HIDE DEF new
<1>5. /\ st' \in StateType /\ st'.pods = st.pods /\ st'.perPod = st.perPod
      /\ st'.maxVersion = st.maxVersion /\ st'.shards = new
  BY <1>2, <1>4 DEF TypeOK, StateType
<1> QED BY <1>1, <1>5 DEF new

\* A shard the plan takes from a pod goes to one with at least two shards fewer in the index.
Downhill(r, plan0) ==
  \A s \in Moved(plan0) : r.shards[s] # NoPod =>
     Indexed(r, plan0[s]) + 1 < Indexed(r, r.shards[s])

\* The pod a shard goes to loses none, so the index shows no more than it has by then; the
\* pod it leaves received none, so the index shows no less.
LEMMA PickDownhill ==
  ASSUME NEW r \in StateType, NEW immediately, NEW plan0, SoundPlan(r, plan0, immediately),
         Downhill(r, plan0), NEW s \in Shards, plan0[s] = NoPod
  PROVE  Downhill(r, Pick(r, plan0, s, immediately))
<1>1. PICK new : new = Pick(r, plan0, s, immediately)
  OBVIOUS
<1>2. plan0 \in ShardMaps /\ r.shards \in [Shards -> PodOpt]
  BY StateParts DEF SoundPlan
<1>3. CASE new = plan0
  BY <1>1, <1>3
<1>4. CASE \E p \in Pods : ShardGiven(r, plan0, s, p, new, immediately)
  <2>1. PICK p \in Pods : ShardGiven(r, plan0, s, p, new, immediately)
    BY <1>4
  <2>2. Moved(new) = Moved(plan0) \cup {s} /\ new[s] = p /\ \A x \in Shards \ {s} : new[x] = plan0[x]
    BY <2>1 DEF ShardGiven, GivenTo
  <2>3. ASSUME r.shards[s] # NoPod
        PROVE  Indexed(r, p) + 1 < Indexed(r, r.shards[s])
    <3>1. PICK old \in Pods : old = r.shards[s]
      BY <1>2, <2>3 DEF PodOpt
    <3>2. /\ Load(r, plan0, p) \in Nat /\ Load(r, plan0, old) \in Nat
          /\ Indexed(r, p) \in Nat /\ Indexed(r, old) \in Nat
      BY LoadType DEF Indexed
    <3>3. Load(r, plan0, p) + 1 < Load(r, plan0, old)
      BY <2>1, <2>3, <3>1 DEF ShardGiven, WorthMoving
    <3>4. old \notin Targets(plan0)
      <4>1. old \in Targets(plan0) => Load(r, plan0, old) <= Load(r, plan0, p) + 1
        BY <2>1 DEF SoundPlan, AtMostOneAhead, ShardGiven
      <4> QED BY <3>2, <3>3, <4>1
    <3>5. /\ p \in DOMAIN r.perPod /\ p \notin Sources(plan0, r.shards)
          /\ p \notin Sources(Stay, r.shards) /\ GivenTo(Stay, p) = {} /\ GivenTo(Stay, old) = {}
          /\ TakenFrom(Stay, r.shards, old) = {}
      BY <2>1 DEF ShardGiven, Eligible, Stay, Sources, Moved, GivenTo, TakenFrom
    <3>6. Indexed(r, p) <= Load(r, plan0, p)
      <4>1. /\ Load(r, plan0, p) = Cardinality(r.perPod[p] \cup GivenTo(plan0, p))
            /\ IsFiniteSet(r.perPod[p] \cup GivenTo(plan0, p))
        BY <3>5, LoadOfKeeper
      <4>2. Load(r, Stay, p) = Cardinality(r.perPod[p] \cup {})
        BY <3>5, LoadOfKeeper
      <4>3. Cardinality(r.perPod[p] \cup {}) <= Cardinality(r.perPod[p] \cup GivenTo(plan0, p))
        BY <4>1, FS_Subset
      <4> QED BY <4>1, <4>2, <4>3 DEF Indexed
    <3>7. Load(r, plan0, old) <= Indexed(r, old)
      <4>1. CASE Has(r.perPod, old)
        <5>1. GivenTo(plan0, old) = {}
          BY <3>1, <3>4 DEF GivenTo, Targets, Moved
        <5>2. /\ Load(r, plan0, old) = Cardinality(r.perPod[old] \ TakenFrom(plan0, r.shards, old))
              /\ Load(r, Stay, old) = Cardinality(r.perPod[old])
          <6>1. /\ (r.perPod[old] \ TakenFrom(plan0, r.shards, old)) \cup {}
                     = r.perPod[old] \ TakenFrom(plan0, r.shards, old)
                /\ (r.perPod[old] \ {}) \cup {} = r.perPod[old]
            OBVIOUS
          <6> QED BY <3>5, <4>1, <5>1, <6>1 DEF Load
        <5>3. IsFiniteSet(r.perPod[old])
          BY <4>1, StateParts, FS_Subset DEF Has
        <5>4. Cardinality(r.perPod[old] \ TakenFrom(plan0, r.shards, old)) <= Cardinality(r.perPod[old])
          BY <5>3, FS_Subset
        <5> QED BY <5>2, <5>4 DEF Indexed
      <4>2. CASE ~Has(r.perPod, old)
        BY <3>2, <4>2 DEF Load, Indexed
      <4> QED BY <4>1, <4>2
    <3>8. Indexed(r, p) + 1 < Indexed(r, old)
      BY ONLY <3>2, <3>3, <3>6, <3>7
    <3> QED BY <3>1, <3>8
  <2>4. ASSUME NEW x \in Moved(new), r.shards[x] # NoPod
        PROVE  Indexed(r, new[x]) + 1 < Indexed(r, r.shards[x])
    <3>1. CASE x = s
      BY <2>2, <2>3, <2>4, <3>1
    <3>2. CASE x # s
      <4>1. x \in Moved(plan0) /\ new[x] = plan0[x]
        BY <2>2, <2>4, <3>2 DEF Moved
      <4> QED BY <2>4, <4>1 DEF Downhill
    <3> QED BY <3>1, <3>2
  <2> QED BY <1>1, <2>4 DEF Downhill
<1>5. new = plan0 \/ \E p \in Pods : ShardGiven(r, plan0, s, p, new, immediately)
  BY <1>1, <1>2, PickGives
<1> QED BY <1>3, <1>4, <1>5

LEMMA DecideDownhill ==
  ASSUME NEW r \in StateType, NEW immediately
  PROVE  Downhill(r, Decide(r, immediately))
<1>1. PICK shards \in SUBSET Shards, rate \in BOOLEAN :
        Decide(r, immediately) = PickNewPods(r, shards, rate)
  BY DecidePicks
<1> DEFINE H == {plan0 \in ShardMaps : Downhill(r, plan0)}
<1>2. Stay \in H
  BY StaySound DEF SoundPlan, Downhill, Moved, Stay
<1>3. ASSUME NEW plan0 \in H, NEW s \in shards, SoundPlan(r, plan0, rate), plan0[s] = NoPod
      PROVE  Pick(r, plan0, s, rate) \in H
  <2>1. Downhill(r, Pick(r, plan0, s, rate))
    BY <1>3, PickDownhill
  <2>2. Pick(r, plan0, s, rate) \in ShardMaps
    BY <1>3, PickSound DEF SoundPlan
  <2> QED BY <2>1, <2>2
<1>4. PickNewPods(r, shards, rate) \in H
  <2> HIDE DEF H
  <2> QED BY <1>2, <1>3, PlanInduction
<1> QED BY <1>1, <1>4

LEMMA RoundLeaves ==
  ASSUME IInv, Round
  PROVE  LeftAreFuller' /\ left' \in [Shards -> SUBSET Pods]
<1>1. /\ st' \in StateType /\ st'.perPod = st.perPod
      /\ st'.shards = [s \in Shards |-> IF plan'[s] = NoPod THEN st.shards[s] ELSE plan'[s]]
      /\ plan' = Decide(st, FALSE) /\ plan' \in ShardMaps /\ st \in StateType
  BY RoundState DEF IInv, TypeOK
<1>2. /\ left \in [Shards -> SUBSET Pods]
      /\ left' = [s \in Shards |-> IF plan'[s] = NoPod THEN left[s]
                                   ELSE left[s] \cup ({st.shards[s]} \ {NoPod})]
  BY DEF IInv, TypeOK, Round
<1>3. st.shards \in [Shards -> PodOpt]
  BY <1>1, StateParts
<1>4. left' \in [Shards -> SUBSET Pods]
  BY <1>2, <1>3 DEF PodOpt
<1>5. Downhill(st, plan')
  BY <1>1, DecideDownhill
<1>6. \A p : Indexed(st, p) \in Nat /\ Indexed(st', p) = Indexed(st, p)
  <2> TAKE p
  <2>1. TakenFrom(Stay, st'.shards, p) = TakenFrom(Stay, st.shards, p)
    BY DEF TakenFrom, Moved, Stay
  <2>2. Indexed(st', p) = Indexed(st, p)
    BY <1>1, <2>1 DEF Indexed, Load
  <2> QED BY <1>1, <2>2, LoadType DEF Indexed
<1>7. ASSUME NEW s \in Shards, NEW p \in left'[s]
      PROVE  st'.shards[s] # NoPod /\ Indexed(st', st'.shards[s]) + 1 < Indexed(st', p)
  <2>1. CASE plan'[s] = NoPod
    <3>1. p \in left[s] /\ st'.shards[s] = st.shards[s]
      BY <1>1, <1>2, <1>7, <2>1
    <3> QED BY <1>6, <3>1 DEF IInv, LeftAreFuller
  <2>2. CASE plan'[s] # NoPod
    <3>1. PICK old, new : old = st.shards[s] /\ new = plan'[s] /\ new = st'.shards[s]
      BY <1>1, <2>2
    <3>2. (p \in left[s] \/ (p = old /\ old # NoPod)) /\ new # NoPod
      BY <1>2, <1>7, <2>2, <3>1
    <3>3. s \in Moved(plan')
      BY <2>2 DEF Moved
    <3>4. p \in left[s] => old # NoPod /\ Indexed(st, old) + 1 < Indexed(st, p)
      BY <3>1 DEF IInv, LeftAreFuller
    <3>5. old # NoPod => Indexed(st, new) + 1 < Indexed(st, old)
      BY <1>5, <3>1, <3>3 DEF Downhill
    <3>6. /\ Indexed(st, old) \in Nat /\ Indexed(st, new) \in Nat /\ Indexed(st, p) \in Nat
      BY <1>6
    <3>7. Indexed(st, new) + 1 < Indexed(st, p)
      BY <3>2, <3>4, <3>5, <3>6
    <3> QED BY <1>6, <3>1, <3>2, <3>7
  <2> QED BY <2>1, <2>2
<1> QED BY <1>4, <1>7 DEF LeftAreFuller

LEMMA RoundsStep == IInv /\ [Next]_vars => IInv'
<1>1. SUFFICES ASSUME IInv, [Next]_vars PROVE IInv'
  OBVIOUS
<1>2. CASE Round
  <2>1. /\ st' \in StateType /\ st'.pods = st.pods /\ st'.perPod = st.perPod
        /\ st'.maxVersion = st.maxVersion
        /\ plan' = Decide(st, FALSE) /\ plan' \in ShardMaps
    BY <1>1, <1>2, RoundState DEF IInv
  <2>2. \E rate \in BOOLEAN : SoundPlan(st, plan', rate)
    BY <1>1, <2>1, DecideSound DEF IInv, TypeOK
  <2>3. \A p \in Targets(plan') : p \in DOMAIN st.perPod /\ NewEnough(st, p)
    BY <2>2 DEF SoundPlan
  <2>4. \A p : NewEnough(st, p) => NewEnough(st', p)
    BY <2>1 DEF NewEnough
  <2>5. ReceiversFit'
    BY <2>1, <2>3, <2>4 DEF ReceiversFit
  <2>6. LeftAreFuller' /\ left' \in [Shards -> SUBSET Pods]
    BY <1>1, <1>2, RoundLeaves
  <2> QED BY <1>1, <2>1, <2>5, <2>6 DEF IInv, TypeOK, IndexesFit
<1>3. CASE UNCHANGED vars
  BY <1>1, <1>3 DEF vars, IInv, TypeOK, IndexesFit, ReceiversFit, NewEnough, LeftAreFuller
<1> QED BY <1>1, <1>2, <1>3 DEF Next

LEMMA RoundsInductive == Spec => []IInv
BY RoundsInit, RoundsStep, PTL DEF Spec

\* Every decision is a plan for shards and every round leaves a ShardManagerState: the
\* reduces of make and of pickNewPods always return what their callers expect.
THEOREM RoundsTypeCorrect == Spec => []TypeOK
<1>1. IInv => TypeOK
  BY DEF IInv
<1> QED BY <1>1, RoundsInductive, PTL

\* No shard is ever moved back to a pod a periodic rebalance took it from, for any number of
\* rounds on the same old indexes and whatever the rebalance rate holds back in each.
THEOREM NoShardReturns == Spec => []NeverMovesBack
<1>1. ASSUME IInv PROVE NeverMovesBack
  <2>1. SUFFICES ASSUME NEW s \in Shards, st.shards[s] \in left[s] PROVE FALSE
    BY DEF NeverMovesBack
  <2>2. Indexed(st, st.shards[s]) + 1 < Indexed(st, st.shards[s])
    BY <1>1, <2>1 DEF IInv, LeftAreFuller
  <2>3. Indexed(st, st.shards[s]) \in Nat
    BY <1>1, LoadType DEF IInv, TypeOK, Indexed
  <2> QED BY <2>2, <2>3
<1> QED BY <1>1, RoundsInductive, PTL

\* No pod both receives and loses shards in one round of rebalance, in whatever order the
\* reduce of pickNewPods takes the shards and however old the indexes are.
THEOREM ReceiversLoseNothing == Spec => NoShardSwaps
<1>1. IInv /\ [Next]_vars =>
        [\A p \in Targets(plan') : {s \in Moved(plan') : st.shards[s] = p} = {}]_vars
  <2>1. SUFFICES ASSUME IInv, Round, NEW p \in Targets(plan')
                 PROVE  {s \in Moved(plan') : st.shards[s] = p} = {}
    BY DEF Next
  <2>2. \E rate \in BOOLEAN : SoundPlan(st, plan', rate)
    <3>1. plan' = Decide(st, FALSE) /\ st \in StateType
      BY <2>1, RoundState DEF IInv, TypeOK
    <3> QED BY <3>1, DecideSound
  <2>3. p \in Pods /\ p \notin Sources(plan', st.shards)
    BY <2>1, <2>2, StateParts DEF SoundPlan, IInv, TypeOK
  <2> QED BY <2>3 DEF Sources
<1> QED BY <1>1, RoundsInductive, PTL DEF Spec, NoShardSwaps

\* Where versions can be compared part by part, the filter of pickNewPods on the maximum
\* does what its comment says: no pod receives shards while a registered one is newer.
THEOREM NewestOfComparable ==
  ASSUME Comparable
  PROVE  Spec => []NewestVersionOnly
<1>1. ASSUME IInv PROVE NewestVersionOnly
  <2>1. SUFFICES ASSUME NEW p \in Targets(plan), NEW q \in Registered,
                        NewerVersion(st.pods[q], st.pods[p])
                 PROVE  FALSE
    BY DEF NewestVersionOnly
  <2>2. p \in DOMAIN st.pods /\ q \in DOMAIN st.pods
    BY <1>1, <2>1 DEF IInv, ReceiversFit, IndexesFit, Registered
  <2>3. AtLeast(st.pods[p], st.pods[q])
    BY <1>1, <2>1, <2>2, NewEnoughIsNewest DEF IInv, TypeOK, ReceiversFit, IndexesFit
  <2>4. PICK P \in SUBSET Pods : st.pods \in [P -> Versions]
    BY <1>1 DEF IInv, TypeOK, StateType, PodMaps
  <2>5. st.pods[p] \in Seq(Nat) /\ st.pods[q] \in Seq(Nat)
    BY <2>2, <2>4, VersionsAssumption
  <2>6. PICK i \in DOMAIN st.pods[q] \cup DOMAIN st.pods[p] :
          Part(st.pods[q], i) > Part(st.pods[p], i)
    BY <2>1 DEF NewerVersion
  <2>7. i \in Nat
    BY <2>5
  <2>8. Part(st.pods[q], i) \in Nat /\ Part(st.pods[p], i) \in Nat
    BY <2>5, <2>7, PartType
  <2> QED BY <2>3, <2>6, <2>7, <2>8 DEF AtLeast
<1> QED BY <1>1, RoundsInductive, PTL
----------------------------------------------------------------------------
(* A round on indexes that are up to date leaves the shards more evenly    *)
(* spread.                                                                 *)

\* The shards with pod p.
With(shards, p) == {s \in Shards : shards[s] = p}

\* The pairs of shards that share a pod, when shard s goes from its pod to pod p: the pairs
\* it was in are lost, those with the shards of p are new.
LEMMA PairsAfterMove ==
  ASSUME NEW f \in ShardMaps, NEW s \in Shards, NEW p \in PodOpt, p # f[s],
         NEW g \in ShardMaps, g[s] = p, \A x \in Shards \ {s} : g[x] = f[x]
  PROVE  /\ Cardinality(Pairs(g)) =
              Cardinality(Pairs(f)) - 2 * Cardinality(With(f, f[s])) + 2 + 2 * Cardinality(With(f, p))
         /\ Cardinality(Pairs(f)) \in Nat /\ Cardinality(Pairs(g)) \in Nat
<1> DEFINE A == With(f, p)
           B == With(f, f[s]) \ {s}
           lost == ({s} \X B) \cup (B \X {s})
           new == ({s} \X A) \cup (A \X {s})
           kept == Pairs(f) \ lost
<1>1. A \in SUBSET Shards /\ B \in SUBSET Shards /\ s \notin A /\ s \notin B
  BY DEF With
<1>2. With(f, f[s]) \in SUBSET Shards /\ s \in With(f, f[s])
  BY DEF With
<1>3. /\ IsFiniteSet(A) /\ IsFiniteSet(B) /\ Cardinality(A) \in Nat /\ Cardinality(B) \in Nat
      /\ Cardinality(B) = Cardinality(With(f, f[s])) - 1
      /\ Cardinality(With(f, f[s])) \in Nat
  BY <1>1, <1>2, FS_Subset, FS_CardinalityType, FS_RemoveElement
<1>4. ASSUME NEW S, IsFiniteSet(S), s \notin S
      PROVE  /\ IsFiniteSet(({s} \X S) \cup (S \X {s}))
             /\ Cardinality(({s} \X S) \cup (S \X {s})) = 2 * Cardinality(S)
  <2> DEFINE L == {s} \X S
             R == S \X {s}
  <2>1. IsFiniteSet({s}) /\ Cardinality({s}) = 1 /\ Cardinality(S) \in Nat
    BY <1>4, FS_Singleton, FS_CardinalityType
  <2>2. /\ IsFiniteSet(L) /\ Cardinality(L) = 1 * Cardinality(S)
        /\ IsFiniteSet(R) /\ Cardinality(R) = Cardinality(S) * 1
    BY <1>4, <2>1, FS_Product
  <2>3. L \cap R = {}
    BY <1>4
  <2> HIDE DEF L, R
  <2>4. IsFiniteSet(L \cup R) /\ Cardinality(L \cup R) = Cardinality(L) + Cardinality(R) - Cardinality({})
    BY <2>2, <2>3, FS_Union
  <2>5. Cardinality(L \cup R) = 2 * Cardinality(S)
    BY <2>1, <2>2, <2>4, FS_EmptySet
  <2> QED BY <2>4, <2>5 DEF L, R
<1>5. /\ IsFiniteSet(lost) /\ Cardinality(lost) = 2 * Cardinality(B)
      /\ IsFiniteSet(new) /\ Cardinality(new) = 2 * Cardinality(A)
  BY <1>1, <1>3, <1>4
<1>6. Pairs(f) \in SUBSET (Shards \X Shards) /\ IsFiniteSet(Shards \X Shards)
  BY FS_Product DEF Pairs
<1>7. IsFiniteSet(Pairs(f)) /\ Cardinality(Pairs(f)) \in Nat
  BY <1>6, FS_Subset, FS_CardinalityType
<1>8. lost \subseteq Pairs(f)
  BY DEF With, Pairs
<1>9. kept \cap new = {}
  <2>1. new \cap Pairs(f) = {}
    BY <1>1 DEF With, Pairs
  <2> QED BY <2>1
<1>10. Pairs(g) = kept \cup new
  <2>1. ASSUME NEW x \in Shards, NEW y \in Shards
        PROVE  <<x, y>> \in Pairs(g) <=> <<x, y>> \in kept \cup new
    <3>1. CASE x = s /\ y = s
      BY <1>1, <3>1 DEF Pairs
    <3>2. CASE x = s /\ y # s
      <4>1. <<x, y>> \in Pairs(g) <=> y \in A
        BY <3>2 DEF Pairs, With
      <4>2. <<x, y>> \notin kept
        BY <3>2 DEF Pairs, With
      <4> QED BY <1>1, <3>2, <4>1, <4>2
    <3>3. CASE x # s /\ y = s
      <4>1. <<x, y>> \in Pairs(g) <=> x \in A
        BY <3>3 DEF Pairs, With
      <4>2. <<x, y>> \notin kept
        BY <3>3 DEF Pairs, With
      <4> QED BY <1>1, <3>3, <4>1, <4>2
    <3>4. CASE x # s /\ y # s
      BY <3>4 DEF Pairs
    <3> QED BY <3>1, <3>2, <3>3, <3>4
  <2>2. /\ Pairs(g) \subseteq Shards \X Shards /\ kept \subseteq Shards \X Shards
        /\ new \subseteq Shards \X Shards
    BY <1>1, <1>6 DEF Pairs
  <2> HIDE DEF kept, new
  <2>3. ASSUME NEW z \in Shards \X Shards PROVE z \in Pairs(g) <=> z \in kept \cup new
    <3>1. z = <<z[1], z[2]>> /\ z[1] \in Shards /\ z[2] \in Shards
      OBVIOUS
    <3> QED BY <2>1, <3>1
  <2> QED BY <2>2, <2>3
<1> HIDE DEF lost, new
<1>11. /\ IsFiniteSet(kept)
       /\ Cardinality(kept) = Cardinality(Pairs(f)) - Cardinality(lost)
  <2>1. Pairs(f) \cap lost = lost
    BY <1>8
  <2> QED BY <1>7, <2>1, FS_Difference
<1> HIDE DEF kept
<1>12. Cardinality(Pairs(g)) = Cardinality(kept) + Cardinality(new) /\ IsFiniteSet(Pairs(g))
  <2>1. Cardinality({}) = 0 /\ Cardinality(kept) \in Nat /\ Cardinality(new) \in Nat
    BY <1>5, <1>11, FS_EmptySet, FS_CardinalityType
  <2>2. /\ IsFiniteSet(kept \cup new)
        /\ Cardinality(kept \cup new) = Cardinality(kept) + Cardinality(new) - Cardinality({})
    BY <1>5, <1>9, <1>11, FS_Union
  <2>3. Cardinality(kept \cup new) = Cardinality(kept) + Cardinality(new)
    BY <2>1, <2>2
  <2> QED BY <1>10, <2>2, <2>3
<1>13. Cardinality(Pairs(g)) \in Nat
  BY <1>12, FS_CardinalityType
<1> HIDE DEF A, B
<1>14. /\ Cardinality(Pairs(g)) =
            Cardinality(Pairs(f)) - 2 * (Cardinality(With(f, f[s])) - 1) + 2 * Cardinality(A)
  BY <1>3, <1>5, <1>7, <1>11, <1>12
<1> QED BY <1>3, <1>7, <1>13, <1>14 DEF A

\* The shards as the plan leaves them.
After(shards, plan0) == [s \in Shards |-> IF plan0[s] = NoPod THEN shards[s] ELSE plan0[s]]

Fresh(r) == r \in StateType /\ r = Make(r.pods, r.shards) /\ r.unassigned = {}

\* On indexes that are up to date, the load a pod has in the reduce is the number of shards
\* the plan so far leaves it with.
LEMMA FreshLoad ==
  ASSUME NEW r, Fresh(r), NEW plan0 \in ShardMaps, NEW p \in DOMAIN r.perPod
  PROVE  Load(r, plan0, p) = Cardinality(With(After(r.shards, plan0), p))
<1>1. r \in StateType /\ p \in Pods /\ p # NoPod /\ r.shards \in [Shards -> PodOpt]
  BY StateParts DEF Fresh
<1>2. r.perPod = [q \in DOMAIN r.pods \cup ({r.shards[s] : s \in Shards} \ {NoPod}) |->
                    {s \in Shards : r.shards[s] = q}]
  <2>1. Make(r.pods, r.shards).perPod =
          [q \in DOMAIN r.pods \cup ({r.shards[s] : s \in Shards} \ {NoPod}) |->
             {s \in Shards : r.shards[s] = q}]
    BY DEF Make
  <2> QED BY <2>1 DEF Fresh
<1>3. r.perPod[p] = {s \in Shards : r.shards[s] = p}
  BY <1>2
<1> DEFINE own == (r.perPod[p] \ TakenFrom(plan0, r.shards, p)) \cup GivenTo(plan0, p)
<1>4. own = With(After(r.shards, plan0), p)
  <2>1. ASSUME NEW s \in Shards PROVE s \in own <=> After(r.shards, plan0)[s] = p
    BY <1>1, <1>3 DEF TakenFrom, GivenTo, Moved, After
  <2>2. own \subseteq Shards
    BY <1>3 DEF GivenTo
  <2> HIDE DEF own
  <2> QED BY <2>1, <2>2 DEF With
<1> QED BY <1>4 DEF Load, Has

\* Every step of the reduce makes the shards as much more even as it says.
EvensOut(r, plan0) ==
  /\ plan0 \in ShardMaps
  /\ Cardinality(Pairs(After(r.shards, plan0))) + 2 * Cardinality(Moved(plan0))
       <= Cardinality(Pairs(r.shards))

LEMMA PickEvensOut ==
  ASSUME NEW r, Fresh(r), NEW immediately, NEW plan0, SoundPlan(r, plan0, immediately),
         EvensOut(r, plan0), NEW s \in Shards, plan0[s] = NoPod
  PROVE  EvensOut(r, Pick(r, plan0, s, immediately))
<1> DEFINE eligible == Eligible(r, plan0, immediately)
           first == LeastLoaded(r, plan0, eligible)
<1>1. CASE ~(eligible # {} /\ WorthMoving(r, plan0, s, first))
  BY <1>1 DEF Pick
<1>2. CASE eligible # {} /\ WorthMoving(r, plan0, s, first)
  <2>1. Pick(r, plan0, s, immediately) = WithShard(plan0, s, first)
    BY <1>2 DEF Pick, WithShard
  <2>2. /\ eligible \in SUBSET Pods /\ plan0 \in ShardMaps /\ r \in StateType
        /\ r.shards \in [Shards -> PodOpt]
    BY StateParts DEF Eligible, SoundPlan, Fresh
  <2>3. PICK p \in eligible : p = first
    BY <1>2, <2>2, LeastLoadedHasLeast
  <2>4. p \in Pods /\ p \in DOMAIN r.perPod /\ p # NoPod
    BY <2>2, <2>3 DEF Eligible
  <2>5. PICK new : new = WithShard(plan0, s, p)
    OBVIOUS
  <2> HIDE DEF first, eligible
  <2>6. PICK old \in PodOpt : old = r.shards[s]
    BY <2>2
  <2>7. old \in Pods /\ old \in DOMAIN r.perPod /\ Load(r, plan0, p) + 1 < Load(r, plan0, old)
    <3>1. r.unassigned = {x \in Shards : r.shards[x] = NoPod}
      <4>1. Make(r.pods, r.shards).unassigned = {x \in Shards : r.shards[x] = NoPod}
        BY DEF Make
      <4> QED BY <4>1 DEF Fresh
    <3>2. old # NoPod
      BY <2>6, <3>1 DEF Fresh
    <3>3. DOMAIN r.perPod = DOMAIN r.pods \cup ({r.shards[x] : x \in Shards} \ {NoPod})
      <4>1. DOMAIN Make(r.pods, r.shards).perPod =
              DOMAIN r.pods \cup ({r.shards[x] : x \in Shards} \ {NoPod})
        BY DEF Make
      <4> QED BY <4>1 DEF Fresh
    <3> QED BY <1>2, <2>3, <2>6, <3>2, <3>3 DEF WorthMoving, PodOpt
  <2>8. new \in ShardMaps /\ Moved(new) = Moved(plan0) \cup {s}
    <3>1. /\ plan0 \in ShardMaps /\ s \in Shards /\ p \in Pods /\ plan0[s] = NoPod
          /\ r.shards \in [Shards -> PodOpt] /\ new = WithShard(plan0, s, p)
      BY <2>2, <2>4, <2>5
    <3>2. new \in ShardMaps
      BY ONLY <3>1, PlanAfter
    <3>3. Moved(new) = Moved(plan0) \cup {s}
      BY ONLY <3>1, PlanAfter
    <3> QED BY <3>2, <3>3
  <2>9. new[s] = p /\ \A x \in Shards \ {s} : new[x] = plan0[x]
    BY <2>2, <2>5 DEF WithShard, ShardMaps
  <2> DEFINE f == After(r.shards, plan0)
             g == After(r.shards, new)
             a == Cardinality(With(f, p))
             b == Cardinality(With(f, old))
  <2>10. f \in ShardMaps /\ g \in ShardMaps
    BY <2>2, <2>8 DEF After, ShardMaps
  <2>11. f[s] = old /\ g[s] = p /\ \A x \in Shards \ {s} : g[x] = f[x]
    BY <2>4, <2>6, <2>9 DEF After
  <2>12. Load(r, plan0, p) = a /\ Load(r, plan0, old) = b
    BY <2>2, <2>4, <2>7, FreshLoad
  <2>13. a \in Nat /\ b \in Nat /\ a + 1 < b
    BY <2>2, <2>7, <2>12, LoadType
  <2> HIDE DEF f, g
  <2>14. /\ Cardinality(Pairs(g)) = Cardinality(Pairs(f)) - 2 * b + 2 + 2 * a
         /\ Cardinality(Pairs(f)) \in Nat /\ Cardinality(Pairs(g)) \in Nat
    <3>1. p \in PodOpt /\ p # f[s]
      BY <2>4, <2>11, <2>13 DEF PodOpt
    <3> QED BY <2>10, <2>11, <3>1, PairsAfterMove
  <2>15. /\ Cardinality(Moved(new)) = Cardinality(Moved(plan0)) + 1
         /\ Cardinality(Moved(plan0)) \in Nat
    <3>1. Moved(plan0) \in SUBSET Shards /\ s \notin Moved(plan0)
      BY DEF Moved
    <3>2. IsFiniteSet(Moved(plan0)) /\ Cardinality(Moved(plan0)) \in Nat
      BY <3>1, FS_Subset, FS_CardinalityType
    <3> QED BY <2>8, <3>1, <3>2, FS_AddElement
  <2>16. Cardinality(Pairs(f)) + 2 * Cardinality(Moved(plan0)) <= Cardinality(Pairs(r.shards))
    BY DEF EvensOut, f
  <2>17. Cardinality(Pairs(r.shards)) \in Nat
    <3>1. Pairs(r.shards) \in SUBSET (Shards \X Shards) /\ IsFiniteSet(Shards \X Shards)
      BY FS_Product DEF Pairs
    <3> QED BY <3>1, FS_Subset, FS_CardinalityType
  <2> HIDE DEF a, b
  <2>18. Cardinality(Pairs(g)) + 2 * Cardinality(Moved(new)) <= Cardinality(Pairs(r.shards))
    BY <2>13, <2>14, <2>15, <2>16, <2>17
  <2>19. EvensOut(r, new)
    BY <2>8, <2>18 DEF EvensOut, g
  <2> QED BY <2>1, <2>3, <2>5, <2>19
<1> QED BY <1>1, <1>2

\* A round that decides on indexes that are up to date, with every shard assigned, leaves
\* the shards more evenly spread, by at least two for every shard it moves: a decision of
\* decideAssignmentsForUnbalancedShards never swaps work around for nothing.
THEOREM FreshRoundsEven == Spec => FreshRoundsEvenOut
<1>1. IInv /\ [Next]_vars =>
        [st = Make(st.pods, st.shards) /\ st.unassigned = {} =>
           Unevenness' + 2 * Cardinality(Moved(plan')) <= Unevenness]_vars
  <2>1. SUFFICES ASSUME IInv, Round, Fresh(st)
                 PROVE  Unevenness' + 2 * Cardinality(Moved(plan')) <= Unevenness
    BY DEF Next, Fresh, IInv, TypeOK
  <2>2. PICK shards \in SUBSET Shards, rate \in BOOLEAN :
          plan' = PickNewPods(st, shards, rate)
    BY <2>1, RoundState, DecidePicks DEF IInv, TypeOK
  <2> DEFINE H == {plan0 \in ShardMaps : EvensOut(st, plan0)}
  <2>3. Stay \in H
    <3>1. Stay \in ShardMaps /\ \A s \in Shards : Stay[s] = NoPod
      BY DEF Stay, ShardMaps, PodOpt
    <3>2. Moved(Stay) = {} /\ Cardinality({}) = 0
      BY <3>1, FS_EmptySet DEF Moved
    <3>3. After(st.shards, Stay) = st.shards
      BY <2>1, <3>1, StateParts DEF After, Fresh
    <3>4. Cardinality(Pairs(st.shards)) \in Nat
      <4>1. Pairs(st.shards) \in SUBSET (Shards \X Shards) /\ IsFiniteSet(Shards \X Shards)
        BY FS_Product DEF Pairs
      <4> QED BY <4>1, FS_Subset, FS_CardinalityType
    <3>5. Cardinality(Pairs(st.shards)) + 2 * 0 <= Cardinality(Pairs(st.shards))
      BY <3>4
    <3> QED BY <3>1, <3>2, <3>3, <3>5 DEF EvensOut
  <2>4. ASSUME NEW plan0 \in H, NEW s \in shards, SoundPlan(st, plan0, rate), plan0[s] = NoPod
        PROVE  Pick(st, plan0, s, rate) \in H
    <3>1. EvensOut(st, Pick(st, plan0, s, rate))
      BY <2>1, <2>4, PickEvensOut
    <3> QED BY <3>1 DEF EvensOut
  <2>5. plan' \in H
    <3>1. st \in StateType
      BY <2>1 DEF Fresh
    <3> HIDE DEF H
    <3> QED BY <2>2, <2>3, <2>4, <3>1, PlanInduction
  <2>6. st'.shards = After(st.shards, plan')
    BY <2>1, RoundState DEF IInv, After
  <2> QED BY <2>5, <2>6 DEF EvensOut, Unevenness
<1> QED BY <1>1, RoundsInductive, PTL DEF Spec, FreshRoundsEvenOut
----------------------------------------------------------------------------
(* A round on indexes that are up to date balances the pods.               *)

\* A shard that was looked at and has not moved was not worth moving, and is still not: its
\* pod is at most one ahead of every pod that may be given shards.
LookedAt(r, seen, plan0, immediately) ==
  \A x \in seen : plan0[x] = NoPod =>
     \A q \in Eligible(r, plan0, immediately) :
        Load(r, plan0, r.shards[x]) <= Load(r, plan0, q) + 1

LEMMA PickLooks ==
  ASSUME NEW r \in StateType, NEW immediately, NEW plan0, SoundPlan(r, plan0, immediately),
         NEW seen \in SUBSET Shards, LookedAt(r, seen, plan0, immediately),
         NEW s \in Shards, plan0[s] = NoPod
  PROVE  LookedAt(r, seen \cup {s}, Pick(r, plan0, s, immediately), immediately)
<1>1. PICK new : new = Pick(r, plan0, s, immediately)
  OBVIOUS
<1>2. plan0 \in ShardMaps /\ r.shards \in [Shards -> PodOpt]
  BY StateParts DEF SoundPlan
<1>3. \A q : Load(r, plan0, q) \in Nat /\ Load(r, new, q) \in Nat
  BY LoadType
<1>4. CASE /\ new = plan0
           /\ \/ Eligible(r, plan0, immediately) = {}
              \/ \E p \in Eligible(r, plan0, immediately) :
                    /\ ~WorthMoving(r, plan0, s, p)
                    /\ \A q \in Eligible(r, plan0, immediately) :
                          Load(r, plan0, p) <= Load(r, plan0, q)
  <2>1. ASSUME NEW q \in Eligible(r, plan0, immediately)
        PROVE  Load(r, plan0, r.shards[s]) <= Load(r, plan0, q) + 1
    <3>1. PICK p \in Eligible(r, plan0, immediately) :
            ~WorthMoving(r, plan0, s, p) /\ Load(r, plan0, p) <= Load(r, plan0, q)
      BY <1>4, <2>1
    <3>2. PICK n \in Nat : n = Load(r, plan0, r.shards[s])
      BY <1>3
    <3>3. ~(Load(r, plan0, p) + 1 < n)
      BY <3>1, <3>2 DEF WorthMoving
    <3> QED BY <1>3, <3>1, <3>2, <3>3
  <2> QED BY <1>1, <1>4, <2>1 DEF LookedAt
<1>5. CASE \E p \in Pods : ShardGiven(r, plan0, s, p, new, immediately)
  <2>1. PICK p \in Pods : ShardGiven(r, plan0, s, p, new, immediately)
    BY <1>5
  <2>2. /\ \A q \in DOMAIN r.perPod : q \notin Sources(new, r.shards) =>
             /\ Load(r, plan0, q) <= Load(r, new, q)
             /\ Load(r, new, q) <= Load(r, plan0, q) + 1
        /\ \A q \in PodOpt \ {p} : Load(r, new, q) <= Load(r, plan0, q)
    BY <2>1, LoadsAfter
  <2>3. p \in DOMAIN r.perPod /\ p \notin Sources(new, r.shards)
    <3>1. SoundPlan(r, new, immediately)
      BY <1>1, PickSound
    <3> QED BY <2>1, <3>1 DEF SoundPlan, ShardGiven
  <2>4. SUFFICES ASSUME NEW x \in seen \cup {s}, new[x] = NoPod,
                        NEW q \in Eligible(r, new, immediately)
                 PROVE  Load(r, new, r.shards[x]) <= Load(r, new, q) + 1
    BY <1>1 DEF LookedAt
  <2>5. x \in seen /\ plan0[x] = NoPod
    <3>1. s \in Moved(new)
      BY <2>1 DEF ShardGiven
    <3>2. x # s
      BY <2>4, <3>1 DEF Moved
    <3> QED BY <2>1, <2>4, <3>2 DEF ShardGiven
  <2>6. q \in Eligible(r, plan0, immediately)
    BY <2>1, <2>4, EligibleShrinks DEF ShardGiven
  <2>7. Load(r, plan0, q) <= Load(r, new, q)
    BY <2>2, <2>4 DEF Eligible
  <2>8. PICK old \in PodOpt : old = r.shards[x]
    BY <1>2, <2>5
  <2>9. Load(r, plan0, old) <= Load(r, plan0, q) + 1
    BY <2>5, <2>6, <2>8 DEF LookedAt
  <2>10. /\ Load(r, plan0, old) \in Nat /\ Load(r, plan0, q) \in Nat
         /\ Load(r, new, old) \in Nat /\ Load(r, new, q) \in Nat
    BY <1>3
  <2>11. CASE old = p
    <3>1. Load(r, plan0, old) <= Load(r, plan0, q)
      BY <2>1, <2>6, <2>11 DEF ShardGiven
    <3>2. Load(r, new, old) <= Load(r, plan0, old) + 1
      BY <2>2, <2>3, <2>11
    <3>3. Load(r, new, old) <= Load(r, new, q) + 1
      BY ONLY <2>7, <2>10, <3>1, <3>2
    <3> QED BY <2>8, <3>3
  <2>12. CASE old # p
    <3>1. Load(r, new, old) <= Load(r, plan0, old)
      BY <2>2, <2>12
    <3>2. Load(r, new, old) <= Load(r, new, q) + 1
      BY ONLY <2>7, <2>9, <2>10, <3>1
    <3> QED BY <2>8, <3>2
  <2> QED BY <2>11, <2>12
<1>6. \/ \E p \in Pods : ShardGiven(r, plan0, s, p, Pick(r, plan0, s, immediately), immediately)
      \/ /\ Pick(r, plan0, s, immediately) = plan0
         /\ \/ Eligible(r, plan0, immediately) = {}
            \/ \E p \in Eligible(r, plan0, immediately) :
                  /\ ~WorthMoving(r, plan0, s, p)
                  /\ \A q \in Eligible(r, plan0, immediately) :
                        Load(r, plan0, p) <= Load(r, plan0, q)
  BY <1>2, PickGives
<1>7. LookedAt(r, seen \cup {s}, new, immediately)
  BY ONLY <1>1, <1>4, <1>5, <1>6
<1> QED BY ONLY <1>1, <1>7

LEMMA AllLookedAt ==
  ASSUME NEW r \in StateType, NEW shards \in SUBSET Shards, NEW immediately
  PROVE  LookedAt(r, shards, PickNewPods(r, shards, immediately), immediately)
<1> DEFINE H == {g \in (SUBSET Shards) \X ShardMaps : LookedAt(r, g[1], g[2], immediately)}
<1>1. <<{}, Stay>> \in H
  <2>1. Stay \in ShardMaps /\ LookedAt(r, {}, Stay, immediately)
    BY StaySound DEF SoundPlan, LookedAt
  <2> QED BY <2>1
<1>2. ASSUME NEW seen \in SUBSET shards, NEW plan0 \in ShardMaps, NEW s \in shards,
             <<seen, plan0>> \in H, SoundPlan(r, plan0, immediately), plan0[s] = NoPod
      PROVE  <<seen \cup {s}, Pick(r, plan0, s, immediately)>> \in H
  <2>1. LookedAt(r, seen, plan0, immediately) /\ seen \in SUBSET Shards /\ s \in Shards
    BY <1>2
  <2>2. PICK more \in SUBSET Shards : more = seen \cup {s}
    BY <2>1
  <2>3. PICK new \in ShardMaps : new = Pick(r, plan0, s, immediately)
    BY <1>2, <2>1, PickSound DEF SoundPlan
  <2>4. LookedAt(r, more, new, immediately)
    BY <1>2, <2>1, <2>2, <2>3, PickLooks
  <2>5. <<more, new>> \in H
    BY <2>4
  <2> QED BY <2>2, <2>3, <2>5
<1>3. <<shards, PickNewPods(r, shards, immediately)>> \in H
  <2> HIDE DEF H
  <2> QED BY <1>1, <1>2, SeenInduction
<1> QED BY <1>3

\* A pod left with all but its extra shards has no more than the average, and when there were
\* extra ones, more than the average minus one.
LEMMA ShareLeft ==
  ASSUME NEW r \in StateType, r.podCount # 0, NEW n \in Nat
  PROVE  /\ ExtraShards(r, n) \in Nat
         /\ (n - ExtraShards(r, n)) * r.podCount <= Cardinality(Shards)
         /\ ExtraShards(r, n) # 0 =>
              (n - ExtraShards(r, n) + 1) * r.podCount > Cardinality(Shards)
<1>1. PICK c \in Nat \ {0}, S \in Nat : c = r.podCount /\ S = Cardinality(Shards)
  BY StateParts, FS_CardinalityType
<1>2. PICK excess \in Int : excess = n * c - S
  BY <1>1
<1>3. CASE excess <= 0
  <2>1. ExtraShards(r, n) = 0
    BY <1>1, <1>2, <1>3 DEF ExtraShards
  <2>2. (n - 0) * c = n * c /\ n * c \in Nat
    BY <1>1
  <2> QED BY <1>1, <1>2, <1>3, <2>1, <2>2
<1>4. CASE ~(excess <= 0)
  <2>1. ExtraShards(r, n) = (excess + c - 1) \div c
    BY <1>1, <1>2, <1>4 DEF ExtraShards
  <2>2. excess + c - 1 \in Nat
    BY <1>1, <1>4
  <2>3. PICK k \in Nat : /\ k = (excess + c - 1) \div c
                         /\ c * k <= excess + c - 1 /\ excess + c - 1 < c * k + c
    <3>1. PICK x \in Nat : x = excess + c - 1
      BY <2>2
    <3>2. x \div c \in Nat /\ c * (x \div c) <= x /\ x < c * (x \div c) + c
      BY <1>1, <3>1
    <3> QED BY <3>1, <3>2
  <2>4. (n - k) * c = n * c - c * k /\ (n - k + 1) * c = n * c - c * k + c
    BY <1>1, <2>3
  <2>5. n * c \in Int /\ c * k \in Int
    BY <1>1, <2>3
  <2>6. (n - k) * c <= S /\ (n - k + 1) * c > S
    BY <1>1, <1>2, <2>3, <2>4, <2>5
  <2> QED BY <1>1, <2>1, <2>3, <2>6
<1> QED BY <1>3, <1>4

\* Pods with at most m shards each, one of them with fewer, share fewer than m for each.
LEMMA Pigeonhole ==
  ASSUME NEW f \in ShardMaps, NEW P \in SUBSET Pods, \A s \in Shards : f[s] \in P,
         NEW m \in Nat, \A p \in P : Cardinality(With(f, p)) <= m,
         NEW q \in P, Cardinality(With(f, q)) < m
  PROVE  Cardinality(Shards) < Cardinality(P) * m
<1> DEFINE T == P \X (0..m - 1)
           U == T \ {<<q, m - 1>>}
           place == [s \in Shards |-> <<f[s], Rank(With(f, f[s]), s)>>]
<1>1. /\ IsFiniteSet(P) /\ Cardinality(P) \in Nat /\ Cardinality(Shards) \in Nat
  BY FS_Subset, FS_CardinalityType
<1>2. /\ IsFiniteSet(0..m - 1) /\ Cardinality(0..m - 1) = m
  <2>1. m - 1 \in Int /\ 0 \in Int
    OBVIOUS
  <2>2. IsFiniteSet(0..m - 1) /\ Cardinality(0..m - 1) = IF 0 > m - 1 THEN 0 ELSE (m - 1) - 0 + 1
    BY <2>1, FS_Interval
  <2> QED BY <2>2
<1>3. IsFiniteSet(T) /\ Cardinality(T) = Cardinality(P) * m
  BY <1>1, <1>2, FS_Product
<1>4. \A p \in P : With(f, p) \in SUBSET Nat /\ IsFiniteSet(With(f, p)) /\ Cardinality(With(f, p)) \in Nat
  <2> TAKE p \in P
  <2>1. With(f, p) \in SUBSET Shards
    BY DEF With
  <2> QED BY <2>1, FS_Subset, FS_CardinalityType
<1>5. <<q, m - 1>> \in T
  BY <1>4
<1>6. IsFiniteSet(U) /\ Cardinality(U) = Cardinality(P) * m - 1
  <2>1. PICK e \in T : e = <<q, m - 1>>
    BY <1>5
  <2>2. PICK n \in Nat : n = Cardinality(P) * m
    BY <1>1
  <2> HIDE DEF T
  <2>3. IsFiniteSet(T \ {e}) /\ Cardinality(T \ {e}) = Cardinality(T) - 1
    <3>1. IsFiniteSet(T)
      BY <1>3
    <3>2. /\ IsFiniteSet(T \ {e})
          /\ Cardinality(T \ {e}) = IF e \in T THEN Cardinality(T) - 1 ELSE Cardinality(T)
      BY ONLY <3>1, FS_RemoveElement
    <3> QED BY <2>1, <3>2
  <2> QED BY <1>3, <2>1, <2>2, <2>3
<1>7. ASSUME NEW p \in P
      PROVE  /\ \A s \in With(f, p) : Rank(With(f, p), s) \in 0..Cardinality(With(f, p)) - 1
             /\ \A s, t \in With(f, p) : Rank(With(f, p), s) = Rank(With(f, p), t) => s = t
  <2>1. [x \in With(f, p) |-> Rank(With(f, p), x)]
          \in Injection(With(f, p), 0..Cardinality(With(f, p)) - 1)
    BY <1>4, RankIsInjective
  <2> QED BY <2>1 DEF Injection, IsInjective
<1>8. ASSUME NEW s \in Shards PROVE place[s] \in U
  <2>1. PICK p \in P : p = f[s] /\ s \in With(f, p)
    BY DEF With
  <2>2. PICK k \in 0..Cardinality(With(f, p)) - 1 : k = Rank(With(f, p), s)
    BY <1>7, <2>1
  <2>3. place[s] = <<p, k>>
    BY <2>1, <2>2
  <2>4. Cardinality(With(f, p)) <= m /\ (p = q => Cardinality(With(f, p)) < m)
    BY <2>1
  <2>5. k \in 0..m - 1 /\ (p = q => k # m - 1)
    BY <1>4, <2>2, <2>4
  <2> QED BY <2>1, <2>3, <2>5
<1>9. ASSUME NEW s \in Shards, NEW t \in Shards, place[s] = place[t] PROVE s = t
  <2>1. f[s] = f[t] /\ Rank(With(f, f[s]), s) = Rank(With(f, f[t]), t)
    BY <1>9
  <2>2. f[s] \in P /\ s \in With(f, f[s]) /\ t \in With(f, f[s])
    BY <2>1 DEF With
  <2> QED BY <1>7, <2>1, <2>2
<1>10. place \in Injection(Shards, U)
  <2>1. place \in [Shards -> U]
    BY <1>8
  <2> HIDE DEF place, U
  <2> QED BY <1>9, <2>1 DEF Injection, IsInjective
<1>11. Cardinality(Shards) <= Cardinality(U)
  <2> HIDE DEF place, U
  <2> QED BY <1>6, <1>10, FS_Injection
<1>12. PICK n \in Nat : n = Cardinality(P) * m
  BY <1>1
<1> HIDE DEF U
<1> QED BY <1>1, <1>6, <1>11, <1>12

\* What make computed, of a state whose indexes are up to date.
LEMMA FreshParts ==
  ASSUME NEW r, Fresh(r)
  PROVE  /\ r \in StateType /\ r.shards \in [Shards -> Pods] /\ r.podCount = Cardinality(DOMAIN r.pods)
         /\ \A s \in Shards : r.shards[s] \in DOMAIN r.perPod
         /\ \A p \in DOMAIN r.perPod : r.perPod[p] = With(r.shards, p)
         /\ r.allMax => \A p \in DOMAIN r.pods : r.pods[p] = r.maxVersion
<1>1. r \in StateType /\ r.shards \in [Shards -> PodOpt]
  BY StateParts DEF Fresh
<1>2. PICK pods, shards : r = Make(pods, shards) /\ pods = r.pods /\ shards = r.shards
  BY DEF Fresh
<1>3. /\ r.podCount = Cardinality(DOMAIN pods)
      /\ r.unassigned = {s \in Shards : shards[s] = NoPod}
      /\ r.perPod = [p \in DOMAIN pods \cup ({shards[s] : s \in Shards} \ {NoPod}) |->
                       {s \in Shards : shards[s] = p}]
      /\ r.allMax => \A p \in DOMAIN pods : pods[p] = r.maxVersion
  BY <1>2 DEF Make
<1>4. \A s \in Shards : r.shards[s] \in Pods /\ r.shards[s] # NoPod
  <2>1. r.unassigned = {}
    BY DEF Fresh
  <2>2. \A s \in Shards : shards[s] # NoPod
    BY ONLY <1>3, <2>1
  <2> QED BY ONLY <1>1, <1>2, <2>2 DEF PodOpt
<1>5. r.shards \in [Shards -> Pods]
  BY <1>1, <1>4
<1>6. \A s \in Shards : r.shards[s] \in DOMAIN r.perPod
  BY <1>2, <1>3, <1>4
<1>7. \A p \in DOMAIN r.perPod : r.perPod[p] = With(r.shards, p)
  BY <1>2, <1>3 DEF With
<1>8. r.podCount = Cardinality(DOMAIN r.pods)
  BY <1>2, <1>3
<1>9. r.allMax => \A p \in DOMAIN r.pods : r.pods[p] = r.maxVersion
  BY <1>2, <1>3
<1> QED BY <1>1, <1>5, <1>6, <1>7, <1>8, <1>9

\* A plan that moves none but surplus shards leaves a pod that receives none with all but its
\* extra shards at least, and with exactly those when it moved its whole surplus.
LEMMA SurplusMoved ==
  ASSUME NEW r, Fresh(r), NEW plan0 \in ShardMaps, NEW p \in DOMAIN r.perPod,
         p \notin Targets(plan0),
         Moved(plan0) \subseteq UNION {Surplus(r, q) : q \in DOMAIN r.perPod}
  PROVE  LET n == Cardinality(r.perPod[p])
             k == ExtraShards(r, n)
             w == Cardinality(With(After(r.shards, plan0), p))
         IN  /\ n \in Nat /\ w \in Nat /\ n - k <= w
             /\ Surplus(r, p) \subseteq Moved(plan0) => w = n - k
             /\ p \in Sources(plan0, r.shards) => k # 0
<1> DEFINE n == Cardinality(r.perPod[p])
           k == ExtraShards(r, n)
           W == With(After(r.shards, plan0), p)
           w == Cardinality(W)
           gone == Surplus(r, p) \cap Moved(plan0)
<1>1. /\ r \in StateType /\ r.shards \in [Shards -> Pods]
      /\ \A s \in Shards : r.shards[s] \in DOMAIN r.perPod
      /\ \A q \in DOMAIN r.perPod : r.perPod[q] = With(r.shards, q)
  BY FreshParts
<1>2. \A q \in DOMAIN r.perPod : /\ Surplus(r, q) \in SUBSET r.perPod[q]
                                 /\ Cardinality(Surplus(r, q)) = ExtraShards(r, Cardinality(r.perPod[q]))
                                 /\ IsFiniteSet(r.perPod[q])
  BY <1>1, SurplusSize
<1>3. \A s \in Moved(plan0) : r.shards[s] = p => s \in Surplus(r, p)
  <2>1. SUFFICES ASSUME NEW s \in Moved(plan0), r.shards[s] = p PROVE s \in Surplus(r, p)
    OBVIOUS
  <2>2. PICK q \in DOMAIN r.perPod : s \in Surplus(r, q)
    BY <2>1
  <2>3. r.shards[s] = q
    BY <1>1, <1>2, <2>2 DEF With
  <2> QED BY <2>1, <2>2, <2>3
<1>4. W = r.perPod[p] \ gone
  <2>1. ASSUME NEW s \in Shards PROVE s \in W <=> s \in r.perPod[p] \ gone
    <3>1. CASE plan0[s] = NoPod
      BY <1>1, <3>1 DEF With, After, Moved
    <3>2. CASE plan0[s] # NoPod
      <4>1. s \in Moved(plan0) /\ plan0[s] # p
        BY <3>2 DEF Moved, Targets
      <4>2. s \notin W
        BY <3>2, <4>1 DEF With, After
      <4>3. s \in r.perPod[p] => s \in gone
        BY <1>1, <1>3, <4>1 DEF With
      <4> QED BY <4>2, <4>3
    <3> QED BY <3>1, <3>2
  <2>2. W \subseteq Shards /\ r.perPod[p] \subseteq Shards
    BY <1>1 DEF With
  <2> HIDE DEF W, gone
  <2> QED BY <2>1, <2>2
<1>5. /\ gone \subseteq Surplus(r, p) /\ gone \subseteq r.perPod[p]
      /\ Surplus(r, p) \subseteq Moved(plan0) => gone = Surplus(r, p)
  BY <1>2
<1>6. /\ IsFiniteSet(Surplus(r, p)) /\ IsFiniteSet(gone)
      /\ n \in Nat /\ Cardinality(gone) \in Nat /\ Cardinality(Surplus(r, p)) = k /\ k \in Nat
      /\ Cardinality(gone) <= k
  <2>1. IsFiniteSet(Surplus(r, p)) /\ Cardinality(Surplus(r, p)) = k
    BY <1>2, FS_Subset
  <2>2. IsFiniteSet(gone) /\ Cardinality(gone) <= Cardinality(Surplus(r, p))
    <3> HIDE DEF gone
    <3> QED BY <1>5, <2>1, FS_Subset
  <2>3. n \in Nat /\ Cardinality(gone) \in Nat /\ Cardinality(Surplus(r, p)) \in Nat
    BY <1>2, <2>1, <2>2, FS_CardinalityType
  <2> HIDE DEF n, k
  <2> QED BY <2>1, <2>2, <2>3
<1>7. w = n - Cardinality(gone) /\ w \in Nat
  <2>1. r.perPod[p] \cap gone = gone
    BY <1>5
  <2> HIDE DEF gone, W
  <2>2. /\ IsFiniteSet(r.perPod[p] \ gone)
        /\ Cardinality(r.perPod[p] \ gone) = Cardinality(r.perPod[p]) - Cardinality(r.perPod[p] \cap gone)
    BY <1>2, FS_Difference
  <2> QED BY <1>4, <2>1, <2>2, FS_CardinalityType
<1>8. p \in Sources(plan0, r.shards) => k # 0
  <2>1. SUFFICES ASSUME p \in Sources(plan0, r.shards) PROVE k # 0
    OBVIOUS
  <2>2. PICK s \in Moved(plan0) : r.shards[s] = p
    BY <2>1 DEF Sources
  <2>3. Surplus(r, p) # {}
    BY <1>3, <2>2
  <2> HIDE DEF k
  <2> QED BY <1>6, <2>3, FS_EmptySet
<1> HIDE DEF n, k, w, gone
<1>9. n - k <= w /\ (Surplus(r, p) \subseteq Moved(plan0) => w = n - k)
  BY <1>5, <1>6, <1>7
<1> QED BY <1>6, <1>7, <1>8, <1>9 DEF n, k, w

\* The decision of such a state takes from the surplus of its pods, and looks at all of it.
LEMMA FreshDecision ==
  ASSUME NEW r, Fresh(r), r.allMax
  PROVE  LET extra == UNION {Surplus(r, p) : p \in DOMAIN r.perPod}
             decision == Decide(r, FALSE)
         IN  /\ SoundPlan(r, decision, FALSE)
             /\ Moved(decision) \subseteq extra
             /\ LookedAt(r, extra, decision, FALSE)
<1> DEFINE extra == UNION {Surplus(r, p) : p \in DOMAIN r.perPod}
<1>1. r \in StateType /\ r.unassigned = {}
  BY DEF Fresh
<1>2. extra \in SUBSET Shards
  BY <1>1, SurplusSize, StateParts
<1>3. Decide(r, FALSE) = PickNewPods(r, extra, FALSE)
  BY <1>1 DEF Decide, DecideUnbalanced
<1> HIDE DEF extra
<1>4. LookedAt(r, extra, PickNewPods(r, extra, FALSE), FALSE)
  BY <1>1, <1>2, AllLookedAt
<1>5. Stay \in ShardMaps
  BY <1>1, StaySound DEF SoundPlan
<1>6. ASSUME NEW plan0 \in ShardMaps, NEW s \in extra, SoundPlan(r, plan0, FALSE), plan0[s] = NoPod
      PROVE  Pick(r, plan0, s, FALSE) \in ShardMaps
  BY <1>1, <1>2, <1>6, PickSound DEF SoundPlan
<1>7. SoundPlan(r, PickNewPods(r, extra, FALSE), FALSE)
  BY <1>1, <1>2, <1>5, <1>6, PlanInduction
<1>8. Moved(PickNewPods(r, extra, FALSE)) \subseteq extra
  BY <1>1, <1>2, <1>5, <1>6, PlanInduction
<1> QED BY <1>3, <1>4, <1>7, <1>8 DEF extra

\* A pod that lost nothing was one that might be given shards all the while, so none that
\* received any is further ahead of it, and no pod with surplus left is.  Were it two behind
\* another all the same, no pod would have more than the average: too few shards in all.
LEMMA KeepersKeepUp ==
  ASSUME NEW r, Fresh(r), r.allMax, DOMAIN r.perPod = DOMAIN r.pods,
         NEW decision, decision = Decide(r, FALSE),
         \A p \in Pods : Cardinality(GivenTo(decision, p)) * RateDen < Cardinality(Shards) * RateNum,
         NEW p \in DOMAIN r.pods, NEW q \in DOMAIN r.pods, q \notin Sources(decision, r.shards)
  PROVE  Cardinality(With(After(r.shards, decision), p))
           <= Cardinality(With(After(r.shards, decision), q)) + 1
<1> DEFINE extra == UNION {Surplus(r, x) : x \in DOMAIN r.perPod}
           g == After(r.shards, decision)
           P == DOMAIN r.pods
           w(x) == Cardinality(With(g, x))
<1>1. /\ r \in StateType /\ r.shards \in [Shards -> Pods] /\ r.podCount = Cardinality(P)
      /\ \A s \in Shards : r.shards[s] \in DOMAIN r.perPod
      /\ \A x \in DOMAIN r.perPod : r.perPod[x] = With(r.shards, x)
      /\ \A x \in P : r.pods[x] = r.maxVersion
  BY FreshParts
<1>2. /\ SoundPlan(r, decision, FALSE) /\ Moved(decision) \subseteq extra
      /\ LookedAt(r, extra, decision, FALSE)
  BY FreshDecision
<1>3. decision \in ShardMaps /\ Targets(decision) \subseteq P
  BY <1>2 DEF SoundPlan
<1>4. P \in SUBSET Pods /\ IsFiniteSet(P)
  BY <1>1, StateParts, FS_Subset
<1> HIDE DEF P
<1>5. q \in Eligible(r, decision, FALSE)
  <2>1. r.pods[q] = r.maxVersion /\ Has(r.pods, q)
    BY <1>1 DEF P, Has
  <2>2. r.pods[q] \in Seq(Nat)
    <3>1. PICK Q \in SUBSET Pods : r.pods \in [Q -> Versions]
      BY <1>1, StateParts DEF PodMaps
    <3> QED BY <3>1, VersionsAssumption
  <2>3. CompareVersion(r.pods[q], r.maxVersion) = 0
    BY <2>1, <2>2, CompareMeans, AtLeastBasics
  <2>4. q \in Pods
    BY <1>4 DEF P
  <2> QED BY <2>1, <2>3, <2>4 DEF Eligible
<1>6. \A x \in P : Load(r, decision, x) = w(x) /\ w(x) \in Nat
  <2> TAKE x \in P
  <2>1. x \in DOMAIN r.perPod
    BY DEF P
  <2>2. Load(r, decision, x) = w(x)
    BY <1>3, <2>1, FreshLoad
  <2>3. Load(r, decision, x) \in Nat
    BY <1>1, LoadType
  <2> HIDE DEF w
  <2> QED BY <2>2, <2>3
<1> DEFINE c == Cardinality(P)
           S == Cardinality(Shards)
<1>7. c \in Nat \ {0} /\ S \in Nat
  <2>1. P # {} /\ c \in Nat /\ S \in Nat
    BY <1>4, FS_CardinalityType DEF P
  <2> QED BY <1>4, <2>1, FS_EmptySet
<1>8. \A x \in P : w(x) <= w(q) + 1 \/ w(x) * c <= S
  <2> TAKE x \in P
  <2> HIDE DEF w, c, S
  <2>1. q \in P /\ x \in DOMAIN r.perPod
    BY DEF P
  <2>2. CASE x \in Targets(decision)
    <3>1. Load(r, decision, x) <= Load(r, decision, q) + 1
      BY <1>2, <1>5, <2>2 DEF SoundPlan, AtMostOneAhead
    <3> QED BY <1>6, <2>1, <3>1
  <2>3. CASE \E y \in Surplus(r, x) : decision[y] = NoPod
    <3>1. PICK y \in Surplus(r, x) : decision[y] = NoPod
      BY <2>3
    <3>2. y \in extra /\ r.shards[y] = x
      <4>1. Surplus(r, x) \in SUBSET r.perPod[x]
        BY <1>1, <2>1, SurplusSize
      <4> QED BY <1>1, <2>1, <4>1 DEF With
    <3>3. Load(r, decision, x) <= Load(r, decision, q) + 1
      BY <1>2, <1>5, <3>1, <3>2 DEF LookedAt
    <3> QED BY <1>6, <2>1, <3>3
  <2>4. CASE x \notin Targets(decision) /\ \A y \in Surplus(r, x) : decision[y] # NoPod
    <3>1. PICK n \in Nat : n = Cardinality(r.perPod[x])
      <4>1. IsFiniteSet(r.perPod[x])
        BY <1>1, <2>1, SurplusSize
      <4> QED BY <4>1, FS_CardinalityType
    <3>2. Surplus(r, x) \subseteq Moved(decision)
      <4>1. Surplus(r, x) \in SUBSET r.perPod[x] /\ r.perPod[x] \in SUBSET Shards
        BY <1>1, <2>1, SurplusSize DEF With
      <4> QED BY <2>4, <4>1 DEF Moved
    <3>3. Surplus(r, x) \subseteq Moved(decision) =>
            Cardinality(With(After(r.shards, decision), x)) =
              Cardinality(r.perPod[x]) - ExtraShards(r, Cardinality(r.perPod[x]))
      BY <1>2, <1>3, <2>1, <2>4, SurplusMoved
    <3>4. w(x) = n - ExtraShards(r, n)
      BY <3>1, <3>2, <3>3 DEF w
    <3>5. (n - ExtraShards(r, n)) * r.podCount <= Cardinality(Shards)
      BY <1>1, <1>7, ShareLeft DEF c
    <3>6. w(x) * c <= S
      BY <1>1, <3>4, <3>5 DEF c, S
    <3> QED BY <3>6
  <2> QED BY <2>2, <2>3, <2>4
<1>9. SUFFICES ASSUME ~(w(p) <= w(q) + 1) PROVE FALSE
  OBVIOUS
<1>10. PICK m \in Nat : c * m <= S /\ S < c * m + c
  <2> HIDE DEF c, S
  <2>1. S \div c \in Nat /\ c * (S \div c) <= S /\ S < c * (S \div c) + c
    BY <1>7
  <2> QED BY <2>1
<1>11. p \in P /\ q \in P
  BY DEF P
<1>12. \A x \in P : w(x) * c <= S => w(x) <= m
  <2> TAKE x \in P
  <2>1. PICK n \in Nat : n = w(x)
    BY <1>6
  <2> HIDE DEF w, c, S
  <2>2. ASSUME n * c <= S, n >= m + 1 PROVE FALSE
    <3>1. n * c >= (m + 1) * c /\ (m + 1) * c = c * m + c
      BY <1>7, <1>10, <2>1, <2>2
    <3>2. n * c \in Nat /\ c * m \in Nat
      BY <1>7, <1>10, <2>1
    <3> QED BY <1>7, <1>10, <2>1, <2>2, <3>1, <3>2
  <2> QED BY <1>10, <2>1, <2>2
<1> HIDE DEF w, c, S
<1>13. w(q) + 2 <= w(p) /\ w(p) <= m
  <2>1. w(p) * c <= S
    BY <1>8, <1>9, <1>11
  <2>2. w(p) \in Nat /\ w(q) \in Nat /\ w(p) <= m
    BY <1>6, <1>11, <1>12, <2>1
  <2> QED BY <1>9, <2>2
<1>14. (\A x \in P : w(x) <= m) /\ w(q) < m
  <2>1. w(p) \in Nat /\ w(q) \in Nat
    BY <1>6, <1>11
  <2>2. ASSUME NEW x \in P PROVE w(x) <= m
    <3>1. w(x) \in Nat
      BY <1>6
    <3> QED BY <1>8, <1>10, <1>12, <1>13, <2>1, <3>1
  <2> QED BY <1>10, <1>13, <2>1, <2>2
<1>15. g \in ShardMaps /\ \A s \in Shards : g[s] \in P
  <2>1. ASSUME NEW s \in Shards PROVE g[s] \in P
    <3>1. CASE decision[s] = NoPod
      BY <1>1, <3>1 DEF After, P
    <3>2. CASE decision[s] # NoPod
      <4>1. decision[s] \in Targets(decision)
        BY <3>2 DEF Targets, Moved
      <4> QED BY <1>3, <3>2, <4>1 DEF After
    <3> QED BY <3>1, <3>2
  <2>2. g = [s \in Shards |-> g[s]]
    BY DEF After
  <2> HIDE DEF g
  <2> QED BY <1>4, <2>1, <2>2 DEF ShardMaps, PodOpt
<1>16. S < c * m
  <2>1. (\A x \in P : Cardinality(With(g, x)) <= m) /\ Cardinality(With(g, q)) < m
    BY <1>14 DEF w
  <2> HIDE DEF g
  <2>2. Cardinality(Shards) < Cardinality(P) * m
    BY ONLY <1>4, <1>10, <1>11, <1>15, <2>1, Pigeonhole
  <2> QED BY <2>2 DEF c, S
<1>17. c * m \in Nat
  BY <1>7, <1>10
<1> QED BY <1>7, <1>10, <1>16, <1>17

\* A round that decides on indexes that are up to date, with every shard assigned, pods of
\* one version and no pod held back by the rebalance rate, leaves every pod that lost no
\* shard at most one behind any other, and one that lost some with the average rounded down:
\* the rounding of extraShards, the filters of pickNewPods and its two shard difference
\* together balance the pods, for any number of pods and shards.
THEOREM FreshRoundsBalance == Spec => FreshRoundBalances
<1>1. ASSUME IInv, Round, Fresh(st), st.allMax, Registered # {}, ~\E p \in Pods : HeldBack(p)
      PROVE  \A q \in Registered :
               IF q \in Sources(plan', st.shards)
               THEN (Cardinality(Owned(q)') + 1) * st.podCount > Cardinality(Shards)
               ELSE \A p \in Registered : Cardinality(Owned(p)') <= Cardinality(Owned(q)') + 1
  <2>1. /\ st \in StateType /\ DOMAIN st.perPod = DOMAIN st.pods
        /\ plan' = Decide(st, FALSE) /\ plan' \in ShardMaps
        /\ st'.shards = After(st.shards, plan')
    BY <1>1, RoundState DEF IInv, TypeOK, IndexesFit, After
  <2>2. \A p \in Registered : Owned(p)' = With(After(st.shards, plan'), p)
    BY <2>1 DEF Owned, With
  <2>3. \A p \in Pods : Cardinality(GivenTo(plan', p)) * RateDen < Cardinality(Shards) * RateNum
    <3> TAKE p \in Pods
    <3>1. IsFiniteSet(GivenTo(plan', p))
      BY GivenSubset, FS_Subset
    <3>2. PICK a \in Nat, b \in Nat : a = Cardinality(GivenTo(plan', p)) /\ b = Cardinality(Shards)
      BY <3>1, FS_CardinalityType
    <3>3. ~(a * RateDen >= b * RateNum)
      BY <1>1, <3>2 DEF HeldBack
    <3>4. a * RateDen \in Nat /\ b * RateNum \in Nat
      BY RateAssumption
    <3> QED BY <3>2, <3>3, <3>4
  <2>4. ASSUME NEW q \in Registered, q \notin Sources(plan', st.shards), NEW p \in Registered
        PROVE  Cardinality(Owned(p)') <= Cardinality(Owned(q)') + 1
    <3>1. p \in DOMAIN st.pods /\ q \in DOMAIN st.pods
      BY <2>4 DEF Registered
    <3>2. Cardinality(With(After(st.shards, plan'), p))
            <= Cardinality(With(After(st.shards, plan'), q)) + 1
      BY <1>1, <2>1, <2>3, <2>4, <3>1, KeepersKeepUp
    <3> QED BY <2>2, <2>4, <3>2
  <2>5. ASSUME NEW q \in Registered, q \in Sources(plan', st.shards)
        PROVE  (Cardinality(Owned(q)') + 1) * st.podCount > Cardinality(Shards)
    <3> DEFINE n == Cardinality(st.perPod[q])
               k == ExtraShards(st, n)
               w == Cardinality(With(After(st.shards, plan'), q))
    <3>1. q \in DOMAIN st.perPod /\ st.podCount # 0 /\ st.podCount \in Nat
      <4>1. st.podCount = Cardinality(DOMAIN st.pods) /\ IsFiniteSet(DOMAIN st.pods)
        BY <1>1, <2>1, FreshParts, StateParts, FS_Subset
      <4>2. q \in DOMAIN st.pods
        BY <2>5 DEF Registered
      <4> QED BY <2>1, <4>1, <4>2, FS_EmptySet, FS_CardinalityType
    <3>2. /\ SoundPlan(st, plan', FALSE)
          /\ Moved(plan') \subseteq UNION {Surplus(st, p) : p \in DOMAIN st.perPod}
      BY <1>1, <2>1, FreshDecision
    <3>3. q \notin Targets(plan')
      BY <2>5, <3>2 DEF SoundPlan
    <3>4. n \in Nat /\ w \in Nat /\ n - k <= w /\ k # 0
      BY <1>1, <2>1, <2>5, <3>1, <3>2, <3>3, SurplusMoved
    <3>5. k \in Nat /\ (k # 0 => (n - k + 1) * st.podCount > Cardinality(Shards))
      <4> HIDE DEF n
      <4> QED BY <2>1, <3>1, <3>4, ShareLeft
    <3> HIDE DEF n, k, w
    <3>6. PICK c \in Nat : c = st.podCount
      BY <3>1
    <3>7. PICK a \in Int : a = n - k + 1 /\ a <= w + 1
      BY <3>4, <3>5
    <3>8. a * c <= (w + 1) * c /\ a * c \in Int /\ (w + 1) * c \in Int
      BY <3>4, <3>6, <3>7
    <3>9. Cardinality(Shards) \in Nat
      BY FS_CardinalityType
    <3>10. (w + 1) * c > Cardinality(Shards)
      BY <3>4, <3>5, <3>6, <3>7, <3>8, <3>9
    <3> QED BY <2>2, <2>5, <3>6, <3>10 DEF w
  <2> QED BY <2>4, <2>5
<1>2. IInv /\ [Next]_vars =>
        [/\ st = Make(st.pods, st.shards) /\ st.unassigned = {}
         /\ st.allMax /\ Registered # {}
         /\ ~\E p \in Pods : HeldBack(p)
         => \A q \in Registered :
              IF q \in Sources(plan', st.shards)
              THEN (Cardinality(Owned(q)') + 1) * st.podCount > Cardinality(Shards)
              ELSE \A p \in Registered : Cardinality(Owned(p)') <= Cardinality(Owned(q)') + 1]_vars
  BY <1>1 DEF Next, Fresh, IInv, TypeOK
<1> QED BY <1>2, RoundsInductive, PTL DEF Spec, FreshRoundBalances
=============================================================================
