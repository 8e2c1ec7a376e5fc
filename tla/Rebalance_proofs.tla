-------------------------- MODULE Rebalance_proofs --------------------------
(***************************************************************************)
(* Lemmas about the state of the Shard Manager and about the decision of a *)
(* rebalance, for any pods, shards, versions and rebalance rate.           *)
(*                                                                         *)
(* A decision is a fold over a list of shards.  What holds of every plan   *)
(* on its way is proved by induction on the length of the list, with the   *)
(* well-foundedness of < on the naturals: a set of naturals that has 0 and *)
(* the successor of each of its elements is all of them.                   *)
(***************************************************************************)
EXTENDS Rebalance, FiniteSetTheorems, TLAPS

USE ShardsAssumption, PodsAssumption, NoneAssumption
----------------------------------------------------------------------------
(* Naturals.                                                               *)

\* A set of naturals has a least element.
LEMMA LeastNatural ==
  ASSUME NEW S \in SUBSET Nat, S # {}
  PROVE  \E x \in S : \A y \in S : x <= y
<1>1. \E x \in S : \A y \in S : ~ (<<y, x>> \in OpToRel(<, Nat))
  BY NatLessThanWellFounded, WFMin
<1>2. PICK x \in S : \A y \in S : <<y, x>> \notin OpToRel(<, Nat)
  BY <1>1
<1>3. \A y \in S : ~(y < x)
  BY <1>2 DEF OpToRel
<1> QED BY <1>3

\* Induction, for a set of naturals.
LEMMA SetInduction ==
  ASSUME NEW S, 0 \in S, \A n \in Nat : n \in S => n + 1 \in S
  PROVE  \A n \in Nat : n \in S
<1>1. SUFFICES ASSUME Nat \ S # {} PROVE FALSE
  OBVIOUS
<1>2. PICK n \in Nat \ S : \A m \in Nat \ S : n <= m
  BY <1>1, LeastNatural
<1>3. n # 0 /\ n - 1 \in Nat /\ n - 1 \in S
  BY <1>2
<1> QED BY <1>2, <1>3

\* Induction up to a bound.
LEMMA BoundedInduction ==
  ASSUME NEW N \in Nat, NEW S, 0 \in S, \A n \in 0..N - 1 : n \in S => n + 1 \in S
  PROVE  \A n \in 0..N : n \in S
<1> DEFINE T == {n \in Nat : n <= N => n \in S}
<1>1. 0 \in T /\ \A n \in Nat : n \in T => n + 1 \in T
  OBVIOUS
<1>2. \A n \in Nat : n \in T
  <2> HIDE DEF T
  <2> QED BY <1>1, SetInduction
<1> QED BY <1>2
----------------------------------------------------------------------------
(* The order in which a list made from a set has its elements.             *)

\* How many elements of S are before x.
Rank(S, x) == Cardinality({y \in S : y < x})

\* Every element of S has a rank of its own.
LEMMA RankIsInjective ==
  ASSUME NEW S \in SUBSET Nat, IsFiniteSet(S)
  PROVE  [x \in S |-> Rank(S, x)] \in Injection(S, 0..Cardinality(S) - 1)
<1>1. ASSUME NEW x \in S, NEW z \in S, x < z PROVE Rank(S, x) < Rank(S, z)
  <2> DEFINE A == {y \in S : y < x}
             B == {y \in S : y < z}
  <2>1. IsFiniteSet(A) /\ IsFiniteSet(B)
    BY FS_Subset
  <2>2. A \cup {x} \in SUBSET B /\ x \notin A
    <3>1. \A y \in S : y < x => y < z
      BY <1>1
    <3>2. x \in B /\ x \notin A
      BY <1>1
    <3>3. A \subseteq B
      BY <3>1
    <3> QED BY <3>2, <3>3
  <2>3. IsFiniteSet(A \cup {x}) /\ Cardinality(A \cup {x}) = Cardinality(A) + 1
    BY <2>1, <2>2, FS_AddElement
  <2>4. Cardinality(A \cup {x}) <= Cardinality(B)
    BY <2>1, <2>2, FS_Subset
  <2>5. Cardinality(A) \in Nat /\ Cardinality(B) \in Nat
    BY <2>1, FS_CardinalityType
  <2> QED BY <2>3, <2>4, <2>5 DEF Rank
<1>2. ASSUME NEW x \in S PROVE Rank(S, x) \in 0..Cardinality(S) - 1
  <2> DEFINE A == {y \in S : y < x}
  <2>1. A \in SUBSET (S \ {x})
    OBVIOUS
  <2>2. IsFiniteSet(S \ {x}) /\ Cardinality(S \ {x}) = Cardinality(S) - 1
    BY FS_RemoveElement
  <2>3. IsFiniteSet(A) /\ Cardinality(A) <= Cardinality(S) - 1
    BY <2>1, <2>2, FS_Subset
  <2>4. Cardinality(A) \in Nat /\ Cardinality(S) \in Nat
    BY <2>3, FS_CardinalityType
  <2> QED BY <2>3, <2>4 DEF Rank
<1>3. \A x, z \in S : Rank(S, x) = Rank(S, z) => x = z
  BY <1>1, <1>2
<1> QED BY <1>2, <1>3 DEF Injection, IsInjective

\* InOrder lists every element of the set, each once.
LEMMA InOrderLists ==
  ASSUME NEW S \in SUBSET Nat, IsFiniteSet(S)
  PROVE  /\ InOrder(S) \in [1..Cardinality(S) -> S]
         /\ Cardinality(S) \in Nat
         /\ \A i, j \in 1..Cardinality(S) : InOrder(S)[i] = InOrder(S)[j] => i = j
         /\ \A x \in S : \E i \in 1..Cardinality(S) : InOrder(S)[i] = x
<1> DEFINE n == Cardinality(S)
           rank == [x \in S |-> Rank(S, x)]
<1>1. n \in Nat
  BY FS_CardinalityType
<1>2. rank \in Injection(S, 0..n - 1)
  BY RankIsInjective
<1>3. IsFiniteSet(0..n - 1) /\ Cardinality(0..n - 1) = n
  <2> HIDE DEF n
  <2>1. n - 1 \in Int /\ 0 \in Int
    BY <1>1
  <2>2. IsFiniteSet(0..n - 1) /\ Cardinality(0..n - 1) = IF 0 > n - 1 THEN 0 ELSE (n - 1) - 0 + 1
    BY <2>1, FS_Interval
  <2> QED BY <1>1, <2>2
<1>4. rank \in Surjection(S, 0..n - 1)
  <2> HIDE DEF rank
  <2> QED BY <1>2, <1>3, FS_Injection
<1>5. \A x, z \in S : Rank(S, x) = Rank(S, z) => x = z
  BY <1>2 DEF Injection, IsInjective
<1>6. \A k \in 0..n - 1 : \E x \in S : Rank(S, x) = k
  BY <1>4 DEF Surjection
<1>7. \A x \in S : Rank(S, x) \in 0..n - 1
  BY <1>2 DEF Injection
<1>8. InOrder(S) = [i \in 1..n |-> CHOOSE x \in S : Rank(S, x) = i - 1]
  BY DEF InOrder, Rank
<1> HIDE DEF n, rank
<1>9. \A i \in 1..n : InOrder(S)[i] \in S /\ Rank(S, InOrder(S)[i]) = i - 1
  BY <1>1, <1>6, <1>8
<1>10. \A x \in S : InOrder(S)[Rank(S, x) + 1] = x /\ Rank(S, x) + 1 \in 1..n
  <2> TAKE x \in S
  <2>1. Rank(S, x) + 1 \in 1..n /\ (Rank(S, x) + 1) - 1 = Rank(S, x)
    BY <1>1, <1>7
  <2>2. /\ InOrder(S)[Rank(S, x) + 1] \in S
        /\ Rank(S, InOrder(S)[Rank(S, x) + 1]) = Rank(S, x)
    BY <1>9, <2>1
  <2> QED BY <1>5, <2>1, <2>2
<1>11. InOrder(S) \in [1..n -> S]
  BY <1>8, <1>9
<1>12. \A i, j \in 1..n : InOrder(S)[i] = InOrder(S)[j] => i = j
  BY <1>1, <1>9
<1> QED BY <1>1, <1>10, <1>11, <1>12 DEF n
----------------------------------------------------------------------------
(* The reduce of pickNewPods.                                              *)

\* The plans on the way from Stay to the decision, one after each of the first n shards.
Plans(plans, n, r, todo, immediately) ==
  plans = [i \in 0..n |-> IF i = 0 THEN Stay ELSE Pick(r, plans[i - 1], todo[i], immediately)]

\* There are such plans.
LEMMA PlansExist ==
  ASSUME NEW N \in Nat, NEW r, NEW todo, NEW immediately
  PROVE  \E plans : Plans(plans, N, r, todo, immediately)
<1> DEFINE Upto(n, plans) == Plans(plans, n, r, todo, immediately)
           S == {n \in Nat : \E plans : Upto(n, plans)}
<1>1. 0 \in S
  <2>1. Upto(0, [i \in 0..0 |-> Stay])
    BY DEF Plans
  <2> HIDE DEF Upto
  <2> QED BY <2>1
<1>2. ASSUME NEW n \in Nat, n \in S PROVE n + 1 \in S
  <2>1. PICK plans : Upto(n, plans)
    BY <1>2
  <2> DEFINE more == [i \in 0..n + 1 |-> IF i <= n THEN plans[i]
                                         ELSE Pick(r, plans[n], todo[n + 1], immediately)]
  <2>2. ASSUME NEW i \in 0..n + 1
        PROVE  more[i] = IF i = 0 THEN Stay ELSE Pick(r, more[i - 1], todo[i], immediately)
    <3>1. CASE i = 0
      BY <2>1, <3>1 DEF Plans
    <3>2. CASE i # 0 /\ i <= n
      <4>1. plans[i] = Pick(r, plans[i - 1], todo[i], immediately)
        BY <2>1, <3>2 DEF Plans
      <4>2. more[i] = plans[i] /\ more[i - 1] = plans[i - 1]
        BY <3>2
      <4> QED BY <3>2, <4>1, <4>2
    <3>3. CASE i = n + 1
      <4>1. more[i] = Pick(r, plans[n], todo[n + 1], immediately) /\ more[i - 1] = plans[n]
        BY <3>3
      <4> QED BY <3>3, <4>1
    <3> QED BY <3>1, <3>2, <3>3
  <2>3. more = [i \in 0..n + 1 |->
                  IF i = 0 THEN Stay ELSE Pick(r, more[i - 1], todo[i], immediately)]
    <3>1. DOMAIN more = 0..n + 1 /\ more = [i \in 0..n + 1 |-> more[i]]
      OBVIOUS
    <3> HIDE DEF more
    <3> QED BY <2>2, <3>1
  <2>4. Upto(n + 1, more)
    BY <2>3 DEF Plans
  <2> HIDE DEF Upto, more
  <2> QED BY <2>4
<1>3. \A n \in Nat : n \in S
  <2> HIDE DEF S
  <2> QED BY <1>1, <1>2, SetInduction
<1> QED BY <1>3

\* What holds of Stay, and after every step of the reduce if it did before, holds of the
\* decision.  G has the pairs of a number of shards that were looked at and a plan.
LEMMA PickInduction ==
  ASSUME NEW r, NEW shards \in SUBSET Shards, NEW immediately, NEW G,
         <<0, Stay>> \in G,
         \A i \in 1..Cardinality(shards) : \A plan0 :
            <<i - 1, plan0>> \in G =>
              <<i, Pick(r, plan0, InOrder(shards)[i], immediately)>> \in G
  PROVE  <<Cardinality(shards), PickNewPods(r, shards, immediately)>> \in G
<1> DEFINE todo == InOrder(shards)
           N == Cardinality(shards)
           plans == CHOOSE plans : Plans(plans, Len(todo), r, todo, immediately)
<1>1. N \in Nat /\ Len(todo) = N
  <2>1. shards \in SUBSET Nat /\ IsFiniteSet(shards)
    BY FS_Subset
  <2>2. N \in Nat /\ todo \in [1..N -> shards]
    BY <2>1, InOrderLists
  <2> HIDE DEF N, todo
  <2> QED BY <2>2
<1>2. PickNewPods(r, shards, immediately) = plans[Len(todo)]
  BY DEF PickNewPods, Plans
<1> HIDE DEF todo, N
<1>3. plans = [i \in 0..N |-> IF i = 0 THEN Stay ELSE Pick(r, plans[i - 1], todo[i], immediately)]
  <2>1. Plans(plans, Len(todo), r, todo, immediately)
    BY <1>1, PlansExist
  <2> HIDE DEF plans
  <2> QED BY <1>1, <2>1 DEF Plans
<1> HIDE DEF plans
<1> DEFINE S == {i \in 0..N : <<i, plans[i]>> \in G}
<1>4. 0 \in S
  BY <1>1, <1>3
<1>5. ASSUME NEW n \in 0..N - 1, n \in S PROVE n + 1 \in S
  <2>1. plans[n + 1] = Pick(r, plans[n], todo[n + 1], immediately) /\ n + 1 \in 1..N
    BY <1>1, <1>3
  <2>2. <<n, plans[n]>> \in G /\ (n + 1) - 1 = n
    BY <1>5
  <2> QED BY <1>1, <2>1, <2>2 DEF N, todo
<1>6. \A n \in 0..N : n \in S
  <2> HIDE DEF S
  <2> QED BY <1>1, <1>4, <1>5, BoundedInduction
<1>7. <<N, plans[N]>> \in G
  BY <1>1, <1>6
<1> QED BY <1>1, <1>2, <1>7 DEF N
----------------------------------------------------------------------------
(* One step of the reduce.                                                 *)

LEMMA StateParts ==
  ASSUME NEW r \in StateType
  PROVE  /\ r.pods \in PodMaps /\ r.shards \in [Shards -> PodOpt]
         /\ r.unassigned \in SUBSET Shards /\ r.podCount \in Nat /\ r.allMax \in BOOLEAN
         /\ DOMAIN r.perPod \in SUBSET Pods
         /\ \A p \in DOMAIN r.perPod : r.perPod[p] \in SUBSET Shards
<1>1. r.perPod \in UNION {[P -> SUBSET Shards] : P \in SUBSET Pods}
  BY DEF StateType
<1>2. PICK P \in SUBSET Pods : r.perPod \in [P -> SUBSET Shards]
  BY <1>1
<1> QED BY <1>2 DEF StateType, ShardMaps

LEMMA GivenSubset ==
  ASSUME NEW plan0, NEW p
  PROVE  GivenTo(plan0, p) \in SUBSET Shards
BY DEF GivenTo

LEMMA LoadType ==
  ASSUME NEW r \in StateType, NEW plan0, NEW p
  PROVE  Load(r, plan0, p) \in Nat
<1>1. CASE Has(r.perPod, p)
  <2> DEFINE own == (r.perPod[p] \ TakenFrom(plan0, r.shards, p)) \cup GivenTo(plan0, p)
  <2>1. r.perPod[p] \in SUBSET Shards
    BY <1>1, StateParts DEF Has
  <2>2. own \in SUBSET Shards
    BY <2>1, GivenSubset
  <2>3. Cardinality(own) \in Nat
    BY <2>2, FS_Subset, FS_CardinalityType
  <2> QED BY <1>1, <2>3 DEF Load
<1> QED BY <1>1 DEF Load

\* minByOption returns one of the pods with the fewest shards.
LEMMA LeastLoadedHasLeast ==
  ASSUME NEW r \in StateType, NEW plan0, NEW pods \in SUBSET Pods, pods # {}
  PROVE  /\ LeastLoaded(r, plan0, pods) \in pods
         /\ \A q \in pods : Load(r, plan0, LeastLoaded(r, plan0, pods)) <= Load(r, plan0, q)
<1> DEFINE L(p) == Load(r, plan0, p)
           loads == {L(p) : p \in pods}
<1>1. \A p \in pods : L(p) \in Nat
  BY LoadType
<1> HIDE DEF L
<1>2. loads \in SUBSET Nat /\ loads # {}
  BY <1>1
<1>22. PICK n \in loads : \A m \in loads : n <= m
  <2> HIDE DEF loads
  <2> QED BY <1>2, LeastNatural
<1>23. n \in Nat /\ \A q \in pods : n <= L(q)
  BY <1>2, <1>22
<1> DEFINE least == {p \in pods : L(p) = n}
<1>3. least \in SUBSET Nat /\ least # {}
  BY <1>22
<1>4. PICK p \in least : \A q \in least : p <= q
  <2> HIDE DEF least
  <2> QED BY <1>3, LeastNatural
<1>5. ASSUME NEW q \in pods PROVE L(p) < L(q) \/ (L(p) = L(q) /\ p <= q)
  <2>1. L(p) = n /\ L(q) \in Nat /\ n <= L(q)
    BY <1>1, <1>23, <1>4
  <2>2. L(q) = n => p <= q
    BY <1>4
  <2> QED BY <1>23, <2>1, <2>2
<1>6. \E x \in pods : \A q \in pods : L(x) < L(q) \/ (L(x) = L(q) /\ x <= q)
  BY <1>4, <1>5
<1>7. LeastLoaded(r, plan0, pods) =
        CHOOSE x \in pods : \A q \in pods : L(x) < L(q) \/ (L(x) = L(q) /\ x <= q)
  BY DEF LeastLoaded, L
<1>8. /\ LeastLoaded(r, plan0, pods) \in pods
      /\ \A q \in pods : \/ L(LeastLoaded(r, plan0, pods)) < L(q)
                         \/ L(LeastLoaded(r, plan0, pods)) = L(q)
  BY <1>6, <1>7
<1>9. \A q \in pods : L(LeastLoaded(r, plan0, pods)) <= L(q)
  BY <1>1, <1>8
<1> QED BY <1>8, <1>9 DEF L

\* What shard s given to pod p changes in the plan.
WithShard(plan0, s, p) == [plan0 EXCEPT ![s] = p]

LEMMA PlanAfter ==
  ASSUME NEW plan0 \in ShardMaps, NEW s \in Shards, NEW p \in Pods, plan0[s] = NoPod,
         NEW old \in [Shards -> PodOpt], NEW new, new = WithShard(plan0, s, p)
  PROVE  /\ new \in ShardMaps
         /\ Moved(new) = Moved(plan0) \cup {s}
         /\ GivenTo(new, p) = GivenTo(plan0, p) \cup {s}
         /\ \A q \in Pods \ {p} : GivenTo(new, q) = GivenTo(plan0, q)
         /\ Targets(new) = Targets(plan0) \cup {p}
         /\ Sources(new, old) = Sources(plan0, old) \cup ({old[s]} \ {NoPod})
         /\ \A x \in Shards \ {s} : new[x] = plan0[x]
<1>1. /\ new \in ShardMaps /\ new[s] = p /\ p # NoPod
      /\ \A x \in Shards : x # s => new[x] = plan0[x]
  BY DEF ShardMaps, PodOpt, WithShard
<1>2. Moved(new) = Moved(plan0) \cup {s} /\ s \notin Moved(plan0)
  <2>1. s \notin Moved(plan0)
    BY DEF Moved
  <2>2. \A x \in Shards : new[x] # NoPod <=> plan0[x] # NoPod \/ x = s
    BY <1>1
  <2> QED BY <2>1, <2>2 DEF Moved
<1>3. /\ GivenTo(new, p) = GivenTo(plan0, p) \cup {s}
      /\ \A q \in Pods \ {p} : GivenTo(new, q) = GivenTo(plan0, q)
  BY <1>1 DEF GivenTo
<1>5. \A x \in Moved(plan0) : x \in Shards /\ new[x] = plan0[x]
  BY <1>1, <1>2 DEF Moved
<1>6. Targets(new) = Targets(plan0) \cup {p}
  <2>1. \A x \in Moved(new) : new[x] \in Targets(plan0) \cup {p}
    BY <1>1, <1>2, <1>5 DEF Targets
  <2>2. p \in Targets(new)
    BY <1>1, <1>2 DEF Targets
  <2>3. \A x \in Moved(plan0) : plan0[x] \in Targets(new)
    BY <1>2, <1>5 DEF Targets
  <2> QED BY <2>1, <2>2, <2>3 DEF Targets
<1>7. Sources(new, old) = Sources(plan0, old) \cup ({old[s]} \ {NoPod})
  BY <1>2 DEF Sources
<1> QED BY <1>1, <1>2, <1>3, <1>6, <1>7

\* The filter on the version, for a pod that receives shards.
NewEnough(r, p) ==
  \/ r.maxVersion = NoVersion
  \/ Has(r.pods, p) /\ CompareVersion(r.pods[p], r.maxVersion) = 0

\* What every plan of the reduce is.  A pod that was given shards was the least loaded then,
\* and the pods that may still be given some have lost none: it is at most one ahead of
\* them.  This is why none of its own shards is worth moving any more.
AtMostOneAhead(r, plan0, immediately) ==
  \A t \in Targets(plan0) : \A q \in Eligible(r, plan0, immediately) :
     Load(r, plan0, t) <= Load(r, plan0, q) + 1

SoundPlan(r, plan0, immediately) ==
  /\ plan0 \in ShardMaps
  /\ Targets(plan0) \subseteq DOMAIN r.perPod
  /\ \A t \in Targets(plan0) : NewEnough(r, t)
  /\ Targets(plan0) \cap Sources(plan0, r.shards) = {}
  /\ AtMostOneAhead(r, plan0, immediately)

LEMMA StaySound ==
  ASSUME NEW r \in StateType, NEW immediately
  PROVE  SoundPlan(r, Stay, immediately)
<1>1. Stay \in ShardMaps /\ Moved(Stay) = {}
  BY DEF Stay, ShardMaps, PodOpt, Moved
<1>2. Targets(Stay) = {}
  BY <1>1 DEF Targets
<1> QED BY <1>1, <1>2 DEF SoundPlan, AtMostOneAhead

\* A pod that may not be given shards any more will not be given any later.
LEMMA EligibleShrinks ==
  ASSUME NEW r \in StateType, NEW immediately, NEW plan0, NEW new,
         \A q \in Pods : GivenTo(plan0, q) \subseteq GivenTo(new, q),
         Sources(plan0, r.shards) \subseteq Sources(new, r.shards)
  PROVE  Eligible(r, new, immediately) \subseteq Eligible(r, plan0, immediately)
<1>1. SUFFICES ASSUME NEW q \in Eligible(r, new, immediately)
               PROVE  q \in Eligible(r, plan0, immediately)
  OBVIOUS
<1>2. q \in DOMAIN r.perPod /\ q \in Pods
  BY StateParts DEF Eligible
<1>3. ASSUME Cardinality(GivenTo(new, q)) * RateDen < Cardinality(Shards) * RateNum
      PROVE  Cardinality(GivenTo(plan0, q)) * RateDen < Cardinality(Shards) * RateNum
  <2> DEFINE m == Cardinality(GivenTo(plan0, q))
             n == Cardinality(GivenTo(new, q))
             c == Cardinality(Shards)
  <2>1. GivenTo(plan0, q) \in SUBSET GivenTo(new, q) /\ IsFiniteSet(GivenTo(new, q))
    BY <1>2, GivenSubset, FS_Subset
  <2>2. m \in Nat /\ n \in Nat /\ c \in Nat /\ m <= n
    BY <2>1, FS_Subset, FS_CardinalityType
  <2> HIDE DEF m, n, c
  <2>3. m * RateDen <= n * RateDen /\ m * RateDen \in Nat /\ n * RateDen \in Nat
    BY <2>2, RateAssumption
  <2>4. c * RateNum \in Nat
    BY <2>2, RateAssumption
  <2> QED BY <1>3, <2>3, <2>4 DEF m, n, c
<1> QED BY <1>2, <1>3 DEF Eligible

\* The load of a pod that loses no shard is the size of what it has and is given.
LEMMA LoadOfKeeper ==
  ASSUME NEW r \in StateType, NEW plan0, NEW q \in DOMAIN r.perPod,
         q \notin Sources(plan0, r.shards)
  PROVE  /\ Load(r, plan0, q) = Cardinality(r.perPod[q] \cup GivenTo(plan0, q))
         /\ IsFiniteSet(r.perPod[q] \cup GivenTo(plan0, q))
<1>1. q # NoPod /\ r.perPod[q] \in SUBSET Shards
  BY StateParts
<1>2. TakenFrom(plan0, r.shards, q) = {}
  BY <1>1 DEF TakenFrom, Sources
<1>3. r.perPod[q] \cup GivenTo(plan0, q) \in SUBSET Shards
  BY <1>1, GivenSubset
<1> QED BY <1>2, <1>3, FS_Subset DEF Load, Has

\* What the plan is after a step of the reduce that gave shard s to pod p, one of those with
\* the fewest shards that may be given any.
ShardGiven(r, plan0, s, p, new, immediately) ==
  /\ p \in Eligible(r, plan0, immediately)
  /\ \A q \in Eligible(r, plan0, immediately) : Load(r, plan0, p) <= Load(r, plan0, q)
  /\ WorthMoving(r, plan0, s, p)
  /\ new \in ShardMaps
  /\ Moved(new) = Moved(plan0) \cup {s}
  /\ GivenTo(new, p) = GivenTo(plan0, p) \cup {s}
  /\ \A q \in Pods \ {p} : GivenTo(new, q) = GivenTo(plan0, q)
  /\ Targets(new) = Targets(plan0) \cup {p}
  /\ Sources(new, r.shards) = Sources(plan0, r.shards) \cup ({r.shards[s]} \ {NoPod})
  /\ \A x \in Shards \ {s} : new[x] = plan0[x]

\* A step of the reduce gives its shard to a pod, or there is none for it.
LEMMA PickGives ==
  ASSUME NEW r \in StateType, NEW immediately, NEW plan0 \in ShardMaps,
         NEW s \in Shards, plan0[s] = NoPod
  PROVE  \/ \E p \in Pods : ShardGiven(r, plan0, s, p, Pick(r, plan0, s, immediately), immediately)
         \/ /\ Pick(r, plan0, s, immediately) = plan0
            /\ \/ Eligible(r, plan0, immediately) = {}
               \/ \E p \in Eligible(r, plan0, immediately) :
                     /\ ~WorthMoving(r, plan0, s, p)
                     /\ \A q \in Eligible(r, plan0, immediately) :
                           Load(r, plan0, p) <= Load(r, plan0, q)
<1> DEFINE eligible == Eligible(r, plan0, immediately)
           first == LeastLoaded(r, plan0, eligible)
<1>1. CASE eligible = {}
  BY <1>1 DEF Pick
<1>2. CASE eligible # {}
  <2>1. eligible \in SUBSET Pods /\ r.shards \in [Shards -> PodOpt]
    BY StateParts DEF Eligible
  <2>2. PICK p \in eligible : p = first /\ \A q \in eligible : Load(r, plan0, p) <= Load(r, plan0, q)
    BY <1>2, <2>1, LeastLoadedHasLeast
  <2>3. CASE ~WorthMoving(r, plan0, s, p)
    BY <2>2, <2>3 DEF Pick
  <2>4. CASE WorthMoving(r, plan0, s, p)
    <3>1. Pick(r, plan0, s, immediately) = WithShard(plan0, s, p)
      BY <1>2, <2>2, <2>4 DEF Pick, WithShard
    <3>2. p \in Pods
      BY <2>1
    <3>3. PICK new : new = WithShard(plan0, s, p)
      OBVIOUS
    <3> HIDE DEF first
    <3>4. r.shards \in [Shards -> PodOpt]
      BY <2>1
    <3>5. new \in ShardMaps
      BY ONLY <3>2, <3>3, <3>4, PlanAfter, plan0 \in ShardMaps, s \in Shards, plan0[s] = NoPod
    <3>6. Moved(new) = Moved(plan0) \cup {s}
      BY ONLY <3>2, <3>3, <3>4, PlanAfter, plan0 \in ShardMaps, s \in Shards, plan0[s] = NoPod
    <3>7. GivenTo(new, p) = GivenTo(plan0, p) \cup {s}
      BY ONLY <3>2, <3>3, <3>4, PlanAfter, plan0 \in ShardMaps, s \in Shards, plan0[s] = NoPod
    <3>8. \A q \in Pods \ {p} : GivenTo(new, q) = GivenTo(plan0, q)
      BY ONLY <3>2, <3>3, <3>4, PlanAfter, plan0 \in ShardMaps, s \in Shards, plan0[s] = NoPod
    <3>9. Targets(new) = Targets(plan0) \cup {p}
      BY ONLY <3>2, <3>3, <3>4, PlanAfter, plan0 \in ShardMaps, s \in Shards, plan0[s] = NoPod
    <3>10. Sources(new, r.shards) = Sources(plan0, r.shards) \cup ({r.shards[s]} \ {NoPod})
      BY ONLY <3>2, <3>3, <3>4, PlanAfter, plan0 \in ShardMaps, s \in Shards, plan0[s] = NoPod
    <3>11. \A x \in Shards \ {s} : new[x] = plan0[x]
      BY ONLY <3>2, <3>3, <3>4, PlanAfter, plan0 \in ShardMaps, s \in Shards, plan0[s] = NoPod
    <3> HIDE DEF eligible
    <3>12. /\ p \in Eligible(r, plan0, immediately)
           /\ \A q \in Eligible(r, plan0, immediately) : Load(r, plan0, p) <= Load(r, plan0, q)
      BY <2>2 DEF eligible
    <3>13. ShardGiven(r, plan0, s, p, new, immediately)
      BY ONLY <2>4, <3>5, <3>6, <3>7, <3>8, <3>9, <3>10, <3>11, <3>12 DEF ShardGiven
    <3> QED BY <3>1, <3>2, <3>3, <3>13
  <2> QED BY <2>3, <2>4
<1> QED BY <1>1, <1>2

\* How the step changes the loads: a pod that lost no shard keeps what it had, and only the
\* pod the shard was given to may have one more.
LEMMA LoadsAfter ==
  ASSUME NEW r \in StateType, NEW immediately, NEW plan0, NEW s \in Shards, NEW p \in Pods,
         NEW new, ShardGiven(r, plan0, s, p, new, immediately)
  PROVE  /\ \A q \in DOMAIN r.perPod : q \notin Sources(new, r.shards) =>
               /\ Load(r, plan0, q) <= Load(r, new, q)
               /\ Load(r, new, q) <= Load(r, plan0, q) + 1
         /\ \A q \in PodOpt \ {p} : Load(r, new, q) <= Load(r, plan0, q)
<1>1. \A q : Load(r, plan0, q) \in Nat /\ Load(r, new, q) \in Nat
  BY LoadType
<1>2. ASSUME NEW q \in DOMAIN r.perPod, q \notin Sources(new, r.shards)
      PROVE  /\ Load(r, plan0, q) <= Load(r, new, q)
             /\ Load(r, new, q) <= Load(r, plan0, q) + 1
  <2> DEFINE have == r.perPod[q] \cup GivenTo(plan0, q)
             get  == r.perPod[q] \cup GivenTo(new, q)
  <2>1. q \in Pods /\ q \notin Sources(plan0, r.shards)
    BY <1>2, StateParts DEF ShardGiven
  <2>2. Load(r, plan0, q) = Cardinality(have) /\ IsFiniteSet(have)
    BY <1>2, <2>1, LoadOfKeeper
  <2>3. Load(r, new, q) = Cardinality(get)
    BY <1>2, LoadOfKeeper
  <2>4. get = have \/ get = have \cup {s}
    BY <2>1 DEF ShardGiven
  <2> HIDE DEF have, get
  <2>5. Cardinality(have \cup {s}) = IF s \in have THEN Cardinality(have) ELSE Cardinality(have) + 1
    BY <2>2, FS_AddElement
  <2>6. Cardinality(have) \in Nat /\ Cardinality(get) \in Nat
    BY <1>1, <2>2, <2>3
  <2>7. Cardinality(have) <= Cardinality(get) /\ Cardinality(get) <= Cardinality(have) + 1
    BY <2>4, <2>5, <2>6
  <2> QED BY <2>2, <2>3, <2>7
<1>3. ASSUME NEW q \in PodOpt \ {p} PROVE Load(r, new, q) <= Load(r, plan0, q)
  <2>1. CASE Has(r.perPod, q)
    <3> DEFINE have == (r.perPod[q] \ TakenFrom(plan0, r.shards, q)) \cup GivenTo(plan0, q)
               get  == (r.perPod[q] \ TakenFrom(new, r.shards, q)) \cup GivenTo(new, q)
    <3>1. q \in Pods /\ r.perPod[q] \in SUBSET Shards
      BY <2>1, StateParts DEF Has
    <3>2. GivenTo(new, q) = GivenTo(plan0, q) /\ Moved(plan0) \subseteq Moved(new)
      BY <1>3, <3>1 DEF ShardGiven
    <3>3. get \subseteq have /\ have \in SUBSET Shards
      BY <3>1, <3>2, GivenSubset DEF TakenFrom
    <3> HIDE DEF have, get
    <3>4. IsFiniteSet(have) /\ Cardinality(get) <= Cardinality(have)
      BY <3>3, FS_Subset
    <3>5. Load(r, new, q) = Cardinality(get) /\ Load(r, plan0, q) = Cardinality(have)
      BY <2>1 DEF Load, have, get
    <3> QED BY <3>4, <3>5
  <2>2. CASE ~Has(r.perPod, q)
    BY <2>2 DEF Load
  <2> QED BY <2>1, <2>2
<1> QED BY <1>2, <1>3

\* A step of the reduce keeps the plan sound, and looks only at its own shard.
LEMMA PickSound ==
  ASSUME NEW r \in StateType, NEW immediately, NEW plan0, SoundPlan(r, plan0, immediately),
         NEW s \in Shards, plan0[s] = NoPod
  PROVE  /\ SoundPlan(r, Pick(r, plan0, s, immediately), immediately)
         /\ \A x \in Shards \ {s} : Pick(r, plan0, s, immediately)[x] = plan0[x]
<1>1. PICK new : new = Pick(r, plan0, s, immediately)
  OBVIOUS
<1>2. plan0 \in ShardMaps /\ r.shards \in [Shards -> PodOpt]
  BY StateParts DEF SoundPlan
<1>3. CASE new = plan0
  BY <1>1, <1>3
<1>4. CASE \E p \in Pods : ShardGiven(r, plan0, s, p, new, immediately)
  <2>1. PICK p \in Pods : ShardGiven(r, plan0, s, p, new, immediately)
    BY <1>4
  <2>2. PICK old \in PodOpt : old = r.shards[s]
    BY <1>2
  <2>3. /\ \A q \in DOMAIN r.perPod : q \notin Sources(new, r.shards) =>
             /\ Load(r, plan0, q) <= Load(r, new, q)
             /\ Load(r, new, q) <= Load(r, plan0, q) + 1
        /\ \A q \in PodOpt \ {p} : Load(r, new, q) <= Load(r, plan0, q)
    BY <2>1, LoadsAfter
  <2>4. p \in DOMAIN r.perPod /\ NewEnough(r, p) /\ p \notin Sources(plan0, r.shards)
    BY <2>1 DEF ShardGiven, Eligible, NewEnough
  <2>5. \A q : Load(r, plan0, q) \in Nat /\ Load(r, new, q) \in Nat
    BY LoadType
  <2>6. old # p /\ (old \in Targets(plan0) => old = NoPod)
    <3>1. CASE old = NoPod
      BY <2>1, <3>1
    <3>2. CASE old # NoPod
      <4>1. Load(r, plan0, p) + 1 < Load(r, plan0, old)
        BY <2>1, <2>2, <3>2 DEF ShardGiven, WorthMoving
      <4>2. old \in Targets(plan0) => Load(r, plan0, old) <= Load(r, plan0, p) + 1
        BY <2>1 DEF SoundPlan, AtMostOneAhead, ShardGiven
      <4> QED BY <2>5, <4>1, <4>2
    <3> QED BY <3>1, <3>2
  <2>7. Targets(new) \cap Sources(new, r.shards) = {}
    BY <2>1, <2>2, <2>4, <2>6 DEF SoundPlan, ShardGiven
  <2>8. Targets(new) \subseteq DOMAIN r.perPod /\ \A t \in Targets(new) : NewEnough(r, t)
    BY <2>1, <2>4 DEF SoundPlan, ShardGiven
  <2>9. Eligible(r, new, immediately) \subseteq Eligible(r, plan0, immediately)
    BY <2>1, EligibleShrinks DEF ShardGiven
  <2>10. ASSUME NEW t \in Targets(new), NEW q \in Eligible(r, new, immediately)
         PROVE  Load(r, new, t) <= Load(r, new, q) + 1
    <3>1. t \in DOMAIN r.perPod /\ t \in PodOpt /\ t \notin Sources(new, r.shards)
      BY <2>7, <2>8, StateParts DEF PodOpt
    <3>2. /\ q \in DOMAIN r.perPod /\ q \notin Sources(new, r.shards)
          /\ q \in Eligible(r, plan0, immediately)
      BY <2>9 DEF Eligible
    <3>3. Load(r, plan0, q) <= Load(r, new, q)
      BY <2>3, <3>2
    <3>4. /\ Load(r, plan0, t) \in Nat /\ Load(r, plan0, q) \in Nat
          /\ Load(r, new, t) \in Nat /\ Load(r, new, q) \in Nat
      BY <2>5
    <3>5. CASE t = p
      <4>1. Load(r, new, t) <= Load(r, plan0, t) + 1
        BY <2>3, <3>1
      <4>2. Load(r, plan0, t) <= Load(r, plan0, q)
        BY <2>1, <3>2, <3>5 DEF ShardGiven
      <4> QED BY ONLY <3>3, <3>4, <4>1, <4>2
    <3>6. CASE t # p
      <4>1. Load(r, new, t) <= Load(r, plan0, t)
        BY <2>3, <3>1, <3>6
      <4>2. Load(r, plan0, t) <= Load(r, plan0, q) + 1
        BY <2>1, <3>2, <3>6 DEF SoundPlan, AtMostOneAhead, ShardGiven
      <4> QED BY ONLY <3>3, <3>4, <4>1, <4>2
    <3> QED BY <3>5, <3>6
  <2>11. SoundPlan(r, new, immediately)
    BY <2>1, <2>7, <2>8, <2>10 DEF SoundPlan, AtMostOneAhead, ShardGiven
  <2> QED BY <1>1, <2>1, <2>11 DEF ShardGiven
<1>5. new = plan0 \/ \E p \in Pods : ShardGiven(r, plan0, s, p, new, immediately)
  BY <1>1, <1>2, PickGives
<1> QED BY <1>3, <1>4, <1>5
----------------------------------------------------------------------------
(* The decision.                                                           *)

\* pickNewPods returns a sound plan that moves none but the shards it was given, and with
\* them one of every set H, of pairs of the shards looked at and a plan, that has Stay and
\* that a step of the reduce does not leave.
LEMMA SeenInduction ==
  ASSUME NEW r \in StateType, NEW shards \in SUBSET Shards, NEW immediately,
         NEW H, <<{}, Stay>> \in H,
         \A seen \in SUBSET shards : \A plan0 \in ShardMaps : \A s \in shards :
            <<seen, plan0>> \in H /\ SoundPlan(r, plan0, immediately) /\ plan0[s] = NoPod
              => <<seen \cup {s}, Pick(r, plan0, s, immediately)>> \in H
  PROVE  /\ SoundPlan(r, PickNewPods(r, shards, immediately), immediately)
         /\ Moved(PickNewPods(r, shards, immediately)) \subseteq shards
         /\ <<shards, PickNewPods(r, shards, immediately)>> \in H
<1> DEFINE N == Cardinality(shards)
           todo == InOrder(shards)
           Untouched(i, p) == /\ \A k \in i + 1..N : p[todo[k]] = NoPod
                              /\ \A x \in Shards \ shards : p[x] = NoPod
           Seen(i) == {todo[k] : k \in 1..i}
           G == {g \in Nat \X ShardMaps : /\ SoundPlan(r, g[2], immediately)
                                          /\ Untouched(g[1], g[2])
                                          /\ <<Seen(g[1]), g[2]>> \in H}
<1>1. /\ N \in Nat /\ todo \in [1..N -> shards]
      /\ \A i, j \in 1..N : todo[i] = todo[j] => i = j
      /\ \A i \in 1..N : todo[i] \in shards /\ todo[i] \in Shards
      /\ \A x \in shards : \E i \in 1..N : todo[i] = x
  <2>1. shards \in SUBSET Nat /\ IsFiniteSet(shards)
    BY FS_Subset
  <2> QED BY <2>1, InOrderLists, ZenonT(60)
<1> HIDE DEF N, todo
<1>2. <<0, Stay>> \in G
  <2>1. SoundPlan(r, Stay, immediately) /\ Stay \in ShardMaps
    BY StaySound DEF SoundPlan
  <2>2. Untouched(0, Stay)
    <3>1. \A x \in Shards : Stay[x] = NoPod
      BY DEF Stay
    <3>2. \A k \in 0 + 1..N : k \in 1..N
      BY <1>1
    <3> QED BY <1>1, <3>1, <3>2
  <2>3. Seen(0) = {}
    OBVIOUS
  <2> QED BY <2>1, <2>2, <2>3
<1>3. ASSUME NEW i \in 1..N, NEW plan0, <<i - 1, plan0>> \in G
      PROVE  <<i, Pick(r, plan0, todo[i], immediately)>> \in G
  <2> DEFINE new == Pick(r, plan0, todo[i], immediately)
  <2>1. /\ plan0 \in ShardMaps /\ SoundPlan(r, plan0, immediately)
        /\ Untouched(i - 1, plan0) /\ <<Seen(i - 1), plan0>> \in H
    BY <1>3
  <2>2. todo[i] \in Shards /\ todo[i] \in shards /\ plan0[todo[i]] = NoPod
    <3>1. i \in (i - 1) + 1..N
      BY <1>1
    <3> QED BY <1>1, <2>1, <3>1
  <2>3. /\ SoundPlan(r, new, immediately)
        /\ \A x \in Shards \ {todo[i]} : new[x] = plan0[x]
    <3>1. PICK x \in Shards : x = todo[i]
      BY <2>2
    <3>2. SoundPlan(r, Pick(r, plan0, x, immediately), immediately)
      BY ONLY <2>1, <2>2, <3>1, PickSound, r \in StateType
    <3>3. \A y \in Shards \ {x} : Pick(r, plan0, x, immediately)[y] = plan0[y]
      BY ONLY <2>1, <2>2, <3>1, PickSound, r \in StateType
    <3> QED BY <3>1, <3>2, <3>3
  <2>9. <<Seen(i), new>> \in H
    <3>1. Seen(i) = Seen(i - 1) \cup {todo[i]}
      <4>1. 1..i = (1..i - 1) \cup {i}
        BY <1>1
      <4> QED BY <4>1
    <3>2. Seen(i - 1) \in SUBSET shards
      BY <1>1
    <3> HIDE DEF Untouched, Seen
    <3> QED BY <2>1, <2>2, <3>1, <3>2
  <2> HIDE DEF new
  <2>4. new \in ShardMaps
    BY <2>3 DEF SoundPlan
  <2>5. ASSUME NEW k \in i + 1..N PROVE new[todo[k]] = NoPod
    <3>1. k \in 1..N /\ k \in (i - 1) + 1..N /\ k # i
      BY <1>1
    <3>2. todo[k] \in Shards \ {todo[i]}
      BY <1>1, <3>1
    <3> QED BY <2>1, <2>3, <3>1, <3>2
  <2>6. \A x \in Shards \ shards : new[x] = NoPod
    BY <2>1, <2>2, <2>3
  <2>7. Untouched(i, new) /\ i \in Nat
    BY <2>5, <2>6
  <2> HIDE DEF Untouched, Seen
  <2>8. <<i, new>> \in G
    BY <2>3, <2>4, <2>7, <2>9
  <2> QED BY <2>8 DEF new
<1>4. <<N, PickNewPods(r, shards, immediately)>> \in G
  <2> HIDE DEF G
  <2> QED BY <1>2, <1>3, PickInduction DEF N, todo
<1>5. /\ SoundPlan(r, PickNewPods(r, shards, immediately), immediately)
      /\ \A x \in Shards \ shards : PickNewPods(r, shards, immediately)[x] = NoPod
      /\ <<Seen(N), PickNewPods(r, shards, immediately)>> \in H
  BY <1>4
<1>6. Seen(N) = shards
  <2>1. \A k \in 1..N : todo[k] \in shards
    BY <1>1
  <2>2. ASSUME NEW x \in shards PROVE x \in Seen(N)
    <3>1. PICK i \in 1..N : todo[i] = x
      BY <1>1
    <3> QED BY <3>1
  <2> QED BY <2>1, <2>2
<1> QED BY <1>5, <1>6 DEF Moved

\* The same for a set of plans.
LEMMA PlanInduction ==
  ASSUME NEW r \in StateType, NEW shards \in SUBSET Shards, NEW immediately,
         NEW H, Stay \in H,
         \A plan0 \in H : \A s \in shards :
            SoundPlan(r, plan0, immediately) /\ plan0[s] = NoPod
              => Pick(r, plan0, s, immediately) \in H
  PROVE  /\ SoundPlan(r, PickNewPods(r, shards, immediately), immediately)
         /\ Moved(PickNewPods(r, shards, immediately)) \subseteq shards
         /\ PickNewPods(r, shards, immediately) \in H
<1> DEFINE G == (SUBSET shards) \X H
<1>1. <<{}, Stay>> \in G
  OBVIOUS
<1>2. ASSUME NEW seen \in SUBSET shards, NEW plan0 \in ShardMaps, NEW s \in shards,
             <<seen, plan0>> \in G, SoundPlan(r, plan0, immediately), plan0[s] = NoPod
      PROVE  <<seen \cup {s}, Pick(r, plan0, s, immediately)>> \in G
  BY <1>2
<1>3. /\ SoundPlan(r, PickNewPods(r, shards, immediately), immediately)
      /\ Moved(PickNewPods(r, shards, immediately)) \subseteq shards
      /\ <<shards, PickNewPods(r, shards, immediately)>> \in G
  <2> HIDE DEF G
  <2> QED BY <1>1, <1>2, SeenInduction
<1> QED BY <1>3


\* A quotient is small when the dividend is.
LEMMA QuotientBound ==
  ASSUME NEW x \in Nat, NEW c \in Nat \ {0}, NEW n \in Nat, x < (n + 1) * c
  PROVE  x \div c \in 0..n
<1> DEFINE q == x \div c
<1>1. q \in Nat /\ c * q <= x
  OBVIOUS
<1> HIDE DEF q
<1>2. ASSUME q > n PROVE FALSE
  <2>1. q >= n + 1
    BY <1>1, <1>2
  <2>2. c * q >= c * (n + 1) /\ c * (n + 1) = (n + 1) * c
    BY <1>1, <2>1
  <2> QED BY <1>1, <2>2
<1> QED BY <1>1, <1>2 DEF q

\* No more shards are taken from a pod than it has.
LEMMA ExtraBound ==
  ASSUME NEW r \in StateType, NEW n \in Nat
  PROVE  ExtraShards(r, n) \in 0..n
<1> DEFINE c == r.podCount
           S == Cardinality(Shards)
           excess == n * c - S
<1>1. c \in Nat /\ S \in Nat /\ excess \in Int
  BY StateParts, FS_CardinalityType
<1>2. CASE c = 0
  BY <1>2 DEF ExtraShards
<1>3. CASE c # 0 /\ excess <= 0
  BY <1>3 DEF ExtraShards
<1>4. CASE c # 0 /\ ~(excess <= 0)
  <2>1. (n + 1) * c = n * c + c
    BY <1>1
  <2>2. excess + c - 1 \in Nat /\ excess + c - 1 < (n + 1) * c
    BY <1>1, <1>4, <2>1
  <2>3. (excess + c - 1) \div c \in 0..n
    <3> HIDE DEF c, excess
    <3> QED BY <1>1, <1>4, <2>2, QuotientBound
  <2> QED BY <1>4, <2>3 DEF ExtraShards
<1> QED BY <1>2, <1>3, <1>4

\* The surplus of a pod is as many of its shards as extraShards says.
LEMMA SurplusSize ==
  ASSUME NEW r \in StateType, NEW p \in DOMAIN r.perPod
  PROVE  /\ Surplus(r, p) \in SUBSET r.perPod[p]
         /\ Cardinality(Surplus(r, p)) = ExtraShards(r, Cardinality(r.perPod[p]))
         /\ IsFiniteSet(r.perPod[p])
<1> DEFINE n == Cardinality(r.perPod[p])
           own == InOrder(r.perPod[p])
           k == ExtraShards(r, n)
<1>1. r.perPod[p] \in SUBSET Nat /\ IsFiniteSet(r.perPod[p])
  BY StateParts, FS_Subset
<1>2. n \in Nat /\ own \in [1..n -> r.perPod[p]] /\ \A i, j \in 1..n : own[i] = own[j] => i = j
  BY <1>1, InOrderLists
<1> HIDE DEF n, own
<1>3. Len(own) = n /\ k \in 0..n
  BY <1>2, ExtraBound
<1>4. Surplus(r, p) = {own[i] : i \in 1..k}
  BY <1>3 DEF Surplus, own
<1> HIDE DEF k
<1>5. \A i \in 1..k : i \in 1..n
  BY <1>2, <1>3
<1>6. Surplus(r, p) \in SUBSET r.perPod[p]
  BY <1>2, <1>4, <1>5
<1>7. Cardinality(Surplus(r, p)) = k
  <2> DEFINE f == [i \in 1..k |-> own[i]]
  <2>1. f \in Bijection(1..k, Surplus(r, p))
    BY <1>2, <1>4, <1>5 DEF Bijection, Injection, Surjection, IsInjective
  <2>2. ExistsBijection(1..k, Surplus(r, p)) /\ k \in Nat
    BY <1>2, <1>3, <2>1 DEF ExistsBijection
  <2>3. IsFiniteSet(1..k) /\ Cardinality(1..k) = k
    BY <2>2, <1>3, FS_Interval
  <2> QED BY <2>2, <2>3, FS_Bijection
<1> QED BY <1>1, <1>6, <1>7 DEF k, n

\* Every decision is one of pickNewPods, for some of the shards.
LEMMA DecidePicks ==
  ASSUME NEW r \in StateType, NEW immediately
  PROVE  \E shards \in SUBSET Shards : \E rate \in BOOLEAN :
            Decide(r, immediately) = PickNewPods(r, shards, rate)
<1>1. CASE immediately \/ r.unassigned # {}
  BY <1>1, StateParts DEF Decide, DecideUnassigned
<1>2. CASE ~(immediately \/ r.unassigned # {})
  <2> DEFINE extra == IF r.allMax THEN UNION {Surplus(r, p) : p \in DOMAIN r.perPod} ELSE {}
  <2>1. extra \in SUBSET Shards
    BY SurplusSize, StateParts
  <2>2. Decide(r, immediately) = PickNewPods(r, extra, FALSE)
    BY <1>2 DEF Decide, DecideUnbalanced
  <2> HIDE DEF extra
  <2> QED BY <2>1, <2>2
<1> QED BY <1>1, <1>2

\* Whatever the state, the decision of a rebalance is a sound plan: it names a pod the
\* index knows for each shard it moves, with the filters of pickNewPods.
LEMMA DecideSound ==
  ASSUME NEW r \in StateType, NEW immediately
  PROVE  \E rate \in BOOLEAN : SoundPlan(r, Decide(r, immediately), rate)
<1>1. PICK shards \in SUBSET Shards, rate \in BOOLEAN :
        Decide(r, immediately) = PickNewPods(r, shards, rate)
  BY DecidePicks
<1>2. Stay \in ShardMaps
  BY StaySound DEF SoundPlan
<1>3. ASSUME NEW plan0 \in ShardMaps, NEW s \in shards, SoundPlan(r, plan0, rate), plan0[s] = NoPod
      PROVE  Pick(r, plan0, s, rate) \in ShardMaps
  BY <1>3, PickSound DEF SoundPlan
<1>4. SoundPlan(r, PickNewPods(r, shards, rate), rate)
  BY <1>2, <1>3, PlanInduction
<1> QED BY <1>1, <1>4
----------------------------------------------------------------------------
(* Versions.                                                               *)

\* a is at least b in every part: what compareVersion(a, b) = 0 says.
AtLeast(a, b) == \A i \in Nat : Part(b, i) <= Part(a, i)

LEMMA PartType ==
  ASSUME NEW v \in Seq(Nat), NEW i \in Nat
  PROVE  Part(v, i) \in Nat
BY DEF Part

\* compareVersion never answers 1, and 0 for versions that differ as long as the first is
\* nowhere smaller.
LEMMA CompareMeans ==
  ASSUME NEW a \in Seq(Nat), NEW b \in Seq(Nat)
  PROVE  CompareVersion(a, b) = IF AtLeast(a, b) THEN 0 ELSE -1
<1> DEFINE Older(i) == Part(a, i) < Part(b, i)
           Newer(i) == Part(b, i) > Part(a, i)
           decisive == {i \in DOMAIN a \cup DOMAIN b : Older(i) \/ Newer(i)}
           first == CHOOSE i \in decisive : \A j \in decisive : i <= j
<1>1. CompareVersion(a, b) =
        IF decisive = {} THEN 0 ELSE IF Older(first) THEN -1 ELSE 1
  BY DEF CompareVersion
<1>2. DOMAIN a \cup DOMAIN b \in SUBSET Nat
  OBVIOUS
<1>3. \A i \in Nat : Part(a, i) \in Nat /\ Part(b, i) \in Nat
  BY PartType
<1>4. \A i \in Nat \ (DOMAIN a \cup DOMAIN b) : Part(a, i) = 0 /\ Part(b, i) = 0
  BY DEF Part
<1>5. decisive = {i \in DOMAIN a \cup DOMAIN b : Part(a, i) < Part(b, i)}
  BY <1>2, <1>3
<1>6. decisive = {} <=> AtLeast(a, b)
  <2>1. decisive = {} <=> \A i \in DOMAIN a \cup DOMAIN b : ~(Part(a, i) < Part(b, i))
    BY <1>5
  <2>2. ASSUME NEW i \in Nat PROVE ~(Part(a, i) < Part(b, i)) <=> Part(b, i) <= Part(a, i)
    <3>1. Part(a, i) \in Nat /\ Part(b, i) \in Nat
      BY <1>3
    <3> QED BY <3>1
  <2>3. \A i \in Nat \ (DOMAIN a \cup DOMAIN b) : Part(b, i) <= Part(a, i)
    BY <1>4
  <2> HIDE DEF decisive
  <2> QED BY <1>2, <2>1, <2>2, <2>3 DEF AtLeast
<1>7. CASE decisive # {}
  <2>1. decisive \in SUBSET Nat
    BY <1>2
  <2> HIDE DEF decisive
  <2>2. first \in decisive
    BY <1>7, <2>1, LeastNatural
  <2> HIDE DEF first
  <2>3. Older(first)
    BY <1>5, <2>2
  <2> QED BY <1>1, <1>6, <1>7, <2>3
<1>8. CASE decisive = {}
  <2> HIDE DEF decisive, first
  <2> QED BY <1>1, <1>6, <1>8
<1> QED BY <1>7, <1>8

LEMMA LaterMeans ==
  ASSUME NEW a \in Seq(Nat), NEW b \in Seq(Nat)
  PROVE  Later(a, b) = IF AtLeast(a, b) THEN a ELSE b
BY CompareMeans DEF Later

\* The versions on the way of the reduce exist: the one left by the first n pods.
Reduced(latest, n, versions) ==
  latest = [i \in 0..n |-> IF i = 0 THEN << >> ELSE Later(latest[i - 1], versions[i])]

LEMMA ReducedExist ==
  ASSUME NEW N \in Nat, NEW versions
  PROVE  \E latest : Reduced(latest, N, versions)
<1> DEFINE S == {n \in Nat : \E latest : Reduced(latest, n, versions)}
<1>1. 0 \in S
  <2>1. Reduced([i \in 0..0 |-> << >>], 0, versions)
    BY DEF Reduced
  <2> QED BY <2>1
<1>2. ASSUME NEW n \in Nat, n \in S PROVE n + 1 \in S
  <2>1. PICK latest : Reduced(latest, n, versions)
    BY <1>2
  <2> DEFINE more == [i \in 0..n + 1 |-> IF i <= n THEN latest[i]
                                         ELSE Later(latest[n], versions[n + 1])]
  <2>2. ASSUME NEW i \in 0..n + 1
        PROVE  more[i] = IF i = 0 THEN << >> ELSE Later(more[i - 1], versions[i])
    <3>1. CASE i = 0
      BY <2>1, <3>1 DEF Reduced
    <3>2. CASE i # 0 /\ i <= n
      <4>1. latest[i] = Later(latest[i - 1], versions[i])
        BY <2>1, <3>2 DEF Reduced
      <4>2. more[i] = latest[i] /\ more[i - 1] = latest[i - 1]
        BY <3>2
      <4> QED BY <3>2, <4>1, <4>2
    <3>3. CASE i = n + 1
      <4>1. more[i] = Later(latest[n], versions[i]) /\ more[i - 1] = latest[n]
        BY <3>3
      <4> QED BY <3>3, <4>1
    <3> QED BY <3>1, <3>2, <3>3
  <2>3. DOMAIN more = 0..n + 1 /\ more = [i \in 0..n + 1 |-> more[i]]
    OBVIOUS
  <2> HIDE DEF more
  <2>4. Reduced(more, n + 1, versions)
    BY <2>2, <2>3 DEF Reduced
  <2> QED BY <2>4
<1>3. \A n \in Nat : n \in S
  <2> HIDE DEF S
  <2> QED BY <1>1, <1>2, SetInduction
<1> QED BY <1>3

\* Of two versions one is at least the other in every part.  Then the order of
\* compareVersion is the one versions are meant to have.
Comparable == \A a, b \in Versions : AtLeast(a, b) \/ AtLeast(b, a)

LEMMA AtLeastTransitive ==
  ASSUME NEW a \in Seq(Nat), NEW b \in Seq(Nat), NEW c \in Seq(Nat), AtLeast(a, b), AtLeast(b, c)
  PROVE  AtLeast(a, c)
<1>1. ASSUME NEW i \in Nat PROVE Part(c, i) <= Part(a, i)
  <2>1. Part(a, i) \in Nat /\ Part(b, i) \in Nat /\ Part(c, i) \in Nat
    BY PartType
  <2> QED BY <2>1 DEF AtLeast
<1> QED BY <1>1 DEF AtLeast

LEMMA AtLeastBasics ==
  ASSUME NEW v \in Seq(Nat)
  PROVE  AtLeast(v, v) /\ AtLeast(v, << >>)
<1>1. \A i \in Nat : Part(v, i) \in Nat /\ Part(<< >>, i) = 0
  BY PartType DEF Part
<1> QED BY <1>1, SMTT(40) DEF AtLeast

\* What the reduce of make leaves is a version of a pod or the empty one and, of comparable
\* versions, one that no other exceeds in any part.
LEMMA LatestOfPods ==
  ASSUME NEW pods \in PodMaps
  PROVE  /\ LatestOf(pods) \in Versions \cup {<< >>}
         /\ Comparable => \A p \in DOMAIN pods : AtLeast(LatestOf(pods), pods[p])
<1>1. PICK P \in SUBSET Pods : pods \in [P -> Versions]
  BY DEF PodMaps
<1> DEFINE versions == ValuesOf(pods)
           keys == InOrder(P)
           N == Cardinality(P)
           latest == CHOOSE latest : Reduced(latest, Len(versions), versions)
           All == Versions \cup {<< >>}
<1>2. /\ N \in Nat /\ keys \in [1..N -> P]
      /\ \A p \in P : \E i \in 1..N : keys[i] = p
  <2>1. P \in SUBSET Nat /\ IsFiniteSet(P)
    BY FS_Subset
  <2> QED BY <2>1, InOrderLists
<1>3. DOMAIN pods = P /\ versions = [i \in DOMAIN keys |-> pods[keys[i]]]
  BY <1>1 DEF ValuesOf
<1> HIDE DEF keys, N
<1>4. versions \in [1..N -> Versions] /\ Len(versions) = N
  <2>1. versions \in [1..N -> Versions]
    BY <1>1, <1>2, <1>3
  <2> HIDE DEF versions
  <2> QED BY <1>2, <2>1
<1>5. \A p \in P : \E i \in 1..N : versions[i] = pods[p]
  BY <1>2, <1>3
<1>6. LatestOf(pods) = latest[Len(versions)]
  BY DEF LatestOf, Reduced
<1> HIDE DEF versions
<1>7. latest = [i \in 0..N |-> IF i = 0 THEN << >> ELSE Later(latest[i - 1], versions[i])]
  <2>1. Reduced(latest, Len(versions), versions)
    BY <1>2, <1>4, ReducedExist
  <2> HIDE DEF latest
  <2> QED BY <1>4, <2>1 DEF Reduced
<1> HIDE DEF latest
<1>8. \A v \in All : v \in Seq(Nat)
  <2>1. << >> \in Seq(Nat)
    OBVIOUS
  <2>2. \A v \in Versions : v \in Seq(Nat)
    BY VersionsAssumption
  <2> QED BY <2>1, <2>2
<1> DEFINE Newest(i) == Comparable => \A k \in 1..i : AtLeast(latest[i], versions[k])
           S == {i \in 0..N : latest[i] \in All /\ Newest(i)}
<1>9. 0 \in S
  BY <1>2, <1>7
<1>10. ASSUME NEW n \in 0..N - 1, n \in S PROVE n + 1 \in S
  <2>1. PICK a \in All : a = latest[n]
    BY <1>10
  <2>2. n + 1 \in 1..N /\ n \in Nat
    BY <1>2
  <2>3. PICK b \in Versions : b = versions[n + 1]
    BY <1>4, <2>2
  <2>4. latest[n + 1] = Later(a, b)
    BY <1>2, <1>7, <2>1, <2>2, <2>3
  <2>5. a \in Seq(Nat) /\ b \in Seq(Nat) /\ b \in All
    BY <1>8
  <2>6. latest[n + 1] = IF AtLeast(a, b) THEN a ELSE b
    BY <2>4, <2>5, LaterMeans
  <2>7. latest[n + 1] \in All
    BY <2>1, <2>3, <2>6
  <2>8. ASSUME Comparable PROVE \A k \in 1..n + 1 : AtLeast(latest[n + 1], versions[k])
    <3>1. AtLeast(latest[n + 1], a) /\ AtLeast(latest[n + 1], b)
      <4>1. AtLeast(a, b) \/ AtLeast(b, a)
        BY <2>1, <2>3, <2>5, <2>8, AtLeastBasics DEF Comparable
      <4> QED BY <2>5, <2>6, <4>1, AtLeastBasics
    <3>2. TAKE k \in 1..n + 1
    <3>3. CASE k = n + 1
      BY <2>3, <3>1, <3>3
    <3>4. CASE k # n + 1
      <4>1. k \in 1..n /\ k \in 1..N
        BY <1>2, <2>2, <3>4
      <4>2. AtLeast(a, versions[k]) /\ versions[k] \in All
        BY <1>4, <1>10, <2>1, <2>8, <4>1
      <4>3. latest[n + 1] \in Seq(Nat) /\ versions[k] \in Seq(Nat)
        BY <1>8, <2>7, <4>2
      <4> QED BY <2>5, <3>1, <4>2, <4>3, AtLeastTransitive
    <3> QED BY <3>3, <3>4
  <2> QED BY <2>2, <2>7, <2>8
<1>11. \A n \in 0..N : n \in S
  <2> HIDE DEF S
  <2> QED BY <1>2, <1>9, <1>10, BoundedInduction
<1>12. LatestOf(pods) = latest[N] /\ N \in S
  BY <1>2, <1>4, <1>6, <1>11
<1> QED BY <1>3, <1>5, <1>12
----------------------------------------------------------------------------
(* The indexes of make.                                                    *)

\* What make returns is a ShardManagerState of the pods and shards it was given.
LEMMA MakeType ==
  ASSUME NEW pods \in PodMaps, NEW shards \in ShardMaps
  PROVE  /\ Make(pods, shards) \in StateType
         /\ Make(pods, shards).pods = pods
         /\ Make(pods, shards).shards = shards
<1>1. PICK P \in SUBSET Pods : pods \in [P -> Versions]
  BY DEF PodMaps
<1> DEFINE owners == {shards[s] : s \in Shards} \ {NoPod}
           perPod == [p \in P \cup owners |-> {s \in Shards : shards[s] = p}]
<1>2. MaxVersion(pods) \in Versions \cup {NoVersion}
  BY LatestOfPods DEF MaxVersion
<1>3. Cardinality(P) \in Nat
  BY FS_Subset, FS_CardinalityType
<1>4. P \cup owners \in SUBSET Pods
  BY DEF ShardMaps, PodOpt
<1>5. perPod \in [P \cup owners -> SUBSET Shards]
  OBVIOUS
<1>6. perPod \in UNION {[Q -> SUBSET Shards] : Q \in SUBSET Pods}
  <2> HIDE DEF owners, perPod
  <2> QED BY <1>4, <1>5
<1>7. DOMAIN pods = P
  BY <1>1
<1>8. Make(pods, shards) =
        [pods       |-> pods,
         shards     |-> shards,
         unassigned |-> {s \in Shards : shards[s] = NoPod},
         podCount   |-> Cardinality(P),
         perPod     |-> perPod,
         maxVersion |-> MaxVersion(pods),
         allMax     |-> \A p \in P : pods[p] = MaxVersion(pods)]
  BY <1>7 DEF Make
<1> HIDE DEF perPod
<1> QED BY <1>2, <1>3, <1>6, <1>8 DEF StateType

\* After make with comparable versions, a pod that passes the filter on the version is
\* not older in any part than another pod.
LEMMA NewEnoughIsNewest ==
  ASSUME NEW r \in StateType, r.maxVersion = MaxVersion(r.pods), Comparable,
         NEW p \in DOMAIN r.pods, NewEnough(r, p), NEW q \in DOMAIN r.pods
  PROVE  AtLeast(r.pods[p], r.pods[q])
<1> DEFINE latest == LatestOf(r.pods)
<1>1. /\ r.pods \in PodMaps /\ latest \in Versions \cup {<< >>}
      /\ AtLeast(latest, r.pods[q])
  BY StateParts, LatestOfPods
<1>2. PICK P \in SUBSET Pods : r.pods \in [P -> Versions]
  BY <1>1 DEF PodMaps
<1>3. r.pods[p] \in Seq(Nat) /\ r.pods[q] \in Seq(Nat)
  BY <1>2, VersionsAssumption
<1>4. latest \in Seq(Nat)
  <2>1. << >> \in Seq(Nat)
    OBVIOUS
  <2> QED BY <1>1, <2>1, VersionsAssumption
<1> HIDE DEF latest
<1>5. AtLeast(r.pods[p], latest)
  <2>1. CASE latest = << >>
    BY <1>3, <2>1, AtLeastBasics
  <2>2. CASE latest # << >>
    <3>1. r.maxVersion = latest /\ latest \in Versions
      BY <1>1, <2>2 DEF MaxVersion, latest
    <3>2. CompareVersion(r.pods[p], latest) = 0
      BY <3>1 DEF NewEnough
    <3> QED BY <1>3, <1>4, <3>2, CompareMeans
  <2> QED BY <2>1, <2>2
<1> QED BY <1>1, <1>3, <1>4, <1>5, AtLeastTransitive
=============================================================================
