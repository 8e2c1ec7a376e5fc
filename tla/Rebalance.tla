----------------------------- MODULE Rebalance -----------------------------
(***************************************************************************)
(* The decision the Shard Manager takes at the start of a rebalance        *)
(* (shardManager.ts): which shards move and where to.  A decision is a     *)
(* function from shards to pods, NoPod for a shard that stays; the code's  *)
(* assignments and unassignments are its two groupings by pod.             *)
(***************************************************************************)
EXTENDS ShardManagerState

CONSTANTS RateNum, RateDen      \* config.rebalanceRate = RateNum / RateDen

ASSUME RateAssumption == RateNum \in Nat \ {0} /\ RateDen \in Nat \ {0}

Stay == [s \in Shards |-> NoPod]

Moved(plan)          == {s \in Shards : plan[s] # NoPod}
GivenTo(plan, p)     == {s \in Shards : plan[s] = p}
TakenFrom(plan, old, p) == {s \in Moved(plan) : old[s] = p}
Targets(plan)        == {plan[s] : s \in Moved(plan)}
Sources(plan, old)   == {old[s] : s \in Moved(plan)} \ {NoPod}
----------------------------------------------------------------------------
(* pickNewPods.                                                            *)

\* The working shardsPerPod of the reduce: the index as the plan so far leaves it.
Load(st, plan, p) ==
  IF Has(st.perPod, p)
  THEN Cardinality((st.perPod[p] \ TakenFrom(plan, st.shards, p)) \cup GivenTo(plan, p))
  ELSE 0

\* Mutant: the filter on the version forgotten.
EligibleAnyVersion(st, plan, immediately) ==
  {p \in DOMAIN st.perPod :
      /\ immediately
         \/ Cardinality(GivenTo(plan, p)) * RateDen < Cardinality(Shards) * RateNum
      /\ p \notin Sources(plan, st.shards)}

\* Mutant: the filter on the pods unassigned in the same run forgotten.
EligibleSources(st, plan, immediately) ==
  {p \in DOMAIN st.perPod :
      /\ st.maxVersion = NoVersion
         \/ (Has(st.pods, p) /\ CompareVersion(st.pods[p], st.maxVersion) = 0)
      /\ immediately
         \/ Cardinality(GivenTo(plan, p)) * RateDen < Cardinality(Shards) * RateNum}

\* The three filters: max version, rebalance rate, not unassigned in the same run.
Eligible(st, plan, immediately) ==
  {p \in DOMAIN st.perPod :
      /\ st.maxVersion = NoVersion
         \/ (Has(st.pods, p) /\ CompareVersion(st.pods[p], st.maxVersion) = 0)
      /\ immediately
         \/ Cardinality(GivenTo(plan, p)) * RateDen < Cardinality(Shards) * RateNum
      /\ p \notin Sources(plan, st.shards)}

\* minByOption: the first of the pods with the fewest shards.
LeastLoaded(st, plan, pods) ==
  CHOOSE p \in pods : \A q \in pods :
      \/ Load(st, plan, p) < Load(st, plan, q)
      \/ Load(st, plan, p) = Load(st, plan, q) /\ p <= q

\* Mutant: a pod that is one shard behind is enough.
WorthMovingByOne(st, plan, s, p) ==
  \/ st.shards[s] = NoPod
  \/ Load(st, plan, p) < Load(st, plan, st.shards[s])

\* Mutant: a pod must be three shards behind.
WorthMovingByThree(st, plan, s, p) ==
  \/ st.shards[s] = NoPod
  \/ Load(st, plan, p) + 2 < Load(st, plan, st.shards[s])

\* Mutant: any pod but the one the shard is at.
WorthMovingElsewhere(st, plan, s, p) == p # st.shards[s]

\* A shard with an old pod moves only if the new pod is at least 2 shards behind it.
\* (The test "old pod is same as new pod" compares an Option with an address and is
\* never true; the same pod fails this test anyway.)
WorthMoving(st, plan, s, p) ==
  \/ st.shards[s] = NoPod
  \/ Load(st, plan, p) + 1 < Load(st, plan, st.shards[s])

\* One step of the reduce: where shard s goes after what the plan has decided.
Pick(st, plan, s, immediately) ==
  LET eligible == Eligible(st, plan, immediately)
      p == LeastLoaded(st, plan, eligible)
  IN  IF eligible # {} /\ WorthMoving(st, plan, s, p)
      THEN [plan EXCEPT ![s] = p] ELSE plan

PickNewPods(st, shards, immediately) ==
  LET todo == InOrder(shards)
      plans[i \in 0..Len(todo)] ==
        IF i = 0 THEN Stay ELSE Pick(st, plans[i - 1], todo[i], immediately)
  IN  plans[Len(todo)]
----------------------------------------------------------------------------
DecideUnassigned(st) == PickNewPods(st, st.unassigned, TRUE)

\* max(n - average, 0), rounded up: List.take(shards, 0.5) takes one.
ExtraShards(st, n) ==
  LET excess == n * st.podCount - Cardinality(Shards)
  IN  IF st.podCount = 0 THEN n
      ELSE IF excess <= 0 THEN 0
      ELSE (excess + st.podCount - 1) \div st.podCount

\* The shards above the average of pod p: the first ones of its set.
Surplus(st, p) ==
  LET own == InOrder(st.perPod[p])
  IN  {own[i] : i \in 1..ExtraShards(st, Len(own))}

DecideUnbalanced(st) ==
  LET extra == IF st.allMax THEN UNION {Surplus(st, p) : p \in DOMAIN st.perPod} ELSE {}
  IN  PickNewPods(st, extra, FALSE)

Decide(st, immediately) ==
  IF immediately \/ st.unassigned # {} THEN DecideUnassigned(st) ELSE DecideUnbalanced(st)
============================================================================
