-------------------------- MODULE RebalanceRounds --------------------------
(***************************************************************************)
(* The periodic rebalance, round after round, while every pod answers and  *)
(* none joins or leaves.  A round is one run of `rebalance(false)`: its    *)
(* decision, then all its unassignments and assignments.  It starts from   *)
(* the state as the last registration left it; updateShardsState changes   *)
(* the shards and keeps the indexes of that moment, so all rounds but the  *)
(* first decide on the indexes of an earlier assignment.                   *)
(***************************************************************************)
EXTENDS Rebalance

VARIABLES
    st,         \* the ShardManagerState
    plan,       \* the decision of the round that led to st; Stay at first
    left        \* history: the pods the rounds have taken each shard from

vars == <<st, plan, left>>

Init ==
  /\ \E pods \in PodMaps : \E shards \in [Shards -> DOMAIN pods \cup {NoPod}] :
        st = Make(pods, shards)
  /\ plan = Stay
  /\ left = [s \in Shards |-> {}]

Round ==
  \E decision \in {Decide(st, FALSE)} :
     /\ plan' = decision
     /\ st' = [st EXCEPT !.shards =
                  [s \in Shards |-> IF decision[s] = NoPod THEN @[s] ELSE decision[s]]]
     /\ left' = [s \in Shards |->
                   IF decision[s] = NoPod THEN left[s]
                   ELSE left[s] \cup ({st.shards[s]} \ {NoPod})]

Next == Round

Spec == Init /\ [][Next]_vars
----------------------------------------------------------------------------
(* Properties.                                                             *)

Owned(p)     == {s \in Shards : st.shards[s] = p}
Registered   == DOMAIN st.pods

TypeOK == st \in StateType /\ plan \in ShardMaps /\ left \in [Shards -> SUBSET Pods]

\* The order versions are meant to have: the first part that differs decides.
NewerVersion(a, b) ==
  \E i \in DOMAIN a \cup DOMAIN b :
     /\ Part(a, i) > Part(b, i)
     /\ \A j \in DOMAIN a \cup DOMAIN b : j < i => Part(a, j) = Part(b, j)

\* No pod receives shards while a registered pod has a newer version: "keep only
\* pods with the max version", the filter of pickNewPods on the maximum make found.
NewestVersionOnly ==
  \A p \in Targets(plan) : ~\E q \in Registered : NewerVersion(st.pods[q], st.pods[p])

\* A pod that receives shards in a round does not lose any in the same round,
\* whatever order the reduce of pickNewPods takes them in.
NoShardSwaps ==
  [][\A p \in Targets(plan') : {s \in Moved(plan') : st.shards[s] = p} = {}]_vars

\* A round that decides on indexes that are up to date leaves the shards more
\* evenly spread: the sum of the squared loads, which is the number of pairs of shards
\* that share a pod, goes down with every shard it moves.
Pairs(shards) == {x \in Shards \X Shards : shards[x[1]] = shards[x[2]]}
Unevenness == Cardinality(Pairs(st.shards))

FreshRoundsEvenOut ==
  [][st = Make(st.pods, st.shards) /\ st.unassigned = {} =>
        Unevenness' + 2 * Cardinality(Moved(plan')) <= Unevenness]_vars

\* Rounds do not move shards back and forth: none is ever with a pod a round took it from,
\* although the later rounds decide on indexes that show it at its first pod.  (A shard may
\* move more than once: when the rebalance rate holds the emptiest pod back, it goes to
\* another, and to the emptiest in a later round.)
NeverMovesBack == \A s \in Shards : st.shards[s] \notin left[s]

\* A pod the rebalance rate may have held back: it received shards up to the limit.
HeldBack(p) == Cardinality(GivenTo(plan', p)) * RateDen >= Cardinality(Shards) * RateNum

\* A round that decides on up-to-date indexes balances pods of one version, unless the
\* rebalance rate held some pod back: a pod that lost no shard in it is at most one behind
\* any other.  A pod that lost some keeps the average rounded down; it may be left further
\* behind, as the same round gives nothing to a pod it takes from.
FreshRoundBalances ==
  [][/\ st = Make(st.pods, st.shards) /\ st.unassigned = {}
     /\ st.allMax /\ Registered # {}
     /\ ~\E p \in Pods : HeldBack(p)
     => \A q \in Registered :
          IF q \in Sources(plan', st.shards)
          THEN (Cardinality(Owned(q)') + 1) * st.podCount > Cardinality(Shards)
          ELSE \A p \in Registered : Cardinality(Owned(p)') <= Cardinality(Owned(q)') + 1]_vars

\* The load of the registered pods differs by at most one shard.
Balanced ==
  /\ \A s \in Shards : st.shards[s] \in Registered
  /\ \A p, q \in Registered : Cardinality(Owned(p)) <= Cardinality(Owned(q)) + 1

\* Once the rounds have no more to do, pods of one version have an equal share of
\* all shards ("Rebalance when 2 shard difference").
BalancedWhenSettled ==
  (Decide(st, FALSE) = Stay /\ Registered # {} /\ st.allMax) => Balanced
============================================================================
