------------------------- MODULE ShardManagerState -------------------------
(***************************************************************************)
(* The state the Shard Manager keeps in its one RefSynchronized, and the   *)
(* indexes `make` computes from it (shardManagerState.ts), with the        *)
(* version order they use (podWithMetadata.ts).                            *)
(*                                                                         *)
(* A HashMap is a function on the set of its keys.  Iteration over a       *)
(* HashMap or a HashSet follows the hash of the keys: an order that is     *)
(* arbitrary but fixed, and the same for a set and for its subsets.        *)
(* Shards and pods are numbered in that order.                             *)
(***************************************************************************)
EXTENDS Integers, FiniteSets, Sequences, SequencesExt

CONSTANTS
    Shards,     \* shard ids, numbered in the iteration order
    Pods,       \* pod addresses, numbered in the iteration order
    Versions,   \* application versions: sequences of naturals
    NoPod,      \* Option.none() where a pod is expected
    NoVersion   \* Option.none() where a version is expected

ASSUME ShardsAssumption == Shards \subseteq Nat /\ IsFiniteSet(Shards)
ASSUME PodsAssumption   == Pods \subseteq Nat /\ IsFiniteSet(Pods)
ASSUME VersionsAssumption == Versions \subseteq Seq(Nat) \ {<< >>}
ASSUME NoneAssumption   == NoPod \notin Pods /\ NoVersion \notin Versions

PodOpt == Pods \cup {NoPod}

\* HashMap.set, HashMap.has
Put(map, k, v) == [x \in DOMAIN map \cup {k} |-> IF x = k THEN v ELSE map[x]]
Has(map, k)    == k \in DOMAIN map

\* List.fromIterable of a HashSet, and of the values of a HashMap
InOrder(S) ==
  [i \in 1..Cardinality(S) |-> CHOOSE x \in S : Cardinality({y \in S : y < x}) = i - 1]
ValuesOf(map) ==
  LET keys == InOrder(DOMAIN map) IN [i \in DOMAIN keys |-> map[keys[i]]]
----------------------------------------------------------------------------
(* Versions.                                                               *)

Part(v, i) == IF i \in DOMAIN v THEN v[i] ELSE 0

\* compareVersion: the first part where one of its two tests fires decides.
\* Both tests ask whether a's part is the smaller one, so 1 is never the answer.
CompareVersion(a, b) ==
  LET Older(i) == Part(a, i) < Part(b, i)
      Newer(i) == Part(b, i) > Part(a, i)
      decisive == {i \in DOMAIN a \cup DOMAIN b : Older(i) \/ Newer(i)}
  IN  IF decisive = {} THEN 0
      ELSE IF Older(CHOOSE i \in decisive : \A j \in decisive : i <= j) THEN -1 ELSE 1

\* The reduce of make: it starts from the empty version, which no version part
\* greater than 0 leaves in place.
Later(curr, v) == IF CompareVersion(curr, v) = -1 THEN v ELSE curr

LatestOf(pods) ==
  LET versions == ValuesOf(pods)
      latest[i \in 0..Len(versions)] ==
        IF i = 0 THEN << >> ELSE Later(latest[i - 1], versions[i])
  IN  latest[Len(versions)]

\* Mutant: the empty version is returned as if some pod had it.
MaxVersionUnchecked(pods) == LatestOf(pods)

MaxVersion(pods) == IF LatestOf(pods) = << >> THEN NoVersion ELSE LatestOf(pods)
----------------------------------------------------------------------------
(* The state.  `podCount` stands for averageShardsPerPod, which is the     *)
(* number of shards divided by the number of pods (0 without pods).        *)

PodMaps   == UNION {[P -> Versions] : P \in SUBSET Pods}
ShardMaps == [Shards -> PodOpt]

Make(pods, shards) ==
  LET owners == {shards[s] : s \in Shards} \ {NoPod}
      max    == MaxVersion(pods)
  IN  [pods       |-> pods,
       shards     |-> shards,
       unassigned |-> {s \in Shards : shards[s] = NoPod},
       podCount   |-> Cardinality(DOMAIN pods),
       perPod     |-> [p \in DOMAIN pods \cup owners |-> {s \in Shards : shards[s] = p}],
       maxVersion |-> max,
       allMax     |-> \A p \in DOMAIN pods : pods[p] = max]

\* What the type of stateRef guarantees of the parts the handlers read.
StateType ==
  [pods       : PodMaps,
   shards     : ShardMaps,
   unassigned : SUBSET Shards,
   podCount   : Nat,
   perPod     : UNION {[P -> SUBSET Shards] : P \in SUBSET Pods},
   maxVersion : Versions \cup {NoVersion},
   allMax     : BOOLEAN]
============================================================================
