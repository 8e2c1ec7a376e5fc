--------------------------- MODULE ShardOwnership ---------------------------
(***************************************************************************)
(* What the Shard Manager promises about its own table: every shard has at *)
(* most one owner (a function), owners are members, and a shard goes from  *)
(* one pod to another only through a moment in which it has none.          *)
(* A restart of the manager forgets every owner.                           *)
(***************************************************************************)
CONSTANTS Shards, Pods, NoPod

VARIABLES
    members,    \* the registered pods
    owner       \* shard -> the pod it is assigned to, or NoPod

vars == <<members, owner>>

Nobody      == [s \in Shards |-> NoPod]
Give(S, p)  == [s \in Shards |-> IF s \in S THEN p ELSE owner[s]]

\* The story may begin in the middle: every shard has an owner among the members, or none.
Init == members \subseteq Pods /\ owner \in [Shards -> members \cup {NoPod}]

Join(p) ==
  /\ members' = members \cup {p}
  /\ UNCHANGED owner

\* A pod that leaves, or is found dead, loses all its shards at once.
Leave(p) ==
  /\ members' = members \ {p}
  /\ owner' = Give({s \in Shards : owner[s] = p}, NoPod)

\* p has confirmed that it no longer serves the shards S.
Release(p, S) ==
  /\ \A s \in S : owner[s] \in {p, NoPod}
  /\ owner' = Give(S, NoPod)
  /\ UNCHANGED members

\* Only shards nobody owns are granted, and only to a member.
Grant(p, S) ==
  /\ p \in members
  /\ \A s \in S : owner[s] = NoPod
  /\ owner' = Give(S, p)
  /\ UNCHANGED members

Restart ==
  /\ members' \in SUBSET Pods
  /\ owner' = Nobody

Next ==
  \/ \E p \in Pods : Join(p) \/ Leave(p)
  \/ \E p \in Pods, S \in SUBSET Shards : Release(p, S) \/ Grant(p, S)
  \/ Restart

Spec == Init /\ [][Next]_vars
============================================================================
