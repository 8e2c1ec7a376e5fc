----------------------------- MODULE MCCluster -----------------------------
(* Constants of the runs of Cluster, and a start in the middle of its life. *)
EXTENDS Cluster

OneVersion == {<<1, 0>>}

\* A cluster in which one pod has registered and got every shard, and nothing is left
\* to do.  The indexes are still those of the registration.  The other pods have just
\* started and know nothing.
SettledOn(p) ==
  \E v \in Versions :
    LET pods == Put(NoPods, p, v)
        all  == [s \in Shards |-> p]
    IN  /\ status = "up"
        /\ state = [Make(pods, Stay) EXCEPT !.shards = all]
        /\ job = Idle /\ waiting = NoRequest
        /\ suspects = {} /\ condemned = {} /\ saving = {}
        /\ stored = [pods |-> pods, shards |-> all]
        /\ alive = Pods
        /\ used = [what \in Bounded |-> IF what = "registers" THEN 1 ELSE 0]
        /\ cache     = [q \in Pods |-> IF q = p THEN all ELSE Pod!NoEntries]
        /\ leaving   = [q \in Pods |-> FALSE]
        /\ singleton = [q \in Pods |-> q = p /\ 1 \in Shards]
        /\ entities  = [q \in Pods |-> {}]
        /\ underWay  = [q \in Pods |-> {}]
        /\ stray     = [q \in Pods |-> {}]
        /\ departed  = {}

SettledInit == \E p \in Pods : SettledOn(p)

SettledSpec == SettledInit /\ [][ClusterNext]_clusterVars

\* From one of these starts: the others differ in the names of the pods alone.
OneStartSpec == SettledOn(1) /\ [][ClusterNext]_clusterVars
============================================================================
