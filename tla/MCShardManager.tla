--------------------------- MODULE MCShardManager ---------------------------
(* Constants of the runs of ShardManager, and a start in the middle of its life. *)
EXTENDS ShardManager

OneVersion == {<<1, 0>>}

\* Every pod is registered, one of them has every shard, and nothing is left to do; no
\* pod registers any more.
BothRegistered ==
  \E v \in Versions :
    LET pods == [p \in Pods |-> v]
        all  == [s \in Shards |-> CHOOSE p \in Pods : TRUE]
    IN  /\ status = "up"
        /\ state = Make(pods, all)
        /\ job = Idle /\ waiting = NoRequest
        /\ suspects = {} /\ condemned = {} /\ saving = {}
        /\ stored = [pods |-> pods, shards |-> all]
        /\ alive = Pods
        /\ used = [what \in Bounded |-> IF what = "registers" THEN MaxRegisters ELSE 0]

FairSpecOfBoth == (Init \/ BothRegistered) /\ [][Next]_vars /\ Fairness
=============================================================================
