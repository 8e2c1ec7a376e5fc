------------------------------ MODULE Messaging ------------------------------
(***************************************************************************)
(* The messengers and broadcasters of the pod Here (sharding.ts).  A call  *)
(* finds the pod of the entity in the cache of Here, sends the message and *)
(* is made again every 100 ms until it has what it wants; a broadcast has  *)
(* a call to every pod that was in the cache when it began.                *)
(*                                                                         *)
(* What a pod does with a message is EntityLife, which EntityManager       *)
(* implements.  The shards and the lives of the entities change as they    *)
(* like: Sharding and Cluster say when.  All messages to entities go to    *)
(* one entity, of shard 1.  A pod that shuts down refuses new entities     *)
(* like one that does not hold the shard.                                  *)
(***************************************************************************)
EXTENDS Integers

CONSTANTS
    Pods, Here, NoPod,
    Shards, FirstRoute, \* FirstRoute: the cache of Here at the start
    Senders, Broadcasts,
    Discards,           \* those that want no reply (sendDiscard, broadcastDiscard)
    Messages, Carries,  \* Carries[k]: the message of sender or broadcast k
    MaxTroubles         \* bound: losses, ends and changes together

\* A call of a broadcast goes to one pod.
Calls == Senders \cup (Broadcasts \X Pods)
Kinds == {"entity", "topic"}

ASSUME NamesAssumption ==
  /\ Here \in Pods /\ NoPod \notin Pods /\ 1 \in Shards
  /\ FirstRoute \in [Shards -> Pods]
  /\ Discards \subseteq Senders \cup Broadcasts
  /\ Carries \in [Senders \cup Broadcasts -> Messages]
  /\ Senders \cap (Broadcasts \X (Pods \cup {NoPod})) = {}
ASSUME LimitsAssumption == MaxTroubles \in Nat

VARIABLES
    route,      \* shardAssignments of Here
    holds,      \* the other pods for which shard 1 is local
    up,         \* the pods that run
    alive,      \* <<pod, kind>>: where the entity and the topic live
    state,      \* what a life made of a message
    call,
    began,      \* broadcasts that have begun
    mayReport,  \* whether unhealthyPodReportInterval has passed since the last report
    reported,   \* pods reported to the manager
    handled,    \* history: how often the entity handled a message
    used        \* how often each kind of trouble has happened

vars == <<route, holds, up, alive, state, call, began, mayReport, reported, handled, used>>
env  == <<route, holds, up, used>>
lives == <<alive, state, handled>>
reports == <<mayReport, reported>>

Life == INSTANCE EntityLife WITH Entities <- Pods \X Kinds
----------------------------------------------------------------------------
Outcomes == {"none", "Acknowledged", "Processed", "EntityNotManaged"}
CallType ==
  [pc : {"idle", "looking", "sending", "answering", "done"},
   to : Pods \cup {NoPod}, result : Outcomes]

Troubles == {"losses", "ends", "changes"}
Spend(what) ==
  /\ used["losses"] + used["ends"] + used["changes"] < MaxTroubles
  /\ used' = [used EXCEPT ![what] = @ + 1]

Init ==
  /\ route = FirstRoute /\ holds = {route[1]} \ {Here} /\ up = Pods
  /\ Life!Init
  /\ call = [c \in Calls |-> [pc |-> "idle", to |-> NoPod, result |-> "none"]]
  /\ began = {} /\ mayReport = FALSE /\ reported = {}
  /\ handled = [m \in Messages |-> 0]
  /\ used = [what \in Troubles |-> 0]

Origin(c)  == IF c \in Senders THEN c ELSE c[1]
Message(c) == Carries[Origin(c)]
Kind(c)    == IF c \in Senders THEN "entity" ELSE "topic"
Place(c)   == <<call[c].to, Kind(c)>>
AtCall(c, pc) == call[c].pc = pc
Become(c, pc, to, result) == call' = [call EXCEPT ![c] = [pc |-> pc, to |-> to, result |-> result]]

\* isEntityOnLocalShards; a topic is on every pod.
Local(p)    == IF p = Here THEN route[1] = Here ELSE p \in holds
Accepts(c)  == call[c].to \in up /\ (Kind(c) = "topic" \/ Local(call[c].to))
----------------------------------------------------------------------------
(* Sending.                                                                *)

Send(c) ==
  /\ c \in Senders /\ AtCall(c, "idle")
  /\ Become(c, "looking", NoPod, "none")
  /\ UNCHANGED <<env, lives, began, reports>>

\* getPodAddressForShardId; without an entry the call waits and looks again.
Look(c) ==
  /\ AtCall(c, "looking") /\ route[1] # NoPod
  /\ Become(c, "sending", route[1], "none")
  /\ UNCHANGED <<env, lives, began, reports>>

\* The pods that own a shard, as far as Here knows, and only now.
Broadcast(b) ==
  /\ b \notin began
  /\ began' = began \cup {b}
  /\ call' = [c \in Calls |->
       IF c \in {b} \X {route[s] : s \in Shards} THEN [pc |-> "sending", to |-> c[2], result |-> "none"]
       ELSE call[c]]
  /\ UNCHANGED <<env, lives, reports>>

\* Mutant: the pod is looked up once.
RetrySamePod(c) == Become(c, "sending", call[c].to, "none")

\* Mutant: the calls of a broadcast are made once.
RetrySends(c) ==
  IF c \in Senders THEN Become(c, "looking", NoPod, "none") ELSE Become(c, "idle", NoPod, "none")

\* A message is sent again to the pod the cache names by then; one of a broadcast to the
\* same pod.
Retry(c) ==
  IF c \in Senders THEN Become(c, "looking", NoPod, "none")
                   ELSE Become(c, "sending", call[c].to, "none")

\* PodUnavailable.  The pod is reported if none was for a while; the assignments that are
\* then fetched are used by an empty cache only.
Unavailable(c) ==
  /\ Retry(c)
  /\ mayReport' = FALSE
  /\ reported' = IF mayReport THEN reported \cup {call[c].to} ELSE reported
  /\ UNCHANGED <<lives, began>>

\* Mutant: messages to Here itself may fail to reach it, too.
FailAnywhere(c) ==
  /\ AtCall(c, "sending")
  /\ Unavailable(c)
  /\ UNCHANGED <<route, holds, up>>
  /\ IF call[c].to \in up THEN Spend("losses") ELSE UNCHANGED used

\* The pod is not there, or the request does not reach it.
Fail(c) ==
  /\ AtCall(c, "sending") /\ call[c].to # Here
  /\ Unavailable(c)
  /\ UNCHANGED <<route, holds, up>>
  /\ IF call[c].to \in up THEN Spend("losses") ELSE UNCHANGED used

\* The pod has received the message and its answer is lost.
LoseAnswer(c) ==
  /\ AtCall(c, "answering") /\ call[c].to # Here
  /\ Unavailable(c)
  /\ UNCHANGED <<route, holds, up>>
  /\ Spend("losses")

\* What send and broadcast decode of an answer.  The retry of broadcast decodes the same
\* answer again.
HasReply(c) == call[c].result = "Processed"

\* Only a reply ends a send; whatever is not an exception ends the other calls.
Enough(c) == HasReply(c) \/ (c \notin Senders \ Discards /\ call[c].result = "Acknowledged")

TakeAnswer(c) ==
  /\ AtCall(c, "answering")
  /\ IF Enough(c) THEN Become(c, "done", call[c].to, call[c].result) ELSE Retry(c)
  /\ UNCHANGED <<env, lives, began, reports>>

IntervalPasses ==
  /\ ~mayReport /\ mayReport' = TRUE
  /\ UNCHANGED <<env, lives, call, began, reported>>
----------------------------------------------------------------------------
(* The pods, which answer with what EntityLife allows.                     *)

StartLife(c) ==
  /\ AtCall(c, "sending") /\ Accepts(c)
  /\ Life!Start(Place(c))
  /\ UNCHANGED <<env, call, began, reports, handled>>

\* Mutant: a message is received whenever it comes.
ReceiveAgain(c) ==
  /\ AtCall(c, "sending") /\ Accepts(c) /\ Place(c) \in alive
  /\ state' = [state EXCEPT ![Place(c)][Message(c)] = "Acknowledged"]
  /\ Become(c, "answering", call[c].to, "Acknowledged")
  /\ UNCHANGED <<env, began, reports, alive, handled>>

Receive(c) ==
  LET known == state[Place(c)][Message(c)]
  IN  /\ AtCall(c, "sending") /\ Accepts(c) /\ Place(c) \in alive
      /\ IF known = "none"
         THEN Life!Receive(Place(c), Message(c)) /\ Become(c, "answering", call[c].to, "Acknowledged")
         ELSE UNCHANGED <<alive, state>> /\ Become(c, "answering", call[c].to, known)
      /\ UNCHANGED <<env, began, reports, handled>>

Refuse(c) ==
  /\ AtCall(c, "sending") /\ call[c].to \in up /\ ~Accepts(c)
  /\ Become(c, "answering", call[c].to, "EntityNotManaged")
  /\ UNCHANGED <<env, lives, began, reports>>

Process(l, m) ==
  /\ Life!Process(l, m)
  /\ handled' = IF l[2] = "entity" THEN [handled EXCEPT ![m] = @ + 1] ELSE handled
  /\ UNCHANGED <<env, call, began, reports>>

EndLife(l) ==
  /\ Spend("ends") /\ Life!End({l}) /\ l \in alive
  /\ UNCHANGED <<route, holds, up, call, began, reports, handled>>

PodDies(p) ==
  /\ p \in up \ {Here} /\ Spend("ends")
  /\ up' = up \ {p} /\ holds' = holds \ {p}
  /\ Life!End({l \in alive : l[1] = p})
  /\ UNCHANGED <<route, call, began, reports, handled>>

\* An entry of the cache changes: assign, unassign or an element of the stream.
RouteChanges(s, p) ==
  /\ Spend("changes")
  /\ route[s] # p /\ route' = [route EXCEPT ![s] = p]
  /\ UNCHANGED <<holds, up, lives, call, began, reports>>

HolderChanges(p) ==
  /\ Spend("changes") /\ p \in up \ {Here}
  /\ holds' = IF p \in holds THEN holds \ {p} ELSE holds \cup {p}
  /\ UNCHANGED <<route, up, lives, call, began, reports>>
----------------------------------------------------------------------------
CallStep(c) ==
  Look(c) \/ (call[c].to \notin up /\ Fail(c)) \/ StartLife(c) \/ Receive(c) \/ Refuse(c) \/ TakeAnswer(c)

Next ==
  \/ \E c \in Calls : Send(c) \/ Look(c) \/ Fail(c) \/ LoseAnswer(c) \/ TakeAnswer(c)
                        \/ StartLife(c) \/ Receive(c) \/ Refuse(c)
  \/ \E b \in Broadcasts : Broadcast(b)
  \/ IntervalPasses
  \/ \E l \in Pods \X Kinds : EndLife(l) \/ \E m \in Messages : Process(l, m)
  \/ \E p \in Pods : PodDies(p) \/ HolderChanges(p)
  \/ \E s \in Shards, p \in Pods \cup {NoPod} : RouteChanges(s, p)

\* Calls go on, handlers handle what they received, and time passes.
Fairness ==
  /\ \A c \in Calls : WF_vars(CallStep(c))
  /\ \A l \in Pods \X Kinds, m \in Messages : WF_vars(Process(l, m))
  /\ WF_vars(IntervalPasses)

Spec == Init /\ [][Next]_vars /\ Fairness
----------------------------------------------------------------------------
(* Properties.                                                             *)

TypeOK ==
  /\ route \in [Shards -> Pods \cup {NoPod}] /\ holds \subseteq Pods \ {Here} /\ up \subseteq Pods
  /\ alive \subseteq Pods \X Kinds
  /\ state \in [Pods \X Kinds -> [Messages -> Outcomes \ {"EntityNotManaged"}]]
  /\ call \in [Calls -> CallType] /\ began \subseteq Broadcasts
  /\ mayReport \in BOOLEAN /\ reported \subseteq Pods \ {Here}
  /\ handled \in [Messages -> Nat] /\ used \in [Troubles -> Nat]

\* A message that was delivered is delivered again when its answer is lost, or to ask for
\* its reply; the entity handles it again only in another life.
HandledOncePerLife ==
  (used.ends = 0 /\ used.changes = 0) =>
    \A s \in Senders : handled[Carries[s]] <= 1

\* A send ends, whatever was lost and wherever the entity went meanwhile, or the pod that
\* does not answer is reported: unless the cache of Here names no pod, or one that runs
\* and does not hold the shard.
RepliesArrive ==
  <>[](route[1] # NoPod /\ (route[1] \in up => Local(route[1])))
    => \A c \in Senders :
         ~AtCall(c, "idle") ~> AtCall(c, "done") \/ route[1] \in reported

\* A broadcast is delivered, after all retries, to every pod that owned a shard when it
\* began: also to one that owns none by then.  One that died holds back the whole broadcast.
BroadcastDelivered ==
  \A b \in Broadcasts : \A p \in Pods :
    ~AtCall(<<b, p>>, "idle") ~> AtCall(<<b, p>>, "done") \/ p \notin up

\* "Broadcast a message and wait for a response from each consumer": the broadcast ends
\* once all pods have handled the message.  An answer that holds no reply is decoded again
\* and again, and the pod is not asked again.
BroadcastEnds ==
  \A b \in Broadcasts \ Discards :
    b \in began ~>
      \/ \A p \in Pods : ~AtCall(<<b, p>>, "idle") => HasReply(<<b, p>>)
      \/ up # Pods
=============================================================================
