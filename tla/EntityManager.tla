---------------------------- MODULE EntityManager ----------------------------
(***************************************************************************)
(* The entity manager of a pod for one type of entities with an in-memory  *)
(* queue (entityManager.ts, recipientBehaviour.ts), and the senders of the *)
(* same process that call it.  With Persisted the behaviour is wrapped     *)
(* (atLeastOnce.ts): messages are stored before they are offered, and a    *)
(* sweeper sends those again that were not processed.                      *)
(*                                                                         *)
(* entry is the map entityStates; its lock is held for the whole creation  *)
(* of an entity, since the initialisation of a behaviour may take long,    *)
(* and for an instant otherwise.  An instance is what one creation made:   *)
(* a queue, a handler fiber, an expiration timer.                          *)
(*                                                                         *)
(* Between two asynchronous operations a fiber runs undisturbed: the       *)
(* yields after 2048 operations are left out.                              *)
(***************************************************************************)
EXTENDS Integers, Sequences, FiniteSets

CONSTANTS
    Entities,
    Messages, Recipient,    \* Recipient[m]: the entity message m is for
    Senders, Sends,         \* Sends[c]: the message that sender c sends
    Sweeper,                \* the fiber of runPendingMessageSweeperScoped
    Persisted,              \* whether the behaviour is wrapped
    PoisonPill, NoCall, NoMessage, NoEntity,
    MaxTerminations,        \* bound: entities that expire or end themselves, per process
    MaxMoves,               \* bound: changes of the shards of the pod
    MaxCrashes,
    MaxFailedWrites         \* bound: failing writes to the storage, per message

Calls   == Senders \cup {Sweeper}
NoEntry == 0

\* With these bounds an entity can always be created again.
Instances == 1..(MaxTerminations + Cardinality(Entities))

ASSUME NamesAssumption ==
  /\ Recipient \in [Messages -> Entities] /\ Sends \in [Senders -> Messages]
  /\ Sweeper \notin Senders /\ NoCall \notin Calls
  /\ NoMessage \notin Messages /\ PoisonPill \notin Messages /\ NoEntity \notin Entities
  /\ Persisted \in BOOLEAN
ASSUME BoundsAssumption ==
  MaxTerminations \in Nat /\ MaxMoves \in Nat /\ MaxCrashes \in Nat /\ MaxFailedWrites \in Nat

VARIABLES
    local,          \* entities on the shards of the pod (isEntityOnLocalShards)
    shuttingDown,   \* isShuttingDownRef
    entry,          \* entity -> its instance, or NoEntry
    creator,        \* the call that holds the lock to create an entity
    instance,       \* what was created, in order
    call,           \* the calls of sendAndGetState
    leaving,        \* unregister: the entities it still has to terminate
    batch,          \* what the sweeper still has to send
    stored,         \* the storage of messages
    failedWrites,   \* writes to the storage that failed, of each message
    handled,        \* history: the messages an instance has handled
    moves, crashes

storage == <<stored, failedWrites, handled>>
vars == <<local, shuttingDown, entry, creator, instance, call, leaving, batch, storage, moves, crashes>>
others == <<leaving, batch, moves, crashes>>
----------------------------------------------------------------------------
(* Values of the variables.                                                *)

MessageStates == {"none", "Acknowledged", "Processed"}

InstanceType ==
  [entity  : Entities,
   queue   : Seq(Messages \cup {PoisonPill}),
   states  : [Messages -> MessageStates],                   \* messageStates
   handler : {"running", "ended"},
   timer   : {"sleeping", "expired", "stopped"},
   touched : BOOLEAN,       \* a message came since the timer looked (lastReceivedAt)
   ending  : {"no", "begun", "closing", "removed"},         \* terminationFiber
   late    : BOOLEAN]       \* history: its creation was under way when the pod began to shut down

CallType ==
  [pc : {"idle", "checking", "locating", "creating", "storing", "offering", "marking", "done"},
   message  : Messages \cup {NoMessage},
   instance : Nat,
   result   : MessageStates \cup {"EntityNotManaged"}]

Idle == [pc |-> "idle", message |-> NoMessage, instance |-> NoEntry, result |-> "none"]
Fresh(e) ==
  [entity |-> e, queue |-> <<>>, states |-> [m \in Messages |-> "none"], handler |-> "running",
   timer |-> "sleeping", touched |-> FALSE, ending |-> "no", late |-> FALSE]

NotLeaving == [pc |-> "no", rest |-> {}, current |-> NoEntity, timedOut |-> FALSE]

Init ==
  /\ local = Entities /\ shuttingDown = FALSE
  /\ entry = [e \in Entities |-> NoEntry] /\ creator = NoCall /\ instance = <<>>
  /\ call = [c \in Calls |-> Idle]
  /\ leaving = NotLeaving /\ batch = {}
  /\ stored = [m \in Messages |-> "none"]
  /\ failedWrites = [m \in Messages |-> 0] /\ handled = {}
  /\ moves = 0 /\ crashes = 0

Unlocked  == creator = NoCall
Target(c) == Recipient[call[c].message]
To(c, pc) == call' = [call EXCEPT ![c].pc = pc]
Answer(c, result) == call' = [call EXCEPT ![c] = [@ EXCEPT !.pc = "done", !.instance = NoEntry, !.result = result]]
AtCall(c, pc) == call[c].pc = pc
Live(i) == instance[i].handler = "running"
----------------------------------------------------------------------------
(* sendAndGetState.                                                        *)

\* messenger.send and sendDiscard, when the pod's own address is the one in the cache.
Send(c) ==
  /\ AtCall(c, "idle")
  /\ call' = [call EXCEPT ![c] = [Idle EXCEPT !.pc = "checking", !.message = Sends[c]]]
  /\ UNCHANGED <<local, shuttingDown, entry, creator, instance, storage, others>>

\* Every 100 ms: a message that is not processed yet, or whose entity is not here, is sent
\* again.
SendAgain(c) ==
  /\ AtCall(c, "done") /\ call[c].result # "Processed"
  /\ To(c, "checking")
  /\ UNCHANGED <<local, shuttingDown, entry, creator, instance, storage, others>>

CheckLocal(c) ==
  /\ AtCall(c, "checking")
  /\ Target(c) \notin local \/ ~Unlocked
  /\ IF Target(c) \in local THEN To(c, "locating") ELSE Answer(c, "EntityNotManaged")
  /\ UNCHANGED <<local, shuttingDown, entry, creator, instance, storage, others>>

\* getOrCreateEntityState takes the lock, at once if it is free.
Locating(c) ==
  /\ AtCall(c, "locating") \/ (AtCall(c, "checking") /\ Target(c) \in local)
  /\ Unlocked
  /\ UNCHANGED <<local, shuttingDown, storage, others>>

LocateFound(c) ==
  LET i == entry[Target(c)]
  IN  /\ Locating(c) /\ i # NoEntry /\ instance[i].ending = "no"
      /\ instance' = [instance EXCEPT ![i].touched = TRUE]
      /\ call' = [call EXCEPT ![c] = [@ EXCEPT !.pc = IF Persisted THEN "storing" ELSE "offering",
                                               !.instance = i]]
      /\ UNCHANGED <<entry, creator>>

\* The entity is terminating: after 100 ms the call is made again.
LocateEnding(c) ==
  LET i == entry[Target(c)]
  IN  /\ Locating(c) /\ i # NoEntry /\ instance[i].ending # "no"
      /\ To(c, "checking")
      /\ UNCHANGED <<entry, creator, instance>>

LocateRefused(c) ==
  /\ Locating(c) /\ entry[Target(c)] = NoEntry /\ shuttingDown
  /\ Answer(c, "EntityNotManaged")
  /\ UNCHANGED <<entry, creator, instance>>

\* Mutant: an entity is created although the pod is shutting down.
BeginCreateAlways(c) ==
  /\ Locating(c) /\ entry[Target(c)] = NoEntry
  /\ instance' = Append(instance, Fresh(Target(c)))
  /\ creator' = c
  /\ call' = [call EXCEPT ![c] = [@ EXCEPT !.pc = "creating", !.instance = Len(instance) + 1]]
  /\ UNCHANGED entry

\* The timer and the handler are daemons, which start before the entity is in the map.
BeginCreate(c) ==
  /\ Locating(c) /\ entry[Target(c)] = NoEntry /\ ~shuttingDown
  /\ instance' = Append(instance, Fresh(Target(c)))
  /\ creator' = c
  /\ call' = [call EXCEPT ![c] = [@ EXCEPT !.pc = "creating", !.instance = Len(instance) + 1]]
  /\ UNCHANGED entry

FinishCreate(c) ==
  /\ AtCall(c, "creating")
  /\ entry' = [entry EXCEPT ![Target(c)] = call[c].instance]
  /\ creator' = NoCall
  /\ To(c, IF Persisted THEN "storing" ELSE "offering")
  /\ UNCHANGED <<local, shuttingDown, instance, storage, others>>

\* A write to the storage that fails is only logged: the call goes on as if it were done.
WriteFails(c) ==
  /\ failedWrites[call[c].message] < MaxFailedWrites
  /\ failedWrites' = [failedWrites EXCEPT ![call[c].message] = @ + 1]
  /\ UNCHANGED stored

\* Mutant: the state of the message is stored, not whether it was processed.
UpsertState(c) ==
  /\ AtCall(c, "storing")
  /\ stored' = [stored EXCEPT ![call[c].message] = IF @ = "none" THEN "Acknowledged" ELSE @]
  /\ To(c, "offering")
  /\ UNCHANGED <<local, shuttingDown, entry, creator, instance, failedWrites, handled, others>>

\* upsert: a message that is on record stays as it is.
Upsert(c) ==
  /\ AtCall(c, "storing")
  /\ \/ /\ stored' = [stored EXCEPT ![call[c].message] = IF @ = "none" THEN "pending" ELSE @]
        /\ UNCHANGED failedWrites
     \/ WriteFails(c)
  /\ To(c, "offering")
  /\ UNCHANGED <<local, shuttingDown, entry, creator, instance, handled, others>>

\* Instance i when m is in its queue, when it has processed m, when its handler has ended,
\* and when its scope is closed.
Received(i, m) == [instance[i] EXCEPT !.queue = Append(@, m), !.states[m] = "Acknowledged"]
Handled(i, m)  == [instance[i] EXCEPT !.queue = Tail(@), !.states[m] = "Processed"]
Ended(i)  == [instance[i] EXCEPT !.queue = Tail(@), !.handler = "ended"]
Closed(i) == [instance[i] EXCEPT !.timer = "stopped", !.ending = "closing", !.queue = Append(@, PoisonPill)]

\* Mutant: a message is offered whenever it comes.
OfferAgain(c) ==
  LET i == call[c].instance
      m == call[c].message
  IN  /\ AtCall(c, "offering")
      /\ instance' = [instance EXCEPT ![i] = Received(i, m)]
      /\ Answer(c, "Acknowledged")
      /\ UNCHANGED <<local, shuttingDown, entry, creator, storage, others>>

\* Mutant: nothing is marked as processed.
OfferUnmarked(c) ==
  LET i == call[c].instance
      m == call[c].message
      state == instance[i].states[m]
  IN  /\ AtCall(c, "offering")
      /\ instance' = IF state = "none"
            THEN [instance EXCEPT ![i] = Received(i, m)]
            ELSE instance
      /\ Answer(c, IF state = "none" THEN "Acknowledged" ELSE state)
      /\ UNCHANGED <<local, shuttingDown, entry, creator, storage, others>>

\* A message is offered to the queue only once.
Offer(c) ==
  LET i == call[c].instance
      m == call[c].message
      state == instance[i].states[m]
  IN  /\ AtCall(c, "offering")
      /\ IF state = "none"
         THEN /\ instance' = [instance EXCEPT ![i] = Received(i, m)]
              /\ Answer(c, "Acknowledged")
         ELSE /\ IF state = "Processed" /\ Persisted THEN To(c, "marking") ELSE Answer(c, state)
              /\ UNCHANGED instance
      /\ UNCHANGED <<local, shuttingDown, entry, creator, storage, others>>

\* markAsProcessed: it updates nothing if the message is not on record.
Mark(c) ==
  /\ AtCall(c, "marking")
  /\ \/ /\ stored' = [stored EXCEPT ![call[c].message] = IF @ = "pending" THEN "processed" ELSE @]
        /\ UNCHANGED failedWrites
     \/ WriteFails(c)
  /\ Answer(c, "Processed")
  /\ UNCHANGED <<local, shuttingDown, entry, creator, instance, handled, others>>
----------------------------------------------------------------------------
(* Instances: their handlers, timers and terminations.                     *)

\* The handler takes a message from its queue and replies to it.
Handle(i) ==
  LET m == Head(instance[i].queue)
  IN  /\ Live(i) /\ instance[i].queue # <<>> /\ m # PoisonPill
      /\ instance' = [instance EXCEPT ![i] = Handled(i, m)]
      /\ handled' = handled \cup {m}
      /\ UNCHANGED <<local, shuttingDown, entry, creator, call, stored, failedWrites, others>>

\* takeOrInterrupt
TakePoison(i) ==
  /\ Live(i) /\ instance[i].queue # <<>> /\ Head(instance[i].queue) = PoisonPill
  /\ instance' = [instance EXCEPT ![i] = Ended(i)]
  /\ UNCHANGED <<local, shuttingDown, entry, creator, call, storage, others>>

\* forkEntityTermination, which takes the lock
Terminated(e) ==
  IF entry[e] # NoEntry /\ instance[entry[e]].ending = "no"
  THEN [instance EXCEPT ![entry[e]].ending = "begun"] ELSE instance

MayEnd == Cardinality({i \in DOMAIN instance : instance[i].ending # "no"}) < MaxTerminations

\* maxIdleMillis have passed: the timer sleeps for what remains...
TimerSleepsAgain(i) ==
  /\ instance[i].timer = "sleeping" /\ instance[i].touched /\ entry[instance[i].entity] = i
  /\ instance' = [instance EXCEPT ![i].touched = FALSE]
  /\ UNCHANGED <<local, shuttingDown, entry, creator, call, storage, others>>

\* ... or ends the entity; it may have to wait for the lock.
TimerExpires(i) ==
  /\ \/ instance[i].timer = "sleeping" /\ ~(instance[i].touched /\ entry[instance[i].entity] = i)
     \/ instance[i].timer = "expired" /\ Unlocked
  /\ MayEnd
  /\ instance' = IF Unlocked THEN [Terminated(instance[i].entity) EXCEPT ![i].timer = "stopped"]
                              ELSE [instance EXCEPT ![i].timer = "expired"]
  /\ UNCHANGED <<local, shuttingDown, entry, creator, call, storage, others>>

\* forkShutdown, which the handler may call at any time.
ForkShutdown(i) ==
  /\ Live(i) /\ Unlocked /\ MayEnd
  /\ instance' = Terminated(instance[i].entity)
  /\ UNCHANGED <<local, shuttingDown, entry, creator, call, storage, others>>

\* terminateEntity: the timer is stopped and the scope closed, which offers the poison.
CloseScope(i) ==
  /\ instance[i].ending = "begun"
  /\ instance' = [instance EXCEPT ![i] = Closed(i)]
  /\ UNCHANGED <<local, shuttingDown, entry, creator, call, storage, others>>

\* Mutant: the end of the handler is not awaited.
RemoveEntityAtOnce(i) ==
  /\ instance[i].ending = "closing" /\ Unlocked
  /\ instance' = [instance EXCEPT ![i].ending = "removed"]
  /\ entry' = [entry EXCEPT ![instance[i].entity] = NoEntry]
  /\ UNCHANGED <<local, shuttingDown, creator, call, storage, others>>

\* Mutant: the entity stays in the map.
RemoveNothing(i) ==
  /\ instance[i].ending = "closing" /\ ~Live(i) /\ Unlocked
  /\ instance' = [instance EXCEPT ![i].ending = "removed"]
  /\ UNCHANGED <<local, shuttingDown, entry, creator, call, storage, others>>

\* The scope is closed once the handler has ended; only then the entity leaves the map.
RemoveEntity(i) ==
  /\ instance[i].ending = "closing" /\ ~Live(i) /\ Unlocked
  /\ instance' = [instance EXCEPT ![i].ending = "removed"]
  /\ entry' = [entry EXCEPT ![instance[i].entity] = NoEntry]
  /\ UNCHANGED <<local, shuttingDown, creator, call, storage, others>>
----------------------------------------------------------------------------
(* The pod.                                                                *)

\* The manager assigns or unassigns the shard of e.
Move(e) ==
  /\ moves < MaxMoves /\ moves' = moves + 1
  /\ local' = IF e \in local THEN local \ {e} ELSE local \cup {e}
  /\ UNCHANGED <<shuttingDown, entry, creator, instance, call, leaving, batch, storage, crashes>>

\* unregister sets the flag and reads the map, not waiting for the lock.
BeginShutdown ==
  /\ leaving.pc = "no"
  /\ shuttingDown' = TRUE
  /\ leaving' = [leaving EXCEPT !.pc = "terminating", !.rest = {e \in Entities : entry[e] # NoEntry}]
  /\ instance' = IF Unlocked THEN instance ELSE [instance EXCEPT ![call[creator].instance].late = TRUE]
  /\ UNCHANGED <<local, entry, creator, call, batch, storage, moves, crashes>>

\* terminateEntities forks the termination of one after the other...
TerminateEntity(e) ==
  /\ leaving.pc = "terminating" /\ e \in leaving.rest /\ Unlocked
  /\ instance' = Terminated(e)
  /\ leaving' = [leaving EXCEPT !.pc = "awaiting", !.rest = @ \ {e}, !.current = e]
  /\ UNCHANGED <<local, shuttingDown, entry, creator, call, batch, storage, moves, crashes>>

\* ... and awaits it, entityTerminationTimeout at most.
AwaitTermination ==
  /\ leaving.pc = "awaiting"
  /\ leaving' = [leaving EXCEPT !.pc = "terminating", !.current = NoEntity,
                                !.timedOut = @ \/ entry[leaving.current] # NoEntry]
  /\ UNCHANGED <<local, shuttingDown, entry, creator, instance, call, batch, storage, moves, crashes>>

EndShutdown ==
  /\ leaving.pc = "terminating" /\ leaving.rest = {}
  /\ leaving' = [leaving EXCEPT !.pc = "unregistered"]
  /\ UNCHANGED <<local, shuttingDown, entry, creator, instance, call, batch, storage, moves, crashes>>

\* The process ends and starts again: what is in the storage is all that is left.
Crash ==
  /\ crashes < MaxCrashes /\ crashes' = crashes + 1
  /\ shuttingDown' = FALSE /\ leaving' = NotLeaving /\ batch' = {}
  /\ entry' = [e \in Entities |-> NoEntry] /\ creator' = NoCall /\ instance' = <<>>
  /\ call' = [c \in Calls |-> Idle]
  /\ UNCHANGED <<local, storage, moves>>
----------------------------------------------------------------------------
(* The sweeper.                                                            *)

\* Mutant: only the messages of entities that live are swept.
SweepLiving ==
  /\ Persisted /\ batch = {} /\ AtCall(Sweeper, "idle")
  /\ batch' = {m \in Messages :
        stored[m] = "pending" /\ Recipient[m] \in local /\ entry[Recipient[m]] # NoEntry}
  /\ UNCHANGED <<local, shuttingDown, entry, creator, instance, call, leaving, storage, moves, crashes>>

\* sweepPending reads the messages of the pod's shards that are not processed.
Sweep ==
  /\ Persisted /\ batch = {} /\ AtCall(Sweeper, "idle")
  /\ batch' = {m \in Messages : stored[m] = "pending" /\ Recipient[m] \in local}
  /\ UNCHANGED <<local, shuttingDown, entry, creator, instance, call, leaving, storage, moves, crashes>>

SweepMessage(m) ==
  /\ m \in batch /\ AtCall(Sweeper, "idle")
  /\ batch' = batch \ {m}
  /\ call' = [call EXCEPT ![Sweeper] = [Idle EXCEPT !.pc = "checking", !.message = m]]
  /\ UNCHANGED <<local, shuttingDown, entry, creator, instance, leaving, storage, moves, crashes>>

\* A failure ends the whole stream, and the rest of the batch is not sent.  A type that is not
\* registered and a message that does not decode fail as well; all are registered here, and
\* all messages decode.
SweptMessage ==
  /\ AtCall(Sweeper, "done")
  /\ batch' = IF call[Sweeper].result = "EntityNotManaged" THEN {} ELSE batch
  /\ call' = [call EXCEPT ![Sweeper] = Idle]
  /\ UNCHANGED <<local, shuttingDown, entry, creator, instance, leaving, storage, moves, crashes>>
----------------------------------------------------------------------------
CallStep(c) ==
  \/ CheckLocal(c) \/ LocateFound(c) \/ LocateEnding(c) \/ LocateRefused(c) \/ BeginCreate(c)
  \/ FinishCreate(c) \/ Upsert(c) \/ Offer(c) \/ Mark(c)

HandlerStep(i) == Handle(i) \/ TakePoison(i)
EndStep(i)     == CloseScope(i) \/ RemoveEntity(i)
InstanceStep(i) == HandlerStep(i) \/ TimerSleepsAgain(i) \/ TimerExpires(i) \/ ForkShutdown(i) \/ EndStep(i)
ShutdownStep == AwaitTermination \/ EndShutdown \/ \E e \in Entities : TerminateEntity(e)
SweepStep    == Sweep \/ SweptMessage \/ \E m \in Messages : SweepMessage(m)

Next ==
  \/ \E c \in Senders : Send(c) \/ SendAgain(c)
  \/ \E c \in Calls : CallStep(c)
  \/ \E i \in DOMAIN instance : InstanceStep(i)
  \/ \E e \in Entities : Move(e)
  \/ BeginShutdown \/ ShutdownStep \/ SweepStep \/ Crash

\* Fibers are scheduled fairly and handlers handle what they take; the senders go on
\* sending and the sweeper goes on sweeping.  Nothing makes anybody send, shards move,
\* entities end themselves or timers run out.
Fairness ==
  /\ \A c \in Calls : WF_vars(CallStep(c))
  /\ \A c \in Senders : WF_vars(SendAgain(c))
  /\ \A i \in Instances : WF_vars(i \in DOMAIN instance /\ (HandlerStep(i) \/ EndStep(i)))
  /\ WF_vars(ShutdownStep) /\ WF_vars(SweepStep)

Spec == Init /\ [][Next]_vars /\ Fairness
----------------------------------------------------------------------------
(* Properties.                                                             *)

PodTypeOK ==
  /\ local \subseteq Entities /\ shuttingDown \in BOOLEAN
  /\ entry \in [Entities -> 0..Len(instance)] /\ creator \in Calls \cup {NoCall}
  /\ instance \in Seq(InstanceType)
  /\ call \in [Calls -> CallType]
  /\ leaving \in [pc : {"no", "terminating", "awaiting", "unregistered"},
                   rest : SUBSET Entities, current : Entities \cup {NoEntity}, timedOut : BOOLEAN]
  /\ batch \subseteq Messages
  /\ stored \in [Messages -> {"none", "pending", "processed"}]
  /\ moves \in 0..MaxMoves /\ crashes \in 0..MaxCrashes

TypeOK ==
  /\ PodTypeOK
  /\ failedWrites \in [Messages -> 0..MaxFailedWrites] /\ handled \subseteq Messages

\* A pod never runs two instances of an entity at the same time, whatever expires, ends
\* itself or is created again meanwhile: the new one starts after the handler of the old
\* one has ended and its entry was removed.
OneInstance ==
  \A i, j \in DOMAIN instance :
    (i # j /\ Live(i) /\ Live(j)) => instance[i].entity # instance[j].entity

\* "failing pending replies": a sender whose message waits in the pod when it has shut down
\* gets its reply or a failure.
PendingRepliesFail ==
  \A c \in Senders :
    (leaving.pc = "unregistered" /\ call[c].pc # "idle")
      ~> (call[c].pc = "idle" \/ (call[c].pc = "done" /\ call[c].result = "Processed"))

\* An instance handles a message once, however often the message is sent while the
\* instance lives: it is not in the queue twice, and not there any more once processed.
HandledOnce ==
  \A i \in DOMAIN instance : \A m \in Messages :
    LET at == {k \in DOMAIN instance[i].queue : instance[i].queue[k] = m}
    IN  /\ Cardinality(at) <= 1
        /\ instance[i].states[m] \in {"none", "Processed"} => at = {}

\* A sender is told that its message was processed only if an instance handled it.  With
\* Persisted it is on record then, and the sweeper will not send it any more, unless a write
\* of the message failed; and what is on record as processed was handled: no message that
\* still has to be handled is lost to the sweeper, whatever crashed or failed.
ProcessedIsMarked ==
  /\ \A c \in Calls : (call[c].pc = "done" /\ call[c].result = "Processed") =>
       LET m == call[c].message
       IN  m \in handled /\ (Persisted => stored[m] = "processed" \/ failedWrites[m] > 0)
  /\ \A m \in Messages : stored[m] = "processed" => m \in handled

\* "don't start any fiber while sharding is shutting down": once unregister is through, an
\* entity still lives only if the pod did not wait for its end, or if its creation was
\* under way when the flag was set.
NoneLeftBehind ==
  leaving.pc = "unregistered" =>
    \A i \in DOMAIN instance : Live(i) => instance[i].late \/ leaving.timedOut

\* No send waits for ever: a sender gets its reply, however often the entity ends meanwhile,
\* while the entity's shard stays with the pod and the pod does not shut down.
SendEnds ==
  \A c \in Senders :
    []<>(\/ call[c].pc = "idle" \/ (call[c].pc = "done" /\ call[c].result = "Processed")
         \/ shuttingDown \/ Recipient[Sends[c]] \notin local)

\* At least once: no message on record stays pending for ever.  It is processed and marked in
\* the end, also if its sender and the entity were lost in a crash, and after
\* markAsProcessed failed.
AtLeastOnce ==
  \A m \in Messages :
    []<>(stored[m] # "pending" \/ shuttingDown \/ Recipient[m] \notin local)

\* What the others see of the pod is the lives of its entities, and what each life made of
\* the messages.
Lives(e) == {i \in DOMAIN instance : Live(i) /\ instance[i].entity = e}
Alive    == {e \in Entities : Lives(e) # {}}
Known    == [e \in Entities |-> IF Lives(e) = {} THEN [m \in Messages |-> "none"]
                                ELSE instance[CHOOSE i \in Lives(e) : TRUE].states]
Life == INSTANCE EntityLife WITH alive <- Alive, state <- Known
RefinesEntityLife == Life!Spec
=============================================================================
