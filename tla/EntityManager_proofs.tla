------------------------ MODULE EntityManager_proofs ------------------------
(***************************************************************************)
(* Proofs about EntityManager, for any entities, messages, senders and     *)
(* bounds, with and without persistence, and that it implements EntityLife.*)
(***************************************************************************)
EXTENDS EntityManager, SequenceTheorems, FiniteSetTheorems, TLAPS

USE NamesAssumption, BoundsAssumption DEF storage

\* Calls in flight have a message, and those past the map an instance; only the call that
\* holds the lock is creating.
CallsFit ==
  \A c \in Calls :
    /\ call[c].pc # "idle" => call[c].message \in Messages
    /\ call[c].pc \in {"creating", "storing", "offering"} => call[c].instance \in DOMAIN instance
    /\ call[c].pc = "creating" => creator = c

\* While an entity is created the lock is held and the entity is not in the map.
LockHeld ==
  creator # NoCall =>
    /\ AtCall(creator, "creating")
    /\ instance[call[creator].instance].entity = Target(creator)
    /\ entry[Target(creator)] = NoEntry

EntriesFit ==
  \A e \in Entities : entry[e] # NoEntry => instance[entry[e]].entity = e

\* An instance that lives is in the map or about to be put there, and one that is ending
\* is in the map.
Held(i) == entry[instance[i].entity] = i
InstancesHeld ==
  \A i \in DOMAIN instance :
    /\ Live(i) => Held(i) \/ (creator # NoCall /\ call[creator].instance = i)
    /\ instance[i].ending \in {"begun", "closing"} => Held(i)

\* What unregister knows of the instances that live.
ShutdownFits ==
  /\ shuttingDown <=> leaving.pc # "no"
  /\ (shuttingDown /\ creator # NoCall) => instance[call[creator].instance].late
  /\ leaving.pc = "awaiting" => leaving.current \in Entities
  /\ shuttingDown =>
       \A i \in DOMAIN instance : Live(i) =>
         \/ instance[i].late \/ leaving.timedOut
         \/ leaving.pc # "unregistered" /\ instance[i].entity \in leaving.rest
         \/ leaving.pc = "awaiting" /\ instance[i].entity = leaving.current

IInv == PodTypeOK /\ CallsFit /\ LockHeld /\ EntriesFit /\ InstancesHeld /\ ShutdownFits
----------------------------------------------------------------------------
(* Lemmas.                                                                 *)

\* A sequence of instances with another one in the place of instance i.
LEMMA PutInstance ==
  ASSUME NEW s \in Seq(InstanceType), NEW i \in DOMAIN s, NEW r \in InstanceType
  PROVE  LET t == [s EXCEPT ![i] = r]
         IN  /\ t \in Seq(InstanceType) /\ Len(t) = Len(s) /\ DOMAIN t = DOMAIN s
             /\ \A j \in DOMAIN s : t[j] = IF j = i THEN r ELSE s[j]
<1>1. DOMAIN s = 1..Len(s)
  BY LenProperties
<1> DEFINE t == [s EXCEPT ![i] = r]
<1>2. /\ t \in Seq(InstanceType) /\ Len(t) = Len(s)
      /\ \A j \in 1..Len(s) : t[j] = IF j = i THEN r ELSE s[j]
  BY <1>1, ExceptSeq
<1> QED BY <1>1, <1>2, LenProperties

\* What a step may do to the instances that are there: none starts to live again, and one
\* begins to end only if it is in the map.
Evolves ==
  /\ instance' \in Seq(InstanceType) /\ Len(instance') = Len(instance)
  /\ DOMAIN instance' = DOMAIN instance
  /\ \A i \in DOMAIN instance :
       /\ instance'[i].entity = instance[i].entity
       /\ Live(i)' => Live(i)
       /\ instance'[i].ending \in {"begun", "closing"} =>
            instance[i].ending \in {"begun", "closing"} \/ Held(i)
       /\ instance[i].late => instance'[i].late

\* A step that leaves the map and the lock alone.
Quiet ==
  /\ Evolves /\ UNCHANGED <<entry, creator>>
  /\ \A c \in Calls :
       AtCall(c, "creating") \/ call'[c].pc = "creating" => call'[c] = call[c]

LEMMA PutEvolves ==
  ASSUME instance \in Seq(InstanceType), NEW i \in DOMAIN instance, NEW r \in InstanceType,
         instance' = [instance EXCEPT ![i] = r],
         r.entity = instance[i].entity,
         r.handler = "running" => Live(i),
         r.ending \in {"begun", "closing"} => instance[i].ending \in {"begun", "closing"} \/ Held(i),
         instance[i].late => r.late
  PROVE  Evolves
BY PutInstance DEF Evolves, Live

LEMMA SameEvolves ==
  ASSUME instance \in Seq(InstanceType), instance' = instance
  PROVE  Evolves
BY DEF Evolves, Live

\* forkEntityTermination changes the instance of the entity in the map, if any.
LEMMA TerminatedType ==
  ASSUME PodTypeOK, EntriesFit, NEW e \in Entities
  PROVE  /\ Terminated(e) \in Seq(InstanceType) /\ Len(Terminated(e)) = Len(instance)
         /\ DOMAIN Terminated(e) = DOMAIN instance
         /\ \A i \in DOMAIN instance :
              /\ Terminated(e)[i].entity = instance[i].entity
              /\ Terminated(e)[i].handler = instance[i].handler
              /\ Terminated(e)[i].late = instance[i].late
              /\ Terminated(e)[i].ending \in {"begun", "closing"} =>
                   instance[i].ending \in {"begun", "closing"} \/ Held(i)
<1>1. CASE Terminated(e) = instance
  BY <1>1 DEF PodTypeOK
<1>2. CASE entry[e] # NoEntry /\ Terminated(e) = [instance EXCEPT ![entry[e]].ending = "begun"]
  <2> DEFINE i == entry[e]
             r == [instance[i] EXCEPT !.ending = "begun"]
  <2>1. i \in DOMAIN instance /\ instance \in Seq(InstanceType)
    BY <1>2, LenProperties DEF PodTypeOK, NoEntry
  <2>2. instance[i] \in InstanceType /\ instance[i].entity = e
    BY <1>2, <2>1, LenProperties, ElementOfSeq DEF EntriesFit
  <2>3. r \in InstanceType
    BY <2>2 DEF InstanceType
  <2>4. Held(i) /\ r.entity = e /\ r.handler = instance[i].handler /\ r.late = instance[i].late
    BY <2>2 DEF Held, InstanceType
  <2>5. Terminated(e) = [instance EXCEPT ![i] = r]
    BY <1>2
  <2> HIDE DEF r
  <2> QED BY <2>1, <2>2, <2>3, <2>4, <2>5, PutInstance
<1> QED BY <1>1, <1>2 DEF Terminated

LEMMA TerminatedEvolves ==
  ASSUME PodTypeOK, EntriesFit, NEW e \in Entities, instance' = Terminated(e)
  PROVE  Evolves
BY TerminatedType DEF Evolves, Live

\* Quiet steps keep what is said of the lock, the map and the instances in it.
LEMMA QuietKeeps ==
  ASSUME PodTypeOK, CallsFit, LockHeld, EntriesFit, InstancesHeld, Quiet
  PROVE  LockHeld' /\ EntriesFit' /\ InstancesHeld'
<1>1. DOMAIN instance = 1..Len(instance)
  BY LenProperties DEF PodTypeOK
<1>2. ASSUME creator # NoCall
      PROVE  /\ creator \in Calls /\ call'[creator] = call[creator]
             /\ call[creator].instance \in DOMAIN instance
  BY <1>2 DEF PodTypeOK, LockHeld, Quiet, CallsFit, AtCall
<1>3. LockHeld'
  BY <1>2 DEF LockHeld, Quiet, Evolves, AtCall, Target
<1>4. EntriesFit'
  BY <1>1, SMTT(40) DEF EntriesFit, Quiet, Evolves, PodTypeOK, NoEntry
<1>5. InstancesHeld'
  BY <1>2 DEF InstancesHeld, Quiet, Evolves, Held, Live
<1> QED BY <1>3, <1>4, <1>5

\* Quiet steps that leave unregister alone keep what it knows.
LEMMA QuietShutdown ==
  ASSUME PodTypeOK, CallsFit, LockHeld, ShutdownFits, Quiet, UNCHANGED <<shuttingDown, leaving>>
  PROVE  ShutdownFits'
<1>1. ASSUME creator # NoCall
      PROVE  call'[creator] = call[creator] /\ call[creator].instance \in DOMAIN instance
  BY <1>1 DEF PodTypeOK, LockHeld, Quiet, CallsFit, AtCall
<1> QED BY <1>1 DEF ShutdownFits, Quiet, Evolves, Live

\* A call that is not creating an entity goes on.
LEMMA CallGoesOn ==
  ASSUME PodTypeOK, CallsFit, LockHeld, Evolves, UNCHANGED <<entry, creator>>,
         NEW c \in Calls, NEW r \in CallType, call' = [call EXCEPT ![c] = r],
         ~AtCall(c, "creating"), r.pc # "creating",
         r.pc # "idle" => r.message \in Messages,
         r.pc \in {"storing", "offering"} => r.instance \in DOMAIN instance
  PROVE  call' \in [Calls -> CallType] /\ CallsFit' /\ Quiet
<1>1. call' \in [Calls -> CallType]
  BY DEF PodTypeOK
<1>2. \A d \in Calls : call'[d] = IF d = c THEN r ELSE call[d]
  BY DEF PodTypeOK
<1>3. CallsFit'
  BY <1>2 DEF CallsFit, Evolves
<1>4. Quiet
  BY <1>2 DEF Quiet, AtCall
<1> QED BY <1>1, <1>3, <1>4

LEMMA CallsStay ==
  ASSUME PodTypeOK, CallsFit, Evolves, UNCHANGED <<entry, creator, call>>
  PROVE  CallsFit' /\ Quiet
BY DEF PodTypeOK, CallsFit, Evolves, Quiet

\* Such a step keeps the invariant, if it stores what can be stored.
LEMMA CallKeeps ==
  ASSUME IInv, Evolves, UNCHANGED <<entry, creator, local, shuttingDown, leaving, moves, crashes>>,
         NEW c \in Calls, NEW r \in CallType, call' = [call EXCEPT ![c] = r],
         ~AtCall(c, "creating"), r.pc # "creating",
         r.pc # "idle" => r.message \in Messages,
         r.pc \in {"storing", "offering"} => r.instance \in DOMAIN instance,
         batch' \subseteq Messages,
         stored' \in [Messages -> {"none", "pending", "processed"}]
  PROVE  IInv'
<1> USE DEF IInv
<1>1. call' \in [Calls -> CallType] /\ CallsFit' /\ Quiet
  BY CallGoesOn
<1>2. PodTypeOK'
  BY <1>1 DEF PodTypeOK, Evolves
<1>3. LockHeld' /\ EntriesFit' /\ InstancesHeld' /\ ShutdownFits'
  BY <1>1, QuietKeeps, QuietShutdown
<1> QED BY <1>1, <1>2, <1>3

\* A step that only changes instances.
LEMMA InstanceKeeps ==
  ASSUME IInv, Evolves,
         UNCHANGED <<entry, creator, call, local, shuttingDown, leaving, batch, stored, moves, crashes>>
  PROVE  IInv'
<1> USE DEF IInv
<1>1. CallsFit' /\ Quiet
  BY CallsStay
<1>2. PodTypeOK'
  BY DEF PodTypeOK, Evolves
<1>3. LockHeld' /\ EntriesFit' /\ InstancesHeld' /\ ShutdownFits'
  BY <1>1, QuietKeeps, QuietShutdown
<1> QED BY <1>1, <1>2, <1>3

LEMMA InitInv == Init => IInv
<1> SUFFICES ASSUME Init PROVE IInv
  OBVIOUS
<1>1. /\ instance \in Seq(InstanceType) /\ Len(instance) = 0 /\ DOMAIN instance = {}
  BY EmptySeq, LenProperties DEF Init
<1>2. call \in [Calls -> CallType] /\ \A c \in Calls : call[c].pc = "idle"
  BY DEF Init, Idle, CallType, MessageStates, NoEntry
<1>3. PodTypeOK
  <2>1. leaving \in [pc : {"no", "terminating", "awaiting", "unregistered"},
                     rest : SUBSET Entities, current : Entities \cup {NoEntity}, timedOut : BOOLEAN]
    BY DEF Init, NotLeaving
  <2>2. entry \in [Entities -> 0..Len(instance)]
    <3>1. entry = [e \in Entities |-> 0]
      BY DEF Init, NoEntry
    <3> QED BY <1>1, <3>1
  <2>3. stored \in [Messages -> {"none", "pending", "processed"}] /\ batch \subseteq Messages
    BY DEF Init
  <2>4. local \subseteq Entities /\ shuttingDown \in BOOLEAN /\ creator \in Calls \cup {NoCall}
    BY DEF Init
  <2>5. moves \in 0..MaxMoves /\ crashes \in 0..MaxCrashes
    BY DEF Init
  <2> QED BY <1>1, <1>2, <2>1, <2>2, <2>3, <2>4, <2>5 DEF PodTypeOK
<1> QED BY <1>1, <1>2, <1>3
     DEF Init, IInv, CallsFit, LockHeld, EntriesFit, InstancesHeld, ShutdownFits,
         NotLeaving, NoEntry

\* The steps of a call that leave the instances alone.
LEMMA CallsKeep ==
  ASSUME IInv, NEW c \in Calls,
         \/ c \in Senders /\ (Send(c) \/ SendAgain(c))
         \/ CheckLocal(c) \/ LocateEnding(c) \/ LocateRefused(c) \/ Upsert(c) \/ Mark(c)
  PROVE  IInv'
<1> USE DEF IInv, PodTypeOK
<1>1. instance' = instance /\ Evolves
  BY SameEvolves DEF Send, SendAgain, CheckLocal, LocateEnding, LocateRefused, Upsert, Mark,
                     Locating
<1>2. call[c] \in CallType /\ (call[c].pc # "idle" => call[c].message \in Messages)
  BY DEF CallsFit
<1>3. UNCHANGED <<entry, creator, local, shuttingDown, leaving, batch, moves, crashes>>
  BY DEF Send, SendAgain, CheckLocal, LocateEnding, LocateRefused, Upsert, Mark, Locating, others
<1>4. CASE c \in Senders /\ Send(c)
  <2> DEFINE r == [Idle EXCEPT !.pc = "checking", !.message = Sends[c]]
  <2>1. r \in CallType /\ r.pc = "checking" /\ r.message \in Messages
    BY <1>4 DEF Idle, CallType, MessageStates, NoEntry
  <2>2. ~AtCall(c, "creating") /\ stored' = stored /\ call' = [call EXCEPT ![c] = r]
    BY <1>4 DEF Send, AtCall
  <2> QED BY <1>1, <1>3, <2>1, <2>2, CallKeeps
<1>5. CASE SendAgain(c) \/ (CheckLocal(c) /\ Target(c) \in local) \/ LocateEnding(c)
  <2>1. PICK pc \in {"checking", "locating"} : call' = [call EXCEPT ![c].pc = pc]
    BY <1>5 DEF SendAgain, CheckLocal, LocateEnding, To
  <2> DEFINE r == [call[c] EXCEPT !.pc = pc]
  <2>2. r \in CallType /\ r.pc = pc /\ r.message = call[c].message
    BY <1>2 DEF CallType
  <2>3. call[c].pc # "idle" /\ ~AtCall(c, "creating") /\ stored' = stored
    BY <1>5 DEF SendAgain, CheckLocal, LocateEnding, Locating, AtCall
  <2>4. call' = [call EXCEPT ![c] = r]
    BY <2>1
  <2> QED BY <1>1, <1>2, <1>3, <2>2, <2>3, <2>4, CallKeeps
<1>6. CASE (CheckLocal(c) /\ Target(c) \notin local) \/ LocateRefused(c)
  <2> DEFINE r == [call[c] EXCEPT !.pc = "done", !.instance = NoEntry, !.result = "EntityNotManaged"]
  <2>1. r \in CallType /\ r.pc = "done" /\ r.message = call[c].message /\ r.result = "EntityNotManaged"
    BY <1>2 DEF CallType, NoEntry
  <2>2. call[c].pc # "idle" /\ ~AtCall(c, "creating") /\ stored' = stored
    BY <1>6 DEF CheckLocal, LocateRefused, Locating, AtCall
  <2>3. call' = [call EXCEPT ![c] = r]
    BY <1>6 DEF CheckLocal, LocateRefused, Answer
  <2> QED BY <1>1, <1>2, <1>3, <2>1, <2>2, <2>3, CallKeeps
<1>7. CASE Upsert(c)
  <2> DEFINE r == [call[c] EXCEPT !.pc = "offering"]
  <2>1. r \in CallType /\ r.pc = "offering" /\ r.message = call[c].message /\ r.instance = call[c].instance
    BY <1>2 DEF CallType
  <2>2. call[c].pc = "storing" /\ ~AtCall(c, "creating") /\ call[c].instance \in DOMAIN instance
    BY <1>7 DEF Upsert, AtCall, CallsFit
  <2>3. call' = [call EXCEPT ![c] = r]
    BY <1>7 DEF Upsert, To
  <2>4. stored' \in [Messages -> {"none", "pending", "processed"}]
    BY <1>7 DEF Upsert, WriteFails
  <2> QED BY <1>1, <1>2, <1>3, <2>1, <2>2, <2>3, <2>4, CallKeeps
<1>8. CASE Mark(c)
  <2> DEFINE r == [call[c] EXCEPT !.pc = "done", !.instance = NoEntry, !.result = "Processed"]
  <2>1. r \in CallType /\ r.pc = "done" /\ r.message = call[c].message
    BY <1>2 DEF CallType, NoEntry, MessageStates
  <2>2. call[c].pc = "marking" /\ ~AtCall(c, "creating")
    BY <1>8 DEF Mark, AtCall
  <2>3. call' = [call EXCEPT ![c] = r]
    BY <1>8 DEF Mark, Answer
  <2>4. stored' \in [Messages -> {"none", "pending", "processed"}]
    BY <1>8 DEF Mark, WriteFails
  <2> QED BY <1>1, <1>2, <1>3, <2>1, <2>2, <2>3, <2>4, CallKeeps
<1> QED BY <1>4, <1>5, <1>6, <1>7, <1>8

\* Instances that are not under creation: a call that finds one, or offers its message.
LEMMA CallsOnInstancesKeep ==
  ASSUME IInv, NEW c \in Calls, LocateFound(c) \/ Offer(c)
  PROVE  IInv'
<1> USE DEF IInv, PodTypeOK
<1>1. call[c] \in CallType /\ (call[c].pc # "idle" => call[c].message \in Messages)
  BY DEF CallsFit
<1>2. UNCHANGED <<entry, creator, local, shuttingDown, leaving, batch, stored, moves, crashes>>
  BY DEF LocateFound, Offer, Locating, others
<1>3. CASE LocateFound(c)
  <2> DEFINE i == entry[Target(c)]
             pc == IF Persisted THEN "storing" ELSE "offering"
             q == [instance[i] EXCEPT !.touched = TRUE]
             r == [call[c] EXCEPT !.pc = pc, !.instance = i]
  <2>1. call[c].pc \in {"checking", "locating"} /\ Target(c) \in Entities
    BY <1>1, <1>3 DEF LocateFound, Locating, AtCall, Target
  <2>2. i \in DOMAIN instance /\ i \in Nat
    BY <1>3, <2>1, LenProperties DEF LocateFound, NoEntry
  <2>3. instance[i] \in InstanceType
    BY <2>2, LenProperties, ElementOfSeq
  <2>4. /\ q \in InstanceType /\ q.entity = instance[i].entity /\ q.handler = instance[i].handler
        /\ q.ending = instance[i].ending /\ q.late = instance[i].late
    BY <2>3 DEF InstanceType
  <2>5. Evolves
    BY <1>3, <2>2, <2>4, PutEvolves DEF LocateFound, Live
  <2>6. r \in CallType /\ r.pc = pc /\ r.message = call[c].message /\ r.instance = i
    BY <1>1, <2>2 DEF CallType
  <2>7. call' = [call EXCEPT ![c] = r]
    BY <1>3 DEF LocateFound
  <2>8. ~AtCall(c, "creating") /\ pc \in {"storing", "offering"}
    BY <2>1 DEF AtCall
  <2> HIDE DEF i, pc, q, r
  <2> QED BY <1>1, <1>2, <2>1, <2>2, <2>5, <2>6, <2>7, <2>8, CallKeeps
<1>4. CASE Offer(c)
  <2> DEFINE i == call[c].instance
             m == call[c].message
  <2>1. call[c].pc = "offering" /\ ~AtCall(c, "creating") /\ m \in Messages
    BY <1>1, <1>4 DEF Offer, AtCall
  <2>2. i \in DOMAIN instance /\ instance[i] \in InstanceType
    BY <2>1, LenProperties, ElementOfSeq DEF CallsFit
  <2>3. CASE instance[i].states[m] = "none"
    <3> DEFINE q == Received(i, m)
               r == [call[c] EXCEPT !.pc = "done", !.instance = NoEntry, !.result = "Acknowledged"]
    <3>1. /\ q \in InstanceType /\ q.entity = instance[i].entity /\ q.handler = instance[i].handler
          /\ q.ending = instance[i].ending /\ q.late = instance[i].late
      <4>1. Append(instance[i].queue, m) \in Seq(Messages \cup {PoisonPill})
        BY <2>1, <2>2 DEF InstanceType
      <4>2. [instance[i].states EXCEPT ![m] = "Acknowledged"] \in [Messages -> MessageStates]
        BY <2>1, <2>2 DEF InstanceType, MessageStates
      <4> QED BY <2>2, <4>1, <4>2 DEF InstanceType, Received
    <3>2. instance' = [instance EXCEPT ![i] = q]
      BY <1>4, <2>3 DEF Offer
    <3>5. call' = [call EXCEPT ![c] = r]
      BY <1>4, <2>3 DEF Offer, Answer
    <3>3. Evolves
      BY <2>2, <3>1, <3>2, PutEvolves DEF Live
    <3>4. r \in CallType /\ r.pc = "done" /\ r.message = m /\ r.result = "Acknowledged"
      BY <1>1 DEF CallType, NoEntry, MessageStates
    <3> HIDE DEF q, r
    <3> QED BY <1>2, <2>1, <3>3, <3>4, <3>5, CallKeeps
  <2>4. CASE instance[i].states[m] # "none" /\ instance[i].states[m] = "Processed" /\ Persisted
    <3> DEFINE r == [call[c] EXCEPT !.pc = "marking"]
    <3>1. instance' = instance /\ call' = [call EXCEPT ![c] = r]
      BY <1>4, <2>4 DEF Offer, To
    <3>2. r \in CallType /\ r.pc = "marking" /\ r.message = m
      BY <1>1 DEF CallType
    <3> QED BY <1>2, <2>1, <3>1, <3>2, SameEvolves, CallKeeps
  <2>5. CASE instance[i].states[m] # "none" /\ ~(instance[i].states[m] = "Processed" /\ Persisted)
    <3> DEFINE result == instance[i].states[m]
               r == [call[c] EXCEPT !.pc = "done", !.instance = NoEntry, !.result = result]
    <3>1. instance' = instance /\ call' = [call EXCEPT ![c] = r]
      BY <1>4, <2>5 DEF Offer, Answer
    <3>2. result \in MessageStates
      BY <2>1, <2>2 DEF InstanceType
    <3>3. r \in CallType /\ r.pc = "done" /\ r.message = m /\ r.result = result
      BY <1>1, <3>2 DEF CallType, NoEntry
    <3> QED BY <1>2, <2>1, <2>5, <3>1, <3>3, SameEvolves, CallKeeps
  <2> QED BY <2>3, <2>4, <2>5
<1> QED BY <1>3, <1>4

\* The handlers, timers and terminations of instances, but for the removal from the map.
LEMMA InstancesKeep ==
  ASSUME IInv, NEW i \in DOMAIN instance,
         \/ HandlerStep(i) \/ TimerSleepsAgain(i) \/ TimerExpires(i)
         \/ ForkShutdown(i) \/ CloseScope(i)
  PROVE  IInv'
<1> USE DEF IInv, PodTypeOK
<1>1. instance[i] \in InstanceType /\ instance[i].entity \in Entities
  <2>1. instance[i] \in InstanceType
    BY LenProperties, ElementOfSeq
  <2> QED BY <2>1 DEF InstanceType
<1>2. UNCHANGED <<entry, creator, call, local, shuttingDown, leaving, batch, stored, moves, crashes>>
  BY DEF HandlerStep, Handle, TakePoison, TimerSleepsAgain, TimerExpires, ForkShutdown, CloseScope,
         others
<1>3. CASE Handle(i)
  <2> DEFINE m == Head(instance[i].queue)
             r == Handled(i, m)
  <2>1. Tail(instance[i].queue) \in Seq(Messages \cup {PoisonPill}) /\ m \in Messages
    BY <1>1, <1>3, HeadTailProperties, SMTT(40) DEF Handle, InstanceType
  <2>2. [instance[i].states EXCEPT ![m] = "Processed"] \in [Messages -> MessageStates]
    BY <1>1, <2>1 DEF InstanceType, MessageStates
  <2>3. /\ r \in InstanceType /\ r.entity = instance[i].entity /\ r.handler = instance[i].handler
        /\ r.ending = instance[i].ending /\ r.late = instance[i].late
    BY <1>1, <2>1, <2>2 DEF InstanceType, Handled
  <2>4. instance' = [instance EXCEPT ![i] = r] /\ Live(i)
    BY <1>3 DEF Handle
  <2> HIDE DEF r
  <2>5. Evolves
    BY <2>3, <2>4, PutEvolves
  <2> QED BY <1>2, <2>5, InstanceKeeps
<1>4. CASE TakePoison(i)
  <2> DEFINE r == Ended(i)
  <2>1. Tail(instance[i].queue) \in Seq(Messages \cup {PoisonPill})
    BY <1>1, <1>4, HeadTailProperties DEF TakePoison, InstanceType
  <2>2. /\ r \in InstanceType /\ r.entity = instance[i].entity /\ r.handler = "ended"
        /\ r.ending = instance[i].ending /\ r.late = instance[i].late
    BY <1>1, <2>1 DEF InstanceType, Ended
  <2>3. instance' = [instance EXCEPT ![i] = r]
    BY <1>4 DEF TakePoison
  <2> HIDE DEF r
  <2>4. Evolves
    BY <2>2, <2>3, PutEvolves
  <2> QED BY <1>2, <2>4, InstanceKeeps
<1>5. CASE TimerSleepsAgain(i)
  <2> DEFINE r == [instance[i] EXCEPT !.touched = FALSE]
  <2>1. /\ r \in InstanceType /\ r.entity = instance[i].entity /\ r.handler = instance[i].handler
        /\ r.ending = instance[i].ending /\ r.late = instance[i].late
    BY <1>1 DEF InstanceType
  <2>2. Evolves
    BY <1>5, <2>1, PutEvolves DEF TimerSleepsAgain, Live
  <2> QED BY <1>2, <2>2, InstanceKeeps
<1>6. CASE CloseScope(i)
  <2> DEFINE r == Closed(i)
  <2>1. /\ r \in InstanceType /\ r.entity = instance[i].entity /\ r.handler = instance[i].handler
        /\ r.late = instance[i].late
    <3>1. Append(instance[i].queue, PoisonPill) \in Seq(Messages \cup {PoisonPill})
      BY <1>1 DEF InstanceType
    <3> QED BY <1>1, <3>1 DEF InstanceType, Closed
  <2>2. instance[i].ending = "begun" /\ instance' = [instance EXCEPT ![i] = r]
    BY <1>6 DEF CloseScope
  <2> HIDE DEF r
  <2>3. Evolves
    BY <2>1, <2>2, PutEvolves DEF Live
  <2> QED BY <1>2, <2>3, InstanceKeeps
<1>7. CASE ForkShutdown(i)
  BY <1>1, <1>2, <1>7, TerminatedEvolves, InstanceKeeps DEF ForkShutdown
<1>8. CASE TimerExpires(i) /\ ~Unlocked
  <2> DEFINE r == [instance[i] EXCEPT !.timer = "expired"]
  <2>1. /\ r \in InstanceType /\ r.entity = instance[i].entity /\ r.handler = instance[i].handler
        /\ r.ending = instance[i].ending /\ r.late = instance[i].late
    BY <1>1 DEF InstanceType
  <2>2. instance' = [instance EXCEPT ![i] = r]
    BY <1>8 DEF TimerExpires
  <2>3. Evolves
    BY <2>1, <2>2, PutEvolves DEF Live
  <2> QED BY <1>2, <2>3, InstanceKeeps
<1>9. CASE TimerExpires(i) /\ Unlocked
  <2> DEFINE s == Terminated(instance[i].entity)
             r == [s[i] EXCEPT !.timer = "stopped"]
  <2>1. /\ s \in Seq(InstanceType) /\ Len(s) = Len(instance) /\ DOMAIN s = DOMAIN instance
        /\ \A j \in DOMAIN instance :
             /\ s[j].entity = instance[j].entity /\ s[j].handler = instance[j].handler
             /\ s[j].late = instance[j].late
             /\ s[j].ending \in {"begun", "closing"} =>
                  instance[j].ending \in {"begun", "closing"} \/ Held(j)
    BY <1>1, TerminatedType
  <2>2. instance' = [s EXCEPT ![i] = r]
    BY <1>9 DEF TimerExpires
  <2> HIDE DEF s
  <2>3. s[i] \in InstanceType
    BY <2>1, LenProperties, ElementOfSeq
  <2>4. /\ r \in InstanceType /\ r.entity = s[i].entity /\ r.handler = s[i].handler
        /\ r.ending = s[i].ending /\ r.late = s[i].late
    BY <2>3 DEF InstanceType
  <2> HIDE DEF r
  <2>5. /\ instance' \in Seq(InstanceType) /\ Len(instance') = Len(s) /\ DOMAIN instance' = DOMAIN s
        /\ \A j \in DOMAIN s : instance'[j] = IF j = i THEN r ELSE s[j]
    BY <2>1, <2>2, <2>4, PutInstance
  <2>6. Evolves
    BY <2>1, <2>4, <2>5 DEF Evolves, Live
  <2> QED BY <1>2, <2>6, InstanceKeeps
<1> QED BY <1>3, <1>4, <1>5, <1>6, <1>7, <1>8, <1>9 DEF HandlerStep

\* An entity is created while the lock is held: at first it lives outside of the map.
LEMMA BeginCreateKeeps ==
  ASSUME IInv, NEW c \in Calls, BeginCreate(c)
  PROVE  IInv'
<1> DEFINE n == Len(instance) + 1
           e == Target(c)
           r == [call[c] EXCEPT !.pc = "creating", !.instance = n]
<1>1. PodTypeOK /\ CallsFit /\ LockHeld /\ EntriesFit /\ InstancesHeld /\ ShutdownFits
  BY DEF IInv
<1>2. /\ call[c].pc \in {"checking", "locating"} /\ creator = NoCall /\ entry[e] = NoEntry
      /\ ~shuttingDown /\ creator' = c /\ entry' = entry
      /\ UNCHANGED <<local, shuttingDown, leaving, batch, stored, moves, crashes>>
  BY DEF BeginCreate, Locating, AtCall, Unlocked, others
<1>3. e \in Entities /\ call[c] \in CallType /\ call[c].message \in Messages
  BY <1>1, <1>2 DEF Target, CallsFit, PodTypeOK
<1>4. instance' = Append(instance, Fresh(e)) /\ call' = [call EXCEPT ![c] = r]
  BY DEF BeginCreate
<1>5. Fresh(e) \in InstanceType /\ Fresh(e).entity = e /\ Fresh(e).ending = "no"
  <2>1. <<>> \in Seq(Messages \cup {PoisonPill}) /\ [m \in Messages |-> "none"] \in [Messages -> MessageStates]
    BY DEF MessageStates
  <2> QED BY <1>3, <2>1 DEF Fresh, InstanceType
<1>6. /\ instance \in Seq(InstanceType) /\ Len(instance) \in Nat
      /\ DOMAIN instance = 1..Len(instance)
  BY <1>1, LenProperties DEF PodTypeOK
<1>7. /\ instance' \in Seq(InstanceType) /\ Len(instance') = n
      /\ DOMAIN instance' = 1..n
      /\ \A i \in DOMAIN instance : instance'[i] = instance[i]
      /\ instance'[n] = Fresh(e)
  <2> HIDE DEF e
  <2>1. /\ instance' \in Seq(InstanceType) /\ Len(instance') = n
        /\ \A i \in 1..Len(instance) : instance'[i] = instance[i]
        /\ instance'[n] = Fresh(e)
    BY <1>4, <1>5, <1>6, AppendProperties
  <2> QED BY <1>6, <2>1, LenProperties
<1>8. r \in CallType /\ r.pc = "creating" /\ r.message = call[c].message /\ r.instance = n
  <2>1. n \in Nat
    BY <1>6
  <2> HIDE DEF n
  <2> QED BY <1>3, <2>1 DEF CallType
<1>9. call' \in [Calls -> CallType] /\ \A d \in Calls : call'[d] = IF d = c THEN r ELSE call[d]
  BY <1>1, <1>4, <1>8 DEF PodTypeOK
<1> HIDE DEF r
<1>10. PodTypeOK'
  BY <1>1, <1>2, <1>6, <1>7, <1>9 DEF PodTypeOK
<1>11. CallsFit'
  BY <1>1, <1>2, <1>3, <1>6, <1>7, <1>8, <1>9 DEF CallsFit
<1>12. LockHeld'
  BY <1>2, <1>5, <1>7, <1>8, <1>9 DEF LockHeld, AtCall, Target
<1>13. EntriesFit'
  BY <1>1, <1>2, <1>6, <1>7 DEF EntriesFit, PodTypeOK, NoEntry
<1>14. InstancesHeld'
  <2>1. ASSUME NEW i \in DOMAIN instance
        PROVE  /\ Live(i)' => Held(i)'
               /\ instance'[i].ending \in {"begun", "closing"} => Held(i)'
    BY <1>1, <1>2, <1>7 DEF InstancesHeld, Live, Held
  <2>2. creator' # NoCall /\ call'[creator'].instance = n
    BY <1>2, <1>8, <1>9
  <2>3. n \in DOMAIN instance' /\ instance'[n].ending = "no"
    BY <1>5, <1>6, <1>7
  <2> QED BY <1>6, <1>7, <2>1, <2>2, <2>3 DEF InstancesHeld
<1>15. ShutdownFits'
  BY <1>1, <1>2 DEF ShutdownFits
<1> QED BY <1>10, <1>11, <1>12, <1>13, <1>14, <1>15 DEF IInv

\* The entity that was created enters the map, where its entity had none.
LEMMA FinishCreateKeeps ==
  ASSUME IInv, NEW c \in Calls, FinishCreate(c)
  PROVE  IInv'
<1> DEFINE n == call[c].instance
           e == Target(c)
           pc == IF Persisted THEN "storing" ELSE "offering"
           r == [call[c] EXCEPT !.pc = pc]
<1>1. PodTypeOK /\ CallsFit /\ LockHeld /\ EntriesFit /\ InstancesHeld /\ ShutdownFits
  BY DEF IInv
<1>2. call[c].pc = "creating" /\ call[c] \in CallType /\ call[c].message \in Messages /\ e \in Entities
  BY <1>1 DEF FinishCreate, AtCall, PodTypeOK, CallsFit, Target
<1>3. /\ creator = c /\ c # NoCall /\ n \in DOMAIN instance
      /\ instance[n].entity = e /\ entry[e] = NoEntry
  BY <1>1, <1>2 DEF CallsFit, LockHeld
<1>4. /\ entry' = [entry EXCEPT ![e] = n] /\ creator' = NoCall /\ call' = [call EXCEPT ![c] = r]
      /\ UNCHANGED <<local, shuttingDown, instance, stored, leaving, batch, moves, crashes>>
  BY DEF FinishCreate, To, others
<1>5. DOMAIN instance = 1..Len(instance) /\ Len(instance) \in Nat
  BY <1>1, LenProperties DEF PodTypeOK
<1>6. \A f \in Entities : entry'[f] = IF f = e THEN n ELSE entry[f]
  BY <1>1, <1>4 DEF PodTypeOK
<1>7. r \in CallType /\ r.pc = pc /\ r.message = call[c].message /\ r.instance = n /\ pc \in {"storing", "offering"}
  BY <1>2 DEF CallType
<1>8. call' \in [Calls -> CallType] /\ \A d \in Calls : call'[d] = IF d = c THEN r ELSE call[d]
  BY <1>1, <1>4, <1>7 DEF PodTypeOK
<1> HIDE DEF n, e, pc, r
<1>9. PodTypeOK'
  <2>1. entry \in [Entities -> 0..Len(instance)]
    BY <1>1 DEF PodTypeOK
  <2>2. n \in 0..Len(instance)
    BY <1>3, <1>5
  <2>3. entry' \in [Entities -> 0..Len(instance)]
    BY <1>4, <2>1, <2>2
  <2> QED BY <1>1, <1>4, <1>8, <2>3 DEF PodTypeOK
<1>10. CallsFit'
  BY <1>1, <1>2, <1>3, <1>4, <1>7, <1>8 DEF CallsFit
<1>11. LockHeld'
  BY <1>4 DEF LockHeld
<1>12. EntriesFit'
  BY <1>1, <1>3, <1>4, <1>6 DEF EntriesFit
<1>13. InstancesHeld'
  <2>1. \A i \in DOMAIN instance : Held(i) => Held(i)'
    <3>1. ASSUME NEW i \in DOMAIN instance, Held(i) PROVE Held(i)'
      <4>1. instance[i] \in InstanceType /\ instance[i].entity \in Entities
        <5>1. instance[i] \in InstanceType
          BY <1>1, <1>5, ElementOfSeq DEF PodTypeOK
        <5> QED BY <5>1 DEF InstanceType
      <4>2. entry[instance[i].entity] = i /\ i # NoEntry
        BY <1>5, <3>1 DEF Held, NoEntry
      <4> QED BY <1>3, <1>4, <1>6, <4>1, <4>2 DEF Held
    <3> QED BY <3>1
  <2>2. entry'[instance[n].entity] = n
    BY <1>2, <1>3, <1>6
  <2>3. call[creator].instance = n
    BY <1>3 DEF n
  <2>4. ASSUME NEW i \in DOMAIN instance
        PROVE  /\ Live(i)' => Held(i)'
               /\ instance'[i].ending \in {"begun", "closing"} => Held(i)'
    <3>1. Live(i) => Held(i) \/ i = n
      BY <1>1, <2>3 DEF InstancesHeld
    <3>2. i = n => Held(i)'
      BY <1>4, <2>2 DEF Held
    <3>3. instance'[i].ending \in {"begun", "closing"} => Held(i)
      BY <1>1, <1>4 DEF InstancesHeld
    <3> QED BY <1>4, <2>1, <3>1, <3>2, <3>3 DEF Live
  <2> QED BY <1>4, <2>4 DEF InstancesHeld
<1>14. ShutdownFits'
  BY <1>1, <1>4 DEF ShutdownFits, Live
<1> QED BY <1>9, <1>10, <1>11, <1>12, <1>13, <1>14 DEF IInv

\* Only an instance that is in the map and has ended is removed.
LEMMA RemoveKeeps ==
  ASSUME IInv, NEW i \in DOMAIN instance, RemoveEntity(i)
  PROVE  IInv'
<1> DEFINE e == instance[i].entity
           r == [instance[i] EXCEPT !.ending = "removed"]
<1>1. PodTypeOK /\ CallsFit /\ LockHeld /\ EntriesFit /\ InstancesHeld /\ ShutdownFits
  BY DEF IInv
<1>2. /\ instance[i].ending = "closing" /\ ~Live(i) /\ creator = NoCall
      /\ instance' = [instance EXCEPT ![i] = r] /\ entry' = [entry EXCEPT ![e] = NoEntry]
      /\ UNCHANGED <<local, shuttingDown, creator, call, stored, leaving, batch, moves, crashes>>
  BY DEF RemoveEntity, Unlocked, others
<1>3. /\ instance \in Seq(InstanceType) /\ DOMAIN instance = 1..Len(instance)
      /\ Len(instance) \in Nat
  BY <1>1, LenProperties DEF PodTypeOK
<1>4. instance[i] \in InstanceType /\ e \in Entities
  <2>1. instance[i] \in InstanceType
    BY <1>3, ElementOfSeq
  <2> QED BY <2>1 DEF InstanceType
<1>5. /\ r \in InstanceType /\ r.entity = e /\ r.handler = instance[i].handler
      /\ r.ending = "removed" /\ r.late = instance[i].late
  BY <1>4 DEF InstanceType
<1> HIDE DEF r
<1>6. /\ instance' \in Seq(InstanceType) /\ Len(instance') = Len(instance)
      /\ DOMAIN instance' = DOMAIN instance
      /\ \A j \in DOMAIN instance : instance'[j] = IF j = i THEN r ELSE instance[j]
  BY <1>2, <1>3, <1>5, PutInstance
<1>7. Held(i) /\ entry[e] = i
  BY <1>1, <1>2 DEF InstancesHeld, Held
<1>8. \A f \in Entities : entry'[f] = IF f = e THEN NoEntry ELSE entry[f]
  BY <1>1, <1>2 DEF PodTypeOK
<1> HIDE DEF e
<1>9. \A j \in DOMAIN instance :
        /\ instance'[j].entity = instance[j].entity /\ instance'[j].late = instance[j].late
        /\ Live(j)' <=> Live(j)
  BY <1>5, <1>6 DEF Live, e
<1>10. PodTypeOK'
  <2>1. entry \in [Entities -> 0..Len(instance)]
    BY <1>1 DEF PodTypeOK
  <2>2. NoEntry \in 0..Len(instance)
    BY <1>3 DEF NoEntry
  <2>3. entry' \in [Entities -> 0..Len(instance)]
    BY <1>2, <2>1, <2>2
  <2> QED BY <1>1, <1>2, <1>6, <2>3 DEF PodTypeOK
<1>11. CallsFit'
  BY <1>1, <1>2, <1>6 DEF CallsFit
<1>12. LockHeld'
  BY <1>2 DEF LockHeld
<1>13. EntriesFit'
  <2>1. \A f \in Entities : entry[f] # NoEntry => entry[f] \in DOMAIN instance
    BY <1>1, <1>3 DEF PodTypeOK, NoEntry
  <2> QED BY <1>1, <1>8, <1>9, <2>1 DEF EntriesFit
<1>14. InstancesHeld'
  <2>1. ASSUME NEW j \in DOMAIN instance, j # i, Held(j) PROVE Held(j)'
    <3>1. instance[j].entity \in Entities
      <4>1. instance[j] \in InstanceType
        BY <1>3, ElementOfSeq
      <4> QED BY <4>1 DEF InstanceType
    <3> QED BY <1>6, <1>7, <1>8, <2>1, <3>1 DEF Held
  <2>2. ASSUME NEW j \in DOMAIN instance, j # i
        PROVE  /\ Live(j)' => Held(j)'
               /\ instance'[j].ending \in {"begun", "closing"} => Held(j)'
    BY <1>1, <1>2, <1>6, <1>9, <2>1, <2>2 DEF InstancesHeld
  <2>3. ~Live(i)' /\ instance'[i].ending = "removed"
    BY <1>2, <1>5, <1>6, <1>9
  <2> QED BY <1>6, <2>2, <2>3 DEF InstancesHeld
<1>15. ShutdownFits'
  BY <1>1, <1>2, <1>6, <1>9 DEF ShutdownFits
<1> QED BY <1>10, <1>11, <1>12, <1>13, <1>14, <1>15 DEF IInv

\* The steps of unregister.
LEMMA ShutdownKeeps ==
  ASSUME IInv, BeginShutdown \/ ShutdownStep
  PROVE  IInv'
<1>1. PodTypeOK /\ CallsFit /\ LockHeld /\ EntriesFit /\ InstancesHeld /\ ShutdownFits
  BY DEF IInv
<1>2. DOMAIN instance = 1..Len(instance) /\ \A i \in DOMAIN instance : instance[i].entity \in Entities
  <2>1. DOMAIN instance = 1..Len(instance)
    BY <1>1, LenProperties DEF PodTypeOK
  <2>2. \A i \in DOMAIN instance : instance[i] \in InstanceType
    BY <1>1, <2>1, ElementOfSeq DEF PodTypeOK
  <2> QED BY <2>1, <2>2 DEF InstanceType
<1>3. ASSUME Evolves, UNCHANGED <<local, entry, creator, call, batch, stored, moves, crashes>>,
             leaving' \in [pc : {"no", "terminating", "awaiting", "unregistered"}, rest : SUBSET Entities,
                           current : Entities \cup {NoEntity}, timedOut : BOOLEAN],
             shuttingDown' \in BOOLEAN, ShutdownFits'
      PROVE  IInv'
  <2>1. CallsFit' /\ Quiet
    BY <1>1, <1>3, CallsStay
  <2>2. LockHeld' /\ EntriesFit' /\ InstancesHeld'
    BY <1>1, <2>1, QuietKeeps
  <2>3. PodTypeOK'
    BY <1>1, <1>3 DEF PodTypeOK, Evolves
  <2> QED BY <1>3, <2>1, <2>2, <2>3 DEF IInv
<1>4. CASE BeginShutdown
  <2>1. /\ shuttingDown' = TRUE
        /\ leaving' = [leaving EXCEPT !.pc = "terminating", !.rest = {e \in Entities : entry[e] # NoEntry}]
        /\ UNCHANGED <<local, entry, creator, call, batch, stored, moves, crashes>>
    BY <1>4 DEF BeginShutdown
  <2>2. CASE Unlocked
    <3>1. instance' = instance /\ Evolves
      BY <1>1, <1>4, <2>2, SameEvolves DEF BeginShutdown, PodTypeOK
    <3>2. \A i \in DOMAIN instance : Live(i) => entry[instance[i].entity] # NoEntry
      BY <1>1, <1>2, <2>2 DEF InstancesHeld, Held, Unlocked, NoEntry
    <3>3. leaving' \in [pc : {"terminating"}, rest : {{e \in Entities : entry[e] # NoEntry}},
                        current : Entities \cup {NoEntity}, timedOut : BOOLEAN]
      BY <1>1, <2>1 DEF PodTypeOK
    <3>4. ShutdownFits'
      BY <1>2, <2>1, <2>2, <3>1, <3>2, <3>3 DEF ShutdownFits, Live, Unlocked
    <3> QED BY <1>3, <2>1, <3>1, <3>3, <3>4
  <2>3. CASE ~Unlocked
    <3> DEFINE k == call[creator].instance
               r == [instance[k] EXCEPT !.late = TRUE]
    <3>1. k \in DOMAIN instance /\ creator # NoCall /\ creator \in Calls
      BY <1>1, <2>3 DEF Unlocked, PodTypeOK, LockHeld, CallsFit, AtCall
    <3>2. instance[k] \in InstanceType /\ instance \in Seq(InstanceType)
      BY <1>1, <1>2, <3>1, ElementOfSeq DEF PodTypeOK
    <3>3. /\ r \in InstanceType /\ r.entity = instance[k].entity /\ r.handler = instance[k].handler
          /\ r.ending = instance[k].ending /\ r.late = TRUE
      BY <3>2 DEF InstanceType
    <3>4. instance' = [instance EXCEPT ![k] = r]
      BY <1>4, <2>3 DEF BeginShutdown
    <3> HIDE DEF r
    <3>5. Evolves /\ instance'[k].late
      BY <3>1, <3>2, <3>3, <3>4, PutEvolves, PutInstance DEF Live
    <3>6. \A i \in DOMAIN instance : Live(i) => entry[instance[i].entity] # NoEntry \/ i = k
      BY <1>1, <1>2 DEF InstancesHeld, Held, NoEntry
    <3>7. leaving' \in [pc : {"terminating"}, rest : {{e \in Entities : entry[e] # NoEntry}},
                        current : Entities \cup {NoEntity}, timedOut : BOOLEAN]
      BY <1>1, <2>1 DEF PodTypeOK
    <3>8. call'[creator'].instance = k
      BY <2>1
    <3> HIDE DEF k
    <3>9. \A i \in DOMAIN instance' : Live(i)' =>
            instance'[i].late \/ instance'[i].entity \in leaving'.rest
      BY <1>2, <3>5, <3>6, <3>7 DEF Evolves
    <3>10. ShutdownFits'
      BY <2>1, <3>5, <3>7, <3>8, <3>9 DEF ShutdownFits
    <3> QED BY <1>3, <2>1, <3>5, <3>7, <3>10
  <2> QED BY <2>2, <2>3
<1>5. ASSUME NEW e \in Entities, TerminateEntity(e) PROVE IInv'
  <2>1. /\ leaving.pc = "terminating" /\ e \in leaving.rest /\ instance' = Terminated(e)
        /\ leaving' = [leaving EXCEPT !.pc = "awaiting", !.rest = @ \ {e}, !.current = e]
        /\ UNCHANGED <<local, shuttingDown, entry, creator, call, batch, stored, moves, crashes>>
    BY <1>5 DEF TerminateEntity
  <2>2. Evolves
    BY <1>1, <2>1, TerminatedEvolves
  <2>3. /\ leaving' \in [pc : {"awaiting"}, rest : SUBSET Entities, current : {e}, timedOut : {leaving.timedOut}]
        /\ leaving'.rest = leaving.rest \ {e} /\ leaving.timedOut \in BOOLEAN
    BY <1>1, <2>1 DEF PodTypeOK
  <2>4. creator # NoCall => call[creator].instance \in DOMAIN instance
    BY <1>1 DEF PodTypeOK, LockHeld, CallsFit, AtCall
  <2>5. ShutdownFits'
    BY <1>1, <2>1, <2>2, <2>3, <2>4 DEF ShutdownFits, Evolves, Live
  <2>6. leaving' \in [pc : {"no", "terminating", "awaiting", "unregistered"}, rest : SUBSET Entities,
                     current : Entities \cup {NoEntity}, timedOut : BOOLEAN]
    BY <2>3
  <2> QED BY <1>1, <1>3, <2>1, <2>2, <2>5, <2>6 DEF PodTypeOK
<1>6. CASE AwaitTermination
  <2> DEFINE timedOut == leaving.timedOut \/ entry[leaving.current] # NoEntry
  <2>1. /\ leaving.pc = "awaiting" /\ instance' = instance
        /\ leaving' = [leaving EXCEPT !.pc = "terminating", !.current = NoEntity, !.timedOut = timedOut]
        /\ UNCHANGED <<local, shuttingDown, entry, creator, call, batch, stored, moves, crashes>>
    BY <1>6 DEF AwaitTermination
  <2>2. Evolves
    BY <1>1, <2>1, SameEvolves DEF PodTypeOK
  <2>3. timedOut \in BOOLEAN /\ leaving.current \in Entities /\ shuttingDown
    BY <1>1, <2>1 DEF PodTypeOK, ShutdownFits
  <2>4. /\ leaving' \in [pc : {"terminating"}, rest : SUBSET Entities, current : {NoEntity}, timedOut : {timedOut}]
        /\ leaving'.rest = leaving.rest
    BY <1>1, <2>1 DEF PodTypeOK
  <2>5. \A i \in DOMAIN instance : Live(i) => Held(i) \/ instance[i].late
    BY <1>1, <2>3 DEF InstancesHeld, ShutdownFits
  <2>6. \A i \in DOMAIN instance : (Held(i) /\ instance[i].entity = leaving.current) => timedOut
    BY <1>2 DEF Held, NoEntry
  <2> HIDE DEF timedOut
  <2>7. \A i \in DOMAIN instance : Live(i) => instance[i].late \/ timedOut \/ instance[i].entity \in leaving.rest
    <3>1. leaving.timedOut => timedOut
      BY DEF timedOut
    <3> QED BY <1>1, <2>1, <2>3, <2>5, <2>6, <3>1 DEF ShutdownFits
  <2>8. leaving'.pc = "terminating" /\ leaving'.timedOut = timedOut
    BY <2>4
  <2>9. ShutdownFits'
    BY <1>1, <2>1, <2>3, <2>4, <2>7, <2>8 DEF ShutdownFits, Live
  <2>10. leaving' \in [pc : {"no", "terminating", "awaiting", "unregistered"}, rest : SUBSET Entities,
                      current : Entities \cup {NoEntity}, timedOut : BOOLEAN]
    BY <2>3, <2>4
  <2> QED BY <1>1, <1>3, <2>1, <2>2, <2>9, <2>10 DEF PodTypeOK
<1>7. CASE EndShutdown
  <2>1. /\ leaving.pc = "terminating" /\ leaving.rest = {} /\ instance' = instance
        /\ leaving' = [leaving EXCEPT !.pc = "unregistered"]
        /\ UNCHANGED <<local, shuttingDown, entry, creator, call, batch, stored, moves, crashes>>
    BY <1>7 DEF EndShutdown
  <2>2. Evolves
    BY <1>1, <2>1, SameEvolves DEF PodTypeOK
  <2>3. leaving' \in [pc : {"unregistered"}, rest : SUBSET Entities, current : Entities \cup {NoEntity},
                      timedOut : {leaving.timedOut}] /\ leaving.timedOut \in BOOLEAN
    BY <1>1, <2>1 DEF PodTypeOK
  <2>4. ShutdownFits'
    BY <1>1, <2>1, <2>3 DEF ShutdownFits, Live
  <2>5. leaving' \in [pc : {"no", "terminating", "awaiting", "unregistered"}, rest : SUBSET Entities,
                      current : Entities \cup {NoEntity}, timedOut : BOOLEAN]
    BY <2>3
  <2> QED BY <1>1, <1>3, <2>1, <2>2, <2>4, <2>5 DEF PodTypeOK
<1> QED BY <1>4, <1>5, <1>6, <1>7 DEF ShutdownStep

\* The steps of the sweeper.
LEMMA SweepKeeps ==
  ASSUME IInv, SweepStep
  PROVE  IInv'
<1> USE DEF IInv, PodTypeOK
<1>1. CASE Sweep
  <2>1. /\ instance' = instance /\ batch' \subseteq Messages
        /\ UNCHANGED <<local, shuttingDown, entry, creator, instance, call, leaving, stored, moves, crashes>>
    BY <1>1 DEF Sweep
  <2>2. call' = [call EXCEPT ![Sweeper] = call[Sweeper]] /\ Evolves
    BY <2>1, SameEvolves
  <2>3. /\ Sweeper \in Calls /\ call[Sweeper].pc = "idle" /\ ~AtCall(Sweeper, "creating")
        /\ call[Sweeper] \in CallType
    BY <1>1 DEF Sweep, AtCall, Calls
  <2> QED BY <2>1, <2>2, <2>3, CallKeeps
<1>2. ASSUME NEW m \in Messages, SweepMessage(m) PROVE IInv'
  <2> DEFINE r == [Idle EXCEPT !.pc = "checking", !.message = m]
  <2>1. /\ r \in CallType /\ r.pc = "checking" /\ r.message \in Messages
        /\ Sweeper \in Calls /\ ~AtCall(Sweeper, "creating")
    BY <1>2 DEF SweepMessage, AtCall, Calls, Idle, CallType, MessageStates, NoEntry
  <2>2. /\ instance' = instance /\ batch' \subseteq Messages /\ call' = [call EXCEPT ![Sweeper] = r]
        /\ UNCHANGED <<local, shuttingDown, entry, creator, leaving, stored, moves, crashes>>
    BY <1>2 DEF SweepMessage
  <2> HIDE DEF r
  <2> QED BY <2>1, <2>2, SameEvolves, CallKeeps
<1>3. CASE SweptMessage
  <2>1. /\ Idle \in CallType /\ Idle.pc = "idle" /\ Sweeper \in Calls /\ ~AtCall(Sweeper, "creating")
    BY <1>3 DEF SweptMessage, AtCall, Calls, Idle, CallType, MessageStates, NoEntry
  <2>2. /\ instance' = instance /\ batch' \subseteq Messages /\ call' = [call EXCEPT ![Sweeper] = Idle]
        /\ UNCHANGED <<local, shuttingDown, entry, creator, leaving, stored, moves, crashes>>
    BY <1>3 DEF SweptMessage
  <2> QED BY <2>1, <2>2, SameEvolves, CallKeeps
<1> QED BY <1>1, <1>2, <1>3 DEF SweepStep

\* The shards of the pod move: nothing is said of them.
LEMMA MoveKeeps ==
  ASSUME IInv, NEW e \in Entities, Move(e)
  PROVE  IInv'
<1>1. /\ moves' \in 0..MaxMoves /\ local' \subseteq Entities
      /\ UNCHANGED <<shuttingDown, entry, creator, instance, call, leaving, batch, stored, crashes>>
  BY DEF Move, IInv, PodTypeOK
<1>2. PodTypeOK'
  BY <1>1 DEF IInv, PodTypeOK
<1>3. /\ CallsFit' = CallsFit /\ LockHeld' = LockHeld /\ EntriesFit' = EntriesFit
      /\ InstancesHeld' = InstancesHeld /\ ShutdownFits' = ShutdownFits
  BY <1>1 DEF CallsFit, LockHeld, EntriesFit, InstancesHeld, ShutdownFits, AtCall, Target, Live, Held
<1> QED BY <1>2, <1>3 DEF IInv

\* After a crash there are no instances and no calls.
LEMMA CrashKeeps ==
  ASSUME IInv, Crash
  PROVE  IInv'
<1>1. /\ instance' \in Seq(InstanceType) /\ Len(instance') = 0 /\ DOMAIN instance' = {}
  BY EmptySeq, LenProperties DEF Crash
<1>2. call' \in [Calls -> CallType] /\ \A c \in Calls : call'[c].pc = "idle"
  BY DEF Crash, Idle, CallType, MessageStates, NoEntry
<1>3. /\ shuttingDown' = FALSE /\ batch' = {} /\ creator' = NoCall /\ leaving' = NotLeaving
      /\ entry' = [e \in Entities |-> 0] /\ UNCHANGED <<local, stored, moves>>
      /\ crashes < MaxCrashes /\ crashes' = crashes + 1
  BY DEF Crash, NoEntry
<1>4. PodTypeOK'
  <2>1. entry' \in [Entities -> 0..Len(instance')]
    BY <1>1, <1>3
  <2>2. leaving' \in [pc : {"no", "terminating", "awaiting", "unregistered"},
                      rest : SUBSET Entities, current : Entities \cup {NoEntity}, timedOut : BOOLEAN]
    BY <1>3 DEF NotLeaving
  <2>3. /\ local \subseteq Entities /\ stored \in [Messages -> {"none", "pending", "processed"}]
        /\ moves \in 0..MaxMoves /\ crashes' \in 0..MaxCrashes
    BY <1>3 DEF IInv, PodTypeOK
  <2> QED BY <1>1, <1>2, <1>3, <2>1, <2>2, <2>3 DEF PodTypeOK
<1>5. leaving'.pc = "no"
  BY <1>3 DEF NotLeaving
<1> QED BY <1>1, <1>2, <1>3, <1>4, <1>5
     DEF IInv, CallsFit, LockHeld, EntriesFit, InstancesHeld, ShutdownFits, NoEntry

LEMMA NextKeeps == IInv /\ [Next]_vars => IInv'
<1> SUFFICES ASSUME IInv, [Next]_vars PROVE IInv'
  OBVIOUS
<1>1. ASSUME NEW c \in Senders, Send(c) \/ SendAgain(c) PROVE IInv'
  BY <1>1, CallsKeep DEF Calls
<1>2. ASSUME NEW c \in Calls, CallStep(c) PROVE IInv'
  BY <1>2, CallsKeep, CallsOnInstancesKeep, BeginCreateKeeps, FinishCreateKeeps DEF CallStep
<1>3. ASSUME NEW i \in DOMAIN instance, InstanceStep(i) PROVE IInv'
  BY <1>3, InstancesKeep, RemoveKeeps DEF InstanceStep, EndStep
<1>4. CASE UNCHANGED vars
  BY <1>4 DEF vars, IInv, PodTypeOK, CallsFit, LockHeld, EntriesFit, InstancesHeld, ShutdownFits,
              AtCall, Target, Live, Held
<1> QED BY <1>1, <1>2, <1>3, <1>4, MoveKeeps, ShutdownKeeps, SweepKeeps, CrashKeeps DEF Next

LEMMA Inductive == Spec => []IInv
BY InitInv, NextKeeps, PTL DEF Spec

\* An instance that lives is either the one in the map or the one under creation, which is
\* only begun when the map has none.
LEMMA AtMostOne == IInv => OneInstance
<1> SUFFICES ASSUME IInv, NEW i \in DOMAIN instance, NEW j \in DOMAIN instance,
                    i # j, Live(i), Live(j), instance[i].entity = instance[j].entity
             PROVE  FALSE
  BY DEF OneInstance
<1>1. /\ Held(i) \/ (creator # NoCall /\ call[creator].instance = i)
      /\ Held(j) \/ (creator # NoCall /\ call[creator].instance = j)
  BY DEF IInv, InstancesHeld
<1>2. ASSUME NEW k \in DOMAIN instance, NEW l \in DOMAIN instance,
             Held(k), creator # NoCall, call[creator].instance = l,
             instance[k].entity = instance[l].entity
      PROVE  FALSE
  <2>1. entry[instance[k].entity] = NoEntry
    BY <1>2 DEF IInv, LockHeld
  <2>2. k # NoEntry
    BY LenProperties DEF IInv, PodTypeOK, NoEntry
  <2> QED BY <1>2, <2>1, <2>2 DEF Held
<1>3. ~(Held(i) /\ Held(j))
  BY DEF Held
<1> QED BY <1>1, <1>2, <1>3
----------------------------------------------------------------------------
(* Theorems.                                                               *)

\* A pod never runs two instances of one entity (getOrCreateEntityState, terminateEntity),
\* whatever expires, ends itself or is created again meanwhile.
THEOREM NeverTwoInstances == Spec => []OneInstance
BY AtMostOne, Inductive, PTL

\* After unregister an entity lives only if its termination timed out or its creation was
\* under way when the shutdown began (terminateAllEntities reads the map without the lock).
THEOREM ShutdownLeavesNone == Spec => []NoneLeftBehind
<1>1. IInv => NoneLeftBehind
  BY DEF IInv, ShutdownFits, NoneLeftBehind
<1> QED BY <1>1, Inductive, PTL
----------------------------------------------------------------------------
(* The refinement of EntityLife.                                          *)

\* A message is in the queue of an instance once, and as long as it is acknowledged.
QueueFits(r) ==
  \A k \in DOMAIN r.queue : r.queue[k] # PoisonPill =>
    /\ r.states[r.queue[k]] = "Acknowledged"
    /\ \A l \in DOMAIN r.queue : r.queue[l] = r.queue[k] => l = k

QueuesFit == \A i \in DOMAIN instance : QueueFits(instance[i])

RInv == IInv /\ QueuesFit
----------------------------------------------------------------------------
(* Queues.                                                                 *)

QueueType == Seq(Messages \cup {PoisonPill})

LEMMA QueueReceives ==
  ASSUME NEW r \in InstanceType, NEW m \in Messages, r.states[m] = "none", QueueFits(r)
  PROVE  QueueFits([r EXCEPT !.queue = Append(@, m), !.states[m] = "Acknowledged"])
<1> DEFINE q == r.queue
           t == [r EXCEPT !.queue = Append(@, m), !.states[m] = "Acknowledged"]
<1>1. q \in QueueType /\ r.states \in [Messages -> MessageStates]
  BY DEF InstanceType, QueueType
<1>2. /\ DOMAIN q = 1..Len(q) /\ Len(q) \in Nat /\ DOMAIN Append(q, m) = 1..(Len(q) + 1)
      /\ \A k \in 1..Len(q) : Append(q, m)[k] = q[k] /\ q[k] \in Messages \cup {PoisonPill}
      /\ Append(q, m)[Len(q) + 1] = m
  BY <1>1, AppendProperties, LenProperties, ElementOfSeq DEF QueueType
<1>3. t.queue = Append(q, m) /\ t.states = [r.states EXCEPT ![m] = "Acknowledged"]
  BY DEF InstanceType
<1>4. \A k \in 1..Len(q) : q[k] # m
  BY <1>2 DEF QueueFits
<1> QED BY <1>1, <1>2, <1>3, <1>4 DEF QueueFits

LEMMA QueueWithPoison ==
  ASSUME NEW r \in InstanceType, QueueFits(r), NEW t, t.queue = Append(r.queue, PoisonPill),
         t.states = r.states
  PROVE  QueueFits(t)
<1> DEFINE q == r.queue
<1>1. q \in QueueType
  BY DEF InstanceType, QueueType
<1>2. /\ DOMAIN q = 1..Len(q) /\ Len(q) \in Nat /\ DOMAIN Append(q, PoisonPill) = 1..(Len(q) + 1)
      /\ \A k \in 1..Len(q) : Append(q, PoisonPill)[k] = q[k]
      /\ Append(q, PoisonPill)[Len(q) + 1] = PoisonPill
  BY <1>1, AppendProperties, LenProperties DEF QueueType
<1> QED BY <1>1, <1>2 DEF QueueFits

\* The message at the head is taken; if it is processed, it was there only once.
LEMMA QueueTakes ==
  ASSUME NEW r \in InstanceType, QueueFits(r), r.queue # <<>>, NEW t, t.queue = Tail(r.queue),
         \A m \in Messages : m # Head(r.queue) => t.states[m] = r.states[m],
         Head(r.queue) # PoisonPill \/ t.states = r.states
  PROVE  QueueFits(t)
<1> DEFINE q == r.queue
<1>1. q \in QueueType
  BY DEF InstanceType, QueueType
<1>2. /\ DOMAIN q = 1..Len(q) /\ Len(q) \in Nat /\ Len(q) >= 1 /\ Head(q) = q[1]
      /\ DOMAIN Tail(q) = 1..(Len(q) - 1)
      /\ \A k \in 1..(Len(q) - 1) : Tail(q)[k] = q[k + 1]
      /\ \A k \in 1..Len(q) : q[k] \in Messages \cup {PoisonPill}
  BY <1>1, HeadTailProperties, LenProperties, ElementOfSeq, EmptySeq DEF QueueType
<1>3. ASSUME NEW k \in 1..(Len(q) - 1), q[k + 1] # PoisonPill
      PROVE  /\ t.states[q[k + 1]] = "Acknowledged"
             /\ \A l \in 1..(Len(q) - 1) : q[l + 1] = q[k + 1] => l = k
  <2>1. k + 1 \in 1..Len(q) /\ 1 \in 1..Len(q) /\ k + 1 # 1 /\ q[k + 1] \in Messages
    BY <1>2, <1>3
  <2>2. q[k + 1] # q[1]
    BY <1>2, <1>3, <2>1 DEF QueueFits
  <2>3. r.states[q[k + 1]] = "Acknowledged"
    BY <1>2, <1>3, <2>1 DEF QueueFits
  <2>4. \A l \in 1..(Len(q) - 1) : l + 1 \in 1..Len(q)
    BY <1>2
  <2> QED BY <1>2, <1>3, <2>1, <2>2, <2>3, <2>4 DEF QueueFits
<1>4. DOMAIN t.queue = 1..(Len(q) - 1) /\ \A k \in 1..(Len(q) - 1) : t.queue[k] = q[k + 1]
  BY <1>2
<1> HIDE DEF q
<1>5. ASSUME NEW k \in DOMAIN t.queue, t.queue[k] # PoisonPill
      PROVE  /\ t.states[t.queue[k]] = "Acknowledged"
             /\ \A l \in DOMAIN t.queue : t.queue[l] = t.queue[k] => l = k
  BY <1>3, <1>4, <1>5
<1> QED BY <1>5 DEF QueueFits
----------------------------------------------------------------------------
(* What a step does to the instances.                                      *)

\* Nothing that concerns the messages of an instance, or its life.
Alike(t, r) == t.entity = r.entity /\ t.handler = r.handler /\ t.queue = r.queue /\ t.states = r.states

InstancesStay ==
  DOMAIN instance' = DOMAIN instance /\ \A j \in DOMAIN instance : Alike(instance'[j], instance[j])

\* t takes the place of instance i.
Becomes(i, t) ==
  /\ DOMAIN instance' = DOMAIN instance
  /\ \A j \in DOMAIN instance : instance'[j] = IF j = i THEN t ELSE instance[j]

LEMMA PutBecomes ==
  ASSUME PodTypeOK, NEW i \in DOMAIN instance, NEW t, instance' = [instance EXCEPT ![i] = t]
  PROVE  Becomes(i, t)
BY LenProperties DEF PodTypeOK, Becomes

LEMMA BecomesAlike ==
  ASSUME NEW i \in DOMAIN instance, NEW t, Becomes(i, t), Alike(t, instance[i])
  PROVE  InstancesStay
BY DEF Becomes, InstancesStay, Alike

LEMMA InstancesTyped ==
  ASSUME PodTypeOK, NEW i \in DOMAIN instance
  PROVE  instance[i] \in InstanceType /\ instance[i].entity \in Entities
<1>1. instance[i] \in InstanceType
  BY LenProperties, ElementOfSeq DEF PodTypeOK
<1> QED BY <1>1 DEF InstanceType

LEMMA TerminatedAlike ==
  ASSUME PodTypeOK, NEW e \in Entities
  PROVE  /\ DOMAIN Terminated(e) = DOMAIN instance
         /\ \A j \in DOMAIN instance : Alike(Terminated(e)[j], instance[j])
<1>1. CASE Terminated(e) = instance
  BY <1>1 DEF Alike
<1>2. CASE entry[e] # NoEntry /\ Terminated(e) = [instance EXCEPT ![entry[e]].ending = "begun"]
  <2>1. entry[e] \in DOMAIN instance
    BY <1>2, LenProperties DEF PodTypeOK, NoEntry
  <2>2. instance[entry[e]] \in InstanceType
    BY <2>1, InstancesTyped
  <2> QED BY <1>2, <2>1, <2>2 DEF Alike, InstanceType
<1> QED BY <1>1, <1>2 DEF Terminated

\* The steps that leave the queues and the lives alone.
LEMMA StayingSteps ==
  ASSUME PodTypeOK, CallsFit, LockHeld, EntriesFit,
         \/ \E c \in Calls : LocateFound(c) \/ FinishCreate(c)
         \/ \E i \in DOMAIN instance :
              TimerSleepsAgain(i) \/ TimerExpires(i) \/ ForkShutdown(i) \/ RemoveEntity(i)
         \/ BeginShutdown \/ \E e \in Entities : TerminateEntity(e)
         \/ instance' = instance
  PROVE  InstancesStay
<1>1. ASSUME NEW i \in DOMAIN instance, NEW t, instance' = [instance EXCEPT ![i] = t],
             Alike(t, instance[i])
      PROVE  InstancesStay
  BY <1>1, PutBecomes, BecomesAlike
<1>2. ASSUME NEW e \in Entities, instance' = Terminated(e) PROVE InstancesStay
  BY <1>2, TerminatedAlike DEF InstancesStay
<1>3. CASE instance' = instance
  BY <1>3 DEF InstancesStay, Alike
<1>4. ASSUME NEW c \in Calls, LocateFound(c) PROVE InstancesStay
  <2> DEFINE i == entry[Target(c)]
             t == [instance[i] EXCEPT !.touched = TRUE]
  <2>1. Target(c) \in Entities
    BY <1>4 DEF LocateFound, Locating, AtCall, Target, CallsFit
  <2>2. i \in DOMAIN instance
    <3>1. i \in 0..Len(instance) /\ i # NoEntry
      BY <1>4, <2>1 DEF LocateFound, PodTypeOK
    <3> HIDE DEF i
    <3> QED BY <3>1, LenProperties DEF NoEntry, PodTypeOK
  <2>3. Alike(t, instance[i])
    BY <2>2, InstancesTyped DEF InstanceType, Alike
  <2>4. instance' = [instance EXCEPT ![i] = t]
    BY <1>4 DEF LocateFound
  <2> HIDE DEF i, t
  <2> QED BY <1>1, <2>2, <2>3, <2>4
<1>5. ASSUME NEW c \in Calls, FinishCreate(c) PROVE InstancesStay
  BY <1>3, <1>5 DEF FinishCreate
<1>6. ASSUME NEW i \in DOMAIN instance, TimerSleepsAgain(i) \/ RemoveEntity(i) PROVE InstancesStay
  <2>1. PICK t \in {[instance[i] EXCEPT !.touched = FALSE], [instance[i] EXCEPT !.ending = "removed"]} :
          instance' = [instance EXCEPT ![i] = t]
    BY <1>6 DEF TimerSleepsAgain, RemoveEntity
  <2>2. Alike(t, instance[i])
    BY InstancesTyped DEF InstanceType, Alike
  <2> QED BY <1>1, <2>1, <2>2
<1>7. ASSUME NEW i \in DOMAIN instance, TimerExpires(i) PROVE InstancesStay
  <2>1. CASE Unlocked
    <3> DEFINE s == Terminated(instance[i].entity)
    <3>1. DOMAIN s = DOMAIN instance /\ \A j \in DOMAIN instance : Alike(s[j], instance[j])
      BY InstancesTyped, TerminatedAlike
    <3>2. instance' = [s EXCEPT ![i].timer = "stopped"]
      BY <1>7, <2>1 DEF TimerExpires
    <3>3. \A j \in DOMAIN s : s[j] \in InstanceType
      <4>1. s \in Seq(InstanceType)
        BY InstancesTyped, TerminatedType
      <4> QED BY <4>1, LenProperties, ElementOfSeq
    <3> DEFINE t == [s[i] EXCEPT !.timer = "stopped"]
    <3>4. Alike(t, s[i]) /\ instance' = [s EXCEPT ![i] = t]
      BY <3>1, <3>2, <3>3 DEF InstanceType, Alike
    <3> HIDE DEF s, t
    <3> QED BY <3>1, <3>4 DEF InstancesStay, Alike
  <2>2. CASE ~Unlocked
    <3> DEFINE t == [instance[i] EXCEPT !.timer = "expired"]
    <3>1. Alike(t, instance[i])
      BY InstancesTyped DEF InstanceType, Alike
    <3>2. instance' = [instance EXCEPT ![i] = t]
      BY <1>7, <2>2 DEF TimerExpires
    <3> QED BY <1>1, <3>1, <3>2
  <2> QED BY <2>1, <2>2
<1>8. ASSUME NEW i \in DOMAIN instance, ForkShutdown(i) PROVE InstancesStay
  BY <1>2, <1>8, InstancesTyped DEF ForkShutdown
<1>9. CASE BeginShutdown
  <2>1. CASE Unlocked
    BY <1>3, <1>9, <2>1 DEF BeginShutdown
  <2>2. CASE ~Unlocked
    <3> DEFINE i == call[creator].instance
               t == [instance[i] EXCEPT !.late = TRUE]
    <3>1. i \in DOMAIN instance
      BY <2>2 DEF Unlocked, PodTypeOK, LockHeld, CallsFit, AtCall
    <3>2. Alike(t, instance[i])
      BY <3>1, InstancesTyped DEF InstanceType, Alike
    <3>3. instance' = [instance EXCEPT ![i] = t]
      BY <1>9, <2>2 DEF BeginShutdown
    <3> HIDE DEF i, t
    <3> QED BY <1>1, <3>1, <3>2, <3>3
  <2> QED BY <2>1, <2>2
<1>10. ASSUME NEW e \in Entities, TerminateEntity(e) PROVE InstancesStay
  BY <1>2, <1>10 DEF TerminateEntity
<1> QED BY <1>3, <1>4, <1>5, <1>6, <1>7, <1>8, <1>9, <1>10

Receives(i, m) ==
  instance[i].states[m] = "none" /\ instance' = [instance EXCEPT ![i] = Received(i, m)]

\* All that a step may do to the instances.
LEMMA StepKinds ==
  ASSUME IInv, [Next]_vars
  PROVE  \/ InstancesStay
         \/ \E c \in Calls : BeginCreate(c)
         \/ \E i \in DOMAIN instance, m \in Messages : Receives(i, m)
         \/ \E i \in DOMAIN instance : Handle(i) \/ TakePoison(i) \/ CloseScope(i)
         \/ Crash
<1>1. PodTypeOK /\ CallsFit /\ LockHeld /\ EntriesFit
  BY DEF IInv
<1>2. instance' = instance => InstancesStay
  BY <1>1, StayingSteps
<1>3. CASE UNCHANGED vars
  BY <1>2, <1>3 DEF vars
<1>4. ASSUME NEW c \in Senders, Send(c) \/ SendAgain(c) PROVE InstancesStay
  BY <1>2, <1>4 DEF Send, SendAgain
<1>5. ASSUME NEW c \in Calls, CallStep(c)
      PROVE  \/ InstancesStay \/ BeginCreate(c)
             \/ \E i \in DOMAIN instance, m \in Messages : Receives(i, m)
  <2>1. CASE CheckLocal(c) \/ LocateEnding(c) \/ LocateRefused(c) \/ Upsert(c) \/ Mark(c)
    BY <1>2, <2>1 DEF CheckLocal, LocateEnding, LocateRefused, Upsert, Mark
  <2>2. CASE LocateFound(c) \/ FinishCreate(c)
    BY <1>1, <2>2, StayingSteps
  <2>3. CASE Offer(c)
    <3> DEFINE i == call[c].instance
               m == call[c].message
    <3>1. i \in DOMAIN instance /\ m \in Messages
      BY <1>1, <2>3 DEF Offer, AtCall, CallsFit
    <3>2. instance' = instance \/ Receives(i, m)
      BY <2>3 DEF Offer, Receives
    <3> QED BY <1>2, <3>1, <3>2
  <2> QED BY <1>5, <2>1, <2>2, <2>3 DEF CallStep
<1>6. ASSUME NEW i \in DOMAIN instance, InstanceStep(i)
      PROVE  InstancesStay \/ Handle(i) \/ TakePoison(i) \/ CloseScope(i)
  BY <1>1, <1>6, StayingSteps DEF InstanceStep, HandlerStep, EndStep
<1>7. ASSUME NEW e \in Entities, Move(e) PROVE InstancesStay
  BY <1>2, <1>7 DEF Move
<1>8. CASE BeginShutdown \/ ShutdownStep
  <2>1. CASE AwaitTermination \/ EndShutdown
    BY <1>2, <2>1 DEF AwaitTermination, EndShutdown
  <2> QED BY <1>1, <1>8, <2>1, StayingSteps DEF ShutdownStep
<1>9. CASE SweepStep
  BY <1>2, <1>9 DEF SweepStep, Sweep, SweptMessage, SweepMessage
<1> QED BY <1>3, <1>4, <1>5, <1>6, <1>7, <1>8, <1>9 DEF Next

\* An instance of an entity that had none is added.
LEMMA CreationAdds ==
  ASSUME IInv, NEW c \in Calls, BeginCreate(c)
  PROVE  LET n == Len(instance) + 1
             e == Target(c)
         IN  /\ e \in Entities /\ \A i \in DOMAIN instance : Live(i) => instance[i].entity # e
             /\ n \notin DOMAIN instance /\ DOMAIN instance' = DOMAIN instance \cup {n}
             /\ \A i \in DOMAIN instance : instance'[i] = instance[i]
             /\ instance'[n] = Fresh(e)
<1> DEFINE n == Len(instance) + 1
           e == Target(c)
<1>1. /\ entry[e] = NoEntry /\ creator = NoCall /\ instance' = Append(instance, Fresh(e))
      /\ call[c].pc # "idle"
  BY DEF BeginCreate, Locating, AtCall, Unlocked
<1>2. e \in Entities
  BY <1>1 DEF IInv, CallsFit, Target
<1>3. /\ DOMAIN instance = 1..Len(instance) /\ Len(instance) \in Nat /\ instance \in Seq(InstanceType)
  BY LenProperties DEF IInv, PodTypeOK
<1>4. Fresh(e) \in InstanceType
  <2>1. <<>> \in Seq(Messages \cup {PoisonPill}) /\ [m \in Messages |-> "none"] \in [Messages -> MessageStates]
    BY DEF MessageStates
  <2> HIDE DEF e
  <2> QED BY <1>2, <2>1 DEF Fresh, InstanceType
<1>5. /\ \A i \in DOMAIN instance : instance'[i] = instance[i]
      /\ instance'[n] = Fresh(e) /\ DOMAIN instance' = 1..n
  <2> HIDE DEF e
  <2> QED BY <1>1, <1>3, <1>4, AppendProperties, LenProperties
<1>6. \A i \in DOMAIN instance : Live(i) => instance[i].entity # e
  BY <1>1, <1>3 DEF IInv, InstancesHeld, Held, NoEntry
<1> HIDE DEF e
<1> QED BY <1>2, <1>3, <1>5, <1>6 DEF e
----------------------------------------------------------------------------
(* The invariant.                                                          *)

LEMMA QueuesKeep == RInv /\ [Next]_vars => RInv'
<1> SUFFICES ASSUME RInv, [Next]_vars PROVE QueuesFit'
  BY NextKeeps DEF RInv
<1>1. IInv /\ PodTypeOK /\ \A i \in DOMAIN instance : instance[i] \in InstanceType /\ QueueFits(instance[i])
  BY InstancesTyped DEF RInv, IInv, QueuesFit
<1>2. ASSUME NEW i \in DOMAIN instance, NEW t, instance' = [instance EXCEPT ![i] = t], QueueFits(t)
      PROVE  QueuesFit'
  BY <1>1, <1>2, PutBecomes DEF Becomes, QueuesFit
<1>3. CASE InstancesStay
  BY <1>1, <1>3 DEF InstancesStay, Alike, QueuesFit, QueueFits
<1>4. ASSUME NEW c \in Calls, BeginCreate(c) PROVE QueuesFit'
  <2>1. QueueFits(Fresh(Target(c)))
    BY DEF Fresh, QueueFits
  <2> QED BY <1>1, <1>4, <2>1, CreationAdds DEF QueuesFit
<1>5. ASSUME NEW i \in DOMAIN instance, NEW m \in Messages, Receives(i, m) PROVE QueuesFit'
  BY <1>1, <1>2, <1>5, QueueReceives DEF Receives, Received
<1>6. ASSUME NEW i \in DOMAIN instance, Handle(i) PROVE QueuesFit'
  <2> DEFINE r == instance[i]
             m == Head(r.queue)
             t == Handled(i, m)
  <2>1. r.queue # <<>> /\ m # PoisonPill /\ instance' = [instance EXCEPT ![i] = t]
    BY <1>6 DEF Handle
  <2>2. t.queue = Tail(r.queue) /\ t.states = [r.states EXCEPT ![m] = "Processed"]
    BY <1>1 DEF Handled, InstanceType
  <2>3. \A k \in Messages : k # m => t.states[k] = r.states[k]
    BY <1>1, <2>2 DEF InstanceType
  <2> HIDE DEF t
  <2>4. QueueFits(t)
    BY <1>1, <2>1, <2>2, <2>3, QueueTakes
  <2> QED BY <1>2, <2>1, <2>4
<1>7. ASSUME NEW i \in DOMAIN instance, TakePoison(i) PROVE QueuesFit'
  <2> DEFINE r == instance[i]
             t == Ended(i)
  <2>1. r.queue # <<>> /\ instance' = [instance EXCEPT ![i] = t]
    BY <1>7 DEF TakePoison
  <2>2. t.queue = Tail(r.queue) /\ t.states = r.states
    BY <1>1 DEF Ended, InstanceType
  <2> HIDE DEF t
  <2>3. QueueFits(t)
    BY <1>1, <2>1, <2>2, QueueTakes
  <2> QED BY <1>2, <2>1, <2>3
<1>8. ASSUME NEW i \in DOMAIN instance, CloseScope(i) PROVE QueuesFit'
  <2> DEFINE t == Closed(i)
  <2>1. instance' = [instance EXCEPT ![i] = t]
    BY <1>8 DEF CloseScope
  <2>2. t.queue = Append(instance[i].queue, PoisonPill) /\ t.states = instance[i].states
    BY <1>1 DEF Closed, InstanceType
  <2> HIDE DEF t
  <2>3. QueueFits(t)
    BY <1>1, <2>2, QueueWithPoison
  <2> QED BY <1>2, <2>1, <2>3
<1>9. CASE Crash
  BY <1>9, EmptySeq DEF Crash, QueuesFit
<1> QED BY <1>1, <1>3, <1>4, <1>5, <1>6, <1>7, <1>8, <1>9, StepKinds

LEMMA QueuesInductive == Spec => []RInv
<1>1. Init => RInv
  BY InitInv DEF Init, RInv, QueuesFit
<1> QED BY <1>1, QueuesKeep, PTL DEF Spec
----------------------------------------------------------------------------
(* What is seen of a sequence of instances.                                *)

Running(r)     == r.handler = "running"
LivesIn(s, e)  == {i \in DOMAIN s : Running(s[i]) /\ s[i].entity = e}
AliveIn(s)     == {e \in Entities : LivesIn(s, e) # {}}
Nothing        == [m \in Messages |-> "none"]
KnownIn(s)     == [e \in Entities |-> IF LivesIn(s, e) = {} THEN Nothing
                                      ELSE s[CHOOSE i \in LivesIn(s, e) : TRUE].states]

\* Instances of known entities, of which no two that live are of the same.
Proper(s) ==
  /\ \A i \in DOMAIN s : s[i].entity \in Entities
  /\ \A i, j \in DOMAIN s :
       (i # j /\ Running(s[i]) /\ Running(s[j])) => s[i].entity # s[j].entity

LEMMA InstancesProper ==
  ASSUME IInv
  PROVE  Proper(instance)
BY AtMostOne, InstancesTyped DEF Proper, Running, OneInstance, Live, IInv

\* Each entity has one instance that lives, or none.
LEMMA OneLife ==
  ASSUME NEW s, Proper(s)
  PROVE  /\ \A i \in DOMAIN s : Running(s[i]) =>
              s[i].entity \in AliveIn(s) /\ KnownIn(s)[s[i].entity] = s[i].states
         /\ \A e \in AliveIn(s) : \E i \in DOMAIN s : Running(s[i]) /\ s[i].entity = e
         /\ \A e \in Entities : e \notin AliveIn(s) => KnownIn(s)[e] = Nothing
<1>1. ASSUME NEW i \in DOMAIN s, Running(s[i])
      PROVE  s[i].entity \in AliveIn(s) /\ KnownIn(s)[s[i].entity] = s[i].states
  <2>1. s[i].entity \in Entities /\ LivesIn(s, s[i].entity) = {i}
    BY <1>1 DEF Proper, LivesIn
  <2> QED BY <2>1 DEF AliveIn, KnownIn
<1>2. \A e \in AliveIn(s) : \E i \in DOMAIN s : Running(s[i]) /\ s[i].entity = e
  BY DEF AliveIn, LivesIn
<1>3. \A e \in Entities : e \notin AliveIn(s) => KnownIn(s)[e] = Nothing
  BY DEF AliveIn, KnownIn
<1> QED BY <1>1, <1>2, <1>3

\* Two sequences with the same lives look the same if each life knows the same.
LEMMA SameView ==
  ASSUME NEW s, NEW t, Proper(s), Proper(t), AliveIn(s) = AliveIn(t),
         \A e \in AliveIn(s) : KnownIn(s)[e] = KnownIn(t)[e]
  PROVE  KnownIn(s) = KnownIn(t)
<1>1. \A e \in Entities : KnownIn(s)[e] = KnownIn(t)[e]
  BY OneLife
<1> QED BY <1>1 DEF KnownIn

\* Nothing changes in the instances that live, and none begins or ends to live.
LEMMA ViewStays ==
  ASSUME NEW s, NEW t, Proper(s), Proper(t), DOMAIN t = DOMAIN s,
         \A i \in DOMAIN s : /\ Running(t[i]) <=> Running(s[i])
                             /\ Running(s[i]) => t[i].entity = s[i].entity /\ t[i].states = s[i].states
  PROVE  AliveIn(t) = AliveIn(s) /\ KnownIn(t) = KnownIn(s)
<1>1. AliveIn(t) = AliveIn(s)
  BY DEF AliveIn, LivesIn
<1>2. \A e \in AliveIn(s) : KnownIn(s)[e] = KnownIn(t)[e]
  BY OneLife
<1> QED BY <1>1, <1>2, SameView

\* One instance that lives learns of a message.
Learns(s, t, i) ==
  /\ DOMAIN t = DOMAIN s /\ i \in DOMAIN s /\ Running(s[i])
  /\ \A j \in DOMAIN s : /\ Running(t[j]) <=> Running(s[j])
                         /\ t[j].entity = s[j].entity
                         /\ j # i => t[j].states = s[j].states

LEMMA ViewLearns ==
  ASSUME NEW s, NEW t, Proper(s), Proper(t), NEW i, Learns(s, t, i)
  PROVE  AliveIn(t) = AliveIn(s) /\ KnownIn(t) = [KnownIn(s) EXCEPT ![s[i].entity] = t[i].states]
<1> USE DEF Learns
<1> DEFINE a == s[i].entity
<1>1. AliveIn(t) = AliveIn(s)
  BY DEF AliveIn, LivesIn
<1>2. a \in AliveIn(s) /\ KnownIn(t)[a] = t[i].states
  BY <1>1, OneLife
<1>3. \A e \in AliveIn(s) : e # a => KnownIn(t)[e] = KnownIn(s)[e]
  BY OneLife
<1>4. \A e \in Entities : e # a => KnownIn(t)[e] = KnownIn(s)[e]
  BY <1>1, <1>3, OneLife
<1>5. \A e \in Entities : KnownIn(t)[e] = IF e = a THEN t[i].states ELSE KnownIn(s)[e]
  BY <1>2, <1>4
<1> QED BY <1>1, <1>5 DEF KnownIn

\* One instance ends to live.
Loses(s, t, i) ==
  /\ DOMAIN t = DOMAIN s /\ i \in DOMAIN s /\ Running(s[i]) /\ ~Running(t[i])
  /\ \A j \in DOMAIN s : j # i => t[j] = s[j]

LEMMA ViewLoses ==
  ASSUME NEW s, NEW t, Proper(s), Proper(t), NEW i, Loses(s, t, i)
  PROVE  LET a == s[i].entity
         IN  /\ a \in AliveIn(s) /\ AliveIn(t) = AliveIn(s) \ {a}
             /\ KnownIn(t) = [e \in Entities |-> IF e \in {a} THEN Nothing ELSE KnownIn(s)[e]]
<1> USE DEF Loses
<1> DEFINE a == s[i].entity
<1>1. a \in AliveIn(s)
  BY OneLife
<1>2. AliveIn(t) = AliveIn(s) \ {a}
  BY DEF AliveIn, LivesIn, Proper
<1>3. \A e \in AliveIn(t) : KnownIn(t)[e] = KnownIn(s)[e]
  BY <1>2, OneLife
<1>4. \A e \in Entities : e # a => KnownIn(t)[e] = KnownIn(s)[e]
  BY <1>2, <1>3, OneLife
<1>5. a \in Entities /\ KnownIn(t)[a] = Nothing
  BY <1>2, OneLife DEF Proper
<1> QED BY <1>1, <1>2, <1>4, <1>5 DEF KnownIn

\* An instance of an entity that had none begins to live.
LEMMA ViewGains ==
  ASSUME NEW s, NEW t, Proper(s), Proper(t), NEW n, n \notin DOMAIN s, DOMAIN t = DOMAIN s \cup {n},
         \A i \in DOMAIN s : t[i] = s[i],
         Running(t[n]), t[n].states = Nothing
  PROVE  LET a == t[n].entity
         IN  a \notin AliveIn(s) /\ AliveIn(t) = AliveIn(s) \cup {a} /\ KnownIn(t) = KnownIn(s)
<1> DEFINE a == t[n].entity
<1>1. a \in Entities /\ a \notin AliveIn(s)
  BY DEF AliveIn, LivesIn, Proper
<1>2. AliveIn(t) = AliveIn(s) \cup {a}
  BY <1>1 DEF AliveIn, LivesIn
<1>3. \A e \in AliveIn(s) : KnownIn(t)[e] = KnownIn(s)[e]
  BY <1>2, OneLife
<1>4. KnownIn(t)[a] = Nothing /\ KnownIn(s)[a] = Nothing
  BY <1>1, OneLife
<1>5. \A e \in Entities : KnownIn(t)[e] = KnownIn(s)[e]
  BY <1>2, <1>3, <1>4, OneLife
<1> QED BY <1>1, <1>2, <1>5 DEF KnownIn

LEMMA ViewOfNone ==
  ASSUME NEW s, DOMAIN s = {}
  PROVE  AliveIn(s) = {} /\ KnownIn(s) = [e \in Entities |-> Nothing]
BY DEF AliveIn, LivesIn, KnownIn
----------------------------------------------------------------------------
(* What the senders and the storage know of the messages.                  *)

\* What an instance has processed, what a call is about to mark and what is on record as
\* processed was handled; and a message that was to be stored is, or could not be.
Handling ==
  /\ \A i \in DOMAIN instance : \A m \in Messages :
       instance[i].states[m] = "Processed" => m \in handled
  /\ \A c \in Calls : AtCall(c, "marking") => call[c].message \in handled

OnRecord(m) == stored[m] # "none" \/ failedWrites[m] > 0

Recorded ==
  \A c \in Calls :
    (Persisted /\ call[c].pc \in {"offering", "marking"}) => OnRecord(call[c].message)

RecordTypes == failedWrites \in [Messages -> 0..MaxFailedWrites] /\ handled \subseteq Messages

MInv == RecordTypes /\ Handling /\ Recorded /\ ProcessedIsMarked

\* Only the handler makes an instance say that it has processed a message.
LEMMA ProcessedBefore ==
  ASSUME IInv, [Next]_vars, \A i \in DOMAIN instance : ~Handle(i),
         NEW i \in DOMAIN instance', NEW m \in Messages, instance'[i].states[m] = "Processed"
  PROVE  i \in DOMAIN instance /\ instance[i].states[m] = "Processed"
<1>1. PodTypeOK
  BY DEF IInv
<1>2. CASE InstancesStay
  BY <1>2 DEF InstancesStay, Alike
<1>3. ASSUME NEW c \in Calls, BeginCreate(c) PROVE i \in DOMAIN instance /\ instance[i].states[m] = "Processed"
  <2>1. instance' = Append(instance, Fresh(Target(c))) /\ instance \in Seq(InstanceType)
    BY <1>1, <1>3 DEF BeginCreate, PodTypeOK
  <2>2. Fresh(Target(c)).states[m] = "none"
    BY DEF Fresh
  <2>3. i \in 1..(Len(instance) + 1) /\ DOMAIN instance = 1..Len(instance)
    BY <2>1, AppendProperties, LenProperties
  <2>4. instance'[i] = IF i = Len(instance) + 1 THEN Fresh(Target(c)) ELSE instance[i]
    BY <2>1, <2>3
  <2> QED BY <2>2, <2>3, <2>4
<1>4. ASSUME NEW j \in DOMAIN instance, NEW t, instance' = [instance EXCEPT ![j] = t],
             t.states[m] = "Processed" => instance[j].states[m] = "Processed"
      PROVE  i \in DOMAIN instance /\ instance[i].states[m] = "Processed"
  <2>1. Becomes(j, t)
    BY <1>1, <1>4, PutBecomes
  <2> QED BY <1>4, <2>1 DEF Becomes
<1>5. ASSUME NEW j \in DOMAIN instance, NEW n \in Messages, Receives(j, n)
      PROVE  i \in DOMAIN instance /\ instance[i].states[m] = "Processed"
  <2>1. Received(j, n).states = [instance[j].states EXCEPT ![n] = "Acknowledged"]
    BY <1>1, InstancesTyped DEF Received, InstanceType
  <2>2. Received(j, n).states[m] = "Processed" => instance[j].states[m] = "Processed"
    BY <1>1, <2>1, InstancesTyped DEF InstanceType
  <2> QED BY <1>4, <1>5, <2>2 DEF Receives
<1>6. ASSUME NEW j \in DOMAIN instance, TakePoison(j) \/ CloseScope(j)
      PROVE  i \in DOMAIN instance /\ instance[i].states[m] = "Processed"
  <2>1. Ended(j).states = instance[j].states /\ Closed(j).states = instance[j].states
    BY <1>1, InstancesTyped DEF Ended, Closed, InstanceType
  <2>2. instance' = [instance EXCEPT ![j] = Ended(j)] \/ instance' = [instance EXCEPT ![j] = Closed(j)]
    BY <1>6 DEF TakePoison, CloseScope
  <2> QED BY <1>4, <2>1, <2>2
<1>7. CASE Crash
  <2>1. DOMAIN instance' = {}
    BY <1>7, EmptySeq, LenProperties DEF Crash
  <2> QED BY <2>1
<1> QED BY <1>2, <1>3, <1>5, <1>6, <1>7, StepKinds

\* Nothing is taken off the record, and failures are not forgotten.
Remembers ==
  /\ RecordTypes' /\ handled \subseteq handled'
  /\ \A m \in Messages : OnRecord(m) => OnRecord(m)'
  /\ \A m \in Messages :
       stored[m] = "processed" \/ failedWrites[m] > 0 => stored'[m] = "processed" \/ failedWrites'[m] > 0

LEMMA StorageStays ==
  ASSUME MInv, stored' = stored, failedWrites' = failedWrites, handled' = handled
  PROVE  Remembers
BY DEF MInv, RecordTypes, Remembers, OnRecord

\* A step of a call, by what the call knows afterwards.
LEMMA CallMarks ==
  ASSUME IInv, MInv, [Next]_vars, \A i \in DOMAIN instance : ~Handle(i), Remembers,
         \A m \in Messages : stored'[m] = "processed" => m \in handled',
         NEW c \in Calls, NEW r, call' = [call EXCEPT ![c] = r],
         r.pc = "marking" => r.message \in handled',
         (Persisted /\ r.pc \in {"offering", "marking"}) => OnRecord(r.message)',
         (r.pc = "done" /\ r.result = "Processed") =>
           /\ r.message \in handled'
           /\ Persisted => stored'[r.message] = "processed" \/ failedWrites'[r.message] > 0
  PROVE  MInv'
<1> USE DEF MInv, IInv
<1>1. \A d \in Calls : call'[d] = IF d = c THEN r ELSE call[d]
  BY DEF PodTypeOK
<1>2. \A d \in Calls : call[d].pc # "idle" => call[d].message \in Messages
  BY DEF CallsFit
<1>3. Handling'
  <2>1. \A i \in DOMAIN instance' : \A m \in Messages :
          instance'[i].states[m] = "Processed" => m \in handled'
    BY ProcessedBefore DEF Handling, Remembers
  <2>2. \A d \in Calls : call'[d].pc = "marking" => call'[d].message \in handled'
    BY <1>1 DEF Handling, Remembers, AtCall
  <2> QED BY <2>1, <2>2 DEF Handling, AtCall
<1>4. Recorded'
  BY <1>1, <1>2 DEF Recorded, Remembers, OnRecord
<1>5. ProcessedIsMarked'
  BY <1>1, <1>2 DEF ProcessedIsMarked, Remembers
<1> QED BY <1>3, <1>4, <1>5 DEF Remembers

\* The steps of a call that write nothing.
LEMMA ReadersMark ==
  ASSUME IInv, MInv, [Next]_vars, \A i \in DOMAIN instance : ~Handle(i), NEW c \in Calls,
         stored' = stored, failedWrites' = failedWrites, handled' = handled,
         NEW r, call' = [call EXCEPT ![c] = r],
         \/ r.pc \in {"idle", "checking", "locating", "creating", "storing"}
         \/ r.pc = "offering" /\ ~Persisted
         \/ r.pc = "done" /\ r.result # "Processed"
         \/ r = call[c]
  PROVE  MInv'
<1>1. Remembers
  BY StorageStays
<1>2. \A m \in Messages : stored'[m] = "processed" => m \in handled'
  BY DEF MInv, ProcessedIsMarked
<1>3. /\ r.pc = "marking" => r.message \in handled'
      /\ (Persisted /\ r.pc \in {"offering", "marking"}) => OnRecord(r.message)'
      /\ (r.pc = "done" /\ r.result = "Processed") =>
           /\ r.message \in handled'
           /\ Persisted => stored'[r.message] = "processed" \/ failedWrites'[r.message] > 0
  BY DEF MInv, Handling, Recorded, ProcessedIsMarked, OnRecord, AtCall
<1> QED BY <1>1, <1>2, <1>3, CallMarks

LEMMA CallsMark ==
  ASSUME IInv, MInv, [Next]_vars, \A i \in DOMAIN instance : ~Handle(i), NEW c \in Calls,
         (c \in Senders /\ (Send(c) \/ SendAgain(c))) \/ CallStep(c)
  PROVE  MInv'
<1>1. PodTypeOK /\ call[c] \in CallType
  BY DEF IInv, PodTypeOK
<1>2. call[c].pc # "idle" => call[c].message \in Messages
  BY DEF IInv, CallsFit
<1>3. ASSUME NEW pc \in {"checking", "locating", "creating", "storing", "offering"},
             pc = "offering" => ~Persisted, call' = [call EXCEPT ![c].pc = pc], UNCHANGED storage
      PROVE  MInv'
  <2> DEFINE r == [call[c] EXCEPT !.pc = pc]
  <2>1. r.pc = pc /\ call' = [call EXCEPT ![c] = r]
    BY <1>1, <1>3 DEF CallType
  <2> HIDE DEF r
  <2> QED BY <1>3, <2>1, ReadersMark
<1>4. ASSUME NEW pc \in {"creating", "storing", "offering"}, NEW i,
             pc = "offering" => ~Persisted,
             call' = [call EXCEPT ![c] = [@ EXCEPT !.pc = pc, !.instance = i]], UNCHANGED storage
      PROVE  MInv'
  <2> DEFINE r == [call[c] EXCEPT !.pc = pc, !.instance = i]
  <2>1. r.pc = pc /\ call' = [call EXCEPT ![c] = r]
    BY <1>1, <1>4 DEF CallType
  <2> HIDE DEF r
  <2> QED BY <1>4, <2>1, ReadersMark
<1>5. ASSUME NEW result \in {"EntityNotManaged", "Acknowledged"}, Answer(c, result), UNCHANGED storage
      PROVE  MInv'
  <2> DEFINE r == [call[c] EXCEPT !.pc = "done", !.instance = NoEntry, !.result = result]
  <2>1. r.pc = "done" /\ r.result = result /\ call' = [call EXCEPT ![c] = r]
    BY <1>1, <1>5 DEF Answer, CallType
  <2> HIDE DEF r
  <2> QED BY <1>5, <2>1, ReadersMark
<1>6. CASE c \in Senders /\ Send(c)
  <2> DEFINE r == [Idle EXCEPT !.pc = "checking", !.message = Sends[c]]
  <2>1. r.pc = "checking" /\ call' = [call EXCEPT ![c] = r] /\ UNCHANGED storage
    BY <1>6 DEF Send, Idle
  <2> HIDE DEF r
  <2> QED BY <2>1, ReadersMark
<1>7. CASE SendAgain(c) \/ LocateEnding(c)
  BY <1>3, <1>7 DEF SendAgain, LocateEnding, Locating, To
<1>8. CASE CheckLocal(c) \/ LocateRefused(c)
  BY <1>3, <1>5, <1>8 DEF CheckLocal, LocateRefused, Locating, To
<1>9. CASE LocateFound(c) \/ BeginCreate(c)
  BY <1>4, <1>9 DEF LocateFound, BeginCreate, Locating
<1>10. CASE FinishCreate(c)
  BY <1>3, <1>10 DEF FinishCreate, To
\* A write, done or failed.
<1>11. ASSUME call[c].pc # "idle",
              \/ /\ stored' \in {[stored EXCEPT ![call[c].message] = IF @ = "none" THEN "pending" ELSE @],
                                 [stored EXCEPT ![call[c].message] = IF @ = "pending" THEN "processed" ELSE @]}
                 /\ UNCHANGED failedWrites
              \/ WriteFails(c),
              handled' = handled
       PROVE  Remembers
  <2>1. stored \in [Messages -> {"none", "pending", "processed"}]
    BY <1>1 DEF PodTypeOK
  <2>2. failedWrites \in [Messages -> 0..MaxFailedWrites] /\ handled \subseteq Messages
    BY DEF MInv, RecordTypes
  <2>3. CASE WriteFails(c)
    <3>1. /\ failedWrites' \in [Messages -> 0..MaxFailedWrites] /\ stored' = stored
          /\ \A m \in Messages : failedWrites[m] > 0 => failedWrites'[m] > 0
      BY <1>2, <1>11, <2>2, <2>3 DEF WriteFails
    <3> QED BY <1>11, <2>2, <3>1 DEF Remembers, RecordTypes, OnRecord
  <2>4. CASE ~WriteFails(c)
    <3>1. /\ failedWrites' = failedWrites
          /\ \A m \in Messages : stored[m] # "none" => stored'[m] # "none"
          /\ \A m \in Messages : stored[m] = "processed" => stored'[m] = "processed"
      BY <1>11, <2>1, <2>4
    <3> QED BY <1>11, <2>2, <3>1 DEF Remembers, RecordTypes, OnRecord
  <2> QED BY <2>3, <2>4
<1>12. CASE Upsert(c)
  <2> DEFINE r == [call[c] EXCEPT !.pc = "offering"]
             m == call[c].message
  <2>1. r.pc = "offering" /\ r.message = m /\ call' = [call EXCEPT ![c] = r]
    BY <1>1, <1>12 DEF Upsert, To, CallType
  <2>2. m \in Messages /\ Remembers
    BY <1>2, <1>11, <1>12 DEF Upsert, AtCall
  <2>3. stored'[m] # "none" \/ failedWrites'[m] > 0
    BY <1>1, <1>12, <2>2 DEF Upsert, WriteFails, PodTypeOK, MInv, RecordTypes
  <2>4. \A n \in Messages : stored'[n] = "processed" => n \in handled'
    BY <1>1, <1>12 DEF Upsert, WriteFails, PodTypeOK, MInv, ProcessedIsMarked
  <2> HIDE DEF r, m
  <2> QED BY <2>1, <2>2, <2>3, <2>4, CallMarks DEF OnRecord
<1>13. CASE Mark(c)
  <2> DEFINE r == [call[c] EXCEPT !.pc = "done", !.instance = NoEntry, !.result = "Processed"]
             m == call[c].message
  <2>1. r.pc = "done" /\ r.message = m /\ call' = [call EXCEPT ![c] = r]
    BY <1>1, <1>13 DEF Mark, Answer, CallType
  <2>2. m \in Messages /\ Remembers
    BY <1>2, <1>11, <1>13 DEF Mark, AtCall
  <2>3. m \in handled /\ handled' = handled
    BY <1>13 DEF Mark, MInv, Handling
  <2>4. Persisted => OnRecord(m)
    BY <1>13 DEF Mark, MInv, Recorded, AtCall
  <2>5. Persisted => stored'[m] = "processed" \/ failedWrites'[m] > 0
    BY <1>1, <1>13, <2>2, <2>4 DEF Mark, WriteFails, PodTypeOK, MInv, RecordTypes, OnRecord
  <2>6. \A n \in Messages : stored'[n] = "processed" => n \in handled'
    BY <1>1, <1>13, <2>3 DEF Mark, WriteFails, PodTypeOK, MInv, ProcessedIsMarked
  <2> HIDE DEF r, m
  <2> QED BY <2>1, <2>2, <2>3, <2>5, <2>6, CallMarks
<1>14. CASE Offer(c)
  <2> DEFINE i == call[c].instance
             m == call[c].message
             state == instance[i].states[m]
  <2>1. i \in DOMAIN instance /\ m \in Messages /\ UNCHANGED storage
    BY <1>14 DEF Offer, AtCall, IInv, CallsFit
  <2>2. state \in MessageStates
    BY <1>1, <2>1, InstancesTyped DEF InstanceType
  <2>3. state = "Processed" => m \in handled
    BY <2>1 DEF MInv, Handling
  <2>4. Persisted => OnRecord(m)
    BY <1>14 DEF Offer, AtCall, MInv, Recorded
  <2>5. Remembers /\ \A n \in Messages : stored'[n] = "processed" => n \in handled'
    BY <2>1, StorageStays DEF MInv, ProcessedIsMarked
  <2>6. CASE state # "Processed"
    BY <1>5, <1>14, <2>1, <2>2, <2>6 DEF Offer, MessageStates
  <2>7. CASE state = "Processed" /\ Persisted
    <3> DEFINE r == [call[c] EXCEPT !.pc = "marking"]
    <3>1. r.pc = "marking" /\ r.message = m /\ call' = [call EXCEPT ![c] = r]
      BY <1>1, <1>14, <2>7 DEF Offer, To, CallType
    <3>2. stored'[m] # "none" \/ failedWrites'[m] > 0
      BY <2>1, <2>4, <2>7 DEF OnRecord
    <3> HIDE DEF r, m, state
    <3> QED BY <2>1, <2>3, <2>5, <2>7, <3>1, <3>2, CallMarks DEF OnRecord
  <2>8. CASE state = "Processed" /\ ~Persisted
    <3> DEFINE r == [call[c] EXCEPT !.pc = "done", !.instance = NoEntry, !.result = "Processed"]
    <3>1. r.pc = "done" /\ r.message = m /\ call' = [call EXCEPT ![c] = r]
      BY <1>1, <1>14, <2>8 DEF Offer, Answer, CallType
    <3> HIDE DEF r, m, state
    <3> QED BY <2>1, <2>3, <2>5, <2>8, <3>1, CallMarks
  <2> QED BY <2>6, <2>7, <2>8
<1> QED BY <1>6, <1>7, <1>8, <1>9, <1>10, <1>12, <1>13, <1>14 DEF CallStep

\* The handler says so of what it has handled.
LEMMA HandlerMarks ==
  ASSUME IInv, MInv, NEW i \in DOMAIN instance, Handle(i)
  PROVE  MInv'
<1> DEFINE m == Head(instance[i].queue)
<1>1. instance[i] \in InstanceType /\ instance[i].queue # <<>> /\ m # PoisonPill
  BY InstancesTyped DEF IInv, Handle
<1>2. m \in Messages
  BY <1>1, HeadTailProperties DEF InstanceType
<1>3. /\ instance' = [instance EXCEPT ![i] = Handled(i, m)] /\ handled' = handled \cup {m}
      /\ call' = call /\ stored' = stored /\ failedWrites' = failedWrites
  BY DEF Handle
<1> HIDE DEF m
<1>4. Becomes(i, Handled(i, m))
  BY <1>3, PutBecomes DEF IInv
<1>5. \A n \in Messages : Handled(i, m).states[n] = "Processed" => n = m \/ instance[i].states[n] = "Processed"
  BY <1>1 DEF Handled, InstanceType
<1>6. Handling'
  BY <1>3, <1>4, <1>5 DEF MInv, Handling, Becomes, AtCall
<1>7. RecordTypes' /\ Recorded' /\ ProcessedIsMarked'
  BY <1>2, <1>3 DEF MInv, RecordTypes, Recorded, OnRecord, ProcessedIsMarked
<1> QED BY <1>6, <1>7 DEF MInv

LEMMA NextMarks == IInv /\ MInv /\ [Next]_vars => MInv'
<1> SUFFICES ASSUME IInv, MInv, [Next]_vars, \A i \in DOMAIN instance : ~Handle(i) PROVE MInv'
  BY HandlerMarks
<1>1. \A i \in DOMAIN instance' : \A m \in Messages :
        instance'[i].states[m] = "Processed" => m \in handled
  BY ProcessedBefore DEF MInv, Handling
<1>2. ASSUME UNCHANGED <<call, storage>> PROVE MInv'
  BY <1>1, <1>2 DEF MInv, RecordTypes, Handling, Recorded, OnRecord, ProcessedIsMarked, AtCall
<1>3. ASSUME NEW i \in DOMAIN instance, InstanceStep(i) PROVE MInv'
  BY <1>2, <1>3
     DEF InstanceStep, HandlerStep, TakePoison, TimerSleepsAgain, TimerExpires, ForkShutdown,
         EndStep, CloseScope, RemoveEntity
<1>4. CASE BeginShutdown \/ ShutdownStep \/ \E e \in Entities : Move(e)
  BY <1>2, <1>4
     DEF BeginShutdown, ShutdownStep, AwaitTermination, EndShutdown, TerminateEntity, Move
<1>5. CASE SweepStep
  <2>1. CASE Sweep
    BY <1>2, <2>1 DEF Sweep
  <2>2. Sweeper \in Calls
    BY DEF Calls
  <2>3. CASE SweptMessage
    <3>1. Idle.pc = "idle" /\ call' = [call EXCEPT ![Sweeper] = Idle] /\ UNCHANGED storage
      BY <2>3 DEF SweptMessage, Idle
    <3> QED BY <2>2, <3>1, ReadersMark
  <2>4. ASSUME NEW m \in Messages, SweepMessage(m) PROVE MInv'
    <3> DEFINE r == [Idle EXCEPT !.pc = "checking", !.message = m]
    <3>1. r.pc = "checking" /\ call' = [call EXCEPT ![Sweeper] = r] /\ UNCHANGED storage
      BY <2>4 DEF SweepMessage, Idle
    <3> HIDE DEF r
    <3> QED BY <2>2, <3>1, ReadersMark
  <2> QED BY <1>5, <2>1, <2>3, <2>4 DEF SweepStep
<1>6. CASE Crash
  <2>1. UNCHANGED storage /\ \A c \in Calls : call'[c].pc = "idle"
    BY <1>6 DEF Crash, Idle
  <2> QED BY <1>1, <2>1 DEF MInv, RecordTypes, Handling, Recorded, ProcessedIsMarked, AtCall
<1>7. CASE UNCHANGED vars
  BY <1>2, <1>7 DEF vars
<1> QED BY <1>3, <1>4, <1>5, <1>6, <1>7, CallsMark DEF Next, Calls

LEMMA MarksInductive == Spec => [](IInv /\ MInv)
<1>1. Init => MInv
  <2> SUFFICES ASSUME Init PROVE MInv
    OBVIOUS
  <2>1. DOMAIN instance = {}
    BY EmptySeq, LenProperties DEF Init
  <2> QED BY <2>1 DEF Init, Idle, MInv, RecordTypes, Handling, Recorded, ProcessedIsMarked, AtCall
<1> QED BY <1>1, Inductive, NextMarks, PTL DEF Spec
----------------------------------------------------------------------------
(* Theorems.                                                               *)

\* The variables of the pod keep their types: in particular a creation that ends finds the
\* instance it began, whatever expired or shut down while it held the lock.
THEOREM TypeCorrect == Spec => []TypeOK
<1>1. IInv /\ MInv => TypeOK
  BY DEF IInv, MInv, RecordTypes, TypeOK
<1> QED BY <1>1, MarksInductive, PTL

\* What a sender is told to be processed, and what is on record as processed, was handled
\* by an instance; and what a sender is told is on record (atLeastOnce.ts), unless a write
\* of the message to the storage failed, across crashes, duplicates and the sweeper's calls.
THEOREM MarkedBeforeAnswered == Spec => []ProcessedIsMarked
<1>1. MInv => ProcessedIsMarked
  BY DEF MInv
<1> QED BY <1>1, MarksInductive, PTL

\* However often a message is sent, an instance has it in its queue once, and not any more
\* once it is processed: the check and the offer of sendAndGetState are one step, and the
\* handler takes what it processes.
THEOREM NeverHandledTwice == Spec => []HandledOnce
<1>1. RInv => HandledOnce
  <2> SUFFICES ASSUME RInv, NEW i \in DOMAIN instance, NEW m \in Messages
               PROVE  LET at == {k \in DOMAIN instance[i].queue : instance[i].queue[k] = m}
                      IN  /\ Cardinality(at) <= 1
                          /\ instance[i].states[m] \in {"none", "Processed"} => at = {}
    BY DEF HandledOnce
  <2> DEFINE at == {k \in DOMAIN instance[i].queue : instance[i].queue[k] = m}
  <2>1. m # PoisonPill
    OBVIOUS
  <2>2. \A k \in at : instance[i].states[m] = "Acknowledged" /\ \A l \in at : l = k
    BY <2>1 DEF RInv, QueuesFit, QueueFits
  <2>3. at = {} \/ \E k \in at : at = {k}
    BY <2>2
  <2>4. Cardinality(at) <= 1
    <3> HIDE DEF at
    <3>1. Cardinality({}) = 0 /\ \A k : Cardinality({k}) = 1
      BY FS_EmptySet, FS_Singleton
    <3>2. Cardinality(at) \in {0, 1}
      BY ONLY <2>3, <3>1
    <3> QED BY <3>2
  <2> QED BY <2>2, <2>4
<1> QED BY <1>1, QueuesInductive, PTL

LEMMA Views ==
  /\ Alive = AliveIn(instance) /\ Known = KnownIn(instance)
  /\ Alive' = AliveIn(instance') /\ Known' = KnownIn(instance')
BY DEF Alive, Known, Lives, AliveIn, KnownIn, LivesIn, Live, Running, Nothing

LEMMA LifeInit == Init => Life!Init
<1> SUFFICES ASSUME Init PROVE Life!Init
  OBVIOUS
<1>1. DOMAIN instance = {}
  BY EmptySeq DEF Init
<1> QED BY <1>1, Views, ViewOfNone DEF Life!Init, Life!NothingKnown, Nothing

\* What a step does to the instances is a step of the lives, or none.
LEMMA LifeSteps ==
  ASSUME RInv, Proper(instance), Proper(instance)', [Next]_vars
  PROVE  [Life!Next]_<<Alive, Known>>
<1> DEFINE s == instance
           t == instance'
<1>1. /\ PodTypeOK /\ Proper(s) /\ Proper(t)
      /\ \A i \in DOMAIN s : s[i] \in InstanceType /\ s[i].entity \in Entities
  BY InstancesTyped DEF RInv, IInv, Proper
<1>2. CASE InstancesStay
  <2>1. AliveIn(t) = AliveIn(s) /\ KnownIn(t) = KnownIn(s)
    BY <1>1, <1>2, ViewStays DEF InstancesStay, Alike, Running
  <2> QED BY <2>1, Views
<1>3. ASSUME NEW c \in Calls, BeginCreate(c) PROVE Life!Next
  <2> DEFINE n == Len(s) + 1
             e == Target(c)
  <2>1. /\ e \in Entities /\ n \notin DOMAIN s /\ DOMAIN t = DOMAIN s \cup {n}
        /\ \A i \in DOMAIN s : t[i] = s[i]
        /\ t[n] = Fresh(e)
    BY <1>3, CreationAdds DEF RInv
  <2> HIDE DEF n, e
  <2>2. Running(t[n]) /\ t[n].states = Nothing /\ t[n].entity = e
    BY <2>1 DEF Fresh, Running, Nothing
  <2>3. e \notin AliveIn(s) /\ AliveIn(t) = AliveIn(s) \cup {e} /\ KnownIn(t) = KnownIn(s)
    BY <1>1, <2>1, <2>2, ViewGains
  <2>4. Life!Start(e)
    BY <2>3, Views DEF Life!Start
  <2> QED BY <2>1, <2>4 DEF Life!Next
\* An instance that lives and learns of m.
<1>4. ASSUME NEW i \in DOMAIN s, NEW m \in Messages, NEW r, NEW v \in MessageStates,
             Running(s[i]), t = [s EXCEPT ![i] = r],
             r.entity = s[i].entity, Running(r), r.states = [s[i].states EXCEPT ![m] = v]
      PROVE  LET e == s[i].entity
             IN  /\ e \in Entities /\ e \in Alive /\ Known[e] = s[i].states
                 /\ Alive' = Alive /\ Known' = [Known EXCEPT ![e][m] = v]
  <2>1. DOMAIN t = DOMAIN s /\ \A j \in DOMAIN s : t[j] = IF j = i THEN r ELSE s[j]
    BY <1>1, <1>4, PutBecomes DEF Becomes
  <2>2. s[i].entity \in AliveIn(s) /\ KnownIn(s)[s[i].entity] = s[i].states
    BY <1>1, <1>4, OneLife
  <2>3. AliveIn(t) = AliveIn(s) /\ KnownIn(t) = [KnownIn(s) EXCEPT ![s[i].entity] = r.states]
    <3>1. t[i] = r /\ Learns(s, t, i)
      BY <1>4, <2>1 DEF Learns
    <3> QED BY <1>1, <3>1, ViewLearns
  <2> QED BY <1>1, <1>4, <2>2, <2>3, Views
<1>5. ASSUME NEW i \in DOMAIN s, NEW m \in Messages, Receives(i, m) PROVE [Life!Next]_<<Alive, Known>>
  <2> DEFINE r == Received(i, m)
  <2>1. /\ s[i].states[m] = "none" /\ t = [s EXCEPT ![i] = r]
        /\ r.entity = s[i].entity /\ r.handler = s[i].handler
        /\ r.states = [s[i].states EXCEPT ![m] = "Acknowledged"]
    BY <1>1, <1>5 DEF Receives, Received, InstanceType
  <2> HIDE DEF r
  <2>2. CASE Running(s[i])
    <3>1. Life!Receive(s[i].entity, m)
      BY <1>4, <2>1, <2>2 DEF Life!Receive, Running, MessageStates
    <3> QED BY <1>1, <3>1 DEF Life!Next
  <2>3. CASE ~Running(s[i])
    <3>1. DOMAIN t = DOMAIN s /\ \A j \in DOMAIN s : t[j] = IF j = i THEN r ELSE s[j]
      BY <1>1, <2>1, PutBecomes DEF Becomes
    <3>2. AliveIn(t) = AliveIn(s) /\ KnownIn(t) = KnownIn(s)
      BY <1>1, <2>1, <2>3, <3>1, ViewStays DEF Running
    <3> QED BY <3>2, Views
  <2> QED BY <2>2, <2>3
<1>6. ASSUME NEW i \in DOMAIN s, Handle(i) PROVE Life!Next
  <2> DEFINE m == Head(s[i].queue)
             r == Handled(i, m)
  <2>1. Running(s[i]) /\ s[i].queue # <<>> /\ m # PoisonPill /\ t = [s EXCEPT ![i] = r]
    BY <1>6 DEF Handle, Live, Running
  <2>2. m \in Messages /\ s[i].states[m] = "Acknowledged"
    <3>1. s[i].queue \in Seq(Messages \cup {PoisonPill})
      BY <1>1 DEF InstanceType
    <3>2. 1 \in DOMAIN s[i].queue /\ m = s[i].queue[1] /\ m \in Messages
      BY <2>1, <3>1, HeadTailProperties, LenProperties, EmptySeq
    <3> QED BY <2>1, <3>2 DEF RInv, QueuesFit, QueueFits
  <2>3. /\ r.entity = s[i].entity /\ r.handler = s[i].handler
        /\ r.states = [s[i].states EXCEPT ![m] = "Processed"]
    BY <1>1 DEF Handled, InstanceType
  <2> HIDE DEF m, r
  <2>4. Life!Process(s[i].entity, m)
    BY <1>4, <2>1, <2>2, <2>3 DEF Life!Process, Running, MessageStates
  <2> QED BY <1>1, <2>2, <2>4 DEF Life!Next
<1>7. ASSUME NEW i \in DOMAIN s, TakePoison(i) PROVE Life!Next
  <2> DEFINE r == Ended(i)
             e == s[i].entity
  <2>1. Running(s[i]) /\ t = [s EXCEPT ![i] = r]
    BY <1>7 DEF TakePoison, Live, Running
  <2>2. ~Running(r)
    BY <1>1 DEF Ended, InstanceType, Running
  <2> HIDE DEF r
  <2>3. DOMAIN t = DOMAIN s /\ \A j \in DOMAIN s : t[j] = IF j = i THEN r ELSE s[j]
    BY <1>1, <2>1, PutBecomes DEF Becomes
  <2>4. /\ e \in AliveIn(s) /\ AliveIn(t) = AliveIn(s) \ {e}
        /\ KnownIn(t) = [f \in Entities |-> IF f \in {e} THEN Nothing ELSE KnownIn(s)[f]]
    <3>1. Loses(s, t, i)
      BY <2>1, <2>2, <2>3 DEF Loses
    <3> QED BY <1>1, <3>1, ViewLoses
  <2> HIDE DEF e
  <2>5. Life!End({e})
    BY <2>4, Views DEF Life!End, Life!NothingKnown, Nothing
  <2>6. {e} \in SUBSET Entities
    BY <1>1 DEF e
  <2> QED BY <2>5, <2>6 DEF Life!Next
<1>8. ASSUME NEW i \in DOMAIN s, CloseScope(i) PROVE UNCHANGED <<Alive, Known>>
  <2> DEFINE r == Closed(i)
  <2>1. /\ t = [s EXCEPT ![i] = r]
        /\ r.entity = s[i].entity /\ r.handler = s[i].handler /\ r.states = s[i].states
    BY <1>1, <1>8 DEF CloseScope, Closed, InstanceType
  <2> HIDE DEF r
  <2>2. DOMAIN t = DOMAIN s /\ \A j \in DOMAIN s : t[j] = IF j = i THEN r ELSE s[j]
    BY <1>1, <2>1, PutBecomes DEF Becomes
  <2>3. AliveIn(t) = AliveIn(s) /\ KnownIn(t) = KnownIn(s)
    BY <1>1, <2>1, <2>2, ViewStays DEF Running
  <2> QED BY <2>3, Views
<1>9. CASE Crash
  <2>1. DOMAIN t = {}
    BY <1>9, EmptySeq DEF Crash
  <2>2. AliveIn(t) = {} /\ KnownIn(t) = [e \in Entities |-> Nothing]
    BY <2>1, ViewOfNone
  <2>3. KnownIn(t) = [e \in Entities |-> IF e \in AliveIn(s) THEN Nothing ELSE KnownIn(s)[e]]
    BY <1>1, <2>2, OneLife
  <2>4. Life!End(AliveIn(s))
    BY <2>2, <2>3, Views DEF Life!End, Life!NothingKnown, Nothing
  <2>5. AliveIn(s) \in SUBSET Entities
    BY DEF AliveIn
  <2> QED BY <2>4, <2>5 DEF Life!Next
<1> QED BY <1>2, <1>3, <1>5, <1>6, <1>7, <1>8, <1>9, StepKinds DEF RInv

\* The pod implements the lives of its entities: what a message becomes in a life is known
\* to no other life, a life ends by its poison or with the process, and no entity begins a
\* life while it has one.
THEOREM ImplementsEntityLife == Spec => RefinesEntityLife
<1>1. RInv => Proper(instance)
  BY InstancesProper DEF RInv
<1>2. RInv /\ Proper(instance) /\ Proper(instance)' /\ [Next]_vars => [Life!Next]_<<Alive, Known>>
  BY LifeSteps
<1> QED BY <1>1, <1>2, LifeInit, QueuesInductive, PTL DEF Spec, RefinesEntityLife, Life!Spec
=============================================================================
