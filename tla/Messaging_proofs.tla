--------------------------- MODULE Messaging_proofs ---------------------------
(***************************************************************************)
(* Proofs about Messaging, for any pods, shards, senders, broadcasts,      *)
(* messages and bound on troubles.                                         *)
(***************************************************************************)
EXTENDS Messaging, TLAPS

USE NamesAssumption, LimitsAssumption

Places == Pods \X Kinds

\* A call that is sent or answered has a pod.
CallsHavePods ==
  \A c \in Calls : call[c].pc \in {"sending", "answering"} => call[c].to \in Pods

\* What does not live knows nothing.
DeadKnowNothing == \A l \in Places \ alive : state[l] = Life!NothingKnown

\* Where the entity is as long as nothing ended and nothing changed.
Home == <<FirstRoute[1], "entity">>

\* No life ended, no pod died, no route and no holder changed.
Calm == used["ends"] = 0 /\ used["changes"] = 0

\* Then the entity lives at Home or nowhere, and Home knows what was handled.
OneHome ==
  Calm =>
    /\ route = FirstRoute /\ holds = {FirstRoute[1]} \ {Here}
    /\ \A l \in alive : l[2] = "entity" => l = Home
    /\ \A m \in Messages : handled[m] = IF state[Home][m] = "Processed" THEN 1 ELSE 0

IInv == TypeOK /\ CallsHavePods /\ DeadKnowNothing /\ OneHome
----------------------------------------------------------------------------
(* Lemmas.                                                                 *)

Known == Outcomes \ {"EntityNotManaged"}

\* The entity and the topics: what EntityLife keeps of them, and its types.
LifeTypes == alive \subseteq Places /\ state \in [Places -> [Messages -> Known]]

LEMMA HomeIsPlace == Home \in Places /\ \A l \in Places : l = <<l[1], l[2]>> /\ l[1] \in Pods
BY DEF Home, Places, Kinds

LEMMA MessageType == \A c \in Calls : Message(c) \in Messages
<1> SUFFICES ASSUME NEW c \in Calls PROVE Message(c) \in Messages
  OBVIOUS
<1>1. Origin(c) \in Senders \cup Broadcasts
  BY DEF Origin, Calls
<1> QED BY <1>1 DEF Message

LEMMA PlaceType == \A c \in Calls : call[c].to \in Pods => Place(c) \in Places
BY DEF Place, Places, Kinds, Kind

LEMMA NothingKnownType == Life!NothingKnown \in [Messages -> Known]
BY DEF Life!NothingKnown, Known, Outcomes

\* A call goes on: its record changes, and has a pod if it needs one.
LEMMA BecomeType ==
  ASSUME TypeOK, CallsHavePods, NEW c \in Calls,
         NEW pc \in {"idle", "looking", "sending", "answering", "done"},
         NEW to \in Pods \cup {NoPod}, NEW result \in Outcomes,
         pc \in {"sending", "answering"} => to \in Pods,
         Become(c, pc, to, result)
  PROVE  call' \in [Calls -> CallType] /\ CallsHavePods'
<1> DEFINE r == [pc |-> pc, to |-> to, result |-> result]
<1>1. r \in CallType /\ r.pc = pc /\ r.to = to
  BY DEF CallType
<1>2. call' = [call EXCEPT ![c] = r]
  BY DEF Become
<1> HIDE DEF r
<1>3. call' \in [Calls -> CallType] /\ \A d \in Calls : call'[d] = IF d = c THEN r ELSE call[d]
  BY <1>1, <1>2 DEF TypeOK
<1> QED BY <1>1, <1>3 DEF CallsHavePods

LEMMA RetryType ==
  ASSUME TypeOK, CallsHavePods, NEW c \in Calls, call[c].pc \in {"sending", "answering"}, Retry(c)
  PROVE  call' \in [Calls -> CallType] /\ CallsHavePods'
<1>1. call[c].to \in Pods
  BY DEF CallsHavePods
<1>2. CASE c \in Senders
  BY <1>2, BecomeType DEF Retry, Outcomes
<1>3. CASE c \notin Senders
  BY <1>1, <1>3, BecomeType DEF Retry, Outcomes
<1> QED BY <1>2, <1>3

LEMMA SpendType ==
  ASSUME TypeOK, NEW what \in Troubles, Spend(what)
  PROVE  used' \in [Troubles -> Nat] /\ used'[what] > 0
         /\ \A other \in Troubles \ {what} : used'[other] = used[other]
BY DEF TypeOK, Spend

\* Trouble that is counted ends the calm.
LEMMA TroubleEndsCalm ==
  ASSUME TypeOK, Spend("ends") \/ Spend("changes")
  PROVE  used' \in [Troubles -> Nat] /\ ~Calm'
<1>1. "ends" \in Troubles /\ "changes" \in Troubles
  BY DEF Troubles
<1> QED BY <1>1, SpendType DEF Calm

\* Steps that leave the lives alone and spend at most a loss.
LEMMA LivesStay ==
  ASSUME IInv, UNCHANGED <<route, holds, up, lives>>, used' = used \/ Spend("losses")
  PROVE  used' \in [Troubles -> Nat] /\ DeadKnowNothing' /\ OneHome'
<1>1. "ends" \in Troubles /\ "changes" \in Troubles /\ "losses" \in Troubles
  BY DEF Troubles
<1>2. used' \in [Troubles -> Nat] /\ (Calm' => Calm)
  BY <1>1, SpendType DEF IInv, TypeOK, Calm
<1>3. UNCHANGED <<route, holds, up, alive, state, handled>>
  BY DEF lives
<1>4. DeadKnowNothing'
  BY <1>3 DEF IInv, DeadKnowNothing
<1>5. OneHome'
  BY <1>2, <1>3 DEF IInv, OneHome
<1> QED BY <1>2, <1>4, <1>5

\* So the types and the whole invariant follow from the rest of the step.
LEMMA CallSteps ==
  ASSUME IInv, UNCHANGED <<route, holds, up, lives>>, used' = used \/ Spend("losses"),
         call' \in [Calls -> CallType], CallsHavePods',
         began' \subseteq Broadcasts, mayReport' \in BOOLEAN, reported' \subseteq Pods \ {Here}
  PROVE  IInv'
<1>1. used' \in [Troubles -> Nat] /\ DeadKnowNothing' /\ OneHome'
  BY LivesStay
<1>2. TypeOK'
  BY <1>1 DEF IInv, TypeOK, lives
<1> QED BY <1>1, <1>2 DEF IInv

\* Lives that change while there is trouble: nothing is said of Home any more.
LEMMA TroubledSteps ==
  ASSUME IInv, Spend("ends") \/ Spend("changes"), UNCHANGED <<call, began, reports, handled>>,
         route' \in [Shards -> Pods \cup {NoPod}], holds' \subseteq Pods \ {Here}, up' \subseteq Pods,
         LifeTypes', DeadKnowNothing'
  PROVE  IInv'
<1>1. used' \in [Troubles -> Nat] /\ OneHome'
  BY TroubleEndsCalm DEF IInv, OneHome
<1>2. UNCHANGED <<call, began, mayReport, reported, handled>>
  BY DEF reports
<1>3. TypeOK'
  BY <1>1, <1>2 DEF IInv, TypeOK, LifeTypes, Places, Known
<1>4. CallsHavePods'
  BY <1>2 DEF IInv, CallsHavePods
<1> QED BY <1>1, <1>3, <1>4 DEF IInv

LEMMA EndTypes ==
  ASSUME LifeTypes, DeadKnowNothing, NEW S \in SUBSET alive, Life!End(S)
  PROVE  LifeTypes' /\ DeadKnowNothing'
<1>1. /\ alive' = alive \ S
      /\ state' = [l \in Places |-> IF l \in S THEN Life!NothingKnown ELSE state[l]]
  BY DEF Life!End, Places
<1>2. LifeTypes'
  BY <1>1, NothingKnownType DEF LifeTypes
<1>3. DeadKnowNothing'
  BY <1>1 DEF DeadKnowNothing
<1> QED BY <1>2, <1>3
----------------------------------------------------------------------------
(* The steps.                                                              *)

LEMMA InitInv == Init => IInv
<1> SUFFICES ASSUME Init PROVE IInv
  OBVIOUS
<1>1. /\ alive = {} /\ state = [l \in Places |-> Life!NothingKnown]
  BY DEF Init, Life!Init, Places
<1>2. call \in [Calls -> CallType] /\ CallsHavePods
  BY DEF Init, CallType, Outcomes, CallsHavePods
<1>3. route \in [Shards -> Pods \cup {NoPod}] /\ holds \subseteq Pods \ {Here}
  BY DEF Init
<1>4. LifeTypes
  BY <1>1, NothingKnownType DEF LifeTypes
<1>5. TypeOK
  BY <1>2, <1>3, <1>4 DEF Init, TypeOK, LifeTypes, Places, Known, Troubles
<1>6. state[Home] = Life!NothingKnown
  BY <1>1, HomeIsPlace
<1>7. OneHome
  BY <1>1, <1>6 DEF Init, OneHome, Life!NothingKnown
<1> QED BY <1>1, <1>2, <1>5, <1>7 DEF IInv, DeadKnowNothing

LEMMA SendingKeeps ==
  ASSUME IInv, NEW c \in Calls, Send(c) \/ Look(c) \/ TakeAnswer(c) \/ Refuse(c)
  PROVE  IInv'
<1>1. TypeOK /\ CallsHavePods
  BY DEF IInv
<1>2. call[c] \in CallType
  BY <1>1 DEF TypeOK
<1>3. UNCHANGED <<env, lives, began, reports>>
  BY DEF Send, Look, TakeAnswer, Refuse
<1>4. call' \in [Calls -> CallType] /\ CallsHavePods'
  <2>1. CASE Send(c)
    BY <1>1, <2>1, BecomeType DEF Send, Outcomes
  <2>2. CASE Look(c)
    <3>1. route[1] \in Pods
      BY <1>1, <2>2 DEF Look, TypeOK
    <3> QED BY <1>1, <2>2, <3>1, BecomeType DEF Look, Outcomes
  <2>3. CASE TakeAnswer(c)
    <3>1. call[c].pc = "answering"
      BY <2>3 DEF TakeAnswer, AtCall
    <3>2. CASE Enough(c)
      <4>1. Become(c, "done", call[c].to, call[c].result)
        BY <2>3, <3>2 DEF TakeAnswer
      <4>2. call[c].to \in Pods \cup {NoPod} /\ call[c].result \in Outcomes
        BY <1>2 DEF CallType
      <4> QED BY <1>1, <4>1, <4>2, BecomeType
    <3>3. CASE ~Enough(c)
      BY <1>1, <2>3, <3>1, <3>3, RetryType DEF TakeAnswer
    <3> QED BY <3>2, <3>3
  <2>4. CASE Refuse(c)
    <3>1. call[c].to \in Pods
      BY <1>1, <2>4 DEF Refuse, AtCall, CallsHavePods
    <3> QED BY <1>1, <2>4, <3>1, BecomeType DEF Refuse, Outcomes
  <2> QED BY <2>1, <2>2, <2>3, <2>4
<1>5. UNCHANGED <<route, holds, up, used, began, mayReport, reported>>
  BY <1>3 DEF env, reports
<1> QED BY <1>1, <1>3, <1>4, <1>5, CallSteps DEF TypeOK

LEMMA FailuresKeep ==
  ASSUME IInv, NEW c \in Calls, Fail(c) \/ LoseAnswer(c)
  PROVE  IInv'
<1>1. TypeOK /\ CallsHavePods
  BY DEF IInv
<1>2. /\ call[c].pc \in {"sending", "answering"} /\ call[c].to # Here
      /\ Retry(c) /\ mayReport' = FALSE
      /\ reported' \in {reported, reported \cup {call[c].to}}
      /\ UNCHANGED <<route, holds, up, lives, began>>
      /\ used' = used \/ Spend("losses")
  BY DEF Fail, LoseAnswer, Unavailable, AtCall
<1>3. call' \in [Calls -> CallType] /\ CallsHavePods'
  BY <1>1, <1>2, RetryType
<1>4. reported' \subseteq Pods \ {Here}
  BY <1>1, <1>2 DEF TypeOK, CallsHavePods
<1>5. began' \subseteq Broadcasts
  BY <1>1, <1>2 DEF TypeOK
<1> QED BY <1>2, <1>3, <1>4, <1>5, CallSteps

LEMMA BroadcastKeeps ==
  ASSUME IInv, NEW b \in Broadcasts, Broadcast(b)
  PROVE  IInv'
<1>1. TypeOK /\ CallsHavePods
  BY DEF IInv
<1> DEFINE targets == {b} \X {route[s] : s \in Shards}
           sent(c) == [pc |-> "sending", to |-> c[2], result |-> "none"]
<1>2. call' = [c \in Calls |-> IF c \in targets THEN sent(c) ELSE call[c]]
  BY DEF Broadcast
<1>3. ASSUME NEW c \in Calls, c \in targets PROVE c[2] \in Pods
  <2>1. c = <<c[1], c[2]>> /\ c[1] = b /\ c[2] \in Pods \cup {NoPod}
    BY <1>1, <1>3 DEF TypeOK
  <2>2. c \notin Senders
    BY <2>1
  <2> QED BY <2>2 DEF Calls
<1>4. \A c \in Calls : c \in targets => sent(c) \in CallType
  BY <1>3 DEF CallType, Outcomes
<1>5. call' \in [Calls -> CallType]
  BY <1>1, <1>2, <1>4 DEF TypeOK
<1>6. CallsHavePods'
  BY <1>1, <1>2, <1>3 DEF CallsHavePods
<1>7. /\ began' \subseteq Broadcasts /\ mayReport' \in BOOLEAN /\ reported' \subseteq Pods \ {Here}
      /\ UNCHANGED <<route, holds, up, used, lives>>
  BY <1>1 DEF Broadcast, TypeOK, env, reports
<1> QED BY <1>5, <1>6, <1>7, CallSteps

\* As long as nothing changed, a message to the entity is accepted at Home only.
LEMMA StartLifeKeeps ==
  ASSUME IInv, NEW c \in Calls, StartLife(c)
  PROVE  IInv'
<1> USE DEF IInv
<1>1. /\ call[c].pc = "sending" /\ Accepts(c)
      /\ alive' = alive \cup {Place(c)} /\ state' = state
      /\ UNCHANGED <<env, call, began, reports, handled>>
  BY DEF StartLife, AtCall, Life!Start
<1>2. Place(c) \in Places
  BY <1>1, PlaceType DEF CallsHavePods
<1>3. UNCHANGED <<route, holds, up, used, call, began, mayReport, reported, handled>>
  BY <1>1 DEF env, reports
<1>4. TypeOK'
  BY <1>1, <1>2, <1>3 DEF TypeOK, Places
<1>5. CallsHavePods' /\ DeadKnowNothing'
  BY <1>1, <1>3 DEF CallsHavePods, DeadKnowNothing
<1>6. ASSUME Calm, Kind(c) = "entity" PROVE Place(c) = Home
  <2>1. Local(call[c].to)
    BY <1>1, <1>6 DEF Accepts
  <2>2. call[c].to = FirstRoute[1]
    BY <1>6, <2>1 DEF OneHome, Local
  <2> QED BY <1>6, <2>2 DEF Place, Home
<1>7. Place(c)[2] = Kind(c)
  BY DEF Place
<1>8. OneHome'
  BY <1>1, <1>3, <1>6, <1>7 DEF OneHome, Calm
<1> QED BY <1>4, <1>5, <1>8

LEMMA ReceiveKeeps ==
  ASSUME IInv, NEW c \in Calls, Receive(c)
  PROVE  IInv'
<1> USE DEF IInv
<1> DEFINE l == Place(c)
           m == Message(c)
<1>1. /\ call[c].pc = "sending" /\ l \in alive
      /\ UNCHANGED <<env, began, reports, handled>> /\ alive' = alive
      /\ \/ /\ state[l][m] = "none" /\ state' = [state EXCEPT ![l][m] = "Acknowledged"]
            /\ Become(c, "answering", call[c].to, "Acknowledged")
         \/ state' = state /\ Become(c, "answering", call[c].to, state[l][m])
  BY DEF Receive, AtCall, Life!Receive
<1>2. call[c].to \in Pods /\ l \in Places /\ m \in Messages
  BY <1>1, PlaceType, MessageType DEF CallsHavePods
<1>3. UNCHANGED <<route, holds, up, used, began, mayReport, reported, handled>>
  BY <1>1 DEF env, reports
<1>4. state \in [Places -> [Messages -> Known]]
  BY DEF TypeOK, Places, Known
<1> HIDE DEF l, m
<1>5. state[l][m] \in Outcomes /\ "Acknowledged" \in Known /\ "Acknowledged" \in Outcomes
  BY <1>2, <1>4 DEF Known, Outcomes
<1>6. call' \in [Calls -> CallType] /\ CallsHavePods'
  BY <1>1, <1>2, <1>5, BecomeType
<1>7. /\ state' \in [Places -> [Messages -> Known]]
      /\ \A k \in Places \ {l} : state'[k] = state[k]
      /\ \A k \in Places, n \in Messages : state'[k][n] = "Processed" <=> state[k][n] = "Processed"
  BY <1>1, <1>2, <1>4, <1>5
<1>8. TypeOK'
  BY <1>1, <1>3, <1>6, <1>7 DEF TypeOK, Places, Known
<1>9. DeadKnowNothing'
  BY <1>1, <1>7 DEF DeadKnowNothing
<1>10. OneHome'
  BY <1>1, <1>3, <1>7, HomeIsPlace DEF OneHome, Calm
<1> QED BY <1>6, <1>8, <1>9, <1>10

LEMMA ProcessKeeps ==
  ASSUME IInv, NEW l \in Places, NEW m \in Messages, Process(l, m)
  PROVE  IInv'
<1> USE DEF IInv
<1>1. /\ l \in alive /\ state[l][m] = "Acknowledged" /\ alive' = alive
      /\ state' = [state EXCEPT ![l][m] = "Processed"]
      /\ handled' = IF l[2] = "entity" THEN [handled EXCEPT ![m] = @ + 1] ELSE handled
      /\ UNCHANGED <<env, call, began, reports>>
  BY DEF Process, Life!Process
<1>2. UNCHANGED <<route, holds, up, used, call, began, mayReport, reported>>
  BY <1>1 DEF env, reports
<1>3. state \in [Places -> [Messages -> Known]] /\ "Processed" \in Known
  BY DEF TypeOK, Places, Known, Outcomes
<1>4. /\ state' \in [Places -> [Messages -> Known]]
      /\ \A k \in Places, n \in Messages :
           state'[k][n] = IF k = l /\ n = m THEN "Processed" ELSE state[k][n]
      /\ \A k \in Places \ {l} : state'[k] = state[k]
  BY <1>1, <1>3
<1>5. /\ handled' \in [Messages -> Nat]
      /\ l[2] = "entity" => \A n \in Messages :
           handled'[n] = IF n = m THEN handled[n] + 1 ELSE handled[n]
  BY <1>1 DEF TypeOK
<1>6. TypeOK'
  BY <1>1, <1>2, <1>4, <1>5 DEF TypeOK, Places, Known
<1>7. CallsHavePods' /\ DeadKnowNothing'
  BY <1>1, <1>2, <1>4 DEF CallsHavePods, DeadKnowNothing
<1>8. ASSUME Calm'
      PROVE  \A n \in Messages : handled'[n] = IF state'[Home][n] = "Processed" THEN 1 ELSE 0
  <2>1. Calm
    BY <1>2, <1>8 DEF Calm
  <2>2. \A n \in Messages : handled[n] = IF state[Home][n] = "Processed" THEN 1 ELSE 0
    BY <2>1 DEF OneHome
  <2>3. CASE l[2] = "entity"
    <3>1. l = Home
      BY <1>1, <2>1, <2>3 DEF OneHome
    <3> QED BY <1>1, <1>4, <1>5, <2>2, <2>3, <3>1
  <2>4. CASE l[2] # "entity"
    <3>1. l # Home
      BY <2>4 DEF Home
    <3> QED BY <1>1, <1>4, <2>2, <2>4, <3>1, HomeIsPlace
  <2> QED BY <2>3, <2>4
<1>9. OneHome'
  BY <1>1, <1>2, <1>8 DEF OneHome, Calm
<1> QED BY <1>6, <1>7, <1>9

LEMMA EndsKeep ==
  ASSUME IInv,
         \/ \E l \in Places : EndLife(l)
         \/ \E p \in Pods : PodDies(p)
  PROVE  IInv'
<1> USE DEF IInv
<1>1. LifeTypes
  BY DEF TypeOK, LifeTypes, Places, Known
<1>2. ASSUME NEW l \in Places, EndLife(l) PROVE IInv'
  <2>1. /\ Spend("ends") /\ Life!End({l}) /\ {l} \in SUBSET alive
        /\ UNCHANGED <<route, holds, up, call, began, reports, handled>>
    BY <1>2 DEF EndLife
  <2>2. LifeTypes' /\ DeadKnowNothing'
    BY <1>1, <2>1, EndTypes
  <2> QED BY <2>1, <2>2, TroubledSteps DEF TypeOK
<1>3. ASSUME NEW p \in Pods, PodDies(p) PROVE IInv'
  <2> DEFINE gone == {l \in alive : l[1] = p}
  <2>1. /\ Spend("ends") /\ Life!End(gone) /\ gone \in SUBSET alive
        /\ up' = up \ {p} /\ holds' = holds \ {p}
        /\ UNCHANGED <<route, call, began, reports, handled>>
    BY <1>3 DEF PodDies
  <2> HIDE DEF gone
  <2>2. LifeTypes' /\ DeadKnowNothing'
    BY <1>1, <2>1, EndTypes
  <2>3. holds' \subseteq Pods \ {Here} /\ up' \subseteq Pods /\ route' \in [Shards -> Pods \cup {NoPod}]
    BY <2>1 DEF TypeOK
  <2> QED BY <2>1, <2>2, <2>3, TroubledSteps
<1> QED BY <1>2, <1>3

LEMMA ChangesKeep ==
  ASSUME IInv,
         \/ \E s \in Shards, p \in Pods \cup {NoPod} : RouteChanges(s, p)
         \/ \E p \in Pods : HolderChanges(p)
  PROVE  IInv'
<1> USE DEF IInv
<1>1. /\ Spend("changes") /\ UNCHANGED <<up, lives, call, began, reports>>
  BY DEF RouteChanges, HolderChanges
<1>2. UNCHANGED <<alive, state, handled>>
  BY <1>1 DEF lives
<1>3. LifeTypes' /\ DeadKnowNothing'
  BY <1>2 DEF TypeOK, LifeTypes, Places, Known, DeadKnowNothing
<1>4. route' \in [Shards -> Pods \cup {NoPod}] /\ holds' \subseteq Pods \ {Here} /\ up' \subseteq Pods
  BY <1>1 DEF RouteChanges, HolderChanges, TypeOK
<1> QED BY <1>1, <1>2, <1>3, <1>4, TroubledSteps

LEMMA NextKeeps == IInv /\ [Next]_vars => IInv'
<1> SUFFICES ASSUME IInv, [Next]_vars PROVE IInv'
  OBVIOUS
<1>1. CASE IntervalPasses
  <2>1. /\ UNCHANGED <<route, holds, up, used, lives, call, began, reported>> /\ mayReport' = TRUE
    BY <1>1 DEF IntervalPasses, env
  <2>2. call' \in [Calls -> CallType] /\ began' \subseteq Broadcasts /\ reported' \subseteq Pods \ {Here}
    BY <2>1 DEF IInv, TypeOK
  <2>3. CallsHavePods'
    BY <2>1 DEF IInv, CallsHavePods
  <2> QED BY <2>1, <2>2, <2>3, CallSteps
<1>2. CASE UNCHANGED vars
  <2>1. UNCHANGED <<route, holds, up, used, lives, call, began, reported, mayReport>>
    BY <1>2 DEF vars, lives
  <2>2. /\ call' \in [Calls -> CallType] /\ began' \subseteq Broadcasts
        /\ mayReport' \in BOOLEAN /\ reported' \subseteq Pods \ {Here}
    BY <2>1 DEF IInv, TypeOK
  <2>3. CallsHavePods'
    BY <2>1 DEF IInv, CallsHavePods
  <2> QED BY <2>1, <2>2, <2>3, CallSteps
<1>3. ASSUME NEW c \in Calls,
             \/ Send(c) \/ Look(c) \/ Fail(c) \/ LoseAnswer(c) \/ TakeAnswer(c)
             \/ StartLife(c) \/ Receive(c) \/ Refuse(c)
      PROVE  IInv'
  BY <1>3, SendingKeeps, FailuresKeep, StartLifeKeeps, ReceiveKeeps
<1> QED BY <1>1, <1>2, <1>3, BroadcastKeeps, ProcessKeeps, EndsKeep, ChangesKeep DEF Next, Places

LEMMA Inductive == Spec => []IInv
BY InitInv, NextKeeps, PTL DEF Spec

\* Every variable stays within its type; in particular a pod never reports itself, and
\* every call that is under way has a pod to go to.
THEOREM TypeCorrect == Spec => []TypeOK
BY Inductive, PTL DEF IInv

\* As long as no life ended and the shard stayed where it was, the entity handles a
\* message at most once, however often its answers are lost and it is sent again.
THEOREM HandledOnceAtHome == Spec => []HandledOncePerLife
<1>1. ASSUME IInv PROVE HandledOncePerLife
  <2> SUFFICES ASSUME used.ends = 0, used.changes = 0, NEW s \in Senders
               PROVE  handled[Carries[s]] <= 1
    BY DEF HandledOncePerLife
  <2>1. Calm
    BY DEF Calm
  <2>2. Carries[s] \in Messages
    OBVIOUS
  <2> QED BY <1>1, <2>1, <2>2 DEF IInv, OneHome
<1> QED BY <1>1, Inductive, PTL
=============================================================================
