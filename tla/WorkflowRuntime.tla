--------------------------- MODULE WorkflowRuntime ---------------------------
(***************************************************************************)
(* One workflow execution and its attempts (WorkflowRuntime.attempt).  An  *)
(* attempt has a coordinator fiber, which first replays the journal and    *)
(* then handles the messages of its mailbox, and the fiber of the          *)
(* workflow, whose branches run activities.  Activities have a journal     *)
(* each.  Everything but the journals is lost in a crash.                  *)
(*                                                                         *)
(* The workflow is deterministic: its branches start in the order of their *)
(* numbers, Program[b] are the activities that branch b runs one after the *)
(* other, and it ends when all its branches did.  Activities succeed.  A   *)
(* branch of Timed runs each of them under a timeout, which may strike     *)
(* once the activity has been requested.                                   *)
(*                                                                         *)
(* Every append to a journal is one step; the signal that follows it wakes *)
(* a branch that can do nothing else, so it belongs to the same step.      *)
(***************************************************************************)
EXTENDS DurableExecutionJournal, FiniteSets

CONSTANTS
    Branches, Program,
    Timed,          \* branches whose activities have a timeout
    Deployed,       \* attempt -> the versions its code may have
    Returns,        \* attempt -> the values an activity may return in it
    NoBranch,
    MaxAttempts, MaxCrashes, MaxYields

\* Attempts, in the order in which they start.
Attempts == 1..MaxAttempts

ASSUME ProgramAssumption ==
  /\ Branches \subseteq Nat /\ Timed \subseteq Branches
  /\ Program \in [Branches -> Seq(Activities)]
  /\ \A x \in Activities : \E b \in Branches : \E i \in DOMAIN Program[b] : Program[b][i] = x
ASSUME DataAssumption ==
  /\ Deployed \in [Attempts -> SUBSET Versions] /\ Returns \in [Attempts -> SUBSET Values]
  /\ NoValue \notin Exits \cup Results /\ Interrupted \notin Values
  /\ Workflow \notin Activities /\ NoBranch \notin Branches
ASSUME LimitsAssumption ==
  MaxAttempts \in Nat /\ MaxCrashes \in Nat /\ MaxYields \in Nat

VARIABLES
    journal,
    attempt,        \* attempt -> its coordinator and its mailbox
    branch,         \* attempt -> branch -> where its fiber is
    crashes, yields

vars == <<journal, attempt, branch, crashes, yields>>
limits == <<crashes, yields>>
----------------------------------------------------------------------------
(* Values of the variables.                                                *)

RequestFork(b, x)  == [type |-> "RequestFork", branch |-> b, id |-> x]
RequestJoin(b, x)  == [type |-> "RequestJoin", branch |-> b, id |-> x]
RequestYield       == [type |-> "RequestYield"]
RequestComplete(e) == [type |-> "RequestComplete", exit |-> e]
CheckStatus(b)     == [type |-> "CheckStatus", branch |-> b]

Messages ==
  [type : {"RequestFork", "RequestJoin"}, branch : Branches, id : Activities]
    \cup {RequestYield} \cup [type : {"RequestComplete"}, exit : Results]
    \cup [type : {"CheckStatus"}, branch : Branches \cup {NoBranch}]

\* WorkflowRuntimeState; the fields of the states that have none keep their values.
Tags == {"NotStarted", "Replay", "Running", "Yielding", "Completed"}

\* What the coordinator is doing: it has not begun, reads and replays the journal,
\* handles its mailbox; or how the attempt ended.
Live   == {"reading", "replay", "execute"}
Phases == {"absent", "completed", "interrupted", "died", "crashed"} \cup Live

AttemptType ==
  [phase   : Phases,
   code    : Versions \cup {NoValue},                  \* executionVersion
   events  : Seq(Events),               \* what is still to be replayed
   tag     : Tags,
   version : Versions \cup {NoValue},   \* the version the workflow runs with
   next    : Nat,                       \* expectedSequence, then nextSequence
   delayed : Seq(Messages),             \* delayedMessages
   backlog : Seq(Messages),             \* messages a reduce is going through
   mailbox : Seq(Messages),
   fiber   : {"none", "running", "completing", "ended"},
   got     : Results,                   \* what the workflow knows of its activities
   broken  : {"no", "order", "determinism"}]    \* why the coordinator died

BranchPcs ==
  {"idle", "forking", "forked", "attempting", "executing", "exited", "asking",
   "recording", "joinable", "joining", "stopped"}
BranchType ==
  [pc   : BranchPcs,
   at   : Nat,                                  \* the activity it is at
   cut  : BOOLEAN,                              \* it was interrupted, or an activity failed
   last : Nat,                                  \* lastSequence
   exit : Exits \cup {NoValue}]

Nothing == [x \in Activities |-> NoValue]
Fresh(v) ==
  [phase |-> "reading", code |-> v, events |-> <<>>, tag |-> "NotStarted", version |-> NoValue,
   next |-> 0, delayed |-> <<>>, backlog |-> <<>>, mailbox |-> <<>>, fiber |-> "none",
   got |-> Nothing, broken |-> "no"]
Ready == [b \in Branches |-> [pc |-> "idle", at |-> 1, cut |-> FALSE, last |-> 0, exit |-> NoValue]]

\* Nothing is left of an attempt but how it ended.
Ended(phase) == [Fresh(NoValue) EXCEPT !.phase = phase]

Init ==
  /\ journal = EmptyJournal
  /\ attempt = [a \in Attempts |-> Ended("absent")]
  /\ branch = [a \in Attempts |-> Ready]
  /\ crashes = 0 /\ yields = 0

IsLive(a) == attempt[a].phase \in Live
IsNext(a)  == attempt[a].phase = "absent" /\ \A c \in Attempts : attempt[c].phase = "absent" => a <= c
Offered(a, m) == [attempt EXCEPT ![a].mailbox = Append(@, m)]
Mail(a, m) == attempt' = Offered(a, m)
----------------------------------------------------------------------------
(* The life of an attempt.                                                 *)

\* attempt: a mailbox and a coordinator for a workflow whose code has version v.
Begin(a, v) ==
  /\ IsNext(a)
  /\ attempt' = [attempt EXCEPT ![a] = Fresh(v)]
  /\ UNCHANGED <<journal, branch, limits>>

\* One attempt at a time: the request is sent again once the last attempt has ended.
Start(a, v) == (\A c \in Attempts : ~IsLive(c)) /\ Begin(a, v)

\* The fiber of attempt is interrupted (its scope closes): it asks the coordinator to
\* yield and waits for it.  yieldExecution, by which a workflow yields by itself, is left out.
Yield(a) ==
  /\ IsLive(a) /\ attempt[a].fiber # "ended" /\ yields < MaxYields
  /\ yields' = yields + 1
  /\ Mail(a, RequestYield)
  /\ UNCHANGED <<journal, branch, crashes>>

\* The process ends at any moment, with all its fibers.
Crash ==
  /\ crashes < MaxCrashes /\ \E a \in Attempts : IsLive(a)
  /\ crashes' = crashes + 1
  /\ attempt' = [a \in Attempts |-> IF attempt[a].phase \in Live \cup {"died"}
                                    THEN Ended("crashed") ELSE attempt[a]]
  /\ branch' = [a \in Attempts |-> Ready]
  /\ UNCHANGED <<journal, yields>>

\* A defect ends the coordinator and the attempt.  The fiber of the workflow is a daemon:
\* it goes on until it waits for the coordinator.
Die(a, why) ==
  /\ attempt' = [attempt EXCEPT ![a].phase = "died", ![a].broken = why]
  /\ UNCHANGED branch
----------------------------------------------------------------------------
(* Waking the fiber that waits for the answer to message m.                *)

WaitsFor(m) ==
  CASE m.type = "RequestFork" -> "forking"
    [] m.type = "RequestJoin" -> "joining"
    [] m.type = "CheckStatus" -> "asking"

Wake(a, m, b2) ==
  branch' = IF m.branch # NoBranch /\ branch[a][m.branch].pc = WaitsFor(m)
            THEN [branch EXCEPT ![a][m.branch] = b2] ELSE branch

Move(a, b, pc) == [branch[a][b] EXCEPT !.pc = pc]

\* Deferred.succeed: the activity may run, or the branch go on.
Allow(a, m) ==
  LET me == branch[a][m.branch]
  IN  Wake(a, m, CASE m.type = "RequestFork" -> [me EXCEPT !.pc = "forked"]
                   [] me.cut -> [me EXCEPT !.pc = "stopped"]
                   [] OTHER -> [me EXCEPT !.pc = "idle", !.at = @ + 1])

\* Mutant: the fiber that waits for a permission is not told that there is none.
RefuseSilently(a, m) == UNCHANGED branch

\* Deferred.interrupt or Deferred.die: a fork that is refused is still joined.
Refuse(a, m) ==
  LET pc == IF m.type = "RequestFork" THEN "joinable" ELSE "stopped"
  IN  Wake(a, m, [branch[a][m.branch] EXCEPT !.pc = pc, !.cut = TRUE])

\* Mutant: the exit is recorded although the workflow is yielding.
TellRunning(a, m, yielding) == Wake(a, m, Move(a, m.branch, "recording"))

\* The answer to isYielding; an exit is recorded only if the workflow is not yielding.
TellStatus(a, m, yielding) ==
  Wake(a, m, IF yielding THEN [Move(a, m.branch, "joinable") EXCEPT !.exit = NoValue, !.last = 0]
             ELSE Move(a, m.branch, "recording"))
----------------------------------------------------------------------------
(* Replay.                                                                 *)

\* The journal is read in one go.
Read(a) ==
  /\ attempt[a].phase = "reading"
  /\ attempt' = [attempt EXCEPT ![a].phase = "replay", ![a].events = EventsOf(journal, Workflow)]
  /\ UNCHANGED <<journal, branch, limits>>

Replaying(a, type) ==
  /\ attempt[a].phase = "replay" /\ attempt[a].events # <<>>
  /\ Head(attempt[a].events).type = type
  /\ UNCHANGED <<journal, limits>>

\* The event is the next one of a workflow that is being replayed.  Any other, but for the
\* first attempt, is a defect.
Expected(a) ==
  attempt[a].tag = "Replay" /\ Head(attempt[a].events).sequence = attempt[a].next

\* r with the event at the head of its journal replayed.
Past(r) == [r EXCEPT !.events = Tail(@), !.next = Head(r.events).sequence + 1]

\* The first attempt on record gives the version with which the workflow is run.
ReplayFirstAttempted(a) ==
  /\ Replaying(a, "Attempted") /\ attempt[a].tag = "NotStarted"
  /\ attempt' = [attempt EXCEPT ![a] =
       [Past(@) EXCEPT !.tag = "Replay", !.version = Head(attempt[a].events).version,
                       !.fiber = "running"]]
  /\ UNCHANGED branch

ReplayAttempted(a) ==
  /\ Replaying(a, "Attempted") /\ attempt[a].tag # "NotStarted"
  /\ IF Expected(a)
     THEN attempt' = [attempt EXCEPT ![a] = Past(@)] /\ UNCHANGED branch
     ELSE Die(a, "order")

ReplayCompleted(a) ==
  /\ Replaying(a, "Completed")
  /\ IF ~Expected(a) THEN Die(a, "order")
     ELSE IF attempt[a].delayed # <<>> THEN Die(a, "determinism")
     ELSE /\ attempt' = [attempt EXCEPT ![a] = [Past(@) EXCEPT !.tag = "Completed"]]
          /\ UNCHANGED branch

Requests(s, type) == {k \in DOMAIN s : s[k].type = type}
FirstOf(S) == CHOOSE k \in S : \A l \in S : k <= l
Without(s, k) == SubSeq(s, 1, k - 1) \o SubSeq(s, k + 1, Len(s))

\* The request is the one on record: its fiber goes on, in the order of the journal.
Replayed(a, m, r) ==
  /\ attempt' = [attempt EXCEPT ![a] = Past(r)]
  /\ Allow(a, m)

\* A message that is not what the event waits for is put aside.
Delay(a) ==
  /\ attempt' = [attempt EXCEPT ![a].mailbox = Tail(@),
                                ![a].delayed = Append(@, Head(attempt[a].mailbox))]
  /\ UNCHANGED branch

\* onForked: any other fork in its place is a broken determinism.
ReplayForked(a) ==
  LET r == attempt[a]
      x == Head(r.events).id
      early == Requests(r.delayed, "RequestFork")
      k == FirstOf(early)
  IN  /\ Replaying(a, "Forked")
      /\ IF ~Expected(a) THEN Die(a, "order")
         ELSE IF early # {}
         THEN IF r.delayed[k].id = x
              THEN Replayed(a, r.delayed[k], [r EXCEPT !.delayed = Without(@, k)])
              ELSE Die(a, "determinism")
         ELSE /\ r.mailbox # <<>>
              /\ LET m == Head(r.mailbox)
                 IN  CASE m.type # "RequestFork" -> Delay(a)
                       [] m.type = "RequestFork" /\ m.id = x ->
                            Replayed(a, m, [r EXCEPT !.mailbox = Tail(@)])
                       [] OTHER -> Die(a, "determinism")

\* Mutant: the next join must be the one on record, as for forks.
ReplayJoinedInOrder(a) ==
  LET r == attempt[a]
      m == Head(r.mailbox)
  IN  /\ Replaying(a, "Joined") /\ Expected(a) /\ r.mailbox # <<>>
      /\ CASE m.type # "RequestJoin" -> Delay(a)
           [] m.type = "RequestJoin" /\ m.id = Head(r.events).id ->
                Replayed(a, m, [r EXCEPT !.mailbox = Tail(@)])
           [] OTHER -> Die(a, "determinism")

\* onJoined: other joins wait for their turn.
ReplayJoined(a) ==
  LET r == attempt[a]
      x == Head(r.events).id
      early == {k \in Requests(r.delayed, "RequestJoin") : r.delayed[k].id = x}
      k == FirstOf(early)
  IN  /\ Replaying(a, "Joined")
      /\ IF ~Expected(a) THEN Die(a, "order")
         ELSE IF early # {}
         THEN Replayed(a, r.delayed[k], [r EXCEPT !.delayed = Without(@, k)])
         ELSE /\ r.mailbox # <<>>
              /\ LET m == Head(r.mailbox)
                 IN  IF m.type = "RequestJoin" /\ m.id = x
                     THEN Replayed(a, m, [r EXCEPT !.mailbox = Tail(@)])
                     ELSE Delay(a)

\* The journal is exhausted: a first message makes sure that the mailbox is handled.
EndReplay(a) ==
  /\ attempt[a].phase = "replay" /\ attempt[a].events = <<>>
  /\ attempt' = [attempt EXCEPT ![a].phase = "execute",
                                ![a].mailbox = Append(@, CheckStatus(NoBranch))]
  /\ UNCHANGED <<journal, branch, limits>>
----------------------------------------------------------------------------
(* Execution: every message of the mailbox, in its order.                  *)

Pending(a) == attempt[a].backlog \o attempt[a].mailbox

Handling(a, tags, type) ==
  /\ attempt[a].phase = "execute" /\ attempt[a].tag \in tags
  /\ Pending(a) # <<>> /\ Head(Pending(a)).type = type
  /\ UNCHANGED limits

\* The coordinator without the message it handles.
Taken(a) ==
  IF attempt[a].backlog # <<>> THEN [attempt[a] EXCEPT !.backlog = Tail(@)]
                               ELSE [attempt[a] EXCEPT !.mailbox = Tail(@)]

\* An event of the workflow gets the next number; r is the coordinator afterwards.
Record(a, event, r) ==
  /\ journal' = AppendTo(journal, Workflow, event)
  /\ attempt' = [attempt EXCEPT ![a] = r]

\* The first message starts the workflow, and is handled after that.
HandleNotStarted(a) ==
  /\ attempt[a].phase = "execute" /\ attempt[a].tag = "NotStarted" /\ Pending(a) # <<>>
  /\ Record(a, Attempted(attempt[a].code, 0),
            [attempt[a] EXCEPT !.tag = "Running", !.version = attempt[a].code, !.next = 1, !.fiber = "running"])
  /\ UNCHANGED <<branch, limits>>

\* Mutant: the number of the attempt is given to the next event as well.
HandleReplayUncounted(a) ==
  LET r == attempt[a]
  IN  /\ r.phase = "execute" /\ r.tag = "Replay" /\ Pending(a) # <<>>
      /\ Record(a, Attempted(r.version, r.next),
                [Taken(a) EXCEPT !.tag = "Running", !.delayed = <<>>,
                                 !.backlog = r.delayed \o <<Head(Pending(a))>>])
      /\ UNCHANGED <<branch, limits>>

\* Mutant: the attempt is recorded with the version of the code that runs it.
HandleReplayNewCode(a) ==
  LET r == attempt[a]
  IN  /\ r.phase = "execute" /\ r.tag = "Replay" /\ Pending(a) # <<>>
      /\ Record(a, Attempted(r.code, r.next),
                [Taken(a) EXCEPT !.tag = "Running", !.next = @ + 1, !.delayed = <<>>,
                                 !.backlog = r.delayed \o <<Head(Pending(a))>>])
      /\ UNCHANGED <<branch, limits>>

\* From replay to running: the messages put aside are handled first.
HandleReplay(a) ==
  LET r == attempt[a]
  IN  /\ r.phase = "execute" /\ r.tag = "Replay" /\ Pending(a) # <<>>
      /\ Record(a, Attempted(r.version, r.next),
                [Taken(a) EXCEPT !.tag = "Running", !.next = @ + 1, !.delayed = <<>>,
                                 !.backlog = r.delayed \o <<Head(Pending(a))>>])
      /\ UNCHANGED <<branch, limits>>

\* The exit is on record before the fiber of the workflow may end.
Complete(a) ==
  /\ Handling(a, {"Running"}, "RequestComplete")
  /\ Record(a, Completed(Head(Pending(a)).exit, attempt[a].next),
            [Taken(a) EXCEPT !.tag = "Completed", !.fiber = "ended"])
  /\ UNCHANGED branch

Fork(a) ==
  /\ Handling(a, {"Running"}, "RequestFork")
  /\ Record(a, Forked(Head(Pending(a)).id, attempt[a].next), [Taken(a) EXCEPT !.next = @ + 1])
  /\ Allow(a, Head(Pending(a)))

Join(a) ==
  /\ Handling(a, {"Running"}, "RequestJoin")
  /\ Record(a, Joined(Head(Pending(a)).id, attempt[a].next), [Taken(a) EXCEPT !.next = @ + 1])
  /\ Allow(a, Head(Pending(a)))

\* The interruption of the fiber is under way (Interrupt, below).
StartYielding(a) ==
  /\ Handling(a, {"Running"}, "RequestYield")
  /\ attempt' = [attempt EXCEPT ![a] = [Taken(a) EXCEPT !.tag = "Yielding"]]
  /\ UNCHANGED <<journal, branch>>

\* Nothing is recorded when the workflow yields, or once it has completed.
EndUnrecorded(a) ==
  /\ Handling(a, {"Yielding", "Completed"}, "RequestComplete")
  /\ attempt' = [attempt EXCEPT ![a] = [Taken(a) EXCEPT !.fiber = "ended"]]
  /\ UNCHANGED <<journal, branch>>

RefuseRequest(a) ==
  /\ \E type \in {"RequestFork", "RequestJoin"} : Handling(a, {"Yielding", "Completed"}, type)
  /\ attempt' = [attempt EXCEPT ![a] = Taken(a)]
  /\ Refuse(a, Head(Pending(a)))
  /\ UNCHANGED journal

IgnoreYield(a) ==
  /\ Handling(a, {"Yielding", "Completed"}, "RequestYield")
  /\ attempt' = [attempt EXCEPT ![a] = Taken(a)]
  /\ UNCHANGED <<journal, branch>>

AnswerStatus(a) ==
  /\ Handling(a, {"Running", "Yielding", "Completed"}, "CheckStatus")
  /\ attempt' = [attempt EXCEPT ![a] = Taken(a)]
  /\ TellStatus(a, Head(Pending(a)), attempt[a].tag = "Yielding")
  /\ UNCHANGED journal

\* The mailbox is shut down: the attempt ends with the exit, or interrupted.
Finish(a) ==
  /\ attempt[a].phase = "execute" /\ attempt[a].fiber = "ended" /\ attempt[a].backlog = <<>>
  /\ attempt' = [attempt EXCEPT ![a] =
       Ended(IF attempt[a].tag = "Completed" THEN "completed" ELSE "interrupted")]
  /\ branch' = [branch EXCEPT ![a] = Ready]
  /\ UNCHANGED <<journal, limits>>
----------------------------------------------------------------------------
(* The fiber of the workflow: its branches and their activities.           *)

Activity(a, b) == Program[b][branch[a][b].at]

At(a, b, pc) ==
  /\ attempt[a].fiber = "running" /\ branch[a][b].pc = pc
  /\ branch[a][b].at \in DOMAIN Program[b]
  /\ UNCHANGED limits

Become(a, b, me) == branch' = [branch EXCEPT ![a][b] = me]

\* forkAndJoin: the coordinator must let the activity start.
RequestForkOf(a, b) ==
  /\ At(a, b, "idle")
  /\ branch[a][b].at = 1 => \A c \in Branches : c < b => branch[a][c] # Ready[c]
  /\ Become(a, b, Move(a, b, "forking"))
  /\ Mail(a, RequestFork(b, Activity(a, b)))
  /\ UNCHANGED journal

\* Mutant: the activity is run whatever is on record.
ReadActivityAlwaysRun(a, b) ==
  /\ At(a, b, "forked")
  /\ Become(a, b, [Move(a, b, "attempting") EXCEPT
                     !.last = LastSequence(EventsOf(journal, Activity(a, b)))])
  /\ UNCHANGED <<journal, attempt>>

\* A result on record is returned, and the activity not run.
ReadActivity(a, b) ==
  LET events == EventsOf(journal, Activity(a, b))
      exit == ExitOf(events)
  IN  /\ At(a, b, "forked")
      /\ IF exit = NoValue
         THEN /\ Become(a, b, [Move(a, b, "attempting") EXCEPT !.last = LastSequence(events)])
              /\ UNCHANGED attempt
         ELSE /\ Become(a, b, [Move(a, b, "joinable") EXCEPT !.cut = @ \/ exit = Interrupted])
              /\ attempt' = [attempt EXCEPT ![a].got[Activity(a, b)] = exit]
      /\ UNCHANGED journal

Attempt(a, b) ==
  /\ At(a, b, "attempting")
  /\ journal' = AppendTo(journal, Activity(a, b),
                         Attempted(attempt[a].version, branch[a][b].last + 1))
  /\ Become(a, b, Move(a, b, "executing"))
  /\ UNCHANGED attempt

\* The effect of the activity, which is the program's own.
Execute(a, b) ==
  /\ At(a, b, "executing")
  /\ \E v \in Returns[a] : Become(a, b, [Move(a, b, "exited") EXCEPT !.exit = v])
  /\ UNCHANGED <<journal, attempt>>

\* isYielding
AskYielding(a, b) ==
  /\ At(a, b, "exited")
  /\ Become(a, b, Move(a, b, "asking"))
  /\ Mail(a, CheckStatus(b))
  /\ UNCHANGED journal

RecordExit(a, b) ==
  LET me == branch[a][b]
  IN  /\ At(a, b, "recording")
      /\ journal' = AppendTo(journal, Activity(a, b), Completed(me.exit, me.last + 2))
      /\ attempt' = [attempt EXCEPT ![a].got[Activity(a, b)] = me.exit]
      /\ Become(a, b, [Move(a, b, "joinable") EXCEPT !.cut = @ \/ me.exit = Interrupted, !.exit = NoValue, !.last = 0])

\* Mutant: the join does not wait for the exit to be on record.
RequestJoinEarly(a, b) ==
  /\ At(a, b, "recording") \/ At(a, b, "joinable")
  /\ Become(a, b, Move(a, b, "joining"))
  /\ Mail(a, RequestJoin(b, Activity(a, b)))
  /\ UNCHANGED journal

\* The finalizer of forkAndJoin, whatever became of the activity.
RequestJoinOf(a, b) ==
  /\ At(a, b, "joinable")
  /\ Become(a, b, Move(a, b, "joining"))
  /\ Mail(a, RequestJoin(b, Activity(a, b)))
  /\ UNCHANGED journal

\* An interruption, of the whole fiber when it yields or of a branch that is timed out,
\* reaches the branch where it is; finalizers are not interrupted.
Interrupt(a, b) ==
  LET me == branch[a][b]
  IN  /\ attempt[a].fiber = "running" /\ ~me.cut
      /\ attempt[a].tag = "Yielding" \/ (b \in Timed /\ me.pc # "idle")
      /\ Become(a, b, CASE me.pc = "idle" -> [me EXCEPT !.cut = TRUE, !.pc = "stopped"]
                         [] me.pc \in {"forking", "forked", "attempting"} ->
                              [me EXCEPT !.cut = TRUE, !.pc = "joinable", !.last = 0]
                         [] me.pc = "executing" ->
                              [me EXCEPT !.cut = TRUE, !.pc = "exited", !.exit = Interrupted]
                         [] OTHER -> [me EXCEPT !.cut = TRUE])
      /\ UNCHANGED <<journal, attempt, limits>>

BranchDone(a, b) ==
  branch[a][b].pc = "stopped" \/ (branch[a][b].pc = "idle" /\ branch[a][b].at > Len(Program[b]))

\* onExit of the workflow: the coordinator must let it end.
RequestCompleteOf(a) ==
  /\ attempt[a].fiber = "running" /\ \A b \in Branches : BranchDone(a, b)
  /\ attempt' = [Offered(a, RequestComplete(attempt[a].got)) EXCEPT ![a].fiber = "completing"]
  /\ UNCHANGED <<journal, branch, limits>>
----------------------------------------------------------------------------
Replay(a) ==
  Read(a) \/ ReplayFirstAttempted(a) \/ ReplayAttempted(a)
    \/ ReplayCompleted(a) \/ ReplayForked(a) \/ ReplayJoined(a) \/ EndReplay(a)

Handle(a) ==
  HandleNotStarted(a) \/ HandleReplay(a) \/ Complete(a) \/ Fork(a) \/ Join(a)
    \/ StartYielding(a) \/ EndUnrecorded(a) \/ RefuseRequest(a) \/ IgnoreYield(a)
    \/ AnswerStatus(a) \/ Finish(a)

RunBranch(a, b) ==
  RequestForkOf(a, b) \/ ReadActivity(a, b) \/ Attempt(a, b) \/ Execute(a, b)
    \/ AskYielding(a, b) \/ RecordExit(a, b) \/ RequestJoinOf(a, b)

\* The fibers of an attempt make progress; nobody has to interrupt it.
Progress(a) ==
  Replay(a) \/ Handle(a) \/ RequestCompleteOf(a) \/ \E b \in Branches : RunBranch(a, b) \/ Interrupt(a, b)

Next ==
  \/ Crash
  \/ \E a \in Attempts : Yield(a) \/ Progress(a) \/ \E v \in Deployed[a] : Start(a, v)

\* Fibers are scheduled fairly, activities end, and a timeout strikes or not.
Fairness ==
  \A a \in Attempts :
    /\ WF_vars(Replay(a)) /\ WF_vars(Handle(a)) /\ WF_vars(RequestCompleteOf(a))
    /\ \A b \in Branches : WF_vars(RunBranch(a, b))
    /\ \A b \in Branches : WF_vars(attempt[a].tag = "Yielding" /\ Interrupt(a, b))

Spec == Init /\ [][Next]_vars /\ Fairness
----------------------------------------------------------------------------
(* Properties.                                                             *)

\* Every variable has its type, and a branch is at one of its activities or done.
TypeOK ==
  /\ journal \in [Ids -> Seq(Events)]
  /\ attempt \in [Attempts -> AttemptType]
  /\ branch \in [Attempts -> [Branches -> BranchType]]
  /\ crashes \in 0..MaxCrashes /\ yields \in 0..MaxYields

\* The events of every id are numbered one by one, whichever attempts wrote them and
\* wherever they were cut: the replay of the workflow relies on it, and so does the
\* primary key of the journal in Postgres.
JournalInOrder ==
  /\ \A k \in DOMAIN journal[Workflow] : journal[Workflow][k].sequence = k - 1
  /\ \A x \in Activities : \A k \in DOMAIN journal[x] : journal[x][k].sequence = k

\* No replay ever ends with "Seems like journal is broken or out of order.": the events it
\* reads are the ones it expects, whatever cut the attempts that wrote them.
NeverOutOfOrder == \A a \in Attempts : attempt[a].broken # "order"

\* An activity that is on record as joined has its result on record: were it missing,
\* the replay would run the activity again, ask for the status and wait for ever.
JoinedHaveResult ==
  \A x \in Activities :
    (\E k \in DOMAIN journal[Workflow] :
        journal[Workflow][k].type = "Joined" /\ journal[Workflow][k].id = x)
      => IsCompleted(journal[x])

\* An activity whose result is on record is not run again, by any attempt.
NoReexecution ==
  [][\A a \in Attempts, b \in Branches : Execute(a, b) => ~IsCompleted(journal[Activity(a, b)])]_vars

\* Every attempt runs the version of the code that the first attempt recorded, whatever
\* version is deployed by then.
VersionPinned ==
  \A id \in Ids : \A k \in DOMAIN journal[id] :
    journal[id][k].type = "Attempted" => journal[id][k].version = journal[Workflow][1].version

\* A deterministic workflow is told that its determinism is broken only when it is
\* interrupted in the replay of a completed execution.
ReplayIsDeterministic ==
  \A a \in Attempts : attempt[a].broken # "no" => yields > 0 /\ IsCompleted(journal[Workflow])

\* Every attempt ends, interrupted or not, whatever is on record.
AttemptEnds == \A a \in Attempts : IsLive(a) ~> ~IsLive(a)

\* The execution, over all its attempts and crashes, is a durable one.
Durable == INSTANCE DurableExecution WITH
  decided <- [x \in Activities |-> ExitOf(journal[x])], outcome <- ExitOf(journal[Workflow])
RefinesDurableExecution == Durable!Spec
============================================================================
