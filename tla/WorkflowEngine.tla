--------------------------- MODULE WorkflowEngine ---------------------------
(***************************************************************************)
(* WorkflowEngine.makeScoped: what happens to several requests for the     *)
(* same execution.  The key of the FiberMap is the id of the execution, so *)
(* the map holds one attempt of it at most.                                *)
(***************************************************************************)
EXTENDS WorkflowRuntime

VARIABLE keyed      \* the attempts the FiberMap holds: the last one sendDiscard made

engineVars == <<vars, keyed>>

EngineInit == Init /\ keyed = {}

\* send makes an attempt of its own, whatever attempts are under way.
Send(a, v) == Begin(a, v) /\ UNCHANGED keyed

\* getOrStartFiber: FiberMap.run interrupts the fiber it holds and starts another one at
\* once.  The fiber that is replaced waits for its coordinator to yield; one that ended has
\* left the map.
SendDiscard(a, v) ==
  /\ IsNext(a)
  /\ attempt' = [c \in Attempts |->
       IF c = a THEN Fresh(v)
       ELSE IF c \in keyed /\ IsLive(c) /\ attempt[c].fiber # "ended"
       THEN [attempt[c] EXCEPT !.mailbox = Append(@, RequestYield)] ELSE attempt[c]]
  /\ keyed' = {a}
  /\ UNCHANGED <<journal, branch, limits>>

\* The map is lost with the process.
EngineCrash == Crash /\ keyed' = {}

EngineNext ==
  \/ EngineCrash
  \/ \E a \in Attempts :
       \/ Progress(a) /\ UNCHANGED keyed
       \/ \E v \in Deployed[a] : Send(a, v) \/ SendDiscard(a, v)

EngineSpec == EngineInit /\ [][EngineNext]_engineVars
=============================================================================
