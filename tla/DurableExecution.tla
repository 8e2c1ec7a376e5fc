-------------------------- MODULE DurableExecution --------------------------
(***************************************************************************)
(* What durable execution promises, whatever crashes or is interrupted:    *)
(* the result of every activity is decided once and never changes, and the *)
(* workflow ends once, with exactly the results that were decided.         *)
(***************************************************************************)
CONSTANTS Activities, Values, NoValue

VARIABLES
    decided,    \* activity -> its result, NoValue until it has one
    outcome     \* the results the workflow ended with, NoValue before

Init ==
  /\ decided = [x \in Activities |-> NoValue]
  /\ outcome = NoValue

Decide(x, v) ==
  /\ decided[x] = NoValue /\ outcome = NoValue
  /\ decided' = [decided EXCEPT ![x] = v]
  /\ UNCHANGED outcome

End ==
  /\ outcome = NoValue
  /\ \A x \in Activities : decided[x] # NoValue
  /\ outcome' = decided
  /\ UNCHANGED decided

Next == End \/ \E x \in Activities, v \in Values : Decide(x, v)

Spec == Init /\ [][Next]_<<decided, outcome>>
============================================================================
