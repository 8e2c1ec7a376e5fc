----------------------------- MODULE EntityLife -----------------------------
(***************************************************************************)
(* What a pod shows of its entities: an entity lives, receives messages,   *)
(* processes each of them once, and its life ends with all it knew.  There *)
(* is never more than one life of an entity at a time.                     *)
(***************************************************************************)
CONSTANTS Entities, Messages

VARIABLES
    alive,      \* the entities that live
    state       \* entity -> message -> what the entity made of it, in this life

NothingKnown == [m \in Messages |-> "none"]

Init == alive = {} /\ state = [e \in Entities |-> NothingKnown]

Start(e) ==
  /\ e \notin alive
  /\ alive' = alive \cup {e}
  /\ UNCHANGED state

Receive(e, m) ==
  /\ e \in alive /\ state[e][m] = "none"
  /\ state' = [state EXCEPT ![e][m] = "Acknowledged"]
  /\ UNCHANGED alive

Process(e, m) ==
  /\ e \in alive /\ state[e][m] = "Acknowledged"
  /\ state' = [state EXCEPT ![e][m] = "Processed"]
  /\ UNCHANGED alive

End(S) ==
  /\ S \subseteq alive
  /\ alive' = alive \ S
  /\ state' = [e \in Entities |-> IF e \in S THEN NothingKnown ELSE state[e]]

Next ==
  \/ \E e \in Entities : Start(e)
  \/ \E e \in Entities, m \in Messages : Receive(e, m) \/ Process(e, m)
  \/ \E S \in SUBSET Entities : End(S)

Spec == Init /\ [][Next]_<<alive, state>>
=============================================================================
