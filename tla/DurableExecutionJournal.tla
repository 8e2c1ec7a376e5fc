----------------------- MODULE DurableExecutionJournal -----------------------
(***************************************************************************)
(* The journal of durable executions: for every persistence id the events  *)
(* appended to it, in the order of their insertion.  An event carries the  *)
(* sequence number its writer gave it; the journal does not look at it     *)
(* (the journal in memory; Postgres sorts by it and takes it for a key,    *)
(* which is the same while the numbers grow by one).                       *)
(*                                                                         *)
(* InterruptionRequested is left out: nothing appends it.                  *)
(***************************************************************************)
EXTENDS Integers, Sequences

CONSTANTS
    Activities,     \* persistence ids of activities
    Workflow,       \* persistence id of the workflow
    Values,         \* what an activity may return
    Interrupted,    \* the exit of an interrupted activity
    Versions,       \* versions of the workflow's code
    NoValue         \* Option.none()

Ids == Activities \cup {Workflow}

Attempted(v, n)  == [type |-> "Attempted", sequence |-> n, version |-> v]
Forked(x, n)     == [type |-> "Forked",    sequence |-> n, id |-> x]
Joined(x, n)     == [type |-> "Joined",    sequence |-> n, id |-> x]
Completed(e, n)  == [type |-> "Completed", sequence |-> n, exit |-> e]

Exits == Values \cup {Interrupted}

\* A workflow returns what it knows of its activities.
Results == [Activities -> Exits \cup {NoValue}]

Events ==
  [type : {"Attempted"}, sequence : Nat, version : Versions]
    \cup [type : {"Forked", "Joined"}, sequence : Nat, id : Activities]
    \cup [type : {"Completed"}, sequence : Nat, exit : Exits \cup Results]

EmptyJournal == [id \in Ids |-> <<>>]

\* append
AppendTo(journal, id, event) == [journal EXCEPT ![id] = Append(@, event)]

\* read, from sequence 0 and without waiting for more
EventsOf(journal, id) == journal[id]

IsCompleted(events) == \E k \in DOMAIN events : events[k].type = "Completed"

\* Mutant: the number before that of the first event is -1.
LastSequenceOrMinusOne(events) == IF events = <<>> THEN -1 ELSE events[Len(events)].sequence

\* The fold of an activity over its own events: the last sequence number and the exit.
LastSequence(events) == IF events = <<>> THEN 0 ELSE events[Len(events)].sequence
ExitOf(events) ==
  LET done == {k \in DOMAIN events : events[k].type = "Completed"}
      last == CHOOSE k \in done : \A l \in done : l <= k
  IN  IF done = {} THEN NoValue ELSE events[last].exit
============================================================================
