----------------------- MODULE WorkflowRuntime_proofs -----------------------
(***************************************************************************)
(* Proofs about WorkflowRuntime, for any program, versions, values and     *)
(* bounds.                                                                 *)
(***************************************************************************)
EXTENDS WorkflowRuntime, SequenceTheorems, WellFoundedInduction, TLAPS

USE ProgramAssumption, DataAssumption, LimitsAssumption

\* Only one coordinator works at a time.
OneLive == \A a, c \in Attempts : IsLive(a) /\ IsLive(c) => a = c

\* What the coordinator r knows of the journal J of the workflow: how much of it is still
\* to be replayed, and the number of the next event.
CoordinatorFits(r, J) ==
  r.phase \in Live =>
    /\ r.code \in Versions
    /\ r.tag # "NotStarted" => r.fiber # "none"
    /\ r.phase = "reading" => r.tag = "NotStarted"
    /\ r.phase = "replay" =>
         /\ r.tag \in {"NotStarted", "Replay", "Completed"} /\ Len(r.events) <= Len(J)
         /\ \A k \in 1..Len(r.events) : r.events[k] = J[Len(J) - Len(r.events) + k]
         /\ r.tag = "NotStarted" => Len(r.events) = Len(J)
         /\ r.tag = "Replay" => r.next = Len(J) - Len(r.events)
    /\ r.phase = "execute" =>
         /\ r.tag = "NotStarted" => J = <<>>
         /\ r.tag \in {"Replay", "Running"} => r.next = Len(J)

\* The fiber of a workflow runs the version on record.
FiberFits(r, J) ==
  r.fiber # "none" => J # <<>> /\ r.version \in Versions /\ r.version = J[1].version

AttemptsFit ==
  \A a \in Attempts :
    CoordinatorFits(attempt[a], journal[Workflow]) /\ FiberFits(attempt[a], journal[Workflow])

\* A branch that records an exit has one.
BranchFits(me) == me.pc \in {"exited", "asking", "recording"} => me.exit \in Exits
BranchesFit == \A a \in Attempts, b \in Branches : BranchFits(branch[a][b])

\* What an activity has on record is an exit, not the results of a workflow.
HasExits(J) == \A k \in DOMAIN J : J[k].type = "Completed" => J[k].exit \in Exits
ResultsFit == \A x \in Activities : HasExits(journal[x])

InOrder(J) == \A k \in DOMAIN J : J[k].sequence = k - 1
WorkflowInOrder == InOrder(journal[Workflow])

\* No activity is on record before the workflow is.
WorkflowFirst == \A x \in Activities : journal[x] # <<>> => journal[Workflow] # <<>>

IInv ==
  /\ TypeOK /\ OneLive /\ AttemptsFit /\ BranchesFit /\ ResultsFit
  /\ WorkflowInOrder /\ WorkflowFirst /\ VersionPinned
----------------------------------------------------------------------------
(* Lemmas about data.                                                      *)

LEMMA NatMin ==
  ASSUME NEW S \in SUBSET Nat, S # {}
  PROVE  \E k \in S : \A l \in S : k <= l
<1> DEFINE R == OpToRel(<, Nat)
<1>1. IsWellFoundedOn(R, Nat)
  BY NatLessThanWellFounded
<1>2. \A k, l \in Nat : <<k, l>> \in R <=> k < l
  BY DEF OpToRel
<1> HIDE DEF R
<1>3. PICK k \in S : \A l \in S : ~(<<l, k>> \in R)
  BY <1>1, WFMin
<1>4. ASSUME NEW l \in S PROVE k <= l
  <2>1. k \in Nat /\ l \in Nat
    OBVIOUS
  <2>2. ~(<<l, k>> \in R)
    BY <1>3
  <2>3. ~(l < k)
    BY <1>2, <2>1, <2>2
  <2> QED BY <2>1, <2>3
<1> QED BY <1>4

\* The first of some messages is one of them, and taking it out leaves messages.
LEMMA FirstIsOne ==
  ASSUME NEW s \in Seq(Messages), NEW S \in SUBSET DOMAIN s, S # {}
  PROVE  FirstOf(S) \in S /\ s[FirstOf(S)] \in Messages /\ Without(s, FirstOf(S)) \in Seq(Messages)
<1>1. DOMAIN s = 1..Len(s) /\ Len(s) \in Nat
  BY LenProperties
<1>2. FirstOf(S) \in S
  BY <1>1, NatMin DEF FirstOf
<1> DEFINE k == FirstOf(S)
<1>3. k \in 1..Len(s) /\ \A i \in 1..Len(s) : s[i] \in Messages
  BY <1>1, <1>2, ElementOfSeq
<1> HIDE DEF k
<1>4. SubSeq(s, 1, k - 1) \in Seq(Messages) /\ SubSeq(s, k + 1, Len(s)) \in Seq(Messages)
  <2>1. \A i \in 1..(k - 1) : s[i] \in Messages
    BY <1>1, <1>3
  <2>2. \A i \in (k + 1)..Len(s) : s[i] \in Messages
    BY <1>1, <1>3
  <2> QED BY <1>1, <1>3, <2>1, <2>2, SubSeqProperties
<1>5. Without(s, k) \in Seq(Messages)
  BY <1>4, ConcatProperties DEF Without
<1> QED BY <1>2, <1>3, <1>5 DEF k

LEMMA MessageFields ==
  ASSUME NEW m \in Messages
  PROVE  /\ m.type \in {"RequestFork", "RequestJoin"} => m.branch \in Branches /\ m.id \in Activities
         /\ m.type = "RequestComplete" => m.exit \in Results
         /\ m.type = "CheckStatus" => m.branch \in Branches \cup {NoBranch}
BY DEF Messages, RequestYield

LEMMA EventFields ==
  ASSUME NEW e \in Events
  PROVE  /\ e.sequence \in Nat
         /\ e.type = "Attempted" => e.version \in Versions
         /\ e.type \in {"Forked", "Joined"} => e.id \in Activities
         /\ e.type = "Completed" => e.exit \in Exits \cup Results
BY DEF Events

LEMMA LastIsNat ==
  ASSUME NEW m \in BranchType
  PROVE  m.last + 2 \in Nat
<1>1. m.last \in Nat
  BY DEF BranchType
<1> QED BY <1>1

LEMMA MakeMessages ==
  ASSUME NEW b \in Branches
  PROVE  /\ \A x \in Activities : RequestFork(b, x) \in Messages /\ RequestJoin(b, x) \in Messages
         /\ \A e \in Results : RequestComplete(e) \in Messages
         /\ RequestYield \in Messages /\ CheckStatus(b) \in Messages
BY DEF Messages, RequestFork, RequestJoin, RequestComplete, RequestYield, CheckStatus

LEMMA MakeEvents ==
  ASSUME NEW n \in Nat
  PROVE  /\ \A v \in Versions : Attempted(v, n) \in Events
         /\ \A x \in Activities : Forked(x, n) \in Events /\ Joined(x, n) \in Events
         /\ \A e \in Exits \cup Results : Completed(e, n) \in Events
BY DEF Events, Attempted, Forked, Joined, Completed

\* An event at the end of the journal.
LEMMA Appended ==
  ASSUME NEW J \in Seq(Events), NEW e \in Events
  PROVE  /\ Append(J, e) \in Seq(Events) /\ Len(Append(J, e)) = Len(J) + 1 /\ Append(J, e) # <<>>
         /\ DOMAIN J = 1..Len(J) /\ Len(J) \in Nat /\ DOMAIN Append(J, e) = 1..(Len(J) + 1)
         /\ \A k \in 1..Len(J) : Append(J, e)[k] = J[k]
         /\ Append(J, e)[Len(J) + 1] = e
         /\ J # <<>> => Append(J, e)[1] = J[1] /\ 1 \in 1..Len(J)
         /\ J = <<>> => Len(J) = 0 /\ Append(J, e)[1] = e
BY AppendProperties, LenProperties, EmptySeq

PinnedTo(J, v) == \A k \in DOMAIN J : J[k].type = "Attempted" => J[k].version = v

LEMMA AppendedKeeps ==
  ASSUME NEW J \in Seq(Events), NEW e \in Events
  PROVE  /\ HasExits(J) /\ (e.type = "Completed" => e.exit \in Exits) => HasExits(Append(J, e))
         /\ \A v : PinnedTo(J, v) /\ (e.type = "Attempted" => e.version = v) => PinnedTo(Append(J, e), v)
         /\ InOrder(J) /\ e.sequence = Len(J) => InOrder(Append(J, e))
<1>1. \A k \in DOMAIN Append(J, e) : (k \in DOMAIN J /\ Append(J, e)[k] = J[k]) \/ (k = Len(J) + 1 /\ Append(J, e)[k] = e)
  BY Appended
<1> QED BY <1>1 DEF HasExits, PinnedTo, InOrder

\* The attempts that have ended and those that begin.
LEMMA FreshType ==
  /\ \A v \in Versions \cup {NoValue} : Fresh(v) \in AttemptType
  /\ \A p \in Phases : Ended(p) \in AttemptType /\ Ended(p).phase = p /\ Ended(p).fiber = "none"
  /\ \A v : Fresh(v).phase = "reading" /\ Fresh(v).code = v /\ Fresh(v).tag = "NotStarted"
            /\ Fresh(v).fiber = "none"
<1>1. Nothing \in Results /\ "no" \in {"no", "order", "determinism"}
  BY DEF Nothing, Results
<1>2. <<>> \in Seq(Events) /\ <<>> \in Seq(Messages)
  OBVIOUS
<1>3. ASSUME NEW v \in Versions \cup {NoValue} PROVE Fresh(v) \in AttemptType
  BY <1>1, <1>2 DEF Fresh, AttemptType, Phases, Live, Tags
<1>4. ASSUME NEW p \in Phases
      PROVE  Ended(p) \in AttemptType /\ Ended(p).phase = p /\ Ended(p).fiber = "none"
  <2>1. Ended(p) = [Fresh(NoValue) EXCEPT !.phase = p] /\ Fresh(NoValue) \in AttemptType
    BY <1>3 DEF Ended
  <2>2. Fresh(NoValue).fiber = "none"
    BY DEF Fresh
  <2> QED BY <2>1, <2>2 DEF AttemptType
<1> QED BY <1>3, <1>4 DEF Fresh

LEMMA ReadyType ==
  Ready \in [Branches -> BranchType] /\ \A b \in Branches : BranchFits(Ready[b])
BY DEF Ready, BranchType, BranchPcs, BranchFits
----------------------------------------------------------------------------
(* What the steps have in common.                                          *)

\* One attempt goes on; the journal of the workflow stays, or this attempt, which is the
\* one that is live, appends to it.
LEMMA AttemptsKeep ==
  ASSUME TypeOK, OneLive, AttemptsFit, NEW a \in Attempts, NEW r \in AttemptType,
         attempt' = [attempt EXCEPT ![a] = r],
         r.phase \in Live => \A c \in Attempts : IsLive(c) => c = a,
         CoordinatorFits(r, journal'[Workflow]), FiberFits(r, journal'[Workflow]),
         \/ journal'[Workflow] = journal[Workflow]
         \/ IsLive(a) /\ \E e \in Events : journal'[Workflow] = Append(journal[Workflow], e)
  PROVE  attempt' \in [Attempts -> AttemptType] /\ OneLive' /\ AttemptsFit'
<1>1. /\ attempt' \in [Attempts -> AttemptType]
      /\ \A c \in Attempts : attempt'[c] = IF c = a THEN r ELSE attempt[c]
  BY DEF TypeOK
<1>2. OneLive'
  BY <1>1 DEF OneLive, IsLive
<1>3. ASSUME NEW c \in Attempts
      PROVE  CoordinatorFits(attempt'[c], journal'[Workflow]) /\ FiberFits(attempt'[c], journal'[Workflow])
  <2>1. CASE c = a
    BY <1>1, <2>1
  <2>2. CASE c # a /\ journal'[Workflow] = journal[Workflow]
    BY <1>1, <2>2 DEF AttemptsFit
  <2>3. ASSUME c # a, IsLive(a), NEW e \in Events, journal'[Workflow] = Append(journal[Workflow], e)
        PROVE  CoordinatorFits(attempt'[c], journal'[Workflow]) /\ FiberFits(attempt'[c], journal'[Workflow])
    <3>1. attempt'[c] = attempt[c] /\ ~IsLive(c) /\ FiberFits(attempt[c], journal[Workflow])
      BY <1>1, <2>3 DEF OneLive, AttemptsFit
    <3>2. journal[Workflow] \in Seq(Events)
      BY DEF TypeOK, Ids
    <3>3. journal[Workflow] # <<>> => journal'[Workflow] # <<>> /\ journal'[Workflow][1] = journal[Workflow][1]
      BY <2>3, <3>2, Appended
    <3> QED BY <3>1, <3>3 DEF CoordinatorFits, FiberFits, IsLive
  <2> QED BY <2>1, <2>2, <2>3
<1>4. AttemptsFit'
  BY <1>3 DEF AttemptsFit
<1> QED BY <1>1, <1>2, <1>4

BranchesOK(B) ==
  B \in [Attempts -> [Branches -> BranchType]] /\ \A a \in Attempts, b \in Branches : BranchFits(B[a][b])

\* A step that appends nothing.
LEMMA CoordinatorKeeps ==
  ASSUME IInv, NEW a \in Attempts, NEW r \in AttemptType, attempt' = [attempt EXCEPT ![a] = r],
         r.phase \in Live => \A c \in Attempts : IsLive(c) => c = a,
         CoordinatorFits(r, journal[Workflow]), FiberFits(r, journal[Workflow]),
         BranchesOK(branch'), UNCHANGED <<journal, crashes>>, yields' \in 0..MaxYields
  PROVE  IInv'
<1>1. attempt' \in [Attempts -> AttemptType] /\ OneLive' /\ AttemptsFit'
  BY AttemptsKeep DEF IInv
<1>2. TypeOK' /\ BranchesFit'
  BY <1>1 DEF IInv, TypeOK, BranchesFit, BranchesOK
<1>3. ResultsFit' /\ WorkflowInOrder' /\ WorkflowFirst' /\ VersionPinned'
  BY DEF IInv, ResultsFit, WorkflowInOrder, WorkflowFirst, VersionPinned
<1> QED BY <1>1, <1>2, <1>3 DEF IInv

\* The coordinator appends an event with the next number to the journal of the workflow.
LEMMA RecordKeeps ==
  ASSUME IInv, NEW a \in Attempts, NEW r \in AttemptType, NEW e \in Events, Record(a, e, r),
         IsLive(a), e.sequence = Len(journal[Workflow]),
         IF journal[Workflow] = <<>> THEN e.type = "Attempted"
         ELSE e.type = "Attempted" => e.version = journal[Workflow][1].version,
         LET J == Append(journal[Workflow], e) IN CoordinatorFits(r, J) /\ FiberFits(r, J),
         BranchesOK(branch'), UNCHANGED limits
  PROVE  IInv'
<1> DEFINE J == journal[Workflow]
<1>1. /\ journal \in [Ids -> Seq(Events)] /\ Workflow \in Ids /\ Activities \subseteq Ids
      /\ Workflow \notin Activities
  BY DEF IInv, TypeOK, Ids
<1>2. /\ journal' \in [Ids -> Seq(Events)] /\ journal'[Workflow] = Append(J, e)
      /\ \A x \in Activities : journal'[x] = journal[x]
  <2>1. J \in Seq(Events) /\ journal' = [journal EXCEPT ![Workflow] = Append(J, e)]
    BY <1>1 DEF Record, AppendTo
  <2>2. Append(J, e) \in Seq(Events)
    BY <2>1, Appended
  <2> QED BY <1>1, <2>1, <2>2
<1>3. attempt' \in [Attempts -> AttemptType] /\ OneLive' /\ AttemptsFit'
  BY <1>2, AttemptsKeep, ZenonT(60) DEF IInv, OneLive, Record
<1>4. TypeOK' /\ BranchesFit'
  BY <1>2, <1>3 DEF IInv, TypeOK, BranchesFit, BranchesOK, limits
<1>5. J \in Seq(Events)
  BY <1>1
<1> HIDE DEF J
<1>6. /\ DOMAIN J = 1..Len(J) /\ Len(J) \in Nat /\ DOMAIN Append(J, e) = 1..(Len(J) + 1)
      /\ \A k \in 1..Len(J) : Append(J, e)[k] = J[k]
      /\ Append(J, e)[Len(J) + 1] = e /\ Append(J, e) # <<>>
      /\ J # <<>> => Append(J, e)[1] = J[1]
      /\ J = <<>> => Append(J, e)[1] = e /\ Len(J) = 0
  BY <1>5, Appended
<1>7. WorkflowInOrder' /\ WorkflowFirst' /\ ResultsFit'
  <2>1. InOrder(J) /\ e.sequence = Len(J)
    BY DEF IInv, WorkflowInOrder, J
  <2>2. InOrder(Append(J, e))
    BY <1>5, <2>1, AppendedKeeps
  <2> QED BY <1>2, <1>6, <2>2 DEF IInv, WorkflowInOrder, WorkflowFirst, ResultsFit
<1>8. VersionPinned'
  <2>1. CASE J = <<>>
    <3>1. \A x \in Activities : journal'[x] = <<>>
      BY <1>2, <2>1 DEF IInv, WorkflowFirst, J
    <3>2. \A k \in DOMAIN journal'[Workflow] : k = 1
      BY <1>2, <1>6, <2>1
    <3> QED BY <3>1, <3>2, EmptySeq DEF VersionPinned, Ids
  <2>2. CASE J # <<>>
    <3>1. journal'[Workflow][1] = J[1] /\ (e.type = "Attempted" => e.version = J[1].version)
      BY <1>2, <1>6, <2>2 DEF J
    <3>2. \A id \in Ids : PinnedTo(journal[id], J[1].version)
      BY DEF IInv, VersionPinned, PinnedTo, J
    <3>3. PinnedTo(J, J[1].version)
      BY <1>1, <3>2 DEF J
    <3>4. PinnedTo(Append(J, e), J[1].version)
      BY <1>5, <3>1, <3>3, AppendedKeeps
    <3>5. \A id \in Ids : PinnedTo(journal'[id], J[1].version)
      BY <1>1, <1>2, <3>2, <3>4 DEF Ids
    <3> QED BY <3>1, <3>5 DEF VersionPinned, PinnedTo
  <2> QED BY <2>1, <2>2
<1> QED BY <1>3, <1>4, <1>7, <1>8 DEF IInv

\* A branch appends to the journal of its activity.
LEMMA ActivityKeeps ==
  ASSUME IInv, NEW a \in Attempts, NEW r \in AttemptType, attempt' = [attempt EXCEPT ![a] = r],
         r.phase \in Live => \A c \in Attempts : IsLive(c) => c = a,
         CoordinatorFits(r, journal[Workflow]), FiberFits(r, journal[Workflow]),
         NEW x \in Activities, NEW e \in Events, journal' = AppendTo(journal, x, e),
         journal[Workflow] # <<>>,
         e.type = "Attempted" => e.version = journal[Workflow][1].version,
         e.type = "Completed" => e.exit \in Exits,
         BranchesOK(branch'), UNCHANGED limits
  PROVE  IInv'
<1> DEFINE J == journal[x]
<1>1. journal \in [Ids -> Seq(Events)] /\ x \in Ids /\ Workflow \in Ids /\ x # Workflow
  BY DEF IInv, TypeOK, Ids
<1>2. J \in Seq(Events)
  BY <1>1
<1>3. journal' = [journal EXCEPT ![x] = Append(J, e)]
  BY DEF AppendTo
<1> HIDE DEF J
<1>4. /\ Append(J, e) \in Seq(Events)
      /\ DOMAIN J = 1..Len(J) /\ Len(J) \in Nat /\ DOMAIN Append(J, e) = 1..(Len(J) + 1)
      /\ \A k \in 1..Len(J) : Append(J, e)[k] = J[k]
      /\ Append(J, e)[Len(J) + 1] = e
  BY <1>2, Appended
<1>5. /\ journal' \in [Ids -> Seq(Events)] /\ journal'[Workflow] = journal[Workflow]
      /\ journal'[x] = Append(J, e) /\ \A id \in Ids : id # x => journal'[id] = journal[id]
  BY <1>1, <1>3, <1>4
<1>6. attempt' \in [Attempts -> AttemptType] /\ OneLive' /\ AttemptsFit'
  BY <1>5, AttemptsKeep DEF IInv
<1>7. TypeOK' /\ BranchesFit'
  BY <1>5, <1>6 DEF IInv, TypeOK, BranchesFit, BranchesOK, limits
<1>8. WorkflowInOrder' /\ WorkflowFirst'
  BY <1>5 DEF IInv, WorkflowInOrder, WorkflowFirst
<1>9. ResultsFit'
  <2>1. HasExits(J) /\ \A y \in Activities : HasExits(journal[y])
    BY DEF IInv, ResultsFit, J
  <2>2. HasExits(Append(J, e))
    BY <1>2, <2>1, AppendedKeeps
  <2> QED BY <1>5, <2>1, <2>2 DEF ResultsFit, Ids
<1>10. VersionPinned'
  <2> DEFINE v == journal[Workflow][1].version
  <2>1. \A id \in Ids : PinnedTo(journal[id], v)
    BY DEF IInv, VersionPinned, PinnedTo
  <2>2. PinnedTo(J, v) /\ journal'[Workflow][1].version = v
    BY <1>1, <1>5, <2>1 DEF J
  <2>3. e.type = "Attempted" => e.version = v
    OBVIOUS
  <2> HIDE DEF v
  <2>4. PinnedTo(Append(J, e), v)
    BY <1>2, <2>2, <2>3, AppendedKeeps
  <2>5. \A id \in Ids : PinnedTo(journal'[id], v)
    BY <1>5, <2>1, <2>4
  <2> QED BY <2>2, <2>5 DEF VersionPinned, PinnedTo
<1> QED BY <1>6, <1>7, <1>8, <1>9, <1>10 DEF IInv
----------------------------------------------------------------------------
(* Branches.                                                               *)

LEMMA BranchTyped ==
  ASSUME NEW B, BranchesOK(B), NEW a \in Attempts, NEW b \in Branches
  PROVE  B[a][b] \in BranchType /\ BranchFits(B[a][b])
BY DEF BranchesOK

LEMMA BranchPut ==
  ASSUME BranchesOK(branch), NEW a \in Attempts, NEW b \in Branches,
         NEW me \in BranchType, BranchFits(me), branch' = [branch EXCEPT ![a][b] = me]
  PROVE  BranchesOK(branch')
<1>1. \A c \in Attempts, d \in Branches :
        branch'[c][d] = IF c = a /\ d = b THEN me ELSE branch[c][d]
  BY DEF BranchesOK
<1>2. branch' \in [Attempts -> [Branches -> BranchType]]
  BY DEF BranchesOK
<1> QED BY <1>1, <1>2 DEF BranchesOK

LEMMA WakeOK ==
  ASSUME BranchesOK(branch), NEW a \in Attempts, NEW m, m.branch \in Branches \cup {NoBranch}, NEW me,
         m.branch \in Branches => me \in BranchType /\ BranchFits(me), Wake(a, m, me)
  PROVE  BranchesOK(branch')
<1>1. CASE branch' = branch
  BY <1>1
<1>2. CASE m.branch \in Branches /\ branch' = [branch EXCEPT ![a][m.branch] = me]
  BY <1>2, BranchPut
<1> QED BY <1>1, <1>2 DEF Wake

LEMMA BranchMoves ==
  ASSUME BranchesOK(branch), NEW a \in Attempts, NEW b \in Branches, NEW pc \in BranchPcs,
         pc \notin {"exited", "asking", "recording"}
  PROVE  /\ Move(a, b, pc) \in BranchType /\ BranchFits(Move(a, b, pc))
         /\ Move(a, b, pc).pc = pc
         /\ Move(a, b, pc).at = branch[a][b].at /\ Move(a, b, pc).cut = branch[a][b].cut
<1>1. branch[a][b] \in BranchType
  BY DEF BranchesOK
<1> QED BY <1>1 DEF Move, BranchType, BranchFits

LEMMA AllowOK ==
  ASSUME BranchesOK(branch), NEW a \in Attempts, NEW m \in Messages,
         m.type \in {"RequestFork", "RequestJoin"}, Allow(a, m)
  PROVE  BranchesOK(branch')
<1> DEFINE me == branch[a][m.branch]
<1>1. m.branch \in Branches /\ me \in BranchType /\ BranchFits(me)
  <2>1. m.branch \in Branches
    BY MessageFields
  <2> QED BY <2>1, BranchTyped
<1>2. PICK t : Wake(a, m, t) /\ t \in {[me EXCEPT !.pc = "forked"], [me EXCEPT !.pc = "stopped"],
                                       [me EXCEPT !.pc = "idle", !.at = @ + 1]}
  BY DEF Allow
<1>3. t \in BranchType /\ BranchFits(t)
  <2>1. PICK pc \in {"forked", "stopped", "idle"}, at \in Nat : t = [me EXCEPT !.pc = pc, !.at = at]
    <3> HIDE DEF me
    <3>1. me.at \in Nat /\ me.at + 1 \in Nat
      BY <1>1 DEF BranchType
    <3>2. \A pc : [me EXCEPT !.pc = pc] = [me EXCEPT !.pc = pc, !.at = me.at]
      BY <1>1 DEF BranchType
    <3> QED BY <1>2, <3>1, <3>2
  <2> HIDE DEF me
  <2> QED BY <1>1, <2>1 DEF BranchType, BranchPcs, BranchFits
<1> QED BY <1>1, <1>2, <1>3, WakeOK

LEMMA RefuseOK ==
  ASSUME BranchesOK(branch), NEW a \in Attempts, NEW m \in Messages,
         m.type \in {"RequestFork", "RequestJoin"}, Refuse(a, m)
  PROVE  BranchesOK(branch')
<1> DEFINE me == branch[a][m.branch]
<1>1. m.branch \in Branches /\ me \in BranchType /\ BranchFits(me)
  <2>1. m.branch \in Branches
    BY MessageFields
  <2> QED BY <2>1, BranchTyped
<1>2. PICK pc \in {"joinable", "stopped"} : Wake(a, m, [me EXCEPT !.pc = pc, !.cut = TRUE])
  BY DEF Refuse
<1>3. [me EXCEPT !.pc = pc, !.cut = TRUE] \in BranchType /\ BranchFits([me EXCEPT !.pc = pc, !.cut = TRUE])
  <2> HIDE DEF me
  <2> QED BY <1>1 DEF BranchType, BranchPcs, BranchFits
<1> QED BY <1>1, <1>2, <1>3, WakeOK

\* Who asks for the status has an exit to record.
LEMMA TellOK ==
  ASSUME BranchesOK(branch), NEW a \in Attempts, NEW m \in Messages, m.type = "CheckStatus",
         NEW yielding, TellStatus(a, m, yielding)
  PROVE  BranchesOK(branch')
<1> DEFINE me == branch[a][m.branch]
<1>1. m.branch \in Branches \cup {NoBranch}
  BY MessageFields
<1>2. CASE m.branch \notin Branches \/ me.pc # "asking"
  BY <1>1, <1>2 DEF TellStatus, Wake, WaitsFor
<1>3. CASE m.branch \in Branches /\ me.pc = "asking"
  <2>1. me \in BranchType /\ me.exit \in Exits
    BY <1>3, BranchTyped DEF BranchFits
  <2>2. PICK t : Wake(a, m, t) /\ t \in {[[me EXCEPT !.pc = "joinable"] EXCEPT !.exit = NoValue, !.last = 0],
                                         [me EXCEPT !.pc = "recording"]}
    BY DEF TellStatus, Move
  <2>3. t \in BranchType /\ BranchFits(t)
    <3> HIDE DEF me
    <3>1. CASE t = [[me EXCEPT !.pc = "joinable"] EXCEPT !.exit = NoValue, !.last = 0]
      BY <2>1, <3>1 DEF BranchType, BranchPcs, BranchFits
    <3>2. CASE t = [me EXCEPT !.pc = "recording"]
      BY <2>1, <3>2 DEF BranchType, BranchPcs, BranchFits
    <3> QED BY <2>2, <3>1, <3>2
  <2> QED BY <1>1, <2>2, <2>3, WakeOK
<1> QED BY <1>2, <1>3
----------------------------------------------------------------------------
(* Coordinators.                                                           *)

\* A change that does not concern the journal.
LEMMA FitsAsBefore ==
  ASSUME NEW J, NEW r, NEW t, CoordinatorFits(r, J), FiberFits(r, J),
         t.phase = r.phase, t.code = r.code, t.events = r.events, t.tag = r.tag, t.version = r.version,
         t.next = r.next, t.fiber = "none" <=> r.fiber = "none"
  PROVE  CoordinatorFits(t, J) /\ FiberFits(t, J)
BY DEF CoordinatorFits, FiberFits

\* The event at the head of what is to be replayed is where it was in the journal.
LEMMA PastFits ==
  ASSUME NEW J \in Seq(Events), InOrder(J), NEW r \in AttemptType, r.phase = "replay",
         CoordinatorFits(r, J), r.events # <<>>
  PROVE  LET n == Len(J) - Len(r.events)
             p == Past(r)
         IN  /\ n \in Nat /\ J # <<>> /\ Head(r.events) \in Events /\ Head(r.events) = J[n + 1]
             /\ p \in AttemptType /\ p.next = n + 1 /\ Len(p.events) = Len(r.events) - 1
             /\ Len(p.events) <= Len(J)
             /\ \A k \in 1..Len(p.events) : p.events[k] = J[Len(J) - Len(p.events) + k]
             /\ p.phase = r.phase /\ p.code = r.code /\ p.tag = r.tag /\ p.version = r.version
             /\ p.fiber = r.fiber
<1> DEFINE s == r.events
           n == Len(J) - Len(s)
           p == Past(r)
<1>1. s \in Seq(Events) /\ Len(s) \in Nat /\ Len(J) \in Nat
  BY LenProperties DEF AttemptType
<1>2. Len(s) >= 1
  BY <1>1, EmptySeq
<1>3. Len(s) <= Len(J) /\ \A k \in 1..Len(s) : s[k] = J[n + k]
  BY DEF CoordinatorFits, Live
<1>4. Head(s) = s[1] /\ Head(s) \in Events
  BY <1>1, <1>2, HeadTailProperties
<1> DEFINE l == Len(s)
           j == Len(J)
<1>5. n \in Nat /\ n = j - l /\ l \in Nat /\ j \in Nat /\ n + 1 \in 1..j /\ 1 \in 1..l
  <2>1. l \in Nat /\ j \in Nat /\ 1 <= l /\ l <= j /\ n = j - l
    BY <1>1, <1>2, <1>3
  <2> HIDE DEF l, j, n
  <2> QED BY <2>1
<1>6. /\ Head(s) = J[n + 1] /\ J # <<>> /\ Head(s).sequence = n
  <2>1. DOMAIN J = 1..j
    BY LenProperties
  <2>2. s[1] = J[n + 1]
    BY <1>3, <1>5
  <2> HIDE DEF n, j, l
  <2>3. J # <<>> /\ n + 1 \in DOMAIN J
    BY <1>5, <2>1
  <2>4. J[n + 1].sequence = (n + 1) - 1
    BY <2>3 DEF InOrder
  <2> QED BY <1>4, <1>5, <2>2, <2>3, <2>4
<1>7. /\ Tail(s) \in Seq(Events) /\ Len(Tail(s)) = Len(s) - 1
      /\ \A k \in 1..(Len(s) - 1) : Tail(s)[k] = s[k + 1]
  BY <1>1, <1>2, HeadTailProperties
<1>8. /\ p \in AttemptType /\ p.events = Tail(s) /\ p.next = n + 1
      /\ p.phase = r.phase /\ p.code = r.code /\ p.tag = r.tag /\ p.version = r.version
      /\ p.fiber = r.fiber
  <2>1. p = [r EXCEPT !.events = Tail(s), !.next = n + 1]
    BY <1>6 DEF Past
  <2>2. n + 1 \in Nat
    BY <1>5
  <2> HIDE DEF n, p
  <2> QED BY <1>7, <2>1, <2>2 DEF AttemptType
<1>9. \A k \in 1..(Len(s) - 1) : Tail(s)[k] = J[Len(J) - (Len(s) - 1) + k]
  <2>1. ASSUME NEW k \in 1..(l - 1) PROVE Tail(s)[k] = J[j - (l - 1) + k]
    <3>1. k + 1 \in 1..l /\ n + (k + 1) = j - (l - 1) + k
      <4> HIDE DEF l, j, n
      <4> QED BY <1>5
    <3>2. Tail(s)[k] = s[k + 1] /\ s[k + 1] = J[n + (k + 1)]
      BY <1>3, <1>7, <3>1
    <3> QED BY <3>1, <3>2
  <2> QED BY <2>1
<1>10. Len(s) - 1 <= Len(J)
  BY <1>1, <1>3
<1> HIDE DEF p
<1> QED BY <1>4, <1>5, <1>6, <1>7, <1>8, <1>9, <1>10, ZenonT(60) DEF p

LEMMA TypedState ==
  ASSUME IInv, NEW a \in Attempts
  PROVE  /\ attempt[a] \in AttemptType /\ journal[Workflow] \in Seq(Events)
         /\ InOrder(journal[Workflow])
         /\ CoordinatorFits(attempt[a], journal[Workflow]) /\ FiberFits(attempt[a], journal[Workflow])
         /\ BranchesOK(branch) /\ yields \in 0..MaxYields
         /\ IsLive(a) => \A c \in Attempts : IsLive(c) => c = a
BY DEF IInv, TypeOK, Ids, WorkflowInOrder, AttemptsFit, BranchesOK, BranchesFit, OneLive

\* The coordinator dies: its fiber stays as it is.
LEMMA DeathKeeps ==
  ASSUME IInv, NEW a \in Attempts, NEW why \in {"order", "determinism"}, Die(a, why),
         UNCHANGED <<journal, limits>>
  PROVE  IInv'
<1> DEFINE r == [attempt[a] EXCEPT !.phase = "died", !.broken = why]
<1>1. /\ r \in AttemptType /\ r.phase = "died" /\ r.version = attempt[a].version
      /\ r.fiber = attempt[a].fiber
  <2>1. attempt[a] \in AttemptType /\ why \in {"no", "order", "determinism"}
    BY TypedState
  <2>2. "died" \in Phases
    BY DEF Phases
  <2> QED BY <2>1, <2>2 DEF AttemptType
<1>2. attempt' = [attempt EXCEPT ![a] = r] /\ branch' = branch
  BY DEF Die
<1> HIDE DEF r
<1>3. r.phase \notin Live
  BY <1>1 DEF Live
<1>4. CoordinatorFits(r, journal[Workflow]) /\ FiberFits(r, journal[Workflow])
  BY <1>1, <1>3, TypedState DEF CoordinatorFits, FiberFits
<1> QED BY <1>1, <1>2, <1>3, <1>4, TypedState, CoordinatorKeeps DEF limits

\* A message is put into a mailbox.
LEMMA MailType ==
  ASSUME IInv, NEW a \in Attempts, NEW m \in Messages
  PROVE  LET r == [attempt[a] EXCEPT !.mailbox = Append(@, m)]
         IN  /\ r \in AttemptType /\ r.phase = attempt[a].phase /\ Offered(a, m) = [attempt EXCEPT ![a] = r]
             /\ r.fiber = attempt[a].fiber
             /\ CoordinatorFits(r, journal[Workflow]) /\ FiberFits(r, journal[Workflow])
<1> DEFINE r == [attempt[a] EXCEPT !.mailbox = Append(@, m)]
<1>1. attempt[a] \in AttemptType
  BY TypedState
<1>2. Append(attempt[a].mailbox, m) \in Seq(Messages)
  BY <1>1, AppendProperties DEF AttemptType
<1>3. /\ r \in AttemptType /\ r.phase = attempt[a].phase /\ r.code = attempt[a].code
      /\ r.events = attempt[a].events /\ r.tag = attempt[a].tag /\ r.version = attempt[a].version
      /\ r.next = attempt[a].next /\ r.fiber = attempt[a].fiber
  BY <1>1, <1>2 DEF AttemptType
<1>4. Offered(a, m) = [attempt EXCEPT ![a] = r]
  BY DEF Offered
<1> HIDE DEF r
<1>5. CoordinatorFits(r, journal[Workflow]) /\ FiberFits(r, journal[Workflow])
  BY <1>3, TypedState, FitsAsBefore, ZenonT(60)
<1> QED BY <1>3, <1>4, <1>5 DEF r
----------------------------------------------------------------------------
(* The life of an attempt and its replay.                                  *)

\* Every attempt begins with a version that is deployed, and after all others have ended.
LEMMA StartKeeps ==
  ASSUME IInv, NEW a \in Attempts, NEW v \in Deployed[a], Start(a, v)
  PROVE  IInv'
<1> DEFINE r == Fresh(v)
<1>1. v \in Versions
  OBVIOUS
<1>2. r \in AttemptType /\ r.phase = "reading" /\ r.code = v /\ r.tag = "NotStarted" /\ r.fiber = "none"
  BY <1>1, FreshType
<1>3. attempt' = [attempt EXCEPT ![a] = r] /\ UNCHANGED <<journal, branch, limits>> /\ \A c \in Attempts : ~IsLive(c)
  BY DEF Start, Begin
<1> HIDE DEF r
<1>4. CoordinatorFits(r, journal[Workflow]) /\ FiberFits(r, journal[Workflow])
  BY <1>1, <1>2 DEF CoordinatorFits, FiberFits
<1> QED BY <1>2, <1>3, <1>4, TypedState, CoordinatorKeeps DEF limits

LEMMA YieldKeeps ==
  ASSUME IInv, NEW a \in Attempts, Yield(a)
  PROVE  IInv'
<1> DEFINE r == [attempt[a] EXCEPT !.mailbox = Append(@, RequestYield)]
<1>1. RequestYield \in Messages
  BY DEF RequestYield, Messages
<1>2. /\ r \in AttemptType /\ r.phase = attempt[a].phase /\ attempt' = [attempt EXCEPT ![a] = r]
      /\ CoordinatorFits(r, journal[Workflow]) /\ FiberFits(r, journal[Workflow])
  BY <1>1, MailType DEF Yield, Mail
<1>3. IsLive(a) /\ yields' \in 0..MaxYields /\ UNCHANGED <<journal, branch, crashes>>
  BY DEF Yield, IInv, TypeOK
<1> HIDE DEF r
<1> QED BY <1>2, <1>3, TypedState, CoordinatorKeeps

\* A crash ends what lives, and what died.
LEMMA CrashKeeps ==
  ASSUME IInv, Crash
  PROVE  IInv'
<1>1. /\ crashes' \in 0..MaxCrashes /\ UNCHANGED <<journal, yields>>
      /\ branch' = [a \in Attempts |-> Ready]
      /\ attempt' = [a \in Attempts |-> IF attempt[a].phase \in Live \cup {"died"}
                                        THEN Ended("crashed") ELSE attempt[a]]
  BY DEF Crash, IInv, TypeOK
<1>2. "crashed" \in Phases /\ "crashed" \notin Live
  BY DEF Phases, Live
<1>3. ASSUME NEW a \in Attempts
      PROVE  /\ attempt'[a] \in AttemptType /\ ~IsLive(a)'
             /\ CoordinatorFits(attempt'[a], journal[Workflow]) /\ FiberFits(attempt'[a], journal[Workflow])
  <2>1. CASE attempt'[a] = Ended("crashed")
    <3>1. Ended("crashed") \in AttemptType /\ Ended("crashed").phase \notin Live /\ Ended("crashed").fiber = "none"
      BY <1>2, FreshType
    <3> QED BY <2>1, <3>1 DEF IsLive, CoordinatorFits, FiberFits
  <2>2. CASE attempt'[a] = attempt[a] /\ ~IsLive(a)
    BY <2>2, TypedState DEF IsLive
  <2> QED BY <1>1, <2>1, <2>2 DEF IsLive
<1>4. BranchesOK(branch')
  BY <1>1, ReadyType DEF BranchesOK
<1>5. TypeOK' /\ BranchesFit' /\ OneLive' /\ AttemptsFit'
  BY <1>1, <1>3, <1>4 DEF IInv, TypeOK, BranchesOK, BranchesFit, OneLive, AttemptsFit
<1>6. ResultsFit' /\ WorkflowInOrder' /\ WorkflowFirst' /\ VersionPinned'
  BY <1>1 DEF IInv, ResultsFit, WorkflowInOrder, WorkflowFirst, VersionPinned
<1> QED BY <1>5, <1>6 DEF IInv

LEMMA ReadKeeps ==
  ASSUME IInv, NEW a \in Attempts, Read(a)
  PROVE  IInv'
<1> DEFINE J == journal[Workflow]
           r == [attempt[a] EXCEPT !.phase = "replay", !.events = J]
<1>1. attempt' = [attempt EXCEPT ![a] = r] /\ attempt[a].phase = "reading" /\ UNCHANGED <<journal, branch, limits>>
  BY DEF Read, EventsOf
<1>2. /\ attempt[a] \in AttemptType /\ J \in Seq(Events) /\ IsLive(a)
      /\ attempt[a].tag = "NotStarted" /\ attempt[a].code \in Versions
  BY <1>1, TypedState DEF CoordinatorFits, IsLive, Live
<1> HIDE DEF J
<1>3. /\ r \in AttemptType /\ r.phase = "replay" /\ r.events = J /\ r.tag = "NotStarted"
      /\ r.code = attempt[a].code /\ r.fiber = attempt[a].fiber /\ r.version = attempt[a].version
  BY <1>2 DEF AttemptType, Phases, Live
<1> HIDE DEF r
<1>4. Len(J) \in Nat /\ \A k \in 1..Len(J) : Len(J) - Len(J) + k = k
  BY <1>2, LenProperties
<1>5. CoordinatorFits(r, J)
  BY <1>2, <1>3, <1>4 DEF CoordinatorFits
<1>6. FiberFits(r, J)
  BY <1>3, TypedState DEF FiberFits, J
<1> QED BY <1>1, <1>2, <1>3, <1>5, <1>6, TypedState, CoordinatorKeeps DEF limits, J

\* The coordinator t is r after the event at the head of its journal.
LEMMA AfterPast ==
  ASSUME NEW J \in Seq(Events), InOrder(J), NEW r \in AttemptType, r.phase = "replay",
         CoordinatorFits(r, J), r.events # <<>>,
         NEW t, t.phase = "replay", t.code = r.code, t.events = Past(r).events, t.next = Past(r).next,
         t.tag \in {"Replay", "Completed"}, t.fiber # "none", t.version \in Versions,
         t.version = J[1].version
  PROVE  CoordinatorFits(t, J) /\ FiberFits(t, J)
<1> DEFINE l == Len(r.events)
           j == Len(J)
           p == Past(r)
<1>1. /\ J # <<>> /\ p.next = (j - l) + 1 /\ Len(p.events) = l - 1 /\ Len(p.events) <= Len(J)
      /\ \A k \in 1..Len(p.events) : p.events[k] = J[Len(J) - Len(p.events) + k]
  BY PastFits
<1>2. t.next = j - Len(t.events)
  <2>1. l \in Nat /\ j \in Nat
    BY LenProperties DEF AttemptType
  <2> HIDE DEF l, j, p
  <2> QED BY <1>1, <2>1 DEF p
<1>3. r.code \in Versions
  BY DEF CoordinatorFits, Live
<1> HIDE DEF p, l, j
<1> QED BY <1>1, <1>2, <1>3 DEF CoordinatorFits, FiberFits, p, j

\* What the fiber of a workflow that runs has for a version.
LEMMA RunningVersion ==
  ASSUME IInv, NEW a \in Attempts, attempt[a].fiber # "none"
  PROVE  /\ journal[Workflow] # <<>> /\ attempt[a].version \in Versions
         /\ attempt[a].version = journal[Workflow][1].version
BY TypedState DEF FiberFits

\* The first attempt on record is the first event, and gives the version.
LEMMA ReplayFirstKeeps ==
  ASSUME IInv, NEW a \in Attempts, ReplayFirstAttempted(a)
  PROVE  IInv'
<1> DEFINE J == journal[Workflow]
           r == attempt[a]
           t == [Past(r) EXCEPT !.tag = "Replay", !.version = Head(r.events).version, !.fiber = "running"]
<1>1. /\ r.phase = "replay" /\ r.events # <<>> /\ r.tag = "NotStarted"
      /\ Head(r.events).type = "Attempted" /\ attempt' = [attempt EXCEPT ![a] = t]
      /\ UNCHANGED <<journal, branch, limits>>
  BY DEF ReplayFirstAttempted, Replaying
<1>2. /\ r \in AttemptType /\ J \in Seq(Events) /\ InOrder(J) /\ CoordinatorFits(r, J) /\ IsLive(a)
  BY <1>1, TypedState DEF IsLive, Live
<1>3. /\ Head(r.events) \in Events /\ Head(r.events) = J[Len(J) - Len(r.events) + 1]
      /\ Past(r) \in AttemptType /\ Past(r).phase = "replay" /\ Past(r).code = r.code
  BY <1>1, <1>2, PastFits, ZenonT(60)
<1>4. Head(r.events) = J[1]
  <2>1. Len(r.events) = Len(J) /\ Len(J) \in Nat
    BY <1>1, <1>2, LenProperties DEF CoordinatorFits, Live
  <2> QED BY <1>3, <2>1
<1>5. Head(r.events).version \in Versions
  BY <1>1, <1>3, EventFields
<1>6. /\ t \in AttemptType /\ t.phase = "replay" /\ t.code = r.code /\ t.events = Past(r).events
      /\ t.next = Past(r).next /\ t.tag = "Replay" /\ t.fiber = "running"
      /\ t.version = Head(r.events).version
  <2> DEFINE p == Past(r)
             v == Head(r.events).version
  <2>1. p \in AttemptType /\ v \in Versions /\ p.phase = "replay" /\ p.code = r.code
    BY <1>3, <1>5
  <2> HIDE DEF p, v, r
  <2>2. t = [p EXCEPT !.tag = "Replay", !.version = v, !.fiber = "running"]
    BY DEF p, v
  <2> HIDE DEF t
  <2>3. /\ t \in AttemptType /\ t.phase = "replay" /\ t.code = r.code /\ t.events = p.events
        /\ t.next = p.next /\ t.tag = "Replay" /\ t.fiber = "running" /\ t.version = v
    BY <2>1, <2>2 DEF AttemptType, Tags
  <2> QED BY <2>3 DEF p, v
<1> HIDE DEF t, J, r
<1>7. CoordinatorFits(t, J) /\ FiberFits(t, J)
  BY <1>1, <1>2, <1>4, <1>5, <1>6, AfterPast
<1> QED BY <1>1, <1>2, <1>6, <1>7, TypedState, CoordinatorKeeps DEF limits, J

\* An event is replayed for a workflow that runs; r is the coordinator without the message
\* the event waits for.
LEMMA PastKeeps ==
  ASSUME IInv, NEW a \in Attempts, NEW r \in AttemptType, NEW tag \in {"Replay", "Completed"},
         attempt' = [attempt EXCEPT ![a] = [Past(r) EXCEPT !.tag = tag]],
         attempt[a].phase = "replay", attempt[a].events # <<>>, attempt[a].tag \in {"Replay", "Completed"},
         r.phase = attempt[a].phase, r.code = attempt[a].code, r.events = attempt[a].events,
         r.tag = attempt[a].tag, r.version = attempt[a].version, r.next = attempt[a].next,
         r.fiber = attempt[a].fiber,
         BranchesOK(branch'), UNCHANGED <<journal, limits>>
  PROVE  IInv'
<1> DEFINE J == journal[Workflow]
           p == Past(r)
           t == [p EXCEPT !.tag = tag]
<1>1. /\ J \in Seq(Events) /\ InOrder(J) /\ CoordinatorFits(r, J) /\ IsLive(a)
  BY TypedState, FitsAsBefore DEF IsLive, Live
<1>2. r.fiber # "none"
  BY TypedState DEF CoordinatorFits, Live
<1>3. r.version \in Versions /\ r.version = J[1].version
  BY <1>2, RunningVersion
<1>4. /\ p \in AttemptType /\ p.phase = "replay" /\ p.code = r.code /\ p.version = r.version
      /\ p.fiber = r.fiber
  <2>1. r.phase = "replay" /\ r.events # <<>>
    OBVIOUS
  <2> HIDE DEF J
  <2> QED BY ONLY <1>1, <2>1, r \in AttemptType, PastFits DEF p
<1> HIDE DEF p, J
<1>5. /\ t \in AttemptType /\ t.phase = "replay" /\ t.code = r.code /\ t.events = p.events
      /\ t.next = p.next /\ t.tag = tag /\ t.fiber = r.fiber /\ t.version = r.version
  BY <1>4 DEF AttemptType, Tags
<1>6. attempt' = [attempt EXCEPT ![a] = t]
  BY DEF p
<1> HIDE DEF t
<1>7. CoordinatorFits(t, J) /\ FiberFits(t, J)
  BY <1>1, <1>2, <1>3, <1>5, AfterPast DEF p
<1> QED BY <1>1, <1>5, <1>6, <1>7, TypedState, CoordinatorKeeps DEF limits, J

LEMMA ReplayAttemptedKeeps ==
  ASSUME IInv, NEW a \in Attempts, ReplayAttempted(a)
  PROVE  IInv'
<1> DEFINE r == attempt[a]
<1>1. r.phase = "replay" /\ r.events # <<>> /\ UNCHANGED <<journal, limits>>
  BY DEF ReplayAttempted, Replaying
<1>2. CASE Die(a, "order")
  BY <1>1, <1>2, DeathKeeps
<1>3. CASE r.tag = "Replay" /\ attempt' = [attempt EXCEPT ![a] = Past(r)] /\ UNCHANGED branch
  <2>1. r \in AttemptType /\ BranchesOK(branch')
    BY <1>3, TypedState
  <2>2. Past(r) = [Past(r) EXCEPT !.tag = "Replay"]
    BY <1>3, <2>1 DEF Past, AttemptType
  <2>3. attempt' = [attempt EXCEPT ![a] = [Past(r) EXCEPT !.tag = "Replay"]]
    BY <1>3, <2>2
  <2> HIDE DEF r
  <2> QED BY <1>1, <1>3, <2>1, <2>3, PastKeeps DEF r
<1> QED BY <1>2, <1>3 DEF ReplayAttempted, Expected

LEMMA ReplayCompletedKeeps ==
  ASSUME IInv, NEW a \in Attempts, ReplayCompleted(a)
  PROVE  IInv'
<1> DEFINE r == attempt[a]
<1>1. r.phase = "replay" /\ r.events # <<>> /\ UNCHANGED <<journal, limits>>
  BY DEF ReplayCompleted, Replaying
<1>2. CASE \E why \in {"order", "determinism"} : Die(a, why)
  BY <1>1, <1>2, DeathKeeps
<1>3. CASE /\ r.tag = "Replay" /\ attempt' = [attempt EXCEPT ![a] = [Past(r) EXCEPT !.tag = "Completed"]]
           /\ UNCHANGED branch
  <2>1. r \in AttemptType /\ BranchesOK(branch')
    BY <1>3, TypedState
  <2> HIDE DEF r
  <2> QED BY <1>1, <1>3, <2>1, PastKeeps DEF r
<1> QED BY <1>2, <1>3 DEF ReplayCompleted, Expected

\* The message the event waits for is taken out of the mailbox or the messages put aside.
LEMMA ReplayedKeeps ==
  ASSUME IInv, NEW a \in Attempts, attempt[a].phase = "replay", attempt[a].events # <<>>,
         attempt[a].tag = "Replay", UNCHANGED <<journal, limits>>,
         NEW m \in Messages, m.type \in {"RequestFork", "RequestJoin"},
         NEW delayed \in Seq(Messages), NEW mailbox \in Seq(Messages),
         Replayed(a, m, [attempt[a] EXCEPT !.delayed = delayed, !.mailbox = mailbox])
  PROVE  IInv'
<1> DEFINE r == [attempt[a] EXCEPT !.delayed = delayed, !.mailbox = mailbox]
<1>1. attempt[a] \in AttemptType /\ BranchesOK(branch)
  BY TypedState
<1>2. BranchesOK(branch')
  BY <1>1, AllowOK DEF Replayed
<1>3. /\ r \in AttemptType /\ r.phase = attempt[a].phase /\ r.code = attempt[a].code
      /\ r.events = attempt[a].events /\ r.tag = attempt[a].tag /\ r.version = attempt[a].version
      /\ r.next = attempt[a].next /\ r.fiber = attempt[a].fiber
  BY <1>1 DEF AttemptType
<1>4. attempt' = [attempt EXCEPT ![a] = Past(r)]
  BY DEF Replayed
<1> HIDE DEF r
<1>5. Past(r) = [Past(r) EXCEPT !.tag = "Replay"]
  BY <1>3 DEF Past, AttemptType
<1>6. attempt' = [attempt EXCEPT ![a] = [Past(r) EXCEPT !.tag = "Replay"]]
  BY <1>4, <1>5
<1> QED BY <1>2, <1>3, <1>6, PastKeeps

LEMMA DelayKeeps ==
  ASSUME IInv, NEW a \in Attempts, IsLive(a), attempt[a].mailbox # <<>>, Delay(a),
         UNCHANGED <<journal, limits>>
  PROVE  IInv'
<1> DEFINE s == attempt[a].mailbox
           d == Append(attempt[a].delayed, Head(s))
           r == [attempt[a] EXCEPT !.mailbox = Tail(s), !.delayed = d]
<1>1. attempt[a] \in AttemptType
  BY TypedState
<1>2. Head(s) \in Messages /\ Tail(s) \in Seq(Messages)
  BY <1>1, HeadTailProperties, EmptySeq DEF AttemptType
<1>3. d \in Seq(Messages)
  BY <1>1, <1>2, AppendProperties DEF AttemptType
<1>4. attempt' = [attempt EXCEPT ![a] = r]
  BY <1>1 DEF Delay, AttemptType
<1> HIDE DEF s, d
<1>5. /\ r \in AttemptType /\ r.phase = attempt[a].phase /\ r.code = attempt[a].code
      /\ r.events = attempt[a].events /\ r.tag = attempt[a].tag /\ r.version = attempt[a].version
      /\ r.next = attempt[a].next /\ r.fiber = attempt[a].fiber
  BY <1>1, <1>2, <1>3 DEF AttemptType
<1> HIDE DEF r
<1>6. CoordinatorFits(r, journal[Workflow]) /\ FiberFits(r, journal[Workflow])
  <2>1. CoordinatorFits(attempt[a], journal[Workflow]) /\ FiberFits(attempt[a], journal[Workflow])
    BY TypedState
  <2> QED BY ONLY <1>5, <2>1, FitsAsBefore
<1>7. UNCHANGED branch
  BY DEF Delay
<1> QED BY <1>4, <1>5, <1>6, <1>7, TypedState, CoordinatorKeeps DEF limits

\* The message was put aside before.
LEMMA ReplayedDelayed ==
  ASSUME IInv, NEW a \in Attempts, attempt[a].phase = "replay", attempt[a].events # <<>>,
         attempt[a].tag = "Replay", UNCHANGED <<journal, limits>>,
         NEW type \in {"RequestFork", "RequestJoin"},
         NEW S \in SUBSET Requests(attempt[a].delayed, type), S # {},
         Replayed(a, attempt[a].delayed[FirstOf(S)], [attempt[a] EXCEPT !.delayed = Without(@, FirstOf(S))])
  PROVE  IInv'
<1> DEFINE r == attempt[a]
           k == FirstOf(S)
           m == r.delayed[k]
           d == Without(r.delayed, k)
<1>1. r \in AttemptType
  BY TypedState
<1>2. r.mailbox \in Seq(Messages) /\ r.delayed \in Seq(Messages)
  BY <1>1 DEF AttemptType
<1>3. S \in SUBSET DOMAIN r.delayed /\ \A i \in S : r.delayed[i].type = type
  BY DEF Requests
<1>4. k \in S /\ m \in Messages /\ d \in Seq(Messages)
  BY <1>2, <1>3, FirstIsOne
<1>5. [r EXCEPT !.delayed = Without(@, k)] = [attempt[a] EXCEPT !.delayed = d, !.mailbox = r.mailbox]
  <2> HIDE DEF k
  <2> QED BY <1>1 DEF AttemptType
<1>6. m.type = type /\ Replayed(a, m, [attempt[a] EXCEPT !.delayed = d, !.mailbox = r.mailbox])
  BY <1>3, <1>4, <1>5
<1> HIDE DEF m, d, k
<1> QED BY <1>2, <1>4, <1>6, ReplayedKeeps

\* The message is the first of the mailbox.
LEMMA ReplayedMail ==
  ASSUME IInv, NEW a \in Attempts, attempt[a].phase = "replay", attempt[a].events # <<>>,
         attempt[a].tag = "Replay", UNCHANGED <<journal, limits>>, attempt[a].mailbox # <<>>,
         Head(attempt[a].mailbox).type \in {"RequestFork", "RequestJoin"},
         Replayed(a, Head(attempt[a].mailbox), [attempt[a] EXCEPT !.mailbox = Tail(@)])
  PROVE  IInv'
<1> DEFINE r == attempt[a]
           m == Head(r.mailbox)
<1>1. r \in AttemptType
  BY TypedState
<1>2. r.mailbox \in Seq(Messages) /\ r.delayed \in Seq(Messages)
  BY <1>1 DEF AttemptType
<1>3. m \in Messages /\ Tail(r.mailbox) \in Seq(Messages)
  BY <1>2, HeadTailProperties, EmptySeq
<1>4. [r EXCEPT !.mailbox = Tail(@)] = [attempt[a] EXCEPT !.delayed = r.delayed, !.mailbox = Tail(r.mailbox)]
  BY <1>1 DEF AttemptType
<1>5. /\ m.type \in {"RequestFork", "RequestJoin"}
      /\ Replayed(a, m, [attempt[a] EXCEPT !.delayed = r.delayed, !.mailbox = Tail(r.mailbox)])
  BY <1>4
<1> HIDE DEF m
<1> QED BY <1>2, <1>3, <1>5, ReplayedKeeps

LEMMA ReplayForkedKeeps ==
  ASSUME IInv, NEW a \in Attempts, ReplayForked(a)
  PROVE  IInv'
<1> DEFINE r == attempt[a]
           early == Requests(r.delayed, "RequestFork")
           k == FirstOf(early)
<1>1. r.phase = "replay" /\ r.events # <<>> /\ UNCHANGED <<journal, limits>> /\ IsLive(a)
  BY DEF ReplayForked, Replaying, IsLive, Live
<1>2. CASE \E why \in {"order", "determinism"} : Die(a, why)
  BY <1>1, <1>2, DeathKeeps
<1>3. CASE r.tag = "Replay" /\ early # {} /\ Replayed(a, r.delayed[k], [r EXCEPT !.delayed = Without(@, k)])
  BY <1>1, <1>3, ReplayedDelayed
<1>4. CASE r.mailbox # <<>> /\ Delay(a)
  BY <1>1, <1>4, DelayKeeps
<1> DEFINE m == Head(r.mailbox)
<1>5. CASE /\ r.tag = "Replay" /\ r.mailbox # <<>> /\ m.type = "RequestFork"
           /\ Replayed(a, m, [r EXCEPT !.mailbox = Tail(@)])
  BY <1>1, <1>5, ReplayedMail
<1>6. \/ \E why \in {"order", "determinism"} : Die(a, why)
      \/ r.tag = "Replay" /\ early # {} /\ Replayed(a, r.delayed[k], [r EXCEPT !.delayed = Without(@, k)])
      \/ r.mailbox # <<>> /\ Delay(a)
      \/ /\ r.tag = "Replay" /\ r.mailbox # <<>> /\ m.type = "RequestFork"
         /\ Replayed(a, m, [r EXCEPT !.mailbox = Tail(@)])
  BY DEF ReplayForked, Expected
<1> HIDE DEF early, k, m
<1> QED BY <1>2, <1>3, <1>4, <1>5, <1>6

LEMMA ReplayJoinedKeeps ==
  ASSUME IInv, NEW a \in Attempts, ReplayJoined(a)
  PROVE  IInv'
<1> DEFINE r == attempt[a]
           early == {i \in Requests(r.delayed, "RequestJoin") : r.delayed[i].id = Head(r.events).id}
           k == FirstOf(early)
<1>1. r.phase = "replay" /\ r.events # <<>> /\ UNCHANGED <<journal, limits>> /\ IsLive(a)
  BY DEF ReplayJoined, Replaying, IsLive, Live
<1>2. CASE Die(a, "order")
  BY <1>1, <1>2, DeathKeeps
<1>3. CASE r.tag = "Replay" /\ early # {} /\ Replayed(a, r.delayed[k], [r EXCEPT !.delayed = Without(@, k)])
  <2>1. early \in SUBSET Requests(r.delayed, "RequestJoin")
    OBVIOUS
  <2> HIDE DEF early
  <2> QED BY <1>1, <1>3, <2>1, ReplayedDelayed
<1>4. CASE r.mailbox # <<>> /\ Delay(a)
  BY <1>1, <1>4, DelayKeeps
<1> DEFINE m == Head(r.mailbox)
<1>5. CASE /\ r.tag = "Replay" /\ r.mailbox # <<>> /\ m.type = "RequestJoin"
           /\ Replayed(a, m, [r EXCEPT !.mailbox = Tail(@)])
  BY <1>1, <1>5, ReplayedMail
<1>6. \/ Die(a, "order")
      \/ r.tag = "Replay" /\ early # {} /\ Replayed(a, r.delayed[k], [r EXCEPT !.delayed = Without(@, k)])
      \/ r.mailbox # <<>> /\ Delay(a)
      \/ /\ r.tag = "Replay" /\ r.mailbox # <<>> /\ m.type = "RequestJoin"
         /\ Replayed(a, m, [r EXCEPT !.mailbox = Tail(@)])
  BY DEF ReplayJoined, Expected
<1> HIDE DEF early, k, m
<1> QED BY <1>2, <1>3, <1>4, <1>5, <1>6

\* The whole journal has been replayed.
LEMMA EndReplayKeeps ==
  ASSUME IInv, NEW a \in Attempts, EndReplay(a)
  PROVE  IInv'
<1> DEFINE J == journal[Workflow]
           r == attempt[a]
           q == Append(r.mailbox, CheckStatus(NoBranch))
           t == [r EXCEPT !.phase = "execute", !.mailbox = q]
<1>1. r.phase = "replay" /\ r.events = <<>> /\ UNCHANGED <<journal, branch, limits>>
  BY DEF EndReplay
<1>2. r \in AttemptType /\ J \in Seq(Events) /\ CoordinatorFits(r, J) /\ FiberFits(r, J) /\ IsLive(a)
  BY <1>1, TypedState DEF IsLive, Live
<1>3. q \in Seq(Messages)
  <2>1. CheckStatus(NoBranch) \in Messages
    BY DEF Messages, CheckStatus
  <2> QED BY <1>2, <2>1, AppendProperties DEF AttemptType
<1>4. attempt' = [attempt EXCEPT ![a] = t]
  BY <1>2 DEF EndReplay, AttemptType
<1> HIDE DEF q, r
<1>5. /\ t \in AttemptType /\ t.phase = "execute" /\ t.code = r.code /\ t.tag = r.tag
      /\ t.version = r.version /\ t.next = r.next /\ t.fiber = r.fiber
  BY <1>2, <1>3 DEF AttemptType, Phases, Live
<1> HIDE DEF t, J
<1>6. CoordinatorFits(t, J) /\ FiberFits(t, J)
  <2>1. Len(r.events) = 0 /\ Len(J) \in Nat /\ (Len(J) = 0 => J = <<>>)
    BY <1>1, <1>2, LenProperties, EmptySeq
  <2> QED BY <1>1, <1>2, <1>5, <2>1 DEF CoordinatorFits, FiberFits, Live
<1> QED BY <1>1, <1>2, <1>4, <1>5, <1>6, TypedState, CoordinatorKeeps DEF limits, J, r
----------------------------------------------------------------------------
(* The messages a coordinator handles.                                     *)

LEMMA TakenType ==
  ASSUME IInv, NEW a \in Attempts, attempt[a].phase = "execute", Pending(a) # <<>>
  PROVE  LET r == Taken(a)
         IN  /\ r \in AttemptType /\ Head(Pending(a)) \in Messages /\ IsLive(a)
             /\ r.phase = attempt[a].phase /\ r.code = attempt[a].code /\ r.events = attempt[a].events
             /\ r.tag = attempt[a].tag /\ r.version = attempt[a].version /\ r.next = attempt[a].next
             /\ r.fiber = attempt[a].fiber
             /\ CoordinatorFits(r, journal[Workflow]) /\ FiberFits(r, journal[Workflow])
<1> DEFINE s == attempt[a].backlog
           q == attempt[a].mailbox
           r == Taken(a)
<1>1. attempt[a] \in AttemptType /\ s \in Seq(Messages) /\ q \in Seq(Messages)
  <2>1. attempt[a] \in AttemptType
    BY TypedState
  <2> QED BY <2>1 DEF AttemptType
<1>2. s \o q \in Seq(Messages) /\ s \o q # <<>>
  BY <1>1, ConcatProperties DEF Pending
<1>3. Head(Pending(a)) \in Messages
  BY <1>2, HeadTailProperties, EmptySeq DEF Pending
<1>4. s = <<>> => q # <<>>
  BY <1>1, <1>2, ConcatProperties, LenProperties, EmptySeq
<1>5. /\ r \in AttemptType
      /\ r.phase = attempt[a].phase /\ r.code = attempt[a].code /\ r.events = attempt[a].events
      /\ r.tag = attempt[a].tag /\ r.version = attempt[a].version /\ r.next = attempt[a].next
      /\ r.fiber = attempt[a].fiber
  <2>1. CASE s # <<>>
    <3>1. Tail(s) \in Seq(Messages) /\ r = [attempt[a] EXCEPT !.backlog = Tail(s)]
      BY <1>1, <2>1, HeadTailProperties, EmptySeq DEF Taken
    <3> HIDE DEF r, s
    <3> QED BY <1>1, <3>1 DEF AttemptType
  <2>2. CASE s = <<>>
    <3>1. Tail(q) \in Seq(Messages) /\ r = [attempt[a] EXCEPT !.mailbox = Tail(q)]
      BY <1>1, <1>4, <2>2, HeadTailProperties, EmptySeq DEF Taken
    <3> HIDE DEF r, q
    <3> QED BY <1>1, <3>1 DEF AttemptType
  <2> QED BY <2>1, <2>2
<1>6. CoordinatorFits(attempt[a], journal[Workflow]) /\ FiberFits(attempt[a], journal[Workflow])
  BY TypedState
<1> HIDE DEF r, s, q
<1>7. CoordinatorFits(r, journal[Workflow]) /\ FiberFits(r, journal[Workflow])
  BY ONLY <1>5, <1>6, FitsAsBefore
<1>8. IsLive(a)
  BY DEF IsLive, Live
<1> QED BY <1>3, <1>5, <1>7, <1>8 DEF r

\* The journal was empty when it was read, and nobody else appends to it.
LEMMA HandleNotStartedKeeps ==
  ASSUME IInv, NEW a \in Attempts, HandleNotStarted(a)
  PROVE  IInv'
<1> DEFINE J == journal[Workflow]
           r == attempt[a]
           e == Attempted(r.code, 0)
           t == [r EXCEPT !.tag = "Running", !.version = r.code, !.next = 1, !.fiber = "running"]
<1>1. r.phase = "execute" /\ r.tag = "NotStarted" /\ Record(a, e, t) /\ UNCHANGED <<branch, limits>>
  BY DEF HandleNotStarted
<1>2. r \in AttemptType /\ J \in Seq(Events) /\ CoordinatorFits(r, J) /\ IsLive(a) /\ BranchesOK(branch')
  BY <1>1, TypedState DEF IsLive, Live
<1>3. r.code \in Versions /\ J = <<>>
  BY <1>1, <1>2 DEF CoordinatorFits, Live
<1>4. e \in Events /\ e.type = "Attempted" /\ e.sequence = 0 /\ e.version = r.code
  <2>1. e \in Events
    BY <1>3, MakeEvents
  <2> QED BY <2>1 DEF Attempted
<1> HIDE DEF e, r
<1>5. /\ t \in AttemptType /\ t.phase = "execute" /\ t.tag = "Running" /\ t.code = r.code
      /\ t.version = r.code /\ t.next = 1 /\ t.fiber = "running"
  BY <1>1, <1>2, <1>3 DEF AttemptType, Tags
<1> HIDE DEF t, J
<1>6. Len(J) = 0 /\ Len(Append(J, e)) = 1 /\ Append(J, e) # <<>> /\ Append(J, e)[1] = e
  <2>1. Len(Append(J, e)) = Len(J) + 1 /\ Append(J, e) # <<>> /\ Len(J) = 0 /\ Append(J, e)[1] = e
    BY <1>2, <1>3, <1>4, Appended
  <2> QED BY <2>1
<1>7. CoordinatorFits(t, Append(J, e)) /\ FiberFits(t, Append(J, e))
  BY <1>3, <1>4, <1>5, <1>6 DEF CoordinatorFits, FiberFits
<1> QED BY <1>1, <1>2, <1>3, <1>4, <1>5, <1>6, <1>7, RecordKeeps DEF limits, J

\* A coordinator that has replayed its journal appends an event.
LEMMA RecordNext ==
  ASSUME IInv, NEW a \in Attempts, attempt[a].phase = "execute", attempt[a].tag \in {"Replay", "Running"},
         NEW e \in Events, e.sequence = attempt[a].next,
         e.type = "Attempted" => e.version = attempt[a].version,
         NEW r \in AttemptType, r.phase = "execute", r.code = attempt[a].code,
         r.version = attempt[a].version, r.fiber # "none", r.tag \in {"Running", "Completed"},
         r.tag = "Running" => r.next = attempt[a].next + 1,
         Record(a, e, r), BranchesOK(branch'), UNCHANGED limits
  PROVE  IInv'
<1> DEFINE J == journal[Workflow]
<1>1. CoordinatorFits(attempt[a], J) /\ IsLive(a) /\ J \in Seq(Events)
  BY TypedState DEF IsLive, Live
<1>2. attempt[a].next = Len(J) /\ attempt[a].fiber # "none" /\ attempt[a].code \in Versions
  BY <1>1 DEF CoordinatorFits, Live
<1>3. J # <<>> /\ attempt[a].version \in Versions /\ attempt[a].version = J[1].version
  BY <1>2, RunningVersion
<1> HIDE DEF J
<1>4. Len(Append(J, e)) = Len(J) + 1 /\ Append(J, e) # <<>> /\ Append(J, e)[1] = J[1]
  BY <1>1, <1>3, Appended
<1>5. CoordinatorFits(r, Append(J, e)) /\ FiberFits(r, Append(J, e))
  BY <1>2, <1>3, <1>4 DEF CoordinatorFits, FiberFits
<1> QED BY <1>1, <1>2, <1>3, <1>5, RecordKeeps DEF J

\* The attempt is recorded with the version of the first one.
LEMMA HandleReplayKeeps ==
  ASSUME IInv, NEW a \in Attempts, HandleReplay(a)
  PROVE  IInv'
<1> DEFINE r == attempt[a]
           p == Taken(a)
           s == r.delayed \o <<Head(Pending(a))>>
           e == Attempted(r.version, r.next)
           t == [p EXCEPT !.tag = "Running", !.next = @ + 1, !.delayed = <<>>, !.backlog = s]
<1>1. /\ r.phase = "execute" /\ r.tag = "Replay" /\ Pending(a) # <<>> /\ Record(a, e, t)
      /\ UNCHANGED <<branch, limits>>
  BY DEF HandleReplay
<1>2. /\ p \in AttemptType /\ Head(Pending(a)) \in Messages /\ p.phase = r.phase /\ p.code = r.code
      /\ p.version = r.version /\ p.next = r.next /\ p.fiber = r.fiber /\ p.tag = r.tag
      /\ CoordinatorFits(p, journal[Workflow])
  BY <1>1, TakenType
<1>3. r \in AttemptType /\ BranchesOK(branch')
  BY <1>1, TypedState
<1>4. s \in Seq(Messages)
  <2>1. r.delayed \in Seq(Messages) /\ <<Head(Pending(a))>> \in Seq(Messages)
    BY <1>2, <1>3 DEF AttemptType
  <2> QED BY <2>1, ConcatProperties
<1>5. r.fiber # "none"
  BY <1>1, <1>2 DEF CoordinatorFits, Live
<1>6. e \in Events /\ e.sequence = r.next /\ e.version = r.version
  <2>1. r.version \in Versions /\ r.next \in Nat
    BY <1>3, <1>5, RunningVersion DEF AttemptType
  <2>2. e \in Events
    BY <2>1, MakeEvents
  <2> QED BY <2>2 DEF Attempted
<1> HIDE DEF s, p, e
<1>7. /\ t \in AttemptType /\ t.phase = "execute" /\ t.code = r.code /\ t.version = r.version
      /\ t.fiber = r.fiber /\ t.tag = "Running" /\ t.next = r.next + 1
  <2> HIDE DEF r
  <2>1. p.next + 1 \in Nat /\ <<>> \in Seq(Messages)
    BY <1>2 DEF AttemptType
  <2> QED BY <1>1, <1>2, <1>4, <2>1 DEF AttemptType, Tags
<1> HIDE DEF t
<1> QED BY <1>1, <1>3, <1>5, <1>6, <1>7, RecordNext DEF limits

LEMMA CompleteKeeps ==
  ASSUME IInv, NEW a \in Attempts, Complete(a)
  PROVE  IInv'
<1> DEFINE r == attempt[a]
           p == Taken(a)
           m == Head(Pending(a))
           e == Completed(m.exit, r.next)
           t == [p EXCEPT !.tag = "Completed", !.fiber = "ended"]
<1>1. /\ r.phase = "execute" /\ r.tag = "Running" /\ Pending(a) # <<>> /\ m.type = "RequestComplete"
      /\ Record(a, e, t) /\ UNCHANGED <<branch, limits>>
  BY DEF Complete, Handling
<1>2. /\ p \in AttemptType /\ m \in Messages /\ p.phase = r.phase /\ p.code = r.code
      /\ p.version = r.version
  BY <1>1, TakenType
<1>3. r \in AttemptType /\ BranchesOK(branch')
  BY <1>1, TypedState
<1>4. e \in Events /\ e.sequence = r.next /\ e.type = "Completed"
  <2>1. m.exit \in Results /\ r.next \in Nat
    BY <1>1, <1>2, <1>3, MessageFields DEF AttemptType
  <2>2. e \in Events
    BY <2>1, MakeEvents
  <2> QED BY <2>2 DEF Completed
<1> HIDE DEF p, e, m
<1>5. /\ t \in AttemptType /\ t.phase = "execute" /\ t.code = r.code /\ t.version = r.version
      /\ t.fiber = "ended" /\ t.tag = "Completed"
  <2> HIDE DEF r
  <2> QED BY <1>1, <1>2 DEF AttemptType, Tags
<1> HIDE DEF t
<1> QED BY <1>1, <1>3, <1>4, <1>5, RecordNext DEF limits

\* A fork or a join is recorded and allowed.
LEMMA AllowKeeps ==
  ASSUME IInv, NEW a \in Attempts, NEW type \in {"RequestFork", "RequestJoin"},
         Handling(a, {"Running"}, type), NEW e \in Events, e.type # "Attempted",
         e.sequence = attempt[a].next, Record(a, e, [Taken(a) EXCEPT !.next = @ + 1]),
         Allow(a, Head(Pending(a)))
  PROVE  IInv'
<1> DEFINE r == attempt[a]
           p == Taken(a)
           m == Head(Pending(a))
           t == [p EXCEPT !.next = @ + 1]
<1>1. /\ r.phase = "execute" /\ r.tag = "Running" /\ Pending(a) # <<>> /\ m.type = type
      /\ UNCHANGED limits
  BY DEF Handling
<1>2. /\ p \in AttemptType /\ m \in Messages /\ p.phase = r.phase /\ p.code = r.code
      /\ p.version = r.version /\ p.tag = r.tag /\ p.next = r.next /\ p.fiber = r.fiber
      /\ CoordinatorFits(p, journal[Workflow])
  BY <1>1, TakenType
<1>3. BranchesOK(branch')
  BY <1>1, <1>2, TypedState, AllowOK
<1>4. p.fiber # "none" /\ Record(a, e, t)
  BY <1>1, <1>2 DEF CoordinatorFits, Live
<1> HIDE DEF p, m
<1>5. /\ t \in AttemptType /\ t.phase = "execute" /\ t.code = r.code /\ t.version = r.version
      /\ t.fiber # "none" /\ t.tag = "Running" /\ t.next = r.next + 1
  <2> HIDE DEF r
  <2>1. p.next + 1 \in Nat
    BY <1>2 DEF AttemptType
  <2> QED BY <1>1, <1>2, <1>4, <2>1 DEF AttemptType
<1> HIDE DEF t
<1> QED BY <1>1, <1>3, <1>4, <1>5, RecordNext

LEMMA ForkKeeps ==
  ASSUME IInv, NEW a \in Attempts, Fork(a)
  PROVE  IInv'
<1> DEFINE e == Forked(Head(Pending(a)).id, attempt[a].next)
<1>1. Head(Pending(a)) \in Messages /\ Head(Pending(a)).type = "RequestFork"
  BY TakenType DEF Fork, Handling
<1>2. Head(Pending(a)).id \in Activities /\ attempt[a].next \in Nat
  BY <1>1, MessageFields, TypedState DEF AttemptType
<1>3. e \in Events /\ e.type = "Forked" /\ e.sequence = attempt[a].next
  <2>1. e \in Events
    BY <1>2, MakeEvents
  <2> QED BY <2>1 DEF Forked
<1>4. /\ Handling(a, {"Running"}, "RequestFork") /\ Record(a, e, [Taken(a) EXCEPT !.next = @ + 1])
      /\ Allow(a, Head(Pending(a)))
  BY DEF Fork
<1> HIDE DEF e
<1> QED BY <1>3, <1>4, AllowKeeps

LEMMA JoinKeeps ==
  ASSUME IInv, NEW a \in Attempts, Join(a)
  PROVE  IInv'
<1> DEFINE e == Joined(Head(Pending(a)).id, attempt[a].next)
<1>1. Head(Pending(a)) \in Messages /\ Head(Pending(a)).type = "RequestJoin"
  BY TakenType DEF Join, Handling
<1>2. Head(Pending(a)).id \in Activities /\ attempt[a].next \in Nat
  BY <1>1, MessageFields, TypedState DEF AttemptType
<1>3. e \in Events /\ e.type = "Joined" /\ e.sequence = attempt[a].next
  <2>1. e \in Events
    BY <1>2, MakeEvents
  <2> QED BY <2>1 DEF Joined
<1>4. /\ Handling(a, {"Running"}, "RequestJoin") /\ Record(a, e, [Taken(a) EXCEPT !.next = @ + 1])
      /\ Allow(a, Head(Pending(a)))
  BY DEF Join
<1> HIDE DEF e
<1> QED BY <1>3, <1>4, AllowKeeps

\* A message is handled and nothing recorded; r is the coordinator afterwards.
LEMMA UnrecordedKeeps ==
  ASSUME IInv, NEW a \in Attempts, attempt[a].phase = "execute", attempt[a].tag # "NotStarted",
         NEW r \in AttemptType, attempt' = [attempt EXCEPT ![a] = r], r.phase = "execute",
         r.code = attempt[a].code, r.version = attempt[a].version, r.next = attempt[a].next,
         r.fiber = attempt[a].fiber \/ r.fiber = "ended",
         r.tag = attempt[a].tag \/ r.tag = "Yielding",
         BranchesOK(branch'), UNCHANGED <<journal, limits>>
  PROVE  IInv'
<1> DEFINE J == journal[Workflow]
<1>1. CoordinatorFits(attempt[a], J) /\ FiberFits(attempt[a], J) /\ IsLive(a)
  BY TypedState DEF IsLive, Live
<1> HIDE DEF J
<1>2. CoordinatorFits(r, J) /\ FiberFits(r, J)
  BY <1>1 DEF CoordinatorFits, FiberFits, Live
<1> QED BY <1>1, <1>2, TypedState, CoordinatorKeeps DEF limits, J

LEMMA StartYieldingKeeps ==
  ASSUME IInv, NEW a \in Attempts, StartYielding(a)
  PROVE  IInv'
<1> DEFINE p == Taken(a)
           t == [p EXCEPT !.tag = "Yielding"]
<1>1. /\ attempt[a].phase = "execute" /\ attempt[a].tag = "Running" /\ Pending(a) # <<>>
      /\ attempt' = [attempt EXCEPT ![a] = t] /\ UNCHANGED <<journal, branch, limits>>
  BY DEF StartYielding, Handling
<1>2. /\ p \in AttemptType /\ p.phase = attempt[a].phase /\ p.code = attempt[a].code
      /\ p.version = attempt[a].version /\ p.next = attempt[a].next /\ p.fiber = attempt[a].fiber
      /\ BranchesOK(branch')
  BY <1>1, TakenType, TypedState
<1> HIDE DEF p
<1>3. /\ t \in AttemptType /\ t.phase = "execute" /\ t.code = attempt[a].code /\ t.tag = "Yielding"
      /\ t.version = attempt[a].version /\ t.next = attempt[a].next /\ t.fiber = attempt[a].fiber
  BY <1>1, <1>2 DEF AttemptType, Tags
<1> HIDE DEF t
<1> QED BY <1>1, <1>2, <1>3, UnrecordedKeeps DEF limits

LEMMA EndUnrecordedKeeps ==
  ASSUME IInv, NEW a \in Attempts, EndUnrecorded(a)
  PROVE  IInv'
<1> DEFINE p == Taken(a)
           t == [p EXCEPT !.fiber = "ended"]
<1>1. /\ attempt[a].phase = "execute" /\ attempt[a].tag \in {"Yielding", "Completed"} /\ Pending(a) # <<>>
      /\ attempt' = [attempt EXCEPT ![a] = t] /\ UNCHANGED <<journal, branch, limits>>
  BY DEF EndUnrecorded, Handling
<1>2. /\ p \in AttemptType /\ p.phase = attempt[a].phase /\ p.code = attempt[a].code
      /\ p.version = attempt[a].version /\ p.next = attempt[a].next /\ p.tag = attempt[a].tag
      /\ BranchesOK(branch')
  BY <1>1, TakenType, TypedState
<1> HIDE DEF p
<1>3. /\ t \in AttemptType /\ t.phase = "execute" /\ t.code = attempt[a].code /\ t.tag = attempt[a].tag
      /\ t.version = attempt[a].version /\ t.next = attempt[a].next /\ t.fiber = "ended"
  BY <1>1, <1>2 DEF AttemptType
<1> HIDE DEF t
<1> QED BY <1>1, <1>2, <1>3, UnrecordedKeeps DEF limits

\* The answers that change only the branch that waits for them.
LEMMA AnswerKeeps ==
  ASSUME IInv, NEW a \in Attempts, attempt[a].phase = "execute", attempt[a].tag # "NotStarted",
         Pending(a) # <<>>, attempt' = [attempt EXCEPT ![a] = Taken(a)], BranchesOK(branch'),
         UNCHANGED <<journal, limits>>
  PROVE  IInv'
<1> DEFINE p == Taken(a)
<1>1. /\ p \in AttemptType /\ p.phase = "execute" /\ p.code = attempt[a].code
      /\ p.version = attempt[a].version /\ p.next = attempt[a].next /\ p.tag = attempt[a].tag
      /\ p.fiber = attempt[a].fiber
  BY TakenType
<1> HIDE DEF p
<1>2. attempt' = [attempt EXCEPT ![a] = p]
  BY DEF p
<1> QED BY <1>1, <1>2, UnrecordedKeeps

LEMMA AnswersKeep ==
  ASSUME IInv, NEW a \in Attempts, RefuseRequest(a) \/ IgnoreYield(a) \/ AnswerStatus(a)
  PROVE  IInv'
<1> DEFINE m == Head(Pending(a))
<1>1. /\ attempt[a].phase = "execute" /\ attempt[a].tag # "NotStarted" /\ Pending(a) # <<>>
      /\ attempt' = [attempt EXCEPT ![a] = Taken(a)] /\ UNCHANGED <<journal, limits>>
  BY DEF RefuseRequest, IgnoreYield, AnswerStatus, Handling
<1>2. m \in Messages /\ BranchesOK(branch)
  BY <1>1, TakenType, TypedState
<1>3. \/ m.type \in {"RequestFork", "RequestJoin"} /\ Refuse(a, m)
      \/ UNCHANGED branch
      \/ m.type = "CheckStatus" /\ TellStatus(a, m, attempt[a].tag = "Yielding")
  BY DEF RefuseRequest, IgnoreYield, AnswerStatus, Handling
<1> HIDE DEF m
<1>4. BranchesOK(branch')
  BY <1>2, <1>3, RefuseOK, TellOK
<1> QED BY <1>1, <1>4, AnswerKeeps

LEMMA FinishKeeps ==
  ASSUME IInv, NEW a \in Attempts, Finish(a)
  PROVE  IInv'
<1>1. PICK p \in {"completed", "interrupted"} :
        attempt' = [attempt EXCEPT ![a] = Ended(p)] /\ branch' = [branch EXCEPT ![a] = Ready]
  BY DEF Finish
<1>2. Ended(p) \in AttemptType /\ Ended(p).phase \notin Live /\ Ended(p).fiber = "none"
  BY FreshType DEF Phases, Live
<1>3. CoordinatorFits(Ended(p), journal[Workflow]) /\ FiberFits(Ended(p), journal[Workflow])
  BY <1>2 DEF CoordinatorFits, FiberFits
<1>4. BranchesOK(branch')
  BY <1>1, ReadyType, TypedState DEF BranchesOK
<1>5. UNCHANGED <<journal, limits>>
  BY DEF Finish
<1> QED BY <1>1, <1>2, <1>3, <1>4, <1>5, TypedState, CoordinatorKeeps DEF limits
----------------------------------------------------------------------------
(* The branches and their activities.                                      *)

\* What is on record of an activity.
LEMMA RecordTypes ==
  ASSUME NEW J \in Seq(Events)
  PROVE  LastSequence(J) \in Nat /\ (HasExits(J) => ExitOf(J) \in Exits \cup {NoValue})
<1>1. /\ DOMAIN J = 1..Len(J) /\ Len(J) \in Nat /\ (J # <<>> => Len(J) # 0)
      /\ \A k \in 1..Len(J) : J[k] \in Events
  BY LenProperties, EmptySeq, ElementOfSeq
<1>2. LastSequence(J) \in Nat
  <2>1. CASE J = <<>>
    BY <2>1 DEF LastSequence
  <2>2. CASE J # <<>>
    <3>1. Len(J) \in 1..Len(J)
      BY <1>1, <2>2
    <3> QED BY <1>1, <2>2, <3>1, EventFields DEF LastSequence
  <2> QED BY <2>1, <2>2
<1>3. ASSUME HasExits(J) PROVE ExitOf(J) \in Exits \cup {NoValue}
  <2> DEFINE done == {k \in DOMAIN J : J[k].type = "Completed"}
             last == CHOOSE k \in done : \A l \in done : l <= k
             after == {n \in Nat : \E k \in done : n = Len(J) - k}
  <2>1. CASE done = {}
    BY <2>1 DEF ExitOf
  <2>2. CASE done # {}
    <3> DEFINE j == Len(J)
    <3>1. \A k \in done : k \in Nat /\ j - k \in after
      BY <1>1
    <3>2. after \in SUBSET Nat /\ after # {}
      BY <2>2, <3>1
    <3> HIDE DEF after
    <3>3. PICK n \in after : \A i \in after : n <= i
      BY <3>2, NatMin
    <3>4. PICK k \in done : n = j - k
      BY <3>3 DEF after
    <3>5. \A l \in done : l <= k
      <4>1. ASSUME NEW l \in done PROVE l <= k
        <5>1. l \in Nat /\ k \in Nat /\ j \in Nat /\ j - k <= j - l
          BY <1>1, <3>1, <3>3, <3>4
        <5> HIDE DEF j
        <5> QED BY <5>1
      <4> QED BY <4>1
    <3>6. last \in done
      BY <3>5
    <3>7. ExitOf(J) = J[last].exit
      BY <2>2 DEF ExitOf
    <3> HIDE DEF last
    <3> QED BY <1>3, <3>6, <3>7 DEF HasExits
  <2> QED BY <2>1, <2>2
<1> QED BY <1>2, <1>3

\* A branch at one of its activities.
LEMMA AtActivity ==
  ASSUME IInv, NEW a \in Attempts, NEW b \in Branches, NEW pc, At(a, b, pc)
  PROVE  /\ Activity(a, b) \in Activities /\ branch[a][b] \in BranchType /\ BranchFits(branch[a][b])
         /\ branch[a][b].pc = pc /\ BranchesOK(branch) /\ UNCHANGED limits
         /\ attempt[a].fiber = "running" /\ attempt[a] \in AttemptType
         /\ journal[Activity(a, b)] \in Seq(Events) /\ HasExits(journal[Activity(a, b)])
<1>1. Activity(a, b) \in Activities
  <2>1. Program[b] \in Seq(Activities) /\ branch[a][b].at \in DOMAIN Program[b]
    BY DEF At
  <2> QED BY <2>1, ElementOfSeq, LenProperties, SMTT(40) DEF Activity
<1>2. BranchesOK(branch) /\ attempt[a] \in AttemptType
  BY TypedState
<1>3. journal[Activity(a, b)] \in Seq(Events) /\ HasExits(journal[Activity(a, b)])
  BY <1>1 DEF IInv, TypeOK, Ids, ResultsFit
<1> QED BY <1>1, <1>2, <1>3, BranchTyped DEF At

\* A branch moves, and nothing else does.
LEMMA MoveKeeps ==
  ASSUME IInv, NEW a \in Attempts, NEW b \in Branches, NEW me \in BranchType, BranchFits(me),
         Become(a, b, me), UNCHANGED <<journal, attempt, limits>>
  PROVE  IInv'
<1>1. BranchesOK(branch')
  BY TypedState, BranchPut DEF Become
<1> QED BY <1>1 DEF IInv, TypeOK, OneLive, IsLive, AttemptsFit, BranchesFit, BranchesOK, ResultsFit,
                    WorkflowInOrder, WorkflowFirst, VersionPinned, limits

\* A branch moves and asks its coordinator.
LEMMA AskKeeps ==
  ASSUME IInv, NEW a \in Attempts, NEW b \in Branches, NEW me \in BranchType, BranchFits(me),
         Become(a, b, me), NEW m \in Messages, Mail(a, m), UNCHANGED <<journal, limits>>
  PROVE  IInv'
<1> DEFINE r == [attempt[a] EXCEPT !.mailbox = Append(@, m)]
<1>1. BranchesOK(branch')
  BY TypedState, BranchPut DEF Become
<1>2. /\ r \in AttemptType /\ r.phase = attempt[a].phase /\ attempt' = [attempt EXCEPT ![a] = r]
      /\ CoordinatorFits(r, journal[Workflow]) /\ FiberFits(r, journal[Workflow])
  BY MailType DEF Mail
<1> HIDE DEF r
<1>3. r.phase \in Live => \A c \in Attempts : IsLive(c) => c = a
  BY <1>2, TypedState DEF IsLive
<1> QED BY <1>1, <1>2, <1>3, TypedState, CoordinatorKeeps DEF limits

LEMMA RequestForkOfKeeps ==
  ASSUME IInv, NEW a \in Attempts, NEW b \in Branches, RequestForkOf(a, b)
  PROVE  IInv'
<1>1. /\ Become(a, b, Move(a, b, "forking")) /\ Mail(a, RequestFork(b, Activity(a, b)))
      /\ At(a, b, "idle") /\ UNCHANGED <<journal, limits>>
  BY DEF RequestForkOf, At
<1>2. RequestFork(b, Activity(a, b)) \in Messages
  BY <1>1, AtActivity, MakeMessages
<1>3. Move(a, b, "forking") \in BranchType /\ BranchFits(Move(a, b, "forking"))
  BY TypedState, BranchMoves DEF BranchPcs
<1> QED BY <1>1, <1>2, <1>3, AskKeeps

LEMMA RequestJoinOfKeeps ==
  ASSUME IInv, NEW a \in Attempts, NEW b \in Branches, RequestJoinOf(a, b)
  PROVE  IInv'
<1>1. /\ Become(a, b, Move(a, b, "joining")) /\ Mail(a, RequestJoin(b, Activity(a, b)))
      /\ At(a, b, "joinable") /\ UNCHANGED <<journal, limits>>
  BY DEF RequestJoinOf, At
<1>2. RequestJoin(b, Activity(a, b)) \in Messages
  BY <1>1, AtActivity, MakeMessages
<1>3. Move(a, b, "joining") \in BranchType /\ BranchFits(Move(a, b, "joining"))
  BY TypedState, BranchMoves DEF BranchPcs
<1> QED BY <1>1, <1>2, <1>3, AskKeeps

LEMMA AskYieldingKeeps ==
  ASSUME IInv, NEW a \in Attempts, NEW b \in Branches, AskYielding(a, b)
  PROVE  IInv'
<1>1. /\ Become(a, b, Move(a, b, "asking")) /\ Mail(a, CheckStatus(b))
      /\ At(a, b, "exited") /\ UNCHANGED <<journal, limits>>
  BY DEF AskYielding, At
<1>2. CheckStatus(b) \in Messages
  BY MakeMessages
<1>3. Move(a, b, "asking") \in BranchType /\ BranchFits(Move(a, b, "asking"))
  <2>1. branch[a][b] \in BranchType /\ branch[a][b].exit \in Exits
    BY <1>1, AtActivity DEF BranchFits
  <2> QED BY <2>1 DEF Move, BranchType, BranchPcs, BranchFits
<1> QED BY <1>1, <1>2, <1>3, AskKeeps

LEMMA ExecuteKeeps ==
  ASSUME IInv, NEW a \in Attempts, NEW b \in Branches, Execute(a, b)
  PROVE  IInv'
<1>1. PICK v \in Returns[a] : Become(a, b, [Move(a, b, "exited") EXCEPT !.exit = v])
  BY DEF Execute
<1> DEFINE me == [Move(a, b, "exited") EXCEPT !.exit = v]
<1>2. UNCHANGED <<journal, attempt, limits>> /\ At(a, b, "executing")
  BY DEF Execute, At
<1>3. branch[a][b] \in BranchType /\ v \in Exits
  BY <1>2, AtActivity DEF Exits
<1>4. me \in BranchType /\ BranchFits(me)
  BY <1>3 DEF Move, BranchType, BranchPcs, BranchFits
<1> HIDE DEF me
<1>5. Become(a, b, me)
  BY <1>1 DEF me
<1> QED BY <1>2, <1>4, <1>5, MoveKeeps

LEMMA InterruptKeeps ==
  ASSUME IInv, NEW a \in Attempts, NEW b \in Branches, Interrupt(a, b)
  PROVE  IInv'
<1> DEFINE me == branch[a][b]
<1>1. UNCHANGED <<journal, attempt, limits>> /\ me \in BranchType /\ BranchFits(me)
  BY TypedState, BranchTyped DEF Interrupt
<1>2. PICK t \in {[me EXCEPT !.cut = TRUE, !.pc = "stopped"],
                  [me EXCEPT !.cut = TRUE, !.pc = "joinable", !.last = 0],
                  [me EXCEPT !.cut = TRUE, !.pc = "exited", !.exit = Interrupted],
                  [me EXCEPT !.cut = TRUE]} : Become(a, b, t)
  BY DEF Interrupt
<1> HIDE DEF me
<1>3. t \in BranchType /\ BranchFits(t)
  <2>1. Interrupted \in Exits
    BY DEF Exits
  <2>2. CASE t = [me EXCEPT !.cut = TRUE, !.pc = "stopped"]
    BY <1>1, <2>2 DEF BranchType, BranchPcs, BranchFits
  <2>3. CASE t = [me EXCEPT !.cut = TRUE, !.pc = "joinable", !.last = 0]
    BY <1>1, <2>3 DEF BranchType, BranchPcs, BranchFits
  <2>4. CASE t = [me EXCEPT !.cut = TRUE, !.pc = "exited", !.exit = Interrupted]
    BY <1>1, <2>1, <2>4 DEF BranchType, BranchPcs, BranchFits
  <2>5. CASE t = [me EXCEPT !.cut = TRUE]
    BY <1>1, <2>5 DEF BranchType, BranchPcs, BranchFits
  <2> QED BY <1>2, <2>2, <2>3, <2>4, <2>5
<1> QED BY <1>1, <1>2, <1>3, MoveKeeps

\* What the workflow knows of its activities does not concern the journal.
LEMMA LearnType ==
  ASSUME IInv, NEW a \in Attempts, NEW x \in Activities, NEW exit \in Exits
  PROVE  LET r == [attempt[a] EXCEPT !.got[x] = exit]
         IN  /\ r \in AttemptType /\ r.phase = attempt[a].phase
             /\ [attempt EXCEPT ![a].got[x] = exit] = [attempt EXCEPT ![a] = r]
             /\ CoordinatorFits(r, journal[Workflow]) /\ FiberFits(r, journal[Workflow])
             /\ r.phase \in Live => \A c \in Attempts : IsLive(c) => c = a
<1> DEFINE g == [attempt[a].got EXCEPT ![x] = exit]
           r == [attempt[a] EXCEPT !.got = g]
<1>1. attempt[a] \in AttemptType
  BY TypedState
<1>2. g \in Results
  <2>1. attempt[a].got \in [Activities -> Exits \cup {NoValue}]
    BY <1>1 DEF AttemptType, Results
  <2> QED BY <2>1 DEF Results
<1>3. r = [attempt[a] EXCEPT !.got[x] = exit]
  BY <1>1 DEF AttemptType
<1>4. [attempt EXCEPT ![a].got[x] = exit] = [attempt EXCEPT ![a] = [attempt[a] EXCEPT !.got[x] = exit]]
  OBVIOUS
<1> HIDE DEF g
<1>5. /\ r \in AttemptType /\ r.phase = attempt[a].phase /\ r.code = attempt[a].code
      /\ r.events = attempt[a].events /\ r.tag = attempt[a].tag /\ r.version = attempt[a].version
      /\ r.next = attempt[a].next /\ r.fiber = attempt[a].fiber
  BY <1>1, <1>2 DEF AttemptType
<1> HIDE DEF r
<1>6. CoordinatorFits(attempt[a], journal[Workflow]) /\ FiberFits(attempt[a], journal[Workflow])
  BY TypedState
<1>7. CoordinatorFits(r, journal[Workflow]) /\ FiberFits(r, journal[Workflow])
  BY ONLY <1>5, <1>6, FitsAsBefore
<1>8. r.phase \in Live => \A c \in Attempts : IsLive(c) => c = a
  BY <1>5, TypedState DEF IsLive
<1> QED BY <1>3, <1>4, <1>5, <1>7, <1>8

LEMMA ReadActivityKeeps ==
  ASSUME IInv, NEW a \in Attempts, NEW b \in Branches, ReadActivity(a, b)
  PROVE  IInv'
<1> DEFINE x == Activity(a, b)
           J == journal[x]
           me == branch[a][b]
<1>1. At(a, b, "forked") /\ UNCHANGED <<journal, limits>>
  BY DEF ReadActivity, At
<1>2. x \in Activities /\ me \in BranchType /\ J \in Seq(Events) /\ HasExits(J) /\ BranchesOK(branch)
  BY <1>1, AtActivity
<1>3. LastSequence(J) \in Nat /\ ExitOf(J) \in Exits \cup {NoValue}
  <2> HIDE DEF J
  <2> QED BY <1>2, RecordTypes
<1> DEFINE n == LastSequence(J)
           exit == ExitOf(J)
<1>4. CASE Become(a, b, [Move(a, b, "attempting") EXCEPT !.last = n]) /\ UNCHANGED attempt
  <2> DEFINE t == [Move(a, b, "attempting") EXCEPT !.last = n]
  <2>1. t \in BranchType /\ BranchFits(t)
    <3> HIDE DEF n
    <3> QED BY <1>2, <1>3 DEF n, Move, BranchType, BranchPcs, BranchFits
  <2> HIDE DEF t
  <2> QED BY <1>1, <1>4, <2>1, MoveKeeps DEF t
<1>5. CASE /\ exit # NoValue
           /\ Become(a, b, [Move(a, b, "joinable") EXCEPT !.cut = @ \/ exit = Interrupted])
           /\ attempt' = [attempt EXCEPT ![a].got[x] = exit]
  <2> DEFINE t == [Move(a, b, "joinable") EXCEPT !.cut = @ \/ exit = Interrupted]
             r == [attempt[a] EXCEPT !.got[x] = exit]
  <2>1. t \in BranchType /\ BranchFits(t)
    <3> HIDE DEF exit, me
    <3>1. /\ Move(a, b, "joinable") \in BranchType /\ BranchFits(Move(a, b, "joinable"))
          /\ Move(a, b, "joinable").pc = "joinable"
      BY <1>2, BranchMoves DEF BranchPcs
    <3> DEFINE mv == Move(a, b, "joinable")
               cut == mv.cut \/ exit = Interrupted
    <3>2. cut \in BOOLEAN /\ mv \in BranchType /\ mv.pc = "joinable"
      BY <3>1
    <3>3. t = [mv EXCEPT !.cut = cut]
      BY <3>1 DEF BranchType
    <3> HIDE DEF mv, cut
    <3> QED BY <3>2, <3>3 DEF BranchType, BranchFits
  <2>2. exit \in Exits
    BY <1>3, <1>5
  <2>3. BranchesOK(branch')
    <3> HIDE DEF t
    <3> QED BY <1>2, <1>5, <2>1, BranchPut DEF t, Become
  <2>4. /\ r \in AttemptType /\ attempt' = [attempt EXCEPT ![a] = r]
        /\ CoordinatorFits(r, journal[Workflow]) /\ FiberFits(r, journal[Workflow])
        /\ r.phase \in Live => \A c \in Attempts : IsLive(c) => c = a
    <3> HIDE DEF exit, x, t
    <3> QED BY <1>2, <1>5, <2>2, LearnType DEF x
  <2> HIDE DEF r, t
  <2> QED BY <1>1, <2>3, <2>4, TypedState, CoordinatorKeeps DEF limits
<1> QED BY <1>4, <1>5 DEF ReadActivity, EventsOf

\* An activity is attempted with the version the workflow runs with.
LEMMA AttemptKeeps ==
  ASSUME IInv, NEW a \in Attempts, NEW b \in Branches, Attempt(a, b)
  PROVE  IInv'
<1> DEFINE x == Activity(a, b)
           e == Attempted(attempt[a].version, branch[a][b].last + 1)
           r == attempt[a]
<1>1. /\ At(a, b, "attempting") /\ journal' = AppendTo(journal, x, e) /\ UNCHANGED <<attempt, limits>>
      /\ Become(a, b, Move(a, b, "executing"))
  BY DEF Attempt, At
<1>2. x \in Activities /\ branch[a][b] \in BranchType /\ r.fiber = "running" /\ r \in AttemptType
  BY <1>1, AtActivity
<1>3. /\ journal[Workflow] # <<>> /\ r.version \in Versions
      /\ r.version = journal[Workflow][1].version
  BY <1>2, RunningVersion
<1>4. e \in Events /\ e.type = "Attempted" /\ e.version = r.version
  <2>1. branch[a][b].last + 1 \in Nat
    BY <1>2, SMTT(40) DEF BranchType
  <2>2. e \in Events
    BY <1>3, <2>1, MakeEvents
  <2> QED BY <2>2 DEF Attempted
<1>5. BranchesOK(branch')
  <2>1. Move(a, b, "executing") \in BranchType /\ BranchFits(Move(a, b, "executing"))
    BY TypedState, BranchMoves DEF BranchPcs
  <2> QED BY <1>1, <2>1, TypedState, BranchPut DEF Become
<1>6. attempt' = [attempt EXCEPT ![a] = r]
  BY <1>1 DEF IInv, TypeOK
<1>7. /\ CoordinatorFits(r, journal[Workflow]) /\ FiberFits(r, journal[Workflow])
      /\ r.phase \in Live => \A c \in Attempts : IsLive(c) => c = a
  BY TypedState DEF IsLive
<1> HIDE DEF x, e, r
<1> QED BY <1>1, <1>2, <1>3, <1>4, <1>5, <1>6, <1>7, ActivityKeeps

LEMMA RecordExitKeeps ==
  ASSUME IInv, NEW a \in Attempts, NEW b \in Branches, RecordExit(a, b)
  PROVE  IInv'
<1> DEFINE x == Activity(a, b)
           me == branch[a][b]
           e == Completed(me.exit, me.last + 2)
           t == [Move(a, b, "joinable") EXCEPT !.cut = @ \/ me.exit = Interrupted, !.exit = NoValue, !.last = 0]
           r == [attempt[a] EXCEPT !.got[x] = me.exit]
<1>1. /\ At(a, b, "recording") /\ journal' = AppendTo(journal, x, e) /\ UNCHANGED limits
      /\ Become(a, b, t) /\ attempt' = [attempt EXCEPT ![a].got[x] = me.exit]
  BY DEF RecordExit, At
<1>2. x \in Activities /\ me \in BranchType /\ me.exit \in Exits /\ attempt[a].fiber = "running"
  BY <1>1, AtActivity DEF BranchFits
<1>3. journal[Workflow] # <<>>
  BY <1>2, RunningVersion
<1>4. e \in Events /\ e.type = "Completed" /\ e.exit \in Exits
  <2>1. me.last + 2 \in Nat
    BY <1>2, LastIsNat
  <2>2. e \in Events
    BY <1>2, <2>1, MakeEvents
  <2> QED BY <1>2, <2>2 DEF Completed
<1>5. t \in BranchType /\ BranchFits(t)
  <2> DEFINE mv == Move(a, b, "joinable")
             cut == mv.cut \/ me.exit = Interrupted
  <2>1. mv \in BranchType /\ mv.pc = "joinable" /\ cut \in BOOLEAN
    BY TypedState, BranchMoves DEF BranchPcs
  <2>2. t = [mv EXCEPT !.cut = cut, !.exit = NoValue, !.last = 0]
    BY <2>1 DEF BranchType
  <2> HIDE DEF mv, cut, t
  <2> QED BY <2>1, <2>2 DEF BranchType, BranchFits
<1>6. BranchesOK(branch')
  <2> HIDE DEF t
  <2> QED BY <1>1, <1>5, TypedState, BranchPut DEF Become
<1>7. /\ r \in AttemptType /\ attempt' = [attempt EXCEPT ![a] = r]
      /\ CoordinatorFits(r, journal[Workflow]) /\ FiberFits(r, journal[Workflow])
      /\ r.phase \in Live => \A c \in Attempts : IsLive(c) => c = a
  <2> DEFINE exit == me.exit
  <2>1. exit \in Exits /\ x \in Activities /\ attempt' = [attempt EXCEPT ![a].got[x] = exit]
    BY <1>1, <1>2
  <2> HIDE DEF exit, x, t
  <2> QED BY <2>1, LearnType DEF exit
<1> HIDE DEF x, e, r, t, me
<1> QED BY <1>1, <1>2, <1>3, <1>4, <1>6, <1>7, ActivityKeeps

\* The fiber waits for the coordinator to let the workflow end.
LEMMA RequestCompleteOfKeeps ==
  ASSUME IInv, NEW a \in Attempts, RequestCompleteOf(a)
  PROVE  IInv'
<1> DEFINE m == RequestComplete(attempt[a].got)
           q == Append(attempt[a].mailbox, m)
           r == [attempt[a] EXCEPT !.mailbox = q, !.fiber = "completing"]
<1>1. attempt[a] \in AttemptType /\ attempt[a].fiber = "running" /\ UNCHANGED <<journal, branch, limits>>
  BY TypedState DEF RequestCompleteOf
<1>2. q \in Seq(Messages)
  <2>1. attempt[a].got \in Results /\ attempt[a].mailbox \in Seq(Messages)
    BY <1>1 DEF AttemptType
  <2>2. m \in Messages
    BY <2>1 DEF Messages, RequestComplete
  <2> QED BY <2>1, <2>2, AppendProperties
<1>3. attempt' = [attempt EXCEPT ![a] = r]
  BY <1>1 DEF RequestCompleteOf, Offered, AttemptType, IInv, TypeOK
<1> HIDE DEF q
<1>4. /\ r \in AttemptType /\ r.phase = attempt[a].phase /\ r.code = attempt[a].code
      /\ r.events = attempt[a].events /\ r.tag = attempt[a].tag /\ r.version = attempt[a].version
      /\ r.next = attempt[a].next /\ r.fiber = "completing"
  BY <1>1, <1>2 DEF AttemptType
<1> HIDE DEF r
<1>5. /\ CoordinatorFits(r, journal[Workflow]) /\ FiberFits(r, journal[Workflow])
      /\ r.phase \in Live => \A c \in Attempts : IsLive(c) => c = a
  <2>1. /\ CoordinatorFits(attempt[a], journal[Workflow]) /\ FiberFits(attempt[a], journal[Workflow])
        /\ r.phase \in Live => \A c \in Attempts : IsLive(c) => c = a
    BY <1>4, TypedState DEF IsLive
  <2>2. r.fiber = "none" <=> attempt[a].fiber = "none"
    BY <1>1, <1>4
  <2> QED BY ONLY <1>4, <2>1, <2>2, FitsAsBefore
<1> QED BY <1>1, <1>3, <1>4, <1>5, TypedState, CoordinatorKeeps DEF limits
----------------------------------------------------------------------------
(* The invariant.                                                          *)

LEMMA InitInv == Init => IInv
<1> SUFFICES ASSUME Init PROVE IInv
  OBVIOUS
<1>1. "absent" \in Phases /\ "absent" \notin Live
  BY DEF Phases, Live
<1>2. \A a \in Attempts :
        /\ attempt[a] \in AttemptType /\ attempt[a].phase \notin Live /\ attempt[a].fiber = "none"
  BY <1>1, FreshType DEF Init
<1>3. BranchesOK(branch)
  BY ReadyType DEF Init, BranchesOK
<1>4. journal \in [Ids -> Seq(Events)] /\ \A id \in Ids : journal[id] = <<>>
  BY DEF Init, EmptyJournal
<1>5. Workflow \in Ids /\ Activities \subseteq Ids /\ DOMAIN <<>> = {}
  BY DEF Ids
<1>6. TypeOK
  BY <1>2, <1>3, <1>4 DEF Init, TypeOK, BranchesOK
<1>7. OneLive /\ AttemptsFit
  BY <1>2 DEF OneLive, IsLive, AttemptsFit, CoordinatorFits, FiberFits
<1>8. BranchesFit /\ ResultsFit /\ WorkflowInOrder /\ WorkflowFirst /\ VersionPinned
  BY <1>3, <1>4, <1>5 DEF BranchesFit, BranchesOK, ResultsFit, HasExits, WorkflowInOrder, InOrder,
                          WorkflowFirst, VersionPinned
<1> QED BY <1>6, <1>7, <1>8 DEF IInv

LEMMA ReplayKeeps ==
  ASSUME IInv, NEW a \in Attempts, Replay(a)
  PROVE  IInv'
BY ReadKeeps, ReplayFirstKeeps, ReplayAttemptedKeeps, ReplayCompletedKeeps, ReplayForkedKeeps,
   ReplayJoinedKeeps, EndReplayKeeps DEF Replay

LEMMA HandleKeeps ==
  ASSUME IInv, NEW a \in Attempts, Handle(a)
  PROVE  IInv'
BY HandleNotStartedKeeps, HandleReplayKeeps, CompleteKeeps, ForkKeeps, JoinKeeps, StartYieldingKeeps,
   EndUnrecordedKeeps, AnswersKeep, FinishKeeps DEF Handle

LEMMA RunBranchKeeps ==
  ASSUME IInv, NEW a \in Attempts, NEW b \in Branches, RunBranch(a, b)
  PROVE  IInv'
BY RequestForkOfKeeps, ReadActivityKeeps, AttemptKeeps, ExecuteKeeps, AskYieldingKeeps,
   RecordExitKeeps, RequestJoinOfKeeps DEF RunBranch

LEMMA NextKeeps == IInv /\ [Next]_vars => IInv'
<1> SUFFICES ASSUME IInv, [Next]_vars PROVE IInv'
  OBVIOUS
<1>1. CASE Crash
  BY <1>1, CrashKeeps
<1>2. ASSUME NEW a \in Attempts, Yield(a) PROVE IInv'
  BY <1>2, YieldKeeps
<1>3. ASSUME NEW a \in Attempts, Progress(a) PROVE IInv'
  BY <1>3, ReplayKeeps, HandleKeeps, RequestCompleteOfKeeps, RunBranchKeeps, InterruptKeeps DEF Progress
<1>4. ASSUME NEW a \in Attempts, NEW v \in Deployed[a], Start(a, v) PROVE IInv'
  BY <1>4, StartKeeps
<1>5. CASE UNCHANGED vars
  BY <1>5 DEF vars, IInv, TypeOK, OneLive, IsLive, AttemptsFit, BranchesFit, ResultsFit,
              WorkflowInOrder, WorkflowFirst, VersionPinned
<1> QED BY <1>1, <1>2, <1>3, <1>4, <1>5 DEF Next

LEMMA Inductive == Spec => []IInv
BY InitInv, NextKeeps, PTL DEF Spec
----------------------------------------------------------------------------
(* Theorems.                                                               *)

\* The variables keep their types: the coordinator never handles a message that is none,
\* and what an activity has on record is an exit of it.
THEOREM TypeCorrect == Spec => []TypeOK
<1>1. IInv => TypeOK
  BY DEF IInv
<1> QED BY <1>1, Inductive, PTL

\* Every attempt on record, of the workflow and of its activities, has the version that the
\* first attempt recorded (WorkflowRuntime.attempt), whatever is deployed by then, and
\* although the fiber of an attempt that died goes on writing.
THEOREM VersionAlwaysPinned == Spec => []VersionPinned
<1>1. IInv => VersionPinned
  BY DEF IInv
<1> QED BY <1>1, Inductive, PTL

\* The events of the workflow are numbered one by one over all its attempts, as its replay
\* expects (nextSequence, expectedSequence): the workflow's part of JournalInOrder.
THEOREM WorkflowJournalInOrder == Spec => []WorkflowInOrder
<1>1. IInv => WorkflowInOrder
  BY DEF IInv
<1> QED BY <1>1, Inductive, PTL
----------------------------------------------------------------------------
(* No replay finds the journal out of order.  What its coordinator has to  *)
(* know for that is where the exit of the workflow is: at the end of the   *)
(* journal, and in what is still to be replayed.                           *)

NoExit(J, n) == \A k \in 1..n : J[k].type # "Completed"

WellFormed(J) ==
  /\ J # <<>> => J[1].type = "Attempted"
  /\ \A k \in DOMAIN J : J[k].type = "Completed" => k = Len(J)

StageFits(r, J) ==
  /\ r.broken # "order"
  /\ r.phase = "replay" =>
       /\ r.tag = "Replay" => NoExit(J, Len(J) - Len(r.events))
       /\ r.tag = "Completed" => r.events = <<>>
  /\ r.phase = "execute" /\ r.tag \in {"Replay", "Running"} => NoExit(J, Len(J))

OrderInv ==
  /\ WellFormed(journal[Workflow])
  /\ \A a \in Attempts : StageFits(attempt[a], journal[Workflow])

\* A step of the attempt a that appends nothing to the journal of the workflow.
LEMMA StageKeeps ==
  ASSUME IInv, OrderInv, NEW a \in Attempts, NEW r, attempt' = [attempt EXCEPT ![a] = r],
         journal'[Workflow] = journal[Workflow], StageFits(r, journal[Workflow])
  PROVE  OrderInv'
<1>1. \A c \in Attempts : attempt'[c] = IF c = a THEN r ELSE attempt[c]
  BY DEF IInv, TypeOK
<1> QED BY <1>1 DEF OrderInv

LEMMA StageSame ==
  ASSUME IInv, OrderInv, NEW a \in Attempts, NEW r, attempt' = [attempt EXCEPT ![a] = r],
         journal'[Workflow] = journal[Workflow],
         r.phase = attempt[a].phase, r.events = attempt[a].events, r.broken = attempt[a].broken,
         r.tag = attempt[a].tag \/ (r.phase = "execute" /\ r.tag \notin {"Replay", "Running"})
  PROVE  OrderInv'
<1>1. StageFits(attempt[a], journal[Workflow])
  BY DEF OrderInv
<1>2. StageFits(r, journal[Workflow])
  BY <1>1 DEF StageFits
<1> QED BY <1>2, StageKeeps

\* The attempt that is live appends to the journal of the workflow.
LEMMA StageRecords ==
  ASSUME IInv, OrderInv, NEW a \in Attempts, NEW r, NEW e, Record(a, e, r), IsLive(a),
         journal[Workflow] = <<>> => e.type = "Attempted",
         NoExit(journal[Workflow], Len(journal[Workflow])),
         r.phase = "execute", r.broken # "order",
         r.tag \in {"Replay", "Running"} => e.type # "Completed"
  PROVE  OrderInv'
<1> DEFINE J == journal[Workflow]
           K == Append(J, e)
<1>1. J \in Seq(Events) /\ journal \in [Ids -> Seq(Events)] /\ Workflow \in Ids
  BY DEF IInv, TypeOK, Ids
<1>2. /\ journal'[Workflow] = K /\ attempt' = [attempt EXCEPT ![a] = r]
      /\ \A c \in Attempts : attempt'[c] = IF c = a THEN r ELSE attempt[c]
  BY <1>1 DEF Record, AppendTo, IInv, TypeOK
<1>3. \A k \in 1..Len(J) : J[k].type # "Completed"
  BY DEF NoExit
<1>4. J # <<>> => J[1].type = "Attempted"
  BY DEF OrderInv, WellFormed
<1>5. J = <<>> => e.type = "Attempted"
  OBVIOUS
<1> HIDE DEF J
<1>6. /\ Len(K) = Len(J) + 1 /\ Len(J) \in Nat /\ DOMAIN K = 1..(Len(J) + 1)
      /\ \A k \in 1..Len(J) : K[k] = J[k]
      /\ K[Len(J) + 1] = e /\ (J # <<>> => K[1] = J[1]) /\ (J = <<>> => K[1] = e)
  <2>1. J \in Seq(Events \cup {e}) /\ e \in Events \cup {e}
    BY <1>1
  <2> QED BY <2>1, AppendProperties, LenProperties, EmptySeq
<1> HIDE DEF K
<1>7. \A k \in 1..(Len(J) + 1) : k \in 1..Len(J) \/ k = Len(J) + 1
  BY <1>6
<1>8. WellFormed(K) /\ (e.type # "Completed" => NoExit(K, Len(K)))
  BY <1>3, <1>4, <1>5, <1>6, <1>7 DEF WellFormed, NoExit
<1>9. StageFits(r, K)
  BY <1>8 DEF StageFits
<1>10. \A c \in Attempts : c # a => attempt[c].phase \notin {"replay", "execute"} /\ attempt[c].broken # "order"
  BY DEF IInv, OneLive, IsLive, Live, OrderInv, StageFits
<1>11. \A c \in Attempts : StageFits(attempt'[c], K)
  BY <1>2, <1>9, <1>10 DEF StageFits
<1> QED BY <1>2, <1>8, <1>11 DEF OrderInv

LEMMA StageInit == Init => OrderInv
<1> SUFFICES ASSUME Init PROVE OrderInv
  OBVIOUS
<1>1. journal[Workflow] = <<>>
  BY DEF Init, EmptyJournal, Ids
<1>2. WellFormed(<<>>)
  BY DEF WellFormed
<1>3. \A a \in Attempts : attempt[a].phase = "absent" /\ attempt[a].broken = "no"
  BY DEF Init, Ended, Fresh
<1> QED BY <1>1, <1>2, <1>3 DEF OrderInv, StageFits

\* The first event on record is the first attempt, and the exit the last one, so that a
\* coordinator which finds another event in its place cannot have any left.
LEMMA EventIsExpected ==
  ASSUME IInv, OrderInv, NEW a \in Attempts, attempt[a].phase = "replay", attempt[a].events # <<>>
  PROVE  LET r == attempt[a]
             J == journal[Workflow]
             n == Len(J) - Len(r.events)
         IN  /\ r.tag = "NotStarted" => Head(r.events).type = "Attempted" /\ n = 0
             /\ r.tag # "NotStarted" => Expected(a) /\ NoExit(J, n)
<1> DEFINE r == attempt[a]
           J == journal[Workflow]
           n == Len(J) - Len(r.events)
<1>1. r \in AttemptType /\ J \in Seq(Events) /\ InOrder(J) /\ CoordinatorFits(r, J)
  BY TypedState
<1>2. StageFits(r, J) /\ WellFormed(J)
  BY DEF OrderInv
<1>3. r.phase = "replay" /\ r.events # <<>>
  OBVIOUS
<1> HIDE DEF r, J
<1>4. /\ n \in Nat /\ J # <<>> /\ Head(r.events) \in Events /\ Head(r.events) = J[n + 1]
      /\ Past(r).next = n + 1
  BY <1>1, <1>3, PastFits
<1>5. Head(r.events).sequence = n
  <2>1. Head(r.events).sequence \in Nat
    BY <1>4, EventFields
  <2>2. Past(r).next = Head(r.events).sequence + 1
    BY <1>1 DEF Past, AttemptType
  <2> HIDE DEF n
  <2> QED BY <1>4, <2>1, <2>2
<1>6. CASE r.tag = "NotStarted"
  <2>1. n = 0
    BY <1>1, <1>3, <1>6, LenProperties DEF CoordinatorFits, Live
  <2>2. J[1].type = "Attempted"
    BY <1>2, <1>4 DEF WellFormed
  <2>3. Head(r.events) = J[1]
    <3> HIDE DEF n
    <3> QED BY <1>4, <2>1
  <2>4. Head(r.events).type = "Attempted"
    BY <2>2, <2>3
  <2> QED BY ONLY <1>6, <2>1, <2>4 DEF n, r, J
<1>7. CASE r.tag # "NotStarted"
  <2>1. r.tag = "Replay"
    BY <1>1, <1>2, <1>3, <1>7 DEF CoordinatorFits, Live, StageFits
  <2>2. r.next = n
    BY <1>1, <1>3, <2>1 DEF CoordinatorFits, Live
  <2>3. NoExit(J, n)
    BY <1>2, <1>3, <2>1 DEF StageFits
  <2> HIDE DEF n
  <2> QED BY <1>5, <1>7, <2>1, <2>2, <2>3 DEF Expected, n, r, J
<1> QED BY <1>6, <1>7 DEF r, J

\* An event that is not the exit has been replayed; t is the coordinator afterwards.
LEMMA PastStage ==
  ASSUME IInv, OrderInv, NEW a \in Attempts, attempt[a].phase = "replay", attempt[a].events # <<>>,
         Head(attempt[a].events).type # "Completed",
         NEW t, t.phase = "replay", t.events = Tail(attempt[a].events), t.tag = "Replay", t.broken = attempt[a].broken
  PROVE  StageFits(t, journal[Workflow])
<1> DEFINE r == attempt[a]
           J == journal[Workflow]
           l == Len(r.events)
           j == Len(J)
           n == j - l
<1>1. r \in AttemptType /\ J \in Seq(Events) /\ InOrder(J) /\ CoordinatorFits(r, J)
  BY TypedState
<1>2. r.broken # "order"
  BY DEF OrderInv, StageFits
<1>3. r.phase = "replay" /\ r.events # <<>> /\ Head(r.events).type # "Completed"
  OBVIOUS
<1>4. n = 0 \/ NoExit(J, n)
  BY EventIsExpected
<1> HIDE DEF r, J
<1>5. n \in Nat /\ Head(r.events) = J[n + 1] /\ l \in Nat /\ j \in Nat
  BY <1>1, <1>3, PastFits, LenProperties, ZenonT(60) DEF AttemptType
<1>6. Len(Tail(r.events)) = l - 1
  BY <1>1, <1>3, HeadTailProperties, EmptySeq DEF AttemptType
<1> HIDE DEF n
<1>7. NoExit(J, n + 1)
  <2>1. ASSUME NEW k \in 1..(n + 1) PROVE J[k].type # "Completed"
    <3>1. k \in 1..n \/ k = n + 1
      BY <1>5
    <3>2. k \in 1..n => n # 0
      BY <1>5
    <3> QED BY <1>3, <1>4, <1>5, <3>1, <3>2 DEF NoExit
  <2> QED BY <2>1 DEF NoExit
<1>8. j - (l - 1) = n + 1
  <2> HIDE DEF j, l
  <2> QED BY <1>5 DEF n
<1>9. NoExit(J, Len(J) - Len(t.events))
  BY <1>6, <1>7, <1>8 DEF r
<1> QED BY <1>2, <1>9 DEF StageFits, J, r

\* A death that is not for the order of the journal.
LEMMA DeathStage ==
  ASSUME IInv, OrderInv, NEW a \in Attempts, Die(a, "determinism"), UNCHANGED journal
  PROVE  OrderInv'
<1> DEFINE r == [attempt[a] EXCEPT !.phase = "died", !.broken = "determinism"]
<1>1. attempt[a] \in AttemptType /\ attempt' = [attempt EXCEPT ![a] = r]
  BY TypedState DEF Die
<1>2. r.phase = "died" /\ r.broken = "determinism"
  BY <1>1 DEF AttemptType
<1> HIDE DEF r
<1>3. StageFits(r, journal[Workflow])
  BY <1>2 DEF StageFits
<1> QED BY <1>1, <1>3, StageKeeps

LEMMA ReplayFirstStage ==
  ASSUME IInv, OrderInv, NEW a \in Attempts, ReplayFirstAttempted(a)
  PROVE  OrderInv'
<1> DEFINE r == attempt[a]
           t == [Past(r) EXCEPT !.tag = "Replay", !.version = Head(r.events).version, !.fiber = "running"]
<1>1. /\ r.phase = "replay" /\ r.events # <<>> /\ Head(r.events).type # "Completed"
      /\ attempt' = [attempt EXCEPT ![a] = t] /\ UNCHANGED journal
  BY DEF ReplayFirstAttempted, Replaying
<1>2. /\ t.phase = "replay" /\ t.events = Tail(r.events) /\ t.tag = "Replay" /\ t.broken = r.broken
  <2>1. r \in AttemptType
    BY TypedState
  <2> HIDE DEF r
  <2> QED BY <1>1, <2>1 DEF Past, AttemptType
<1> HIDE DEF t
<1>3. StageFits(t, journal[Workflow])
  BY <1>1, <1>2, PastStage
<1> QED BY <1>1, <1>3, StageKeeps

\* An event is replayed, with a message or without.
LEMMA ReplayedStage ==
  ASSUME IInv, OrderInv, NEW a \in Attempts, attempt[a].phase = "replay", attempt[a].events # <<>>,
         Head(attempt[a].events).type # "Completed", attempt[a].tag = "Replay", UNCHANGED journal,
         NEW delayed, NEW mailbox,
         attempt' = [attempt EXCEPT ![a] = Past([attempt[a] EXCEPT !.delayed = delayed, !.mailbox = mailbox])]
  PROVE  OrderInv'
<1> DEFINE r == attempt[a]
           t == Past([r EXCEPT !.delayed = delayed, !.mailbox = mailbox])
<1>1. r \in AttemptType
  BY TypedState
<1>2. t.phase = r.phase /\ t.events = Tail(r.events) /\ t.tag = r.tag /\ t.broken = r.broken
  <2> HIDE DEF r
  <2> QED BY <1>1 DEF Past, AttemptType
<1> HIDE DEF t
<1>3. StageFits(t, journal[Workflow])
  BY <1>2, PastStage
<1> QED BY <1>3, StageKeeps DEF t

LEMMA ReplayAttemptedStage ==
  ASSUME IInv, OrderInv, NEW a \in Attempts, ReplayAttempted(a)
  PROVE  OrderInv'
<1> DEFINE r == attempt[a]
<1>1. /\ r.phase = "replay" /\ r.events # <<>> /\ Head(r.events).type # "Completed" /\ r.tag # "NotStarted"
      /\ UNCHANGED journal
  BY DEF ReplayAttempted, Replaying
<1>2. Expected(a)
  BY <1>1, EventIsExpected
<1>3. r \in AttemptType /\ r.tag = "Replay"
  BY <1>2, TypedState DEF Expected
<1>4. r = [r EXCEPT !.delayed = r.delayed, !.mailbox = r.mailbox]
  BY <1>3 DEF AttemptType
<1>5. attempt' = [attempt EXCEPT ![a] = Past([attempt[a] EXCEPT !.delayed = r.delayed, !.mailbox = r.mailbox])]
  BY <1>2, <1>4 DEF ReplayAttempted
<1> QED BY <1>1, <1>3, <1>5, ReplayedStage

\* The exit of the workflow is the last event.
LEMMA ReplayCompletedStage ==
  ASSUME IInv, OrderInv, NEW a \in Attempts, ReplayCompleted(a)
  PROVE  OrderInv'
<1> DEFINE r == attempt[a]
           J == journal[Workflow]
           l == Len(r.events)
           j == Len(J)
           t == [Past(r) EXCEPT !.tag = "Completed"]
<1>1. r.phase = "replay" /\ r.events # <<>> /\ Head(r.events).type = "Completed" /\ UNCHANGED journal
  BY DEF ReplayCompleted, Replaying
<1>2. Expected(a)
  BY <1>1, EventIsExpected
<1>3. Die(a, "determinism") \/ attempt' = [attempt EXCEPT ![a] = t]
  BY <1>2 DEF ReplayCompleted
<1>4. r \in AttemptType /\ J \in Seq(Events) /\ InOrder(J) /\ CoordinatorFits(r, J) /\ WellFormed(J)
  BY TypedState DEF OrderInv
<1>5. r.broken # "order"
  BY DEF OrderInv, StageFits
<1> HIDE DEF r, J
<1>6. j - l \in Nat /\ Head(r.events) = J[(j - l) + 1] /\ l \in Nat /\ j \in Nat /\ l # 0 /\ DOMAIN J = 1..j
  <2>1. j - l \in Nat /\ Head(r.events) = J[(j - l) + 1]
    BY <1>1, <1>4, PastFits
  <2>2. r.events \in Seq(Events)
    BY <1>4 DEF AttemptType
  <2> QED BY <1>1, <1>4, <2>1, <2>2, LenProperties, EmptySeq
<1>7. Tail(r.events) = <<>>
  <2>1. Len(Tail(r.events)) = l - 1 /\ Tail(r.events) \in Seq(Events)
    BY <1>1, <1>4, HeadTailProperties, EmptySeq DEF AttemptType
  <2>2. (j - l) + 1 \in DOMAIN J
    <3> HIDE DEF j, l
    <3> QED BY <1>6
  <2>3. (j - l) + 1 = j
    BY <1>1, <1>4, <1>6, <2>2 DEF WellFormed
  <2>4. l - 1 = 0
    <3> HIDE DEF j, l
    <3> QED BY <1>6, <2>3
  <2> QED BY <2>1, <2>4, EmptySeq
<1>8. t.phase = "replay" /\ t.events = <<>> /\ t.tag = "Completed" /\ t.broken = r.broken
  BY <1>1, <1>4, <1>7 DEF Past, AttemptType
<1> HIDE DEF t
<1>9. StageFits(t, J)
  BY <1>5, <1>8 DEF StageFits
<1>10. CASE Die(a, "determinism")
  BY <1>1, <1>10, DeathStage
<1>11. CASE attempt' = [attempt EXCEPT ![a] = t]
  BY <1>1, <1>9, <1>11, StageKeeps DEF J
<1> QED BY <1>3, <1>10, <1>11

\* What the replay of a fork or of a join does to the coordinator.
LEMMA ReplayRequestStage ==
  ASSUME IInv, OrderInv, NEW a \in Attempts, attempt[a].phase = "replay", attempt[a].events # <<>>,
         Head(attempt[a].events).type \in {"Forked", "Joined"}, UNCHANGED journal,
         \/ Die(a, "determinism")
         \/ Delay(a)
         \/ \E m, s : Replayed(a, m, [attempt[a] EXCEPT !.delayed = s])
         \/ \E m, s : Replayed(a, m, [attempt[a] EXCEPT !.mailbox = s])
  PROVE  OrderInv'
<1> DEFINE r == attempt[a]
<1>1. r \in AttemptType /\ r.tag = "Replay"
  BY EventIsExpected, TypedState DEF Expected
<1>2. CASE Die(a, "determinism")
  BY <1>2, DeathStage
<1>3. CASE Delay(a)
  <2> DEFINE t == [r EXCEPT !.mailbox = Tail(@), !.delayed = Append(@, Head(r.mailbox))]
  <2>1. attempt' = [attempt EXCEPT ![a] = t]
    BY <1>1, <1>3 DEF Delay, AttemptType
  <2>2. t.phase = r.phase /\ t.events = r.events /\ t.broken = r.broken /\ t.tag = r.tag
    BY <1>1 DEF AttemptType
  <2> HIDE DEF t
  <2> QED BY <2>1, <2>2, StageSame
<1>4. ASSUME NEW m, NEW s, Replayed(a, m, [r EXCEPT !.delayed = s]) PROVE OrderInv'
  <2>1. [r EXCEPT !.delayed = s] = [r EXCEPT !.delayed = s, !.mailbox = r.mailbox]
    BY <1>1 DEF AttemptType
  <2>2. attempt' = [attempt EXCEPT ![a] = Past([attempt[a] EXCEPT !.delayed = s, !.mailbox = r.mailbox])]
    BY <1>4, <2>1 DEF Replayed
  <2> QED BY <1>1, <2>2, ReplayedStage
<1>5. ASSUME NEW m, NEW s, Replayed(a, m, [r EXCEPT !.mailbox = s]) PROVE OrderInv'
  <2>1. [r EXCEPT !.mailbox = s] = [r EXCEPT !.delayed = r.delayed, !.mailbox = s]
    BY <1>1 DEF AttemptType
  <2>2. attempt' = [attempt EXCEPT ![a] = Past([attempt[a] EXCEPT !.delayed = r.delayed, !.mailbox = s])]
    BY <1>5, <2>1 DEF Replayed
  <2> QED BY <1>1, <2>2, ReplayedStage
<1> QED BY <1>2, <1>3, <1>4, <1>5

LEMMA ReplayForkedStage ==
  ASSUME IInv, OrderInv, NEW a \in Attempts, ReplayForked(a)
  PROVE  OrderInv'
<1>1. /\ attempt[a].phase = "replay" /\ attempt[a].events # <<>> /\ UNCHANGED journal
      /\ Head(attempt[a].events).type = "Forked"
  BY DEF ReplayForked, Replaying
<1>2. Expected(a)
  BY <1>1, EventIsExpected
<1>3. \/ Die(a, "determinism") \/ Delay(a)
      \/ \E m, s : Replayed(a, m, [attempt[a] EXCEPT !.delayed = s])
      \/ \E m, s : Replayed(a, m, [attempt[a] EXCEPT !.mailbox = s])
  BY <1>2 DEF ReplayForked
<1> QED BY <1>1, <1>3, ReplayRequestStage

LEMMA ReplayJoinedStage ==
  ASSUME IInv, OrderInv, NEW a \in Attempts, ReplayJoined(a)
  PROVE  OrderInv'
<1>1. /\ attempt[a].phase = "replay" /\ attempt[a].events # <<>> /\ UNCHANGED journal
      /\ Head(attempt[a].events).type = "Joined"
  BY DEF ReplayJoined, Replaying
<1>2. Expected(a)
  BY <1>1, EventIsExpected
<1>3. \/ Die(a, "determinism") \/ Delay(a)
      \/ \E m, s : Replayed(a, m, [attempt[a] EXCEPT !.delayed = s])
      \/ \E m, s : Replayed(a, m, [attempt[a] EXCEPT !.mailbox = s])
  BY <1>2 DEF ReplayJoined
<1> QED BY <1>1, <1>3, ReplayRequestStage

\* The journal is read, or exhausted.
LEMMA ReadStage ==
  ASSUME IInv, OrderInv, NEW a \in Attempts, Read(a) \/ EndReplay(a)
  PROVE  OrderInv'
<1> DEFINE r == attempt[a]
           J == journal[Workflow]
<1>1. r \in AttemptType /\ StageFits(r, J) /\ J \in Seq(Events) /\ CoordinatorFits(r, J)
  BY TypedState DEF OrderInv
<1>2. CASE Read(a)
  <2> DEFINE t == [r EXCEPT !.phase = "replay", !.events = J]
  <2>1. attempt' = [attempt EXCEPT ![a] = t] /\ UNCHANGED journal /\ r.phase = "reading"
    BY <1>2 DEF Read, EventsOf
  <2>2. t.phase = "replay" /\ t.tag = "NotStarted" /\ t.broken = r.broken
    BY <1>1, <2>1 DEF AttemptType, CoordinatorFits, Live
  <2> HIDE DEF t
  <2>3. StageFits(t, J)
    BY <1>1, <2>2 DEF StageFits
  <2> QED BY <2>1, <2>3, StageKeeps
<1>3. CASE EndReplay(a)
  <2> DEFINE q == Append(r.mailbox, CheckStatus(NoBranch))
             t == [r EXCEPT !.phase = "execute", !.mailbox = q]
  <2>1. attempt' = [attempt EXCEPT ![a] = t] /\ UNCHANGED journal /\ r.phase = "replay" /\ r.events = <<>>
    <3>1. UNCHANGED journal /\ r.phase = "replay" /\ r.events = <<>>
      BY <1>3 DEF EndReplay
    <3>2. attempt' = [attempt EXCEPT ![a] = t]
      BY <1>1, <1>3 DEF EndReplay, AttemptType
    <3> QED BY <3>1, <3>2
  <2>2. t.phase = "execute" /\ t.tag = r.tag /\ t.broken = r.broken
    BY <1>1 DEF AttemptType
  <2>3. r.tag \notin {"Running", "Yielding"} /\ Len(r.events) = 0 /\ Len(J) \in Nat
    BY <1>1, <2>1, LenProperties DEF CoordinatorFits, Live
  <2> HIDE DEF t, r, J
  <2>4. Len(J) - Len(r.events) = Len(J)
    BY <2>3
  <2>5. StageFits(t, J)
    BY <1>1, <2>1, <2>2, <2>3, <2>4 DEF StageFits
  <2> QED BY <2>1, <2>5, StageKeeps DEF J
<1> QED BY <1>2, <1>3

\* The coordinator appends an event that is the first attempt or follows others.
LEMMA RecordStage ==
  ASSUME IInv, OrderInv, NEW a \in Attempts,
         HandleNotStarted(a) \/ HandleReplay(a) \/ Complete(a) \/ Fork(a) \/ Join(a)
  PROVE  OrderInv'
<1> DEFINE r == attempt[a]
           J == journal[Workflow]
<1>1. r.phase = "execute" /\ r.tag \in {"NotStarted", "Replay", "Running"} /\ Pending(a) # <<>> /\ IsLive(a)
  BY DEF HandleNotStarted, HandleReplay, Complete, Fork, Join, Handling, IsLive, Live
<1>2. /\ r \in AttemptType /\ StageFits(r, J) /\ CoordinatorFits(r, J) /\ J \in Seq(Events)
  BY TypedState DEF OrderInv
<1>3. /\ Taken(a) \in AttemptType /\ Taken(a).phase = r.phase /\ Taken(a).tag = r.tag
      /\ Taken(a).broken = r.broken
  <2>1. /\ Taken(a) \in AttemptType /\ Taken(a).phase = r.phase /\ Taken(a).tag = r.tag
    BY <1>1, TakenType
  <2>2. Taken(a).broken = r.broken
    BY <1>2 DEF Taken, AttemptType
  <2> QED BY <2>1, <2>2
<1>4. r.tag # "NotStarted" => J # <<>> /\ NoExit(J, Len(J))
  <2>1. r.tag # "NotStarted" => r.fiber # "none"
    BY <1>1, <1>2 DEF CoordinatorFits, Live
  <2> QED BY <1>1, <1>2, <2>1, RunningVersion DEF StageFits
<1>5. r.tag = "NotStarted" => J = <<>> /\ NoExit(J, Len(J))
  <2>1. r.tag = "NotStarted" => J = <<>>
    BY <1>1, <1>2 DEF CoordinatorFits, Live
  <2> QED BY <2>1 DEF NoExit
<1>6. r.broken # "order"
  BY <1>2 DEF StageFits
<1> DEFINE p == Taken(a)
<1>7. PICK e, t : /\ Record(a, e, t) /\ t.phase = "execute" /\ t.broken = r.broken
                  /\ r.tag = "NotStarted" => e.type = "Attempted"
                  /\ t.tag = "Completed" \/ e.type # "Completed"
  <2>1. CASE HandleNotStarted(a)
    <3> DEFINE e == Attempted(r.code, 0)
               t == [r EXCEPT !.tag = "Running", !.version = r.code, !.next = 1, !.fiber = "running"]
    <3>1. Record(a, e, t) /\ e.type = "Attempted"
      BY <2>1 DEF HandleNotStarted, Attempted
    <3>2. t.phase = "execute" /\ t.broken = r.broken
      <4> HIDE DEF r
      <4> QED BY <1>1, <1>2 DEF AttemptType
    <3> HIDE DEF e, t
    <3> QED BY <3>1, <3>2
  <2>2. CASE HandleReplay(a)
    <3> DEFINE e == Attempted(r.version, r.next)
               s == r.delayed \o <<Head(Pending(a))>>
               t == [p EXCEPT !.tag = "Running", !.next = @ + 1, !.delayed = <<>>, !.backlog = s]
    <3>1. Record(a, e, t) /\ e.type = "Attempted"
      BY <2>2 DEF HandleReplay, Attempted
    <3>2. t.phase = "execute" /\ t.broken = r.broken
      <4> HIDE DEF r, p, s
      <4> QED BY <1>1, <1>3 DEF p, AttemptType
    <3> HIDE DEF e, t
    <3> QED BY <3>1, <3>2
  <2>3. CASE Complete(a)
    <3> DEFINE e == Completed(Head(Pending(a)).exit, r.next)
               t == [p EXCEPT !.tag = "Completed", !.fiber = "ended"]
    <3>1. Record(a, e, t) /\ r.tag = "Running"
      BY <2>3 DEF Complete, Handling
    <3>2. t.phase = "execute" /\ t.broken = r.broken /\ t.tag = "Completed"
      <4> HIDE DEF r, p
      <4> QED BY <1>1, <1>3 DEF p, AttemptType
    <3> HIDE DEF e, t
    <3> QED BY <3>1, <3>2
  <2>4. CASE Fork(a) \/ Join(a)
    <3> DEFINE m == Head(Pending(a))
               t == [p EXCEPT !.next = @ + 1]
    <3>1. Record(a, Forked(m.id, r.next), t) \/ Record(a, Joined(m.id, r.next), t)
      BY <2>4 DEF Fork, Join
    <3>2. r.tag = "Running"
      BY <2>4 DEF Fork, Join, Handling
    <3>3. t.phase = "execute" /\ t.broken = r.broken
      <4> HIDE DEF r, p
      <4> QED BY <1>1, <1>3 DEF p, AttemptType
    <3>4. Forked(m.id, r.next).type # "Completed" /\ Joined(m.id, r.next).type # "Completed"
      BY DEF Forked, Joined
    <3> HIDE DEF t, m
    <3> QED BY <3>1, <3>2, <3>3, <3>4
  <2> QED BY <2>1, <2>2, <2>3, <2>4
<1>8. NoExit(J, Len(J)) /\ (J = <<>> => e.type = "Attempted")
  BY <1>4, <1>5, <1>7
<1> HIDE DEF r
<1>9. t.broken # "order" /\ (t.tag \in {"Replay", "Running"} => e.type # "Completed")
  BY <1>6, <1>7
<1> QED BY <1>1, <1>7, <1>8, <1>9, StageRecords

\* The messages handled without a record, and the end of the attempt.
LEMMA UnrecordedStage ==
  ASSUME IInv, OrderInv, NEW a \in Attempts,
         \/ StartYielding(a) \/ EndUnrecorded(a) \/ RefuseRequest(a) \/ IgnoreYield(a) \/ AnswerStatus(a)
  PROVE  OrderInv'
<1> DEFINE p == Taken(a)
<1>1. attempt[a].phase = "execute" /\ Pending(a) # <<>> /\ UNCHANGED journal
  BY DEF StartYielding, EndUnrecorded, RefuseRequest, IgnoreYield, AnswerStatus, Handling
<1>2. /\ p \in AttemptType /\ p.phase = attempt[a].phase /\ p.tag = attempt[a].tag
      /\ p.events = attempt[a].events /\ p.broken = attempt[a].broken
  <2>1. p \in AttemptType /\ p.phase = attempt[a].phase /\ p.tag = attempt[a].tag /\ p.events = attempt[a].events
    BY <1>1, TakenType
  <2>2. attempt[a] \in AttemptType
    BY TypedState
  <2>3. p.broken = attempt[a].broken
    BY <2>2 DEF Taken, AttemptType
  <2> QED BY <2>1, <2>3
<1>3. PICK t \in {p, [p EXCEPT !.tag = "Yielding"], [p EXCEPT !.fiber = "ended"]} :
        attempt' = [attempt EXCEPT ![a] = t]
  BY DEF StartYielding, EndUnrecorded, RefuseRequest, IgnoreYield, AnswerStatus
<1> HIDE DEF p
<1>4. /\ t.phase = attempt[a].phase /\ t.events = attempt[a].events /\ t.broken = attempt[a].broken
      /\ t.tag = attempt[a].tag \/ t.tag = "Yielding"
  BY <1>2, <1>3 DEF AttemptType
<1> QED BY <1>1, <1>3, <1>4, StageSame

LEMMA FinishStage ==
  ASSUME IInv, OrderInv, NEW a \in Attempts, Finish(a)
  PROVE  OrderInv'
<1>1. PICK p \in {"completed", "interrupted"} : attempt' = [attempt EXCEPT ![a] = Ended(p)] /\ UNCHANGED journal
  BY DEF Finish
<1>2. Ended(p).phase = p /\ Ended(p).broken = "no"
  BY DEF Ended, Fresh
<1>3. StageFits(Ended(p), journal[Workflow])
  BY <1>2 DEF StageFits
<1> QED BY <1>1, <1>3, StageKeeps

LEMMA MailStage ==
  ASSUME IInv, OrderInv, NEW a \in Attempts, NEW m, Mail(a, m), UNCHANGED journal
  PROVE  OrderInv'
<1> DEFINE t == [attempt[a] EXCEPT !.mailbox = Append(@, m)]
<1>1. attempt' = [attempt EXCEPT ![a] = t] /\ attempt[a] \in AttemptType
  BY TypedState DEF Mail, Offered
<1>2. /\ t.phase = attempt[a].phase /\ t.events = attempt[a].events /\ t.broken = attempt[a].broken
      /\ t.tag = attempt[a].tag
  BY <1>1 DEF AttemptType
<1> HIDE DEF t
<1> QED BY <1>1, <1>2, StageSame

LEMMA LearnStage ==
  ASSUME IInv, OrderInv, NEW a \in Attempts, NEW x, NEW exit,
         attempt' = [attempt EXCEPT ![a].got[x] = exit], journal'[Workflow] = journal[Workflow]
  PROVE  OrderInv'
<1> DEFINE t == [attempt[a] EXCEPT !.got[x] = exit]
<1>1. attempt' = [attempt EXCEPT ![a] = t] /\ attempt[a] \in AttemptType
  BY TypedState
<1>2. /\ t.phase = attempt[a].phase /\ t.events = attempt[a].events /\ t.broken = attempt[a].broken
      /\ t.tag = attempt[a].tag
  BY <1>1 DEF AttemptType
<1> HIDE DEF t
<1> QED BY <1>1, <1>2, StageSame

\* The branches append to the journals of their activities.
LEMMA BranchStage ==
  ASSUME IInv, OrderInv, NEW a \in Attempts, NEW b \in Branches, RunBranch(a, b) \/ Interrupt(a, b)
  PROVE  OrderInv'
<1>1. CASE \E m : Mail(a, m) /\ UNCHANGED journal
  BY <1>1, MailStage
<1>2. CASE UNCHANGED <<attempt, journal>>
  BY <1>2 DEF OrderInv
<1>3. ASSUME NEW pc, At(a, b, pc), NEW e, journal' = AppendTo(journal, Activity(a, b), e)
      PROVE  journal'[Workflow] = journal[Workflow]
  <2>1. Activity(a, b) \in Activities
    BY <1>3, AtActivity
  <2>2. journal \in [Ids -> Seq(Events)] /\ Workflow \in Ids /\ Activity(a, b) # Workflow
    BY <2>1 DEF IInv, TypeOK, Ids
  <2> QED BY <1>3, <2>2 DEF AppendTo
<1>4. CASE Attempt(a, b)
  BY <1>3, <1>4 DEF Attempt, OrderInv
<1>5. CASE RecordExit(a, b)
  BY <1>3, <1>5, LearnStage DEF RecordExit
<1>6. CASE ReadActivity(a, b)
  BY <1>2, <1>6, LearnStage DEF ReadActivity
<1> QED BY <1>1, <1>2, <1>4, <1>5, <1>6
        DEF RunBranch, RequestForkOf, RequestJoinOf, AskYielding, Execute, Interrupt

LEMMA RequestCompleteOfStage ==
  ASSUME IInv, OrderInv, NEW a \in Attempts, RequestCompleteOf(a)
  PROVE  OrderInv'
<1> DEFINE q == Append(attempt[a].mailbox, RequestComplete(attempt[a].got))
           t == [attempt[a] EXCEPT !.mailbox = q, !.fiber = "completing"]
<1>1. attempt[a] \in AttemptType /\ UNCHANGED journal
  BY TypedState DEF RequestCompleteOf
<1>2. attempt' = [attempt EXCEPT ![a] = t]
  BY <1>1 DEF RequestCompleteOf, Offered, AttemptType, IInv, TypeOK
<1> HIDE DEF q
<1>3. /\ t.phase = attempt[a].phase /\ t.events = attempt[a].events /\ t.broken = attempt[a].broken
      /\ t.tag = attempt[a].tag
  BY <1>1 DEF AttemptType
<1> HIDE DEF t
<1> QED BY <1>1, <1>2, <1>3, StageSame

\* Attempts begin with nothing, and nothing is left of them after a crash.
LEMMA LifeStage ==
  ASSUME IInv, OrderInv, Crash \/ \E a \in Attempts : Yield(a) \/ \E v \in Deployed[a] : Start(a, v)
  PROVE  OrderInv'
<1>1. CASE Crash
  <2>1. \A a \in Attempts : attempt'[a] = Ended("crashed") \/ attempt'[a] = attempt[a]
    BY <1>1 DEF Crash
  <2>2. Ended("crashed").phase = "crashed" /\ Ended("crashed").broken = "no"
    BY DEF Ended, Fresh
  <2>3. StageFits(Ended("crashed"), journal[Workflow])
    BY <2>2 DEF StageFits
  <2> QED BY <1>1, <2>1, <2>3 DEF Crash, OrderInv
<1>2. ASSUME NEW a \in Attempts, Yield(a) PROVE OrderInv'
  BY <1>2, MailStage DEF Yield
<1>3. ASSUME NEW a \in Attempts, NEW v \in Deployed[a], Start(a, v) PROVE OrderInv'
  <2>1. attempt' = [attempt EXCEPT ![a] = Fresh(v)] /\ UNCHANGED journal
    BY <1>3 DEF Start, Begin
  <2>2. Fresh(v).phase = "reading" /\ Fresh(v).broken = "no"
    BY DEF Fresh
  <2>3. StageFits(Fresh(v), journal[Workflow])
    BY <2>2 DEF StageFits
  <2> QED BY <2>1, <2>3, StageKeeps
<1> QED BY <1>1, <1>2, <1>3

LEMMA StageNext == IInv /\ OrderInv /\ [Next]_vars => OrderInv'
<1> SUFFICES ASSUME IInv, OrderInv, [Next]_vars PROVE OrderInv'
  OBVIOUS
<1>1. CASE Crash \/ \E a \in Attempts : Yield(a) \/ \E v \in Deployed[a] : Start(a, v)
  BY <1>1, LifeStage
<1>2. ASSUME NEW a \in Attempts, Replay(a) PROVE OrderInv'
  BY <1>2, ReadStage, ReplayFirstStage, ReplayAttemptedStage, ReplayCompletedStage, ReplayForkedStage,
     ReplayJoinedStage DEF Replay
<1>3. ASSUME NEW a \in Attempts, Handle(a) PROVE OrderInv'
  BY <1>3, RecordStage, UnrecordedStage, FinishStage DEF Handle
<1>4. ASSUME NEW a \in Attempts, Progress(a) PROVE OrderInv'
  BY <1>2, <1>3, <1>4, RequestCompleteOfStage, BranchStage DEF Progress
<1>5. CASE UNCHANGED vars
  BY <1>5 DEF vars, OrderInv
<1> QED BY <1>1, <1>4, <1>5 DEF Next

LEMMA OrderKept == Spec => []OrderInv
BY Inductive, StageInit, StageNext, PTL DEF Spec

\* With one attempt at a time, no replay finds the journal of the workflow broken or out of
\* order (WorkflowRuntime.attempt), however often attempts were interrupted, died or crashed.
THEOREM JournalNeverBroken == Spec => []NeverOutOfOrder
<1>1. OrderInv => NeverOutOfOrder
  BY DEF OrderInv, StageFits, NeverOutOfOrder
<1> QED BY <1>1, OrderKept, PTL
=============================================================================
