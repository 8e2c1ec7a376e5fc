----------------------- MODULE DurableExecution_proofs -----------------------
(***************************************************************************)
(* Proofs about WorkflowRuntime, for any versions, values and bounds and   *)
(* for the programs whose forks have one order (Determined): that replays  *)
(* follow the journal, and that it implements DurableExecution.            *)
(***************************************************************************)
EXTENDS WorkflowRuntime_proofs
----------------------------------------------------------------------------
(* Programs whose forks have one order.                                    *)

\* The program alone decides the order in which the activities are forked: only the last
\* branch goes on to a second one, no activity occurs twice, and none has a timeout.
Determined ==
  /\ Timed = {}
  /\ \A b, c \in Branches : b < c => Len(Program[b]) = 1
  /\ \A b, c \in Branches : \A i \in DOMAIN Program[b], j \in DOMAIN Program[c] :
        Program[b][i] = Program[c][j] => b = c /\ i = j

\* The branch of an activity and its place there; the order in which they are forked.
Of(x)   == CHOOSE b \in Branches : \E i \in DOMAIN Program[b] : Program[b][i] = x
Turn(x) == CHOOSE i \in DOMAIN Program[Of(x)] : Program[Of(x)][i] = x
Before(x, y) == Of(x) < Of(y) \/ (Of(x) = Of(y) /\ Turn(x) < Turn(y))

\* How far the branches br of an attempt are with an activity: it was joined, it is the
\* one its branch is at, its fork was asked for, permitted, or its result is known.
Gone(br, x)  == br[Of(x)].at > Turn(x)
AtPc(br, x, pcs) == br[Of(x)].at = Turn(x) /\ br[Of(x)].pc \in pcs
Asked(br, x) == Gone(br, x) \/ AtPc(br, x, BranchPcs \ {"idle"})
Begun(br, x) == Gone(br, x) \/ AtPc(br, x, BranchPcs \ {"idle", "forking"})
Known(br, x) == Gone(br, x) \/ AtPc(br, x, {"joinable", "joining"})

\* Activity x is forked, or joined, in the first n events of J.
OnRecord(J, n, type, x) == \E k \in 1..n : J[k].type = type /\ J[k].id = x

\* The journal of the workflow: forks in their order, and joins of activities that have a
\* result, of each activity once, and of all before the exit.
ForksInOrder(J) ==
  /\ \A k, l \in 1..Len(J) : k < l /\ J[k].type = "Forked" /\ J[l].type = "Forked" => Before(J[k].id, J[l].id)
  /\ \A k \in 1..Len(J) : J[k].type = "Forked" =>
        \A y \in Activities : Before(y, J[k].id) => OnRecord(J, k - 1, "Forked", y)
JoinsOnce(J) ==
  \A k, l \in 1..Len(J) : J[k].type = "Joined" /\ J[l].type = "Joined" /\ J[k].id = J[l].id => k = l
ExitLast(J) ==
  \A k \in 1..Len(J) : J[k].type = "Completed" => \A x \in Activities : OnRecord(J, k - 1, "Joined", x)
HistoryFits(J) == ForksInOrder(J) /\ JoinsOnce(J) /\ ExitLast(J)

\* The journal of an activity.
RecordFits(J) ==
  /\ \A k \in 1..Len(J) : J[k].sequence = k
  /\ \A k \in 1..Len(J) : J[k].type = "Completed" => J[k].exit \in Values

\* A branch that has an activity run is the only one to write its journal, which has no
\* exit yet, and knows its length.
Writing == {"attempting", "executing", "exited", "asking", "recording"}
WriterFits(me, b, tag, journals) ==
  /\ me.at \in 1..(Len(Program[b]) + 1)
  /\ me.pc \notin {"idle", "stopped"} => me.at \in 1..Len(Program[b])
  /\ me.pc \in Writing =>
       /\ ~IsCompleted(journals[Program[b][me.at]])
       /\ Len(journals[Program[b][me.at]]) = IF me.pc = "attempting" THEN me.last ELSE me.last + 1
       /\ me.exit = Interrupted => tag = "Yielding"
       /\ me.pc = "recording" => me.exit \in Values

\* What an attempt knows of its activities is on record.
GotRight(got, journals) ==
  \A x \in Activities : got[x] # NoValue => IsCompleted(journals[x]) /\ got[x] = ExitOf(journals[x])

\* A branch that nothing disturbed.
SteadyBranch(me) ==
  /\ ~me.cut /\ me.pc # "stopped"
  /\ me.pc \in {"idle", "forking", "forked", "joinable", "joining"} => me.last = 0 /\ me.exit = NoValue

\* The branches have come as far as the first n events say.
ProgressFits(br, J, n, got) ==
  \A x \in Activities :
     /\ OnRecord(J, n, "Forked", x) <=> Begun(br, x)
     /\ OnRecord(J, n, "Joined", x) <=> Gone(br, x)
     /\ Known(br, x) => got[x] # NoValue
     /\ Asked(br, x) => \A y \in Activities : Before(y, x) => Asked(br, y)

\* The messages the coordinator has not yet answered, in their order.
Front(r) == IF r.tag = "Replay" THEN r.delayed ELSE r.backlog
Queue(r) == Front(r) \o r.mailbox

\* Message m asks for what its branch waits for.
Awaited(br, m, pc) ==
  /\ br[m.branch].pc = pc
  /\ br[m.branch].at \in 1..Len(Program[m.branch]) /\ Program[m.branch][br[m.branch].at] = m.id

\* The forks are in their order, and no branch asks for two joins.
ForksOrdered(q) ==
  \A k, l \in 1..Len(q) : k < l /\ q[k].type = "RequestFork" /\ q[l].type = "RequestFork" =>
     Before(q[k].id, q[l].id)
JoinsApart(q) ==
  \A k, l \in 1..Len(q) :
     k < l /\ q[k].type = "RequestJoin" /\ q[l].type = "RequestJoin" => q[k].branch # q[l].branch

QueueFits(q, br, got, replaying) ==
  /\ \A k \in 1..Len(q) : q[k].type = "RequestFork" => Awaited(br, q[k], "forking")
  /\ \A k \in 1..Len(q) : q[k].type = "RequestJoin" => Awaited(br, q[k], "joining")
  /\ \A b \in Branches : br[b].pc = "forking" =>
        \E k \in 1..Len(q) : q[k].type = "RequestFork" /\ q[k].branch = b
  /\ ForksOrdered(q) /\ JoinsApart(q)
  /\ \A k \in 1..Len(q) : q[k].type = "RequestComplete" =>
        q[k].exit = got /\ \A x \in Activities : Gone(br, x)
  /\ replaying => \A k \in 1..Len(q) : q[k].type = "CheckStatus" /\ q[k].branch # NoBranch =>
        br[q[k].branch].pc = "asking"

\* What is in the mailbox and in the messages put aside, after n interruptions.
MailFits(r, n) ==
  /\ r.tag \in {"NotStarted", "Replay"} => r.backlog = <<>>
  /\ r.tag # "Replay" => r.delayed = <<>>
  /\ r.tag = "NotStarted" => \A k \in 1..Len(Queue(r)) : Queue(r)[k].type \notin {"RequestFork", "RequestJoin", "RequestComplete"}
                                 /\ (Queue(r)[k].type = "CheckStatus" => Queue(r)[k].branch = NoBranch)
  /\ r.phase \in {"reading", "replay"} =>
       /\ \A k \in 1..Len(Queue(r)) : Queue(r)[k].type = "CheckStatus" => Queue(r)[k].branch # NoBranch
       /\ \A k \in 1..Len(r.delayed) : r.delayed[k].type # "RequestComplete"
  /\ n = 0 => \A k \in 1..Len(Queue(r)) : Queue(r)[k].type # "RequestYield"

\* The fiber of the workflow, and how far it is while nothing disturbs it.
Steady(r) == r.phase \in Live /\ r.fiber # "none" /\ r.tag # "Yielding"
BranchesFollow(r, br, J) ==
  /\ r.phase \notin Live \cup {"died"} => r.fiber = "none"
  /\ r.fiber = "none" => br = Ready
  /\ r.tag = "NotStarted" => r.fiber = "none"
  /\ r.phase = "died" => r.broken # "no"
  /\ Steady(r) =>
       /\ \A b \in Branches : SteadyBranch(br[b])
       /\ IF r.tag = "Completed" THEN \A x \in Activities : Gone(br, x)
          ELSE ProgressFits(br, J, r.next, r.got) /\ QueueFits(Queue(r), br, r.got, r.tag = "Replay")

AttemptDet(r, br, journals, n) ==
  /\ \A b \in Branches : WriterFits(br[b], b, r.tag, journals)
  /\ GotRight(r.got, journals) /\ MailFits(r, n) /\ BranchesFollow(r, br, journals[Workflow])

DetInv ==
  /\ HistoryFits(journal[Workflow])
  /\ \A x \in Activities : RecordFits(journal[x])
  /\ JoinedHaveResult /\ ReplayIsDeterministic
  /\ \A a \in Attempts : AttemptDet(attempt[a], branch[a], journal, yields)
----------------------------------------------------------------------------
(* Lemmas about programs.                                                  *)

LEMMA PlaceOf ==
  ASSUME NEW x \in Activities
  PROVE  /\ Of(x) \in Branches /\ Of(x) \in Nat /\ Turn(x) \in 1..Len(Program[Of(x)])
         /\ Program[Of(x)][Turn(x)] = x /\ Len(Program[Of(x)]) \in Nat
<1>1. \E b \in Branches : \E i \in DOMAIN Program[b] : Program[b][i] = x
  BY ProgramAssumption
<1>2. Of(x) \in Branches /\ \E i \in DOMAIN Program[Of(x)] : Program[Of(x)][i] = x
  BY <1>1 DEF Of
<1>3. Turn(x) \in DOMAIN Program[Of(x)] /\ Program[Of(x)][Turn(x)] = x
  BY <1>2 DEF Turn
<1>4. Program[Of(x)] \in Seq(Activities) /\ Of(x) \in Nat
  BY <1>2, ProgramAssumption
<1> QED BY <1>2, <1>3, <1>4, LenProperties

LEMMA PlaceIs ==
  ASSUME Determined, NEW b \in Branches, NEW i \in 1..Len(Program[b])
  PROVE  /\ Program[b][i] \in Activities /\ Of(Program[b][i]) = b /\ Turn(Program[b][i]) = i
         /\ b \in Nat /\ Len(Program[b]) \in Nat
<1>1. Program[b] \in Seq(Activities) /\ b \in Nat
  BY ProgramAssumption
<1>2. DOMAIN Program[b] = 1..Len(Program[b]) /\ Program[b][i] \in Activities /\ Len(Program[b]) \in Nat
  BY <1>1, LenProperties, ElementOfSeq
<1> DEFINE x == Program[b][i]
<1>3. Of(x) \in Branches /\ Turn(x) \in 1..Len(Program[Of(x)]) /\ Program[Of(x)][Turn(x)] = x
  BY <1>2, PlaceOf
<1>4. DOMAIN Program[Of(x)] = 1..Len(Program[Of(x)])
  BY <1>3, ProgramAssumption, LenProperties
<1>5. \A c \in Branches : \A j \in DOMAIN Program[c] : Program[b][i] = Program[c][j] => b = c /\ i = j
  <2>1. i \in DOMAIN Program[b]
    BY <1>2
  <2> QED BY ONLY <2>1, Determined, b \in Branches DEF Determined
<1>6. Program[b][i] = Program[Of(x)][Turn(x)] /\ Turn(x) \in DOMAIN Program[Of(x)]
  BY <1>3, <1>4
<1>7. Of(x) = b /\ Turn(x) = i
  BY <1>3, <1>5, <1>6
<1> QED BY <1>1, <1>2, <1>7

LEMMA BeforeOrders ==
  ASSUME Determined, NEW x \in Activities, NEW y \in Activities
  PROVE  /\ ~Before(x, x)
         /\ x = y \/ Before(x, y) \/ Before(y, x)
         /\ \A z \in Activities : Before(x, y) /\ Before(y, z) => Before(x, z)
<1>1. /\ Of(x) \in Nat /\ Turn(x) \in Nat /\ Of(y) \in Nat /\ Turn(y) \in Nat
      /\ Program[Of(x)][Turn(x)] = x /\ Program[Of(y)][Turn(y)] = y
  <2>1. ASSUME NEW z \in Activities PROVE Of(z) \in Nat /\ Turn(z) \in Nat /\ Program[Of(z)][Turn(z)] = z
    <3>1. Of(z) \in Nat /\ Program[Of(z)][Turn(z)] = z
      BY ONLY PlaceOf, z \in Activities
    <3>2. Turn(z) \in 1..Len(Program[Of(z)]) /\ Len(Program[Of(z)]) \in Nat
      BY ONLY PlaceOf, z \in Activities
    <3> QED BY ONLY <3>1, <3>2
  <2> QED BY ONLY <2>1, x \in Activities, y \in Activities
<1>2. x = y \/ Before(x, y) \/ Before(y, x)
  <2>1. Of(x) = Of(y) /\ Turn(x) = Turn(y) => x = y
    BY <1>1
  <2>2. \/ Of(x) < Of(y) \/ Of(y) < Of(x)
        \/ Of(x) = Of(y) /\ (Turn(x) < Turn(y) \/ Turn(y) < Turn(x) \/ Turn(x) = Turn(y))
    BY ONLY <1>1
  <2> QED BY ONLY <2>1, <2>2 DEF Before
<1>3. ASSUME NEW z \in Activities, Before(x, y), Before(y, z) PROVE Before(x, z)
  <2>1. Of(z) \in Nat /\ Turn(z) \in Nat
    BY PlaceOf
  <2> QED BY ONLY <1>1, <1>3, <2>1 DEF Before
<1>4. ~Before(x, x)
  BY ONLY <1>1 DEF Before
<1> QED BY <1>2, <1>3, <1>4

\* The branch of an activity that comes before that of another has no other activity.
LEMMA OnlyLastGoesOn ==
  ASSUME Determined, NEW x \in Activities, NEW y \in Activities, Of(y) < Of(x)
  PROVE  Turn(y) = 1
<1>1. Of(y) \in Branches /\ Of(x) \in Branches /\ Turn(y) \in 1..Len(Program[Of(y)])
  BY PlaceOf
<1>2. Len(Program[Of(y)]) = 1
  BY <1>1 DEF Determined
<1> QED BY <1>1, <1>2

\* What the next event adds to the events so far.
LEMMA OneMore ==
  ASSUME NEW n \in Nat, NEW J, NEW K, \A k \in 1..n : K[k] = J[k], NEW type, NEW x
  PROVE  OnRecord(K, n + 1, type, x) <=> OnRecord(J, n, type, x) \/ (K[n + 1].type = type /\ K[n + 1].id = x)
<1>1. \A k \in 1..(n + 1) : k \in 1..n \/ k = n + 1
  OBVIOUS
<1>2. n + 1 \in 1..(n + 1) /\ \A k \in 1..n : k \in 1..(n + 1)
  OBVIOUS
<1> QED BY <1>1, <1>2 DEF OnRecord
----------------------------------------------------------------------------
(* Lemmas about branches.  Branch b is at its activity number i, and no    *)
(* other branch moves.                                                     *)

SameFor(br, cr, y) ==
  /\ Gone(cr, y) <=> Gone(br, y)
  /\ Asked(cr, y) <=> Asked(br, y)
  /\ Begun(cr, y) <=> Begun(br, y)
  /\ Known(cr, y) <=> Known(br, y)

OnlyMoves(br, cr, b) ==
  /\ br \in [Branches -> BranchType] /\ cr \in [Branches -> BranchType]
  /\ \A c \in Branches : c # b => cr[c] = br[c]

LEMMA OthersStand ==
  ASSUME Determined, NEW b \in Branches, NEW i \in 1..Len(Program[b]), NEW br, NEW cr,
         OnlyMoves(br, cr, b), br[b].at = i,
         cr[b].at = i \/ (cr[b].at = i + 1 /\ cr[b].pc = "idle"),
         NEW y \in Activities, y # Program[b][i]
  PROVE  SameFor(br, cr, y)
<1>1. /\ Of(y) \in Branches /\ Turn(y) \in Nat /\ i \in Nat
      /\ Of(y) = b => Turn(y) # i
  <2>1. /\ Of(y) \in Branches /\ Turn(y) \in 1..Len(Program[Of(y)]) /\ Len(Program[Of(y)]) \in Nat
        /\ Program[Of(y)][Turn(y)] = y
    BY PlaceOf
  <2>2. Len(Program[b]) \in Nat
    BY PlaceIs
  <2> QED BY ONLY <2>1, <2>2, i \in 1..Len(Program[b]), y # Program[b][i]
<1>2. CASE Of(y) # b
  BY <1>1, <1>2 DEF SameFor, OnlyMoves, Gone, Asked, Begun, Known, AtPc
<1>3. CASE Of(y) = b /\ cr[b].at = i
  BY <1>1, <1>3 DEF SameFor, Gone, Asked, Begun, Known, AtPc
<1>4. CASE Of(y) = b /\ cr[b].at = i + 1 /\ cr[b].pc = "idle"
  <2>1. Gone(cr, y) <=> Gone(br, y)
    <3>1. i + 1 > Turn(y) <=> i > Turn(y)
      BY <1>1, <1>4
    <3> QED BY <1>4, <3>1 DEF Gone
  <2>2. ~AtPc(br, y, BranchPcs \ {"idle"}) /\ ~AtPc(br, y, BranchPcs \ {"idle", "forking"})
        /\ ~AtPc(br, y, {"joinable", "joining"})
    BY <1>1, <1>4 DEF AtPc
  <2>3. ~AtPc(cr, y, BranchPcs \ {"idle"}) /\ ~AtPc(cr, y, BranchPcs \ {"idle", "forking"})
        /\ ~AtPc(cr, y, {"joinable", "joining"})
    BY <1>4 DEF AtPc
  <2> QED BY <2>1, <2>2, <2>3 DEF SameFor, Asked, Begun, Known
<1> QED BY <1>2, <1>3, <1>4

\* What the activity itself is, by the state of its branch.
LEMMA ItStands ==
  ASSUME Determined, NEW b \in Branches, NEW i \in 1..Len(Program[b]), NEW br \in [Branches -> BranchType]
  PROVE  LET x == Program[b][i]
         IN  /\ Gone(br, x) <=> br[b].at > i
             /\ br[b].at = i => /\ ~Gone(br, x)
                                /\ Asked(br, x) <=> br[b].pc # "idle"
                                /\ Begun(br, x) <=> br[b].pc \notin {"idle", "forking"}
                                /\ Known(br, x) <=> br[b].pc \in {"joinable", "joining"}
             /\ br[b].at = i + 1 => Gone(br, x) /\ Asked(br, x) /\ Begun(br, x) /\ Known(br, x)
<1> DEFINE x == Program[b][i]
<1>1. Of(x) = b /\ Turn(x) = i /\ i \in Nat
  BY PlaceIs
<1>2. br[b].pc \in BranchPcs
  BY DEF BranchType
<1> HIDE DEF x
<1>3. Gone(br, x) <=> br[b].at > i
  BY <1>1 DEF Gone
<1>4. ASSUME br[b].at = i
      PROVE  /\ ~Gone(br, x) /\ (Asked(br, x) <=> br[b].pc # "idle")
             /\ Begun(br, x) <=> br[b].pc \notin {"idle", "forking"}
             /\ Known(br, x) <=> br[b].pc \in {"joinable", "joining"}
  BY <1>1, <1>2, <1>3, <1>4 DEF Asked, Begun, Known, AtPc
<1>5. ASSUME br[b].at = i + 1 PROVE Gone(br, x) /\ Asked(br, x) /\ Begun(br, x) /\ Known(br, x)
  BY <1>1, <1>3, <1>5 DEF Asked, Begun, Known
<1> QED BY <1>3, <1>4, <1>5 DEF x

\* Nothing but the results known changes for the branches.
LEMMA ProgressKeeps ==
  ASSUME NEW br, NEW cr, NEW J, NEW n, NEW K, NEW m, NEW got, ProgressFits(br, J, n, got), NEW got2,
         \A y \in Activities :
            /\ Gone(cr, y) <=> Gone(br, y)
            /\ Asked(cr, y) <=> Asked(br, y)
            /\ Begun(cr, y) <=> Begun(br, y)
            /\ Known(cr, y) => Known(br, y) \/ got2[y] # NoValue
            /\ got[y] # NoValue => got2[y] # NoValue
            /\ OnRecord(K, m, "Forked", y) <=> OnRecord(J, n, "Forked", y)
            /\ OnRecord(K, m, "Joined", y) <=> OnRecord(J, n, "Joined", y)
  PROVE  ProgressFits(cr, K, m, got2)
BY DEF ProgressFits

\* The fork of the activity is permitted and on record.
LEMMA ProgressForks ==
  ASSUME Determined, NEW b \in Branches, NEW i \in 1..Len(Program[b]), NEW br, NEW cr,
         OnlyMoves(br, cr, b), br[b].at = i, br[b].pc = "forking", cr[b].at = i, cr[b].pc = "forked",
         NEW J, NEW n, NEW K, NEW m, NEW got, ProgressFits(br, J, n, got),
         \A y \in Activities :
            /\ OnRecord(K, m, "Forked", y) <=> OnRecord(J, n, "Forked", y) \/ y = Program[b][i]
            /\ OnRecord(K, m, "Joined", y) <=> OnRecord(J, n, "Joined", y)
  PROVE  ProgressFits(cr, K, m, got)
<1> DEFINE x == Program[b][i]
<1>1. \A y \in Activities : y # x => SameFor(br, cr, y)
  BY OthersStand
<1>2. /\ ~Gone(br, x) /\ Asked(br, x) /\ ~Begun(br, x) /\ ~Known(br, x)
      /\ ~Gone(cr, x) /\ Asked(cr, x) /\ Begun(cr, x) /\ ~Known(cr, x)
  <2>1. br \in [Branches -> BranchType] /\ cr \in [Branches -> BranchType]
    BY DEF OnlyMoves
  <2>2. ~Gone(br, x) /\ Asked(br, x) /\ ~Begun(br, x) /\ ~Known(br, x)
    BY <2>1, ItStands
  <2>3. ~Gone(cr, x) /\ Asked(cr, x) /\ Begun(cr, x) /\ ~Known(cr, x)
    BY <2>1, ItStands
  <2> QED BY <2>2, <2>3
<1> HIDE DEF x
<1> QED BY <1>1, <1>2 DEF ProgressFits, SameFor, x

\* It is joined.
LEMMA ProgressJoins ==
  ASSUME Determined, NEW b \in Branches, NEW i \in 1..Len(Program[b]), NEW br, NEW cr,
         OnlyMoves(br, cr, b), br[b].at = i, br[b].pc = "joining", cr[b].at = i + 1, cr[b].pc = "idle",
         NEW J, NEW n, NEW K, NEW m, NEW got, ProgressFits(br, J, n, got),
         \A y \in Activities :
            /\ OnRecord(K, m, "Forked", y) <=> OnRecord(J, n, "Forked", y)
            /\ OnRecord(K, m, "Joined", y) <=> OnRecord(J, n, "Joined", y) \/ y = Program[b][i]
  PROVE  ProgressFits(cr, K, m, got)
<1> DEFINE x == Program[b][i]
<1>1. \A y \in Activities : y # x => SameFor(br, cr, y)
  BY OthersStand
<1>2. /\ ~Gone(br, x) /\ Asked(br, x) /\ Begun(br, x) /\ Known(br, x)
      /\ Gone(cr, x) /\ Asked(cr, x) /\ Begun(cr, x) /\ Known(cr, x)
  <2>1. br \in [Branches -> BranchType] /\ cr \in [Branches -> BranchType]
    BY DEF OnlyMoves
  <2>2. ~Gone(br, x) /\ Asked(br, x) /\ Begun(br, x) /\ Known(br, x)
    BY <2>1, ItStands
  <2>3. Gone(cr, x) /\ Asked(cr, x) /\ Begun(cr, x) /\ Known(cr, x)
    BY <2>1, ItStands
  <2> QED BY <2>2, <2>3
<1> HIDE DEF x
<1> QED BY <1>1, <1>2 DEF ProgressFits, SameFor, x

\* A branch gets on with its activity.
LEMMA ProgressMoves ==
  ASSUME Determined, NEW b \in Branches, NEW i \in 1..Len(Program[b]), NEW br, NEW cr,
         OnlyMoves(br, cr, b), br[b].at = i, cr[b].at = i,
         br[b].pc \notin {"idle", "forking"}, cr[b].pc \notin {"idle", "forking"},
         NEW J, NEW n, NEW got, ProgressFits(br, J, n, got), NEW got2,
         cr[b].pc \in {"joinable", "joining"} =>
            br[b].pc \in {"joinable", "joining"} \/ got2[Program[b][i]] # NoValue,
         \A y \in Activities : got[y] # NoValue => got2[y] # NoValue
  PROVE  ProgressFits(cr, J, n, got2)
<1> DEFINE x == Program[b][i]
<1>1. \A y \in Activities : y # x => SameFor(br, cr, y)
  BY OthersStand
<1>2. br \in [Branches -> BranchType] /\ cr \in [Branches -> BranchType]
  BY DEF OnlyMoves
<1>3. ~Gone(br, x) /\ Asked(br, x) /\ Begun(br, x) /\ (Known(br, x) <=> br[b].pc \in {"joinable", "joining"})
  BY <1>2, ItStands
<1>4. ~Gone(cr, x) /\ Asked(cr, x) /\ Begun(cr, x) /\ (Known(cr, x) <=> cr[b].pc \in {"joinable", "joining"})
  BY <1>2, ItStands
<1>5. Known(cr, x) => Known(br, x) \/ got2[x] # NoValue
  BY <1>3, <1>4
<1> HIDE DEF x
<1>6. \A y \in Activities :
         /\ Gone(cr, y) <=> Gone(br, y)
         /\ Asked(cr, y) <=> Asked(br, y)
         /\ Begun(cr, y) <=> Begun(br, y)
         /\ Known(cr, y) => Known(br, y) \/ got2[y] # NoValue
  BY <1>1, <1>3, <1>4, <1>5 DEF SameFor
<1> QED BY <1>6, ProgressKeeps

\* A branch asks for the fork of its activity: all that come before it were asked for.
LEMMA ProgressAsks ==
  ASSUME Determined, NEW b \in Branches, NEW i \in 1..Len(Program[b]), NEW br, NEW cr,
         OnlyMoves(br, cr, b), br[b].at = i, cr[b].at = i, br[b].pc = "idle", cr[b].pc = "forking",
         \A c \in Branches : SteadyBranch(br[c]) /\ br[c].at \in Nat \ {0},
         i = 1 => \A c \in Branches : c < b => br[c] # Ready[c],
         NEW J, NEW n, NEW got, ProgressFits(br, J, n, got)
  PROVE  ProgressFits(cr, J, n, got)
<1> DEFINE x == Program[b][i]
<1>1. \A y \in Activities : y # x => SameFor(br, cr, y)
  BY OthersStand
<1>2. br \in [Branches -> BranchType] /\ cr \in [Branches -> BranchType]
  BY DEF OnlyMoves
<1>3. ~Gone(br, x) /\ ~Asked(br, x) /\ ~Begun(br, x) /\ ~Known(br, x)
  BY <1>2, ItStands
<1>4. ~Gone(cr, x) /\ Asked(cr, x) /\ ~Begun(cr, x) /\ ~Known(cr, x)
  BY <1>2, ItStands
<1>5. x \in Activities /\ Of(x) = b /\ Turn(x) = i /\ i \in Nat /\ b \in Nat
  BY PlaceIs
<1>6. ASSUME NEW z \in Activities, Before(z, x) PROVE Asked(br, z)
  <2>1. /\ Of(z) \in Branches /\ Of(z) \in Nat /\ Turn(z) \in 1..Len(Program[Of(z)])
        /\ Len(Program[Of(z)]) \in Nat /\ 1 \in 1..Len(Program[b])
    <3>1. Len(Program[b]) \in Nat
      BY PlaceIs
    <3> QED BY <3>1, PlaceOf
  <2>2. CASE Of(z) = b /\ Turn(z) < i
    BY <2>2 DEF Asked, Gone
  <2>3. CASE Of(z) < b /\ i = 1
    <3> DEFINE me == br[Of(z)]
    <3>1. Turn(z) = 1
      BY <1>5, <2>3, OnlyLastGoesOn
    <3>2. me # Ready[Of(z)] /\ SteadyBranch(me) /\ me.at \in Nat \ {0} /\ me \in BranchType
      BY <1>2, <2>1, <2>3
    <3>3. ~(me.pc = "idle" /\ me.at = 1)
      <4>1. Ready[Of(z)] = [pc |-> "idle", at |-> 1, cut |-> FALSE, last |-> 0, exit |-> NoValue]
        BY <2>1 DEF Ready
      <4> HIDE DEF me
      <4>2. me = [pc |-> me.pc, at |-> me.at, cut |-> me.cut, last |-> me.last, exit |-> me.exit]
        BY <3>2 DEF BranchType
      <4>3. me.pc = "idle" => me.cut = FALSE /\ me.last = 0 /\ me.exit = NoValue
        BY <3>2 DEF SteadyBranch, BranchType
      <4> QED BY <3>2, <4>1, <4>2, <4>3
    <3>4. me.pc \in BranchPcs
      BY <3>2 DEF BranchType
    <3>5. me.at > 1 \/ (me.at = 1 /\ me.pc # "idle")
      BY <3>2, <3>3
    <3> QED BY <3>1, <3>4, <3>5 DEF Asked, Gone, AtPc
  <2>4. CASE Of(z) < b /\ i # 1
    <3> DEFINE w == Program[b][1]
    <3>1. w \in Activities /\ Of(w) = b
      BY <2>1, PlaceIs
    <3>2. Gone(br, w)
      <4>1. Gone(br, w) <=> br[b].at > 1
        BY <1>2, <2>1, ItStands
      <4> QED BY <1>5, <2>4, <4>1
    <3>3. Asked(br, w) /\ Before(z, w)
      BY <2>4, <3>1, <3>2 DEF Asked, Before
    <3> QED BY <3>1, <3>3 DEF ProgressFits
  <2> QED BY <1>5, <1>6, <2>2, <2>3, <2>4 DEF Before
<1> HIDE DEF x
<1>7. \A y \in Activities : Asked(br, y) => Asked(cr, y)
  BY <1>1, <1>4 DEF SameFor
<1>8. ASSUME NEW y \in Activities, Asked(cr, y), NEW z \in Activities, Before(z, y) PROVE Asked(cr, z)
  <2>1. CASE y = x
    BY <1>6, <1>7, <1>8, <2>1
  <2>2. CASE y # x
    BY <1>1, <1>7, <1>8, <2>2 DEF SameFor, ProgressFits
  <2> QED BY <2>1, <2>2
<1>9. \A y \in Activities : /\ Gone(cr, y) <=> Gone(br, y)
                            /\ Begun(cr, y) <=> Begun(br, y)
                            /\ Known(cr, y) <=> Known(br, y)
  BY <1>1, <1>3, <1>4 DEF SameFor
<1> QED BY <1>8, <1>9 DEF ProgressFits
----------------------------------------------------------------------------
(* Lemmas about the queue of the coordinator: a message is added at its    *)
(* end, or one is taken out of it.                                         *)

Longer(q, m, p) ==
  Len(p) = Len(q) + 1 /\ (\A k \in 1..Len(q) : p[k] = q[k]) /\ p[Len(q) + 1] = m
Shorter(q, h, p) ==
  /\ h \in 1..Len(q) /\ Len(p) = Len(q) - 1
  /\ \A k \in 1..Len(p) : p[k] = q[IF k < h THEN k ELSE k + 1]

\* Which messages are left when message h is taken out.
LEMMA ShorterIs ==
  ASSUME NEW q \in Seq(Messages), NEW p \in Seq(Messages), NEW h, Shorter(q, h, p)
  PROVE  /\ \A k \in 1..Len(p) : \E j \in 1..Len(q) : j # h /\ p[k] = q[j]
         /\ \A k, l \in 1..Len(p) : k < l =>
               \E i, j \in 1..Len(q) : i < j /\ i # h /\ j # h /\ p[k] = q[i] /\ p[l] = q[j]
         /\ \A j \in 1..Len(q) : j # h => \E k \in 1..Len(p) : p[k] = q[j]
<1> DEFINE m == Len(q)
           n == Len(p)
<1>1. m \in Nat /\ n \in Nat /\ h \in 1..m /\ n = m - 1
      /\ \A k \in 1..n : p[k] = q[IF k < h THEN k ELSE k + 1]
  BY LenProperties DEF Shorter
<1> HIDE DEF m, n
<1> DEFINE at(k) == IF k < h THEN k ELSE k + 1
<1>2. \A k \in 1..n : at(k) \in 1..m /\ at(k) # h /\ p[k] = q[at(k)]
  BY ONLY <1>1
<1>3. \A k, l \in 1..n : k < l => at(k) < at(l)
  BY ONLY <1>1
<1>4. ASSUME NEW j \in 1..m, j # h PROVE \E k \in 1..n : p[k] = q[j]
  <2>1. CASE j < h
    <3>1. j \in 1..n /\ p[j] = q[j]
      BY ONLY <1>1, <1>4, <2>1
    <3> QED BY <3>1
  <2>2. CASE j > h
    <3>1. j - 1 \in 1..n /\ p[j - 1] = q[(j - 1) + 1] /\ (j - 1) + 1 = j
      BY ONLY <1>1, <1>4, <2>2
    <3> QED BY <3>1
  <2>3. j < h \/ j > h
    BY ONLY <1>1, <1>4
  <2> QED BY ONLY <2>1, <2>2, <2>3
<1> HIDE DEF at
<1>5. \A k \in 1..n : \E j \in 1..m : j # h /\ p[k] = q[j]
  BY <1>2
<1>6. \A k, l \in 1..n : k < l =>
         \E i, j \in 1..m : i < j /\ i # h /\ j # h /\ p[k] = q[i] /\ p[l] = q[j]
  BY <1>2, <1>3
<1> QED BY <1>4, <1>5, <1>6 DEF m, n

LongerIs(q, m, p) ==
  /\ \A k \in 1..Len(p) : p[k] = m \/ \E j \in 1..Len(q) : p[k] = q[j]
  /\ \A k, l \in 1..Len(p) : k < l =>
        \/ \E i, j \in 1..Len(q) : i < j /\ p[k] = q[i] /\ p[l] = q[j]
        \/ p[l] = m /\ \E i \in 1..Len(q) : p[k] = q[i]
  /\ \A j \in 1..Len(q) : \E k \in 1..Len(p) : p[k] = q[j]
  /\ \E k \in 1..Len(p) : p[k] = m

LEMMA LongerBy ==
  ASSUME NEW q \in Seq(Messages), NEW m, NEW p, Longer(q, m, p)
  PROVE  LongerIs(q, m, p)
<1> DEFINE n == Len(q)
<1>1. n \in Nat /\ Len(p) = n + 1 /\ (\A k \in 1..n : p[k] = q[k]) /\ p[n + 1] = m
  BY LenProperties DEF Longer
<1> HIDE DEF n
<1>2. \A k \in 1..(n + 1) : k \in 1..n \/ k = n + 1
  BY <1>1
<1>3. \A k \in 1..n : k \in 1..(n + 1)
  BY <1>1
<1>4. n + 1 \in 1..(n + 1) /\ \A k, l \in 1..(n + 1) : k < l => k \in 1..n
  BY <1>1
<1>5. \A k \in 1..(n + 1) : p[k] = m \/ \E j \in 1..n : p[k] = q[j]
  BY <1>1, <1>2
<1>6. \A k, l \in 1..(n + 1) : k < l =>
        \/ \E i, j \in 1..n : i < j /\ p[k] = q[i] /\ p[l] = q[j]
        \/ p[l] = m /\ \E i \in 1..n : p[k] = q[i]
  BY <1>1, <1>2, <1>4
<1>7. \A j \in 1..n : \E k \in 1..(n + 1) : p[k] = q[j]
  BY <1>1, <1>3
<1>8. \E k \in 1..(n + 1) : p[k] = m
  BY <1>1, <1>4
<1> QED BY <1>1, <1>5, <1>6, <1>7, <1>8 DEF LongerIs, n

\* What holds of any two messages in their order holds of those that are left.
LEMMA ShorterOrder ==
  ASSUME NEW q \in Seq(Messages), NEW p \in Seq(Messages), NEW h, Shorter(q, h, p), ForksOrdered(q), JoinsApart(q)
  PROVE  ForksOrdered(p) /\ JoinsApart(p)
<1>1. ASSUME NEW k \in 1..Len(p), NEW l \in 1..Len(p), k < l
      PROVE  /\ p[k].type = "RequestFork" /\ p[l].type = "RequestFork" => Before(p[k].id, p[l].id)
             /\ p[k].type = "RequestJoin" /\ p[l].type = "RequestJoin" => p[k].branch # p[l].branch
  <2>1. \E i, j \in 1..Len(q) : i < j /\ i # h /\ j # h /\ p[k] = q[i] /\ p[l] = q[j]
    <3> DEFINE i == IF k < h THEN k ELSE k + 1
               j == IF l < h THEN l ELSE l + 1
    <3>1. Len(q) \in Nat /\ h \in 1..Len(q) /\ Len(p) = Len(q) - 1
      BY LenProperties DEF Shorter
    <3>2. p[k] = q[i] /\ p[l] = q[j]
      BY <1>1 DEF Shorter
    <3>3. k \in 1..Len(p) /\ l \in 1..Len(p) /\ k < l
      BY <1>1
    <3>4. i \in 1..Len(q) /\ j \in 1..Len(q) /\ i < j /\ i # h /\ j # h
      BY ONLY <3>1, <3>3
    <3> QED BY ONLY <3>2, <3>4
  <2>2. PICK i \in 1..Len(q), j \in 1..Len(q) : i < j /\ p[k] = q[i] /\ p[l] = q[j]
    BY ONLY <2>1
  <2>3. q[i].type = "RequestFork" /\ q[j].type = "RequestFork" => Before(q[i].id, q[j].id)
    BY ONLY <2>2, ForksOrdered(q) DEF ForksOrdered
  <2>4. q[i].type = "RequestJoin" /\ q[j].type = "RequestJoin" => q[i].branch # q[j].branch
    BY ONLY <2>2, JoinsApart(q) DEF JoinsApart
  <2> QED BY ONLY <2>2, <2>3, <2>4
<1> QED BY ONLY <1>1 DEF ForksOrdered, JoinsApart

\* They hold with one more if they hold of it and any other.
LEMMA LongerOrder ==
  ASSUME NEW q, NEW p, NEW m, LongerIs(q, m, p), ForksOrdered(q), JoinsApart(q),
         \A k \in 1..Len(q) :
           /\ q[k].type = "RequestFork" /\ m.type = "RequestFork" => Before(q[k].id, m.id)
           /\ q[k].type = "RequestJoin" /\ m.type = "RequestJoin" => q[k].branch # m.branch
  PROVE  ForksOrdered(p) /\ JoinsApart(p)
<1>1. ASSUME NEW k \in 1..Len(p), NEW l \in 1..Len(p), k < l
      PROVE  /\ p[k].type = "RequestFork" /\ p[l].type = "RequestFork" => Before(p[k].id, p[l].id)
             /\ p[k].type = "RequestJoin" /\ p[l].type = "RequestJoin" => p[k].branch # p[l].branch
  <2>1. \/ \E i, j \in 1..Len(q) : i < j /\ p[k] = q[i] /\ p[l] = q[j]
        \/ p[l] = m /\ \E i \in 1..Len(q) : p[k] = q[i]
    BY ONLY <1>1, LongerIs(q, m, p) DEF LongerIs
  <2>2. CASE \E i, j \in 1..Len(q) : i < j /\ p[k] = q[i] /\ p[l] = q[j]
    <3>1. PICK i \in 1..Len(q), j \in 1..Len(q) : i < j /\ p[k] = q[i] /\ p[l] = q[j]
      BY ONLY <2>2
    <3>2. q[i].type = "RequestFork" /\ q[j].type = "RequestFork" => Before(q[i].id, q[j].id)
      BY ONLY <3>1, ForksOrdered(q) DEF ForksOrdered
    <3>3. q[i].type = "RequestJoin" /\ q[j].type = "RequestJoin" => q[i].branch # q[j].branch
      BY ONLY <3>1, JoinsApart(q) DEF JoinsApart
    <3> QED BY ONLY <3>1, <3>2, <3>3
  <2>3. CASE p[l] = m /\ \E i \in 1..Len(q) : p[k] = q[i]
    BY <2>3
  <2> QED BY <2>1, <2>2, <2>3
<1> QED BY ONLY <1>1 DEF ForksOrdered, JoinsApart

\* The branches that wait for a fork still have their message.
LEMMA LongerHas ==
  ASSUME NEW q, NEW p, NEW m, LongerIs(q, m, p), NEW b,
         \E k \in 1..Len(q) : q[k].type = "RequestFork" /\ q[k].branch = b
  PROVE  \E k \in 1..Len(p) : p[k].type = "RequestFork" /\ p[k].branch = b
<1>1. PICK j \in 1..Len(q) : q[j].type = "RequestFork" /\ q[j].branch = b
  OBVIOUS
<1>2. PICK k \in 1..Len(p) : p[k] = q[j]
  BY DEF LongerIs
<1> QED BY <1>1, <1>2

\* No message asks for the end while a branch is at an activity.
LEMMA NoEndAsked ==
  ASSUME Determined, NEW q, NEW br \in [Branches -> BranchType], NEW got, NEW replaying, QueueFits(q, br, got, replaying),
         NEW b \in Branches, br[b].at \in 1..Len(Program[b])
  PROVE  \A k \in 1..Len(q) : q[k].type # "RequestComplete"
<1> DEFINE x == Program[b][br[b].at]
<1>1. x \in Activities /\ ~Gone(br, x)
  BY PlaceIs, ItStands
<1> QED BY <1>1 DEF QueueFits

\* A message other than a fork is taken.
LEMMA QueueDrops ==
  ASSUME NEW q \in Seq(Messages), NEW p \in Seq(Messages), NEW h, Shorter(q, h, p), q[h].type # "RequestFork",
         NEW br, NEW got, NEW replaying, QueueFits(q, br, got, replaying)
  PROVE  QueueFits(p, br, got, replaying)
<1>1. \A k \in 1..Len(p) : \E j \in 1..Len(q) : j # h /\ p[k] = q[j]
  BY ShorterIs
<1>2. \A j \in 1..Len(q) : j # h => \E k \in 1..Len(p) : p[k] = q[j]
  BY ShorterIs
<1>3. ForksOrdered(p) /\ JoinsApart(p)
  BY ShorterOrder DEF QueueFits
<1>4. \A k \in 1..Len(p) :
         /\ p[k].type = "RequestFork" => Awaited(br, p[k], "forking")
         /\ p[k].type = "RequestJoin" => Awaited(br, p[k], "joining")
         /\ p[k].type = "RequestComplete" => p[k].exit = got /\ \A x \in Activities : Gone(br, x)
         /\ replaying /\ p[k].type = "CheckStatus" /\ p[k].branch # NoBranch => br[p[k].branch].pc = "asking"
  BY <1>1 DEF QueueFits
<1>5. ASSUME NEW b \in Branches, br[b].pc = "forking"
      PROVE  \E k \in 1..Len(p) : p[k].type = "RequestFork" /\ p[k].branch = b
  <2>1. PICK j \in 1..Len(q) : q[j].type = "RequestFork" /\ q[j].branch = b
    BY <1>5 DEF QueueFits
  <2> QED BY <1>2, <2>1
<1> QED BY <1>3, <1>4, <1>5 DEF QueueFits

\* The fork or the join that a branch waits for is permitted.
LEMMA QueueAnswers ==
  ASSUME Determined, NEW q \in Seq(Messages), NEW p \in Seq(Messages), NEW h, Shorter(q, h, p),
         q[h].type \in {"RequestFork", "RequestJoin"},
         NEW b \in Branches, q[h].branch = b, NEW br, NEW cr, OnlyMoves(br, cr, b), cr[b].pc \in {"forked", "idle"},
         NEW got, NEW replaying, QueueFits(q, br, got, replaying)
  PROVE  QueueFits(p, cr, got, replaying)
<1>1. \A k \in 1..Len(p) : \E j \in 1..Len(q) : j # h /\ p[k] = q[j]
  BY ShorterIs
<1>2. \A j \in 1..Len(q) : j # h => \E k \in 1..Len(p) : p[k] = q[j]
  BY ShorterIs
<1>3. ForksOrdered(p) /\ JoinsApart(p)
  BY ShorterOrder DEF QueueFits
<1>4. h \in 1..Len(q) /\ Len(q) \in Nat
  BY LenProperties DEF Shorter
<1>5. /\ br[b].pc = IF q[h].type = "RequestFork" THEN "forking" ELSE "joining"
      /\ br[b].at \in 1..Len(Program[b]) /\ Program[b][br[b].at] = q[h].id
  BY <1>4 DEF QueueFits, Awaited
<1>6. \A k \in 1..Len(q) : q[k].type # "RequestComplete"
  BY <1>5, NoEndAsked DEF OnlyMoves
\* No other message is of this branch.
<1>7. ASSUME NEW j \in 1..Len(q), j # h, q[j].type \in {"RequestFork", "RequestJoin"}
      PROVE  q[j].branch # b
  <2>1. SUFFICES ASSUME q[j].branch = b PROVE FALSE
    OBVIOUS
  <2>2. /\ br[b].pc = IF q[j].type = "RequestFork" THEN "forking" ELSE "joining"
        /\ Program[b][br[b].at] = q[j].id
    BY <1>7, <2>1 DEF QueueFits, Awaited
  <2>3. q[j].type = q[h].type /\ q[j].id = q[h].id
    BY <1>5, <1>7, <2>2
  <2>4. j < h \/ h < j
    BY ONLY <1>4, <1>7
  <2>5. CASE q[h].type = "RequestFork"
    <3>1. q[h].id \in Activities
      BY <1>5, PlaceIs
    <3> QED BY <1>4, <2>3, <2>4, <2>5, <3>1, BeforeOrders DEF QueueFits, ForksOrdered
  <2>6. CASE q[h].type = "RequestJoin"
    BY <1>4, <2>1, <2>3, <2>4, <2>6 DEF QueueFits, JoinsApart
  <2> QED BY <2>5, <2>6
<1>8. \A j \in 1..Len(q) : q[j].type \in {"RequestFork", "RequestJoin"} => q[j].branch \in Branches
  BY ElementOfSeq, MessageFields
<1>9. ASSUME NEW k \in 1..Len(p)
      PROVE  /\ p[k].type = "RequestFork" => Awaited(cr, p[k], "forking")
             /\ p[k].type = "RequestJoin" => Awaited(cr, p[k], "joining")
             /\ p[k].type # "RequestComplete"
             /\ replaying /\ p[k].type = "CheckStatus" /\ p[k].branch # NoBranch => cr[p[k].branch].pc = "asking"
  <2>1. PICK j \in 1..Len(q) : j # h /\ p[k] = q[j]
    BY <1>1
  <2>2. p[k].type \in {"RequestFork", "RequestJoin"} => cr[p[k].branch] = br[p[k].branch]
    BY <1>7, <1>8, <2>1 DEF OnlyMoves
  <2>3. replaying /\ p[k].type = "CheckStatus" /\ p[k].branch # NoBranch => cr[p[k].branch].pc = "asking"
    <3>1. SUFFICES ASSUME replaying, p[k].type = "CheckStatus", p[k].branch # NoBranch PROVE cr[p[k].branch].pc = "asking"
      OBVIOUS
    <3>2. br[p[k].branch].pc = "asking"
      BY <2>1, <3>1 DEF QueueFits
    <3>3. p[k].branch # b
      BY <1>5, <3>2
    <3>4. p[k].branch \in Branches
      <4>1. p[k] \in Messages
        BY ElementOfSeq
      <4> QED BY <3>1, <4>1, MessageFields
    <3> QED BY <3>2, <3>3, <3>4 DEF OnlyMoves
  <2> QED BY <1>6, <2>1, <2>2, <2>3, SMTT(40) DEF QueueFits, Awaited
<1>10. ASSUME NEW c \in Branches, cr[c].pc = "forking"
       PROVE  \E k \in 1..Len(p) : p[k].type = "RequestFork" /\ p[k].branch = c
  <2>1. c # b /\ br[c].pc = "forking"
    BY <1>10 DEF OnlyMoves
  <2>2. PICK j \in 1..Len(q) : q[j].type = "RequestFork" /\ q[j].branch = c
    BY <2>1 DEF QueueFits
  <2>3. j # h
    BY <2>1, <2>2
  <2> QED BY <1>2, <2>2, <2>3
<1> QED BY <1>3, <1>9, <1>10 DEF QueueFits

\* A branch goes on with its activity, and sends nothing.
LEMMA QueueMoves ==
  ASSUME Determined, NEW q \in Seq(Messages), NEW b \in Branches, NEW br, NEW cr, OnlyMoves(br, cr, b),
         br[b].at \in 1..Len(Program[b]), br[b].pc \notin {"forking", "joining"}, cr[b].pc # "forking",
         NEW got, NEW got2, NEW replaying, replaying => br[b].pc # "asking",
         QueueFits(q, br, got, replaying)
  PROVE  QueueFits(q, cr, got2, replaying)
<1>1. \A k \in 1..Len(q) : q[k].type # "RequestComplete"
  BY NoEndAsked DEF OnlyMoves
<1>2. ASSUME NEW k \in 1..Len(q)
      PROVE  /\ q[k].type = "RequestFork" => Awaited(cr, q[k], "forking")
             /\ q[k].type = "RequestJoin" => Awaited(cr, q[k], "joining")
             /\ replaying /\ q[k].type = "CheckStatus" /\ q[k].branch # NoBranch => cr[q[k].branch].pc = "asking"
  <2>1. q[k] \in Messages
    BY ElementOfSeq
  <2>2. q[k].type \in {"RequestFork", "RequestJoin"} => q[k].branch \in Branches /\ q[k].branch # b
    BY <2>1, MessageFields DEF QueueFits, Awaited
  <2>3. replaying /\ q[k].type = "CheckStatus" /\ q[k].branch # NoBranch =>
          q[k].branch \in Branches /\ q[k].branch # b
    BY <2>1, MessageFields DEF QueueFits
  <2> QED BY <2>2, <2>3 DEF QueueFits, Awaited, OnlyMoves
<1>3. \A c \in Branches : cr[c].pc = "forking" => \E k \in 1..Len(q) : q[k].type = "RequestFork" /\ q[k].branch = c
  BY DEF QueueFits, OnlyMoves
<1> QED BY <1>1, <1>2, <1>3 DEF QueueFits

\* A message is added that is neither a fork nor a join.
LEMMA QueueAdds ==
  ASSUME NEW q \in Seq(Messages), NEW p \in Seq(Messages), NEW m, Longer(q, m, p),
         m.type \notin {"RequestFork", "RequestJoin"}, NEW br, NEW got, NEW replaying,
         m.type = "RequestComplete" => m.exit = got /\ \A x \in Activities : Gone(br, x),
         replaying /\ m.type = "CheckStatus" /\ m.branch # NoBranch => br[m.branch].pc = "asking",
         QueueFits(q, br, got, replaying)
  PROVE  QueueFits(p, br, got, replaying)
<1>1. LongerIs(q, m, p)
  BY LongerBy
<1>2. ForksOrdered(p) /\ JoinsApart(p)
  BY <1>1, LongerOrder DEF QueueFits
<1>3. \A b \in Branches : br[b].pc = "forking" => \E k \in 1..Len(p) : p[k].type = "RequestFork" /\ p[k].branch = b
  <2>1. SUFFICES ASSUME NEW b \in Branches, br[b].pc = "forking"
                 PROVE  \E k \in 1..Len(p) : p[k].type = "RequestFork" /\ p[k].branch = b
    OBVIOUS
  <2>2. PICK j \in 1..Len(q) : q[j].type = "RequestFork" /\ q[j].branch = b
    BY <2>1 DEF QueueFits
  <2>3. PICK k \in 1..Len(p) : p[k] = q[j]
    BY ONLY <1>1, j \in 1..Len(q) DEF LongerIs
  <2> QED BY ONLY <2>2, <2>3
<1>4. ASSUME NEW k \in 1..Len(p)
      PROVE  /\ p[k].type = "RequestFork" => Awaited(br, p[k], "forking")
             /\ p[k].type = "RequestJoin" => Awaited(br, p[k], "joining")
             /\ p[k].type = "RequestComplete" => p[k].exit = got /\ \A x \in Activities : Gone(br, x)
             /\ replaying /\ p[k].type = "CheckStatus" /\ p[k].branch # NoBranch => br[p[k].branch].pc = "asking"
  <2>1. CASE p[k] = m
    BY <2>1
  <2>2. CASE \E j \in 1..Len(q) : p[k] = q[j]
    BY <2>2 DEF QueueFits
  <2> QED BY <1>1, <2>1, <2>2 DEF LongerIs
<1> QED BY <1>2, <1>3, <1>4 DEF QueueFits

\* A branch asks for a join.
LEMMA QueueJoins ==
  ASSUME Determined, NEW q \in Seq(Messages), NEW p \in Seq(Messages), NEW b \in Branches, NEW i \in 1..Len(Program[b]),
         Longer(q, RequestJoin(b, Program[b][i]), p), NEW br, NEW cr, OnlyMoves(br, cr, b),
         br[b].at = i, cr[b].at = i, br[b].pc = "joinable", cr[b].pc = "joining", NEW got, NEW replaying,
         QueueFits(q, br, got, replaying)
  PROVE  QueueFits(p, cr, got, replaying)
<1> DEFINE m == RequestJoin(b, Program[b][i])
<1>1. QueueFits(q, cr, got, replaying)
  BY QueueMoves
<1>2. LongerIs(q, m, p)
  BY LongerBy
<1>3. m.type = "RequestJoin" /\ m.branch = b /\ m.id = Program[b][i]
  BY DEF RequestJoin
<1>4. \A j \in 1..Len(q) : q[j].type = "RequestJoin" => q[j].branch # b
  BY DEF QueueFits, Awaited
<1> HIDE DEF m
<1>5. ForksOrdered(p) /\ JoinsApart(p)
  <2>1. \A k \in 1..Len(q) :
           /\ q[k].type = "RequestFork" /\ m.type = "RequestFork" => Before(q[k].id, m.id)
           /\ q[k].type = "RequestJoin" /\ m.type = "RequestJoin" => q[k].branch # m.branch
    BY ONLY <1>3, <1>4
  <2>2. ForksOrdered(q) /\ JoinsApart(q)
    BY <1>1 DEF QueueFits
  <2> QED BY ONLY <1>2, <2>1, <2>2, LongerOrder
<1>6. \A c \in Branches : cr[c].pc = "forking" => \E k \in 1..Len(p) : p[k].type = "RequestFork" /\ p[k].branch = c
  BY <1>1, <1>2, LongerHas DEF QueueFits
<1>7. ASSUME NEW k \in 1..Len(p)
      PROVE  /\ p[k].type = "RequestFork" => Awaited(cr, p[k], "forking")
             /\ p[k].type = "RequestJoin" => Awaited(cr, p[k], "joining")
             /\ p[k].type = "RequestComplete" => p[k].exit = got /\ \A x \in Activities : Gone(cr, x)
             /\ replaying /\ p[k].type = "CheckStatus" /\ p[k].branch # NoBranch => cr[p[k].branch].pc = "asking"
  <2>1. CASE p[k] = m
    BY <1>3, <2>1 DEF Awaited
  <2>2. CASE \E j \in 1..Len(q) : p[k] = q[j]
    BY <1>1, <2>2 DEF QueueFits
  <2> QED BY <1>2, <2>1, <2>2 DEF LongerIs
<1> QED BY <1>5, <1>6, <1>7 DEF QueueFits

\* The activity that a message asks for.
LEMMA AwaitedIs ==
  ASSUME Determined, NEW m \in Messages, m.type \in {"RequestFork", "RequestJoin"}, NEW br \in [Branches -> BranchType],
         NEW pc \in {"forking", "joining"}, Awaited(br, m, pc)
  PROVE  /\ m.branch \in Branches /\ m.id \in Activities
         /\ br[m.branch].at \in 1..Len(Program[m.branch]) /\ Program[m.branch][br[m.branch].at] = m.id
         /\ br[m.branch].pc = pc
         /\ ~Gone(br, m.id) /\ Asked(br, m.id)
         /\ pc = "forking" => ~Begun(br, m.id)
         /\ pc = "joining" => Begun(br, m.id) /\ Known(br, m.id)
<1>1. m.branch \in Branches
  BY MessageFields
<1>2. br[m.branch].at \in 1..Len(Program[m.branch]) /\ Program[m.branch][br[m.branch].at] = m.id
  BY DEF Awaited
<1>3. m.id \in Activities
  BY <1>1, <1>2, PlaceIs
<1>4. br[m.branch].pc = pc
  BY DEF Awaited
<1> DEFINE i == br[m.branch].at
<1>5. /\ ~Gone(br, Program[m.branch][i])
      /\ Asked(br, Program[m.branch][i]) <=> pc # "idle"
      /\ Begun(br, Program[m.branch][i]) <=> pc \notin {"idle", "forking"}
      /\ Known(br, Program[m.branch][i]) <=> pc \in {"joinable", "joining"}
  BY <1>1, <1>2, <1>4, ItStands
<1> HIDE DEF i
<1> QED BY <1>1, <1>2, <1>3, <1>4, <1>5 DEF i

\* A branch asks for a fork: it comes after those that are waiting.
LEMMA QueueForks ==
  ASSUME Determined, NEW q \in Seq(Messages), NEW p \in Seq(Messages), NEW b \in Branches, NEW i \in 1..Len(Program[b]),
         Longer(q, RequestFork(b, Program[b][i]), p), NEW br, NEW cr, OnlyMoves(br, cr, b),
         br[b].at = i, cr[b].at = i, br[b].pc = "idle", cr[b].pc = "forking", NEW got, NEW replaying,
         QueueFits(q, br, got, replaying), NEW J, NEW n, ProgressFits(br, J, n, got)
  PROVE  QueueFits(p, cr, got, replaying)
<1> DEFINE x == Program[b][i]
           m == RequestFork(b, x)
<1>1. LongerIs(q, m, p)
  BY LongerBy
<1>2. m.type = "RequestFork" /\ m.branch = b /\ m.id = x
  BY DEF RequestFork
<1>3. br \in [Branches -> BranchType] /\ cr \in [Branches -> BranchType] /\ x \in Activities
  BY PlaceIs DEF OnlyMoves
<1>4. ~Asked(br, x)
  BY <1>3, ItStands
<1> HIDE DEF m, x
<1>5. ASSUME NEW k \in 1..Len(q), q[k].type = "RequestFork" PROVE Before(q[k].id, x)
  <2>1. q[k] \in Messages /\ Awaited(br, q[k], "forking")
    BY <1>5, ElementOfSeq DEF QueueFits
  <2>2. q[k].id \in Activities /\ Asked(br, q[k].id)
    BY <1>3, <1>5, <2>1, AwaitedIs
  <2>3. ~Before(x, q[k].id)
    BY <1>3, <1>4, <2>2 DEF ProgressFits
  <2> QED BY <1>3, <1>4, <2>2, <2>3, BeforeOrders
<1>6. ForksOrdered(p) /\ JoinsApart(p)
  <2>1. \A k \in 1..Len(q) :
           /\ q[k].type = "RequestFork" /\ m.type = "RequestFork" => Before(q[k].id, m.id)
           /\ q[k].type = "RequestJoin" /\ m.type = "RequestJoin" => q[k].branch # m.branch
    BY ONLY <1>2, <1>5
  <2>2. ForksOrdered(q) /\ JoinsApart(q)
    BY DEF QueueFits
  <2> QED BY ONLY <1>1, <2>1, <2>2, LongerOrder
<1>7. ASSUME NEW c \in Branches, cr[c].pc = "forking"
      PROVE  \E k \in 1..Len(p) : p[k].type = "RequestFork" /\ p[k].branch = c
  <2>1. CASE c = b
    BY <1>1, <1>2, <2>1 DEF LongerIs
  <2>2. CASE c # b
    <3>1. br[c].pc = "forking"
      BY <1>7, <2>2 DEF OnlyMoves
    <3>2. \E k \in 1..Len(q) : q[k].type = "RequestFork" /\ q[k].branch = c
      BY <3>1 DEF QueueFits
    <3>3. PICK j \in 1..Len(q) : q[j].type = "RequestFork" /\ q[j].branch = c
      BY <3>2
    <3>4. PICK k \in 1..Len(p) : p[k] = q[j]
      BY <1>1 DEF LongerIs
    <3> QED BY <3>3, <3>4
  <2> QED BY <2>1, <2>2
<1>8. \A k \in 1..Len(q) : q[k].type # "RequestComplete"
  BY <1>3, NoEndAsked
<1>9. ASSUME NEW j \in 1..Len(q)
      PROVE  /\ q[j].type = "RequestFork" => Awaited(cr, q[j], "forking")
             /\ q[j].type = "RequestJoin" => Awaited(cr, q[j], "joining")
             /\ replaying /\ q[j].type = "CheckStatus" /\ q[j].branch # NoBranch => cr[q[j].branch].pc = "asking"
  <2>1. q[j] \in Messages
    BY ElementOfSeq
  <2>2. q[j].type \in {"RequestFork", "RequestJoin"} => q[j].branch \in Branches /\ q[j].branch # b
    BY <2>1, MessageFields DEF QueueFits, Awaited
  <2>3. replaying /\ q[j].type = "CheckStatus" /\ q[j].branch # NoBranch =>
          q[j].branch \in Branches /\ q[j].branch # b
    BY <2>1, MessageFields DEF QueueFits
  <2> QED BY <2>2, <2>3 DEF QueueFits, Awaited, OnlyMoves
<1>10. ASSUME NEW k \in 1..Len(p)
      PROVE  /\ p[k].type = "RequestFork" => Awaited(cr, p[k], "forking")
             /\ p[k].type = "RequestJoin" => Awaited(cr, p[k], "joining")
             /\ p[k].type # "RequestComplete"
             /\ replaying /\ p[k].type = "CheckStatus" /\ p[k].branch # NoBranch => cr[p[k].branch].pc = "asking"
  <2>1. CASE p[k] = m
    <3>1. Awaited(cr, m, "forking")
      BY <1>2 DEF Awaited, x
    <3> QED BY <1>2, <2>1, <3>1
  <2>2. CASE \E j \in 1..Len(q) : p[k] = q[j]
    <3>1. PICK j \in 1..Len(q) : p[k] = q[j]
      BY <2>2
    <3> QED BY <1>8, <1>9, <3>1
  <2> QED BY <1>1, <2>1, <2>2 DEF LongerIs
<1> QED BY <1>6, <1>7, <1>10 DEF QueueFits

\* The first message of a fork is for the next activity: those that come before it are
\* forked already, and of those that come after it none is.
LEMMA NextFork ==
  ASSUME Determined, NEW q \in Seq(Messages), NEW br \in [Branches -> BranchType], NEW got, NEW replaying,
         QueueFits(q, br, got, replaying), NEW J, NEW n, ProgressFits(br, J, n, got),
         NEW h \in 1..Len(q), q[h].type = "RequestFork",
         \A k \in 1..Len(q) : q[k].type = "RequestFork" => h <= k
  PROVE  \A y \in Activities : Before(y, q[h].id) => Begun(br, y)
<1>1. SUFFICES ASSUME NEW y \in Activities, Before(y, q[h].id), ~Begun(br, y) PROVE FALSE
  OBVIOUS
<1>2. q[h] \in Messages /\ Awaited(br, q[h], "forking")
  BY ElementOfSeq DEF QueueFits
<1>3. q[h].id \in Activities /\ Asked(br, q[h].id)
  BY <1>2, AwaitedIs
<1>4. Asked(br, y)
  BY <1>1, <1>3 DEF ProgressFits
<1>5. Of(y) \in Branches /\ br[Of(y)].pc = "forking" /\ br[Of(y)].at = Turn(y)
  <2>1. Of(y) \in Branches
    BY PlaceOf
  <2> QED BY <1>1, <1>4, <2>1 DEF Asked, Begun, AtPc
<1>6. PICK k \in 1..Len(q) : q[k].type = "RequestFork" /\ q[k].branch = Of(y)
  BY <1>5 DEF QueueFits
<1>7. q[k].id = y
  <2>1. Awaited(br, q[k], "forking")
    BY <1>6 DEF QueueFits
  <2> QED BY <1>5, <1>6, <2>1, PlaceOf DEF Awaited
<1>8. k # h
  BY <1>1, <1>3, <1>7, BeforeOrders
<1>9. h < k
  <2>1. h <= k /\ Len(q) \in Nat
    BY <1>6, LenProperties
  <2> QED BY <1>8, <2>1
<1>10. Before(q[h].id, y)
  BY <1>6, <1>7, <1>9 DEF QueueFits, ForksOrdered
<1> QED BY <1>1, <1>3, <1>10, BeforeOrders

----------------------------------------------------------------------------
(* Lemmas about journals.                                                  *)

\* A set of naturals up to n has a greatest element.
LEMMA NatMax ==
  ASSUME NEW n \in Nat, NEW S \in SUBSET (1..n), S # {}
  PROVE  \E k \in S : \A l \in S : l <= k
<1> DEFINE T == {j \in Nat : n - j \in S}
<1>1. PICK s \in S : TRUE
  OBVIOUS
<1>2. n - s \in T
  <2>1. s \in 1..n
    OBVIOUS
  <2>2. n - s \in Nat /\ n - (n - s) = s
    BY <2>1
  <2> QED BY <2>2
<1>3. PICK j \in T : \A i \in T : j <= i
  <2>1. T \in SUBSET Nat /\ T # {}
    BY <1>2
  <2> HIDE DEF T
  <2> QED BY <2>1, NatMin
<1>4. ASSUME NEW l \in S PROVE l <= n - j
  <2>1. l \in 1..n
    OBVIOUS
  <2>2. n - l \in Nat /\ n - (n - l) = l
    BY <2>1
  <2>3. j <= n - l
    BY <1>3, <2>2
  <2>4. j \in Nat
    OBVIOUS
  <2> QED BY ONLY <2>1, <2>3, <2>4, n \in Nat
<1> QED BY <1>3, <1>4

\* The last event of a journal that is completed gives the exit, wherever it is.
LEMMA CompletedHasExit ==
  ASSUME NEW J \in Seq(Events)
  PROVE  /\ IsCompleted(J) => \E k \in 1..Len(J) : J[k].type = "Completed" /\ ExitOf(J) = J[k].exit
         /\ ~IsCompleted(J) => ExitOf(J) = NoValue
<1>1. DOMAIN J = 1..Len(J) /\ Len(J) \in Nat
  BY LenProperties
<1> DEFINE done == {k \in DOMAIN J : J[k].type = "Completed"}
<1>2. CASE done = {}
  BY <1>2 DEF ExitOf, IsCompleted
<1>3. CASE done # {}
  <2>1. done \in SUBSET (1..Len(J))
    BY <1>1
  <2>2. \E k \in done : \A l \in done : l <= k
    BY <1>1, <1>3, <2>1, NatMax
  <2> QED BY <1>1, <1>3, <2>2 DEF ExitOf, IsCompleted
<1> QED BY <1>2, <1>3

\* An event that is not an exit leaves the exit as it is; an exit is the exit if there was none.
LEMMA AppendedExit ==
  ASSUME NEW J \in Seq(Events), NEW e \in Events
  PROVE  /\ e.type # "Completed" => ExitOf(Append(J, e)) = ExitOf(J) /\ (IsCompleted(Append(J, e)) <=> IsCompleted(J))
         /\ e.type = "Completed" => IsCompleted(Append(J, e))
         /\ e.type = "Completed" /\ ~IsCompleted(J) => ExitOf(Append(J, e)) = e.exit
<1> DEFINE K == Append(J, e)
           n == Len(J)
           doneJ == {k \in DOMAIN J : J[k].type = "Completed"}
           doneK == {k \in DOMAIN K : K[k].type = "Completed"}
<1>1. /\ n \in Nat /\ DOMAIN J = 1..n /\ DOMAIN K = 1..(n + 1) /\ K[n + 1] = e
      /\ \A k \in 1..n : K[k] = J[k]
  BY Appended
<1>2. \A k \in 1..(n + 1) : k \in 1..n \/ k = n + 1
  BY <1>1
<1>3. n + 1 \in 1..(n + 1) /\ \A k \in 1..n : k \in 1..(n + 1)
  BY <1>1
<1>4. ASSUME e.type # "Completed" PROVE doneK = doneJ /\ \A k \in doneJ : K[k] = J[k]
  <2>1. \A k : k \in doneK <=> k \in doneJ
    BY <1>1, <1>2, <1>3, <1>4
  <2> QED BY <1>1, <2>1
<1>5. ASSUME e.type = "Completed" PROVE n + 1 \in doneK
  BY <1>1, <1>3, <1>5
<1>6. ASSUME e.type = "Completed", doneJ = {} PROVE doneK = {n + 1}
  BY <1>1, <1>2, <1>3, <1>6
<1> HIDE DEF n, K
<1>7. ASSUME e.type # "Completed" PROVE ExitOf(K) = ExitOf(J) /\ (IsCompleted(K) <=> IsCompleted(J))
  <2>1. IsCompleted(K) <=> IsCompleted(J)
    BY <1>4, <1>7 DEF IsCompleted
  <2>2. CASE doneJ = {}
    <3>1. doneK = {}
      BY <1>4, <1>7, <2>2
    <3>2. ExitOf(K) = NoValue /\ ExitOf(J) = NoValue
      BY <2>2, <3>1 DEF ExitOf
    <3> QED BY <2>1, <3>2
  <2>3. CASE doneJ # {}
    <3> DEFINE last == CHOOSE k \in doneJ : \A l \in doneJ : l <= k
    <3>1. \E k \in doneJ : \A l \in doneJ : l <= k
      <4>1. doneJ \in SUBSET (1..n)
        BY <1>1
      <4> QED BY <1>1, <2>3, <4>1, NatMax
    <3>2. last \in doneJ
      BY <3>1
    <3>3. ExitOf(J) = J[last].exit
      BY <2>3 DEF ExitOf
    <3>4. ExitOf(K) = K[last].exit
      BY <1>4, <1>7, <2>3 DEF ExitOf
    <3> QED BY <1>4, <1>7, <2>1, <3>2, <3>3, <3>4
  <2> QED BY <2>1, <2>2, <2>3
<1>8. ASSUME e.type = "Completed" PROVE IsCompleted(K)
  BY <1>5, <1>8 DEF IsCompleted
<1>9. ASSUME e.type = "Completed", ~IsCompleted(J) PROVE ExitOf(K) = e.exit
  <2>1. doneJ = {}
    BY <1>9 DEF IsCompleted
  <2>2. doneK = {n + 1}
    BY <1>6, <1>9, <2>1
  <2>3. (CHOOSE k \in doneK : \A l \in doneK : l <= k) = n + 1
    BY <1>1, <2>2
  <2> QED BY <1>1, <2>2, <2>3 DEF ExitOf
<1> QED BY <1>7, <1>8, <1>9 DEF K

\* The next event of the workflow.
LEMMA HistoryAppends ==
  ASSUME NEW J \in Seq(Events), NEW e \in Events, HistoryFits(J),
         e.type = "Forked" =>
            /\ \A k \in 1..Len(J) : J[k].type = "Forked" => Before(J[k].id, e.id)
            /\ \A y \in Activities : Before(y, e.id) => OnRecord(J, Len(J), "Forked", y),
         e.type = "Joined" => ~OnRecord(J, Len(J), "Joined", e.id),
         e.type = "Completed" => \A x \in Activities : OnRecord(J, Len(J), "Joined", x)
  PROVE  HistoryFits(Append(J, e))
<1> DEFINE K == Append(J, e)
           n == Len(J)
<1>1. n \in Nat /\ Len(K) = n + 1 /\ K[n + 1] = e /\ \A k \in 1..n : K[k] = J[k]
  BY Appended
<1>2. \A k \in 1..(n + 1) : (k \in 1..n /\ K[k] = J[k]) \/ (k = n + 1 /\ K[k] = e)
  BY <1>1
<1> HIDE DEF K
<1>3. ASSUME NEW k \in 1..(n + 1), NEW type, NEW x
      PROVE  OnRecord(K, k - 1, type, x) <=> OnRecord(J, k - 1, type, x)
  <2>1. \A l \in 1..(k - 1) : K[l] = J[l]
    BY <1>1
  <2> QED BY <2>1 DEF OnRecord
<1>4. (n + 1) - 1 = n /\ n + 1 \in 1..(n + 1)
  BY <1>1
<1> HIDE DEF n
<1>5. ForksInOrder(K)
  <2>1. ASSUME NEW k \in 1..(n + 1), NEW l \in 1..(n + 1), k < l, K[k].type = "Forked", K[l].type = "Forked"
        PROVE  Before(K[k].id, K[l].id)
    <3>1. k \in 1..n /\ K[k] = J[k]
      BY <1>1, <1>2, <2>1
    <3>2. CASE l \in 1..n /\ K[l] = J[l]
      BY <2>1, <3>1, <3>2 DEF HistoryFits, ForksInOrder, n
    <3>3. CASE l = n + 1 /\ K[l] = e
      BY <2>1, <3>1, <3>3 DEF n
    <3> QED BY <1>2, <3>2, <3>3
  <2>2. ASSUME NEW k \in 1..(n + 1), K[k].type = "Forked", NEW y \in Activities, Before(y, K[k].id)
        PROVE  OnRecord(K, k - 1, "Forked", y)
    <3>1. CASE k \in 1..n /\ K[k] = J[k]
      BY <1>3, <2>2, <3>1 DEF HistoryFits, ForksInOrder, n
    <3>2. CASE k = n + 1 /\ K[k] = e
      BY <1>3, <1>4, <2>2, <3>2 DEF n
    <3> QED BY <1>2, <3>1, <3>2
  <2> QED BY <1>1, <2>1, <2>2 DEF ForksInOrder
<1>6. JoinsOnce(K)
  <2>1. ASSUME NEW k \in 1..n, e.type = "Joined", J[k].type = "Joined", J[k].id = e.id PROVE FALSE
    BY <2>1 DEF OnRecord, n
  <2>2. ASSUME NEW k \in 1..(n + 1), NEW l \in 1..(n + 1), K[k].type = "Joined", K[l].type = "Joined", K[k].id = K[l].id
        PROVE  k = l
    <3>1. CASE k \in 1..n /\ K[k] = J[k] /\ l \in 1..n /\ K[l] = J[l]
      BY <2>2, <3>1 DEF HistoryFits, JoinsOnce, n
    <3> QED BY <1>2, <2>1, <2>2, <3>1
  <2> QED BY <1>1, <2>2 DEF JoinsOnce
<1>7. ExitLast(K)
  <2>1. ASSUME NEW k \in 1..(n + 1), K[k].type = "Completed", NEW x \in Activities
        PROVE  OnRecord(K, k - 1, "Joined", x)
    <3>1. CASE k \in 1..n /\ K[k] = J[k]
      BY <1>3, <2>1, <3>1 DEF HistoryFits, ExitLast, n
    <3>2. CASE k = n + 1 /\ K[k] = e
      BY <1>3, <1>4, <2>1, <3>2 DEF n
    <3> QED BY <1>2, <3>1, <3>2
  <2> QED BY <1>1, <2>1 DEF ExitLast
<1> QED BY <1>5, <1>6, <1>7 DEF HistoryFits, K

\* The next event of an activity.
LEMMA RecordAppends ==
  ASSUME NEW J \in Seq(Events), NEW e \in Events, RecordFits(J), e.sequence = Len(J) + 1,
         e.type = "Completed" => e.exit \in Values
  PROVE  RecordFits(Append(J, e))
<1>1. \A k \in 1..(Len(J) + 1) : (k \in 1..Len(J) /\ Append(J, e)[k] = J[k]) \/ (k = Len(J) + 1 /\ Append(J, e)[k] = e)
  BY Appended
<1>2. Len(Append(J, e)) = Len(J) + 1
  BY Appended
<1> QED BY <1>1, <1>2 DEF RecordFits

\* The fold of an activity: its last number is the number of its events.
LEMMA LastIsLength ==
  ASSUME NEW J \in Seq(Events), RecordFits(J)
  PROVE  LastSequence(J) = Len(J)
<1>1. CASE J = <<>>
  BY <1>1 DEF LastSequence
<1>2. CASE J # <<>>
  <2>1. Len(J) \in 1..Len(J)
    BY <1>2, EmptySeq, LenProperties
  <2> QED BY <1>2, <2>1 DEF LastSequence, RecordFits
<1> QED BY <1>1, <1>2

\* An activity that is done has a value on record.
LEMMA ResultIsValue ==
  ASSUME NEW J \in Seq(Events), RecordFits(J), IsCompleted(J)
  PROVE  ExitOf(J) \in Values /\ ExitOf(J) # NoValue
<1>1. PICK k \in 1..Len(J) : J[k].type = "Completed" /\ ExitOf(J) = J[k].exit
  BY CompletedHasExit
<1>2. ExitOf(J) \in Values
  BY <1>1 DEF RecordFits
<1> QED BY <1>2, DataAssumption DEF Exits

----------------------------------------------------------------------------
(* What a step of one attempt leaves alone.                                *)

\* The journals k are the journals j, or a step later: what is done stays done.
SameDone(j, k) ==
  \A x \in Activities : IsCompleted(j[x]) => IsCompleted(k[x]) /\ ExitOf(k[x]) = ExitOf(j[x])

LEMMA AttemptStays ==
  ASSUME NEW r, NEW br, NEW j, NEW k, NEW n, NEW m, AttemptDet(r, br, j, n), SameDone(j, k),
         \A b \in Branches : br[b].pc \in Writing => k[Program[b][br[b].at]] = j[Program[b][br[b].at]],
         k[Workflow] = j[Workflow] \/ r.phase \notin Live,
         m = 0 => n = 0
  PROVE  AttemptDet(r, br, k, m)
<1>1. \A b \in Branches : WriterFits(br[b], b, r.tag, k)
  BY DEF AttemptDet, WriterFits
<1>2. GotRight(r.got, k)
  BY DEF AttemptDet, GotRight, SameDone
<1>3. MailFits(r, m)
  BY DEF AttemptDet, MailFits
<1>4. BranchesFollow(r, br, k[Workflow])
  BY DEF AttemptDet, BranchesFollow, Steady
<1> QED BY <1>1, <1>2, <1>3, <1>4 DEF AttemptDet

\* Attempt a is the only one to go on.
Only(a) == \A c \in Attempts \ {a} : attempt'[c] = attempt[c] /\ branch'[c] = branch[c]

\* A coordinator that dies has a good reason.
DiesWell(r, journals, n) == r.broken # "no" => n > 0 /\ IsCompleted(journals[Workflow])

\* What the invariant says of an attempt, and what it takes to say it of the next state.
LEMMA DetIs ==
  DetInv <=>
    /\ HistoryFits(journal[Workflow])
    /\ \A x \in Activities : RecordFits(journal[x])
    /\ JoinedHaveResult
    /\ \A a \in Attempts : DiesWell(attempt[a], journal, yields) /\ AttemptDet(attempt[a], branch[a], journal, yields)
BY DEF DetInv, DiesWell, ReplayIsDeterministic

LEMMA DetNextIs ==
  DetInv' <=>
    /\ HistoryFits(journal'[Workflow])
    /\ \A x \in Activities : RecordFits(journal'[x])
    /\ JoinedHaveResult'
    /\ \A a \in Attempts :
         DiesWell(attempt'[a], journal', yields') /\ AttemptDet(attempt'[a], branch'[a], journal', yields')
BY DEF DetInv, DiesWell, ReplayIsDeterministic

LEMMA OneGoes ==
  ASSUME IInv, DetInv, NEW a \in Attempts, Only(a), yields' \in Nat, yields <= yields',
         SameDone(journal, journal'),
         \A c \in Attempts \ {a}, b \in Branches : branch[c][b].pc \in Writing =>
            journal'[Program[b][branch[c][b].at]] = journal[Program[b][branch[c][b].at]],
         journal'[Workflow] = journal[Workflow] \/ \A c \in Attempts \ {a} : ~IsLive(c),
         IsCompleted(journal[Workflow]) => IsCompleted(journal'[Workflow]),
         HistoryFits(journal'[Workflow]), \A x \in Activities : RecordFits(journal'[x]), JoinedHaveResult',
         DiesWell(attempt'[a], journal', yields'), AttemptDet(attempt'[a], branch'[a], journal', yields')
  PROVE  DetInv'
<1>1. yields \in Nat /\ yields' \in Nat /\ yields <= yields'
  BY DEF IInv, TypeOK
<1>2. (yields' = 0 => yields = 0) /\ (yields > 0 => yields' > 0)
  BY ONLY <1>1
<1>3. ASSUME NEW c \in Attempts, c # a
      PROVE  DiesWell(attempt'[c], journal', yields') /\ AttemptDet(attempt'[c], branch'[c], journal', yields')
  <2>1. attempt'[c] = attempt[c] /\ branch'[c] = branch[c]
    BY <1>3 DEF Only
  <2>2. DiesWell(attempt[c], journal, yields) /\ AttemptDet(attempt[c], branch[c], journal, yields)
    BY DetIs
  <2>3. DiesWell(attempt[c], journal', yields')
    BY <1>2, <2>2 DEF DiesWell
  <2>4. \A b \in Branches : branch[c][b].pc \in Writing =>
            journal'[Program[b][branch[c][b].at]] = journal[Program[b][branch[c][b].at]]
    BY <1>3
  <2>5. journal'[Workflow] = journal[Workflow] \/ attempt[c].phase \notin Live
    BY <1>3 DEF IsLive
  <2>6. AttemptDet(attempt[c], branch[c], journal', yields')
    BY ONLY <1>2, <2>2, <2>4, <2>5, SameDone(journal, journal'), AttemptStays
  <2> QED BY ONLY <2>1, <2>3, <2>6
<1> QED BY <1>3, DetNextIs

\* The step appends nothing.
LEMMA NothingAppended ==
  ASSUME IInv, DetInv, NEW a \in Attempts, Only(a), yields' \in Nat, yields <= yields', journal' = journal,
         attempt'[a].broken = attempt[a].broken \/ DiesWell(attempt'[a], journal, yields'),
         AttemptDet(attempt'[a], branch'[a], journal, yields')
  PROVE  DetInv'
<1>1. /\ HistoryFits(journal[Workflow]) /\ (\A x \in Activities : RecordFits(journal[x])) /\ JoinedHaveResult
      /\ DiesWell(attempt[a], journal, yields)
  BY DetIs
<1>2. SameDone(journal, journal')
  BY DEF SameDone
<1>3. DiesWell(attempt'[a], journal', yields')
  <2>1. yields \in Nat
    BY DEF IInv, TypeOK
  <2>2. yields > 0 => yields' > 0
    BY ONLY <2>1, yields' \in Nat, yields <= yields'
  <2> QED BY <1>1, <2>2 DEF DiesWell
<1>4. JoinedHaveResult'
  BY <1>1 DEF JoinedHaveResult
<1> QED BY <1>1, <1>2, <1>3, <1>4, OneGoes

LEMMA QuietStep ==
  ASSUME IInv, DetInv, NEW a \in Attempts, Only(a), journal' = journal, yields' = yields,
         attempt'[a].broken = attempt[a].broken,
         AttemptDet(attempt'[a], branch'[a], journal', yields)
  PROVE  DetInv'
<1>1. yields \in Nat
  BY DEF IInv, TypeOK
<1>2. yields' \in Nat /\ yields <= yields' /\ AttemptDet(attempt'[a], branch'[a], journal, yields')
  BY <1>1
<1> QED BY <1>2, NothingAppended

\* The step appends to the journal of the workflow.
LEMMA WorkflowAppended ==
  ASSUME IInv, DetInv, NEW a \in Attempts, Only(a), yields' = yields, IsLive(a),
         NEW e \in Events, journal' = AppendTo(journal, Workflow, e),
         HistoryFits(Append(journal[Workflow], e)),
         e.type = "Joined" => IsCompleted(journal[e.id]),
         attempt'[a].broken = attempt[a].broken,
         AttemptDet(attempt'[a], branch'[a], journal', yields)
  PROVE  DetInv'
<1>1. /\ (\A x \in Activities : RecordFits(journal[x])) /\ JoinedHaveResult /\ DiesWell(attempt[a], journal, yields)
  BY DetIs
<1>2. journal \in [Ids -> Seq(Events)] /\ Workflow \notin Activities /\ yields \in Nat
  BY DataAssumption DEF IInv, TypeOK
<1>3. journal'[Workflow] = Append(journal[Workflow], e) /\ \A x \in Activities : journal'[x] = journal[x]
  BY <1>2 DEF AppendTo, Ids
<1>4. journal[Workflow] \in Seq(Events)
  BY <1>2 DEF Ids
<1>5. IsCompleted(journal[Workflow]) => IsCompleted(journal'[Workflow])
  BY <1>3, <1>4, AppendedExit
<1>6. SameDone(journal, journal')
  BY <1>3 DEF SameDone
<1>7. DiesWell(attempt'[a], journal', yields')
  BY <1>1, <1>5 DEF DiesWell
<1>8. JoinedHaveResult'
  <2>1. SUFFICES ASSUME NEW x \in Activities, NEW k \in DOMAIN journal'[Workflow],
                        journal'[Workflow][k].type = "Joined", journal'[Workflow][k].id = x
                 PROVE  IsCompleted(journal'[x])
    BY DEF JoinedHaveResult
  <2> DEFINE J == journal[Workflow]
  <2>2. k \in 1..Len(J) \/ (k = Len(J) + 1 /\ journal'[Workflow][k] = e)
    BY <1>3, <1>4, <2>1, Appended
  <2>3. ASSUME k \in 1..Len(J) PROVE k \in DOMAIN J /\ journal'[Workflow][k] = J[k]
    BY <1>3, <1>4, <2>3, Appended
  <2> QED BY <1>1, <1>3, <2>1, <2>2, <2>3 DEF JoinedHaveResult
<1>9. \A c \in Attempts \ {a} : ~IsLive(c)
  BY DEF IInv, OneLive
<1>10. \A c \in Attempts \ {a}, b \in Branches : branch[c][b].pc \in Writing =>
            journal'[Program[b][branch[c][b].at]] = journal[Program[b][branch[c][b].at]]
  <2>1. SUFFICES ASSUME NEW c \in Attempts, NEW b \in Branches, branch[c][b].pc \in Writing
                 PROVE  Program[b][branch[c][b].at] \in Activities
    BY <1>3
  <2>2. branch[c][b].at \in 1..Len(Program[b])
    <3>1. WriterFits(branch[c][b], b, attempt[c].tag, journal)
      BY DetIs DEF AttemptDet
    <3> QED BY <2>1, <3>1 DEF WriterFits, Writing
  <2> QED BY <2>2, ProgramAssumption, ElementOfSeq
<1> QED BY <1>1, <1>2, <1>3, <1>5, <1>6, <1>7, <1>8, <1>9, <1>10, OneGoes

\* A branch that writes has an activity, and belongs to the attempt that is live.
LEMMA WriterLives ==
  ASSUME IInv, DetInv, NEW a \in Attempts, NEW b \in Branches, branch[a][b].pc \in Writing
  PROVE  LET x == Program[b][branch[a][b].at]
         IN  /\ branch[a][b].at \in 1..Len(Program[b]) /\ x \in Activities /\ journal[x] \in Seq(Events)
             /\ IsLive(a) /\ attempt[a].fiber # "none" /\ x # Workflow
             /\ ~IsCompleted(journal[x]) /\ ~IsCompleted(journal[Workflow])
<1> DEFINE x == Program[b][branch[a][b].at]
           J == journal[Workflow]
<1>1. WriterFits(branch[a][b], b, attempt[a].tag, journal) /\ BranchesFollow(attempt[a], branch[a], J)
  BY DetIs DEF AttemptDet
<1>2. branch[a][b].at \in 1..Len(Program[b]) /\ ~IsCompleted(journal[x])
  BY <1>1 DEF WriterFits, Writing
<1>3. x \in Activities /\ x # Workflow
  BY <1>2, ProgramAssumption, DataAssumption, ElementOfSeq, SMTT(40)
<1>4. journal[x] \in Seq(Events) /\ J \in Seq(Events)
  BY <1>3 DEF IInv, TypeOK, Ids
<1>5. ~IsCompleted(J)
  <2>1. SUFFICES ASSUME IsCompleted(J) PROVE FALSE
    OBVIOUS
  <2>2. PICK k \in 1..Len(J) : J[k].type = "Completed"
    BY <1>4, <2>1, CompletedHasExit
  <2>3. OnRecord(J, k - 1, "Joined", x)
    BY <1>3, <2>2, DetIs DEF HistoryFits, ExitLast
  <2>4. PICK l \in 1..(k - 1) : J[l].type = "Joined" /\ J[l].id = x
    BY <2>3 DEF OnRecord
  <2>5. l \in DOMAIN J
    <3>1. Len(J) \in Nat /\ DOMAIN J = 1..Len(J)
      BY <1>4, LenProperties
    <3> QED BY <3>1
  <2> QED BY <1>2, <1>3, <2>4, <2>5, DetIs DEF JoinedHaveResult
<1>6. attempt[a].fiber # "none"
  <2>1. branch[a] # Ready
    BY DEF Ready, Writing
  <2> QED BY <1>1, <2>1 DEF BranchesFollow
<1>7. IsLive(a)
  <2>1. attempt[a].phase \in Live \cup {"died"}
    BY <1>1, <1>6 DEF BranchesFollow
  <2>2. attempt[a].phase # "died"
    BY <1>1, <1>5, DetIs DEF BranchesFollow, DiesWell
  <2> QED BY <2>1, <2>2 DEF IsLive
<1> QED BY <1>2, <1>3, <1>4, <1>5, <1>6, <1>7

\* A branch appends to the journal of its activity: nobody else is writing there.
LEMMA ActivityAppended ==
  ASSUME Determined, IInv, DetInv, NEW a \in Attempts, NEW b \in Branches, branch[a][b].pc \in Writing,
         Only(a), yields' = yields, NEW x, x = Program[b][branch[a][b].at],
         NEW e \in Events, journal' = AppendTo(journal, x, e),
         e.sequence = Len(journal[x]) + 1, e.type = "Completed" => e.exit \in Values,
         attempt'[a].broken = attempt[a].broken,
         AttemptDet(attempt'[a], branch'[a], journal', yields)
  PROVE  DetInv'
<1>1. /\ x \in Activities /\ journal[x] \in Seq(Events) /\ IsLive(a) /\ x # Workflow
      /\ ~IsCompleted(journal[x])
  BY ONLY IInv, DetInv, a \in Attempts, b \in Branches, branch[a][b].pc \in Writing,
          x = Program[b][branch[a][b].at], WriterLives
<1>2. /\ HistoryFits(journal[Workflow]) /\ (\A y \in Activities : RecordFits(journal[y])) /\ JoinedHaveResult
      /\ DiesWell(attempt[a], journal, yields)
  BY DetIs
<1>3. journal \in [Ids -> Seq(Events)] /\ yields \in Nat
  BY DEF IInv, TypeOK
<1>4. /\ journal'[x] = Append(journal[x], e) /\ journal'[Workflow] = journal[Workflow]
      /\ \A y \in Activities \ {x} : journal'[y] = journal[y]
  BY ONLY <1>1, <1>3, journal' = AppendTo(journal, x, e) DEF AppendTo, Ids
<1>5. RecordFits(journal'[x])
  BY ONLY <1>1, <1>2, <1>4, e \in Events, e.sequence = Len(journal[x]) + 1,
          e.type = "Completed" => e.exit \in Values, RecordAppends
<1>6. SameDone(journal, journal')
  BY ONLY <1>1, <1>4 DEF SameDone
<1>7. DiesWell(attempt'[a], journal', yields')
  BY ONLY <1>2, <1>4, yields' = yields, attempt'[a].broken = attempt[a].broken DEF DiesWell
<1>8. JoinedHaveResult'
  <2>1. \A y \in Activities : IsCompleted(journal[y]) => IsCompleted(journal'[y])
    BY ONLY <1>6 DEF SameDone
  <2> QED BY ONLY <1>2, <1>4, <2>1 DEF JoinedHaveResult
<1>9. \A c \in Attempts \ {a}, d \in Branches : branch[c][d].pc \in Writing =>
            journal'[Program[d][branch[c][d].at]] = journal[Program[d][branch[c][d].at]]
  <2>1. SUFFICES ASSUME NEW c \in Attempts, c # a, NEW d \in Branches, branch[c][d].pc \in Writing PROVE FALSE
    OBVIOUS
  <2>2. IsLive(c)
    BY ONLY IInv, DetInv, <2>1, WriterLives
  <2> QED BY ONLY IInv, a \in Attempts, <1>1, <2>1, <2>2, SMTT(40) DEF IInv, OneLive
<1>10. \A y \in Activities : RecordFits(journal'[y])
  BY ONLY <1>2, <1>4, <1>5
<1>11. yields' \in Nat /\ yields <= yields'
  BY <1>3
<1> QED BY ONLY IInv, DetInv, a \in Attempts, Only(a), AttemptDet(attempt'[a], branch'[a], journal', yields),
           yields' = yields, <1>2, <1>4, <1>6, <1>7, <1>8, <1>9, <1>10, <1>11, OneGoes

\* Two branches never write to the same journal.
LEMMA WritersApart ==
  ASSUME Determined, NEW r, NEW br, NEW j, NEW n, AttemptDet(r, br, j, n),
         NEW b \in Branches, br[b].at \in 1..Len(Program[b]),
         NEW c \in Branches, c # b, br[c].pc \in Writing
  PROVE  Program[c][br[c].at] # Program[b][br[b].at]
<1>1. br[c].at \in 1..Len(Program[c])
  <2>1. WriterFits(br[c], c, r.tag, j)
    BY DEF AttemptDet
  <2> QED BY <2>1 DEF WriterFits, Writing
<1>2. Of(Program[c][br[c].at]) = c /\ Of(Program[b][br[b].at]) = b
  BY <1>1, PlaceIs
<1> QED BY <1>2

----------------------------------------------------------------------------
(* The mailbox and the messages put aside.                                 *)

LEMMA QueueType ==
  ASSUME NEW r \in AttemptType
  PROVE  /\ Front(r) \in Seq(Messages) /\ r.mailbox \in Seq(Messages) /\ Queue(r) \in Seq(Messages)
         /\ r.delayed \in Seq(Messages) /\ r.backlog \in Seq(Messages)
<1>1. r.mailbox \in Seq(Messages) /\ r.delayed \in Seq(Messages) /\ r.backlog \in Seq(Messages)
  BY DEF AttemptType
<1>2. Front(r) \in Seq(Messages)
  BY <1>1 DEF Front
<1> QED BY <1>1, <1>2, ConcatProperties DEF Queue

LEMMA ConcatIs ==
  ASSUME NEW f \in Seq(Messages), NEW s \in Seq(Messages)
  PROVE  /\ f \o s \in Seq(Messages) /\ Len(f \o s) = Len(f) + Len(s)
         /\ \A k \in 1..Len(f \o s) : (f \o s)[k] = IF k <= Len(f) THEN f[k] ELSE s[k - Len(f)]
BY ConcatProperties, LenProperties

\* A message at the end of the mailbox is at the end of the queue.
LEMMA LongerQueue ==
  ASSUME NEW r \in AttemptType, NEW t, NEW m \in Messages, Front(t) = Front(r), t.mailbox = Append(r.mailbox, m)
  PROVE  Longer(Queue(r), m, Queue(t)) /\ Queue(t) \in Seq(Messages)
<1> DEFINE f == Front(r)
           s == r.mailbox
<1>1. f \in Seq(Messages) /\ s \in Seq(Messages)
  BY QueueType
<1>2. Append(s, m) \in Seq(Messages) /\ Len(Append(s, m)) = Len(s) + 1
      /\ (\A k \in 1..Len(s) : Append(s, m)[k] = s[k]) /\ Append(s, m)[Len(s) + 1] = m
  BY <1>1, AppendProperties
<1> DEFINE u == Append(s, m)
<1>3. u \in Seq(Messages) /\ Len(u) = Len(s) + 1 /\ (\A k \in 1..Len(s) : u[k] = s[k]) /\ u[Len(s) + 1] = m
  BY <1>2
<1>4. Queue(r) = f \o s /\ Queue(t) = f \o u
  BY DEF Queue
<1> HIDE DEF f, s, u
<1>5. /\ f \o s \in Seq(Messages) /\ Len(f \o s) = Len(f) + Len(s)
      /\ \A k \in 1..Len(f \o s) : (f \o s)[k] = IF k <= Len(f) THEN f[k] ELSE s[k - Len(f)]
  BY ONLY <1>1, ConcatIs
<1>6. /\ f \o u \in Seq(Messages) /\ Len(f \o u) = Len(f) + Len(u)
      /\ \A k \in 1..Len(f \o u) : (f \o u)[k] = IF k <= Len(f) THEN f[k] ELSE u[k - Len(f)]
  BY ONLY <1>1, <1>3, ConcatIs
<1>7. Len(f) \in Nat /\ Len(s) \in Nat
  BY <1>1, LenProperties
<1>8. Len(f \o u) = Len(f \o s) + 1
  BY <1>3, <1>5, <1>6, <1>7
<1>9. ASSUME NEW k \in 1..Len(f \o s) PROVE (f \o u)[k] = (f \o s)[k]
  <2>1. k \in Nat /\ k \in 1..Len(f \o u)
    BY <1>5, <1>7, <1>8
  <2>2. CASE k <= Len(f)
    BY <1>5, <1>6, <2>1, <2>2
  <2>3. CASE k > Len(f)
    <3>1. k - Len(f) \in 1..Len(s)
      BY <1>5, <1>7, <1>9, <2>3
    <3> QED BY <1>3, <1>5, <1>6, <1>7, <2>1, <2>3, <3>1
  <2> QED BY <1>7, <2>1, <2>2, <2>3
<1>10. (f \o u)[Len(f \o s) + 1] = m
  <2>1. Len(f \o s) + 1 \in 1..Len(f \o u) /\ ~(Len(f \o s) + 1 <= Len(f)) /\ Len(f \o s) + 1 - Len(f) = Len(s) + 1
    BY <1>5, <1>7, <1>8
  <2> QED BY <1>3, <1>6, <2>1
<1> QED BY <1>4, <1>6, <1>8, <1>9, <1>10 DEF Longer

\* A message that comes later.
LEMMA MailAppends ==
  ASSUME NEW r \in AttemptType, NEW t, NEW m \in Messages, NEW n, NEW n2, MailFits(r, n), n2 = 0 => n = 0,
         t.mailbox = Append(r.mailbox, m), t.tag = r.tag, t.phase = r.phase, t.backlog = r.backlog, t.delayed = r.delayed,
         \/ m.type = "RequestYield" /\ n2 # 0
         \/ r.tag # "NotStarted" /\ m.type # "RequestYield",
         m.type = "CheckStatus" => m.branch # NoBranch
  PROVE  MailFits(t, n2) /\ Longer(Queue(r), m, Queue(t)) /\ Queue(t) \in Seq(Messages) /\ Queue(r) \in Seq(Messages)
<1>1. Front(t) = Front(r)
  BY DEF Front
<1>2. Longer(Queue(r), m, Queue(t)) /\ Queue(t) \in Seq(Messages) /\ Queue(r) \in Seq(Messages)
  BY <1>1, LongerQueue, QueueType
<1>3. \A k \in 1..Len(Queue(t)) : Queue(t)[k] = m \/ \E j \in 1..Len(Queue(r)) : Queue(t)[k] = Queue(r)[j]
  BY <1>2, LongerBy DEF LongerIs
<1>4. t.tag = "NotStarted" => \A k \in 1..Len(Queue(t)) :
         /\ Queue(t)[k].type \notin {"RequestFork", "RequestJoin", "RequestComplete"}
         /\ Queue(t)[k].type = "CheckStatus" => Queue(t)[k].branch = NoBranch
  BY <1>3 DEF MailFits
<1>5. t.phase \in {"reading", "replay"} =>
         \A k \in 1..Len(Queue(t)) : Queue(t)[k].type = "CheckStatus" => Queue(t)[k].branch # NoBranch
  BY <1>3 DEF MailFits
<1>6. n2 = 0 => \A k \in 1..Len(Queue(t)) : Queue(t)[k].type # "RequestYield"
  BY <1>3 DEF MailFits
<1> QED BY <1>2, <1>4, <1>5, <1>6 DEF MailFits

----------------------------------------------------------------------------
(* The steps of the branches.                                              *)

LEMMA BranchBecomes ==
  ASSUME IInv, IInv', NEW a \in Attempts, NEW b \in Branches, NEW me, Become(a, b, me)
  PROVE  /\ branch'[a][b] = me /\ me \in BranchType /\ OnlyMoves(branch[a], branch'[a], b)
         /\ \A c \in Attempts \ {a} : branch'[c] = branch[c]
<1>1. /\ branch \in [Attempts -> [Branches -> BranchType]]
      /\ branch' \in [Attempts -> [Branches -> BranchType]]
  BY DEF IInv, TypeOK
<1>2. branch' = [branch EXCEPT ![a][b] = me]
  BY DEF Become
<1> QED BY <1>1, <1>2 DEF OnlyMoves

\* What the fiber of the workflow can rely on when it runs.
LEMMA Running ==
  ASSUME IInv, DetInv, NEW a \in Attempts, attempt[a].fiber = "running"
  PROVE  /\ attempt[a] \in AttemptType /\ branch[a] \in [Branches -> BranchType]
         /\ attempt[a].tag # "NotStarted" /\ attempt[a].phase \in Live \cup {"died"}
         /\ attempt[a].phase = "died" => attempt[a].broken # "no"
         /\ AttemptDet(attempt[a], branch[a], journal, yields)
         /\ yields \in Nat /\ Workflow \notin Activities
<1>1. AttemptDet(attempt[a], branch[a], journal, yields)
  BY DetIs
<1>2. attempt[a] \in AttemptType /\ branch[a] \in [Branches -> BranchType] /\ yields \in Nat
  BY DEF IInv, TypeOK
<1>3. BranchesFollow(attempt[a], branch[a], journal[Workflow])
  BY <1>1 DEF AttemptDet
<1> QED BY <1>1, <1>2, <1>3, DataAssumption DEF BranchesFollow

\* Nothing disturbs a branch at an activity, and then the workflow has not ended.
LEMMA NotCompleted ==
  ASSUME Determined, NEW r, NEW br \in [Branches -> BranchType], NEW J, BranchesFollow(r, br, J), Steady(r),
         NEW b \in Branches, br[b].at \in 1..Len(Program[b])
  PROVE  /\ r.tag # "Completed" /\ SteadyBranch(br[b])
         /\ ProgressFits(br, J, r.next, r.got) /\ QueueFits(Queue(r), br, r.got, r.tag = "Replay")
<1> DEFINE x == Program[b][br[b].at]
<1>1. x \in Activities /\ ~Gone(br, x)
  BY PlaceIs, ItStands, SMTT(40)
<1> HIDE DEF x
<1>2. r.tag # "Completed"
  BY <1>1 DEF BranchesFollow
<1> QED BY <1>2 DEF BranchesFollow

\* Branch b gets on with its activity and the coordinator is not told.
LEMMA BranchGoesOn ==
  ASSUME Determined, IInv, IInv', DetInv, NEW a \in Attempts, NEW b \in Branches, attempt[a].fiber = "running",
         branch[a][b].at \in 1..Len(Program[b]), OnlyMoves(branch[a], branch'[a], b),
         branch'[a][b].at = branch[a][b].at,
         branch[a][b].pc \notin {"idle", "forking", "asking", "joining"},
         branch'[a][b].pc \notin {"idle", "forking", "joining"},
         SteadyBranch(branch[a][b]) => SteadyBranch(branch'[a][b]),
         NEW got, attempt'[a] = [attempt[a] EXCEPT !.got = got],
         \A y \in Activities : attempt[a].got[y] # NoValue => got[y] # NoValue,
         branch'[a][b].pc = "joinable" => branch[a][b].pc = "joinable" \/ got[Program[b][branch[a][b].at]] # NoValue,
         WriterFits(branch'[a][b], b, attempt[a].tag, journal'), GotRight(got, journal'),
         \A d \in Branches \ {b} : branch[a][d].pc \in Writing =>
            journal'[Program[d][branch[a][d].at]] = journal[Program[d][branch[a][d].at]],
         journal'[Workflow] = journal[Workflow]
  PROVE  AttemptDet(attempt'[a], branch'[a], journal', yields)
<1> DEFINE r == attempt[a]
           t == attempt'[a]
           br == branch[a]
           cr == branch'[a]
           J == journal[Workflow]
<1>1. /\ r \in AttemptType /\ br \in [Branches -> BranchType] /\ r.tag # "NotStarted"
      /\ r.phase \in Live \cup {"died"} /\ (r.phase = "died" => r.broken # "no")
      /\ AttemptDet(r, br, journal, yields)
  BY Running
<1>2. /\ t.got = got /\ t.tag = r.tag /\ t.phase = r.phase /\ t.fiber = r.fiber /\ t.broken = r.broken
      /\ t.next = r.next /\ t.backlog = r.backlog /\ t.delayed = r.delayed /\ t.mailbox = r.mailbox
  BY <1>1, SMTT(40) DEF AttemptType
<1>3. Queue(t) = Queue(r)
  BY <1>2 DEF Queue, Front
<1>4. MailFits(t, yields)
  BY <1>1, <1>2, <1>3 DEF MailFits, AttemptDet
<1>5. ASSUME NEW d \in Branches PROVE WriterFits(cr[d], d, t.tag, journal')
  <2>1. CASE d = b
    BY <1>2, <2>1, SMTT(40)
  <2>2. CASE d # b
    <3>1. cr[d] = br[d] /\ WriterFits(br[d], d, r.tag, journal)
      BY <1>1, <2>2, SMTT(40) DEF OnlyMoves, AttemptDet
    <3> QED BY <1>2, <2>2, <3>1 DEF WriterFits
  <2> QED BY <2>1, <2>2
<1> HIDE DEF t, cr
<1>6. ASSUME Steady(t)
      PROVE  /\ t.tag # "Completed" /\ \A d \in Branches : SteadyBranch(cr[d])
             /\ ProgressFits(cr, J, t.next, got) /\ QueueFits(Queue(t), cr, got, t.tag = "Replay")
  <2>1. Steady(r) /\ BranchesFollow(r, br, J)
    BY <1>1, <1>2, <1>6 DEF Steady, AttemptDet
  <2>2. /\ r.tag # "Completed" /\ SteadyBranch(br[b])
        /\ ProgressFits(br, J, r.next, r.got) /\ QueueFits(Queue(r), br, r.got, r.tag = "Replay")
    BY <1>1, <2>1, NotCompleted
  <2>3. ASSUME NEW d \in Branches PROVE SteadyBranch(cr[d])
    <3>1. SteadyBranch(br[d])
      BY <2>1 DEF BranchesFollow
    <3>2. d # b => cr[d] = br[d]
      BY DEF OnlyMoves, cr
    <3> QED BY <2>2, <3>1, <3>2 DEF cr
  <2>4. ProgressFits(cr, J, r.next, got)
    <3> DEFINE i == br[b].at
    <3>1. /\ OnlyMoves(br, cr, b) /\ br[b].at = i /\ cr[b].at = i
          /\ br[b].pc \notin {"idle", "forking"} /\ cr[b].pc \notin {"idle", "forking"}
      BY DEF cr
    <3>2. cr[b].pc \in {"joinable", "joining"} =>
            br[b].pc \in {"joinable", "joining"} \/ got[Program[b][i]] # NoValue
      BY DEF cr
    <3>3. i \in 1..Len(Program[b]) /\ (\A y \in Activities : r.got[y] # NoValue => got[y] # NoValue)
      OBVIOUS
    <3> HIDE DEF i, r, br, J
    <3> QED BY <2>2, <3>1, <3>2, <3>3, ProgressMoves
  <2>5. QueueFits(Queue(r), cr, got, r.tag = "Replay")
    <3>1. /\ OnlyMoves(br, cr, b) /\ br[b].at \in 1..Len(Program[b])
          /\ br[b].pc \notin {"forking", "joining"} /\ cr[b].pc # "forking" /\ br[b].pc # "asking"
      BY DEF cr
    <3>2. Queue(r) \in Seq(Messages)
      BY <1>1, QueueType
    <3> HIDE DEF r, br
    <3> QED BY <2>2, <3>1, <3>2, QueueMoves
  <2> QED BY <1>2, <1>3, <2>2, <2>3, <2>4, <2>5
<1>7. BranchesFollow(t, cr, J)
  <2>1. t.phase \in Live \cup {"died"} /\ t.fiber # "none" /\ t.tag # "NotStarted" /\ (t.phase = "died" => t.broken # "no")
    BY <1>1, <1>2
  <2> QED BY <1>2, <1>6, <2>1 DEF BranchesFollow
<1> QED BY <1>2, <1>4, <1>5, <1>7 DEF AttemptDet, t, cr

\* Once the workflow has ended, all activities have a result.
LEMMA AllDone ==
  ASSUME IInv, DetInv, IsCompleted(journal[Workflow]), NEW x \in Activities
  PROVE  IsCompleted(journal[x])
<1> DEFINE J == journal[Workflow]
<1>1. J \in Seq(Events)
  BY DEF IInv, TypeOK, Ids
<1>2. PICK k \in 1..Len(J) : J[k].type = "Completed"
  BY <1>1, CompletedHasExit
<1>3. PICK l \in 1..(k - 1) : J[l].type = "Joined" /\ J[l].id = x
  BY <1>2, DetIs DEF HistoryFits, ExitLast, OnRecord
<1>4. l \in DOMAIN J
  <2>1. Len(J) \in Nat /\ DOMAIN J = 1..Len(J)
    BY <1>1, LenProperties
  <2> QED BY <2>1
<1> QED BY <1>3, <1>4, DetIs DEF JoinedHaveResult

\* The activity a branch is at.
LEMMA AtIs ==
  ASSUME IInv, NEW a \in Attempts, NEW b \in Branches, branch[a][b].at \in DOMAIN Program[b]
  PROVE  /\ branch[a][b].at \in 1..Len(Program[b]) /\ Activity(a, b) \in Activities
         /\ Activity(a, b) = Program[b][branch[a][b].at]
         /\ journal[Activity(a, b)] \in Seq(Events) /\ Activity(a, b) # Workflow
         /\ branch[a][b] \in BranchType
<1>1. Program[b] \in Seq(Activities)
  BY ProgramAssumption
<1>2. branch[a][b].at \in 1..Len(Program[b]) /\ Program[b][branch[a][b].at] \in Activities
  BY <1>1, LenProperties, ElementOfSeq
<1>3. branch[a][b] \in BranchType /\ journal \in [Ids -> Seq(Events)]
  BY DEF IInv, TypeOK
<1> QED BY <1>2, <1>3, DataAssumption DEF Activity, Ids

\* An activity whose result is not known can only be run by a live attempt.
LEMMA StillToDo ==
  ASSUME IInv, DetInv, NEW a \in Attempts, attempt[a].fiber = "running", NEW x \in Activities, ~IsCompleted(journal[x])
  PROVE  IsLive(a) /\ (attempt[a].tag # "Yielding" => Steady(attempt[a]))
<1>1. attempt[a].phase \in Live
  BY Running, AllDone, DetIs DEF DiesWell
<1> QED BY <1>1 DEF IsLive, Steady

LEMMA ReadActivityDet ==
  ASSUME Determined, IInv, IInv', DetInv, NEW a \in Attempts, NEW b \in Branches, ReadActivity(a, b)
  PROVE  DetInv'
<1> DEFINE x == Activity(a, b)
           me == branch[a][b]
           i == me.at
           exit == ExitOf(journal[x])
<1>1. /\ attempt[a].fiber = "running" /\ me.pc = "forked" /\ i \in DOMAIN Program[b]
      /\ journal' = journal /\ yields' = yields
  BY DEF ReadActivity, At, limits
<1>2. /\ i \in 1..Len(Program[b]) /\ x \in Activities /\ x = Program[b][i] /\ journal[x] \in Seq(Events)
      /\ me \in BranchType
  BY <1>1, AtIs
<1>3. /\ attempt[a] \in AttemptType /\ AttemptDet(attempt[a], branch[a], journal, yields) /\ yields \in Nat
      /\ RecordFits(journal[x]) /\ branch \in [Attempts -> [Branches -> BranchType]]
  BY <1>1, <1>2, Running, DetIs DEF IInv, TypeOK
<1>4. CASE exit = NoValue
  <2> DEFINE me2 == [Move(a, b, "attempting") EXCEPT !.last = LastSequence(journal[x])]
  <2>1. Become(a, b, me2) /\ attempt' = attempt
    BY <1>4 DEF ReadActivity, EventsOf
  <2>2. /\ branch'[a][b] = me2 /\ OnlyMoves(branch[a], branch'[a], b)
        /\ \A c \in Attempts \ {a} : branch'[c] = branch[c]
    BY ONLY IInv, IInv', a \in Attempts, b \in Branches, <2>1, BranchBecomes, SMTT(40)
  <2>3. me2.pc = "attempting" /\ me2.at = i /\ me2.cut = me.cut /\ me2.exit = me.exit /\ me2.last = Len(journal[x])
    BY <1>2, <1>3, LastIsLength, SMTT(40) DEF Move, BranchType
  <2>4. ~IsCompleted(journal[x])
    BY <1>2, <1>3, <1>4, ResultIsValue
  <2>5. me.exit = Interrupted => attempt[a].tag = "Yielding"
    <3>1. attempt[a].tag # "Yielding" => me.exit = NoValue
      <4>1. SUFFICES ASSUME attempt[a].tag # "Yielding" PROVE me.exit = NoValue
        OBVIOUS
      <4>2. Steady(attempt[a])
        BY <1>1, <1>2, <2>4, <4>1, StillToDo
      <4> QED BY <1>1, <1>3, <4>2 DEF AttemptDet, BranchesFollow, SteadyBranch
    <3> QED BY <3>1, DataAssumption DEF Exits
  <2> HIDE DEF me2
  <2>6. WriterFits(branch'[a][b], b, attempt[a].tag, journal')
    <3>1. /\ i \in 1..Len(Program[b]) /\ i \in 1..(Len(Program[b]) + 1)
      <4>1. Len(Program[b]) \in Nat
        BY ONLY Determined, b \in Branches, <1>2, PlaceIs, SMTT(40)
      <4> QED BY <1>2, <4>1
    <3> QED BY <1>1, <1>2, <2>2, <2>3, <2>4, <2>5, <3>1 DEF WriterFits
  <2>7. AttemptDet(attempt'[a], branch'[a], journal', yields)
    <3>1. attempt'[a] = [attempt[a] EXCEPT !.got = attempt[a].got]
      BY <1>3, <2>1 DEF AttemptType
    <3>2. GotRight(attempt[a].got, journal')
      BY <1>1, <1>3 DEF AttemptDet
    <3>3. SteadyBranch(me) => SteadyBranch(branch'[a][b])
      BY <2>2, <2>3 DEF SteadyBranch
    <3> QED BY <1>1, <1>2, <2>2, <2>3, <2>6, <3>1, <3>2, <3>3, BranchGoesOn
  <2>8. Only(a) /\ attempt'[a].broken = attempt[a].broken
    BY <2>1, <2>2 DEF Only
  <2> QED BY <1>1, <2>7, <2>8, QuietStep
<1>5. CASE exit # NoValue
  <2> DEFINE me2 == [Move(a, b, "joinable") EXCEPT !.cut = @ \/ exit = Interrupted]
             got == [attempt[a].got EXCEPT ![x] = exit]
  <2>1. Become(a, b, me2) /\ attempt' = [attempt EXCEPT ![a].got[x] = exit]
    BY <1>5 DEF ReadActivity, EventsOf
  <2>2. /\ branch'[a][b] = me2 /\ OnlyMoves(branch[a], branch'[a], b)
        /\ \A c \in Attempts \ {a} : branch'[c] = branch[c]
    BY ONLY IInv, IInv', a \in Attempts, b \in Branches, <2>1, BranchBecomes, SMTT(40)
  <2>3. IsCompleted(journal[x]) /\ exit \in Values /\ exit # Interrupted
    BY ONLY <1>2, <1>3, <1>5, CompletedHasExit, ResultIsValue, DataAssumption, SMTT(40)
  <2>4. me2.pc = "joinable" /\ me2.at = i /\ me2.cut = me.cut /\ me2.exit = me.exit /\ me2.last = me.last
    BY <1>2, <2>3 DEF Move, BranchType
  <2>5. attempt[a].got \in [Activities -> Exits \cup {NoValue}]
    BY <1>3 DEF AttemptType, Results
  <2>6. got[x] = exit /\ \A y \in Activities \ {x} : got[y] = attempt[a].got[y]
    BY <1>2, <2>5
  <2>7. attempt'[a] = [attempt[a] EXCEPT !.got = got] /\ Only(a)
    <3>1. attempt \in [Attempts -> AttemptType]
      BY DEF IInv, TypeOK
    <3> QED BY <2>1, <2>2, <3>1 DEF Only, AttemptType
  <2> HIDE DEF me2, got, exit
  <2>8. WriterFits(branch'[a][b], b, attempt[a].tag, journal')
    <3>1. /\ i \in 1..Len(Program[b]) /\ i \in 1..(Len(Program[b]) + 1)
      <4>1. Len(Program[b]) \in Nat
        BY ONLY Determined, b \in Branches, <1>2, PlaceIs
      <4> QED BY <1>2, <4>1
    <3> QED BY <2>2, <2>4, <3>1 DEF WriterFits, Writing
  <2>9. GotRight(got, journal')
    BY <1>1, <1>3, <2>3, <2>6 DEF GotRight, AttemptDet, exit
  <2>10. \A y \in Activities : attempt[a].got[y] # NoValue => got[y] # NoValue
    BY <1>5, <2>6, SMTT(40)
  <2>11. AttemptDet(attempt'[a], branch'[a], journal', yields)
    <3>1. SteadyBranch(me) => SteadyBranch(branch'[a][b])
      BY <1>1, <2>2, <2>4 DEF SteadyBranch
    <3>2. got[Program[b][i]] # NoValue
      BY <1>2, <1>5, <2>6
    <3> QED BY <1>1, <1>2, <2>2, <2>4, <2>7, <2>8, <2>9, <2>10, <3>1, <3>2, BranchGoesOn
  <2>12. attempt'[a].broken = attempt[a].broken
    BY <1>3, <2>7 DEF AttemptType
  <2> QED BY <1>1, <2>7, <2>11, <2>12, QuietStep
<1> QED BY <1>4, <1>5

LEMMA ExecuteDet ==
  ASSUME Determined, IInv, IInv', DetInv, NEW a \in Attempts, NEW b \in Branches, Execute(a, b)
  PROVE  DetInv'
<1> DEFINE me == branch[a][b]
           i == me.at
<1>1. /\ attempt[a].fiber = "running" /\ me.pc = "executing" /\ i \in DOMAIN Program[b]
      /\ journal' = journal /\ yields' = yields /\ attempt' = attempt
  BY DEF Execute, At, limits
<1>2. PICK v \in Returns[a] : Become(a, b, [Move(a, b, "exited") EXCEPT !.exit = v])
  BY DEF Execute
<1>3. i \in 1..Len(Program[b]) /\ me \in BranchType
  BY <1>1, AtIs
<1>4. /\ attempt[a] \in AttemptType /\ AttemptDet(attempt[a], branch[a], journal, yields)
      /\ WriterFits(me, b, attempt[a].tag, journal)
  BY <1>1, Running DEF AttemptDet
<1> DEFINE me2 == [Move(a, b, "exited") EXCEPT !.exit = v]
<1>5. /\ branch'[a][b] = me2 /\ OnlyMoves(branch[a], branch'[a], b)
      /\ \A c \in Attempts \ {a} : branch'[c] = branch[c]
  BY ONLY IInv, IInv', a \in Attempts, b \in Branches, <1>2, BranchBecomes
<1>6. me2.pc = "exited" /\ me2.at = i /\ me2.cut = me.cut /\ me2.exit = v /\ me2.last = me.last
  BY <1>3 DEF Move, BranchType
<1>7. v # Interrupted
  BY DataAssumption
<1> HIDE DEF me2
<1>8. WriterFits(branch'[a][b], b, attempt[a].tag, journal')
  BY <1>1, <1>4, <1>5, <1>6, <1>7 DEF WriterFits, Writing
<1>9. AttemptDet(attempt'[a], branch'[a], journal', yields)
  <2>1. attempt'[a] = [attempt[a] EXCEPT !.got = attempt[a].got]
    BY <1>1, <1>4 DEF AttemptType
  <2>2. GotRight(attempt[a].got, journal')
    BY <1>1, <1>4 DEF AttemptDet
  <2>3. SteadyBranch(me) => SteadyBranch(branch'[a][b])
    BY <1>5, <1>6 DEF SteadyBranch
  <2> QED BY <1>1, <1>3, <1>5, <1>6, <1>8, <2>1, <2>2, <2>3, BranchGoesOn
<1>10. Only(a) /\ attempt'[a].broken = attempt[a].broken
  BY ONLY <1>1, <1>5, SMTT(40) DEF Only
<1> QED BY <1>1, <1>9, <1>10, QuietStep

LEMMA AttemptDetKeeps ==
  ASSUME Determined, IInv, IInv', DetInv, NEW a \in Attempts, NEW b \in Branches, Attempt(a, b)
  PROVE  DetInv'
<1> DEFINE x == Activity(a, b)
           me == branch[a][b]
           i == me.at
           J == journal[x]
           e == Attempted(attempt[a].version, me.last + 1)
           me2 == Move(a, b, "executing")
<1>1. /\ attempt[a].fiber = "running" /\ me.pc = "attempting" /\ i \in DOMAIN Program[b]
      /\ journal' = AppendTo(journal, x, e) /\ yields' = yields /\ attempt' = attempt /\ Become(a, b, me2)
  BY DEF Attempt, At, limits
<1>2. i \in 1..Len(Program[b]) /\ me \in BranchType /\ x \in Activities /\ x = Program[b][i] /\ J \in Seq(Events) /\ x # Workflow
  BY <1>1, AtIs
<1>3. /\ attempt[a] \in AttemptType /\ AttemptDet(attempt[a], branch[a], journal, yields)
      /\ WriterFits(me, b, attempt[a].tag, journal)
  BY <1>1, Running, SMTT(40) DEF AttemptDet
<1>4. ~IsCompleted(J) /\ me.last = Len(J) /\ Len(J) \in Nat
  BY <1>1, <1>2, <1>3, LenProperties DEF WriterFits, Writing
<1>5. e \in Events /\ e.type = "Attempted" /\ e.sequence = Len(J) + 1
  <2>1. attempt[a].version \in Versions
    BY <1>1, RunningVersion
  <2>2. me.last + 1 \in Nat
    BY <1>4
  <2> QED BY <1>4, <2>1, <2>2, MakeEvents DEF Attempted
<1>6. /\ branch'[a][b] = me2 /\ OnlyMoves(branch[a], branch'[a], b)
      /\ \A c \in Attempts \ {a} : branch'[c] = branch[c]
  BY ONLY IInv, IInv', a \in Attempts, b \in Branches, <1>1, BranchBecomes
<1>7. me2.pc = "executing" /\ me2.at = i /\ me2.cut = me.cut /\ me2.exit = me.exit /\ me2.last = me.last
  BY <1>2, SMTT(40) DEF Move, BranchType
<1> HIDE DEF e, me2
<1>8. /\ journal'[x] = Append(J, e) /\ \A id \in Ids \ {x} : journal'[id] = journal[id]
  BY <1>1, <1>2 DEF IInv, TypeOK, AppendTo, Ids
<1>9. /\ ExitOf(journal'[x]) = ExitOf(J) /\ (IsCompleted(journal'[x]) <=> IsCompleted(J))
      /\ Len(journal'[x]) = Len(J) + 1
  <2>1. ExitOf(Append(J, e)) = ExitOf(J) /\ (IsCompleted(Append(J, e)) <=> IsCompleted(J))
    BY <1>2, <1>5, AppendedExit
  <2>2. Len(Append(J, e)) = Len(J) + 1
    BY <1>2, <1>5, Appended, SMTT(40)
  <2> QED BY <1>8, <2>1, <2>2
<1>10. WriterFits(branch'[a][b], b, attempt[a].tag, journal')
  BY <1>1, <1>2, <1>3, <1>4, <1>6, <1>7, <1>9, ZenonT(60) DEF WriterFits, Writing
<1>11. AttemptDet(attempt'[a], branch'[a], journal', yields)
  <2>1. attempt'[a] = [attempt[a] EXCEPT !.got = attempt[a].got]
    BY <1>1, <1>3 DEF AttemptType
  <2>2. GotRight(attempt[a].got, journal')
    <3>1. GotRight(attempt[a].got, journal)
      BY <1>3 DEF AttemptDet
    <3> QED BY <1>8, <1>9, <3>1 DEF GotRight, Ids
  <2>3. SteadyBranch(me) => SteadyBranch(branch'[a][b])
    BY <1>6, <1>7 DEF SteadyBranch
  <2>4. \A d \in Branches \ {b} : branch[a][d].pc \in Writing =>
            journal'[Program[d][branch[a][d].at]] = journal[Program[d][branch[a][d].at]]
    <3>1. SUFFICES ASSUME NEW d \in Branches, d # b, branch[a][d].pc \in Writing
                   PROVE  Program[d][branch[a][d].at] \in Ids \ {x}
      BY <1>8
    <3>2. Program[d][branch[a][d].at] # Program[b][i]
      BY <1>2, <1>3, <3>1, WritersApart
    <3>3. Program[d][branch[a][d].at] \in Activities
      BY <3>1, WriterLives, SMTT(40)
    <3> QED BY <1>2, <3>2, <3>3 DEF Ids
  <2>5. journal'[Workflow] = journal[Workflow]
    BY <1>2, <1>8 DEF Ids
  <2> QED BY <1>1, <1>2, <1>6, <1>7, <1>10, <2>1, <2>2, <2>3, <2>4, <2>5, BranchGoesOn
<1>12. Only(a) /\ attempt'[a].broken = attempt[a].broken
  BY <1>1, <1>6 DEF Only
<1>13. me.pc \in Writing /\ e.type # "Completed"
  BY <1>1, <1>5 DEF Writing
<1> QED BY <1>1, <1>2, <1>5, <1>11, <1>12, <1>13, ActivityAppended

----------------------------------------------------------------------------
(* What the coordinator can rely on.                                       *)

LEMMA Settled ==
  ASSUME IInv, DetInv, NEW a \in Attempts
  PROVE  /\ attempt[a] \in AttemptType /\ branch[a] \in [Branches -> BranchType]
         /\ attempt \in [Attempts -> AttemptType] /\ branch \in [Attempts -> [Branches -> BranchType]]
         /\ journal[Workflow] \in Seq(Events) /\ HistoryFits(journal[Workflow]) /\ yields \in Nat
         /\ CoordinatorFits(attempt[a], journal[Workflow])
         /\ DiesWell(attempt[a], journal, yields)
         /\ AttemptDet(attempt[a], branch[a], journal, yields)
         /\ \A b \in Branches : WriterFits(branch[a][b], b, attempt[a].tag, journal)
         /\ GotRight(attempt[a].got, journal) /\ MailFits(attempt[a], yields)
         /\ BranchesFollow(attempt[a], branch[a], journal[Workflow])
<1>1. /\ DiesWell(attempt[a], journal, yields) /\ AttemptDet(attempt[a], branch[a], journal, yields)
      /\ HistoryFits(journal[Workflow])
  BY DetIs
<1>2. /\ attempt \in [Attempts -> AttemptType] /\ branch \in [Attempts -> [Branches -> BranchType]]
      /\ journal[Workflow] \in Seq(Events) /\ yields \in Nat
  BY DEF IInv, TypeOK, Ids
<1>3. CoordinatorFits(attempt[a], journal[Workflow])
  BY DEF IInv, AttemptsFit
<1>4. attempt[a] \in AttemptType /\ branch[a] \in [Branches -> BranchType]
  BY <1>2
<1>5. /\ \A b \in Branches : WriterFits(branch[a][b], b, attempt[a].tag, journal)
      /\ GotRight(attempt[a].got, journal) /\ MailFits(attempt[a], yields)
      /\ BranchesFollow(attempt[a], branch[a], journal[Workflow])
  BY <1>1 DEF AttemptDet
<1> QED BY ONLY <1>1, <1>2, <1>3, <1>4, <1>5

\* While the workflow replays or runs, nothing disturbs its branches.
LEMMA SteadyIs ==
  ASSUME IInv, DetInv, NEW a \in Attempts, IsLive(a), attempt[a].tag \in {"Replay", "Running", "Completed"}
  PROVE  /\ Steady(attempt[a]) /\ attempt[a].fiber # "none"
         /\ \A b \in Branches : SteadyBranch(branch[a][b])
         /\ attempt[a].tag = "Completed" => \A x \in Activities : Gone(branch[a], x)
         /\ attempt[a].tag # "Completed" =>
              /\ ProgressFits(branch[a], journal[Workflow], attempt[a].next, attempt[a].got)
              /\ QueueFits(Queue(attempt[a]), branch[a], attempt[a].got, attempt[a].tag = "Replay")
<1>1. CoordinatorFits(attempt[a], journal[Workflow]) /\ BranchesFollow(attempt[a], branch[a], journal[Workflow])
  BY Settled
<1>2. attempt[a].fiber # "none" /\ attempt[a].phase \in Live
  BY <1>1 DEF CoordinatorFits, IsLive
<1>3. Steady(attempt[a])
  BY <1>2 DEF Steady
<1> QED BY <1>1, <1>2, <1>3 DEF BranchesFollow

LEMMA CoordinatorOnly ==
  ASSUME IInv, NEW a \in Attempts, NEW t, attempt' = [attempt EXCEPT ![a] = t],
         \A c \in Attempts \ {a} : branch'[c] = branch[c]
  PROVE  Only(a) /\ attempt'[a] = t
BY DEF IInv, TypeOK, Only

\* A branch that is at an activity is not done with it.
LEMMA NotGone ==
  ASSUME Determined, NEW br \in [Branches -> BranchType], NEW b \in Branches, br[b].at \in 1..Len(Program[b])
  PROVE  \E x \in Activities : x = Program[b][br[b].at] /\ ~Gone(br, x)
BY PlaceIs, ItStands

\* A branch asks the coordinator for something.
LEMMA BranchSends ==
  ASSUME Determined, IInv, IInv', DetInv, NEW a \in Attempts, NEW b \in Branches, attempt[a].fiber = "running",
         branch[a][b].at \in 1..Len(Program[b]), OnlyMoves(branch[a], branch'[a], b),
         \A c \in Attempts \ {a} : branch'[c] = branch[c],
         NEW m \in Messages, m.type # "RequestYield", m.type = "CheckStatus" => m.branch # NoBranch,
         Mail(a, m), journal' = journal, yields' = yields,
         WriterFits(branch'[a][b], b, attempt[a].tag, journal),
         SteadyBranch(branch[a][b]) => SteadyBranch(branch'[a][b]),
         NEW r, r = attempt[a], NEW J, J = journal[Workflow],
         \A q, p \in Seq(Messages) :
            /\ Longer(q, m, p) /\ \A d \in Branches : SteadyBranch(branch[a][d])
            /\ ProgressFits(branch[a], J, r.next, r.got) /\ QueueFits(q, branch[a], r.got, r.tag = "Replay")
            => ProgressFits(branch'[a], J, r.next, r.got) /\ QueueFits(p, branch'[a], r.got, r.tag = "Replay")
  PROVE  DetInv'
<1> DEFINE t == attempt'[a]
<1>1. /\ r \in AttemptType /\ branch[a] \in [Branches -> BranchType] /\ r.tag # "NotStarted"
      /\ r.phase \in Live \cup {"died"} /\ (r.phase = "died" => r.broken # "no")
      /\ yields \in Nat
  BY Running
<1>2. attempt' = [attempt EXCEPT ![a] = [attempt[a] EXCEPT !.mailbox = Append(attempt[a].mailbox, m)]]
  BY Settled DEF Mail, Offered
<1>3. Only(a) /\ t = [r EXCEPT !.mailbox = Append(r.mailbox, m)]
  BY <1>2, CoordinatorOnly
<1>4. /\ t.mailbox = Append(r.mailbox, m) /\ t.tag = r.tag /\ t.phase = r.phase /\ t.backlog = r.backlog
      /\ t.delayed = r.delayed /\ t.got = r.got /\ t.next = r.next /\ t.fiber = r.fiber /\ t.broken = r.broken
  BY <1>1, <1>3 DEF AttemptType
<1> HIDE DEF t
<1>5. /\ GotRight(r.got, journal) /\ MailFits(r, yields) /\ BranchesFollow(r, branch[a], J)
      /\ \A d \in Branches : WriterFits(branch[a][d], d, r.tag, journal)
  BY Settled
<1>6. MailFits(t, yields) /\ Longer(Queue(r), m, Queue(t)) /\ Queue(t) \in Seq(Messages) /\ Queue(r) \in Seq(Messages)
  <2>1. r \in AttemptType /\ MailFits(r, yields) /\ (yields = 0 => yields = 0)
    BY <1>1, <1>5
  <2>2. \/ m.type = "RequestYield" /\ yields # 0
        \/ r.tag # "NotStarted" /\ m.type # "RequestYield"
    BY <1>1
  <2>3. m.type = "CheckStatus" => m.branch # NoBranch
    OBVIOUS
  <2>4. MailFits(t, yields)
    BY ONLY <1>4, <2>1, <2>2, <2>3, m \in Messages, MailAppends
  <2>5. Longer(Queue(r), m, Queue(t))
    BY ONLY <1>4, <2>1, <2>2, <2>3, m \in Messages, MailAppends
  <2>6. Queue(t) \in Seq(Messages)
    BY ONLY <1>4, <2>1, <2>2, <2>3, m \in Messages, MailAppends
  <2> QED BY <1>1, <2>4, <2>5, <2>6, QueueType
<1>7. ASSUME NEW d \in Branches
      PROVE  WriterFits(branch'[a][d], d, t.tag, journal) /\ (SteadyBranch(branch[a][d]) => SteadyBranch(branch'[a][d]))
  BY <1>4, <1>5 DEF OnlyMoves
<1>8. ASSUME Steady(t)
      PROVE  /\ t.tag # "Completed" /\ \A d \in Branches : SteadyBranch(branch'[a][d])
             /\ ProgressFits(branch'[a], J, t.next, t.got) /\ QueueFits(Queue(t), branch'[a], t.got, t.tag = "Replay")
  <2>1. Steady(r)
    BY <1>4, <1>8 DEF Steady
  <2>2. \A d \in Branches : SteadyBranch(branch[a][d])
    BY <1>5, <2>1 DEF BranchesFollow
  <2>3. /\ r.tag # "Completed"
        /\ ProgressFits(branch[a], J, r.next, r.got) /\ QueueFits(Queue(r), branch[a], r.got, r.tag = "Replay")
    BY <1>1, <1>5, <2>1, NotCompleted
  <2>4. ProgressFits(branch'[a], J, r.next, r.got) /\ QueueFits(Queue(t), branch'[a], r.got, r.tag = "Replay")
    BY <1>6, <2>2, <2>3
  <2> QED BY <1>4, <1>7, <2>2, <2>3, <2>4
<1>9. BranchesFollow(t, branch'[a], J)
  BY <1>1, <1>4, <1>8 DEF BranchesFollow
<1>10. AttemptDet(t, branch'[a], journal, yields)
  BY <1>4, <1>5, <1>6, <1>7, <1>9, SMTT(40) DEF AttemptDet
<1> QED BY <1>3, <1>4, <1>10, QuietStep DEF t

LEMMA RequestJoinOfDet ==
  ASSUME Determined, IInv, IInv', DetInv, NEW a \in Attempts, NEW b \in Branches, RequestJoinOf(a, b)
  PROVE  DetInv'
<1> DEFINE me == branch[a][b]
           i == me.at
           m == RequestJoin(b, Activity(a, b))
           me2 == Move(a, b, "joining")
           r == attempt[a]
           J == journal[Workflow]
<1>1. /\ r.fiber = "running" /\ me.pc = "joinable" /\ i \in DOMAIN Program[b]
      /\ journal' = journal /\ yields' = yields /\ Mail(a, m) /\ Become(a, b, me2)
  BY DEF RequestJoinOf, At, limits
<1>2. i \in 1..Len(Program[b]) /\ me \in BranchType /\ Activity(a, b) \in Activities /\ Activity(a, b) = Program[b][i]
  BY <1>1, AtIs
<1>3. m \in Messages /\ m.type = "RequestJoin" /\ m = RequestJoin(b, Program[b][i])
  BY <1>2, MakeMessages DEF RequestJoin
<1>4. /\ branch'[a][b] = me2 /\ OnlyMoves(branch[a], branch'[a], b)
      /\ \A c \in Attempts \ {a} : branch'[c] = branch[c]
  BY ONLY IInv, IInv', a \in Attempts, b \in Branches, <1>1, BranchBecomes
<1>5. me2.pc = "joining" /\ me2.at = i /\ me2.cut = me.cut /\ me2.exit = me.exit /\ me2.last = me.last
  BY <1>2 DEF Move, BranchType
<1> HIDE DEF m, me2
<1>6. WriterFits(branch'[a][b], b, r.tag, journal)
  <2>1. WriterFits(me, b, r.tag, journal)
    BY Settled
  <2> QED BY <1>1, <1>2, <1>4, <1>5, <2>1 DEF WriterFits, Writing
<1>7. SteadyBranch(branch[a][b]) => SteadyBranch(branch'[a][b])
  BY <1>1, <1>4, <1>5 DEF SteadyBranch
<1>8. ASSUME NEW q \in Seq(Messages), NEW p \in Seq(Messages), Longer(q, m, p),
             ProgressFits(branch[a], J, r.next, r.got), QueueFits(q, branch[a], r.got, r.tag = "Replay")
      PROVE  ProgressFits(branch'[a], J, r.next, r.got) /\ QueueFits(p, branch'[a], r.got, r.tag = "Replay")
  <2> DEFINE br == branch[a]
             cr == branch'[a]
  <2>1. /\ OnlyMoves(br, cr, b) /\ br[b].at = i /\ cr[b].at = i /\ br[b].pc = "joinable" /\ cr[b].pc = "joining"
        /\ i \in 1..Len(Program[b]) /\ Longer(q, RequestJoin(b, Program[b][i]), p)
    BY <1>1, <1>2, <1>3, <1>4, <1>5, <1>8
  <2> HIDE DEF br, cr, i
  <2>2. QueueFits(p, cr, r.got, r.tag = "Replay")
    <3>1. QueueFits(q, br, r.got, r.tag = "Replay")
      BY <1>8 DEF br
    <3> QED BY <2>1, <3>1, QueueJoins
  <2>3. ProgressFits(cr, J, r.next, r.got)
    <3>1. ProgressFits(br, J, r.next, r.got)
      BY <1>8 DEF br
    <3> HIDE DEF r, J
    <3> QED BY <2>1, <3>1, ProgressMoves, SMTT(40)
  <2> QED BY <2>2, <2>3, SMTT(40) DEF cr
<1> QED BY <1>1, <1>2, <1>3, <1>4, <1>6, <1>7, <1>8, BranchSends

LEMMA RequestForkOfDet ==
  ASSUME Determined, IInv, IInv', DetInv, NEW a \in Attempts, NEW b \in Branches, RequestForkOf(a, b)
  PROVE  DetInv'
<1> DEFINE me == branch[a][b]
           i == me.at
           m == RequestFork(b, Activity(a, b))
           me2 == Move(a, b, "forking")
           r == attempt[a]
           J == journal[Workflow]
<1>1. /\ r.fiber = "running" /\ me.pc = "idle" /\ i \in DOMAIN Program[b]
      /\ journal' = journal /\ yields' = yields /\ Mail(a, m) /\ Become(a, b, me2)
      /\ i = 1 => \A c \in Branches : c < b => branch[a][c] # Ready[c]
  BY DEF RequestForkOf, At, limits
<1>2. i \in 1..Len(Program[b]) /\ me \in BranchType /\ Activity(a, b) \in Activities /\ Activity(a, b) = Program[b][i]
  BY <1>1, AtIs
<1>3. m \in Messages /\ m.type = "RequestFork" /\ m = RequestFork(b, Program[b][i])
  BY <1>2, MakeMessages DEF RequestFork
<1>4. /\ branch'[a][b] = me2 /\ OnlyMoves(branch[a], branch'[a], b)
      /\ \A c \in Attempts \ {a} : branch'[c] = branch[c]
  BY ONLY IInv, IInv', a \in Attempts, b \in Branches, <1>1, BranchBecomes
<1>5. me2.pc = "forking" /\ me2.at = i /\ me2.cut = me.cut /\ me2.exit = me.exit /\ me2.last = me.last
  BY <1>2 DEF Move, BranchType
<1> HIDE DEF m, me2
<1>6. WriterFits(branch'[a][b], b, r.tag, journal)
  <2>1. WriterFits(me, b, r.tag, journal)
    BY Settled
  <2> QED BY <1>1, <1>2, <1>4, <1>5, <2>1 DEF WriterFits, Writing
<1>7. SteadyBranch(branch[a][b]) => SteadyBranch(branch'[a][b])
  BY <1>1, <1>4, <1>5 DEF SteadyBranch
<1>8. ASSUME NEW q \in Seq(Messages), NEW p \in Seq(Messages), Longer(q, m, p),
             \A d \in Branches : SteadyBranch(branch[a][d]),
             ProgressFits(branch[a], J, r.next, r.got), QueueFits(q, branch[a], r.got, r.tag = "Replay")
      PROVE  ProgressFits(branch'[a], J, r.next, r.got) /\ QueueFits(p, branch'[a], r.got, r.tag = "Replay")
  <2> DEFINE br == branch[a]
             cr == branch'[a]
  <2>1. /\ OnlyMoves(br, cr, b) /\ br[b].at = i /\ cr[b].at = i /\ br[b].pc = "idle" /\ cr[b].pc = "forking"
        /\ i \in 1..Len(Program[b]) /\ Longer(q, RequestFork(b, Program[b][i]), p)
        /\ i = 1 => \A c \in Branches : c < b => br[c] # Ready[c]
    BY <1>1, <1>2, <1>3, <1>4, <1>5, <1>8
  <2>2. \A d \in Branches : SteadyBranch(br[d]) /\ br[d].at \in Nat \ {0}
    <3>1. SUFFICES ASSUME NEW d \in Branches PROVE br[d].at \in Nat \ {0}
      BY <1>8
    <3>2. WriterFits(br[d], d, r.tag, journal)
      BY Settled
    <3>3. br[d].at \in 1..(Len(Program[d]) + 1) /\ Len(Program[d]) \in Nat
      <4>1. Program[d] \in Seq(Activities)
        BY ProgramAssumption
      <4> QED BY <3>2, <4>1, LenProperties DEF WriterFits
    <3> QED BY <3>3
  <2> HIDE DEF br, cr, i
  <2>3. QueueFits(p, cr, r.got, r.tag = "Replay") /\ ProgressFits(br, J, r.next, r.got)
    <3>1. QueueFits(q, br, r.got, r.tag = "Replay") /\ ProgressFits(br, J, r.next, r.got)
      BY <1>8 DEF br
    <3> HIDE DEF r, J
    <3> QED BY <2>1, <3>1, QueueForks
  <2>4. ProgressFits(cr, J, r.next, r.got)
    <3> HIDE DEF r, J
    <3> QED BY <2>1, <2>2, <2>3, ProgressAsks
  <2> QED BY <2>3, <2>4, SMTT(40) DEF cr
<1> QED BY <1>1, <1>2, <1>3, <1>4, <1>6, <1>7, <1>8, BranchSends

LEMMA AskYieldingDet ==
  ASSUME Determined, IInv, IInv', DetInv, NEW a \in Attempts, NEW b \in Branches, AskYielding(a, b)
  PROVE  DetInv'
<1> DEFINE me == branch[a][b]
           i == me.at
           m == CheckStatus(b)
           me2 == Move(a, b, "asking")
           r == attempt[a]
           J == journal[Workflow]
<1>1. /\ r.fiber = "running" /\ me.pc = "exited" /\ i \in DOMAIN Program[b]
      /\ journal' = journal /\ yields' = yields /\ Mail(a, m) /\ Become(a, b, me2)
  BY DEF AskYielding, At, limits
<1>2. i \in 1..Len(Program[b]) /\ me \in BranchType
  BY <1>1, AtIs
<1>3. m \in Messages /\ m.type = "CheckStatus" /\ m.branch = b /\ b # NoBranch
  BY MakeMessages, DataAssumption DEF CheckStatus
<1>4. /\ branch'[a][b] = me2 /\ OnlyMoves(branch[a], branch'[a], b)
      /\ \A c \in Attempts \ {a} : branch'[c] = branch[c]
  BY ONLY IInv, IInv', a \in Attempts, b \in Branches, <1>1, BranchBecomes
<1>5. me2.pc = "asking" /\ me2.at = i /\ me2.cut = me.cut /\ me2.exit = me.exit /\ me2.last = me.last
  BY <1>2 DEF Move, BranchType
<1> HIDE DEF m, me2
<1>6. WriterFits(branch'[a][b], b, r.tag, journal)
  <2>1. WriterFits(me, b, r.tag, journal)
    BY Settled
  <2> QED BY <1>1, <1>2, <1>4, <1>5, <2>1 DEF WriterFits, Writing
<1>7. SteadyBranch(branch[a][b]) => SteadyBranch(branch'[a][b])
  BY <1>1, <1>4, <1>5 DEF SteadyBranch
<1>8. ASSUME NEW q \in Seq(Messages), NEW p \in Seq(Messages), Longer(q, m, p),
             ProgressFits(branch[a], J, r.next, r.got), QueueFits(q, branch[a], r.got, r.tag = "Replay")
      PROVE  ProgressFits(branch'[a], J, r.next, r.got) /\ QueueFits(p, branch'[a], r.got, r.tag = "Replay")
  <2> DEFINE br == branch[a]
             cr == branch'[a]
  <2>1. /\ OnlyMoves(br, cr, b) /\ br[b].at = i /\ cr[b].at = i /\ br[b].pc = "exited" /\ cr[b].pc = "asking"
        /\ i \in 1..Len(Program[b])
    BY <1>1, <1>2, <1>4, <1>5
  <2> HIDE DEF br, cr, i
  <2>2. QueueFits(q, cr, r.got, r.tag = "Replay")
    <3>1. QueueFits(q, br, r.got, r.tag = "Replay")
      BY <1>8 DEF br
    <3> HIDE DEF r
    <3> QED BY <2>1, <3>1, QueueMoves
  <2>3. QueueFits(p, cr, r.got, r.tag = "Replay")
    <3>1. cr[m.branch].pc = "asking"
      BY <1>3, <2>1
    <3> HIDE DEF r
    <3> QED BY <1>3, <1>8, <2>2, <3>1, QueueAdds
  <2>4. ProgressFits(cr, J, r.next, r.got)
    <3>1. ProgressFits(br, J, r.next, r.got)
      BY <1>8 DEF br
    <3> HIDE DEF r, J
    <3> QED BY <2>1, <3>1, ProgressMoves, SMTT(40)
  <2> QED BY <2>3, <2>4 DEF cr
<1> QED BY <1>1, <1>2, <1>3, <1>4, <1>6, <1>7, <1>8, BranchSends

LEMMA RecordExitDet ==
  ASSUME Determined, IInv, IInv', DetInv, NEW a \in Attempts, NEW b \in Branches, RecordExit(a, b)
  PROVE  DetInv'
<1> DEFINE x == Activity(a, b)
           me == branch[a][b]
           i == me.at
           J == journal[x]
           e == Completed(me.exit, me.last + 2)
           got == [attempt[a].got EXCEPT ![x] = me.exit]
           me2 == [Move(a, b, "joinable") EXCEPT !.cut = @ \/ me.exit = Interrupted, !.exit = NoValue, !.last = 0]
<1>1. /\ attempt[a].fiber = "running" /\ me.pc = "recording" /\ i \in DOMAIN Program[b] /\ yields' = yields
      /\ journal' = AppendTo(journal, x, e) /\ attempt' = [attempt EXCEPT ![a].got[x] = me.exit] /\ Become(a, b, me2)
  BY DEF RecordExit, At, limits
<1>2. i \in 1..Len(Program[b]) /\ me \in BranchType /\ x \in Activities /\ x = Program[b][i] /\ J \in Seq(Events) /\ x # Workflow
  BY <1>1, AtIs
<1>3. /\ attempt[a] \in AttemptType /\ attempt \in [Attempts -> AttemptType]
      /\ WriterFits(me, b, attempt[a].tag, journal) /\ GotRight(attempt[a].got, journal)
      /\ AttemptDet(attempt[a], branch[a], journal, yields)
  BY Settled, SMTT(40)
<1>4. ~IsCompleted(J) /\ me.last + 1 = Len(J) /\ Len(J) \in Nat /\ me.exit \in Values /\ me.last \in Nat
  BY <1>1, <1>2, <1>3, LenProperties DEF WriterFits, Writing, BranchType
<1>5. e \in Events /\ e.type = "Completed" /\ e.sequence = Len(J) + 1 /\ e.exit = me.exit
  <2>1. me.last + 2 \in Nat /\ me.last + 2 = Len(J) + 1
    BY <1>4
  <2>2. me.exit \in Exits
    BY <1>4 DEF Exits
  <2> QED BY <2>1, <2>2, MakeEvents DEF Completed
<1>6. /\ branch'[a][b] = me2 /\ OnlyMoves(branch[a], branch'[a], b)
      /\ \A c \in Attempts \ {a} : branch'[c] = branch[c]
  BY ONLY IInv, IInv', a \in Attempts, b \in Branches, <1>1, BranchBecomes
<1>7. me.exit # Interrupted /\ me.exit # NoValue
  BY <1>4, DataAssumption DEF Exits
<1>8. me2.pc = "joinable" /\ me2.at = i /\ me2.cut = me.cut /\ me2.exit = NoValue /\ me2.last = 0
  BY <1>2, <1>7 DEF Move, BranchType
<1>9. attempt[a].got \in [Activities -> Exits \cup {NoValue}]
  BY <1>3 DEF AttemptType, Results
<1>10. got[x] = me.exit /\ \A y \in Activities \ {x} : got[y] = attempt[a].got[y]
  BY <1>2, <1>9
<1>11. attempt'[a] = [attempt[a] EXCEPT !.got = got] /\ \A c \in Attempts \ {a} : attempt'[c] = attempt[c]
  BY <1>1, <1>3, SMTT(40) DEF AttemptType
<1>12. /\ journal'[x] = Append(J, e) /\ \A id \in Ids \ {x} : journal'[id] = journal[id]
  BY <1>1, <1>2, ZenonT(60) DEF IInv, TypeOK, AppendTo, Ids
<1> HIDE DEF e, me2, got
<1>13. ExitOf(journal'[x]) = me.exit /\ IsCompleted(journal'[x])
  BY <1>2, <1>4, <1>5, <1>12, AppendedExit, ZenonT(60)
<1>14. WriterFits(branch'[a][b], b, attempt[a].tag, journal')
  <2>1. i \in 1..(Len(Program[b]) + 1)
    BY <1>3 DEF WriterFits
  <2> QED BY <1>2, <1>6, <1>8, <2>1 DEF WriterFits, Writing
<1>15. GotRight(got, journal')
  BY <1>3, <1>10, <1>12, <1>13 DEF GotRight, Ids
<1>16. AttemptDet(attempt'[a], branch'[a], journal', yields)
  <2>1. SteadyBranch(me) => SteadyBranch(branch'[a][b])
    BY <1>1, <1>6, <1>8 DEF SteadyBranch
  <2>2. \A y \in Activities : attempt[a].got[y] # NoValue => got[y] # NoValue
    BY <1>7, <1>10
  <2>3. got[Program[b][i]] # NoValue
    BY <1>2, <1>7, <1>10
  <2>4. \A d \in Branches \ {b} : branch[a][d].pc \in Writing =>
            journal'[Program[d][branch[a][d].at]] = journal[Program[d][branch[a][d].at]]
    <3>1. SUFFICES ASSUME NEW d \in Branches, d # b, branch[a][d].pc \in Writing
                   PROVE  Program[d][branch[a][d].at] \in Ids \ {x}
      BY <1>12
    <3>2. Program[d][branch[a][d].at] # Program[b][i]
      BY <1>2, <1>3, <3>1, WritersApart
    <3>3. Program[d][branch[a][d].at] \in Activities
      BY <3>1, WriterLives
    <3> QED BY <1>2, <3>2, <3>3 DEF Ids
  <2>5. journal'[Workflow] = journal[Workflow]
    BY <1>2, <1>12 DEF Ids
  <2> QED BY <1>1, <1>2, <1>6, <1>8, <1>11, <1>14, <1>15, <2>1, <2>2, <2>3, <2>4, <2>5, BranchGoesOn
<1>17. Only(a) /\ attempt'[a].broken = attempt[a].broken
  BY <1>3, <1>6, <1>11 DEF Only, AttemptType
<1>18. me.pc \in Writing
  BY <1>1 DEF Writing
<1> QED BY <1>1, <1>2, <1>4, <1>5, <1>16, <1>17, <1>18, ActivityAppended

\* Without timeouts, a branch is interrupted only when the workflow yields.
LEMMA InterruptDet ==
  ASSUME Determined, IInv, IInv', DetInv, NEW a \in Attempts, NEW b \in Branches, Interrupt(a, b)
  PROVE  DetInv'
<1> DEFINE me == branch[a][b]
           r == attempt[a]
<1>1. r.fiber = "running" /\ r.tag = "Yielding" /\ journal' = journal /\ yields' = yields /\ attempt' = attempt
  BY DEF Interrupt, Determined, limits
<1> DEFINE me2 == CASE me.pc = "idle" -> [me EXCEPT !.cut = TRUE, !.pc = "stopped"]
                    [] me.pc \in {"forking", "forked", "attempting"} ->
                         [me EXCEPT !.cut = TRUE, !.pc = "joinable", !.last = 0]
                    [] me.pc = "executing" ->
                         [me EXCEPT !.cut = TRUE, !.pc = "exited", !.exit = Interrupted]
                    [] OTHER -> [me EXCEPT !.cut = TRUE]
<1>2. Become(a, b, me2)
  BY DEF Interrupt
<1>3. /\ branch'[a][b] = me2 /\ OnlyMoves(branch[a], branch'[a], b)
      /\ \A c \in Attempts \ {a} : branch'[c] = branch[c]
  BY ONLY IInv, IInv', a \in Attempts, b \in Branches, <1>2, BranchBecomes
<1>4. /\ GotRight(r.got, journal) /\ MailFits(r, yields) /\ BranchesFollow(r, branch[a], journal[Workflow])
      /\ \A d \in Branches : WriterFits(branch[a][d], d, r.tag, journal)
      /\ me \in BranchType
  BY Settled
<1>5. WriterFits(me2, b, r.tag, journal)
  <2>1. WriterFits(me, b, r.tag, journal)
    BY <1>4
  <2>2. CASE me.pc = "idle"
    <3>1. me2.pc = "stopped" /\ me2.at = me.at
      BY <1>4, <2>2 DEF BranchType
    <3> HIDE DEF me2
    <3> QED BY <2>1, <3>1 DEF WriterFits, Writing
  <2>3. CASE me.pc \in {"forking", "forked", "attempting"}
    <3>1. me2.pc = "joinable" /\ me2.at = me.at
      BY <1>4, <2>3 DEF BranchType
    <3> HIDE DEF me2
    <3> QED BY <2>1, <2>3, <3>1 DEF WriterFits, Writing
  <2>4. CASE me.pc = "executing"
    <3>1. me2.pc = "exited" /\ me2.last = me.last /\ me2.at = me.at
      BY <1>4, <2>4 DEF BranchType
    <3> HIDE DEF me2
    <3> QED BY <1>1, <2>1, <2>4, <3>1 DEF WriterFits, Writing
  <2>5. CASE me.pc \notin {"idle", "forking", "forked", "attempting", "executing"}
    <3>1. me2.pc = me.pc /\ me2.last = me.last /\ me2.exit = me.exit /\ me2.at = me.at
      BY <1>4, <2>5 DEF BranchType
    <3> HIDE DEF me2
    <3> QED BY <2>1, <3>1 DEF WriterFits
  <2> QED BY <2>2, <2>3, <2>4, <2>5
<1> HIDE DEF me2
<1>6. \A d \in Branches : WriterFits(branch'[a][d], d, r.tag, journal)
  BY <1>3, <1>4, <1>5 DEF OnlyMoves
<1>7. BranchesFollow(r, branch'[a], journal[Workflow])
  BY <1>1, <1>4 DEF BranchesFollow, Steady
<1>8. AttemptDet(attempt'[a], branch'[a], journal', yields)
  BY <1>1, <1>4, <1>6, <1>7 DEF AttemptDet
<1>9. Only(a) /\ attempt'[a].broken = attempt[a].broken
  BY <1>1, <1>3 DEF Only
<1> QED BY <1>1, <1>8, <1>9, QuietStep

\* The branches have all come to their end, and with them the activities.
LEMMA RequestCompleteOfDet ==
  ASSUME Determined, IInv, IInv', DetInv, NEW a \in Attempts, RequestCompleteOf(a)
  PROVE  DetInv'
<1> DEFINE r == attempt[a]
           br == branch[a]
           J == journal[Workflow]
           m == RequestComplete(r.got)
           q == Append(r.mailbox, m)
           t == attempt'[a]
<1>1. /\ r.fiber = "running" /\ (\A b \in Branches : BranchDone(a, b)) /\ journal' = journal /\ branch' = branch
      /\ yields' = yields /\ attempt' = [Offered(a, m) EXCEPT ![a].fiber = "completing"]
  BY DEF RequestCompleteOf, limits
<1>2. /\ r \in AttemptType /\ br \in [Branches -> BranchType] /\ r.tag # "NotStarted"
      /\ r.phase \in Live \cup {"died"} /\ (r.phase = "died" => r.broken # "no")
      /\ yields \in Nat
  BY <1>1, Running
<1>3. m \in Messages /\ m.type = "RequestComplete" /\ m.exit = r.got
  BY <1>2 DEF Messages, RequestComplete, AttemptType
<1>4. attempt' = [attempt EXCEPT ![a] = [r EXCEPT !.mailbox = q, !.fiber = "completing"]]
  <2>1. attempt \in [Attempts -> AttemptType]
    BY Settled
  <2> HIDE DEF m
  <2> QED BY <1>1, <2>1 DEF Offered, AttemptType
<1>5. Only(a) /\ t = [r EXCEPT !.mailbox = q, !.fiber = "completing"]
  BY <1>1, <1>4, CoordinatorOnly
<1> HIDE DEF m
<1>6. /\ t.mailbox = Append(r.mailbox, m) /\ t.tag = r.tag /\ t.phase = r.phase /\ t.backlog = r.backlog
      /\ t.delayed = r.delayed /\ t.got = r.got /\ t.next = r.next /\ t.fiber = "completing" /\ t.broken = r.broken
  BY <1>2, <1>5 DEF AttemptType
<1> HIDE DEF t, q
<1>7. /\ GotRight(r.got, journal) /\ MailFits(r, yields) /\ BranchesFollow(r, br, J)
      /\ \A d \in Branches : WriterFits(br[d], d, r.tag, journal)
  BY Settled
<1>8. MailFits(t, yields) /\ Longer(Queue(r), m, Queue(t)) /\ Queue(t) \in Seq(Messages) /\ Queue(r) \in Seq(Messages)
  <2>1. r \in AttemptType /\ MailFits(r, yields) /\ (yields = 0 => yields = 0)
    BY <1>2, <1>7
  <2>2. \/ m.type = "RequestYield" /\ yields # 0
        \/ r.tag # "NotStarted" /\ m.type # "RequestYield"
    BY <1>2, <1>3
  <2>3. m.type = "CheckStatus" => m.branch # NoBranch
    BY <1>3
  <2>4. MailFits(t, yields)
    BY ONLY <1>3, <1>6, <2>1, <2>2, <2>3, MailAppends
  <2>5. Longer(Queue(r), m, Queue(t))
    BY ONLY <1>3, <1>6, <2>1, <2>2, <2>3, MailAppends
  <2>6. Queue(t) \in Seq(Messages)
    BY ONLY <1>3, <1>6, <2>1, <2>2, <2>3, MailAppends
  <2> QED BY <1>2, <2>4, <2>5, <2>6, QueueType
<1>9. ASSUME \A b \in Branches : SteadyBranch(br[b]), NEW x \in Activities PROVE Gone(br, x)
  <2>1. Of(x) \in Branches /\ Turn(x) \in 1..Len(Program[Of(x)]) /\ Len(Program[Of(x)]) \in Nat
    BY PlaceOf
  <2>2. br[Of(x)].at > Len(Program[Of(x)]) /\ br[Of(x)].at \in Nat
    BY <1>1, <1>2, <1>9, <2>1 DEF BranchDone, SteadyBranch, BranchType
  <2>3. br[Of(x)].at > Turn(x)
    BY <2>1, <2>2
  <2> QED BY <2>3 DEF Gone
<1>10. ASSUME Steady(t)
       PROVE  /\ \A b \in Branches : SteadyBranch(br[b])
              /\ IF t.tag = "Completed" THEN \A x \in Activities : Gone(br, x)
                 ELSE ProgressFits(br, J, t.next, t.got) /\ QueueFits(Queue(t), br, t.got, t.tag = "Replay")
  <2>1. Steady(r)
    BY <1>1, <1>6, <1>10 DEF Steady
  <2>2. \A b \in Branches : SteadyBranch(br[b])
    BY <1>7, <2>1 DEF BranchesFollow
  <2>3. \A x \in Activities : Gone(br, x)
    BY <1>9, <2>2
  <2>4. ASSUME r.tag # "Completed"
        PROVE  ProgressFits(br, J, r.next, r.got) /\ QueueFits(Queue(t), br, r.got, r.tag = "Replay")
    <3>1. ProgressFits(br, J, r.next, r.got) /\ QueueFits(Queue(r), br, r.got, r.tag = "Replay")
      BY <1>7, <2>1, <2>4 DEF BranchesFollow
    <3> HIDE DEF r, br, J
    <3>2. QueueFits(Queue(t), br, r.got, r.tag = "Replay")
      BY <1>3, <1>8, <2>3, <3>1, QueueAdds
    <3> QED BY <3>1, <3>2
  <2> QED BY <1>6, <2>2, <2>3, <2>4
<1>11. BranchesFollow(t, br, J)
  BY <1>2, <1>6, <1>10 DEF BranchesFollow
<1>12. AttemptDet(t, branch'[a], journal', yields)
  BY <1>1, <1>6, <1>7, <1>8, <1>11 DEF AttemptDet
<1> QED BY <1>1, <1>5, <1>6, <1>12, QuietStep DEF t

----------------------------------------------------------------------------
(* The life of an attempt.                                                 *)

LEMMA ReadyFits ==
  ASSUME NEW tag, NEW journals
  PROVE  \A b \in Branches : WriterFits(Ready[b], b, tag, journals) /\ SteadyBranch(Ready[b])
<1>1. ASSUME NEW b \in Branches PROVE WriterFits(Ready[b], b, tag, journals) /\ SteadyBranch(Ready[b])
  <2>1. Ready[b].at = 1 /\ Ready[b].pc = "idle" /\ ~Ready[b].cut /\ Ready[b].last = 0 /\ Ready[b].exit = NoValue
    BY DEF Ready
  <2>2. Program[b] \in Seq(Activities)
    BY ProgramAssumption
  <2>3. 1 \in 1..(Len(Program[b]) + 1)
    BY <2>2, LenProperties
  <2> QED BY <2>1, <2>3 DEF WriterFits, SteadyBranch, Writing
<1> QED BY <1>1

\* The fiber of the workflow begins, after the first event on record.
LEMMA FiberBegins ==
  ASSUME NEW J, J[1].type = "Attempted", NEW got, NEW q, NEW replaying,
         \A k \in 1..Len(q) : q[k].type \notin {"RequestFork", "RequestJoin", "RequestComplete"},
         replaying => \A k \in 1..Len(q) : q[k].type = "CheckStatus" => q[k].branch = NoBranch
  PROVE  ProgressFits(Ready, J, 1, got) /\ QueueFits(q, Ready, got, replaying)
<1>1. ASSUME NEW x \in Activities
      PROVE  /\ ~Gone(Ready, x) /\ ~Begun(Ready, x) /\ ~Known(Ready, x) /\ ~Asked(Ready, x)
             /\ ~OnRecord(J, 1, "Forked", x) /\ ~OnRecord(J, 1, "Joined", x)
  <2>1. Of(x) \in Branches /\ Turn(x) \in 1..Len(Program[Of(x)]) /\ Len(Program[Of(x)]) \in Nat
    BY PlaceOf
  <2>2. Ready[Of(x)].at = 1 /\ Ready[Of(x)].pc = "idle" /\ ~(1 > Turn(x))
    BY <2>1 DEF Ready
  <2>3. \A k \in 1..1 : k = 1
    OBVIOUS
  <2> QED BY <2>2, <2>3 DEF Gone, Begun, Known, Asked, AtPc, OnRecord
<1>2. ProgressFits(Ready, J, 1, got)
  BY <1>1 DEF ProgressFits
<1>3. \A b \in Branches : Ready[b].pc # "forking"
  BY DEF Ready
<1>4. ForksOrdered(q) /\ JoinsApart(q)
  BY DEF ForksOrdered, JoinsApart
<1> QED BY <1>2, <1>3, <1>4 DEF QueueFits

\* An attempt without a fiber.
LEMMA NoFiberDet ==
  ASSUME NEW t, NEW j, NEW n, t.fiber = "none", t.phase # "died", GotRight(t.got, j), MailFits(t, n)
  PROVE  AttemptDet(t, Ready, j, n)
<1>1. BranchesFollow(t, Ready, j[Workflow])
  BY DEF BranchesFollow, Steady
<1> QED BY <1>1, ReadyFits DEF AttemptDet

LEMMA FreshDet ==
  ASSUME NEW v, NEW j, NEW n, NEW phase, phase # "died"
  PROVE  LET t == [Fresh(v) EXCEPT !.phase = phase]
         IN  AttemptDet(t, Ready, j, n) /\ t.broken = "no"
<1> DEFINE t == [Fresh(v) EXCEPT !.phase = phase]
<1>1. /\ t.fiber = "none" /\ t.phase = phase /\ t.got = Nothing /\ t.tag = "NotStarted" /\ t.broken = "no"
      /\ t.delayed = <<>> /\ t.backlog = <<>> /\ t.mailbox = <<>>
  BY DEF Fresh
<1> HIDE DEF t
<1>2. GotRight(t.got, j)
  BY <1>1 DEF GotRight, Nothing
<1>3. Len(Queue(t)) = 0
  <2>1. Queue(t) = <<>> \o <<>>
    BY <1>1 DEF Queue, Front
  <2> QED BY <2>1
<1>4. MailFits(t, n)
  <2>1. \A k \in 1..0 : FALSE
    OBVIOUS
  <2>2. \A k \in 1..Len(Queue(t)) : FALSE
    BY ONLY <1>3, <2>1
  <2>3. \A k \in 1..Len(t.delayed) : FALSE
    BY <1>1
  <2> HIDE DEF t
  <2> QED BY ONLY <1>1, <2>2, <2>3 DEF MailFits
<1> QED BY <1>1, <1>2, <1>4, NoFiberDet DEF t

\* What has not begun, or has ended, has no fiber.
LEMMA NoFiber ==
  ASSUME IInv, DetInv, NEW a \in Attempts, attempt[a].phase \notin Live \cup {"died"}
  PROVE  branch[a] = Ready
BY Settled DEF BranchesFollow

LEMMA StartDet ==
  ASSUME Determined, IInv, IInv', DetInv, NEW a \in Attempts, NEW v, Start(a, v)
  PROVE  DetInv'
<1>1. /\ attempt[a].phase = "absent" /\ attempt' = [attempt EXCEPT ![a] = Fresh(v)] /\ branch' = branch
      /\ journal' = journal /\ yields' = yields
  BY DEF Start, Begin, IsNext, limits
<1>2. Only(a) /\ attempt'[a] = Fresh(v)
  BY <1>1, CoordinatorOnly
<1>3. branch'[a] = Ready
  BY <1>1, NoFiber DEF Live
<1>4. Fresh(v) = [Fresh(v) EXCEPT !.phase = "reading"]
  BY DEF Fresh
<1>5. AttemptDet(attempt'[a], branch'[a], journal', yields) /\ attempt'[a].broken = "no"
  BY <1>2, <1>3, <1>4, FreshDet
<1>6. DiesWell(attempt'[a], journal, yields')
  BY <1>5 DEF DiesWell
<1>7. yields' \in Nat /\ yields <= yields'
  BY <1>1, Settled
<1> QED BY <1>1, <1>2, <1>5, <1>6, <1>7, NothingAppended

LEMMA CrashDet ==
  ASSUME Determined, IInv, IInv', DetInv, Crash
  PROVE  DetInv'
<1>1. ASSUME NEW a \in Attempts
      PROVE  DiesWell(attempt'[a], journal', yields') /\ AttemptDet(attempt'[a], branch'[a], journal', yields')
  <2>1. branch'[a] = Ready /\ journal' = journal /\ yields' = yields
    BY <1>1 DEF Crash
  <2>2. CASE attempt[a].phase \in Live \cup {"died"}
    <3>1. attempt'[a] = Ended("crashed")
      BY <1>1, <2>2 DEF Crash
    <3>2. AttemptDet(attempt'[a], Ready, journal', yields') /\ attempt'[a].broken = "no"
      BY <3>1, FreshDet DEF Ended
    <3> QED BY <2>1, <3>2 DEF DiesWell
  <2>3. CASE attempt[a].phase \notin Live \cup {"died"}
    <3>1. attempt'[a] = attempt[a] /\ branch[a] = Ready
      BY <1>1, <2>3, NoFiber DEF Crash
    <3> QED BY <2>1, <3>1, Settled
  <2> QED BY <2>2, <2>3
<1>2. journal' = journal
  BY DEF Crash
<1>3. JoinedHaveResult'
  BY <1>2, DetIs DEF JoinedHaveResult
<1> QED BY <1>1, <1>2, <1>3, DetIs, DetNextIs

LEMMA FinishDet ==
  ASSUME Determined, IInv, IInv', DetInv, NEW a \in Attempts, Finish(a)
  PROVE  DetInv'
<1>1. PICK phase \in {"completed", "interrupted"} : attempt' = [attempt EXCEPT ![a] = Ended(phase)]
  BY DEF Finish
<1>2. branch' = [branch EXCEPT ![a] = Ready] /\ journal' = journal /\ yields' = yields
  BY DEF Finish, limits
<1>3. branch'[a] = Ready /\ \A c \in Attempts \ {a} : branch'[c] = branch[c]
  BY <1>2, Settled
<1>4. Only(a) /\ attempt'[a] = Ended(phase)
  BY <1>1, <1>3, CoordinatorOnly
<1>5. AttemptDet(attempt'[a], branch'[a], journal', yields) /\ attempt'[a].broken = "no"
  BY <1>3, <1>4, FreshDet DEF Ended
<1>6. DiesWell(attempt'[a], journal, yields')
  BY <1>5 DEF DiesWell
<1>7. yields' \in Nat /\ yields <= yields'
  BY <1>2, Settled
<1> QED BY <1>2, <1>4, <1>5, <1>6, <1>7, NothingAppended

LEMMA ReadDet ==
  ASSUME Determined, IInv, IInv', DetInv, NEW a \in Attempts, Read(a)
  PROVE  DetInv'
<1> DEFINE r == attempt[a]
           t == attempt'[a]
<1>1. /\ r.phase = "reading" /\ branch' = branch /\ journal' = journal /\ yields' = yields
      /\ attempt' = [attempt EXCEPT ![a].phase = "replay", ![a].events = journal[Workflow]]
  BY DEF Read, EventsOf, limits
<1>2. /\ r \in AttemptType /\ attempt \in [Attempts -> AttemptType] /\ CoordinatorFits(r, journal[Workflow])
      /\ GotRight(r.got, journal) /\ MailFits(r, yields) /\ BranchesFollow(r, branch[a], journal[Workflow])
  BY Settled
<1>3. r.tag = "NotStarted" /\ r.fiber = "none" /\ branch[a] = Ready
  BY <1>1, <1>2 DEF CoordinatorFits, Live, BranchesFollow
<1>4. attempt' = [attempt EXCEPT ![a] = [r EXCEPT !.phase = "replay", !.events = journal[Workflow]]]
  BY <1>1, <1>2 DEF AttemptType
<1>5. Only(a) /\ t = [r EXCEPT !.phase = "replay", !.events = journal[Workflow]]
  BY <1>1, <1>4, CoordinatorOnly
<1>6. /\ t.phase = "replay" /\ t.tag = r.tag /\ t.backlog = r.backlog /\ t.delayed = r.delayed
      /\ t.mailbox = r.mailbox /\ t.fiber = r.fiber /\ t.broken = r.broken /\ t.got = r.got
  BY <1>2, <1>5 DEF AttemptType
<1> HIDE DEF t
<1>7. Queue(t) = Queue(r)
  BY <1>6 DEF Queue, Front
<1>8. MailFits(t, yields)
  BY <1>1, <1>2, <1>6, <1>7 DEF MailFits
<1>9. AttemptDet(t, branch'[a], journal', yields)
  BY <1>1, <1>2, <1>3, <1>6, <1>8, NoFiberDet
<1> QED BY <1>1, <1>5, <1>6, <1>9, QuietStep DEF t

LEMMA YieldDet ==
  ASSUME Determined, IInv, IInv', DetInv, NEW a \in Attempts, Yield(a)
  PROVE  DetInv'
<1> DEFINE r == attempt[a]
           br == branch[a]
           J == journal[Workflow]
           m == RequestYield
           t == attempt'[a]
<1>1. /\ IsLive(a) /\ journal' = journal /\ branch' = branch /\ yields' = yields + 1
      /\ attempt' = Offered(a, m)
  BY DEF Yield, Mail
<1>2. m \in Messages /\ m.type = "RequestYield"
  BY DEF Messages, RequestYield
<1>3. /\ r \in AttemptType /\ br \in [Branches -> BranchType] /\ yields \in Nat
      /\ GotRight(r.got, journal) /\ MailFits(r, yields) /\ BranchesFollow(r, br, J)
      /\ \A d \in Branches : WriterFits(br[d], d, r.tag, journal)
      /\ attempt \in [Attempts -> AttemptType]
  BY Settled
<1>4. attempt' = [attempt EXCEPT ![a] = [r EXCEPT !.mailbox = Append(r.mailbox, m)]]
  BY <1>1, <1>3 DEF Offered, AttemptType
<1>5. Only(a) /\ t = [r EXCEPT !.mailbox = Append(r.mailbox, m)]
  BY <1>1, <1>4, CoordinatorOnly
<1> HIDE DEF m
<1>6. /\ t.mailbox = Append(r.mailbox, m) /\ t.tag = r.tag /\ t.phase = r.phase /\ t.backlog = r.backlog
      /\ t.delayed = r.delayed /\ t.got = r.got /\ t.next = r.next /\ t.fiber = r.fiber /\ t.broken = r.broken
  BY <1>3, <1>5 DEF AttemptType
<1> HIDE DEF t
<1>7. yields' \in Nat /\ yields <= yields' /\ yields' # 0
  BY <1>1, <1>3
<1>8. MailFits(t, yields') /\ Longer(Queue(r), m, Queue(t)) /\ Queue(t) \in Seq(Messages) /\ Queue(r) \in Seq(Messages)
  <2>1. r \in AttemptType /\ MailFits(r, yields) /\ (yields' = 0 => yields = 0)
    BY <1>3, <1>7
  <2>2. \/ m.type = "RequestYield" /\ yields' # 0
        \/ r.tag # "NotStarted" /\ m.type # "RequestYield"
    BY <1>2, <1>7
  <2>3. m.type = "CheckStatus" => m.branch # NoBranch
    BY <1>2
  <2>4. MailFits(t, yields')
    BY ONLY <1>2, <1>6, <2>1, <2>2, <2>3, MailAppends
  <2>5. Front(t) = Front(r)
    BY <1>6 DEF Front
  <2>6. Longer(Queue(r), m, Queue(t)) /\ Queue(t) \in Seq(Messages)
    BY ONLY <1>2, <1>3, <1>6, <2>5, LongerQueue
  <2> QED BY <1>3, <2>4, <2>6, QueueType
<1>9. ASSUME Steady(t)
      PROVE  /\ \A b \in Branches : SteadyBranch(br[b])
             /\ IF t.tag = "Completed" THEN \A x \in Activities : Gone(br, x)
                ELSE ProgressFits(br, J, t.next, t.got) /\ QueueFits(Queue(t), br, t.got, t.tag = "Replay")
  <2>1. Steady(r)
    BY <1>6, <1>9 DEF Steady
  <2>2. ASSUME r.tag # "Completed"
        PROVE  ProgressFits(br, J, r.next, r.got) /\ QueueFits(Queue(t), br, r.got, r.tag = "Replay")
    <3>1. ProgressFits(br, J, r.next, r.got) /\ QueueFits(Queue(r), br, r.got, r.tag = "Replay")
      BY <1>3, <2>1, <2>2 DEF BranchesFollow
    <3> HIDE DEF r, br, J
    <3>2. QueueFits(Queue(t), br, r.got, r.tag = "Replay")
      BY <1>2, <1>8, <3>1, QueueAdds
    <3> QED BY <3>1, <3>2
  <2> QED BY <1>3, <1>6, <2>1, <2>2 DEF BranchesFollow
<1>10. BranchesFollow(t, br, J)
  BY <1>3, <1>6, <1>9 DEF BranchesFollow
<1>11. AttemptDet(t, branch'[a], journal, yields')
  BY <1>1, <1>3, <1>6, <1>8, <1>10 DEF AttemptDet
<1> QED BY <1>1, <1>5, <1>6, <1>7, <1>11, NothingAppended DEF t

LEMMA EndReplayDet ==
  ASSUME Determined, IInv, IInv', DetInv, NEW a \in Attempts, EndReplay(a)
  PROVE  DetInv'
<1> DEFINE r == attempt[a]
           br == branch[a]
           J == journal[Workflow]
           m == CheckStatus(NoBranch)
           t == attempt'[a]
<1>1. /\ r.phase = "replay" /\ journal' = journal /\ branch' = branch /\ yields' = yields
      /\ attempt' = [attempt EXCEPT ![a].phase = "execute", ![a].mailbox = Append(@, m)]
  BY DEF EndReplay, limits
<1>2. m \in Messages /\ m.type = "CheckStatus" /\ m.branch = NoBranch
  BY DEF Messages, CheckStatus
<1>3. /\ r \in AttemptType /\ br \in [Branches -> BranchType] /\ yields \in Nat
      /\ GotRight(r.got, journal) /\ MailFits(r, yields) /\ BranchesFollow(r, br, J)
      /\ \A d \in Branches : WriterFits(br[d], d, r.tag, journal)
      /\ attempt \in [Attempts -> AttemptType]
  BY Settled
<1> HIDE DEF m
<1>4. attempt' = [attempt EXCEPT ![a] = [r EXCEPT !.phase = "execute", !.mailbox = Append(r.mailbox, m)]]
  BY <1>1, <1>3 DEF AttemptType
<1>5. Only(a) /\ t = [r EXCEPT !.phase = "execute", !.mailbox = Append(r.mailbox, m)]
  BY <1>1, <1>4, CoordinatorOnly
<1>6. /\ t.mailbox = Append(r.mailbox, m) /\ t.tag = r.tag /\ t.phase = "execute" /\ t.backlog = r.backlog
      /\ t.delayed = r.delayed /\ t.got = r.got /\ t.next = r.next /\ t.fiber = r.fiber /\ t.broken = r.broken
  BY <1>3, <1>5 DEF AttemptType
<1> HIDE DEF t
<1>7. Longer(Queue(r), m, Queue(t)) /\ Queue(t) \in Seq(Messages) /\ Queue(r) \in Seq(Messages)
  <2>1. Front(t) = Front(r)
    BY <1>6 DEF Front
  <2>2. Longer(Queue(r), m, Queue(t))
    BY ONLY <1>2, <1>3, <1>6, <2>1, LongerQueue
  <2>3. Queue(t) \in Seq(Messages)
    BY ONLY <1>2, <1>3, <1>6, <2>1, LongerQueue
  <2> QED BY <1>3, <2>2, <2>3, QueueType
<1>8. MailFits(t, yields)
  <2>1. \A k \in 1..Len(Queue(t)) : Queue(t)[k] = m \/ \E i \in 1..Len(Queue(r)) : Queue(t)[k] = Queue(r)[i]
    BY <1>7, LongerBy DEF LongerIs
  <2>2. t.tag = "NotStarted" => \A k \in 1..Len(Queue(t)) :
           /\ Queue(t)[k].type \notin {"RequestFork", "RequestJoin", "RequestComplete"}
           /\ Queue(t)[k].type = "CheckStatus" => Queue(t)[k].branch = NoBranch
    BY <1>2, <1>3, <1>6, <2>1 DEF MailFits
  <2>3. yields = 0 => \A k \in 1..Len(Queue(t)) : Queue(t)[k].type # "RequestYield"
    BY <1>2, <1>3, <2>1 DEF MailFits
  <2> HIDE DEF r
  <2> QED BY <1>3, <1>6, <2>2, <2>3 DEF MailFits
<1>9. ASSUME Steady(t)
      PROVE  /\ \A b \in Branches : SteadyBranch(br[b])
             /\ IF t.tag = "Completed" THEN \A x \in Activities : Gone(br, x)
                ELSE ProgressFits(br, J, t.next, t.got) /\ QueueFits(Queue(t), br, t.got, t.tag = "Replay")
  <2>1. Steady(r)
    BY <1>1, <1>6, <1>9 DEF Steady, Live
  <2>2. ASSUME r.tag # "Completed"
        PROVE  ProgressFits(br, J, r.next, r.got) /\ QueueFits(Queue(t), br, r.got, r.tag = "Replay")
    <3>1. ProgressFits(br, J, r.next, r.got) /\ QueueFits(Queue(r), br, r.got, r.tag = "Replay")
      BY <1>3, <2>1, <2>2 DEF BranchesFollow
    <3> HIDE DEF r, br, J
    <3>2. QueueFits(Queue(t), br, r.got, r.tag = "Replay")
      BY <1>2, <1>7, <3>1, QueueAdds
    <3> QED BY <3>1, <3>2
  <2> QED BY <1>3, <1>6, <2>1, <2>2 DEF BranchesFollow
<1>10. BranchesFollow(t, br, J)
  BY <1>1, <1>3, <1>6, <1>9 DEF BranchesFollow, Live
<1>11. AttemptDet(t, branch'[a], journal', yields)
  BY <1>1, <1>3, <1>6, <1>8, <1>10 DEF AttemptDet
<1> QED BY <1>1, <1>5, <1>6, <1>11, QuietStep DEF t

----------------------------------------------------------------------------
(* A message is taken out of the queue, or put aside.                      *)

LEMMA WithoutIs ==
  ASSUME NEW f \in Seq(Messages), NEW k \in 1..Len(f)
  PROVE  Without(f, k) \in Seq(Messages) /\ Shorter(f, k, Without(f, k))
<1> DEFINE n == Len(f)
           u == SubSeq(f, 1, k - 1)
           v == SubSeq(f, k + 1, n)
<1>1. n \in Nat /\ k \in 1..n /\ k \in Int /\ k - 1 \in Int /\ k + 1 \in Int /\ n \in Int
  <2>1. n \in Nat
    BY LenProperties
  <2> HIDE DEF n
  <2> QED BY <2>1 DEF n
<1>2. \A i \in 1..n : f[i] \in Messages
  BY ElementOfSeq
<1> HIDE DEF n
<1>3. u \in Seq(Messages) /\ Len(u) = k - 1 /\ \A i \in 1..(k - 1) : u[i] = f[i]
  <2>1. \A i \in 1..(k - 1) : f[i] \in Messages /\ 1 + i - 1 = i
    BY <1>1, <1>2
  <2>2. /\ u \in Seq(Messages) /\ Len(u) = IF 1 <= k - 1 THEN k - 1 - 1 + 1 ELSE 0
        /\ \A i \in 1..(k - 1 - 1 + 1) : u[i] = f[1 + i - 1]
    BY <1>1, <2>1, SubSeqProperties
  <2> HIDE DEF u
  <2>3. k - 1 - 1 + 1 = k - 1 /\ (IF 1 <= k - 1 THEN k - 1 - 1 + 1 ELSE 0) = k - 1
    BY <1>1
  <2> QED BY <2>1, <2>2, <2>3
<1>4. v \in Seq(Messages) /\ Len(v) = n - k /\ \A i \in 1..(n - k) : v[i] = f[k + i]
  <2>1. (\A i \in (k + 1)..n : f[i] \in Messages) /\ \A i \in 1..(n - k) : (k + 1) + i - 1 = k + i
    BY <1>1, <1>2
  <2>2. /\ v \in Seq(Messages) /\ Len(v) = IF k + 1 <= n THEN n - (k + 1) + 1 ELSE 0
        /\ \A i \in 1..(n - (k + 1) + 1) : v[i] = f[(k + 1) + i - 1]
    BY <1>1, <2>1, SubSeqProperties
  <2> HIDE DEF v
  <2>3. n - (k + 1) + 1 = n - k /\ (IF k + 1 <= n THEN n - (k + 1) + 1 ELSE 0) = n - k
    BY <1>1
  <2> QED BY <2>1, <2>2, <2>3
<1>5. Without(f, k) = u \o v
  BY DEF Without, n
<1> HIDE DEF u, v
<1>6. /\ u \o v \in Seq(Messages) /\ Len(u \o v) = Len(u) + Len(v)
      /\ \A i \in 1..Len(u \o v) : (u \o v)[i] = IF i <= Len(u) THEN u[i] ELSE v[i - Len(u)]
  BY ONLY <1>3, <1>4, ConcatIs
<1>7. Len(u \o v) = n - 1
  BY <1>1, <1>3, <1>4, <1>6
<1>8. ASSUME NEW i \in 1..(n - 1) PROVE (u \o v)[i] = f[IF i < k THEN i ELSE i + 1]
  <2>1. CASE i < k
    <3>1. i \in 1..(k - 1) /\ i <= Len(u) /\ i \in 1..Len(u \o v)
      BY <1>1, <1>3, <1>7, <2>1
    <3> QED BY <1>3, <1>6, <2>1, <3>1
  <2>2. CASE ~(i < k)
    <3>1. i - (k - 1) \in 1..(n - k) /\ ~(i <= Len(u)) /\ k + (i - (k - 1)) = i + 1 /\ i \in 1..Len(u \o v)
      BY <1>1, <1>3, <1>7, <1>8, <2>2, SMTT(40)
    <3> QED BY <1>3, <1>4, <1>6, <2>2, <3>1, SMTT(40)
  <2> QED BY <2>1, <2>2
<1> QED BY <1>1, <1>5, <1>6, <1>7, <1>8 DEF Shorter, n

LEMMA TailShorter ==
  ASSUME NEW f \in Seq(Messages), f # <<>>
  PROVE  Tail(f) \in Seq(Messages) /\ Shorter(f, 1, Tail(f)) /\ Head(f) \in Messages /\ Head(f) = f[1]
<1>1. /\ Tail(f) \in Seq(Messages) /\ Len(Tail(f)) = Len(f) - 1 /\ Head(f) \in Messages
      /\ \A i \in 1..Len(Tail(f)) : Tail(f)[i] = f[i + 1]
  BY HeadTailProperties
<1>2. Len(f) \in Nat /\ Len(f) # 0
  BY LenProperties, EmptySeq
<1>3. 1 \in 1..Len(f) /\ \A i \in 1..Len(Tail(f)) : ~(i < 1)
  BY <1>2
<1> QED BY <1>1, <1>3 DEF Shorter

\* A message taken out of one part is taken out of the whole.
LEMMA ShorterFront ==
  ASSUME NEW f \in Seq(Messages), NEW g \in Seq(Messages), NEW s \in Seq(Messages), NEW k, Shorter(f, k, g)
  PROVE  Shorter(f \o s, k, g \o s) /\ (f \o s)[k] = f[k]
<1> DEFINE n == Len(f)
           m == Len(s)
           q == f \o s
           p == g \o s
<1>1. n \in Nat /\ m \in Nat /\ k \in 1..n /\ Len(g) = n - 1 /\ \A i \in 1..Len(g) : g[i] = f[IF i < k THEN i ELSE i + 1]
  BY LenProperties DEF Shorter
<1>2. Len(q) = n + m /\ \A i \in 1..Len(q) : q[i] = IF i <= n THEN f[i] ELSE s[i - n]
  BY ConcatIs
<1>3. Len(p) = Len(g) + m /\ \A i \in 1..Len(p) : p[i] = IF i <= Len(g) THEN g[i] ELSE s[i - Len(g)]
  BY ConcatIs
<1> HIDE DEF n, m, q, p
<1>4. k \in 1..Len(q) /\ Len(p) = Len(q) - 1 /\ k <= n
  BY <1>1, <1>2, <1>3
<1>5. ASSUME NEW i \in 1..Len(p) PROVE p[i] = q[IF i < k THEN i ELSE i + 1]
  <2>1. CASE i < k
    <3>1. i <= Len(g) /\ i \in 1..Len(g) /\ i <= n /\ i \in 1..Len(q)
      BY <1>1, <1>4, <1>5, <2>1
    <3>2. p[i] = g[i] /\ q[i] = f[i] /\ g[i] = f[i]
      BY <1>1, <1>2, <1>3, <2>1, <3>1
    <3> QED BY <2>1, <3>2
  <2>2. CASE ~(i < k) /\ i <= Len(g)
    <3>1. i \in 1..Len(g) /\ i + 1 <= n /\ i + 1 \in 1..Len(q)
      BY <1>1, <1>4, <1>5, <2>2
    <3>2. p[i] = g[i] /\ q[i + 1] = f[i + 1] /\ g[i] = f[i + 1]
      BY <1>1, <1>2, <1>3, <2>2, <3>1
    <3> QED BY <2>2, <3>2
  <2>3. CASE ~(i < k) /\ ~(i <= Len(g))
    <3>1. ~(i + 1 <= n) /\ i + 1 \in 1..Len(q) /\ i - Len(g) = (i + 1) - n
      BY <1>1, <1>4, <1>5, <2>3
    <3>2. p[i] = s[i - Len(g)] /\ q[i + 1] = s[(i + 1) - n]
      BY <1>2, <1>3, <2>3, <3>1
    <3> QED BY <2>3, <3>1, <3>2
  <2> QED BY <2>1, <2>2, <2>3
<1>6. q[k] = f[k]
  BY <1>2, <1>4
<1> QED BY <1>4, <1>5, <1>6 DEF Shorter, p, q

LEMMA ShorterBack ==
  ASSUME NEW f \in Seq(Messages), NEW g \in Seq(Messages), NEW s \in Seq(Messages), Shorter(s, 1, g)
  PROVE  Shorter(f \o s, Len(f) + 1, f \o g) /\ (f \o s)[Len(f) + 1] = s[1]
<1> DEFINE n == Len(f)
           m == Len(s)
           q == f \o s
           p == f \o g
           k == n + 1
<1>1. n \in Nat /\ m \in Nat /\ 1 \in 1..m /\ Len(g) = m - 1 /\ \A i \in 1..Len(g) : g[i] = s[i + 1]
  <2>1. n \in Nat /\ m \in Nat /\ 1 \in 1..m /\ Len(g) = m - 1 /\ \A i \in 1..Len(g) : g[i] = s[IF i < 1 THEN i ELSE i + 1]
    BY LenProperties DEF Shorter
  <2>2. \A i \in 1..Len(g) : ~(i < 1)
    OBVIOUS
  <2> QED BY <2>1, <2>2
<1>2. Len(q) = n + m /\ \A i \in 1..Len(q) : q[i] = IF i <= n THEN f[i] ELSE s[i - n]
  BY ConcatIs
<1>3. Len(p) = n + Len(g) /\ \A i \in 1..Len(p) : p[i] = IF i <= n THEN f[i] ELSE g[i - n]
  BY ConcatIs
<1> HIDE DEF n, m, q, p
<1>4. k \in 1..Len(q) /\ Len(p) = Len(q) - 1 /\ ~(k <= n) /\ k - n = 1
  BY <1>1, <1>2, <1>3
<1>5. ASSUME NEW i \in 1..Len(p) PROVE p[i] = q[IF i < k THEN i ELSE i + 1]
  <2>1. CASE i < k
    <3>1. i <= n /\ i \in 1..Len(q)
      BY <1>1, <1>4, <1>5, <2>1
    <3> QED BY <1>2, <1>3, <2>1, <3>1
  <2>2. CASE ~(i < k)
    <3>1. ~(i <= n) /\ ~(i + 1 <= n) /\ i + 1 \in 1..Len(q) /\ i - n \in 1..Len(g) /\ (i + 1) - n = (i - n) + 1
      BY <1>1, <1>2, <1>3, <1>4, <1>5, <2>2
    <3>2. p[i] = g[i - n] /\ q[i + 1] = s[(i + 1) - n] /\ g[i - n] = s[(i - n) + 1]
      BY <1>1, <1>2, <1>3, <3>1
    <3> QED BY <2>2, <3>1, <3>2
  <2> QED BY <2>1, <2>2
<1>6. q[k] = s[1]
  BY <1>2, <1>4
<1> QED BY <1>4, <1>5, <1>6 DEF Shorter, p, q, n

\* A message that is put aside keeps its place.
LEMMA MovedOver ==
  ASSUME NEW f \in Seq(Messages), NEW s \in Seq(Messages), s # <<>>
  PROVE  /\ Append(f, Head(s)) \o Tail(s) = f \o s
         /\ f \o <<Head(s)>> \in Seq(Messages) /\ (f \o <<Head(s)>>) \o Tail(s) = f \o s
<1>1. Head(s) \in Messages /\ Tail(s) \in Seq(Messages) /\ s = <<Head(s)>> \o Tail(s)
  <2>1. Head(s) \in Messages /\ Tail(s) \in Seq(Messages)
    BY HeadTailProperties
  <2>2. s = <<Head(s)>> \o Tail(s)
    BY HeadTailProperties, EmptySeq, SMT
  <2> QED BY <2>1, <2>2
<1> DEFINE h == <<Head(s)>>
<1>2. h \in Seq(Messages)
  BY <1>1
<1>3. Append(f, Head(s)) = f \o h
  BY <1>1, AppendIsConcat
<1> HIDE DEF h
<1> DEFINE t == Tail(s)
<1>4. (f \o h) \o Tail(s) = f \o (h \o Tail(s)) /\ f \o h \in Seq(Messages)
  <2>1. t \in Seq(Messages)
    BY <1>1
  <2> HIDE DEF t
  <2>2. (f \o h) \o t = f \o (h \o t)
    BY <1>2, <2>1, ConcatAssociative, SMTT(40)
  <2>3. f \o h \in Seq(Messages)
    BY <1>2, ConcatProperties
  <2> QED BY <2>2, <2>3 DEF t
<1>5. h \o Tail(s) = s
  BY <1>1 DEF h
<1> QED BY <1>3, <1>4, <1>5 DEF h

----------------------------------------------------------------------------
(* Replay.                                                                 *)

LEMMA NextEvent ==
  ASSUME IInv, OrderInv, DetInv, NEW a \in Attempts, attempt[a].phase = "replay", attempt[a].events # <<>>,
         attempt[a].tag # "NotStarted"
  PROVE  LET r == attempt[a]
             J == journal[Workflow]
         IN  /\ r.tag = "Replay" /\ Expected(a) /\ IsLive(a) /\ r.next \in Nat /\ r.next + 1 \in 1..Len(J)
             /\ Head(r.events) = J[r.next + 1] /\ Head(r.events) \in Events /\ Head(r.events).sequence = r.next
             /\ r.backlog = <<>> /\ Len(J) \in Nat
<1> DEFINE r == attempt[a]
           J == journal[Workflow]
           l == Len(r.events)
           j == Len(J)
           s == r.events
<1>1. Expected(a)
  BY EventIsExpected
<1>2. /\ r \in AttemptType /\ J \in Seq(Events) /\ CoordinatorFits(r, J) /\ MailFits(r, yields)
  BY Settled
<1>3. r.tag = "Replay" /\ Head(s).sequence = r.next
  BY <1>1 DEF Expected
<1>4. l <= j /\ r.next = j - l /\ \A k \in 1..l : s[k] = J[j - l + k]
  BY <1>2, <1>3 DEF CoordinatorFits, Live
<1>5. s \in Seq(Events) /\ s # <<>> /\ l \in Nat /\ j \in Nat /\ r.next \in Nat
  BY <1>2, LenProperties DEF AttemptType
<1>6. l # 0 /\ Head(s) = s[1] /\ Head(s) \in Events
  BY <1>5, EmptySeq, HeadTailProperties
<1>7. IsLive(a)
  BY DEF IsLive, Live
<1>8. r.backlog = <<>>
  BY <1>2, <1>3 DEF MailFits
<1> HIDE DEF l, j, s, r, J
<1>9. 1 \in 1..l /\ j - l + 1 = r.next + 1 /\ r.next + 1 \in 1..j
  BY <1>4, <1>5, <1>6
<1>10. s[1] = J[r.next + 1]
  BY <1>4, <1>9
<1> QED BY <1>1, <1>3, <1>5, <1>6, <1>7, <1>8, <1>9, <1>10 DEF l, j, s, r, J

\* What r has once the event at its head is replayed.
LEMMA PastIs ==
  ASSUME NEW r \in AttemptType
  PROVE  LET p == Past(r)
         IN  /\ p.phase = r.phase /\ p.tag = r.tag /\ p.delayed = r.delayed /\ p.backlog = r.backlog
             /\ p.mailbox = r.mailbox /\ p.fiber = r.fiber /\ p.got = r.got /\ p.broken = r.broken
             /\ p.next = Head(r.events).sequence + 1 /\ DOMAIN p = DOMAIN r
BY DEF Past, AttemptType

\* The coordinator dies, for a good reason.
LEMMA DieDet ==
  ASSUME IInv, DetInv, NEW a \in Attempts, NEW why, Die(a, why), why # "no",
         yields > 0, IsCompleted(journal[Workflow]), journal' = journal, yields' = yields
  PROVE  DetInv'
<1> DEFINE r == attempt[a]
           t == [r EXCEPT !.phase = "died", !.broken = why]
<1>1. /\ r \in AttemptType /\ attempt \in [Attempts -> AttemptType]
      /\ GotRight(r.got, journal) /\ MailFits(r, yields) /\ BranchesFollow(r, branch[a], journal[Workflow])
      /\ (\A b \in Branches : WriterFits(branch[a][b], b, r.tag, journal)) /\ yields \in Nat
  BY Settled
<1>2. attempt' = [attempt EXCEPT ![a] = t] /\ branch' = branch
  BY <1>1 DEF Die, AttemptType
<1>3. Only(a) /\ attempt'[a] = t
  BY <1>2, CoordinatorOnly
<1>4. /\ t.phase = "died" /\ t.broken = why /\ t.tag = r.tag /\ t.delayed = r.delayed /\ t.backlog = r.backlog
      /\ t.mailbox = r.mailbox /\ t.fiber = r.fiber /\ t.got = r.got
  BY <1>1 DEF AttemptType
<1> HIDE DEF t, r
<1>5. Queue(t) = Queue(r)
  BY <1>4 DEF Queue, Front
<1>6. MailFits(t, yields)
  BY <1>1, <1>4, <1>5 DEF MailFits
<1>7. BranchesFollow(t, branch[a], journal[Workflow])
  BY <1>1, <1>4 DEF BranchesFollow, Steady, Live
<1>8. AttemptDet(t, branch'[a], journal, yields')
  BY <1>1, <1>2, <1>4, <1>6, <1>7 DEF AttemptDet
<1>9. DiesWell(t, journal, yields')
  BY DEF DiesWell
<1>10. yields' \in Nat /\ yields <= yields'
  BY <1>1
<1> QED BY <1>3, <1>8, <1>9, <1>10, NothingAppended

\* A step of the replay that leaves the fiber of the workflow steady.
LEMMA ReplayStep ==
  ASSUME Determined, IInv, DetInv, NEW a \in Attempts, attempt[a].phase = "replay", attempt[a].tag = "Replay",
         NEW t, attempt' = [attempt EXCEPT ![a] = t], journal' = journal, yields' = yields,
         \A c \in Attempts \ {a} : branch'[c] = branch[c],
         t.phase = "replay", t.tag = "Replay", t.got = attempt[a].got, t.fiber = attempt[a].fiber,
         t.broken = attempt[a].broken, t.backlog = attempt[a].backlog,
         \A b \in Branches : WriterFits(branch'[a][b], b, "Replay", journal) /\ SteadyBranch(branch'[a][b]),
         ProgressFits(branch'[a], journal[Workflow], t.next, t.got),
         QueueFits(Queue(t), branch'[a], t.got, TRUE),
         \A k \in 1..Len(Queue(t)) : \E j \in 1..Len(Queue(attempt[a])) : Queue(t)[k] = Queue(attempt[a])[j],
         \A k \in 1..Len(t.delayed) : t.delayed[k].type # "RequestComplete"
  PROVE  DetInv'
<1> DEFINE r == attempt[a]
<1>1. GotRight(r.got, journal) /\ MailFits(r, yields)
  BY Settled
<1>2. IsLive(a)
  BY DEF IsLive, Live
<1>3. r.fiber # "none"
  BY <1>2, SteadyIs
<1>4. Only(a) /\ attempt'[a] = t
  BY CoordinatorOnly
<1>5. MailFits(t, yields)
  <2>1. \A k \in 1..Len(Queue(t)) : Queue(t)[k].type = "CheckStatus" => Queue(t)[k].branch # NoBranch
    BY <1>1 DEF MailFits
  <2>2. yields = 0 => \A k \in 1..Len(Queue(t)) : Queue(t)[k].type # "RequestYield"
    BY <1>1 DEF MailFits
  <2>3. t.backlog = <<>>
    BY <1>1 DEF MailFits
  <2> QED BY <2>1, <2>2, <2>3 DEF MailFits
<1>6. BranchesFollow(t, branch'[a], journal[Workflow])
  BY <1>3 DEF BranchesFollow, Live
<1>7. AttemptDet(t, branch'[a], journal, yields)
  BY <1>1, <1>5, <1>6 DEF AttemptDet
<1> QED BY <1>4, <1>7, QuietStep

LEMMA ReplayFirstDet ==
  ASSUME Determined, IInv, IInv', OrderInv, DetInv, NEW a \in Attempts, ReplayFirstAttempted(a)
  PROVE  DetInv'
<1> DEFINE r == attempt[a]
           J == journal[Workflow]
           t == [Past(r) EXCEPT !.tag = "Replay", !.version = Head(r.events).version, !.fiber = "running"]
<1>1. /\ r.phase = "replay" /\ r.events # <<>> /\ Head(r.events).type = "Attempted" /\ r.tag = "NotStarted"
      /\ attempt' = [attempt EXCEPT ![a] = t] /\ branch' = branch /\ journal' = journal /\ yields' = yields
  BY DEF ReplayFirstAttempted, Replaying, limits
<1>2. /\ r \in AttemptType /\ J \in Seq(Events) /\ CoordinatorFits(r, J) /\ InOrder(J)
      /\ GotRight(r.got, journal) /\ MailFits(r, yields) /\ BranchesFollow(r, branch[a], J)
  BY Settled DEF IInv, WorkflowInOrder
<1>3. branch[a] = Ready
  BY <1>1, <1>2 DEF BranchesFollow
<1>4. /\ t.phase = "replay" /\ t.tag = "Replay" /\ t.delayed = r.delayed /\ t.backlog = r.backlog
      /\ t.mailbox = r.mailbox /\ t.fiber = "running" /\ t.got = r.got /\ t.broken = r.broken
      /\ t.next = Head(r.events).sequence + 1
  <2>1. Past(r) = [r EXCEPT !.events = Tail(@), !.next = Head(r.events).sequence + 1]
    BY DEF Past
  <2> QED BY <1>1, <1>2, <2>1 DEF AttemptType
<1>5. Only(a) /\ attempt'[a] = t
  BY <1>1, CoordinatorOnly
<1>6. Head(r.events) = J[1] /\ Head(r.events).sequence = 0
  <2>1. Len(J) - Len(r.events) = 0
    <3>1. Len(r.events) = Len(J)
      BY <1>1, <1>2 DEF CoordinatorFits, Live
    <3>2. Len(J) \in Nat
      BY <1>2, LenProperties
    <3> QED BY <3>1, <3>2
  <2>2. Head(r.events) = J[(Len(J) - Len(r.events)) + 1] /\ J # <<>>
    BY <1>1, <1>2, PastFits
  <2>3. Head(r.events) = J[1]
    <3> DEFINE n == Len(J) - Len(r.events)
    <3>1. n = 0 /\ Head(r.events) = J[n + 1]
      BY <2>1, <2>2
    <3> HIDE DEF n
    <3>2. n + 1 = 1
      BY <3>1
    <3> QED BY <3>1, <3>2
  <2>4. 1 \in DOMAIN J
    BY <1>2, <2>2, EmptySeq, LenProperties
  <2> QED BY <1>2, <2>3, <2>4 DEF InOrder
<1>7. t.next = 1
  BY <1>4, <1>6, SMTT(40)
<1> HIDE DEF t
<1>8. Queue(t) = Queue(r)
  BY <1>1, <1>2, <1>4 DEF Queue, Front, MailFits
<1>9. MailFits(t, yields)
  BY <1>1, <1>2, <1>4, <1>8 DEF MailFits
<1>10. ProgressFits(Ready, J, 1, t.got) /\ QueueFits(Queue(t), Ready, t.got, TRUE)
  <2>1. \A k \in 1..Len(Queue(t)) : Queue(t)[k].type \notin {"RequestFork", "RequestJoin", "RequestComplete"}
    BY <1>1, <1>2, <1>8 DEF MailFits
  <2>2. \A k \in 1..Len(Queue(t)) : Queue(t)[k].type = "CheckStatus" => Queue(t)[k].branch = NoBranch
    BY <1>1, <1>2, <1>8 DEF MailFits
  <2>3. J[1].type = "Attempted"
    BY <1>1, <1>6
  <2> HIDE DEF J
  <2> QED BY <2>1, <2>2, <2>3, FiberBegins
<1>11. BranchesFollow(t, Ready, J)
  BY <1>4, <1>7, <1>10, ReadyFits DEF BranchesFollow, Live
<1>12. AttemptDet(t, branch'[a], journal, yields)
  BY <1>1, <1>2, <1>3, <1>4, <1>9, <1>11, ReadyFits DEF AttemptDet
<1> QED BY <1>1, <1>4, <1>5, <1>12, QuietStep

LEMMA ReplayAttemptedDet ==
  ASSUME Determined, IInv, IInv', OrderInv, DetInv, NEW a \in Attempts, ReplayAttempted(a)
  PROVE  DetInv'
<1> DEFINE r == attempt[a]
           J == journal[Workflow]
           t == Past(r)
<1>1. /\ r.phase = "replay" /\ r.events # <<>> /\ Head(r.events).type = "Attempted" /\ r.tag # "NotStarted"
      /\ journal' = journal /\ yields' = yields
  BY DEF ReplayAttempted, Replaying, limits
<1>2. /\ r.tag = "Replay" /\ Expected(a) /\ IsLive(a) /\ r.next \in Nat /\ r.next + 1 \in 1..Len(J)
      /\ Head(r.events) = J[r.next + 1] /\ Head(r.events).sequence = r.next
  BY <1>1, NextEvent
<1>3. attempt' = [attempt EXCEPT ![a] = t] /\ branch' = branch
  BY <1>2 DEF ReplayAttempted
<1>4. /\ r \in AttemptType /\ MailFits(r, yields)
      /\ \A b \in Branches : WriterFits(branch[a][b], b, r.tag, journal)
  BY Settled
<1>5. /\ \A b \in Branches : SteadyBranch(branch[a][b])
      /\ ProgressFits(branch[a], J, r.next, r.got) /\ QueueFits(Queue(r), branch[a], r.got, TRUE)
  BY <1>2, SteadyIs
<1>6. /\ t.phase = "replay" /\ t.tag = "Replay" /\ t.delayed = r.delayed /\ t.backlog = r.backlog
      /\ t.mailbox = r.mailbox /\ t.fiber = r.fiber /\ t.got = r.got /\ t.broken = r.broken
      /\ t.next = r.next + 1
  BY <1>1, <1>2, <1>4, PastIs
<1> HIDE DEF t
<1>7. Queue(t) = Queue(r)
  BY <1>2, <1>6 DEF Queue, Front
<1>8. ProgressFits(branch[a], J, t.next, r.got)
  <2>1. ASSUME NEW y \in Activities
        PROVE  /\ OnRecord(J, t.next, "Forked", y) <=> OnRecord(J, r.next, "Forked", y)
               /\ OnRecord(J, t.next, "Joined", y) <=> OnRecord(J, r.next, "Joined", y)
    <3>1. \A k \in 1..r.next : J[k] = J[k]
      OBVIOUS
    <3>2. OnRecord(J, r.next + 1, "Forked", y) <=> OnRecord(J, r.next, "Forked", y) \/ (J[r.next + 1].type = "Forked" /\ J[r.next + 1].id = y)
      BY <1>2, OneMore
    <3>3. OnRecord(J, r.next + 1, "Joined", y) <=> OnRecord(J, r.next, "Joined", y) \/ (J[r.next + 1].type = "Joined" /\ J[r.next + 1].id = y)
      BY <1>2, OneMore
    <3> QED BY <1>1, <1>2, <1>6, <3>2, <3>3
  <2> HIDE DEF J, r
  <2>2. \A y \in Activities : Known(branch[a], y) => Known(branch[a], y) \/ r.got[y] # NoValue
    OBVIOUS
  <2> QED BY <1>5, <2>1, <2>2, ProgressKeeps
<1>9. \A k \in 1..Len(t.delayed) : t.delayed[k].type # "RequestComplete"
  BY <1>1, <1>4, <1>6 DEF MailFits
<1> QED BY <1>1, <1>2, <1>3, <1>4, <1>5, <1>6, <1>7, <1>8, <1>9, ReplayStep

\* The exit comes after all joins, and then nothing was put aside but a request to yield.
LEMMA ReplayCompletedDet ==
  ASSUME Determined, IInv, IInv', OrderInv, DetInv, NEW a \in Attempts, ReplayCompleted(a)
  PROVE  DetInv'
<1> DEFINE r == attempt[a]
           br == branch[a]
           J == journal[Workflow]
           n == r.next
           t == [Past(r) EXCEPT !.tag = "Completed"]
<1>1. /\ r.phase = "replay" /\ r.events # <<>> /\ Head(r.events).type = "Completed"
      /\ journal' = journal /\ yields' = yields
  BY DEF ReplayCompleted, Replaying, limits
<1>2. /\ r \in AttemptType /\ br \in [Branches -> BranchType] /\ J \in Seq(Events) /\ HistoryFits(J)
      /\ GotRight(r.got, journal) /\ MailFits(r, yields) /\ yields \in Nat
      /\ \A b \in Branches : WriterFits(br[b], b, r.tag, journal)
  BY Settled
<1>3. r.tag # "NotStarted"
  BY <1>1, EventIsExpected
<1>4. /\ r.tag = "Replay" /\ Expected(a) /\ IsLive(a) /\ n \in Nat /\ n + 1 \in 1..Len(J)
      /\ Head(r.events) = J[n + 1] /\ Head(r.events).sequence = n /\ r.backlog = <<>>
  BY <1>1, <1>3, NextEvent
<1>5. /\ r.fiber # "none" /\ \A b \in Branches : SteadyBranch(br[b])
      /\ ProgressFits(br, J, n, r.got) /\ QueueFits(Queue(r), br, r.got, TRUE)
  BY <1>4, SteadyIs
<1>6. IsCompleted(J)
  BY <1>1, <1>2, <1>4, LenProperties DEF IsCompleted
<1>7. \A x \in Activities : Gone(br, x)
  <2>1. \A x \in Activities : OnRecord(J, (n + 1) - 1, "Joined", x)
    BY <1>1, <1>2, <1>4 DEF HistoryFits, ExitLast
  <2>2. (n + 1) - 1 = n
    BY <1>4
  <2> QED BY <1>5, <2>1, <2>2 DEF ProgressFits
<1>8. CASE r.delayed # <<>>
  <2>1. Die(a, "determinism")
    BY <1>1, <1>4, <1>8 DEF ReplayCompleted
  <2>2. yields # 0
    <3>1. SUFFICES ASSUME yields = 0 PROVE FALSE
      OBVIOUS
    <3> DEFINE m == r.delayed[1]
    <3>2. r.delayed \in Seq(Messages) /\ r.mailbox \in Seq(Messages)
      BY <1>2, QueueType
    <3>3. 1 \in 1..Len(r.delayed) /\ Len(r.delayed) \in Nat /\ m \in Messages
      BY <1>8, <3>2, EmptySeq, LenProperties, ElementOfSeq
    <3>4. 1 \in 1..Len(Queue(r)) /\ Queue(r)[1] = m
      <4>1. Queue(r) = r.delayed \o r.mailbox
        BY <1>4 DEF Queue, Front
      <4>2. Len(r.mailbox) \in Nat
        BY <3>2, LenProperties
      <4> DEFINE f == r.delayed
                 s == r.mailbox
      <4>3. f \in Seq(Messages) /\ s \in Seq(Messages) /\ 1 \in 1..Len(f) /\ Len(f) \in Nat /\ Len(s) \in Nat
        BY <3>2, <3>3, <4>2
      <4> HIDE DEF f, s
      <4>4. /\ Len(f \o s) = Len(f) + Len(s)
            /\ \A k \in 1..Len(f \o s) : (f \o s)[k] = IF k <= Len(f) THEN f[k] ELSE s[k - Len(f)]
        BY ONLY <4>3, ConcatIs
      <4>5. 1 \in 1..Len(f \o s) /\ 1 <= Len(f)
        BY ONLY <4>3, <4>4
      <4>6. (f \o s)[1] = f[1]
        BY ONLY <4>4, <4>5
      <4> QED BY <4>1, <4>5, <4>6 DEF f, s, m
    <3> HIDE DEF m
    <3>5. m.type \notin {"RequestFork", "RequestJoin"}
      <4>1. ASSUME NEW pc \in {"forking", "joining"}, m.type \in {"RequestFork", "RequestJoin"}, Awaited(br, m, pc) PROVE FALSE
        <5>1. m.id \in Activities /\ ~Gone(br, m.id)
          BY <1>2, <3>3, <4>1, AwaitedIs
        <5> QED BY <1>7, <5>1
      <4> QED BY <1>5, <3>4, <4>1 DEF QueueFits
    <3>6. m.type # "RequestYield" /\ m.type # "RequestComplete"
      BY <1>1, <1>2, <3>1, <3>3, <3>4 DEF MailFits, m
    <3>7. m.type = "CheckStatus"
      BY <3>3, <3>5, <3>6 DEF Messages, RequestYield
    <3>8. m.branch \in Branches /\ br[m.branch].pc = "asking"
      <4>1. m.branch # NoBranch
        BY <1>1, <1>2, <3>4, <3>7 DEF MailFits
      <4> QED BY <1>5, <3>3, <3>4, <3>7, <4>1, MessageFields DEF QueueFits
    <3>9. br[m.branch].at \in 1..Len(Program[m.branch])
      BY <1>2, <3>8 DEF WriterFits
    <3> QED BY <1>2, <1>7, <3>8, <3>9, NotGone
  <2>3. yields > 0
    BY <1>2, <2>2
  <2> QED BY <1>1, <1>6, <2>1, <2>3, DieDet
<1>9. CASE r.delayed = <<>>
  <2>1. attempt' = [attempt EXCEPT ![a] = t] /\ branch' = branch
    BY <1>4, <1>9 DEF ReplayCompleted
  <2>2. Only(a) /\ attempt'[a] = t
    BY <2>1, CoordinatorOnly
  <2>3. /\ t.phase = "replay" /\ t.tag = "Completed" /\ t.delayed = r.delayed /\ t.backlog = r.backlog
        /\ t.mailbox = r.mailbox /\ t.fiber = r.fiber /\ t.got = r.got /\ t.broken = r.broken
    <3>1. Past(r) = [r EXCEPT !.events = Tail(@), !.next = Head(r.events).sequence + 1]
      BY DEF Past
    <3> QED BY <1>1, <1>2, <3>1 DEF AttemptType
  <2> HIDE DEF t
  <2>4. Queue(t) = Queue(r)
    BY <1>4, <1>9, <2>3 DEF Queue, Front
  <2>5. MailFits(t, yields)
    BY <1>1, <1>2, <1>4, <1>9, <2>3, <2>4 DEF MailFits
  <2>6. BranchesFollow(t, br, J)
    BY <1>5, <1>7, <2>3, SMTT(40) DEF BranchesFollow, Live
  <2>7. \A b \in Branches : WriterFits(br[b], b, t.tag, journal)
    BY <1>2, <1>4, <2>3 DEF WriterFits
  <2>8. AttemptDet(t, branch'[a], journal, yields)
    BY <1>2, <2>1, <2>3, <2>5, <2>6, <2>7 DEF AttemptDet
  <2> QED BY <1>1, <2>2, <2>3, <2>8, QuietStep
<1> QED BY <1>8, <1>9

LEMMA WithinOneMore ==
  ASSUME NEW n \in Nat, NEW k \in 1..n
  PROVE  k \in 1..(n + 1) /\ k + 1 \in 1..(n + 1)
BY SMT

\* The branch that waits for message m, which nothing disturbed, goes on.
Granted(br, cr, m) ==
  LET b == m.branch
      i == br[b].at
  IN  /\ b \in Branches /\ i \in 1..Len(Program[b]) /\ Program[b][i] = m.id
      /\ OnlyMoves(br, cr, b)
      /\ \/ m.type = "RequestFork" /\ br[b].pc = "forking" /\ cr[b].at = i /\ cr[b].pc = "forked"
         \/ m.type = "RequestJoin" /\ br[b].pc = "joining" /\ cr[b].at = i + 1 /\ cr[b].pc = "idle"
      /\ \A d \in Branches : SteadyBranch(cr[d])

LEMMA AllowIs ==
  ASSUME Determined, IInv, IInv', NEW a \in Attempts, NEW m \in Messages, NEW pc,
         (m.type = "RequestFork" /\ pc = "forking") \/ (m.type = "RequestJoin" /\ pc = "joining"),
         Awaited(branch[a], m, pc), \A d \in Branches : SteadyBranch(branch[a][d]), Allow(a, m)
  PROVE  /\ Granted(branch[a], branch'[a], m) /\ \A c \in Attempts \ {a} : branch'[c] = branch[c]
         /\ \A tag, j : \A d \in Branches : WriterFits(branch[a][d], d, tag, j) => WriterFits(branch'[a][d], d, tag, j)
<1> DEFINE b == m.branch
           i == branch[a][b].at
           me == branch[a][b]
           me2 == IF m.type = "RequestFork" THEN [me EXCEPT !.pc = "forked"]
                  ELSE [me EXCEPT !.pc = "idle", !.at = me.at + 1]
<1>1. /\ branch \in [Attempts -> [Branches -> BranchType]] /\ branch' \in [Attempts -> [Branches -> BranchType]]
  BY DEF IInv, TypeOK
<1>2. b \in Branches /\ me \in BranchType
  BY <1>1, MessageFields
<1>3. me.pc = pc /\ i \in 1..Len(Program[b]) /\ Program[b][i] = m.id
  BY DEF Awaited
<1>4. ~me.cut /\ me.last = 0 /\ me.exit = NoValue
  BY <1>2, <1>3 DEF SteadyBranch
<1>5. b # NoBranch /\ WaitsFor(m) = pc
  BY <1>2, DataAssumption DEF WaitsFor
<1>6. branch' = [branch EXCEPT ![a][b] = me2]
  BY <1>3, <1>4, <1>5 DEF Allow, Wake
<1>7. /\ m.type = "RequestFork" => me2.at = i /\ me2.pc = "forked"
      /\ m.type = "RequestJoin" => me2.at = i + 1 /\ me2.pc = "idle"
      /\ me2.cut = me.cut /\ me2.last = me.last /\ me2.exit = me.exit
  BY <1>2 DEF BranchType
<1> HIDE DEF me2
<1>8. branch'[a][b] = me2 /\ OnlyMoves(branch[a], branch'[a], b) /\ \A c \in Attempts \ {a} : branch'[c] = branch[c]
  BY <1>1, <1>2, <1>6 DEF OnlyMoves
<1>9. ASSUME NEW d \in Branches PROVE SteadyBranch(branch'[a][d])
  <2>1. SteadyBranch(me2)
    BY <1>4, <1>7 DEF SteadyBranch
  <2> QED BY <1>8, <2>1 DEF OnlyMoves
<1>10. ASSUME NEW tag, NEW j, NEW d \in Branches, WriterFits(branch[a][d], d, tag, j) PROVE WriterFits(branch'[a][d], d, tag, j)
  <2>1. CASE d # b
    BY <1>8, <1>10, <2>1 DEF OnlyMoves
  <2>2. CASE d = b
    <3>1. i + 1 \in 1..(Len(Program[b]) + 1) /\ i \in 1..(Len(Program[b]) + 1)
      <4>1. Len(Program[b]) \in Nat
        BY <1>2, <1>3, PlaceIs
      <4> HIDE DEF i
      <4> QED BY <1>3, <4>1, WithinOneMore
    <3> QED BY <1>3, <1>7, <1>8, <2>2, <3>1 DEF WriterFits, Writing
  <2> QED BY <2>1, <2>2
<1>11. Granted(branch[a], branch'[a], m)
  BY <1>2, <1>3, <1>7, <1>8, <1>9 DEF Granted
<1> QED BY <1>8, <1>10, <1>11

\* The event that grants message m is the next one.
GrantedBy(m, e) ==
  /\ e.id = m.id
  /\ m.type = "RequestFork" => e.type = "Forked"
  /\ m.type = "RequestJoin" => e.type = "Joined"

LEMMA GrantedProgress ==
  ASSUME Determined, NEW m, NEW br, NEW cr, Granted(br, cr, m),
         NEW J, NEW n \in Nat, NEW K, \A k \in 1..n : K[k] = J[k], GrantedBy(m, K[n + 1]),
         NEW got, ProgressFits(br, J, n, got)
  PROVE  ProgressFits(cr, K, n + 1, got)
<1>1. PICK b \in Branches : b = m.branch
  BY DEF Granted
<1>2. PICK i \in 1..Len(Program[b]) : i = br[b].at /\ Program[b][i] = m.id
  BY <1>1 DEF Granted
<1>3. OnlyMoves(br, cr, b)
  BY <1>1 DEF Granted
<1>4. \/ m.type = "RequestFork" /\ br[b].pc = "forking" /\ cr[b].at = i /\ cr[b].pc = "forked"
      \/ m.type = "RequestJoin" /\ br[b].pc = "joining" /\ cr[b].at = i + 1 /\ cr[b].pc = "idle"
  BY <1>1, <1>2 DEF Granted
<1>5. PICK e : e = K[n + 1]
  OBVIOUS
<1>6. ASSUME NEW y \in Activities
      PROVE  /\ OnRecord(K, n + 1, "Forked", y) <=> OnRecord(J, n, "Forked", y) \/ (e.type = "Forked" /\ e.id = y)
             /\ OnRecord(K, n + 1, "Joined", y) <=> OnRecord(J, n, "Joined", y) \/ (e.type = "Joined" /\ e.id = y)
  <2>1. ASSUME NEW type
        PROVE  OnRecord(K, n + 1, type, y) <=> OnRecord(J, n, type, y) \/ (K[n + 1].type = type /\ K[n + 1].id = y)
    BY OneMore, ZenonT(60)
  <2> QED BY <1>5, <2>1
<1>7. e.id = Program[b][i] /\ (m.type = "RequestFork" => e.type = "Forked") /\ (m.type = "RequestJoin" => e.type = "Joined")
  BY <1>2, <1>5 DEF GrantedBy
<1>8. CASE m.type = "RequestFork"
  <2>1. \A y \in Activities : /\ OnRecord(K, n + 1, "Forked", y) <=> OnRecord(J, n, "Forked", y) \/ y = Program[b][i]
                              /\ OnRecord(K, n + 1, "Joined", y) <=> OnRecord(J, n, "Joined", y)
    BY ONLY <1>6, <1>7, <1>8
  <2>2. br[b].at = i /\ br[b].pc = "forking" /\ cr[b].at = i /\ cr[b].pc = "forked"
    BY <1>2, <1>4, <1>8
  <2> QED BY <1>3, <2>1, <2>2, ProgressForks
<1>9. CASE m.type = "RequestJoin"
  <2>1. \A y \in Activities : /\ OnRecord(K, n + 1, "Forked", y) <=> OnRecord(J, n, "Forked", y)
                              /\ OnRecord(K, n + 1, "Joined", y) <=> OnRecord(J, n, "Joined", y) \/ y = Program[b][i]
    BY ONLY <1>6, <1>7, <1>9
  <2>2. br[b].at = i /\ br[b].pc = "joining" /\ cr[b].at = i + 1 /\ cr[b].pc = "idle"
    BY <1>2, <1>4, <1>9
  <2> QED BY <1>3, <2>1, <2>2, ProgressJoins
<1> QED BY <1>4, <1>8, <1>9

LEMMA GrantedQueue ==
  ASSUME Determined, NEW q \in Seq(Messages), NEW p \in Seq(Messages), NEW h, Shorter(q, h, p), NEW m, m = q[h],
         NEW br, NEW cr, Granted(br, cr, m), NEW got, NEW replaying, QueueFits(q, br, got, replaying)
  PROVE  QueueFits(p, cr, got, replaying)
<1>1. PICK b \in Branches : b = m.branch
  BY DEF Granted
<1>2. OnlyMoves(br, cr, b) /\ cr[b].pc \in {"forked", "idle"} /\ q[h].branch = b
      /\ q[h].type \in {"RequestFork", "RequestJoin"}
  BY <1>1 DEF Granted
<1> QED BY <1>2, QueueAnswers

\* The first fork that is asked for is the next one on record.
LEMMA ForkIsNext ==
  ASSUME Determined, NEW J, HistoryFits(J), NEW n \in Nat, n + 1 \in 1..Len(J), J[n + 1].type = "Forked",
         J[n + 1].id \in Activities,
         NEW q \in Seq(Messages), NEW br \in [Branches -> BranchType], NEW got, NEW replaying,
         QueueFits(q, br, got, replaying), ProgressFits(br, J, n, got),
         NEW h \in 1..Len(q), q[h].type = "RequestFork",
         \A k \in 1..Len(q) : q[k].type = "RequestFork" => h <= k
  PROVE  q[h].id = J[n + 1].id
<1> DEFINE x == J[n + 1].id
           z == q[h].id
<1>1. z \in Activities /\ ~Begun(br, z)
  <2>1. q[h] \in Messages /\ Awaited(br, q[h], "forking")
    BY ElementOfSeq DEF QueueFits
  <2> QED BY <2>1, AwaitedIs
<1>2. \A y \in Activities : Before(y, z) => Begun(br, y)
  BY NextFork
<1>3. \A y \in Activities : Before(y, x) => OnRecord(J, n, "Forked", y)
  <2>1. \A y \in Activities : Before(y, x) => OnRecord(J, (n + 1) - 1, "Forked", y)
    BY DEF HistoryFits, ForksInOrder
  <2>2. (n + 1) - 1 = n
    OBVIOUS
  <2> QED BY <2>1, <2>2
<1>4. ~OnRecord(J, n, "Forked", x)
  <2>1. SUFFICES ASSUME NEW k \in 1..n, J[k].type = "Forked", J[k].id = x PROVE FALSE
    BY DEF OnRecord
  <2>2. k \in 1..Len(J) /\ k < n + 1
    OBVIOUS
  <2>3. Before(J[k].id, J[n + 1].id)
    BY <2>1, <2>2 DEF HistoryFits, ForksInOrder
  <2> QED BY <2>1, <2>3, BeforeOrders
<1> HIDE DEF x, z
<1>5. x \in Activities
  BY DEF x
<1>6. ~Before(z, x)
  BY <1>1, <1>3 DEF ProgressFits
<1>7. ~Before(x, z)
  BY <1>2, <1>4, <1>5 DEF ProgressFits
<1>8. x = z
  BY <1>1, <1>5, <1>6, <1>7, BeforeOrders
<1> QED BY <1>8 DEF x, z

LEMMA ShorterFrom ==
  ASSUME NEW q \in Seq(Messages), NEW p \in Seq(Messages), NEW h, Shorter(q, h, p)
  PROVE  \A k \in 1..Len(p) : \E j \in 1..Len(q) : p[k] = q[j]
<1>1. SUFFICES ASSUME NEW k \in 1..Len(p) PROVE \E j \in 1..Len(q) : p[k] = q[j]
  OBVIOUS
<1> DEFINE m == Len(q)
           n == Len(p)
<1>2. m \in Nat /\ h \in 1..m /\ n = m - 1 /\ p[k] = q[IF k < h THEN k ELSE k + 1]
  BY LenProperties DEF Shorter
<1> HIDE DEF m, n
<1>3. (IF k < h THEN k ELSE k + 1) \in 1..m
  <2>1. k \in 1..n
    BY DEF n
  <2> QED BY ONLY <1>2, <2>1
<1> QED BY <1>2, <1>3 DEF m

\* The request of message m, the one on record, is granted.
LEMMA ReplayedDet ==
  ASSUME Determined, IInv, IInv', OrderInv, DetInv, NEW a \in Attempts, attempt[a].phase = "replay",
         attempt[a].events # <<>>, attempt[a].tag # "NotStarted", journal' = journal, yields' = yields,
         NEW h \in 1..Len(Queue(attempt[a])), NEW m, m = Queue(attempt[a])[h],
         m.type \in {"RequestFork", "RequestJoin"}, GrantedBy(m, Head(attempt[a].events)),
         NEW d \in Seq(Messages), NEW s \in Seq(Messages), Shorter(Queue(attempt[a]), h, d \o s),
         \A k \in 1..Len(d) : \E i \in 1..Len(attempt[a].delayed) : d[k] = attempt[a].delayed[i],
         Replayed(a, m, [attempt[a] EXCEPT !.delayed = d, !.mailbox = s])
  PROVE  DetInv'
<1> DEFINE r == attempt[a]
           br == branch[a]
           cr == branch'[a]
           J == journal[Workflow]
           n == r.next
           r2 == [r EXCEPT !.delayed = d, !.mailbox = s]
           t == Past(r2)
           q == Queue(r)
<1>1. /\ r.tag = "Replay" /\ Expected(a) /\ IsLive(a) /\ n \in Nat /\ n + 1 \in 1..Len(J)
      /\ Head(r.events) = J[n + 1] /\ Head(r.events).sequence = n /\ r.backlog = <<>>
  BY NextEvent
<1>2. /\ r \in AttemptType /\ br \in [Branches -> BranchType] /\ HistoryFits(J) /\ MailFits(r, yields)
      /\ \A c \in Branches : WriterFits(br[c], c, r.tag, journal)
  BY Settled
<1>3. /\ \A c \in Branches : SteadyBranch(br[c])
      /\ ProgressFits(br, J, n, r.got) /\ QueueFits(q, br, r.got, TRUE)
  BY <1>1, SteadyIs
<1>4. q \in Seq(Messages) /\ m \in Messages
  BY <1>2, QueueType, ElementOfSeq
<1>5. attempt' = [attempt EXCEPT ![a] = t] /\ Allow(a, m)
  BY DEF Replayed
<1>6. /\ t.phase = "replay" /\ t.tag = "Replay" /\ t.delayed = d /\ t.backlog = r.backlog
      /\ t.mailbox = s /\ t.fiber = r.fiber /\ t.got = r.got /\ t.broken = r.broken
      /\ t.next = n + 1
  <2>1. /\ r2 \in AttemptType /\ r2.phase = r.phase /\ r2.tag = r.tag /\ r2.delayed = d /\ r2.backlog = r.backlog
        /\ r2.mailbox = s /\ r2.fiber = r.fiber /\ r2.got = r.got /\ r2.broken = r.broken /\ r2.events = r.events
    BY <1>2 DEF AttemptType
  <2> HIDE DEF r2
  <2>2. /\ t.phase = r2.phase /\ t.tag = r2.tag /\ t.delayed = r2.delayed /\ t.backlog = r2.backlog
        /\ t.mailbox = r2.mailbox /\ t.fiber = r2.fiber /\ t.got = r2.got /\ t.broken = r2.broken
        /\ t.next = Head(r2.events).sequence + 1
    BY <2>1, PastIs
  <2> QED BY <1>1, <2>1, <2>2
<1> HIDE DEF t, r2
<1>7. PICK pc : /\ (m.type = "RequestFork" /\ pc = "forking") \/ (m.type = "RequestJoin" /\ pc = "joining")
                /\ Awaited(br, m, pc)
  BY <1>3 DEF QueueFits
<1>8. Granted(br, cr, m) /\ \A c \in Attempts \ {a} : branch'[c] = branch[c]
  BY <1>3, <1>4, <1>5, <1>7, AllowIs
<1>9. \A c \in Branches : WriterFits(cr[c], c, "Replay", journal)
  <2>1. \A tag, j : \A c \in Branches : WriterFits(br[c], c, tag, j) => WriterFits(cr[c], c, tag, j)
    BY <1>3, <1>4, <1>5, <1>7, AllowIs
  <2> QED BY <1>1, <1>2, <2>1
<1>10. Queue(t) = d \o s /\ Queue(t) \in Seq(Messages)
  BY <1>6, ConcatProperties DEF Queue, Front
<1>11. Shorter(q, h, Queue(t))
  BY <1>10
<1> HIDE DEF r, br, cr, J, n, q
<1>12. QueueFits(Queue(t), cr, r.got, TRUE)
  <2>1. m = q[h]
    BY DEF q, r
  <2> QED BY ONLY Determined, <1>3, <1>4, <1>8, <1>10, <1>11, <2>1, GrantedQueue
<1>13. ProgressFits(cr, J, n + 1, r.got)
  <2>1. GrantedBy(m, J[n + 1]) /\ \A k \in 1..n : J[k] = J[k]
    BY <1>1 DEF r
  <2> QED BY ONLY Determined, <1>1, <1>3, <1>8, <2>1, GrantedProgress
<1>14. \A k \in 1..Len(Queue(t)) : \E j \in 1..Len(q) : Queue(t)[k] = q[j]
  BY ONLY <1>4, <1>10, <1>11, ShorterFrom
<1>15. \A k \in 1..Len(t.delayed) : t.delayed[k].type # "RequestComplete"
  <2>1. \A k \in 1..Len(r.delayed) : r.delayed[k].type # "RequestComplete"
    BY <1>2 DEF MailFits, r
  <2> QED BY <1>6, <2>1 DEF r
<1>16. \A c \in Branches : SteadyBranch(cr[c])
  BY <1>8 DEF Granted
<1> QED BY <1>1, <1>5, <1>6, <1>8, <1>9, <1>12, <1>13, <1>14, <1>15, <1>16, ReplayStep DEF r, br, cr, J, n, q

\* The first of some messages comes before the others.
LEMMA FirstComesFirst ==
  ASSUME NEW n \in Nat, NEW S \in SUBSET (1..n), S # {}
  PROVE  FirstOf(S) \in S /\ \A l \in S : FirstOf(S) <= l
<1>1. S \in SUBSET Nat
  OBVIOUS
<1>2. \E k \in S : \A l \in S : k <= l
  BY <1>1, NatMin
<1> QED BY <1>2 DEF FirstOf

\* The activity of the next event is not yet where the event brings it.
LEMMA ForkNotBegun ==
  ASSUME Determined, NEW J, HistoryFits(J), NEW n \in Nat, n + 1 \in 1..Len(J), J[n + 1].type = "Forked",
         J[n + 1].id \in Activities, NEW br, NEW got, ProgressFits(br, J, n, got)
  PROVE  ~Begun(br, J[n + 1].id)
<1> DEFINE x == J[n + 1].id
<1>1. ~OnRecord(J, n, "Forked", x)
  <2>1. SUFFICES ASSUME NEW k \in 1..n, J[k].type = "Forked", J[k].id = x PROVE FALSE
    BY DEF OnRecord
  <2>2. k \in 1..Len(J) /\ k < n + 1
    OBVIOUS
  <2>3. Before(J[k].id, J[n + 1].id)
    BY <2>1, <2>2 DEF HistoryFits, ForksInOrder
  <2> QED BY <2>1, <2>3, BeforeOrders
<1> QED BY <1>1 DEF ProgressFits

LEMMA JoinNotGone ==
  ASSUME NEW J, HistoryFits(J), NEW n \in Nat, n + 1 \in 1..Len(J), J[n + 1].type = "Joined",
         J[n + 1].id \in Activities, NEW br, NEW got, ProgressFits(br, J, n, got)
  PROVE  ~Gone(br, J[n + 1].id)
<1> DEFINE x == J[n + 1].id
<1>1. ~OnRecord(J, n, "Joined", x)
  <2>1. SUFFICES ASSUME NEW k \in 1..n, J[k].type = "Joined", J[k].id = x PROVE FALSE
    BY DEF OnRecord
  <2>2. k \in 1..Len(J) /\ k # n + 1
    OBVIOUS
  <2> QED BY <2>1, <2>2 DEF HistoryFits, JoinsOnce
<1> QED BY <1>1 DEF ProgressFits

\* A message that is not what the event waits for is put aside.
LEMMA DelayDet ==
  ASSUME Determined, IInv, IInv', OrderInv, DetInv, NEW a \in Attempts, attempt[a].phase = "replay",
         attempt[a].events # <<>>, attempt[a].tag # "NotStarted", journal' = journal, yields' = yields,
         attempt[a].mailbox # <<>>, Head(attempt[a].mailbox).type # "RequestComplete", Delay(a)
  PROVE  DetInv'
<1> DEFINE r == attempt[a]
           h == Head(r.mailbox)
           t == [r EXCEPT !.mailbox = Tail(r.mailbox), !.delayed = Append(r.delayed, h)]
<1>1. r.tag = "Replay" /\ IsLive(a) /\ r.backlog = <<>>
  BY NextEvent
<1>2. /\ r \in AttemptType /\ MailFits(r, yields) /\ attempt \in [Attempts -> AttemptType]
      /\ \A b \in Branches : WriterFits(branch[a][b], b, r.tag, journal)
  BY Settled
<1>3. /\ \A b \in Branches : SteadyBranch(branch[a][b])
      /\ ProgressFits(branch[a], journal[Workflow], r.next, r.got) /\ QueueFits(Queue(r), branch[a], r.got, TRUE)
  BY <1>1, SteadyIs
<1>4. attempt' = [attempt EXCEPT ![a] = t] /\ branch' = branch
  BY <1>2 DEF Delay, AttemptType
<1>5. /\ t.phase = r.phase /\ t.tag = r.tag /\ t.delayed = Append(r.delayed, h) /\ t.backlog = r.backlog
      /\ t.mailbox = Tail(r.mailbox) /\ t.fiber = r.fiber /\ t.got = r.got /\ t.broken = r.broken /\ t.next = r.next
  BY <1>2 DEF AttemptType
<1> HIDE DEF t
<1>6. r.delayed \in Seq(Messages) /\ r.mailbox \in Seq(Messages)
  BY <1>2, QueueType
<1>7. Queue(t) = Queue(r)
  <2>1. Append(r.delayed, h) \o Tail(r.mailbox) = r.delayed \o r.mailbox
    BY <1>6, MovedOver
  <2> QED BY <1>1, <1>5, <2>1 DEF Queue, Front
<1>8. \A k \in 1..Len(t.delayed) : t.delayed[k].type # "RequestComplete"
  <2>1. h \in Messages
    BY <1>6, HeadTailProperties
  <2>2. /\ Len(t.delayed) = Len(r.delayed) + 1 /\ t.delayed[Len(r.delayed) + 1] = h
        /\ \A k \in 1..Len(r.delayed) : t.delayed[k] = r.delayed[k]
    BY <1>5, <1>6, <2>1, AppendProperties
  <2>3. \A k \in 1..Len(r.delayed) : r.delayed[k].type # "RequestComplete"
    BY <1>2 DEF MailFits
  <2>4. Len(r.delayed) \in Nat
    BY <1>6, LenProperties
  <2>5. \A k \in 1..(Len(r.delayed) + 1) : k \in 1..Len(r.delayed) \/ k = Len(r.delayed) + 1
    BY <2>4
  <2> QED BY <2>2, <2>3, <2>5
<1>9. \A k \in 1..Len(Queue(t)) : \E j \in 1..Len(Queue(r)) : Queue(t)[k] = Queue(r)[j]
  BY <1>7
<1>10. \A b \in Branches : WriterFits(branch'[a][b], b, "Replay", journal) /\ SteadyBranch(branch'[a][b])
  BY <1>1, <1>2, <1>3, <1>4
<1>11. QueueFits(Queue(t), branch'[a], t.got, TRUE) /\ ProgressFits(branch'[a], journal[Workflow], t.next, t.got)
  BY <1>3, <1>4, <1>5, <1>7
<1> QED BY <1>1, <1>4, <1>5, <1>8, <1>9, <1>10, <1>11, ReplayStep

\* No message asks for the end while an activity is not joined.
LEMMA EndNotAsked ==
  ASSUME NEW q \in Seq(Messages), NEW br, NEW got, NEW replaying, QueueFits(q, br, got, replaying),
         NEW x \in Activities, ~Gone(br, x), NEW k \in 1..Len(q)
  PROVE  q[k].type # "RequestComplete"
BY DEF QueueFits

\* The message at the head of the mailbox, while the coordinator replays.
LEMMA HeadOfMailbox ==
  ASSUME NEW r \in AttemptType, r.tag = "Replay", r.mailbox # <<>>
  PROVE  \E h \in 1..Len(Queue(r)) :
           /\ h = Len(r.delayed) + 1 /\ Queue(r)[h] = Head(r.mailbox)
           /\ Shorter(Queue(r), h, r.delayed \o Tail(r.mailbox))
           /\ Tail(r.mailbox) \in Seq(Messages) /\ Head(r.mailbox) \in Messages
<1>1. r.delayed \in Seq(Messages) /\ r.mailbox \in Seq(Messages) /\ Queue(r) = r.delayed \o r.mailbox
  BY QueueType DEF Queue, Front
<1> DEFINE f == r.delayed
           s == r.mailbox
           g == Tail(s)
           h == Len(f) + 1
<1>2. g \in Seq(Messages) /\ Shorter(s, 1, g) /\ Head(s) \in Messages /\ Head(s) = s[1]
  BY <1>1, TailShorter
<1>3. f \in Seq(Messages) /\ s \in Seq(Messages)
  BY <1>1
<1> HIDE DEF f, s, g
<1>4. Shorter(f \o s, h, f \o g)
  BY ONLY <1>2, <1>3, ShorterBack
<1>5. (f \o s)[h] = s[1]
  BY ONLY <1>2, <1>3, ShorterBack
<1>6. h \in 1..Len(f \o s)
  BY ONLY <1>4 DEF Shorter
<1> QED BY <1>1, <1>2, <1>4, <1>5, <1>6 DEF f, s, g

\* A message put aside.
LEMMA InDelayed ==
  ASSUME NEW r \in AttemptType, r.tag = "Replay"
  PROVE  /\ \A k \in 1..Len(r.delayed) : k \in 1..Len(Queue(r)) /\ Queue(r)[k] = r.delayed[k]
         /\ Len(r.delayed) \in Nat /\ Len(Queue(r)) \in Nat
         /\ \A k \in 1..Len(r.delayed) :
              /\ Without(r.delayed, k) \in Seq(Messages)
              /\ Shorter(Queue(r), k, Without(r.delayed, k) \o r.mailbox)
<1> DEFINE f == r.delayed
           s == r.mailbox
<1>1. f \in Seq(Messages) /\ s \in Seq(Messages) /\ Queue(r) = f \o s
  BY QueueType DEF Queue, Front
<1>2. Len(f) \in Nat /\ Len(s) \in Nat
  BY <1>1, LenProperties
<1> HIDE DEF f, s
<1>3. /\ Len(f \o s) = Len(f) + Len(s)
      /\ \A k \in 1..Len(f \o s) : (f \o s)[k] = IF k <= Len(f) THEN f[k] ELSE s[k - Len(f)]
  BY ONLY <1>1, ConcatIs
<1>4. ASSUME NEW k \in 1..Len(f) PROVE k \in 1..Len(f \o s) /\ (f \o s)[k] = f[k]
  <2>1. k \in 1..Len(f \o s) /\ k <= Len(f)
    BY <1>2, <1>3
  <2> QED BY <1>3, <2>1
<1>5. ASSUME NEW k \in 1..Len(f) PROVE Without(f, k) \in Seq(Messages) /\ Shorter(f \o s, k, Without(f, k) \o s)
  <2>1. Without(f, k) \in Seq(Messages) /\ Shorter(f, k, Without(f, k))
    BY <1>1, WithoutIs
  <2> QED BY <1>1, <2>1, ShorterFront
<1>6. \A k \in 1..Len(f) : k \in 1..Len(Queue(r)) /\ Queue(r)[k] = f[k]
  BY <1>1, <1>4
<1>7. \A k \in 1..Len(f) : Without(f, k) \in Seq(Messages) /\ Shorter(Queue(r), k, Without(f, k) \o s)
  BY <1>1, <1>5
<1>8. Len(f) \in Nat /\ Len(Queue(r)) \in Nat
  BY <1>1, <1>2, <1>3
<1> QED BY ONLY <1>6, <1>7, <1>8 DEF f, s

\* The first fork among the messages put aside, or else at the head of the mailbox, is the
\* first one of all.
LEMMA FirstForkDelayed ==
  ASSUME NEW r \in AttemptType, r.tag = "Replay", NEW k \in 1..Len(r.delayed), r.delayed[k].type = "RequestFork",
         \A l \in 1..Len(r.delayed) : r.delayed[l].type = "RequestFork" => k <= l
  PROVE  \A l \in 1..Len(Queue(r)) : Queue(r)[l].type = "RequestFork" => k <= l
<1>1. /\ \A l \in 1..Len(r.delayed) : Queue(r)[l] = r.delayed[l]
      /\ Len(r.delayed) \in Nat /\ Len(Queue(r)) \in Nat
  BY InDelayed
<1>2. ASSUME NEW l \in 1..Len(Queue(r)), Queue(r)[l].type = "RequestFork" PROVE k <= l
  <2>1. CASE l \in 1..Len(r.delayed)
    BY <1>1, <1>2, <2>1
  <2>2. CASE l \notin 1..Len(r.delayed)
    BY <1>1, <2>2
  <2> QED BY <2>1, <2>2
<1> QED BY <1>2

LEMMA FirstForkMailed ==
  ASSUME NEW r \in AttemptType, r.tag = "Replay",
         \A l \in 1..Len(r.delayed) : r.delayed[l].type # "RequestFork"
  PROVE  \A l \in 1..Len(Queue(r)) : Queue(r)[l].type = "RequestFork" => Len(r.delayed) + 1 <= l
<1>1. /\ \A l \in 1..Len(r.delayed) : Queue(r)[l] = r.delayed[l]
      /\ Len(r.delayed) \in Nat /\ Len(Queue(r)) \in Nat
  BY InDelayed
<1>2. ASSUME NEW l \in 1..Len(Queue(r)), Queue(r)[l].type = "RequestFork" PROVE Len(r.delayed) + 1 <= l
  <2>1. l \notin 1..Len(r.delayed)
    BY <1>1, <1>2
  <2> QED BY <1>1, <2>1
<1> QED BY <1>2

LEMMA SameCoordinator ==
  ASSUME NEW r \in AttemptType, NEW d, NEW s
  PROVE  /\ [r EXCEPT !.delayed = d] = [r EXCEPT !.delayed = d, !.mailbox = r.mailbox]
         /\ [r EXCEPT !.mailbox = s] = [r EXCEPT !.delayed = r.delayed, !.mailbox = s]
BY DEF AttemptType

\* What the coordinator of a replay can rely on.
LEMMA Replays ==
  ASSUME IInv, OrderInv, DetInv, NEW a \in Attempts, attempt[a].phase = "replay", attempt[a].events # <<>>,
         attempt[a].tag # "NotStarted", NEW r, r = attempt[a], NEW br, br = branch[a], NEW J, J = journal[Workflow],
         NEW e, e = Head(attempt[a].events)
  PROVE  /\ Expected(a) /\ r \in AttemptType /\ r.tag = "Replay" /\ br \in [Branches -> BranchType] /\ HistoryFits(J)
         /\ r.next \in Nat /\ r.next + 1 \in 1..Len(J) /\ J[r.next + 1] = e
         /\ (e.type \in {"Forked", "Joined"} => e.id \in Activities)
         /\ ProgressFits(br, J, r.next, r.got) /\ QueueFits(Queue(r), br, r.got, TRUE)
         /\ Queue(r) \in Seq(Messages) /\ r.mailbox \in Seq(Messages) /\ r.delayed \in Seq(Messages)
<1>1. /\ r.tag = "Replay" /\ Expected(a) /\ IsLive(a) /\ r.next \in Nat /\ r.next + 1 \in 1..Len(J)
      /\ e = J[r.next + 1] /\ e \in Events
  BY NextEvent
<1>2. r \in AttemptType /\ br \in [Branches -> BranchType] /\ HistoryFits(J)
  BY Settled
<1>3. ProgressFits(br, J, r.next, r.got) /\ QueueFits(Queue(r), br, r.got, TRUE)
  BY <1>1, SteadyIs
<1>4. Queue(r) \in Seq(Messages) /\ r.mailbox \in Seq(Messages) /\ r.delayed \in Seq(Messages)
  BY <1>2, QueueType
<1>5. e.type \in {"Forked", "Joined"} => e.id \in Activities
  BY <1>1, EventFields
<1> QED BY <1>1, <1>2, <1>3, <1>4, <1>5

\* The next fork on record is the first that is asked for: no determinism is broken.
LEMMA ReplayForkedDet ==
  ASSUME Determined, IInv, IInv', OrderInv, DetInv, NEW a \in Attempts, ReplayForked(a)
  PROVE  DetInv'
<1>1. PICK r : r = attempt[a]
  OBVIOUS
<1>2. PICK e : e = Head(r.events)
  OBVIOUS
<1>3. PICK early : early = Requests(r.delayed, "RequestFork")
  OBVIOUS
<1>4. PICK k : k = FirstOf(early)
  OBVIOUS
<1>5. PICK J : J = journal[Workflow]
  OBVIOUS
<1>6. PICK br : br = branch[a]
  OBVIOUS
<1>7. /\ r.phase = "replay" /\ r.events # <<>> /\ e.type = "Forked" /\ journal' = journal /\ yields' = yields
  BY <1>1, <1>2 DEF ReplayForked, Replaying, limits
<1>8. r.tag # "NotStarted"
  <2>1. attempt[a].phase = "replay" /\ attempt[a].events # <<>> /\ Head(attempt[a].events).type = "Forked"
    BY <1>1, <1>2, <1>7
  <2>2. attempt[a].tag # "NotStarted"
    BY <2>1, EventIsExpected
  <2> QED BY <1>1, <2>2
<1>9. /\ Expected(a) /\ r \in AttemptType /\ r.tag = "Replay" /\ br \in [Branches -> BranchType] /\ HistoryFits(J)
      /\ r.next \in Nat /\ r.next + 1 \in 1..Len(J) /\ J[r.next + 1] = e
      /\ (e.type \in {"Forked", "Joined"} => e.id \in Activities)
      /\ ProgressFits(br, J, r.next, r.got) /\ QueueFits(Queue(r), br, r.got, TRUE)
      /\ Queue(r) \in Seq(Messages) /\ r.mailbox \in Seq(Messages) /\ r.delayed \in Seq(Messages)
  BY <1>1, <1>2, <1>5, <1>6, <1>7, <1>8, Replays, ZenonT(60)
<1>10. ASSUME NEW h \in 1..Len(Queue(r)), Queue(r)[h].type = "RequestFork",
              \A l \in 1..Len(Queue(r)) : Queue(r)[l].type = "RequestFork" => h <= l
       PROVE  Queue(r)[h].id = e.id
  BY <1>7, <1>9, <1>10, ForkIsNext
<1>11. CASE early # {}
  <2>1. k \in 1..Len(r.delayed) /\ r.delayed[k].type = "RequestFork"
        /\ \A l \in 1..Len(r.delayed) : r.delayed[l].type = "RequestFork" => k <= l
    <3>1. Len(r.delayed) \in Nat /\ DOMAIN r.delayed = 1..Len(r.delayed)
      BY <1>9, LenProperties
    <3>2. early \in SUBSET (1..Len(r.delayed))
      BY <1>3, <3>1 DEF Requests
    <3>3. k \in early /\ \A l \in early : k <= l
      BY <1>4, <1>11, <3>1, <3>2, FirstComesFirst
    <3> QED BY <1>3, <3>1, <3>3 DEF Requests
  <2>2. k \in 1..Len(Queue(r)) /\ Queue(r)[k] = r.delayed[k]
    BY <1>9, <2>1, InDelayed
  <2>3. \A l \in 1..Len(Queue(r)) : Queue(r)[l].type = "RequestFork" => k <= l
    BY <1>9, <2>1, FirstForkDelayed
  <2>4. r.delayed[k].id = e.id
    BY <1>10, <2>1, <2>2, <2>3
  <2>5. Replayed(a, r.delayed[k], [r EXCEPT !.delayed = Without(r.delayed, k)])
    BY <1>1, <1>2, <1>3, <1>4, <1>9, <1>11, <2>4 DEF ReplayForked
  <2>6. PICK d : d = Without(r.delayed, k)
    OBVIOUS
  <2>7. d \in Seq(Messages) /\ Shorter(Queue(r), k, d \o r.mailbox)
    BY <1>9, <2>1, <2>6, InDelayed, SMTT(40)
  <2>8. Replayed(a, r.delayed[k], [r EXCEPT !.delayed = d, !.mailbox = r.mailbox])
    BY <1>9, <2>5, <2>6, SameCoordinator
  <2>9. \A j \in 1..Len(d) : \E i \in 1..Len(r.delayed) : d[j] = r.delayed[i]
    <3>1. Shorter(r.delayed, k, d)
      BY <1>9, <2>1, <2>6, WithoutIs
    <3> QED BY <1>9, <2>7, <3>1, ShorterFrom
  <2>10. PICK m : m = r.delayed[k]
    OBVIOUS
  <2>11. m = Queue(r)[k] /\ m.type \in {"RequestFork", "RequestJoin"} /\ GrantedBy(m, e)
    BY <1>7, <2>1, <2>2, <2>4, <2>10 DEF GrantedBy
  <2>12. Replayed(a, m, [r EXCEPT !.delayed = d, !.mailbox = r.mailbox])
    BY <2>8, <2>10
  <2>13. PICK w : w = r.mailbox /\ w \in Seq(Messages)
    BY <1>9
  <2>14. /\ Replayed(a, m, [attempt[a] EXCEPT !.delayed = d, !.mailbox = w]) /\ Shorter(Queue(attempt[a]), k, d \o w)
         /\ \A j \in 1..Len(d) : \E i \in 1..Len(attempt[a].delayed) : d[j] = attempt[a].delayed[i]
         /\ m = Queue(attempt[a])[k] /\ k \in 1..Len(Queue(attempt[a]))
         /\ attempt[a].phase = "replay" /\ attempt[a].events # <<>> /\ attempt[a].tag # "NotStarted"
         /\ GrantedBy(m, Head(attempt[a].events)) /\ m.type \in {"RequestFork", "RequestJoin"}
    BY <1>1, <1>2, <1>7, <1>8, <2>2, <2>7, <2>9, <2>11, <2>12, <2>13
  <2> QED BY ONLY Determined, IInv, IInv', OrderInv, DetInv, a \in Attempts, <1>7, <2>7, <2>13, <2>14, ReplayedDet
<1>12. CASE early = {}
  <2>1. \A l \in 1..Len(r.delayed) : r.delayed[l].type # "RequestFork"
    <3>1. DOMAIN r.delayed = 1..Len(r.delayed)
      BY <1>9, LenProperties
    <3> QED BY <1>3, <1>12, <3>1 DEF Requests
  <2>2. PICK m : m = Head(r.mailbox)
    OBVIOUS
  <2>3. r.mailbox # <<>>
    BY <1>1, <1>3, <1>9, <1>12 DEF ReplayForked
  <2>4. PICK h \in 1..Len(Queue(r)) :
           /\ h = Len(r.delayed) + 1 /\ Queue(r)[h] = m
           /\ Shorter(Queue(r), h, r.delayed \o Tail(r.mailbox))
           /\ Tail(r.mailbox) \in Seq(Messages) /\ m \in Messages
    BY <1>9, <2>2, <2>3, HeadOfMailbox
  <2>5. CASE m.type # "RequestFork"
    <3>1. Delay(a)
      BY <1>1, <1>3, <1>9, <1>12, <2>2, <2>5 DEF ReplayForked
    <3>2. m.type # "RequestComplete"
      <4>1. ~Gone(br, e.id)
        <5>1. ~Begun(br, e.id)
          BY <1>7, <1>9, ForkNotBegun, SMTT(40)
        <5> QED BY <5>1 DEF Begun
      <4> QED BY <1>7, <1>9, <2>4, <4>1, EndNotAsked
    <3> QED BY <1>1, <1>7, <1>8, <2>2, <2>3, <3>1, <3>2, DelayDet
  <2>6. CASE m.type = "RequestFork"
    <3>1. \A l \in 1..Len(Queue(r)) : Queue(r)[l].type = "RequestFork" => h <= l
      BY <1>9, <2>1, <2>4, FirstForkMailed
    <3>2. m.id = e.id
      BY <1>10, <2>4, <2>6, <3>1
    <3>3. Replayed(a, m, [r EXCEPT !.mailbox = Tail(r.mailbox)])
      BY <1>1, <1>2, <1>3, <1>9, <1>12, <2>2, <2>6, <3>2, SMTT(40) DEF ReplayForked
    <3>4. Replayed(a, m, [r EXCEPT !.delayed = r.delayed, !.mailbox = Tail(r.mailbox)])
      BY <1>9, <3>3, SameCoordinator
    <3>5. GrantedBy(m, e) /\ m.type \in {"RequestFork", "RequestJoin"}
      BY <1>7, <2>6, <3>2 DEF GrantedBy
    <3>6. \A j \in 1..Len(r.delayed) : \E i \in 1..Len(r.delayed) : r.delayed[j] = r.delayed[i]
      OBVIOUS
    <3> QED BY <1>1, <1>2, <1>7, <1>8, <1>9, <2>4, <3>4, <3>5, <3>6, ReplayedDet
  <2> QED BY <2>5, <2>6
<1> QED BY <1>11, <1>12

\* A join that is not the next one on record waits for its turn.
LEMMA ReplayJoinedDet ==
  ASSUME Determined, IInv, IInv', OrderInv, DetInv, NEW a \in Attempts, ReplayJoined(a)
  PROVE  DetInv'
<1>1. PICK r : r = attempt[a]
  OBVIOUS
<1>2. PICK e : e = Head(r.events)
  OBVIOUS
<1>3. PICK early : early = {j \in Requests(r.delayed, "RequestJoin") : r.delayed[j].id = e.id}
  OBVIOUS
<1>4. PICK k : k = FirstOf(early)
  OBVIOUS
<1>5. PICK J : J = journal[Workflow]
  OBVIOUS
<1>6. PICK br : br = branch[a]
  OBVIOUS
<1>7. /\ r.phase = "replay" /\ r.events # <<>> /\ e.type = "Joined" /\ journal' = journal /\ yields' = yields
  BY <1>1, <1>2 DEF ReplayJoined, Replaying, limits
<1>8. r.tag # "NotStarted"
  <2>1. attempt[a].phase = "replay" /\ attempt[a].events # <<>> /\ Head(attempt[a].events).type = "Joined"
    BY <1>1, <1>2, <1>7
  <2>2. attempt[a].tag # "NotStarted"
    BY <2>1, EventIsExpected
  <2> QED BY <1>1, <2>2
<1>9. /\ Expected(a) /\ r \in AttemptType /\ r.tag = "Replay" /\ br \in [Branches -> BranchType] /\ HistoryFits(J)
      /\ r.next \in Nat /\ r.next + 1 \in 1..Len(J) /\ J[r.next + 1] = e
      /\ (e.type \in {"Forked", "Joined"} => e.id \in Activities)
      /\ ProgressFits(br, J, r.next, r.got) /\ QueueFits(Queue(r), br, r.got, TRUE)
      /\ Queue(r) \in Seq(Messages) /\ r.mailbox \in Seq(Messages) /\ r.delayed \in Seq(Messages)
  BY <1>1, <1>2, <1>5, <1>6, <1>7, <1>8, Replays, ZenonT(60)
<1>10. CASE early # {}
  <2>1. k \in 1..Len(r.delayed) /\ r.delayed[k].type = "RequestJoin" /\ r.delayed[k].id = e.id
    <3>1. Len(r.delayed) \in Nat /\ DOMAIN r.delayed = 1..Len(r.delayed)
      BY <1>9, LenProperties
    <3>2. early \in SUBSET (1..Len(r.delayed))
      BY <1>3, <3>1 DEF Requests
    <3>3. k \in early
      BY <1>4, <1>10, <3>1, <3>2, FirstComesFirst
    <3> QED BY <1>3, <3>1, <3>3 DEF Requests
  <2>2. k \in 1..Len(Queue(r)) /\ Queue(r)[k] = r.delayed[k]
    BY <1>9, <2>1, InDelayed, SMTT(40)
  <2>5. Replayed(a, r.delayed[k], [r EXCEPT !.delayed = Without(r.delayed, k)])
    BY <1>1, <1>2, <1>3, <1>4, <1>9, <1>10 DEF ReplayJoined
  <2>6. PICK d : d = Without(r.delayed, k)
    OBVIOUS
  <2>7. d \in Seq(Messages) /\ Shorter(Queue(r), k, d \o r.mailbox)
    BY <1>9, <2>1, <2>6, InDelayed
  <2>8. Replayed(a, r.delayed[k], [r EXCEPT !.delayed = d, !.mailbox = r.mailbox])
    BY <1>9, <2>5, <2>6, SameCoordinator
  <2>9. \A j \in 1..Len(d) : \E i \in 1..Len(r.delayed) : d[j] = r.delayed[i]
    <3>1. Shorter(r.delayed, k, d)
      BY <1>9, <2>1, <2>6, WithoutIs
    <3> QED BY <1>9, <2>7, <3>1, ShorterFrom
  <2>10. PICK m : m = r.delayed[k]
    OBVIOUS
  <2>11. m = Queue(r)[k] /\ m.type \in {"RequestFork", "RequestJoin"} /\ GrantedBy(m, e)
    BY <1>7, <2>1, <2>2, <2>10 DEF GrantedBy
  <2>12. Replayed(a, m, [r EXCEPT !.delayed = d, !.mailbox = r.mailbox])
    BY <2>8, <2>10
  <2>13. PICK w : w = r.mailbox /\ w \in Seq(Messages)
    BY <1>9
  <2>14. /\ Replayed(a, m, [attempt[a] EXCEPT !.delayed = d, !.mailbox = w]) /\ Shorter(Queue(attempt[a]), k, d \o w)
         /\ \A j \in 1..Len(d) : \E i \in 1..Len(attempt[a].delayed) : d[j] = attempt[a].delayed[i]
         /\ m = Queue(attempt[a])[k] /\ k \in 1..Len(Queue(attempt[a]))
         /\ attempt[a].phase = "replay" /\ attempt[a].events # <<>> /\ attempt[a].tag # "NotStarted"
         /\ GrantedBy(m, Head(attempt[a].events)) /\ m.type \in {"RequestFork", "RequestJoin"}
    BY <1>1, <1>2, <1>7, <1>8, <2>2, <2>7, <2>9, <2>11, <2>12, <2>13
  <2> QED BY ONLY Determined, IInv, IInv', OrderInv, DetInv, a \in Attempts, <1>7, <2>7, <2>13, <2>14, ReplayedDet
<1>11. CASE early = {}
  <2>2. PICK m : m = Head(r.mailbox)
    OBVIOUS
  <2>3. r.mailbox # <<>>
    BY <1>1, <1>2, <1>3, <1>9, <1>11 DEF ReplayJoined
  <2>4. PICK h \in 1..Len(Queue(r)) :
           /\ h = Len(r.delayed) + 1 /\ Queue(r)[h] = m
           /\ Shorter(Queue(r), h, r.delayed \o Tail(r.mailbox))
           /\ Tail(r.mailbox) \in Seq(Messages) /\ m \in Messages
    BY <1>9, <2>2, <2>3, HeadOfMailbox
  <2>5. CASE ~(m.type = "RequestJoin" /\ m.id = e.id)
    <3>1. Delay(a)
      BY <1>1, <1>2, <1>3, <1>9, <1>11, <2>2, <2>5 DEF ReplayJoined
    <3>2. m.type # "RequestComplete"
      <4>1. ~Gone(br, e.id)
        BY <1>7, <1>9, JoinNotGone, SMTT(40)
      <4> QED BY <1>7, <1>9, <2>4, <4>1, EndNotAsked
    <3> QED BY <1>1, <1>7, <1>8, <2>2, <2>3, <3>1, <3>2, DelayDet
  <2>6. CASE m.type = "RequestJoin" /\ m.id = e.id
    <3>3. Replayed(a, m, [r EXCEPT !.mailbox = Tail(r.mailbox)])
      BY <1>1, <1>2, <1>3, <1>9, <1>11, <2>2, <2>6 DEF ReplayJoined
    <3>4. Replayed(a, m, [r EXCEPT !.delayed = r.delayed, !.mailbox = Tail(r.mailbox)])
      BY <1>9, <3>3, SameCoordinator
    <3>5. GrantedBy(m, e) /\ m.type \in {"RequestFork", "RequestJoin"}
      BY <1>7, <2>6 DEF GrantedBy
    <3>6. \A j \in 1..Len(r.delayed) : \E i \in 1..Len(r.delayed) : r.delayed[j] = r.delayed[i]
      OBVIOUS
    <3> QED BY <1>1, <1>2, <1>7, <1>8, <1>9, <2>4, <3>4, <3>5, <3>6, ReplayedDet
  <2> QED BY <2>5, <2>6
<1> QED BY <1>10, <1>11

----------------------------------------------------------------------------
(* Execution.                                                              *)

\* Only the journal of the workflow is appended to.
LEMMA WorkflowOnly ==
  ASSUME IInv, NEW e, journal' = AppendTo(journal, Workflow, e)
  PROVE  /\ journal'[Workflow] = Append(journal[Workflow], e) /\ \A x \in Activities : journal'[x] = journal[x]
         /\ \A got : GotRight(got, journal) => GotRight(got, journal')
         /\ \A me, tag : \A b \in Branches : WriterFits(me, b, tag, journal) => WriterFits(me, b, tag, journal')
<1>1. journal \in [Ids -> Seq(Events)] /\ Workflow \notin Activities
  BY DataAssumption DEF IInv, TypeOK
<1>2. journal'[Workflow] = Append(journal[Workflow], e) /\ \A x \in Activities : journal'[x] = journal[x]
  BY <1>1 DEF AppendTo, Ids
<1>3. ASSUME NEW got, GotRight(got, journal) PROVE GotRight(got, journal')
  BY <1>2, <1>3 DEF GotRight
<1>4. ASSUME NEW me, NEW tag, NEW b \in Branches, WriterFits(me, b, tag, journal) PROVE WriterFits(me, b, tag, journal')
  <2>1. CASE me.pc \in Writing
    <3>1. me.at \in 1..Len(Program[b])
      BY <1>4, <2>1 DEF WriterFits, Writing
    <3>2. Program[b][me.at] \in Activities
      BY <3>1, ProgramAssumption, ElementOfSeq
    <3>3. journal'[Program[b][me.at]] = journal[Program[b][me.at]]
      BY <1>2, <3>2
    <3> QED BY <1>4, <3>3 DEF WriterFits
  <2>2. CASE me.pc \notin Writing
    BY <1>4, <2>2 DEF WriterFits
  <2> QED BY <2>1, <2>2
<1> QED BY <1>2, <1>3, <1>4

\* The coordinator handles messages, and nothing disturbs the workflow.
LEMMA RunsDet ==
  ASSUME NEW t, NEW cr, NEW j, NEW n, t.phase = "execute", t.tag = "Running", t.fiber # "none", t.delayed = <<>>,
         \A b \in Branches : WriterFits(cr[b], b, "Running", j) /\ SteadyBranch(cr[b]),
         ProgressFits(cr, j[Workflow], t.next, t.got), QueueFits(Queue(t), cr, t.got, FALSE), GotRight(t.got, j),
         n = 0 => \A k \in 1..Len(Queue(t)) : Queue(t)[k].type # "RequestYield"
  PROVE  AttemptDet(t, cr, j, n)
<1>1. MailFits(t, n)
  BY DEF MailFits
<1>2. BranchesFollow(t, cr, j[Workflow])
  BY DEF BranchesFollow, Live
<1> QED BY <1>1, <1>2 DEF AttemptDet

\* It handles messages once the workflow has yielded or completed.
LEMMA RestsDet ==
  ASSUME NEW t, NEW cr, NEW j, NEW n, t.phase = "execute", t.tag \in {"Yielding", "Completed"}, t.fiber # "none",
         t.delayed = <<>>, \A b \in Branches : WriterFits(cr[b], b, t.tag, j),
         t.tag = "Completed" => (\A b \in Branches : SteadyBranch(cr[b])) /\ \A x \in Activities : Gone(cr, x),
         GotRight(t.got, j),
         n = 0 => \A k \in 1..Len(Queue(t)) : Queue(t)[k].type # "RequestYield"
  PROVE  AttemptDet(t, cr, j, n)
<1>1. MailFits(t, n)
  BY DEF MailFits
<1>2. BranchesFollow(t, cr, j[Workflow])
  BY DEF BranchesFollow, Live, Steady
<1> QED BY <1>1, <1>2 DEF AttemptDet

\* The next event neither forks nor joins.
LEMMA ProgressRecords ==
  ASSUME NEW J \in Seq(Events), NEW e \in Events, e.type \notin {"Forked", "Joined"},
         NEW br, NEW got, ProgressFits(br, J, Len(J), got)
  PROVE  ProgressFits(br, Append(J, e), Len(J) + 1, got)
<1>1. PICK n \in Nat : n = Len(J)
  BY LenProperties
<1>2. PICK K : K = Append(J, e)
  OBVIOUS
<1>3. (\A k \in 1..n : K[k] = J[k]) /\ K[n + 1] = e
  BY <1>1, <1>2, Appended
<1>4. ASSUME NEW type \in {"Forked", "Joined"}, NEW x PROVE OnRecord(K, n + 1, type, x) <=> OnRecord(J, n, type, x)
  <2>1. OnRecord(K, n + 1, type, x) <=> OnRecord(J, n, type, x) \/ (K[n + 1].type = type /\ K[n + 1].id = x)
    BY <1>3, OneMore
  <2> QED BY <1>3, <2>1
<1>5. ProgressFits(br, J, n, got)
  BY <1>1
<1>6. ProgressFits(br, K, n + 1, got)
  BY <1>4, <1>5 DEF ProgressFits
<1> QED BY <1>1, <1>2, <1>6

LEMMA HandleNotStartedDet ==
  ASSUME Determined, IInv, IInv', DetInv, NEW a \in Attempts, HandleNotStarted(a)
  PROVE  DetInv'
<1>1. PICK r : r = attempt[a]
  OBVIOUS
<1>2. PICK J : J = journal[Workflow]
  OBVIOUS
<1>3. PICK e : e = Attempted(r.code, 0)
  OBVIOUS
<1>4. PICK t : t = [r EXCEPT !.tag = "Running", !.version = r.code, !.next = 1, !.fiber = "running"]
  OBVIOUS
<1>5. /\ r.phase = "execute" /\ r.tag = "NotStarted" /\ branch' = branch /\ yields' = yields
      /\ journal' = AppendTo(journal, Workflow, e) /\ attempt' = [attempt EXCEPT ![a] = t]
  BY <1>1, <1>3, <1>4 DEF HandleNotStarted, Record, limits
<1>6. /\ r \in AttemptType /\ J \in Seq(Events) /\ CoordinatorFits(r, J) /\ HistoryFits(J) /\ GotRight(r.got, journal)
      /\ MailFits(r, yields) /\ BranchesFollow(r, branch[a], J)
  BY <1>1, <1>2, Settled
<1>7. J = <<>> /\ r.code \in Versions
  BY <1>5, <1>6 DEF CoordinatorFits, Live
<1>8. branch[a] = Ready
  BY <1>5, <1>6 DEF BranchesFollow
<1>9. e \in Events /\ e.type = "Attempted"
  BY <1>3, <1>7, MakeEvents DEF Attempted
<1>10. /\ t.phase = "execute" /\ t.tag = "Running" /\ t.fiber = "running" /\ t.next = 1 /\ t.delayed = r.delayed
       /\ t.backlog = r.backlog /\ t.mailbox = r.mailbox /\ t.got = r.got /\ t.broken = r.broken
  BY <1>4, <1>5, <1>6 DEF AttemptType
<1>11. Queue(t) = Queue(r) /\ t.delayed = <<>>
  BY <1>5, <1>6, <1>10 DEF Queue, Front, MailFits
<1>12. journal'[Workflow] = Append(J, e) /\ GotRight(t.got, journal')
  BY <1>2, <1>5, <1>6, <1>10, WorkflowOnly
<1>13. ProgressFits(Ready, journal'[Workflow], 1, t.got) /\ QueueFits(Queue(t), Ready, t.got, FALSE)
  <2>1. \A k \in 1..Len(Queue(t)) : Queue(t)[k].type \notin {"RequestFork", "RequestJoin", "RequestComplete"}
    BY <1>5, <1>6, <1>11 DEF MailFits
  <2>2. journal'[Workflow][1].type = "Attempted"
    BY <1>6, <1>7, <1>9, <1>12, Appended
  <2> QED BY <2>1, <2>2, FiberBegins
<1>14. \A b \in Branches : WriterFits(branch'[a][b], b, "Running", journal') /\ SteadyBranch(branch'[a][b])
  BY <1>5, <1>8, ReadyFits
<1>15. yields = 0 => \A k \in 1..Len(Queue(t)) : Queue(t)[k].type # "RequestYield"
  BY <1>6, <1>11 DEF MailFits
<1>16. AttemptDet(t, branch'[a], journal', yields)
  BY <1>5, <1>8, <1>10, <1>11, <1>12, <1>13, <1>14, <1>15, RunsDet
<1>17. Only(a) /\ attempt'[a] = t
  BY <1>5, CoordinatorOnly
<1>18. HistoryFits(Append(J, e))
  BY <1>6, <1>9, HistoryAppends
<1>19. IsLive(a)
  BY <1>1, <1>5 DEF IsLive, Live
<1> QED BY <1>1, <1>2, <1>5, <1>9, <1>10, <1>16, <1>17, <1>18, <1>19, WorkflowAppended

\* From replay to running: the messages put aside come first, in their order.
LEMMA HandleReplayDet ==
  ASSUME Determined, IInv, IInv', DetInv, NEW a \in Attempts, HandleReplay(a)
  PROVE  DetInv'
<1>1. PICK r : r = attempt[a]
  OBVIOUS
<1>2. PICK J : J = journal[Workflow]
  OBVIOUS
<1>3. PICK e : e = Attempted(r.version, r.next)
  OBVIOUS
<1>4. PICK t : t = [Taken(a) EXCEPT !.tag = "Running", !.next = @ + 1, !.delayed = <<>>,
                                    !.backlog = r.delayed \o <<Head(Pending(a))>>]
  OBVIOUS
<1>5. /\ r.phase = "execute" /\ r.tag = "Replay" /\ Pending(a) # <<>> /\ branch' = branch /\ yields' = yields
      /\ journal' = AppendTo(journal, Workflow, e) /\ attempt' = [attempt EXCEPT ![a] = t]
  BY <1>1, <1>3, <1>4 DEF HandleReplay, Record, limits
<1>6. /\ r \in AttemptType /\ J \in Seq(Events) /\ CoordinatorFits(r, J) /\ HistoryFits(J) /\ GotRight(r.got, journal)
      /\ MailFits(r, yields) /\ \A b \in Branches : WriterFits(branch[a][b], b, r.tag, journal)
  BY <1>1, <1>2, Settled
<1>7. IsLive(a)
  BY <1>1, <1>5 DEF IsLive, Live
<1>8. /\ r.fiber # "none" /\ \A b \in Branches : SteadyBranch(branch[a][b])
      /\ ProgressFits(branch[a], J, r.next, r.got) /\ QueueFits(Queue(r), branch[a], r.got, TRUE)
  BY <1>1, <1>2, <1>5, <1>7, SteadyIs
<1>9. r.next = Len(J) /\ Len(J) \in Nat /\ r.version \in Versions
  <2>1. FiberFits(r, J)
    BY <1>1, <1>2 DEF IInv, AttemptsFit
  <2> QED BY <1>5, <1>6, <1>8, <2>1, LenProperties DEF CoordinatorFits, FiberFits, Live
<1>10. e \in Events /\ e.type = "Attempted"
  BY <1>3, <1>9, MakeEvents DEF Attempted
<1>11. PICK s : s = r.mailbox
  OBVIOUS
<1>12. r.backlog = <<>> /\ s \in Seq(Messages) /\ r.delayed \in Seq(Messages)
  BY <1>5, <1>6, <1>11, QueueType DEF MailFits
<1>13. Pending(a) = s /\ s # <<>> /\ Taken(a) = [r EXCEPT !.mailbox = Tail(s)]
  <2>1. <<>> \o s = s
    BY <1>12, ConcatEmptySeq
  <2> QED BY <1>1, <1>5, <1>11, <1>12, <2>1 DEF Pending, Taken
<1>14. /\ t.phase = "execute" /\ t.tag = "Running" /\ t.fiber = r.fiber /\ t.next = r.next + 1 /\ t.delayed = <<>>
       /\ t.backlog = r.delayed \o <<Head(s)>> /\ t.mailbox = Tail(s) /\ t.got = r.got /\ t.broken = r.broken
  BY <1>4, <1>5, <1>6, <1>13 DEF AttemptType
<1>15. Queue(t) = Queue(r)
  <2>1. (r.delayed \o <<Head(s)>>) \o Tail(s) = r.delayed \o s
    BY <1>12, <1>13, MovedOver
  <2> QED BY <1>5, <1>11, <1>14, <2>1 DEF Queue, Front
<1>16. /\ journal'[Workflow] = Append(J, e) /\ GotRight(t.got, journal')
       /\ \A b \in Branches : WriterFits(branch[a][b], b, r.tag, journal')
  BY <1>2, <1>5, <1>6, <1>14, WorkflowOnly
<1>17. ProgressFits(branch'[a], journal'[Workflow], t.next, t.got)
  BY <1>5, <1>6, <1>8, <1>9, <1>10, <1>14, <1>16, ProgressRecords
<1>18. QueueFits(Queue(t), branch'[a], t.got, FALSE)
  <2>1. QueueFits(Queue(r), branch[a], r.got, FALSE)
    BY ONLY <1>8 DEF QueueFits
  <2> QED BY <1>5, <1>14, <1>15, <2>1
<1>19. \A b \in Branches : WriterFits(branch'[a][b], b, "Running", journal') /\ SteadyBranch(branch'[a][b])
  BY <1>5, <1>8, <1>16 DEF WriterFits
<1>20. yields = 0 => \A k \in 1..Len(Queue(t)) : Queue(t)[k].type # "RequestYield"
  BY <1>6, <1>15 DEF MailFits
<1>21. AttemptDet(t, branch'[a], journal', yields)
  BY <1>8, <1>14, <1>16, <1>17, <1>18, <1>19, <1>20, RunsDet
<1>22. Only(a) /\ attempt'[a] = t
  BY <1>5, CoordinatorOnly
<1>23. HistoryFits(Append(J, e))
  BY <1>6, <1>10, HistoryAppends
<1> QED BY <1>1, <1>2, <1>5, <1>7, <1>10, <1>14, <1>21, <1>22, <1>23, WorkflowAppended

\* The coordinator takes the next message.
LEMMA TakenIs ==
  ASSUME IInv, DetInv, NEW a \in Attempts, attempt[a].phase = "execute", attempt[a].tag # "Replay", Pending(a) # <<>>,
         NEW r, r = attempt[a], NEW t, t = Taken(a), NEW m, m = Head(Pending(a))
  PROVE  /\ r \in AttemptType /\ t \in AttemptType /\ m \in Messages
         /\ Queue(r) \in Seq(Messages) /\ 1 \in 1..Len(Queue(r)) /\ m = Queue(r)[1]
         /\ Front(t) = t.backlog /\ t.backlog \o t.mailbox \in Seq(Messages)
         /\ Shorter(Queue(r), 1, t.backlog \o t.mailbox)
         /\ t.phase = "execute" /\ t.tag = r.tag /\ t.next = r.next /\ t.fiber = r.fiber /\ t.got = r.got
         /\ t.broken = r.broken /\ t.delayed = <<>> /\ DOMAIN t = DOMAIN r
<1>1. r \in AttemptType /\ MailFits(r, yields)
  BY Settled
<1>2. /\ t \in AttemptType /\ m \in Messages
      /\ t.phase = r.phase /\ t.tag = r.tag /\ t.next = r.next /\ t.fiber = r.fiber
  BY TakenType
<1>3. /\ t.got = r.got /\ t.broken = r.broken /\ t.delayed = r.delayed
      /\ IF r.backlog # <<>> THEN t.backlog = Tail(r.backlog) /\ t.mailbox = r.mailbox
         ELSE t.backlog = r.backlog /\ t.mailbox = Tail(r.mailbox)
  BY <1>1 DEF Taken, AttemptType
<1>4. r.delayed = <<>>
  BY <1>1 DEF MailFits
<1>5. PICK f \in Seq(Messages) : f = r.backlog
  BY <1>1, QueueType
<1>6. PICK s \in Seq(Messages) : s = r.mailbox
  BY <1>1, QueueType
<1>7. Queue(r) = f \o s /\ Pending(a) = f \o s
  BY <1>5, <1>6 DEF Queue, Front, Pending
<1>8. f \o s # <<>> /\ f \o s \in Seq(Messages)
  BY <1>7, ConcatProperties
<1>9. m = (f \o s)[1] /\ 1 \in 1..Len(f \o s)
  <2>1. Shorter(f \o s, 1, Tail(f \o s)) /\ Head(f \o s) = (f \o s)[1]
    BY <1>8, TailShorter
  <2> QED BY <1>7, <2>1 DEF Shorter
<1>10. Shorter(f \o s, 1, t.backlog \o t.mailbox)
  <2>1. CASE f # <<>>
    <3>1. Tail(f) \in Seq(Messages) /\ Shorter(f, 1, Tail(f))
      BY <2>1, TailShorter
    <3>2. Shorter(f \o s, 1, Tail(f) \o s)
      BY <3>1, ShorterFront
    <3> QED BY <1>3, <1>5, <1>6, <2>1, <3>2
  <2>2. CASE f = <<>>
    <3>1. f \o s = s
      BY <2>2, ConcatEmptySeq
    <3>2. s # <<>> /\ Tail(s) \in Seq(Messages) /\ Shorter(s, 1, Tail(s))
      BY <1>8, <3>1, TailShorter
    <3>3. <<>> \o Tail(s) = Tail(s)
      BY <3>2, ConcatEmptySeq
    <3> QED BY <1>3, <1>5, <1>6, <2>2, <3>1, <3>2, <3>3
  <2> QED BY <2>1, <2>2
<1>11. t.backlog \o t.mailbox \in Seq(Messages)
  BY <1>2, QueueType, ConcatProperties
<1>12. Front(t) = t.backlog
  BY <1>2 DEF Front
<1>13. DOMAIN t = DOMAIN r
  BY <1>1, <1>2 DEF AttemptType
<1> QED BY <1>1, <1>2, <1>3, <1>4, <1>7, <1>8, <1>9, <1>10, <1>11, <1>12, <1>13

\* What the handler of a message can rely on.
LEMMA Handles ==
  ASSUME IInv, DetInv, NEW a \in Attempts, attempt[a].phase = "execute", attempt[a].tag # "Replay", Pending(a) # <<>>,
         NEW r, r = attempt[a], NEW br, br = branch[a], NEW J, J = journal[Workflow]
  PROVE  /\ IsLive(a) /\ r \in AttemptType /\ br \in [Branches -> BranchType] /\ J \in Seq(Events) /\ HistoryFits(J)
         /\ GotRight(r.got, journal) /\ \A b \in Branches : WriterFits(br[b], b, r.tag, journal)
         /\ r.tag = "Running" => r.next = Len(J) /\ r.next \in Nat
         /\ r.tag \in {"Running", "Completed"} => \A b \in Branches : SteadyBranch(br[b])
         /\ r.tag = "Completed" => \A x \in Activities : Gone(br, x)
         /\ r.tag = "Running" => ProgressFits(br, J, r.next, r.got) /\ QueueFits(Queue(r), br, r.got, FALSE)
         /\ r.tag \in {"Running", "Completed", "Yielding"} => r.fiber # "none"
         /\ yields = 0 => \A k \in 1..Len(Queue(r)) : Queue(r)[k].type # "RequestYield"
<1>1. /\ r \in AttemptType /\ br \in [Branches -> BranchType] /\ J \in Seq(Events) /\ HistoryFits(J)
      /\ GotRight(r.got, journal) /\ (\A b \in Branches : WriterFits(br[b], b, r.tag, journal))
      /\ CoordinatorFits(r, J) /\ MailFits(r, yields)
  BY Settled
<1>2. IsLive(a)
  BY DEF IsLive, Live
<1>3. r.tag = "Running" => r.next = Len(J) /\ r.next \in Nat
  BY <1>1, LenProperties DEF CoordinatorFits, Live
<1>4. r.tag \in {"Running", "Completed"} => \A b \in Branches : SteadyBranch(br[b])
  BY <1>2, SteadyIs
<1>5. r.tag = "Completed" => \A x \in Activities : Gone(br, x)
  BY <1>2, SteadyIs
<1>6. r.tag = "Running" => ProgressFits(br, J, r.next, r.got) /\ QueueFits(Queue(r), br, r.got, FALSE)
  <2>1. SUFFICES ASSUME r.tag = "Running" PROVE ProgressFits(br, J, r.next, r.got) /\ QueueFits(Queue(r), br, r.got, FALSE)
    OBVIOUS
  <2>2. ProgressFits(br, J, r.next, r.got)
    BY <1>2, <2>1, SteadyIs
  <2>3. QueueFits(Queue(r), br, r.got, r.tag = "Replay")
    BY <1>2, <2>1, SteadyIs
  <2>4. (r.tag = "Replay") = FALSE
    BY <2>1
  <2> QED BY <2>2, <2>3, <2>4
<1>7. r.tag \in {"Running", "Completed", "Yielding"} => r.fiber # "none"
  BY <1>1, <1>2 DEF CoordinatorFits, IsLive
<1>8. yields = 0 => \A k \in 1..Len(Queue(r)) : Queue(r)[k].type # "RequestYield"
  BY <1>1 DEF MailFits
<1> QED BY <1>1, <1>2, <1>3, <1>4, <1>5, <1>6, <1>7, <1>8

\* The messages left are some of those before.
LEMMA StillNoYield ==
  ASSUME NEW q \in Seq(Messages), NEW p \in Seq(Messages), NEW h, Shorter(q, h, p),
         \A k \in 1..Len(q) : q[k].type # "RequestYield"
  PROVE  \A k \in 1..Len(p) : p[k].type # "RequestYield"
<1>1. \A k \in 1..Len(p) : \E j \in 1..Len(q) : p[k] = q[j]
  BY ShorterFrom
<1> QED BY <1>1

\* A request is granted and goes on record.
LEMMA GrantsDet ==
  ASSUME Determined, IInv, IInv', DetInv, NEW a \in Attempts, attempt[a].phase = "execute", attempt[a].tag = "Running",
         Pending(a) # <<>>, yields' = yields, NEW m, m = Head(Pending(a)), m.type \in {"RequestFork", "RequestJoin"},
         NEW e \in Events, GrantedBy(m, e), NEW J, J = journal[Workflow], HistoryFits(Append(J, e)),
         e.type = "Joined" => IsCompleted(journal[e.id]),
         Record(a, e, [Taken(a) EXCEPT !.next = @ + 1]), Allow(a, m)
  PROVE  DetInv'
<1>1. PICK r : r = attempt[a]
  OBVIOUS
<1>2. PICK br : br = branch[a]
  OBVIOUS
<1>3. PICK s : s = Taken(a)
  OBVIOUS
<1>4. PICK t : t = [s EXCEPT !.next = @ + 1]
  OBVIOUS
<1>5. journal' = AppendTo(journal, Workflow, e) /\ attempt' = [attempt EXCEPT ![a] = t]
  BY <1>3, <1>4 DEF Record
<1>6. /\ r \in AttemptType /\ s \in AttemptType /\ m \in Messages
      /\ Queue(r) \in Seq(Messages) /\ 1 \in 1..Len(Queue(r)) /\ m = Queue(r)[1]
      /\ Front(s) = s.backlog /\ s.backlog \o s.mailbox \in Seq(Messages)
      /\ Shorter(Queue(r), 1, s.backlog \o s.mailbox)
      /\ s.phase = "execute" /\ s.tag = "Running" /\ s.next = r.next /\ s.fiber = r.fiber /\ s.got = r.got
      /\ s.broken = r.broken /\ s.delayed = <<>>
  BY <1>1, <1>3, TakenIs
<1>7. /\ IsLive(a) /\ br \in [Branches -> BranchType] /\ J \in Seq(Events)
      /\ GotRight(r.got, journal) /\ (\A b \in Branches : WriterFits(br[b], b, "Running", journal))
      /\ r.next = Len(J) /\ r.next \in Nat /\ (\A b \in Branches : SteadyBranch(br[b]))
      /\ ProgressFits(br, J, r.next, r.got) /\ QueueFits(Queue(r), br, r.got, FALSE) /\ r.fiber # "none"
      /\ yields = 0 => \A k \in 1..Len(Queue(r)) : Queue(r)[k].type # "RequestYield"
  BY <1>1, <1>2, Handles
<1>8. /\ t.phase = "execute" /\ t.tag = "Running" /\ t.next = r.next + 1 /\ t.fiber = r.fiber /\ t.got = r.got
      /\ t.broken = r.broken /\ t.delayed = <<>> /\ t.backlog = s.backlog /\ t.mailbox = s.mailbox
  BY <1>4, <1>6 DEF AttemptType
<1>9. Queue(t) = s.backlog \o s.mailbox
  BY <1>8 DEF Queue, Front
<1>10. PICK pc : /\ (m.type = "RequestFork" /\ pc = "forking") \/ (m.type = "RequestJoin" /\ pc = "joining")
                 /\ Awaited(br, m, pc)
  BY <1>6, <1>7 DEF QueueFits
<1>11. Granted(br, branch'[a], m) /\ \A c \in Attempts \ {a} : branch'[c] = branch[c]
  BY <1>2, <1>6, <1>7, <1>10, AllowIs
<1>12. \A b \in Branches : WriterFits(branch'[a][b], b, "Running", journal)
  <2>1. \A tag, j : \A b \in Branches : WriterFits(br[b], b, tag, j) => WriterFits(branch'[a][b], b, tag, j)
    BY <1>2, <1>6, <1>7, <1>10, AllowIs
  <2> QED BY <1>7, <2>1
<1>13. /\ journal'[Workflow] = Append(J, e) /\ GotRight(t.got, journal')
       /\ \A b \in Branches : WriterFits(branch'[a][b], b, "Running", journal')
  BY <1>5, <1>7, <1>8, <1>12, WorkflowOnly
<1>14. QueueFits(Queue(t), branch'[a], t.got, FALSE)
  <2>1. PICK p \in Seq(Messages) : p = s.backlog \o s.mailbox
    BY <1>6
  <2>2. PICK q \in Seq(Messages) : q = Queue(r)
    BY <1>6
  <2>3. Shorter(q, 1, p) /\ m = q[1] /\ QueueFits(q, br, r.got, FALSE)
    BY <1>6, <1>7, <2>1, <2>2
  <2>4. QueueFits(p, branch'[a], r.got, FALSE)
    BY ONLY Determined, <1>11, <2>3, GrantedQueue
  <2> QED BY <1>8, <1>9, <2>1, <2>4
<1>15. ProgressFits(branch'[a], journal'[Workflow], t.next, t.got)
  <2>1. PICK n \in Nat : n = r.next /\ n = Len(J)
    BY <1>7
  <2>2. PICK K : K = Append(J, e)
    OBVIOUS
  <2>3. (\A k \in 1..n : K[k] = J[k]) /\ K[n + 1] = e
    BY <1>7, <2>1, <2>2, Appended
  <2>4. ProgressFits(br, J, n, r.got) /\ GrantedBy(m, K[n + 1])
    BY <1>7, <2>1, <2>3
  <2>5. ProgressFits(branch'[a], K, n + 1, r.got)
    BY <1>11, <2>3, <2>4, GrantedProgress
  <2> QED BY <1>8, <1>13, <2>1, <2>2, <2>5
<1>16. \A b \in Branches : SteadyBranch(branch'[a][b])
  BY <1>11 DEF Granted
<1>17. yields = 0 => \A k \in 1..Len(Queue(t)) : Queue(t)[k].type # "RequestYield"
  BY <1>6, <1>7, <1>9, StillNoYield
<1>18. AttemptDet(t, branch'[a], journal', yields)
  BY <1>7, <1>8, <1>13, <1>14, <1>15, <1>16, <1>17, RunsDet
<1>19. Only(a) /\ attempt'[a] = t
  BY <1>5, <1>11, CoordinatorOnly
<1> QED BY <1>1, <1>5, <1>6, <1>7, <1>8, <1>18, <1>19, WorkflowAppended

\* The fork that is granted is the next one in the order of forks.
LEMMA ForkDet ==
  ASSUME Determined, IInv, IInv', DetInv, NEW a \in Attempts, Fork(a)
  PROVE  DetInv'
<1>1. PICK r : r = attempt[a]
  OBVIOUS
<1>2. PICK br : br = branch[a]
  OBVIOUS
<1>3. PICK m : m = Head(Pending(a))
  OBVIOUS
<1>4. PICK e : e = Forked(m.id, r.next)
  OBVIOUS
<1>5. PICK J : J = journal[Workflow]
  OBVIOUS
<1>6. /\ r.phase = "execute" /\ r.tag = "Running" /\ Pending(a) # <<>> /\ m.type = "RequestFork" /\ yields' = yields
      /\ Record(a, e, [Taken(a) EXCEPT !.next = @ + 1]) /\ Allow(a, m)
  BY <1>1, <1>3, <1>4 DEF Fork, Handling, limits
<1>7. /\ r \in AttemptType /\ m \in Messages /\ Queue(r) \in Seq(Messages) /\ 1 \in 1..Len(Queue(r)) /\ m = Queue(r)[1]
  BY <1>1, <1>3, <1>6, TakenIs
<1>8. /\ br \in [Branches -> BranchType] /\ J \in Seq(Events) /\ r.next = Len(J) /\ r.next \in Nat /\ HistoryFits(J)
      /\ ProgressFits(br, J, r.next, r.got) /\ QueueFits(Queue(r), br, r.got, FALSE)
  BY <1>1, <1>2, <1>5, <1>6, Handles
<1>9. PICK x \in Activities : x = m.id
  BY <1>6, <1>7, MessageFields
<1>10. e \in Events /\ e.type = "Forked" /\ e.id = x
  BY <1>4, <1>8, <1>9, MakeEvents DEF Forked
<1>11. ~Begun(br, x)
  <2>1. Awaited(br, m, "forking")
    BY <1>6, <1>7, <1>8 DEF QueueFits
  <2> QED BY <1>6, <1>7, <1>8, <1>9, <2>1, AwaitedIs
<1>12. ASSUME NEW y \in Activities, Before(y, x) PROVE OnRecord(J, Len(J), "Forked", y)
  <2>1. \A k \in 1..Len(Queue(r)) : Queue(r)[k].type = "RequestFork" => 1 <= k
    OBVIOUS
  <2>2. Queue(r)[1].type = "RequestFork" /\ Queue(r)[1].id = x
    BY <1>6, <1>7, <1>9
  <2>3. Begun(br, y)
    BY <1>7, <1>8, <1>12, <2>1, <2>2, NextFork
  <2> QED BY <1>8, <2>3 DEF ProgressFits
<1>13. ASSUME NEW k \in 1..Len(J), J[k].type = "Forked" PROVE Before(J[k].id, x)
  <2>1. PICK y \in Activities : y = J[k].id
    <3>1. J[k] \in Events
      BY <1>8, ElementOfSeq
    <3> QED BY <1>13, <3>1, EventFields
  <2>2. OnRecord(J, Len(J), "Forked", y)
    BY <1>13, <2>1 DEF OnRecord
  <2>3. Begun(br, y)
    BY <1>8, <2>2 DEF ProgressFits
  <2>4. ~Before(x, y)
    <3>1. SUFFICES ASSUME Before(x, y) PROVE FALSE
      OBVIOUS
    <3>2. OnRecord(J, k - 1, "Forked", x)
      BY <1>8, <1>13, <2>1, <3>1 DEF HistoryFits, ForksInOrder
    <3>3. OnRecord(J, Len(J), "Forked", x)
      <4>1. Len(J) \in Nat
        BY <1>8
      <4>2. \A l \in 1..(k - 1) : l \in 1..Len(J)
        BY <4>1
      <4> QED BY <3>2, <4>2 DEF OnRecord
    <3> QED BY <1>8, <1>11, <3>3 DEF ProgressFits
  <2> QED BY <1>11, <2>1, <2>3, <2>4, BeforeOrders
<1>14. HistoryFits(Append(J, e))
  BY <1>8, <1>10, <1>12, <1>13, HistoryAppends
<1>15. GrantedBy(m, e)
  BY <1>6, <1>9, <1>10 DEF GrantedBy
<1> QED BY <1>1, <1>3, <1>5, <1>6, <1>10, <1>14, <1>15, GrantsDet

\* The activity that is joined has its result on record.
LEMMA JoinDet ==
  ASSUME Determined, IInv, IInv', DetInv, NEW a \in Attempts, Join(a)
  PROVE  DetInv'
<1>1. PICK r : r = attempt[a]
  OBVIOUS
<1>2. PICK br : br = branch[a]
  OBVIOUS
<1>3. PICK m : m = Head(Pending(a))
  OBVIOUS
<1>4. PICK e : e = Joined(m.id, r.next)
  OBVIOUS
<1>5. PICK J : J = journal[Workflow]
  OBVIOUS
<1>6. /\ r.phase = "execute" /\ r.tag = "Running" /\ Pending(a) # <<>> /\ m.type = "RequestJoin" /\ yields' = yields
      /\ Record(a, e, [Taken(a) EXCEPT !.next = @ + 1]) /\ Allow(a, m)
  BY <1>1, <1>3, <1>4 DEF Join, Handling, limits
<1>7. /\ r \in AttemptType /\ m \in Messages /\ Queue(r) \in Seq(Messages) /\ 1 \in 1..Len(Queue(r)) /\ m = Queue(r)[1]
  BY <1>1, <1>3, <1>6, TakenIs
<1>8. /\ br \in [Branches -> BranchType] /\ J \in Seq(Events) /\ r.next = Len(J) /\ r.next \in Nat /\ HistoryFits(J)
      /\ GotRight(r.got, journal) /\ ProgressFits(br, J, r.next, r.got) /\ QueueFits(Queue(r), br, r.got, FALSE)
  BY <1>1, <1>2, <1>5, <1>6, Handles
<1>9. PICK x \in Activities : x = m.id
  BY <1>6, <1>7, MessageFields
<1>10. e \in Events /\ e.type = "Joined" /\ e.id = x
  BY <1>4, <1>8, <1>9, MakeEvents DEF Joined
<1>11. ~Gone(br, x) /\ Known(br, x)
  <2>1. Awaited(br, m, "joining")
    BY <1>6, <1>7, <1>8 DEF QueueFits
  <2> QED BY <1>6, <1>7, <1>8, <1>9, <2>1, AwaitedIs
<1>12. ~OnRecord(J, Len(J), "Joined", x)
  BY <1>8, <1>11 DEF ProgressFits
<1>13. IsCompleted(journal[x])
  BY <1>8, <1>11 DEF ProgressFits, GotRight
<1>14. HistoryFits(Append(J, e))
  BY <1>8, <1>10, <1>12, HistoryAppends
<1>15. GrantedBy(m, e)
  BY <1>6, <1>9, <1>10 DEF GrantedBy
<1> QED BY <1>1, <1>3, <1>5, <1>6, <1>10, <1>13, <1>14, <1>15, GrantsDet

\* All activities are joined when the workflow completes.
LEMMA CompleteDet ==
  ASSUME Determined, IInv, IInv', DetInv, NEW a \in Attempts, Complete(a)
  PROVE  DetInv'
<1>1. PICK r : r = attempt[a]
  OBVIOUS
<1>2. PICK br : br = branch[a]
  OBVIOUS
<1>3. PICK m : m = Head(Pending(a))
  OBVIOUS
<1>4. PICK e : e = Completed(m.exit, r.next)
  OBVIOUS
<1>5. PICK J : J = journal[Workflow]
  OBVIOUS
<1>6. PICK s : s = Taken(a)
  OBVIOUS
<1>7. PICK t : t = [s EXCEPT !.tag = "Completed", !.fiber = "ended"]
  OBVIOUS
<1>8. /\ r.phase = "execute" /\ r.tag = "Running" /\ Pending(a) # <<>> /\ m.type = "RequestComplete" /\ yields' = yields
      /\ journal' = AppendTo(journal, Workflow, e) /\ attempt' = [attempt EXCEPT ![a] = t] /\ branch' = branch
  BY <1>1, <1>3, <1>4, <1>6, <1>7 DEF Complete, Record, Handling, limits
<1>9. /\ r \in AttemptType /\ s \in AttemptType /\ m \in Messages
      /\ Queue(r) \in Seq(Messages) /\ 1 \in 1..Len(Queue(r)) /\ m = Queue(r)[1]
      /\ Front(s) = s.backlog /\ s.backlog \o s.mailbox \in Seq(Messages)
      /\ Shorter(Queue(r), 1, s.backlog \o s.mailbox)
      /\ s.phase = "execute" /\ s.tag = "Running" /\ s.next = r.next /\ s.fiber = r.fiber /\ s.got = r.got
      /\ s.broken = r.broken /\ s.delayed = <<>>
  BY <1>1, <1>3, <1>6, <1>8, TakenIs
<1>10. /\ IsLive(a) /\ br \in [Branches -> BranchType] /\ J \in Seq(Events) /\ HistoryFits(J)
       /\ GotRight(r.got, journal) /\ (\A b \in Branches : WriterFits(br[b], b, "Running", journal))
       /\ r.next = Len(J) /\ r.next \in Nat /\ (\A b \in Branches : SteadyBranch(br[b]))
       /\ ProgressFits(br, J, r.next, r.got) /\ QueueFits(Queue(r), br, r.got, FALSE)
       /\ yields = 0 => \A k \in 1..Len(Queue(r)) : Queue(r)[k].type # "RequestYield"
  BY <1>1, <1>2, <1>5, <1>8, Handles
<1>11. e \in Events /\ e.type = "Completed"
  BY <1>4, <1>8, <1>9, <1>10, MessageFields, MakeEvents DEF Completed
<1>12. /\ t.phase = "execute" /\ t.tag = "Completed" /\ t.fiber = "ended" /\ t.got = r.got
       /\ t.broken = r.broken /\ t.delayed = <<>> /\ t.backlog = s.backlog /\ t.mailbox = s.mailbox
  BY <1>7, <1>9 DEF AttemptType
<1>13. Queue(t) = s.backlog \o s.mailbox
  BY <1>12 DEF Queue, Front
<1>14. \A x \in Activities : Gone(br, x)
  BY <1>8, <1>9, <1>10 DEF QueueFits
<1>15. HistoryFits(Append(J, e))
  <2>1. \A x \in Activities : OnRecord(J, Len(J), "Joined", x)
    BY <1>10, <1>14 DEF ProgressFits
  <2> QED BY <1>10, <1>11, <2>1, HistoryAppends
<1>16. GotRight(t.got, journal') /\ \A b \in Branches : WriterFits(br[b], b, "Running", journal')
  BY <1>8, <1>10, <1>12, WorkflowOnly
<1>17. \A b \in Branches : WriterFits(br[b], b, t.tag, journal')
  BY <1>12, <1>16 DEF WriterFits
<1>18. yields = 0 => \A k \in 1..Len(Queue(t)) : Queue(t)[k].type # "RequestYield"
  BY <1>9, <1>10, <1>13, StillNoYield
<1>19. AttemptDet(t, branch'[a], journal', yields)
  BY <1>2, <1>8, <1>10, <1>12, <1>14, <1>16, <1>17, <1>18, RestsDet
<1>20. Only(a) /\ attempt'[a] = t
  BY <1>8, CoordinatorOnly
<1> QED BY <1>1, <1>5, <1>8, <1>9, <1>10, <1>11, <1>12, <1>15, <1>19, <1>20, WorkflowAppended

\* A message is handled once the workflow has yielded or completed.
LEMMA RestingDet ==
  ASSUME Determined, IInv, DetInv, NEW a \in Attempts, attempt[a].phase = "execute",
         attempt[a].tag \in {"Running", "Yielding", "Completed"}, Pending(a) # <<>>,
         NEW s, s = Taken(a), NEW t, attempt' = [attempt EXCEPT ![a] = t], journal' = journal, yields' = yields,
         \A c \in Attempts \ {a} : branch'[c] = branch[c],
         t.phase = "execute", t.tag \in {"Yielding", "Completed"}, t.fiber # "none", t.got = s.got, t.broken = s.broken,
         t.delayed = s.delayed, t.backlog = s.backlog, t.mailbox = s.mailbox,
         \A b \in Branches : WriterFits(branch'[a][b], b, t.tag, journal),
         t.tag = "Completed" => (\A b \in Branches : SteadyBranch(branch'[a][b])) /\ \A x \in Activities : Gone(branch'[a], x)
  PROVE  DetInv'
<1>1. PICK r : r = attempt[a]
  OBVIOUS
<1>2. PICK m : m = Head(Pending(a))
  OBVIOUS
<1>3. /\ Queue(r) \in Seq(Messages) /\ s.backlog \o s.mailbox \in Seq(Messages)
      /\ Shorter(Queue(r), 1, s.backlog \o s.mailbox)
      /\ s.got = r.got /\ s.broken = r.broken /\ s.delayed = <<>>
  BY <1>1, <1>2, TakenIs
<1>4. /\ GotRight(r.got, journal)
      /\ yields = 0 => \A k \in 1..Len(Queue(r)) : Queue(r)[k].type # "RequestYield"
  BY <1>1, Handles
<1>5. Queue(t) = s.backlog \o s.mailbox
  BY DEF Queue, Front
<1>6. yields = 0 => \A k \in 1..Len(Queue(t)) : Queue(t)[k].type # "RequestYield"
  BY <1>3, <1>4, <1>5, StillNoYield
<1>7. AttemptDet(t, branch'[a], journal, yields)
  BY <1>3, <1>4, <1>6, RestsDet
<1>8. Only(a) /\ attempt'[a] = t
  BY CoordinatorOnly
<1> QED BY <1>1, <1>3, <1>7, <1>8, QuietStep

LEMMA StartYieldingDet ==
  ASSUME Determined, IInv, IInv', DetInv, NEW a \in Attempts, StartYielding(a)
  PROVE  DetInv'
<1>1. PICK s : s = Taken(a)
  OBVIOUS
<1>2. PICK t : t = [s EXCEPT !.tag = "Yielding"]
  OBVIOUS
<1>3. /\ attempt[a].phase = "execute" /\ attempt[a].tag = "Running" /\ Pending(a) # <<>>
      /\ journal' = journal /\ yields' = yields /\ branch' = branch /\ attempt' = [attempt EXCEPT ![a] = t]
  BY <1>1, <1>2 DEF StartYielding, Handling, limits
<1>4. s \in AttemptType /\ s.phase = "execute" /\ s.fiber = attempt[a].fiber
  BY <1>1, <1>3, TakenIs
<1>5. attempt[a].fiber # "none" /\ \A b \in Branches : WriterFits(branch[a][b], b, attempt[a].tag, journal)
  BY <1>3, Handles
<1>6. /\ t.phase = "execute" /\ t.tag = "Yielding" /\ t.fiber # "none" /\ t.got = s.got /\ t.broken = s.broken
      /\ t.delayed = s.delayed /\ t.backlog = s.backlog /\ t.mailbox = s.mailbox
  BY <1>2, <1>4, <1>5 DEF AttemptType
<1>7. \A b \in Branches : WriterFits(branch'[a][b], b, "Yielding", journal)
  BY <1>3, <1>5 DEF WriterFits
<1> QED BY <1>1, <1>3, <1>6, <1>7, RestingDet, ZenonT(60)

LEMMA EndUnrecordedDet ==
  ASSUME Determined, IInv, IInv', DetInv, NEW a \in Attempts, EndUnrecorded(a)
  PROVE  DetInv'
<1>1. PICK s : s = Taken(a)
  OBVIOUS
<1>2. PICK t : t = [s EXCEPT !.fiber = "ended"]
  OBVIOUS
<1>3. /\ attempt[a].phase = "execute" /\ attempt[a].tag \in {"Yielding", "Completed"} /\ Pending(a) # <<>>
      /\ journal' = journal /\ yields' = yields /\ branch' = branch /\ attempt' = [attempt EXCEPT ![a] = t]
  BY <1>1, <1>2 DEF EndUnrecorded, Handling, limits
<1>4. s \in AttemptType /\ s.phase = "execute" /\ s.tag = attempt[a].tag
  BY <1>1, <1>3, TakenIs
<1>5. /\ \A b \in Branches : WriterFits(branch[a][b], b, attempt[a].tag, journal)
      /\ attempt[a].tag = "Completed" => (\A b \in Branches : SteadyBranch(branch[a][b])) /\ \A x \in Activities : Gone(branch[a], x)
  BY <1>3, Handles
<1>6. /\ t.phase = "execute" /\ t.tag = attempt[a].tag /\ t.fiber # "none" /\ t.got = s.got /\ t.broken = s.broken
      /\ t.delayed = s.delayed /\ t.backlog = s.backlog /\ t.mailbox = s.mailbox
  BY <1>2, <1>4 DEF AttemptType
<1> QED BY <1>1, <1>3, <1>5, <1>6, RestingDet

\* The coordinator takes a message and does nothing with it but to wake a branch.
LEMMA OnlyTaken ==
  ASSUME Determined, IInv, DetInv, NEW a \in Attempts, attempt[a].phase = "execute",
         attempt[a].tag \in {"Yielding", "Completed"}, Pending(a) # <<>>,
         attempt' = [attempt EXCEPT ![a] = Taken(a)], journal' = journal, yields' = yields,
         \A c \in Attempts \ {a} : branch'[c] = branch[c],
         \A b \in Branches : WriterFits(branch[a][b], b, attempt[a].tag, journal) => WriterFits(branch'[a][b], b, attempt[a].tag, journal),
         attempt[a].tag = "Completed" => branch'[a] = branch[a]
  PROVE  DetInv'
<1>1. PICK s : s = Taken(a)
  OBVIOUS
<1>2. s.phase = "execute" /\ s.tag = attempt[a].tag /\ s.fiber = attempt[a].fiber
  BY <1>1, TakenIs
<1>3. /\ attempt[a].fiber # "none" /\ \A b \in Branches : WriterFits(branch[a][b], b, attempt[a].tag, journal)
      /\ attempt[a].tag = "Completed" => (\A b \in Branches : SteadyBranch(branch[a][b])) /\ \A x \in Activities : Gone(branch[a], x)
  BY Handles
<1>4. \A b \in Branches : WriterFits(branch'[a][b], b, s.tag, journal)
  BY <1>2, <1>3
<1>5. s.tag = "Completed" => (\A b \in Branches : SteadyBranch(branch'[a][b])) /\ \A x \in Activities : Gone(branch'[a], x)
  BY <1>2, <1>3
<1> QED BY <1>1, <1>2, <1>3, <1>4, <1>5, RestingDet

LEMMA IgnoreYieldDet ==
  ASSUME Determined, IInv, IInv', DetInv, NEW a \in Attempts, IgnoreYield(a)
  PROVE  DetInv'
<1>1. /\ attempt[a].phase = "execute" /\ attempt[a].tag \in {"Yielding", "Completed"} /\ Pending(a) # <<>>
      /\ journal' = journal /\ yields' = yields /\ branch' = branch /\ attempt' = [attempt EXCEPT ![a] = Taken(a)]
  BY DEF IgnoreYield, Handling, limits
<1> QED BY <1>1, OnlyTaken

\* A branch whose activities are joined waits for nothing.
LEMMA NobodyWaits ==
  ASSUME Determined, IInv, DetInv, NEW a \in Attempts, attempt[a].phase = "execute", attempt[a].tag = "Completed",
         Pending(a) # <<>>, NEW b \in Branches
  PROVE  branch[a][b].pc \notin {"forking", "joining", "asking"}
<1>1. /\ branch[a] \in [Branches -> BranchType] /\ \A x \in Activities : Gone(branch[a], x)
      /\ WriterFits(branch[a][b], b, "Completed", journal)
  BY Handles
<1>2. branch[a][b].at \notin 1..Len(Program[b])
  BY <1>1, NotGone
<1> QED BY <1>1, <1>2 DEF WriterFits

LEMMA RefuseRequestDet ==
  ASSUME Determined, IInv, IInv', DetInv, NEW a \in Attempts, RefuseRequest(a)
  PROVE  DetInv'
<1>1. PICK m : m = Head(Pending(a))
  OBVIOUS
<1>2. /\ attempt[a].phase = "execute" /\ attempt[a].tag \in {"Yielding", "Completed"} /\ Pending(a) # <<>>
      /\ m.type \in {"RequestFork", "RequestJoin"} /\ Refuse(a, m)
      /\ journal' = journal /\ yields' = yields /\ attempt' = [attempt EXCEPT ![a] = Taken(a)]
  BY <1>1 DEF RefuseRequest, Handling, limits
<1>3. m \in Messages
  BY <1>1, <1>2, TakenIs
<1>4. PICK b \in Branches : b = m.branch
  BY <1>2, <1>3, MessageFields
<1>5. PICK pc : pc = IF m.type = "RequestFork" THEN "joinable" ELSE "stopped"
  OBVIOUS
<1>6. PICK me : me = [branch[a][b] EXCEPT !.pc = pc, !.cut = TRUE]
  OBVIOUS
<1>7. branch \in [Attempts -> [Branches -> BranchType]]
  BY DEF IInv, TypeOK
<1>8. WaitsFor(m) \in {"forking", "joining"}
  BY <1>2 DEF WaitsFor
<1>9. branch' = IF branch[a][b].pc = WaitsFor(m) THEN [branch EXCEPT ![a][b] = me] ELSE branch
  <2>1. b # NoBranch
    BY DataAssumption
  <2> QED BY <1>2, <1>4, <1>5, <1>6, <2>1 DEF Refuse, Wake
<1>10. CASE branch' = branch
  BY <1>2, <1>10, OnlyTaken
<1>11. CASE branch[a][b].pc = WaitsFor(m) /\ branch' = [branch EXCEPT ![a][b] = me]
  <2>1. \A c \in Attempts \ {a} : branch'[c] = branch[c]
    BY <1>7, <1>11
  <2>2. branch'[a][b] = me /\ \A d \in Branches \ {b} : branch'[a][d] = branch[a][d]
    BY <1>7, <1>11
  <2>3. attempt[a].tag # "Completed"
    BY <1>2, <1>8, <1>11, NobodyWaits
  <2>4. me.pc = pc /\ me.at = branch[a][b].at /\ pc \in {"joinable", "stopped"}
    BY <1>5, <1>6, <1>7 DEF BranchType
  <2>5. ASSUME NEW d \in Branches, WriterFits(branch[a][d], d, attempt[a].tag, journal)
        PROVE  WriterFits(branch'[a][d], d, attempt[a].tag, journal)
    <3>1. CASE d # b
      BY <2>2, <2>5, <3>1
    <3>2. CASE d = b
      <4>1. branch[a][b].pc \notin {"idle", "stopped"}
        BY <1>8, <1>11
      <4>2. me.at \in 1..Len(Program[b]) /\ me.at \in 1..(Len(Program[b]) + 1)
        BY <2>4, <2>5, <3>2, <4>1 DEF WriterFits
      <4> QED BY <2>2, <2>4, <3>2, <4>2 DEF WriterFits, Writing
    <3> QED BY <3>1, <3>2
  <2> QED BY <1>2, <2>1, <2>3, <2>5, OnlyTaken
<1> QED BY <1>9, <1>10, <1>11

\* The coordinator takes a message and the workflow runs on.
LEMMA RunsOn ==
  ASSUME Determined, IInv, DetInv, NEW a \in Attempts, attempt[a].phase = "execute", attempt[a].tag = "Running",
         Pending(a) # <<>>, Head(Pending(a)).type # "RequestFork",
         attempt' = [attempt EXCEPT ![a] = Taken(a)], journal' = journal, yields' = yields,
         \A c \in Attempts \ {a} : branch'[c] = branch[c], NEW r, r = attempt[a],
         \A b \in Branches : WriterFits(branch'[a][b], b, "Running", journal) /\ SteadyBranch(branch'[a][b]),
         ProgressFits(branch'[a], journal[Workflow], r.next, r.got), QueueFits(Queue(r), branch'[a], r.got, FALSE)
  PROVE  DetInv'
<1>1. PICK t : t = Taken(a)
  OBVIOUS
<1>2. PICK m : m = Head(Pending(a))
  OBVIOUS
<1>3. /\ Queue(r) \in Seq(Messages) /\ t.backlog \o t.mailbox \in Seq(Messages) /\ m = Queue(r)[1]
      /\ Shorter(Queue(r), 1, t.backlog \o t.mailbox) /\ t.phase = "execute" /\ t.tag = "Running" /\ t.next = r.next
      /\ t.fiber = r.fiber /\ t.got = r.got /\ t.broken = r.broken /\ t.delayed = <<>>
  BY <1>1, <1>2, TakenIs
<1>4. /\ GotRight(r.got, journal) /\ r.fiber # "none"
      /\ yields = 0 => \A k \in 1..Len(Queue(r)) : Queue(r)[k].type # "RequestYield"
  BY Handles
<1>5. PICK p \in Seq(Messages) : p = t.backlog \o t.mailbox
  BY <1>3
<1>6. Queue(t) = p
  BY <1>3, <1>5 DEF Queue, Front
<1>7. PICK q \in Seq(Messages) : q = Queue(r)
  BY <1>3
<1>8. Shorter(q, 1, p) /\ q[1].type # "RequestFork" /\ QueueFits(q, branch'[a], r.got, FALSE)
  BY <1>2, <1>3, <1>5, <1>7
<1>9. QueueFits(p, branch'[a], r.got, FALSE)
  BY ONLY <1>8, QueueDrops
<1>10. yields = 0 => \A k \in 1..Len(p) : p[k].type # "RequestYield"
  BY <1>4, <1>7, <1>8, StillNoYield
<1>11. AttemptDet(t, branch'[a], journal, yields)
  BY <1>3, <1>4, <1>6, <1>9, <1>10, RunsDet
<1>12. Only(a) /\ attempt'[a] = t
  BY <1>1, CoordinatorOnly
<1> QED BY <1>3, <1>11, <1>12, QuietStep

LEMMA AnswerStatusDet ==
  ASSUME Determined, IInv, IInv', DetInv, NEW a \in Attempts, AnswerStatus(a)
  PROVE  DetInv'
<1>1. PICK m : m = Head(Pending(a))
  OBVIOUS
<1>2. PICK r : r = attempt[a]
  OBVIOUS
<1>3. /\ r.phase = "execute" /\ r.tag \in {"Running", "Yielding", "Completed"} /\ Pending(a) # <<>>
      /\ m.type = "CheckStatus" /\ TellStatus(a, m, r.tag = "Yielding")
      /\ journal' = journal /\ yields' = yields /\ attempt' = [attempt EXCEPT ![a] = Taken(a)]
  BY <1>1, <1>2 DEF AnswerStatus, Handling, limits
<1>4. /\ branch \in [Attempts -> [Branches -> BranchType]] /\ \A b \in Branches : BranchFits(branch[a][b])
  BY DEF IInv, TypeOK, BranchesFit
<1>5. WaitsFor(m) = "asking"
  BY <1>3 DEF WaitsFor
<1>6. /\ \A b \in Branches : WriterFits(branch[a][b], b, r.tag, journal)
      /\ r.tag = "Running" =>
           /\ \A b \in Branches : SteadyBranch(branch[a][b])
           /\ ProgressFits(branch[a], journal[Workflow], r.next, r.got) /\ QueueFits(Queue(r), branch[a], r.got, FALSE)
  BY <1>2, <1>3, Handles
<1>7. CASE branch' = branch /\ r.tag = "Running"
  <2>1. \A b \in Branches : WriterFits(branch'[a][b], b, "Running", journal) /\ SteadyBranch(branch'[a][b])
    BY <1>6, <1>7
  <2>2. ProgressFits(branch'[a], journal[Workflow], r.next, r.got) /\ QueueFits(Queue(r), branch'[a], r.got, FALSE)
    BY <1>6, <1>7
  <2> QED BY <1>1, <1>2, <1>3, <1>7, <2>1, <2>2, RunsOn
<1>8. CASE branch' = branch /\ r.tag # "Running"
  BY <1>2, <1>3, <1>8, OnlyTaken
<1>9. CASE m.branch \in Branches /\ branch[a][m.branch].pc = "asking"
  <2>1. PICK b \in Branches : b = m.branch /\ branch[a][b].pc = "asking"
    BY <1>9
  <2>2. b # NoBranch
    BY DataAssumption
  <2>3. PICK me : me = IF r.tag = "Yielding" THEN [Move(a, b, "joinable") EXCEPT !.exit = NoValue, !.last = 0]
                       ELSE Move(a, b, "recording")
    OBVIOUS
  <2>4. branch' = [branch EXCEPT ![a][b] = me]
    BY <1>3, <1>5, <2>1, <2>2, <2>3 DEF TellStatus, Wake
  <2>5. /\ \A c \in Attempts \ {a} : branch'[c] = branch[c]
        /\ branch'[a][b] = me /\ \A d \in Branches \ {b} : branch'[a][d] = branch[a][d]
    BY <1>4, <2>4
  <2>6. WriterFits(branch[a][b], b, r.tag, journal) /\ branch[a][b].exit \in Exits
    BY <1>4, <1>6, <2>1 DEF BranchFits
  <2>7. branch[a][b].at \in 1..Len(Program[b])
    BY <2>1, <2>6 DEF WriterFits
  <2>8. CASE r.tag = "Yielding"
    <3>1. me.pc = "joinable" /\ me.at = branch[a][b].at
      BY <1>4, <2>3, <2>8 DEF Move, BranchType
    <3>2. WriterFits(me, b, r.tag, journal)
      BY <2>6, <2>7, <3>1 DEF WriterFits, Writing
    <3>3. \A d \in Branches : WriterFits(branch[a][d], d, r.tag, journal) => WriterFits(branch'[a][d], d, r.tag, journal)
      BY <2>5, <3>2
    <3> QED BY <1>2, <1>3, <2>5, <2>8, <3>3, OnlyTaken
  <2>9. CASE r.tag = "Completed"
    BY <1>2, <1>3, <2>1, <2>9, NobodyWaits
  <2>10. CASE r.tag = "Running"
    <3>1. /\ me.pc = "recording" /\ me.at = branch[a][b].at /\ me.last = branch[a][b].last
          /\ me.exit = branch[a][b].exit /\ me.cut = branch[a][b].cut
      BY <1>4, <2>3, <2>10 DEF Move, BranchType
    <3>2. me.exit \in Values
      BY <2>1, <2>6, <2>10, <3>1 DEF WriterFits, Writing, Exits
    <3>3. WriterFits(me, b, "Running", journal)
      BY <2>1, <2>6, <2>10, <3>1, <3>2 DEF WriterFits, Writing
    <3>4. SteadyBranch(me)
      BY <1>6, <2>1, <2>10, <3>1 DEF SteadyBranch
    <3>5. \A d \in Branches : WriterFits(branch'[a][d], d, "Running", journal) /\ SteadyBranch(branch'[a][d])
      BY <1>6, <2>5, <2>10, <3>3, <3>4
    <3>6. PICK br : br = branch[a]
      OBVIOUS
    <3>7. PICK cr : cr = branch'[a]
      OBVIOUS
    <3>8. PICK i \in 1..Len(Program[b]) : i = br[b].at
      BY <2>7, <3>6
    <3>9. OnlyMoves(br, cr, b)
      <4>1. cr \in [Branches -> BranchType]
        BY <3>7 DEF IInv, TypeOK
      <4> QED BY <1>4, <2>5, <3>6, <3>7, <4>1 DEF OnlyMoves
    <3>10. br[b].pc = "asking" /\ cr[b].pc = "recording" /\ cr[b].at = i
      BY <2>1, <2>5, <3>1, <3>6, <3>7, <3>8
    <3>11. PICK q \in Seq(Messages) : q = Queue(r)
      BY <1>1, <1>2, <1>3, <2>10, TakenIs
    <3>12. ProgressFits(br, journal[Workflow], r.next, r.got) /\ QueueFits(q, br, r.got, FALSE)
      BY <1>6, <2>10, <3>6, <3>11
    <3>13. ProgressFits(cr, journal[Workflow], r.next, r.got)
      BY <3>8, <3>9, <3>10, <3>12, ProgressMoves
    <3>14. QueueFits(q, cr, r.got, FALSE)
      <4>1. PICK g : g = r.got
        OBVIOUS
      <4>2. br[b].at \in 1..Len(Program[b]) /\ br[b].pc \notin {"forking", "joining"} /\ cr[b].pc # "forking"
        BY <3>8, <3>10
      <4>3. b \in Branches /\ QueueFits(q, br, g, FALSE)
        BY <2>7, <3>12, <4>1
      <4>4. QueueFits(q, cr, g, FALSE)
        BY <3>9, <4>2, <4>3, QueueMoves
      <4> QED BY <4>1, <4>4
    <3> QED BY <1>1, <1>2, <1>3, <2>5, <2>10, <3>5, <3>7, <3>11, <3>13, <3>14, RunsOn
  <2> QED BY <1>3, <2>8, <2>9, <2>10
<1>10. branch' = branch \/ (m.branch \in Branches /\ branch[a][m.branch].pc = "asking")
  <2>1. m \in Messages
    BY <1>1, <1>2, <1>3, TakenIs
  <2>2. m.branch \in Branches \cup {NoBranch}
    BY <1>3, <2>1, MessageFields
  <2> QED BY <1>3, <1>5, <2>2 DEF TellStatus, Wake
<1> QED BY <1>3, <1>7, <1>8, <1>9, <1>10

LEMMA DetInit ==
  ASSUME Init
  PROVE  DetInv
<1>1. journal = EmptyJournal /\ yields = 0
  BY DEF Init
<1>2. Workflow \in Ids /\ \A x \in Activities : x \in Ids
  BY DEF Ids
<1>3. \A id \in Ids : journal[id] = <<>> /\ Len(journal[id]) = 0 /\ DOMAIN journal[id] = 1..0
  BY <1>1, EmptySeq, LenProperties DEF EmptyJournal
<1>4. \A k \in 1..0 : FALSE
  OBVIOUS
<1>5. HistoryFits(journal[Workflow])
  BY <1>2, <1>3, <1>4 DEF HistoryFits, ForksInOrder, JoinsOnce, ExitLast
<1>6. \A x \in Activities : RecordFits(journal[x])
  BY <1>2, <1>3, <1>4 DEF RecordFits
<1>7. JoinedHaveResult
  BY <1>2, <1>3, <1>4 DEF JoinedHaveResult
<1>8. \A a \in Attempts : DiesWell(attempt[a], journal, yields) /\ AttemptDet(attempt[a], branch[a], journal, yields)
  <2>1. SUFFICES ASSUME NEW a \in Attempts
                 PROVE  DiesWell(attempt[a], journal, yields) /\ AttemptDet(attempt[a], branch[a], journal, yields)
    OBVIOUS
  <2>2. attempt[a] = [Fresh(NoValue) EXCEPT !.phase = "absent"] /\ branch[a] = Ready
    BY DEF Init, Ended
  <2>3. AttemptDet([Fresh(NoValue) EXCEPT !.phase = "absent"], Ready, journal, yields)
    BY FreshDet
  <2>4. [Fresh(NoValue) EXCEPT !.phase = "absent"].broken = "no"
    BY FreshDet
  <2> QED BY <2>2, <2>3, <2>4 DEF DiesWell
<1> QED BY <1>5, <1>6, <1>7, <1>8, DetIs

LEMMA ReplayDet ==
  ASSUME Determined, IInv, IInv', OrderInv, DetInv, NEW a \in Attempts, Replay(a)
  PROVE  DetInv'
<1>1. CASE Read(a)
  BY <1>1, ReadDet
<1>2. CASE ReplayFirstAttempted(a)
  BY <1>2, ReplayFirstDet
<1>3. CASE ReplayAttempted(a)
  BY <1>3, ReplayAttemptedDet
<1>4. CASE ReplayCompleted(a)
  BY <1>4, ReplayCompletedDet
<1>5. CASE ReplayForked(a)
  BY <1>5, ReplayForkedDet
<1>6. CASE ReplayJoined(a)
  BY <1>6, ReplayJoinedDet
<1>7. CASE EndReplay(a)
  BY <1>7, EndReplayDet
<1> QED BY <1>1, <1>2, <1>3, <1>4, <1>5, <1>6, <1>7 DEF Replay

LEMMA HandleDet ==
  ASSUME Determined, IInv, IInv', DetInv, NEW a \in Attempts, Handle(a)
  PROVE  DetInv'
<1>1. CASE HandleNotStarted(a)
  BY <1>1, HandleNotStartedDet
<1>2. CASE HandleReplay(a)
  BY <1>2, HandleReplayDet
<1>3. CASE Complete(a)
  BY <1>3, CompleteDet
<1>4. CASE Fork(a)
  BY <1>4, ForkDet
<1>5. CASE Join(a)
  BY <1>5, JoinDet
<1>6. CASE StartYielding(a)
  BY <1>6, StartYieldingDet
<1>7. CASE EndUnrecorded(a)
  BY <1>7, EndUnrecordedDet
<1>8. CASE RefuseRequest(a)
  BY <1>8, RefuseRequestDet
<1>9. CASE IgnoreYield(a)
  BY <1>9, IgnoreYieldDet
<1>10. CASE AnswerStatus(a)
  BY <1>10, AnswerStatusDet
<1>11. CASE Finish(a)
  BY <1>11, FinishDet
<1> QED BY <1>1, <1>2, <1>3, <1>4, <1>5, <1>6, <1>7, <1>8, <1>9, <1>10, <1>11 DEF Handle

LEMMA RunBranchDet ==
  ASSUME Determined, IInv, IInv', DetInv, NEW a \in Attempts, NEW b \in Branches, RunBranch(a, b)
  PROVE  DetInv'
<1>1. CASE RequestForkOf(a, b)
  BY <1>1, RequestForkOfDet
<1>2. CASE ReadActivity(a, b)
  BY <1>2, ReadActivityDet
<1>3. CASE Attempt(a, b)
  BY <1>3, AttemptDetKeeps
<1>4. CASE Execute(a, b)
  BY <1>4, ExecuteDet
<1>5. CASE AskYielding(a, b)
  BY <1>5, AskYieldingDet
<1>6. CASE RecordExit(a, b)
  BY <1>6, RecordExitDet
<1>7. CASE RequestJoinOf(a, b)
  BY <1>7, RequestJoinOfDet
<1> QED BY <1>1, <1>2, <1>3, <1>4, <1>5, <1>6, <1>7 DEF RunBranch

LEMMA DetNext ==
  ASSUME Determined, IInv, IInv', OrderInv, DetInv, [Next]_vars
  PROVE  DetInv'
<1>1. CASE Crash
  BY <1>1, CrashDet
<1>2. ASSUME NEW a \in Attempts, Yield(a) PROVE DetInv'
  BY <1>2, YieldDet
<1>3. ASSUME NEW a \in Attempts, NEW v \in Deployed[a], Start(a, v) PROVE DetInv'
  BY <1>3, StartDet
<1>4. ASSUME NEW a \in Attempts, Progress(a) PROVE DetInv'
  <2>1. CASE Replay(a)
    BY <2>1, ReplayDet
  <2>2. CASE Handle(a)
    BY <2>2, HandleDet
  <2>3. CASE RequestCompleteOf(a)
    BY <2>3, RequestCompleteOfDet
  <2>4. ASSUME NEW b \in Branches, RunBranch(a, b) PROVE DetInv'
    BY <2>4, RunBranchDet
  <2>5. ASSUME NEW b \in Branches, Interrupt(a, b) PROVE DetInv'
    BY <2>5, InterruptDet
  <2> QED BY <1>4, <2>1, <2>2, <2>3, <2>4, <2>5 DEF Progress
<1>5. CASE UNCHANGED vars
  <2>1. journal' = journal /\ attempt' = attempt /\ branch' = branch /\ yields' = yields
    BY <1>5 DEF vars
  <2> QED BY <2>1, DetIs, DetNextIs DEF JoinedHaveResult
<1> QED BY <1>1, <1>2, <1>3, <1>4, <1>5 DEF Next

\* The branches of every attempt follow the journal.
LEMMA Followed ==
  ASSUME Determined
  PROVE  Spec => []DetInv
<1>1. Init => DetInv
  BY DetInit
<1>2. IInv /\ IInv' /\ OrderInv /\ DetInv /\ [Next]_vars => DetInv'
  BY DetNext
<1> QED BY <1>1, <1>2, Inductive, OrderKept, PTL DEF Spec
----------------------------------------------------------------------------
(* Theorems about programs whose forks have one order.                     *)

\* The events of the workflow and of its activities are numbered one by one, whichever attempts
\* wrote them: an activity's number comes from the journal it read before it started
\* (Activity.make), to which nobody else appends while it runs.
THEOREM JournalsInOrder ==
  ASSUME Determined
  PROVE  Spec => []JournalInOrder
<1>1. IInv /\ DetInv => JournalInOrder
  <2>1. SUFFICES ASSUME IInv, DetInv PROVE JournalInOrder
    OBVIOUS
  <2>2. \A x \in Activities : RecordFits(journal[x]) /\ journal[x] \in Seq(Events)
    BY <2>1, DetIs DEF IInv, TypeOK, Ids
  <2>3. \A x \in Activities : \A k \in DOMAIN journal[x] : journal[x][k].sequence = k
    <3>1. \A x \in Activities : DOMAIN journal[x] = 1..Len(journal[x])
      BY <2>2, LenProperties
    <3> QED BY <2>2, <3>1 DEF RecordFits
  <2> QED BY <2>1, <2>3 DEF JournalInOrder, IInv, WorkflowInOrder, InOrder
<1> QED BY <1>1, Inductive, Followed, PTL

\* An activity the workflow's journal has as joined has its result in its own journal: the
\* activity's exit is recorded before forkAndJoin asks for the join (WorkflowRuntime.attempt).
THEOREM JoinedOnRecord ==
  ASSUME Determined
  PROVE  Spec => []JoinedHaveResult
<1>1. DetInv => JoinedHaveResult
  BY DEF DetInv
<1> QED BY <1>1, Followed, PTL

\* A coordinator dies of broken determinism, or of events out of order (WorkflowRuntime.attempt),
\* only after an interruption, and only if the execution has completed.
THEOREM DeterminismKept ==
  ASSUME Determined
  PROVE  Spec => []ReplayIsDeterministic
<1>1. DetInv => ReplayIsDeterministic
  BY DEF DetInv
<1> QED BY <1>1, Followed, PTL

\* An activity whose exit is on record is not run again, whichever attempts crashed, were
\* interrupted or replayed it: the journal is read once the fork is permitted, and only the
\* branch that read it writes it.
THEOREM NeverRunAgain ==
  ASSUME Determined
  PROVE  Spec => NoReexecution
<1>1. ASSUME IInv, DetInv, NEW a \in Attempts, NEW b \in Branches, Execute(a, b) PROVE ~IsCompleted(journal[Activity(a, b)])
  <2>1. branch[a][b].pc \in Writing
    BY <1>1 DEF Execute, At, Writing
  <2> QED BY <1>1, <2>1, WriterLives DEF Activity
<1>2. IInv /\ DetInv => [\A a \in Attempts, b \in Branches : Execute(a, b) => ~IsCompleted(journal[Activity(a, b)])]_vars
  BY <1>1
<1> QED BY <1>2, Inductive, Followed, PTL DEF NoReexecution

----------------------------------------------------------------------------
(* The refinement of durable execution.                                    *)

\* What DurableExecution sees of the journals.
Decided == [x \in Activities |-> ExitOf(journal[x])]
Outcome == ExitOf(journal[Workflow])

\* Nothing is decided at first.
LEMMA DurableInit == Init => Durable!Init
<1> SUFFICES ASSUME Init PROVE Durable!Init
  OBVIOUS
<1>1. \A id \in Ids : journal[id] = <<>>
  BY DEF Init, EmptyJournal
<1>2. <<>> \in Seq(Events) /\ ~IsCompleted(<<>>)
  BY DEF IsCompleted
<1>3. ExitOf(<<>>) = NoValue
  BY <1>2, CompletedHasExit
<1>4. (\A x \in Activities : ExitOf(journal[x]) = NoValue) /\ ExitOf(journal[Workflow]) = NoValue
  BY <1>1, <1>3 DEF Ids
<1> QED BY <1>4 DEF Durable!Init

\* The steps that append nothing.
LEMMA JournalStands ==
  ASSUME NEW a \in Attempts
  PROVE  /\ Crash \/ Yield(a) \/ Replay(a) \/ RequestCompleteOf(a) => journal' = journal
         /\ \A v : Start(a, v) => journal' = journal
         /\ StartYielding(a) \/ EndUnrecorded(a) \/ RefuseRequest(a) \/ IgnoreYield(a) \/ AnswerStatus(a) \/ Finish(a)
              => journal' = journal
         /\ \A b \in Branches :
              RequestForkOf(a, b) \/ ReadActivity(a, b) \/ Execute(a, b) \/ AskYielding(a, b) \/ RequestJoinOf(a, b) \/ Interrupt(a, b)
                => journal' = journal
<1>1. Crash \/ Yield(a) \/ RequestCompleteOf(a) => journal' = journal
  BY DEF Crash, Yield, RequestCompleteOf
<1>2. Replay(a) => journal' = journal
  <2>1. \A type : Replaying(a, type) => journal' = journal
    BY DEF Replaying
  <2>2. Read(a) \/ EndReplay(a) => journal' = journal
    BY DEF Read, EndReplay
  <2>3. ReplayFirstAttempted(a) \/ ReplayAttempted(a) \/ ReplayCompleted(a) => journal' = journal
    BY <2>1 DEF ReplayFirstAttempted, ReplayAttempted, ReplayCompleted
  <2>4. ReplayForked(a) => journal' = journal
    BY <2>1, Zenon DEF ReplayForked
  <2>5. ReplayJoined(a) => journal' = journal
    BY <2>1, Zenon DEF ReplayJoined
  <2> QED BY <2>2, <2>3, <2>4, <2>5 DEF Replay
<1>3. \A v : Start(a, v) => journal' = journal
  BY DEF Start, Begin
<1>4. StartYielding(a) \/ EndUnrecorded(a) \/ RefuseRequest(a) \/ IgnoreYield(a) \/ AnswerStatus(a) \/ Finish(a)
        => journal' = journal
  BY DEF StartYielding, EndUnrecorded, RefuseRequest, IgnoreYield, AnswerStatus, Finish
<1>5. ASSUME NEW b \in Branches
      PROVE  RequestForkOf(a, b) \/ ReadActivity(a, b) \/ Execute(a, b) \/ AskYielding(a, b) \/ RequestJoinOf(a, b) \/ Interrupt(a, b)
                => journal' = journal
  BY DEF RequestForkOf, ReadActivity, Execute, AskYielding, RequestJoinOf, Interrupt
<1> QED BY <1>1, <1>2, <1>3, <1>4, <1>5

\* An event of the workflow that is not its exit decides nothing.
LEMMA WorkflowGoesOn ==
  ASSUME IInv, NEW e \in Events, e.type # "Completed", journal' = AppendTo(journal, Workflow, e)
  PROVE  UNCHANGED <<Decided, Outcome>>
<1>1. journal[Workflow] \in Seq(Events)
  BY DEF IInv, TypeOK, Ids
<1>2. journal'[Workflow] = Append(journal[Workflow], e) /\ \A x \in Activities : journal'[x] = journal[x]
  BY WorkflowOnly
<1>3. ExitOf(journal'[Workflow]) = ExitOf(journal[Workflow])
  BY <1>1, <1>2, AppendedExit
<1> QED BY <1>2, <1>3 DEF Decided, Outcome

\* The coordinator appends an event that is not an exit.
LEMMA EventIsTyped ==
  ASSUME IInv, IInv', NEW e, journal' = AppendTo(journal, Workflow, e)
  PROVE  e \in Events
<1>1. /\ journal[Workflow] \in Seq(Events) /\ journal'[Workflow] \in Seq(Events)
      /\ journal'[Workflow] = Append(journal[Workflow], e)
  BY WorkflowOnly DEF IInv, TypeOK, Ids
<1> DEFINE J == journal[Workflow]
           K == journal'[Workflow]
<1>2. Len(J) \in Nat /\ Len(K) = Len(J) + 1 /\ K[Len(J) + 1] = e
  <2> HIDE DEF K
  <2>1. J \in Seq(Events) /\ K = Append(J, e)
    BY <1>1 DEF K
  <2> HIDE DEF J
  <2>2. Len(J) \in Nat
    BY <2>1, LenProperties
  <2>3. Len(Append(J, e)) = Len(J) + 1 /\ Append(J, e)[Len(J) + 1] = e
    BY <2>1, <2>2
  <2> QED BY <2>1, <2>2, <2>3
<1>3. Len(J) + 1 \in 1..Len(K)
  BY <1>2
<1> QED BY <1>1, <1>2, <1>3, ElementOfSeq

\* The coordinator decides nothing before the workflow ends.
LEMMA WorkflowSteps ==
  ASSUME IInv, IInv', NEW a \in Attempts, HandleNotStarted(a) \/ HandleReplay(a) \/ Fork(a) \/ Join(a)
  PROVE  UNCHANGED <<Decided, Outcome>>
<1>1. PICK e : e.type # "Completed" /\ journal' = AppendTo(journal, Workflow, e)
  <2>1. CASE HandleNotStarted(a)
    BY <2>1 DEF HandleNotStarted, Record, Attempted
  <2>2. CASE HandleReplay(a)
    BY <2>2 DEF HandleReplay, Record, Attempted
  <2>3. CASE Fork(a)
    BY <2>3 DEF Fork, Record, Forked
  <2>4. CASE Join(a)
    BY <2>4 DEF Join, Record, Joined
  <2> QED BY <2>1, <2>2, <2>3, <2>4
<1> QED BY <1>1, EventIsTyped, WorkflowGoesOn

\* An attempt of an activity decides nothing.
LEMMA AttemptDecidesNothing ==
  ASSUME IInv, IInv', DetInv, NEW a \in Attempts, NEW b \in Branches, Attempt(a, b)
  PROVE  UNCHANGED <<Decided, Outcome>>
<1>1. PICK x : x = Activity(a, b)
  OBVIOUS
<1>2. PICK e : e = Attempted(attempt[a].version, branch[a][b].last + 1)
  OBVIOUS
<1>3. branch[a][b].pc = "attempting" /\ attempt[a].fiber = "running" /\ journal' = AppendTo(journal, x, e)
  BY <1>1, <1>2 DEF Attempt, At
<1>4. x \in Activities /\ x # Workflow /\ journal[x] \in Seq(Events)
  BY <1>1, <1>3, WriterLives DEF Writing, Activity
<1>5. e \in Events /\ e.type # "Completed"
  <2>1. attempt[a].version \in Versions
    BY <1>3, RunningVersion
  <2>2. branch[a][b].last \in Nat
    BY DEF IInv, TypeOK, BranchType
  <2>3. branch[a][b].last + 1 \in Nat
    BY <2>2
  <2> QED BY <1>2, <2>1, <2>3, MakeEvents DEF Attempted
<1>6. journal'[x] = Append(journal[x], e) /\ \A id \in Ids \ {x} : journal'[id] = journal[id]
  BY <1>3, <1>4 DEF IInv, TypeOK, AppendTo, Ids
<1>7. ExitOf(journal'[x]) = ExitOf(journal[x])
  BY <1>4, <1>5, <1>6, AppendedExit
<1>8. \A id \in Ids : ExitOf(journal'[id]) = ExitOf(journal[id])
  BY <1>6, <1>7
<1> QED BY <1>8 DEF Decided, Outcome, Ids

\* The exit of an activity is decided when it is recorded, once.
LEMMA RecordExitDecides ==
  ASSUME IInv, IInv', DetInv, NEW a \in Attempts, NEW b \in Branches, RecordExit(a, b)
  PROVE  Durable!Next
<1>1. PICK x : x = Activity(a, b)
  OBVIOUS
<1>2. PICK me : me = branch[a][b]
  OBVIOUS
<1>3. PICK e : e = Completed(me.exit, me.last + 2)
  OBVIOUS
<1>4. me.pc = "recording" /\ journal' = AppendTo(journal, x, e)
  BY <1>1, <1>2, <1>3 DEF RecordExit, At
<1>5. /\ x \in Activities /\ x # Workflow /\ journal[x] \in Seq(Events)
      /\ ~IsCompleted(journal[x]) /\ ~IsCompleted(journal[Workflow])
  BY <1>1, <1>2, <1>4, WriterLives DEF Writing, Activity
<1>6. me.exit \in Values
  BY <1>2, <1>4, DetIs DEF AttemptDet, WriterFits, Writing
<1>7. e \in Events /\ e.type = "Completed" /\ e.exit = me.exit
  <2>1. me.last \in Nat
    BY <1>2 DEF IInv, TypeOK, BranchType
  <2>2. me.last + 2 \in Nat /\ me.exit \in Exits
    BY <1>6, <2>1 DEF Exits
  <2> QED BY <1>3, <2>2, MakeEvents DEF Completed
<1>8. journal'[x] = Append(journal[x], e) /\ \A id \in Ids \ {x} : journal'[id] = journal[id]
  BY <1>4, <1>5 DEF IInv, TypeOK, AppendTo, Ids
<1>9. ExitOf(journal'[x]) = me.exit /\ ExitOf(journal[x]) = NoValue
  BY <1>5, <1>7, <1>8, AppendedExit, CompletedHasExit
<1>10. ExitOf(journal[Workflow]) = NoValue /\ ExitOf(journal'[Workflow]) = NoValue
  <2>1. journal[Workflow] \in Seq(Events) /\ Workflow \in Ids
    BY DEF IInv, TypeOK, Ids
  <2>2. ExitOf(journal[Workflow]) = NoValue
    BY <1>5, <2>1, CompletedHasExit
  <2> QED BY <1>5, <1>8, <2>1, <2>2
<1>11. \A y \in Activities \ {x} : ExitOf(journal'[y]) = ExitOf(journal[y])
  BY <1>8 DEF Ids
<1>12. Decided[x] = NoValue /\ Outcome = NoValue /\ Outcome' = NoValue
  BY <1>5, <1>9, <1>10 DEF Decided, Outcome
<1>13. Decided' = [Decided EXCEPT ![x] = me.exit]
  BY <1>5, <1>9, <1>11 DEF Decided
<1>14. Durable!Decide(x, me.exit)
  BY <1>12, <1>13 DEF Durable!Decide, Decided, Outcome
<1> QED BY <1>5, <1>6, <1>14 DEF Durable!Next

\* The workflow ends with the results on record: all of its activities were joined.
LEMMA CompleteEnds ==
  ASSUME IInv, IInv', OrderInv, DetInv, NEW a \in Attempts, Complete(a)
  PROVE  Durable!Next
<1>1. PICK r : r = attempt[a]
  OBVIOUS
<1>2. PICK br : br = branch[a]
  OBVIOUS
<1>3. PICK m : m = Head(Pending(a))
  OBVIOUS
<1>4. PICK e : e = Completed(m.exit, r.next)
  OBVIOUS
<1>5. PICK J : J = journal[Workflow]
  OBVIOUS
<1>6. /\ r.phase = "execute" /\ r.tag = "Running" /\ Pending(a) # <<>> /\ m.type = "RequestComplete"
      /\ journal' = AppendTo(journal, Workflow, e)
  BY <1>1, <1>3, <1>4 DEF Complete, Record, Handling
<1>7. PICK t : t = Taken(a)
  OBVIOUS
<1>8. r \in AttemptType /\ m \in Messages /\ 1 \in 1..Len(Queue(r)) /\ m = Queue(r)[1]
  BY <1>1, <1>3, <1>6, <1>7, TakenIs
<1>9. /\ J \in Seq(Events) /\ GotRight(r.got, journal) /\ r.next \in Nat
      /\ ProgressFits(br, J, r.next, r.got) /\ QueueFits(Queue(r), br, r.got, FALSE)
  BY <1>1, <1>2, <1>5, <1>6, Handles
<1>10. e \in Events /\ e.type = "Completed" /\ e.exit = m.exit
  BY <1>4, <1>6, <1>8, <1>9, MessageFields, MakeEvents DEF Completed
<1>11. m.exit = r.got /\ \A x \in Activities : Gone(br, x)
  BY <1>6, <1>8, <1>9 DEF QueueFits
<1>12. \A x \in Activities : r.got[x] # NoValue
  BY <1>9, <1>11 DEF ProgressFits, Known
<1>13. \A x \in Activities : r.got[x] = ExitOf(journal[x])
  BY <1>9, <1>12 DEF GotRight
<1>14. r.got = Decided
  <2>1. r.got = [x \in Activities |-> r.got[x]]
    BY <1>8 DEF AttemptType, Results
  <2> QED BY <1>13, <2>1 DEF Decided
<1>15. ~IsCompleted(J)
  <2>1. NoExit(J, Len(J))
    BY <1>1, <1>5, <1>6 DEF OrderInv, StageFits
  <2>2. DOMAIN J = 1..Len(J)
    BY <1>9, LenProperties
  <2> QED BY <2>1, <2>2 DEF NoExit, IsCompleted
<1>16. journal'[Workflow] = Append(J, e) /\ \A x \in Activities : journal'[x] = journal[x]
  BY <1>5, <1>6, WorkflowOnly
<1>17. ExitOf(J) = NoValue /\ ExitOf(journal'[Workflow]) = m.exit
  BY <1>9, <1>10, <1>15, <1>16, AppendedExit, CompletedHasExit
<1>18. Outcome = NoValue /\ Outcome' = Decided /\ Decided' = Decided
  BY <1>5, <1>11, <1>14, <1>16, <1>17 DEF Outcome, Decided
<1>19. \A x \in Activities : Decided[x] # NoValue
  BY <1>12, <1>14
<1>20. Durable!End
  BY <1>18, <1>19 DEF Durable!End, Outcome, Decided
<1> QED BY <1>20 DEF Durable!Next

\* Every step decides one result, or the outcome, or nothing.
LEMMA DurableStep ==
  ASSUME IInv, IInv', OrderInv, DetInv, [Next]_vars
  PROVE  Durable!Next \/ UNCHANGED <<Decided, Outcome>>
<1>1. journal' = journal => UNCHANGED <<Decided, Outcome>>
  BY DEF Decided, Outcome
<1>2. ASSUME NEW a \in Attempts, Handle(a) PROVE Durable!Next \/ UNCHANGED <<Decided, Outcome>>
  <2>1. CASE HandleNotStarted(a) \/ HandleReplay(a) \/ Fork(a) \/ Join(a)
    BY <2>1, WorkflowSteps
  <2>2. CASE Complete(a)
    BY <2>2, CompleteEnds
  <2>3. CASE StartYielding(a) \/ EndUnrecorded(a) \/ RefuseRequest(a) \/ IgnoreYield(a) \/ AnswerStatus(a) \/ Finish(a)
    BY <1>1, <2>3, JournalStands
  <2> QED BY <1>2, <2>1, <2>2, <2>3 DEF Handle
<1>3. ASSUME NEW a \in Attempts, NEW b \in Branches, RunBranch(a, b) PROVE Durable!Next \/ UNCHANGED <<Decided, Outcome>>
  <2>1. CASE Attempt(a, b)
    BY <2>1, AttemptDecidesNothing
  <2>2. CASE RecordExit(a, b)
    BY <2>2, RecordExitDecides
  <2>3. CASE RequestForkOf(a, b) \/ ReadActivity(a, b) \/ Execute(a, b) \/ AskYielding(a, b) \/ RequestJoinOf(a, b)
    BY <1>1, <2>3, JournalStands
  <2> QED BY <1>3, <2>1, <2>2, <2>3 DEF RunBranch
<1>4. CASE Crash
  BY <1>1, <1>4 DEF Crash
<1>5. ASSUME NEW a \in Attempts, NEW v \in Deployed[a], Start(a, v) PROVE journal' = journal
  BY <1>5, JournalStands
<1>6. ASSUME NEW a \in Attempts, Yield(a) PROVE journal' = journal
  BY <1>6, JournalStands
<1>7. ASSUME NEW a \in Attempts, Progress(a) PROVE Durable!Next \/ UNCHANGED <<Decided, Outcome>>
  <2>1. CASE Replay(a) \/ RequestCompleteOf(a)
    BY <1>1, <2>1, JournalStands
  <2>2. ASSUME NEW b \in Branches, Interrupt(a, b) PROVE journal' = journal
    BY <2>2, JournalStands
  <2> QED BY <1>1, <1>2, <1>3, <1>7, <2>1, <2>2 DEF Progress
<1>8. CASE UNCHANGED vars
  BY <1>1, <1>8 DEF vars
<1> QED BY <1>1, <1>4, <1>5, <1>6, <1>7, <1>8 DEF Next

\* The execution is a durable one, whichever attempts ran it and wherever they were cut:
\* the result of every activity is decided once, when WorkflowRuntime records its exit, and
\* the workflow ends once, with the results on record.
THEOREM ImplementsDurableExecution ==
  ASSUME Determined
  PROVE  Spec => RefinesDurableExecution
<1>1. IInv /\ IInv' /\ OrderInv /\ DetInv /\ [Next]_vars => [Durable!Next]_<<Decided, Outcome>>
  BY DurableStep
<1> QED BY <1>1, DurableInit, Inductive, OrderKept, Followed, PTL
        DEF Spec, RefinesDurableExecution, Durable!Spec, Decided, Outcome
=============================================================================
