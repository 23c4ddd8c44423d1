---------------------------- MODULE BurnBoardProofs ----------------------------
(***************************************************************************)
(* BurnDriver implements BurnBoard, for every backlog, every configuration *)
(* and any number of crashes, kills and edits: three inductive invariants  *)
(* on top of those of BurnDriverProofs, what a step may do to the commits  *)
(* that can be reached, then the refinement, one abstract step at a time.  *)
(***************************************************************************)
EXTENDS BurnDriverBoard, BurnDriverProofs

USE DEF backlogVars, publishVars, gitVars, budgetVars, agentVars, localVars, boundVars

(***************************************************************************)
(* The inductive invariants.                                               *)
(***************************************************************************)
\* The attempts are numbered upwards: what can be reached of a task is no newer
\* than its last attempt, and older than it while that has not committed.
Begun == {"record", "preflight", "discard", "launch"}

FreshInv ==
    /\ \A w \in Kept : w[2] <= attempts[w[1]].n
    /\ pc \in Begun => \A w \in Kept : w[1] = task => w[2] < attempts[task].n
    /\ \A t \in Task : agent[t] = "working" /\ branch[t] = 0 =>
         \A w \in Kept : w[1] = t => w[2] < attempts[t].n

\* What was true of the task in hand at its launch holds up to its push: nothing
\* of it has landed, its dependencies are Done, and its file is where it was.
Carrying == {"wait", "verify", "publish", "push"}
Prepared == {"bump"} \cup Begun \cup Carrying

TurnInv ==
    /\ pc \in Carrying => /\ base[task].work = {}
                          /\ \A d \in Deps[task] : d \in Task /\ base[d].status = "Done"
    /\ pc \in Prepared => forkTree[task].where = "live"
    /\ pc = "push" => Strategy = "ff"

\* The line is in review-queue.md before the publication it announces.
ListedInv ==
    /\ PublishedListed
    /\ pc = "push" => <<task, branch[task]>> \in review

(***************************************************************************)
(* The commits that can be reached.                                        *)
(***************************************************************************)
Holds(t, n) == \/ branch[t] = n /\ n > 0
               \/ \E r \in rescue : r[1] = t /\ r[3] = n
               \/ <<t, n>> \in published

KeptIsHeld == \A t \in Task : \A n : <<t, n>> \in Kept <=> Holds(t, n)

LEMMA KeptHolds == KeptIsHeld
<1> SUFFICES ASSUME NEW t \in Task, NEW n
             PROVE  <<t, n>> \in Kept <=> Holds(t, n)
  BY DEF KeptIsHeld
<1>1. \A r \in rescue : <<r[1], r[3]>> = <<t, n>> <=> r[1] = t /\ r[3] = n
  OBVIOUS
<1>2. <<t, n>> \in {<<u, branch[u]>> : u \in {v \in Task : branch[v] > 0}}
        <=> branch[t] = n /\ n > 0
  OBVIOUS
<1> QED
  BY <1>1, <1>2 DEF Kept, Holds

KeptTyped == Kept \subseteq Task \X Int

LEMMA KeptType == TypeOK => KeptTyped
  BY DEF TypeOK, GitType, HistoryType, Kept, KeptTyped

\* What is reported published could be reached before.
LEMMA PublishedHeld ==
  ASSUME TypeOK, BranchInv, [Next]_vars, NEW w \in published'
  PROVE  w \in Kept
<1>1. CASE w \in published
  BY <1>1 DEF Kept
<1>2. CASE w \notin published
  <2>1. (Push \/ OpenPullRequest) /\ w = <<task, branch[task]>>
    BY <1>2, PublishedStep DEF Push, OpenPullRequest
  <2>2. task \in Task /\ branch[task] > 0
    BY <2>1 DEF Push, OpenPullRequest, TypeOK, DriverType, BranchInv, Verified
  <2> QED
    BY <2>1, <2>2, KeptHolds DEF KeptIsHeld, Holds
<1> QED
  BY <1>1, <1>2

\* No step makes commits unreachable: a branch that is dropped is empty, goes to a
\* rescue ref or was published.
LEMMA KeptForward ==
  ASSUME TypeOK, BranchInv, RescueNamed, [Next]_vars, NEW t \in Task, NEW n,
         <<t, n>> \in Kept
  PROVE  Holds(t, n)'
<1>1. Holds(t, n)
  BY KeptHolds DEF KeptIsHeld
<1>2. CASE <<t, n>> \in published
  BY <1>2, HandledStep DEF Holds
<1>3. ASSUME NEW r \in rescue, r[1] = t, r[3] = n
      PROVE  Holds(t, n)'
  <2>1. CASE r \in rescue'
    BY <1>3, <2>1 DEF Holds
  <2>2. CASE r \notin rescue'
    <3> DEFINE k == attempts[task].n
    <3> DEFINE again == <<task, k, k>>
    <3>1. rescue' = {s \in rescue : ~ (s[1] = task /\ s[2] = k)} \cup {again}
      BY <2>2, RescueStep, RetiredBranch
    <3>2. r[1] = task /\ r[3] = k
      BY <2>2, <3>1 DEF RescueNamed
    <3>3. again \in rescue' /\ again[1] = task /\ again[3] = k
      BY <3>1
    <3> HIDE DEF again, k
    <3> QED
      BY <1>3, <3>2, <3>3 DEF Holds
  <2> QED
    BY <2>1, <2>2
<1>4. CASE branch[t] = n /\ n > 0
  <2>1. CASE (Retire \/ ReclaimRetire) /\ t = task
    <3> DEFINE k == attempts[task].n
    <3> DEFINE again == <<task, k, k>>
    <3>1. \/ <<t, n>> \in published
          \/ n = k /\ again \in rescue'
      <4>1. branch[task] \in Int /\ ~ (branch[task] <= 0)
        BY <1>4, <2>1, StateTypes
      <4> QED
        BY <1>4, <2>1, <4>1, RetiredBranch
    <3> HIDE DEF k
    <3>2. again[1] = task /\ again[3] = k
      OBVIOUS
    <3> HIDE DEF again
    <3> QED
      BY <1>2, <2>1, <3>1, <3>2 DEF Holds
  <2>2. CASE ~ ((Retire \/ ReclaimRetire) /\ t = task)
    <3>1. ~ AgentCommit(t) /\ ~ (Add /\ t = task) /\ ~ (Discard /\ t = task)
      BY <1>4 DEF AgentCommit, Add, Discard, BranchInv, Unlaunched, NoRef
    <3>2. branch'[t] = branch[t]
      BY <2>2, <3>1, BranchStep, StateTypes
    <3> QED
      BY <1>4, <3>2 DEF Holds
  <2> QED
    BY <2>1, <2>2
<1> QED
  BY <1>1, <1>2, <1>3, <1>4 DEF Holds

\* What a step makes reachable is what an agent commits.
LEMMA KeptBackward ==
  ASSUME TypeOK, BranchInv, [Next]_vars, NEW t \in Task, NEW n, Holds(t, n)'
  PROVE  <<t, n>> \in Kept \/ (AgentCommit(t) /\ n = attempts[t].n)
<1>1. CASE <<t, n>> \in published'
  BY <1>1, PublishedHeld
<1>2. ASSUME NEW r \in rescue', r[1] = t, r[3] = n
      PROVE  <<t, n>> \in Kept
  <2>1. CASE r \in rescue
    BY <1>2, <2>1, KeptHolds DEF KeptIsHeld, Holds
  <2>2. CASE r \notin rescue
    <3>1. Retire \/ ReclaimRetire
      BY <1>2, <2>2, RescueStep
    <3>2. r = <<task, attempts[task].n, attempts[task].n>> /\ branch[task] = attempts[task].n
          /\ branch[task] > 0
      BY <1>2, <2>2, <3>1, RetiredBranch
    <3>3. t = task /\ n = branch[t] /\ n > 0
      BY <1>2, <3>2
    <3> QED
      BY <3>3, KeptHolds DEF KeptIsHeld, Holds
  <2> QED
    BY <2>1, <2>2
<1>3. CASE branch'[t] = n /\ n > 0
  <2>1. branch[t] = n \/ (AgentCommit(t) /\ n = attempts[t].n)
    BY <1>3, BranchStep, StateTypes DEF NoRef
  <2> QED
    BY <1>3, <2>1, KeptHolds DEF KeptIsHeld, Holds
<1> QED
  BY <1>1, <1>2, <1>3 DEF Holds

\* Commits become reachable by an agent's commit and stay so for good.
LEMMA KeptStep ==
  ASSUME TypeOK, BranchInv, RescueNamed, [Next]_vars
  PROVE  \/ Kept' = Kept
         \/ \E t \in Task : AgentCommit(t) /\ Kept' = Kept \cup {<<t, attempts[t].n>>}
<1>1. KeptTyped /\ KeptTyped'
  BY TypeStep, KeptType, PTL
<1>2. KeptIsHeld'
  BY KeptHolds, PTL
<1>3. Kept \subseteq Kept'
  BY <1>1, <1>2, KeptForward DEF KeptIsHeld, KeptTyped
<1>4. \A w \in Kept' \ Kept : \E t \in Task : AgentCommit(t) /\ w = <<t, attempts[t].n>>
  BY <1>1, <1>2, KeptBackward DEF KeptIsHeld, KeptTyped
<1>5. ASSUME NEW t \in Task, AgentCommit(t)
      PROVE  /\ <<t, attempts[t].n>> \in Kept'
             /\ \A u \in Task : AgentCommit(u) => u = t
  <2>1. attempts[t].n \in Int /\ attempts[t].n > 0 /\ branch'[t] = attempts[t].n
    BY <1>5, Numbers DEF AgentCommit, BranchInv, TypeOK, GitType
  <2>2. \A u \in Task : AgentCommit(u) => u = t
    BY <1>5, <2>1 DEF AgentCommit, TypeOK, GitType
  <2> QED
    BY <1>2, <2>1, <2>2 DEF KeptIsHeld, Holds
<1>6. CASE \E t \in Task : AgentCommit(t)
  BY <1>3, <1>4, <1>5, <1>6
<1>7. CASE ~ \E t \in Task : AgentCommit(t)
  BY <1>3, <1>4, <1>7
<1> QED
  BY <1>6, <1>7

(***************************************************************************)
(* The invariants are inductive.                                           *)
(***************************************************************************)
\* The attempts of a task are only counted up, by bump_attempts.
LEMMA CountStep ==
  ASSUME TypeOK, [Next]_vars, NEW t \in Task
  PROVE  /\ attempts[t].n \in Nat /\ attempts'[t].n \in Nat
         /\ \/ attempts'[t].n = attempts[t].n
            \/ BumpOpen /\ t = task /\ attempts'[t].n = attempts[t].n + 1
<1>1. attempts[t].n \in Nat /\ attempts \in Ledgers
  BY Numbers DEF TypeOK, BurnDirType
<1>2. attempts' = attempts \/ BumpOpen
  BY BudgetStep
<1> QED
  BY <1>1, <1>2 DEF BumpOpen, Ledgers

LEMMA FreshPreserved ==
  TypeOK /\ BranchInv /\ RescueNamed /\ FreshInv /\ [Next]_vars => FreshInv'
<1> SUFFICES ASSUME TypeOK, BranchInv, RescueNamed, FreshInv, [Next]_vars PROVE FreshInv'
  OBVIOUS
<1>1. \A w \in Kept : w[1] \in Task /\ w[2] \in Int /\ w[2] <= attempts[w[1]].n
  BY KeptType DEF KeptTyped, FreshInv
<1>2. \A t \in Task : /\ attempts[t].n \in Nat /\ attempts'[t].n \in Nat
                      /\ \/ attempts'[t].n = attempts[t].n
                         \/ BumpOpen /\ t = task /\ attempts'[t].n = attempts[t].n + 1
  BY CountStep
<1>3. \A w \in Kept' : \/ w \in Kept
                       \/ \E t \in Task : AgentCommit(t) /\ w = <<t, attempts[t].n>>
  BY KeptStep
<1>4. \A w \in Kept' : w[1] \in Task /\ w[2] \in Int /\ w[2] <= attempts[w[1]].n
  BY <1>1, <1>2, <1>3
<1>5. \A w \in Kept' : w[2] <= attempts'[w[1]].n
  BY <1>2, <1>4
<1>6. ASSUME pc' \in Begun, NEW w \in Kept', w[1] = task'
      PROVE  w[2] < attempts'[task'].n
  <2>1. task' = task
    BY <1>6, TaskStep DEF Begun, PickTask, Goto
  <2>2. CASE BumpOpen
    <3>1. task \in Task /\ attempts'[task].n = attempts[task].n + 1
      BY <2>2 DEF BumpOpen, TypeOK, DriverType, BurnDirType, Ledgers
    <3> QED
      BY <1>2, <1>4, <1>6, <2>1, <3>1
  <2>3. CASE ~ BumpOpen
    <3>1. pc \in Begun
      BY <1>6, <2>3, FlowStep, EnterRecord DEF Flow, Begun
    <3>2. ~ AgentCommit(task)
      BY <3>1 DEF Begun, AgentCommit, BranchInv, Unlaunched
    <3>3. w \in Kept
      BY <1>3, <1>6, <2>1, <3>2
    <3>4. w[2] < attempts[task].n /\ w[1] = task
      BY <1>6, <2>1, <3>1, <3>3 DEF FreshInv
    <3> QED
      BY <1>1, <1>2, <2>1, <2>3, <3>3, <3>4
  <2> QED
    BY <2>2, <2>3
<1>7. ASSUME NEW t \in Task, agent'[t] = "working", branch'[t] = 0, NEW w \in Kept', w[1] = t
      PROVE  w[2] < attempts'[t].n
  <2>1. w[2] < attempts[t].n
    <3>1. CASE agent[t] = "working"
      <4>1. ~ (Add /\ t = task)
        BY <3>1 DEF Add, BranchInv
      <4>2. attempts[t].n > 0
        BY <3>1 DEF BranchInv
      <4>3. branch[t] = 0 /\ ~ AgentCommit(t)
        BY <1>2, <1>7, <4>1, <4>2, BranchStep, StateTypes DEF AgentCommit, NoRef
      <4>4. w \in Kept
        BY <1>3, <1>7, <4>3
      <4> QED
        BY <1>7, <3>1, <4>3, <4>4 DEF FreshInv
    <3>2. CASE agent[t] # "working"
      <4>1. Launch
        BY <1>7, <3>2, AgentStep, StateTypes
      <4>2. t = task /\ pc = "launch"
        BY <1>7, <3>2, <4>1 DEF Launch, TypeOK, AgentType
      <4>3. \A u \in Task : ~ AgentCommit(u)
        BY <4>1 DEF Launch, AgentCommit, Goto
      <4> QED
        BY <1>3, <1>7, <4>2, <4>3 DEF FreshInv, Begun
    <3> QED
      BY <3>1, <3>2
  <2> QED
    BY <1>2, <1>4, <1>7, <2>1
<1> QED
  BY <1>5, <1>6, <1>7 DEF FreshInv

LEMMA FreshInit == Init => FreshInv
  BY DEF Init, FreshInv, Kept, NoRef, Begun

LEMMA TurnPreserved ==
  TypeOK /\ ForkInv /\ DepsInv /\ LandedInv /\ TurnInv /\ [Next]_vars => TurnInv'
<1> SUFFICES ASSUME TypeOK, ForkInv, DepsInv, LandedInv, TurnInv, [Next]_vars PROVE TurnInv'
  OBVIOUS
<1>1. pc' = pc \/ pc' = "idle" \/ <<pc, pc'>> \in Flow
  BY FlowStep
<1>2. ASSUME pc' \in Carrying
      PROVE  /\ base'[task'].work = {}
             /\ \A d \in Deps[task'] : d \in Task /\ base'[d].status = "Done"
  <2>1. pc \in Carrying \cup {"launch"}
    BY <1>1, <1>2 DEF Flow, Carrying
  <2>2. task' = task /\ task \in Task
    BY <1>2, <2>1, TaskStep DEF Carrying, PickTask, Goto, TypeOK, DriverType
  <2>3. /\ base[task].work = {}
        /\ \A d \in Deps[task] : d \in Task /\ base[d].status = "Done"
    BY <2>1 DEF TurnInv, DepsInv, LandedInv, InHand, Unlaunched
  <2>4. ~ Lands
    BY <1>2 DEF Lands, Carrying
  <2> QED
    BY <2>2, <2>3, <2>4, WorkStep, EditsKeptStep
<1>3. ASSUME pc' \in Prepared
      PROVE  forkTree'[task'].where = "live"
  <2>1. CASE Prepare
    BY <1>3, <2>1 DEF Prepare, Prepared, Begun, Carrying, Goto, Stop
  <2>2. CASE ~ Prepare
    <3>1. pc \in Prepared
      BY <1>1, <1>3, <2>2, EnterTurn DEF Flow, Prepared, Begun, Carrying
    <3>2. task' = task
      BY <1>3, TaskStep DEF Prepared, Begun, Carrying, PickTask, Goto
    <3>3. forkTree' = forkTree
      BY <1>3, <3>1, ForkTipStep DEF Prepared, Begun, Carrying, Refresh
    <3> QED
      BY <3>1, <3>2, <3>3 DEF TurnInv
  <2> QED
    BY <2>1, <2>2
<1>4. ASSUME pc' = "push"
      PROVE  Strategy = "ff"
  BY <1>4, EnterTurn DEF FastForward, TurnInv
<1> QED
  BY <1>2, <1>3, <1>4 DEF TurnInv

LEMMA TurnInit == Init => TurnInv
  BY DEF Init, TurnInv, Prepared, Begun, Carrying

LEMMA ListedPreserved == TypeOK /\ BranchInv /\ ListedInv /\ [Next]_vars => ListedInv'
<1> SUFFICES ASSUME TypeOK, BranchInv, ListedInv, [Next]_vars PROVE ListedInv'
  OBVIOUS
<1>1. review \subseteq review' /\ published \subseteq review
  BY PublishedStep DEF ListedInv, PublishedListed
<1>2. pc \in {"publish", "push", "gh"} => task \in Task /\ branch[task] = attempt
  BY DEF TypeOK, DriverType, BranchInv, Verified, Counted, NoRef
<1>3. published' \subseteq review'
  <2>1. CASE published' = published
    BY <1>1, <2>1
  <2>2. CASE Push
    BY <1>1, <2>2 DEF Push, ListedInv
  <2>3. CASE OpenPullRequest
    BY <1>1, <1>2, <2>3 DEF OpenPullRequest
  <2> QED
    BY <2>1, <2>2, <2>3, PublishedStep
<1>4. ASSUME pc' = "push"
      PROVE  <<task', branch'[task']>> \in review'
  <2>1. CASE FastForward
    BY <1>2, <2>1 DEF FastForward
  <2>2. CASE ~ FastForward
    <3>1. pc = "push"
      BY <1>4, <2>2, EnterTurn
    <3>2. task' = task /\ task \in Task /\ branch[task] > 0
      BY <1>4, <3>1, TaskStep DEF PickTask, Goto, TypeOK, DriverType, BranchInv, Verified
    <3>3. branch'[task] = branch[task]
      BY <1>4, <3>2, BranchStep, StateTypes, DropStep DEF Add, AgentCommit, Goto
    <3> QED
      BY <1>1, <3>1, <3>2, <3>3 DEF ListedInv
  <2> QED
    BY <2>1, <2>2
<1> QED
  BY <1>3, <1>4 DEF ListedInv, PublishedListed

LEMMA ListedInit == Init => ListedInv
  BY DEF Init, ListedInv, PublishedListed

(***************************************************************************)
(* The theorems.                                                           *)
(***************************************************************************)
BoardInv ==
    /\ TypeOK /\ ForkInv /\ BranchInv /\ RescueNamed /\ DepsInv /\ LandedInv
    /\ FreshInv /\ TurnInv /\ ListedInv

LEMMA BoardInvariant == Spec => []BoardInv
<1>1. Init => DepsInv
  BY DEF Init, DepsInv, DepsFirst, InHand, Picked, Granted, Unlaunched
<1>2. Init => BranchInv /\ LandedInv /\ FreshInv /\ TurnInv /\ ListedInv
  BY BranchInit, LandedInit, FreshInit, TurnInit, ListedInit
<1>3. /\ TypeOK /\ ForkInv /\ BranchInv /\ RescueNamed /\ DepsInv /\ LandedInv
      /\ FreshInv /\ TurnInv /\ ListedInv /\ [Next]_vars
      => BranchInv' /\ DepsInv' /\ LandedInv' /\ FreshInv' /\ TurnInv' /\ ListedInv'
  BY BranchPreserved, DepsPreserved, LandedPreserved, FreshPreserved, TurnPreserved,
     ListedPreserved
<1> QED
  BY <1>1, <1>2, <1>3, ForkInvariant, RescueTheorem, PTL DEF Spec, BoardInv

\* PublishedListed holds of the driver, for both strategies: what it reports
\* published is in review-queue.md, whenever it dies, fails or is killed.
THEOREM ListedTheorem == Spec => []PublishedListed
<1>1. BoardInv => PublishedListed
  BY DEF BoardInv, ListedInv
<1> QED
  BY <1>1, BoardInvariant, PTL

\* The board and the driver mean the same by an attempt and by an edit.
LEMMA BoardOperators ==
  /\ \A b, t, n : Board!Attempted(b, t, n) = Attempted(b, t, n)
  /\ \A what, old : Board!EditedAs(what, old) = EditedAs(what, old)
  BY DEF Board!Attempted, Attempted, Board!Worked, Worked, Board!MarkedDone, MarkedDone,
         Board!PhaseParentToClose, PhaseParentToClose, Board!Live, Live, Board!IsDone, IsDone,
         Board!Loaded, Loaded, Board!EditedAs, EditedAs

\* An agent's commit is a Commit of a new attempt at a task with its dependencies
\* Done.
LEMMA CommitStep ==
  ASSUME BoardInv, [Next]_vars, NEW t \in Task, AgentCommit(t),
         Kept' = Kept \cup {<<t, attempts[t].n>>}
  PROVE  Board!Next
<1> DEFINE n == attempts[t].n
<1>1. n \in Nat /\ \A w \in Kept : w[1] = t => w[2] < n
  BY Numbers DEF BoardInv, FreshInv, AgentCommit
<1>2. <<t, n>> \notin Kept
  BY <1>1
<1>3. Board!DepsOnBoard(t)
  BY DEF Board!DepsOnBoard, AgentCommit, BoardInv, DepsInv
<1>4. base' = base /\ published' = published
  BY DEF AgentCommit
<1>5. Board!Commit(t, n)
  BY <1>1, <1>3, <1>4 DEF Board!Commit
<1> DEFINE w == <<t, n>>
<1>6. w \in Kept' \ Kept /\ w \in Task \X Nat /\ Board!Commit(w[1], w[2])
  BY <1>1, <1>2, <1>5
<1> HIDE DEF w, n
<1> QED
  BY <1>6 DEF Board!Next

\* A push that lands is a Land, any other success of publish() a Report.
LEMMA PublishStep ==
  ASSUME BoardInv, [Next]_vars, Push \/ OpenPullRequest, Kept' = Kept
  PROVE  Board!Next \/ UNCHANGED <<base, Kept, published>>
<1> DEFINE w == <<task, branch[task]>>
<1>1. /\ task \in Task /\ branch[task] \in Int /\ branch[task] > 0
      /\ base \in Backlogs
  BY DEF BoardInv, TypeOK, DriverType, GitType, RemoteType, BranchInv, Verified, Push,
         OpenPullRequest
<1>2. w \in Kept /\ w[1] = task /\ w[2] = branch[task]
  BY <1>1, KeptHolds DEF KeptIsHeld, Holds
<1>3. CASE Lands
  <2>1. forkTree = base
    BY <1>3 DEF Lands, BoardInv, ForkInv, Forked
  <2>2. Strategy = "ff" /\ base[task].where = "live" /\ base[task].work = {}
    BY <1>3, <2>1 DEF Lands, BoardInv, TurnInv, Prepared, Carrying
  <2>3. Board!DepsOnBoard(task)
    BY <1>3 DEF Lands, BoardInv, TurnInv, Carrying, Board!DepsOnBoard
  <2>4. base' = Board!Attempted(base, task, branch[task])
    BY <1>3, <2>1, BoardOperators DEF Lands
  <2>5. Board!Land(task, branch[task])
    BY <1>2, <1>3, <2>2, <2>3, <2>4 DEF Board!Land, Lands
  <2> HIDE DEF w
  <2> QED
    BY <1>2, <2>5 DEF Board!Next
<1>4. CASE ~ Lands /\ base' = base /\ published' = published \cup {w}
  <2>1. Board!Report(task, branch[task])
    BY <1>2, <1>4 DEF Board!Report
  <2> HIDE DEF w
  <2> QED
    BY <1>2, <2>1 DEF Board!Next
<1>5. CASE base' = base /\ published' = published
  BY <1>5
<1>6. \/ Lands
      \/ base' = base /\ published' = published \cup {w}
      \/ base' = base /\ published' = published
  BY DEF Push, OpenPullRequest, Lands, Goto
<1> QED
  BY <1>3, <1>4, <1>5, <1>6

\* An edit is a Human.
LEMMA HumanStep ==
  ASSUME [Next]_vars, NEW t \in Task, NEW what \in Edits, Edit(t, what), Kept' = Kept
  PROVE  Board!Next
<1>1. what \in {"revise", "finish", "archive", "delete"}
  BY BoundsAssumption
<1>2. Board!Human(t, what)
  BY BoardOperators DEF Edit, Board!Human
<1> QED
  BY <1>1, <1>2 DEF Board!Next

\* Every step of the system is a step of the board, or leaves it as it is.
LEMMA BoardStep == BoardInv /\ [Next]_vars => [Board!Next]_(Board!boardVars)
<1> SUFFICES ASSUME BoardInv, [Next]_vars
             PROVE  Board!Next \/ UNCHANGED <<base, Kept, published>>
  BY DEF Board!boardVars
<1>1. CASE Push \/ OpenPullRequest
  <2>1. \A t \in Task : ~ AgentCommit(t)
    BY <1>1 DEF Push, OpenPullRequest, AgentCommit, Goto
  <2> QED
    BY <1>1, <2>1, KeptStep, PublishStep DEF BoardInv
<1>2. ASSUME NEW t \in Task, NEW what \in Edits, Edit(t, what)
      PROVE  Board!Next
  <2>1. tip' # tip
    BY <1>2 DEF Edit, BoardInv, TypeOK, RemoteType
  <2>2. \A u \in Task : ~ AgentCommit(u)
    BY <2>1 DEF AgentCommit
  <2> QED
    BY <1>2, <2>2, KeptStep, HumanStep DEF BoardInv
<1>3. CASE /\ ~ (Push \/ OpenPullRequest)
           /\ \A t \in Task, what \in Edits : ~ Edit(t, what)
  <2>1. base' = base /\ published' = published
    BY <1>3, BaseStep, PublishedStep
  <2> QED
    BY <2>1, KeptStep, CommitStep DEF BoardInv
<1> QED
  BY <1>1, <1>2, <1>3

\* ImplementsBoard holds of the driver: whatever dies, fails or is killed, and
\* whatever humans do meanwhile, attempts are made only with their dependencies
\* Done, none of their commits is lost, and each lands at most once, whole, on top
\* of everything that was on the base branch before.
THEOREM BoardTheorem == Spec => ImplementsBoard
<1>1. Init => Board!Init
  BY DEF Init, Board!Init, Kept, NoRef
<1> QED
  BY <1>1, BoardStep, BoardInvariant, PTL DEF Spec, ImplementsBoard, Board!Spec
=============================================================================
