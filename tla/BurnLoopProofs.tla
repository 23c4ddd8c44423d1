----------------------------- MODULE BurnLoopProofs -----------------------------
(***************************************************************************)
(* What holds from one turn of BurnDriver's loop to the next: a resumed    *)
(* run finds the branches it cuts free, a phase is closed out with its     *)
(* last leaf, and three fast failures in a row are not the fault of one    *)
(* task.  Each property has an inductive invariant on top of those of      *)
(* BurnDriverProofs, and hypotheses on the constants where the code needs  *)
(* them; the runs show what happens without.                               *)
(***************************************************************************)
EXTENDS BurnDriverProofs, WellFoundedInduction

USE DEF backlogVars, publishVars, gitVars, budgetVars, agentVars, localVars, boundVars

(***************************************************************************)
(* The inductive invariants.                                               *)
(***************************************************************************)
\* reclaim_worktrees goes by worktrees: a branch without one is found only while
\* the driver is between removing the two.  Past the reclaim no branch is left,
\* and during a turn only that of the task in hand.
Dropping  == {"unhook", "discard", "retire"}
Reclaimed == {"boot", "pick", "guard", "refresh", "cut", "add", "drain"}
Cutting   == {"prepare", "bump", "record", "preflight", "discard", "launch", "wait", "verify",
              "publish", "push", "gh", "handled", "fail", "clear", "retire"}

CutInv ==
    /\ \A t \in Task : branch[t] # NoRef => t \in worktree \/ (pc \in Dropping /\ t = task)
    /\ pc \in Reclaimed => \A t \in Task : branch[t] = NoRef
    /\ pc \in Cutting => \A t \in Task \ {task} : branch[t] = NoRef

\* From its pick to its result a task is in the driver's hand; an attempt on it is
\* being made from the bump on.
Trying  == {"record", "preflight", "discard", "launch", "wait", "verify", "publish", "push",
            "gh", "handled", "fail"}
Working == Picked \cup Granted \cup Trying

\* A phase is closed out on the base branch with its last leaf, as long as phases
\* are where the driver looks for them and are not worked themselves.
PhaseInv ==
    edits = 0 =>
      /\ \A t \in Task : Parent[t] \in Task =>
           \A u \in {t, Parent[t]} : base[u].where = "live" /\ mirror[u].where = "live"
      /\ pc \in Working => \A t \in Task : Parent[t] # task
      /\ PhasesClosedOut

\* With a budget of two, the fast failures counted are those of as many tasks that
\* were tried once, unless the run is about to end with a task blocked.
TriedOnce == {t \in Task \ handled : attempts[t].n = IF t = task /\ pc \in Trying THEN 2 ELSE 1}
GivingUp  == pc \in {"clear", "retire"} /\ outcome = "blocked"

FastInv ==
    /\ pc \in Working => task \notin handled
    /\ MaxAttempts <= 2 /\ pc # "idle" /\ ~ GivingUp =>
         /\ fastFails >= 1 => \E t \in TriedOnce : TRUE
         /\ fastFails >= 2 => \E t, u \in TriedOnce : t # u

(***************************************************************************)
(* Control, and the task in hand.                                          *)
(***************************************************************************)
\* From its pick to its result the driver keeps the task in hand.
LEMMA WorkingStep ==
  ASSUME TypeOK, [Next]_vars, pc' \in Working, ~ PickTask
  PROVE  pc \in Working /\ task' = task /\ task \in Task
<1> USE DEF Working, Picked, Granted, Trying
<1>1. task' = task
  BY TaskStep
<1>2. pc' = pc \/ <<pc, pc'>> \in Flow
  BY FlowStep
<1>3. pc \in Working \/ pc = "pick"
  BY <1>2 DEF Flow
<1>4. pc # "pick"
  BY EnterGuard
<1> QED
  BY <1>1, <1>3, <1>4 DEF TypeOK, DriverType

(***************************************************************************)
(* A resumed run finds the names of its branches free.                     *)
(***************************************************************************)
\* No driver stops between removing a worktree and retiring its branch, and every
\* run reclaims what the one before it left.
AlwaysResumed ==
    /\ DeathPoints \cap Dropping = {}
    /\ \A r \in Runs : r.resumed

\* Reclaiming is what leads into the loop, and nothing is retired there before the
\* last worktree is gone.
LEMMA ReclaimedStep ==
  ASSUME AlwaysResumed, [Next]_vars, pc' \in Reclaimed, pc \notin Reclaimed
  PROVE  ReclaimDone \/ Retire
<1>1. pc' = pc \/ pc' = "idle" \/ <<pc, pc'>> \in Flow
  BY FlowStep
<1>2. pc \in {"idle", "reclaim", "retire"}
  BY <1>1 DEF Flow, Reclaimed
<1>3. /\ pc = "idle" /\ pc' = "boot" => \E r \in Runs : StartRun(r)
      /\ pc = "reclaim" /\ pc' = "boot" => ReclaimDone
      /\ pc = "retire" /\ pc' \in {"pick", "drain"} => Retire
  BY StartStep
<1>4. ~ \E r \in Runs : StartRun(r)
  BY DEF AlwaysResumed, StartRun
<1> QED
  BY <1>1, <1>2, <1>3, <1>4 DEF Flow, Reclaimed

\* A branch outlives its worktree only while its task is being dropped, which no
\* death interrupts.
LEMMA CutPreserved ==
  ASSUME AlwaysResumed
  PROVE  TypeOK /\ CutInv /\ [Next]_vars => CutInv'
<1> SUFFICES ASSUME TypeOK, CutInv, [Next]_vars PROVE CutInv'
  OBVIOUS
<1>1. pc' = pc \/ pc' = "idle" \/ <<pc, pc'>> \in Flow
  BY FlowStep
<1>2. pc' \notin {"idle", "reclaim", "boot", "unhook", "guard"} => task' = task
  BY TaskStep DEF PickTask, Goto
<1>3. \A t \in Task : \/ branch'[t] \in {branch[t], NoRef} \/ branch[t] # NoRef
                      \/ Add /\ t = task
  <2> SUFFICES ASSUME NEW t \in Task
               PROVE  \/ branch'[t] \in {branch[t], NoRef} \/ branch[t] # NoRef
                      \/ Add /\ t = task
    OBVIOUS
  <2>1. AgentCommit(t) => branch[t] # NoRef
    BY DEF AgentCommit, NoRef
  <2> QED
    BY <2>1, BranchStep, StateTypes
<1>4. Retire \/ ReclaimRetire \/ Discard => task \in Task /\ branch'[task] = NoRef
  BY DEF Retire, ReclaimRetire, Discard, RetireBranch, TypeOK, DriverType, GitType
<1>5. ASSUME NEW t \in Task, branch'[t] # NoRef
      PROVE  t \in worktree' \/ (pc' \in Dropping /\ t = task')
  <2>1. CASE Add
    <3>1. worktree' = worktree \cup {task}
      BY <2>1 DEF Add
    <3> QED
      BY <1>3, <1>5, <2>1, <3>1 DEF CutInv, Add, Dropping
  <2>2. CASE ~ Add
    <3>1. branch[t] # NoRef
      BY <1>3, <1>5, <2>2
    <3>2. CASE pc \in Dropping
      <4>1. \/ pc' = pc /\ task' = task /\ worktree' = worktree
            \/ Retire \/ ReclaimRetire \/ Discard
        BY <3>2, DroppingStep DEF AlwaysResumed, Dropping
      <4> QED
        BY <1>4, <1>5, <3>1, <4>1 DEF CutInv, Dropping, Cutting, Retire, Discard, ReclaimRetire
    <3>3. CASE pc \notin Dropping
      <4>1. t \in worktree
        BY <3>1, <3>3 DEF CutInv
      <4>2. CASE worktree' = worktree
        BY <4>1, <4>2
      <4>3. CASE ReclaimRemove
        BY <4>1, <4>3 DEF ReclaimRemove, RemoveWorktree, Goto, Dropping
      <4>4. CASE Cut
        BY <3>1, <4>4 DEF Cut, CutInv, Reclaimed
      <4>5. CASE PreflightOffends \/ Clear
        BY <4>1, <4>5 DEF PreflightOffends, Clear, RemoveWorktree, Goto, Dropping
      <4> QED
        BY <2>2, <4>2, <4>3, <4>4, <4>5, WorktreeStep
    <3> QED
      BY <3>2, <3>3
  <2> QED
    BY <2>1, <2>2
<1>6. ASSUME pc' \in Reclaimed, NEW t \in Task
      PROVE  branch'[t] = NoRef
  <2>1. ~ Add
    BY <1>6 DEF Add, Goto, Reclaimed
  <2>2. branch[t] = NoRef => branch'[t] = NoRef
    BY <1>3, <2>1
  <2>3. CASE pc \in Reclaimed
    BY <2>2, <2>3 DEF CutInv
  <2>4. CASE ReclaimDone
    BY <2>2, <2>4 DEF ReclaimDone, CutInv, Dropping
  <2>5. CASE Retire
    BY <1>4, <2>2, <2>5 DEF Retire, CutInv, Cutting
  <2> QED
    BY <1>6, <2>3, <2>4, <2>5, ReclaimedStep
<1>7. ASSUME pc' \in Cutting, NEW t \in Task \ {task'}
      PROVE  branch'[t] = NoRef
  <2>1. task' = task
    BY <1>2, <1>7 DEF Cutting
  <2>2. pc \in Cutting \/ pc = "add"
    BY <1>1, <1>7 DEF Flow, Cutting
  <2>3. branch[t] = NoRef
    BY <1>7, <2>1, <2>2 DEF CutInv, Reclaimed
  <2> QED
    BY <1>3, <1>7, <2>1, <2>3
<1> QED
  BY <1>5, <1>6, <1>7 DEF CutInv

\* ResumedCutSucceeds holds of a driver that is always started by `burn resume`
\* and does not stop between removing a worktree and retiring its branch: whatever
\* else happened, `git worktree add -b` never finds its branch taken.
THEOREM ResumedTheorem ==
  ASSUME AlwaysResumed
  PROVE  Spec => []ResumedCutSucceeds
<1>1. Init => CutInv
  BY DEF Init, CutInv, Dropping, Reclaimed, Cutting, NoRef
<1>2. TypeOK /\ CutInv => ResumedCutSucceeds
  BY DEF CutInv, ResumedCutSucceeds, Reclaimed, TypeOK, DriverType
<1> QED
  BY <1>1, <1>2, CutPreserved, TypeTheorem, PTL DEF Spec

(***************************************************************************)
(* Fast failures.                                                          *)
(***************************************************************************)
\* A task in hand is none of those noted: the pick leaves them out, and only the
\* end of its own turn notes it.
LEMMA UnnotedStep ==
  ASSUME TypeOK, FastInv, [Next]_vars, pc' \in Working
  PROVE  task' \notin handled'
<1>1. pc' # "clear"
  BY DEF Working, Picked, Granted, Trying
<1>2. handled' = handled
  BY <1>1, FastStep DEF MarkHandled, Goto
<1>3. CASE PickTask
  BY <1>2, <1>3 DEF PickTask, NextReady, Ready
<1>4. CASE ~ PickTask
  BY <1>2, <1>4, WorkingStep DEF FastInv
<1> QED
  BY <1>3, <1>4

\* The number by which a task shows that it was tried once changes only with its
\* own turn.
Mark(t) == IF t = task /\ pc \in Trying THEN 2 ELSE 1

LEMMA TriedStep ==
  ASSUME TypeOK, [Next]_vars, NEW t \in Task, pc' # "idle", ~ MarkHandled, ~ Fail,
         attempts[t].n = Mark(t)
  PROVE  attempts'[t].n = Mark(t)'
<1> USE DEF Mark
<1>1. pc' = pc \/ <<pc, pc'>> \in Flow
  BY FlowStep
<1>2. CASE BumpOpen
  <2>1. /\ pc = "bump" /\ pc' = "record" /\ task' = task /\ task \in Task
        /\ attempts' = [attempts EXCEPT ![task] = [n |-> @.n + 1, fp |-> mirror[task].rev]]
    BY <1>2 DEF BumpOpen, Goto, TypeOK, DriverType
  <2>2. attempts \in Ledgers
    BY DEF TypeOK, BurnDirType
  <2>3. CASE t = task
    <3>1. attempts[t].n = 1
      BY <2>1, <2>3 DEF Trying
    <3>2. attempts'[t].n = 2
      BY <2>1, <2>2, <2>3, <3>1 DEF Ledgers
    <3> QED
      BY <2>1, <2>3, <3>2 DEF Trying
  <2>4. CASE t # task
    BY <2>1, <2>2, <2>4 DEF Ledgers
  <2> QED
    BY <2>3, <2>4
<1>3. CASE ~ BumpOpen
  <2>1. attempts' = attempts
    BY <1>3, BudgetStep
  <2>2. CASE pc \in Trying
    <3>1. pc' \in Trying
      <4>1. pc' # "clear"
        BY <2>2, EnterStep DEF Trying
      <4> QED
        BY <1>1, <2>2, <4>1 DEF Flow, Trying
    <3>2. task' = task
      BY <3>1, TaskStep DEF PickTask, Goto, Trying
    <3> QED
      BY <2>1, <2>2, <3>1, <3>2
  <2>3. CASE pc \notin Trying
    <3>1. pc' \notin Trying
      <4>1. pc' # "record"
        BY <1>3, <2>3, EnterRecord DEF Trying
      <4> QED
        BY <1>1, <2>3, <4>1 DEF Flow, Trying
    <3> QED
      BY <2>1, <2>3, <3>1
  <2> QED
    BY <2>2, <2>3
<1> QED
  BY <1>2, <1>3

\* A task that was tried once stays so, unless its turn comes to an end.
LEMMA TriedKept ==
  ASSUME TypeOK, [Next]_vars, pc' # "idle", ~ MarkHandled, ~ Fail
  PROVE  TriedOnce \subseteq TriedOnce'
<1>1. handled' = handled
  BY FastStep
<1>2. \A t \in Task : t \in TriedOnce <=> t \notin handled /\ attempts[t].n = Mark(t)
  BY DEF TriedOnce, Mark
<1>3. \A t \in Task : t \in TriedOnce' <=> t \notin handled' /\ attempts'[t].n = Mark(t)'
  BY DEF TriedOnce, Mark
<1>4. \A t \in Task : attempts[t].n = Mark(t) => attempts'[t].n = Mark(t)'
  BY TriedStep
<1>5. TriedOnce \subseteq Task
  BY DEF TriedOnce
<1> QED
  BY <1>1, <1>2, <1>3, <1>4, <1>5

\* A failure that leaves its task a second attempt adds it to those that were tried
\* once, and takes none of them away.
LEMMA TriedFailed ==
  ASSUME TypeOK, BranchInv, FastInv, Fail, MaxAttempts <= 2, outcome' # "blocked"
  PROVE  /\ task \in TriedOnce' /\ task \notin TriedOnce
         /\ TriedOnce \subseteq TriedOnce'
<1>1. /\ pc = "fail" /\ pc' = "clear" /\ task' = task /\ handled' = handled
      /\ attempts' = attempts /\ attempt < MaxAttempts
  <2>1. ~ (attempt >= MaxAttempts)
    BY DEF Fail
  <2>2. attempt \in Nat /\ MaxAttempts \in Nat
    BY MaxAttemptsAssumption DEF TypeOK, DriverType
  <2> QED
    BY <2>1, <2>2 DEF Fail, Goto
<1>2. attempts[task].n = 1
  <2>1. attempt = attempts[task].n /\ attempt > 0 /\ attempt \in Nat
    BY <1>1 DEF BranchInv, Counted, TypeOK, DriverType
  <2> QED
    BY <1>1, <2>1, MaxAttemptsAssumption
<1>3. task \in Task /\ task \notin handled
  BY <1>1 DEF FastInv, Working, Trying, TypeOK, DriverType
<1> QED
  BY <1>1, <1>2, <1>3 DEF TriedOnce, Trying

\* The count of fast failures grows only with the tasks that were tried once.
LEMMA FastPreserved == TypeOK /\ BranchInv /\ FastInv /\ [Next]_vars => FastInv'
<1> SUFFICES ASSUME TypeOK, BranchInv, FastInv, [Next]_vars PROVE FastInv'
  OBVIOUS
<1>1. pc' \in Working => task' \notin handled'
  BY UnnotedStep
<1>2. ASSUME MaxAttempts <= 2, pc' # "idle", ~ GivingUp'
      PROVE  /\ fastFails' >= 1 => \E t \in TriedOnce' : TRUE
             /\ fastFails' >= 2 => \E t, u \in TriedOnce' : t # u
  <2>1. CASE MarkHandled
    BY <2>1 DEF MarkHandled
  <2>2. ASSUME NEW r \in Runs, StartRun(r) \/ StartResume(r)
        PROVE  fastFails' = 0
    BY <2>2 DEF StartRun, StartResume, Fresh
  <2>3. CASE Fail
    <3>1. outcome' # "blocked" /\ pc = "fail"
      BY <1>2, <2>3 DEF Fail, Goto, GivingUp
    <3>2. fastFails' \in {0, fastFails + 1}
      BY <2>3 DEF Fail, CountFastFail
    <3>3. fastFails \in 0 .. 2 /\ fastFails' \in 0 .. 2
      BY TypeStep DEF TypeOK, DriverType
    <3>4. fastFails >= 1 => \E t \in TriedOnce : TRUE
      BY <1>2, <3>1 DEF FastInv, GivingUp
    <3>5. /\ task \in TriedOnce' /\ task \notin TriedOnce
          /\ TriedOnce \subseteq TriedOnce'
      BY <1>2, <2>3, <3>1, TriedFailed
    <3>6. fastFails' >= 2 => fastFails >= 1
      BY <3>2, <3>3
    <3> QED
      BY <3>4, <3>5, <3>6
  <2>4. CASE ~ MarkHandled /\ ~ Fail /\ ~ \E r \in Runs : StartRun(r) \/ StartResume(r)
    <3>1. fastFails' = fastFails
      BY <2>4, FastStep
    <3>2. TriedOnce \subseteq TriedOnce'
      BY <1>2, <2>4, TriedKept
    <3>3. pc # "idle" /\ ~ GivingUp
      <4>1. pc # "idle"
        BY <1>2, <2>4, LeaveIdle
      <4>2. GivingUp => GivingUp'
        <5>1. pc \in {"clear", "retire"} /\ outcome = "blocked" => pc' \in {"clear", "retire"}
          BY <1>2, GiveUpStep
        <5>2. pc' \in {"clear", "retire"} => outcome' = outcome
          BY <2>4, OutcomeStep
        <5> QED
          BY <5>1, <5>2 DEF GivingUp
      <4> QED
        BY <1>2, <4>1, <4>2
    <3> QED
      BY <1>2, <3>1, <3>2, <3>3 DEF FastInv
  <2> QED
    BY <1>2, <2>1, <2>2, <2>3, <2>4, TypeStep DEF TypeOK, DriverType
<1> QED
  BY <1>1, <1>2 DEF FastInv

\* DemotionTakesTwoTasks holds of the driver: with max_attempts of one or two, the
\* fallback planner comes in only when fast failures in a row met a second task
\* beside the one in hand, which was tried once and is not published.
THEOREM DemotionTheorem == Spec => DemotionTakesTwoTasks
<1>1. Init => FastInv
  BY DEF Init, FastInv, Working, Picked, Granted, Trying
<1>2. ASSUME TypeOK, FastInv, [Next]_vars, MaxAttempts <= 2, ~ override, override'
      PROVE  \E t \in Task \ (handled \cup {task}) : attempts[t].n = 1
  <2>1. Fail
    BY <1>2, FastStep
  <2>2. fastFails >= 2
    <3>1. fastFails \in 0 .. 2
      BY <1>2 DEF TypeOK, DriverType
    <3>2. \E isFast \in {FALSE, FastFail} : CountFastFail(isFast)
      BY <2>1 DEF Fail
    <3>3. \E isFast \in {FALSE, FastFail} :
             (IF isFast THEN fastFails + 1 ELSE 0) >= FastFailLimit
      BY <1>2, <3>2, Zenon DEF CountFastFail
    <3> QED
      BY <3>1, <3>3 DEF FastFailLimit
  <2>3. pc = "fail"
    BY <2>1 DEF Fail
  <2>4. PICK t \in TriedOnce, u \in TriedOnce : t # u
    BY <1>2, <2>2, <2>3 DEF FastInv, GivingUp
  <2>5. PICK v \in TriedOnce : v # task
    BY <2>4
  <2> QED
    BY <2>5 DEF TriedOnce
<1>3. TypeOK /\ FastInv /\ [Next]_vars =>
        [MaxAttempts <= 2 /\ ~ override /\ override'
           => \E t \in Task \ (handled \cup {task}) : attempts[t].n = 1]_vars
  BY <1>2
<1> QED
  BY <1>1, <1>3, FastPreserved, BranchInit, BranchPreserved, ForkInvariant, PTL
  DEF Spec, DemotionTakesTwoTasks

(***************************************************************************)
(* Phases.                                                                 *)
(***************************************************************************)
\* What the driver takes for granted of the backlog it is given: phases are one
\* level deep, their parents and leaves are files under tasks_dir, and a parent is
\* Done exactly when its leaves are.
FlatPhases ==
    /\ Parent \in [Task -> Task \cup {NoTask}]
    /\ \A t \in Task : Parent[t] \in Task => Parent[Parent[t]] = NoTask
    /\ \A t \in Task : Parent[t] \in Task =>
         \A u \in {t, Parent[t]} : Backlog0[u].where = "live"
    /\ \A t \in Task : Parent[t] \in Task =>
         (Backlog0[Parent[t]].status = "Done"
            <=> \A c \in Task : Parent[c] = Parent[t] => Backlog0[c].status = "Done")

\* A phase on a backlog: PhasesClosedOut speaks of every parent that has a leaf.
ClosedOut(tasks, p) == tasks[p].status = "Done"
                         <=> \A c \in Task : Parent[c] = p => tasks[c].status = "Done"

\* The commits of an attempt move no file and make its own task Done.
LEMMA WorkedKeeps ==
  ASSUME NEW tasks \in Backlogs, NEW t \in Task, NEW n \in Int
  PROVE  /\ \A u \in Task : Worked(tasks, t, n)[u].where = tasks[u].where
         /\ \A u \in Task \ {t} : Worked(tasks, t, n)[u] = tasks[u]
         /\ Worked(tasks, t, n)[t].status = "Done"
<1> DEFINE worked == [MarkedDone(tasks[t]) EXCEPT !.work = @ \cup {n}]
<1>1. Worked(tasks, t, n) = [tasks EXCEPT ![t] = worked]
  BY DEF Worked
<1>2. worked.where = tasks[t].where /\ worked.status = "Done"
  <2>1. tasks[t] \in TaskFiles /\ MarkedDone(tasks[t]) \in TaskFiles
    BY MarkedDoneType DEF Backlogs
  <2>2. MarkedDone(tasks[t]).where = tasks[t].where /\ MarkedDone(tasks[t]).status = "Done"
    BY <2>1 DEF MarkedDone, TaskFiles
  <2>3. \A old \in TaskFiles :
           /\ [old EXCEPT !.work = @ \cup {n}].where = old.where
           /\ [old EXCEPT !.work = @ \cup {n}].status = old.status
    BY DEF TaskFiles
  <2> QED
    BY <2>1, <2>2, <2>3
<1> HIDE DEF worked
<1> QED
  BY <1>1, <1>2 DEF Backlogs

\* An attempt on a leaf closes its phase out exactly with the last one, and no
\* other.
LEMMA AttemptedClosesOut ==
  ASSUME FlatPhases, CloseOut, NEW tasks \in Backlogs, NEW t \in Task, NEW n \in Int,
         NEW p \in Task, NEW leaf \in Task, Parent[leaf] = p,
         \A c \in Task : Parent[c] # t,
         \A c \in Task : Parent[c] \in Task =>
            \A u \in {c, Parent[c]} : tasks[u].where = "live",
         ClosedOut(tasks, p)
  PROVE  ClosedOut(Attempted(tasks, t, n), p)
<1> DEFINE done == Worked(tasks, t, n)
           after == Attempted(tasks, t, n)
<1>1. p # t /\ p \notin {NoTask} /\ Parent[p] = NoTask
  BY TaskAssumption DEF FlatPhases
<1>2. /\ done \in Backlogs
      /\ \A u \in Task : done[u].where = tasks[u].where
      /\ \A u \in Task \ {t} : done[u] = tasks[u]
      /\ done[t].status = "Done"
  BY WorkedKeeps, WorkedType
<1>3. \A u \in Task : after[u] = IF u \in PhaseParentToClose(done, t)
                                   THEN MarkedDone(done[u]) ELSE done[u]
  BY DEF Attempted
<1>4. \A u \in Task : MarkedDone(done[u]).status = "Done"
  <2>1. \A old \in TaskFiles : MarkedDone(old).status = "Done"
    BY DEF MarkedDone, TaskFiles
  <2> QED
    BY <1>2, <2>1 DEF Backlogs
<1>5. \A c \in Task : Parent[c] = p => (after[c].status = "Done" <=> done[c].status = "Done")
  <2> SUFFICES ASSUME NEW c \in Task, Parent[c] = p
               PROVE  c \notin PhaseParentToClose(done, t)
    BY <1>3
  <2>1. c # Parent[t]
    BY <1>1 DEF FlatPhases
  <2> QED
    BY <2>1 DEF PhaseParentToClose
<1>6. after[p].status = "Done"
        <=> tasks[p].status = "Done" \/ p \in PhaseParentToClose(done, t)
  BY <1>1, <1>2, <1>3, <1>4
<1>7. p \in PhaseParentToClose(done, t)
        <=> /\ p = Parent[t] /\ tasks[p].status # "Done"
            /\ \A c \in Task : Parent[c] = p => done[c].status = "Done"
  <2>1. \A c \in Task : Parent[c] = p => done[c].where = "live"
    BY <1>2
  <2>2. p = Parent[t] => done[p].where = "live" /\ done[t].where = "live"
    BY <1>2
  <2>3. \A c \in Task : Parent[c] = p => (IsDone(done, c) <=> done[c].status = "Done")
    BY <2>1 DEF IsDone, Loaded
  <2> QED
    BY <1>1, <1>2, <2>1, <2>2, <2>3 DEF PhaseParentToClose, Live
<1>8. CASE p = Parent[t]
  <2>1. tasks[p].status = "Done" => \A c \in Task : Parent[c] = p => done[c].status = "Done"
    BY <1>2 DEF ClosedOut
  <2> QED
    BY <1>5, <1>6, <1>7, <1>8, <2>1 DEF ClosedOut
<1>9. CASE p # Parent[t]
  <2>1. \A c \in Task : Parent[c] = p => done[c] = tasks[c]
    BY <1>2, <1>9
  <2> QED
    BY <1>5, <1>6, <1>7, <1>9, <2>1 DEF ClosedOut
<1> QED
  BY <1>8, <1>9

\* With nobody editing, the base branch changes by attempts on leaves alone.
LEMMA PhasePreserved ==
  ASSUME FlatPhases
  PROVE  TypeOK /\ ForkInv /\ PhaseInv /\ [Next]_vars => PhaseInv'
<1> SUFFICES ASSUME TypeOK, ForkInv, PhaseInv, [Next]_vars, edits' = 0
             PROVE  /\ \A t \in Task : Parent[t] \in Task =>
                         \A u \in {t, Parent[t]} :
                            base'[u].where = "live" /\ mirror'[u].where = "live"
                    /\ pc' \in Working => \A t \in Task : Parent[t] # task'
                    /\ PhasesClosedOut'
  BY DEF PhaseInv
<1>1. ~ \E t \in Task, what \in Edits : Edit(t, what)
  <2>1. \A k \in Nat : k + 1 # 0
    OBVIOUS
  <2>2. edits \in Nat
    BY DEF TypeOK, BoundsType
  <2> QED
    BY <2>1, <2>2 DEF Edit
<1>2. edits = 0
  BY <1>1, EditsStep
<1>3. /\ \A t \in Task : Parent[t] \in Task =>
           \A u \in {t, Parent[t]} : base[u].where = "live" /\ mirror[u].where = "live"
      /\ pc \in Working => \A t \in Task : Parent[t] # task
      /\ PhasesClosedOut
  BY <1>2 DEF PhaseInv
<1>4. base' = base \/ Lands
  BY <1>1, BaseStep
<1>5. CASE Lands
  <2>1. /\ base' = Attempted(base, task, branch[task])
        /\ base \in Backlogs /\ task \in Task /\ branch[task] \in Int
    BY <1>5 DEF Lands, ForkInv, Forked, TypeOK, RemoteType, DriverType, GitType
  <2>2. \A u \in Task : base'[u].where = base[u].where
    BY <2>1, AttemptedRevises
  <2>3. mirror' = mirror \/ mirror' = base'
    BY MirrorStep
  <2>4. PhasesClosedOut'
    <3> SUFFICES ASSUME CloseOut, NEW leaf \in Task, Parent[leaf] # NoTask
                 PROVE  ClosedOut(base', Parent[leaf])
      BY DEF PhasesClosedOut, ClosedOut
    <3>1. Parent[leaf] \in Task
      BY DEF FlatPhases
    <3>2. ClosedOut(base, Parent[leaf])
      BY <1>2, <1>3 DEF PhasesClosedOut, ClosedOut
    <3>3. \A c \in Task : Parent[c] # task
      BY <1>3, <1>5 DEF Lands, Working, Trying
    <3> QED
      BY <1>3, <2>1, <3>1, <3>2, <3>3, AttemptedClosesOut
  <2>5. pc' \in Working => \A t \in Task : Parent[t] # task'
    BY <1>3, <1>5, WorkingStep DEF PickTask, Lands
  <2> QED
    BY <1>3, <2>2, <2>3, <2>4, <2>5
<1>6. CASE base' = base
  <2>1. mirror' = mirror \/ mirror' = base
    BY MirrorStep
  <2>2. PhasesClosedOut'
    BY <1>2, <1>3, <1>6 DEF PhasesClosedOut
  <2>3. ASSUME pc' \in Working, NEW t \in Task
        PROVE  Parent[t] # task'
    <3>1. CASE PickTask
      <4>1. task' \in Task /\ ~ IsPhaseParent(mirror, task')
        BY <3>1 DEF PickTask, NextReady, Ready, Live
      <4>2. SUFFICES ASSUME Parent[t] = task' PROVE FALSE
        OBVIOUS
      <4>3. t # task'
        BY <4>1, <4>2, TaskAssumption DEF FlatPhases
      <4>4. t \in Loaded(mirror)
        BY <1>3, <4>1, <4>2 DEF Loaded
      <4> QED
        BY <4>1, <4>2, <4>3, <4>4 DEF IsPhaseParent
    <3>2. CASE ~ PickTask
      BY <1>3, <2>3, <3>2, WorkingStep
    <3> QED
      BY <3>1, <3>2
  <2> QED
    BY <1>3, <1>6, <2>1, <2>2, <2>3
<1> QED
  BY <1>4, <1>5, <1>6

\* PhasesClosedOut holds of the driver on a backlog with flat phases, until a human
\* edits it: no phase is closed early or missed, in whatever order its leaves are
\* published and however often that fails.
THEOREM PhaseTheorem ==
  ASSUME FlatPhases
  PROVE  Spec => []PhasesClosedOut
<1>1. Init => PhaseInv
  <2> SUFFICES ASSUME Init PROVE PhaseInv
    OBVIOUS
  <2>1. base = Backlog0 /\ mirror = Backlog0 /\ pc \notin Working
    BY DEF Init, Working, Picked, Granted, Trying
  <2>2. PhasesClosedOut
    BY <2>1 DEF PhasesClosedOut, FlatPhases
  <2> QED
    BY <2>1, <2>2 DEF PhaseInv, FlatPhases
<1>2. PhaseInv => PhasesClosedOut
  BY DEF PhaseInv, PhasesClosedOut
<1> QED
  BY <1>1, <1>2, PhasePreserved, ForkInvariant, PTL DEF Spec

(***************************************************************************)
(* What next_ready returns.                                                *)
(***************************************************************************)
\* A set of numbers has a least one.
LEMMA LeastNumber ==
  ASSUME NEW T, T \subseteq Nat, T # {}
  PROVE  \E i \in T : \A j \in T : i <= j
<1>1. PICK i \in T : \A j \in T : ~ (<<j, i>> \in OpToRel(<, Nat))
  BY NatLessThanWellFounded, WFMin
<1>2. \A j \in T : j < i => <<j, i>> \in OpToRel(<, Nat)
  BY DEF OpToRel
<1>3. \A j \in T : ~ (j < i)
  BY <1>1, <1>2
<1>4. \A j \in T : i <= j
  BY <1>3
<1> QED
  BY <1>4

\* Of the ready tasks one comes before all others: there are no ties.
LEMMA FirstReady ==
  ASSUME NEW ready, ready \subseteq Task, ready # {}
  PROVE  \E t \in ready : \A u \in ready \ {t} : Before(t, u)
<1>1. ready \subseteq Nat /\ \A t \in ready : Ordinal[t] \in Nat
  BY TaskAssumption, OrdinalAssumption
<1>2. PICK i \in {Ordinal[t] : t \in ready} : \A j \in {Ordinal[t] : t \in ready} : i <= j
  <2>1. {Ordinal[t] : t \in ready} \subseteq Nat /\ {Ordinal[t] : t \in ready} # {}
    BY <1>1
  <2> QED
    BY <2>1, LeastNumber
<1>3. PICK t \in {u \in ready : Ordinal[u] = i} :
         \A u \in {v \in ready : Ordinal[v] = i} : t <= u
  <2>1. {u \in ready : Ordinal[u] = i} \subseteq Nat /\ {u \in ready : Ordinal[u] = i} # {}
    BY <1>1, <1>2
  <2> QED
    BY <2>1, LeastNumber
<1>4. ASSUME NEW u \in ready \ {t}
      PROVE  Before(t, u)
  <2>1. Ordinal[t] = i /\ i <= Ordinal[u] /\ Ordinal[u] \in Nat /\ i \in Nat
        /\ t \in Nat /\ u \in Nat
    BY <1>1, <1>2, <1>3
  <2>2. Ordinal[u] = i => t <= u
    BY <1>3
  <2> QED
    BY <1>4, <2>1, <2>2 DEF Before
<1> QED
  BY <1>3, <1>4

\* next_ready returns one task, and without --task it returns None only when nothing
\* is ready: neither does the sort depend on the order in which the task files are
\* read, nor does the loop end while the mirror shows a ready task.
THEOREM NextReadyTheorem ==
  ASSUME NEW tasks, NEW spent, NEW done, NEW only
  PROVE  /\ \A t, u \in NextReady(tasks, spent, done, only) : t = u
         /\ NextReady(tasks, spent, done, only) \subseteq Ready(tasks, spent, done)
         /\ only = NoTask /\ NextReady(tasks, spent, done, only) = {}
              => Ready(tasks, spent, done) = {}
<1> DEFINE ready == Ready(tasks, spent, done)
<1>1. ready \subseteq Task
  BY DEF Ready, Live
<1>2. \A t, u \in Task : t # u => ~ (Before(t, u) /\ Before(u, t))
  <2> SUFFICES ASSUME NEW t \in Task, NEW u \in Task, Before(t, u), Before(u, t) PROVE FALSE
    OBVIOUS
  <2>1. t \in Nat /\ u \in Nat /\ Ordinal[t] \in Nat /\ Ordinal[u] \in Nat
    BY TaskAssumption, OrdinalAssumption
  <2> QED
    BY <2>1 DEF Before
<1>3. NextReady(tasks, spent, done, only) =
        IF only = NoTask THEN {t \in ready : \A u \in ready \ {t} : Before(t, u)}
                         ELSE ready \cap {only}
  BY DEF NextReady
<1> HIDE DEF ready
<1>4. only = NoTask => \A t, u \in NextReady(tasks, spent, done, only) : t = u
  BY <1>1, <1>2, <1>3
<1>5. only # NoTask => \A t, u \in NextReady(tasks, spent, done, only) : t = u
  BY <1>3
<1>6. only = NoTask /\ ready # {} => NextReady(tasks, spent, done, only) # {}
  BY <1>1, <1>3, FirstReady
<1>7. NextReady(tasks, spent, done, only) \subseteq ready
  BY <1>3
<1> QED
  BY <1>4, <1>5, <1>6, <1>7 DEF ready

(***************************************************************************)
(* Landed work, with pull requests.                                        *)
(***************************************************************************)
\* What was published is noted, or about to be.
NotedInv == \A w \in published : w[1] \in handled \/ (pc = "handled" /\ w[1] = task)

\* A driver that does not die between the two notes what it published.
LEMMA NotedPreserved ==
  ASSUME "handled" \notin DeathPoints
  PROVE  TypeOK /\ NotedInv /\ [Next]_vars => NotedInv'
<1> SUFFICES ASSUME TypeOK, NotedInv, [Next]_vars, NEW w \in published'
             PROVE  w[1] \in handled' \/ (pc' = "handled" /\ w[1] = task')
  BY DEF NotedInv
<1>1. handled \subseteq handled'
  BY HandledStep
<1>2. CASE w \in published
  <2>1. CASE pc = "handled" /\ w[1] = task
    <3>1. (pc' = "handled" /\ task' = task) \/ MarkHandled
      BY <2>1, NoteStep
    <3> QED
      BY <2>1, <3>1 DEF MarkHandled
  <2> QED
    BY <1>1, <1>2, <2>1 DEF NotedInv
<1>3. CASE w \notin published
  <2>1. Push \/ OpenPullRequest
    BY <1>3, PublishedStep
  <2> QED
    BY <1>3, <2>1 DEF Push, OpenPullRequest, Goto
<1> QED
  BY <1>2, <1>3

\* LandedNotRedone holds of the driver that opens pull requests too, if it does not
\* die between the pull request and handled.txt: nothing but that file keeps a task
\* from being attempted again until its pull request is merged.
THEOREM LandedPullTheorem ==
  ASSUME "handled" \notin DeathPoints
  PROVE  Spec => []LandedNotRedone
<1>1. Init => NotedInv /\ FastInv
  BY DEF Init, NotedInv, FastInv, Working, Picked, Granted, Trying
<1>2. LandedInv /\ NotedInv /\ FastInv => LandedNotRedone
  BY DEF LandedInv, NotedInv, FastInv, LandedNotRedone, Landed, InHand, Unlaunched, Working,
         Trying
<1> QED
  BY <1>1, <1>2, LandedInit, LandedPreserved, NotedPreserved, BranchInit, BranchPreserved,
     FastPreserved, ForkInvariant, PTL DEF Spec
=============================================================================
