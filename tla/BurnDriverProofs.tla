--------------------------- MODULE BurnDriverProofs ---------------------------
(***************************************************************************)
(* Theorems about BurnDriver, for every backlog, every configuration and   *)
(* any number of crashes, kills and edits.  TypeOK comes first; then       *)
(* inductive invariants that strengthen the safety properties,             *)
(* each preserved by one lemma that cites BurnDriverSteps for the actions  *)
(* that can disturb it; then the properties.                               *)
(***************************************************************************)
EXTENDS BurnDriverSteps

USE DEF backlogVars, publishVars, gitVars, budgetVars, agentVars, localVars, boundVars

(***************************************************************************)
(* Types.                                                                  *)
(***************************************************************************)
\* next_ready hands out tasks of the backlog.
LEMMA NextReadyInTask ==
  ASSUME NEW tasks, NEW spent, NEW done, NEW only
  PROVE  NextReady(tasks, spent, done, only) \subseteq Task
  BY DEF NextReady, Ready, Live

\* Successors, as a fact of their own: the backends prove little about
\* `rec.field + 1`.
LEMMA NatSuccessor == \A n \in Nat : n + 1 \in Nat
  OBVIOUS

\* Revisions are numbers, and so is the next one.
LEMMA RevisionType ==
  ASSUME NEW old \in TaskFiles
  PROVE  old.rev \in Nat /\ old.rev + 1 \in Nat
<1>1. old.rev \in Nat
  BY DEF TaskFiles
<1> QED
  BY <1>1, NatSuccessor

\* A task forced to Done is a task.
LEMMA MarkedDoneType ==
  ASSUME NEW old \in TaskFiles
  PROVE  MarkedDone(old) \in TaskFiles
<1>1. \A k \in Nat : [old EXCEPT !.status = "Done", !.rev = k] \in TaskFiles
  BY DEF TaskFiles
<1> QED
  BY <1>1, RevisionType, Zenon DEF MarkedDone

\* An edited task is a task.
LEMMA EditedAsType ==
  ASSUME NEW old \in TaskFiles, NEW what \in Edits
  PROVE  EditedAs(what, old) \in TaskFiles
<1>1. what \in {"revise", "finish", "archive", "delete"}
  BY BoundsAssumption
<1>2. \A k \in Nat : [old EXCEPT !.rev = k] \in TaskFiles
  BY DEF TaskFiles
<1>3. [old EXCEPT !.rev = @ + 1] \in TaskFiles
  BY <1>2, RevisionType, Zenon
<1>4. [old EXCEPT !.where = "archived"] \in TaskFiles
  BY DEF TaskFiles
<1>5. [old EXCEPT !.where = "gone"] \in TaskFiles
  BY DEF TaskFiles
<1> QED
  BY <1>1, <1>3, <1>4, <1>5, MarkedDoneType DEF EditedAs

\* What an attempt makes of a backlog is a backlog, ...
LEMMA WorkedType ==
  ASSUME NEW tasks \in Backlogs, NEW t \in Task, NEW n \in Int
  PROVE  Worked(tasks, t, n) \in Backlogs
<1>1. MarkedDone(tasks[t]) \in TaskFiles
  BY MarkedDoneType DEF Backlogs
<1>2. \A r \in TaskFiles : [r EXCEPT !.work = @ \cup {n}] \in TaskFiles
  BY DEF TaskFiles
<1> DEFINE worked == [MarkedDone(tasks[t]) EXCEPT !.work = @ \cup {n}]
<1>3. worked \in TaskFiles
  BY <1>1, <1>2
<1>4. Worked(tasks, t, n) = [tasks EXCEPT ![t] = worked]
  BY DEF Worked
<1> HIDE DEF worked
<1> QED
  BY <1>3, <1>4 DEF Backlogs

\* ... also once the phase is closed out.
LEMMA AttemptedType ==
  ASSUME NEW tasks \in Backlogs, NEW t \in Task, NEW n \in Int
  PROVE  Attempted(tasks, t, n) \in Backlogs
<1> DEFINE done == Worked(tasks, t, n)
<1>1. \A u \in Task : done[u] \in TaskFiles /\ MarkedDone(done[u]) \in TaskFiles
  BY WorkedType, MarkedDoneType DEF Backlogs
<1> QED
  BY <1>1 DEF Attempted, Backlogs

\* What bump_attempts adds to and copies are numbers.
LEMMA BumpType ==
  ASSUME TypeOK, task \in Task
  PROVE  /\ attempts[task].n \in Nat /\ mirror[task].rev \in Nat
         /\ streak[task].n \in Nat /\ streak[task].rev \in Nat /\ forkTree[task].rev \in Nat
  BY DEF TypeOK, BurnDirType, RemoteType, HistoryType, DriverType, Ledgers, Backlogs, TaskFiles

\* An attempt is counted on one revision.
LEMMA SpendType ==
  ASSUME TypeOK, task \in Task, Spend
  PROVE  streak' \in [Task -> [n : Nat, rev : Nat]]
<1> DEFINE spent == IF streak[task].rev = forkTree[task].rev
                      THEN [n |-> streak[task].n + 1, rev |-> streak[task].rev]
                      ELSE [n |-> 1, rev |-> forkTree[task].rev]
<1>1. spent \in [n : Nat, rev : Nat]
  BY BumpType
<1>2. streak' = [streak EXCEPT ![task] = spent]
  BY DEF Spend
<1> HIDE DEF spent
<1> QED
  BY <1>1, <1>2 DEF TypeOK, HistoryType

\* What is counted, and on which revision.
LEMMA SpendStep ==
  ASSUME TypeOK, task \in Task, Spend
  PROVE  /\ streak'[task].rev = forkTree[task].rev
         /\ streak'[task].n = IF streak[task].rev = forkTree[task].rev
                                THEN streak[task].n + 1 ELSE 1
         /\ \A u \in Task \ {task} : streak'[u] = streak[u]
  BY DEF Spend, TypeOK, HistoryType

\* retire_branch keeps branches and rescue refs well typed.
LEMMA RetireType ==
  ASSUME TypeOK, NEW t \in Task, NEW n \in Nat, NEW c, NEW p, RetireBranch(t, n, c, p)
  PROVE  branch' \in [Task -> Int] /\ rescue' \subseteq Task \X Nat \X Int
  BY DEF TypeOK, GitType, RetireBranch, NoRef

\* The types that the facts about agents and branches need.
LEMMA StateTypes ==
  TypeOK => /\ agent \in [Task -> {"none", "working", "exited"}]
            /\ branch \in [Task -> Int]
  BY DEF TypeOK, AgentType, GitType

\* The initial states are well typed.
LEMMA TypeInit == Init => TypeOK
<1> SUFFICES ASSUME Init PROVE TypeOK
  OBVIOUS
<1>1. RemoteType
  BY Backlog0Assumption DEF Init, RemoteType, NoRef
<1>2. GitType /\ AgentType
  BY DEF Init, GitType, AgentType, NoRef
<1>3. BurnDirType /\ HistoryType
  BY Ledger0Assumption DEF Init, BurnDirType, HistoryType, Ledgers
<1>4. DriverType
  BY Backlog0Assumption DEF Init, DriverType, RunModes, Points, Flags, Codes
<1>5. BoundsType
  BY BoundsAssumption DEF Init, BoundsType
<1> QED
  BY <1>1, <1>2, <1>3, <1>4, <1>5 DEF TypeOK

\* Every step keeps the state well typed.
LEMMA TypeStep == TypeOK /\ [Next]_vars => TypeOK'
<1> SUFFICES ASSUME TypeOK, [Next]_vars PROVE TypeOK'
  OBVIOUS
<1> USE DEF TypeOK, RemoteType, GitType, BurnDirType, AgentType, DriverType, HistoryType,
            BoundsType, Points, Codes, Flags, NoTask, NoRef, Goto, Stop
<1>1. ASSUME NEW r \in Runs, StartRun(r) PROVE TypeOK'
  BY <1>1, RunsAssumption, Backlog0Assumption DEF StartRun, Fresh
<1>2. ASSUME NEW r \in Runs, StartResume(r) PROVE TypeOK'
  <2>1. pc' \in {"reclaim", "idle"} /\ exit' \in Codes
    BY <1>2 DEF StartResume
  <2>2. DriverType'
    BY <1>2, <2>1, RunsAssumption, Backlog0Assumption DEF StartResume, Fresh
  <2>3. BurnDirType'
    BY <1>2 DEF StartResume
  <2> QED
    BY <1>2, <2>2, <2>3 DEF StartResume
<1>3. CASE ReclaimRemove
  BY <1>3, SMTT(20) DEF ReclaimRemove, RemoveWorktree
<1>4. CASE ReclaimRetire
  BY <1>4, RetireType DEF ReclaimRetire, Ledgers
<1>5. CASE ReclaimDone
  BY <1>5 DEF ReclaimDone
<1>6. CASE Boot
  BY <1>6 DEF Boot
<1>7. CASE PickCrash
  BY <1>7 DEF PickCrash
<1>8. CASE PickTask
  BY <1>8, NextReadyInTask DEF PickTask
<1>9. CASE QueueEmpty
  BY <1>9 DEF QueueEmpty
<1>10. CASE GuardStop
  BY <1>10 DEF GuardStop
<1>11. CASE GuardPass
  BY <1>11 DEF GuardPass
<1>12. CASE Refresh
  BY <1>12 DEF Refresh
<1>13. CASE Cut
  BY <1>13 DEF Cut, RemoveWorktree
<1>14. CASE AddCrash
  BY <1>14 DEF AddCrash
<1>15. CASE Add
  BY <1>15 DEF Add
<1>16. CASE Prepare
  BY <1>16 DEF Prepare
<1>17. CASE BumpOpen
  <2>1. task \in Task
    BY <1>17 DEF BumpOpen
  <2>2. attempts' \in Ledgers
    BY <1>17, <2>1, BumpType DEF BumpOpen, Ledgers
  <2>3. streak' \in [Task -> [n : Nat, rev : Nat]]
    BY <1>17, <2>1, SpendType DEF BumpOpen
  <2> QED
    BY <1>17, <2>2, <2>3 DEF BumpOpen
<1>18. CASE BumpWrite
  BY <1>18, BumpType DEF BumpWrite
<1>19. CASE PreflightOffends
  BY <1>19 DEF PreflightOffends, RemoveWorktree
<1>20. CASE Discard
  BY <1>20 DEF Discard
<1>21. CASE PreflightPass
  BY <1>21 DEF PreflightPass
<1>22. CASE Launch
  BY <1>22 DEF Launch
<1>23. CASE Wait
  BY <1>23 DEF Wait
<1>24. CASE VerifyPass
  BY <1>24 DEF VerifyPass
<1>25. CASE VerifyFail
  BY <1>25 DEF VerifyFail
<1>26. CASE FastForward
  BY <1>26 DEF FastForward
<1>27. CASE FastForwardRefused
  BY <1>27 DEF FastForwardRefused
<1>28. CASE Push
  <2>1. base' \in Backlogs /\ tip' \in Nat
    BY <1>28, AttemptedType DEF Push
  <2> QED
    BY <1>28, <2>1 DEF Push
<1>29. CASE PushBranch
  BY <1>29 DEF PushBranch
<1>30. CASE OpenPullRequest
  BY <1>30 DEF OpenPullRequest
<1>31. CASE MarkHandled
  BY <1>31 DEF MarkHandled
<1>32. CASE Fail
  BY <1>32 DEF Fail, CountFastFail, FastFailLimit
<1>33. CASE Clear
  BY <1>33 DEF Clear, RemoveWorktree
<1>34. CASE Retire
  BY <1>34, RetireType DEF Retire
<1>35. CASE Drain
  BY <1>35 DEF Drain
<1>36. ASSUME NEW t \in Task, AgentCommit(t) PROVE TypeOK'
  BY <1>36 DEF AgentCommit, Ledgers
<1>37. ASSUME NEW t \in Task, AgentMarks(t) PROVE TypeOK'
  BY <1>37 DEF AgentMarks
<1>38. ASSUME NEW t \in Task, AgentExits(t) PROVE TypeOK'
  BY <1>38 DEF AgentExits
<1>39. CASE KillSentinel
  BY <1>39, BoundsAssumption DEF KillSentinel
<1>40. CASE KillAgents
  BY <1>40, BoundsAssumption DEF KillAgents
<1>41. CASE KillDriver
  BY <1>41, BoundsAssumption DEF KillDriver
<1>42. CASE Die
  BY <1>42, BoundsAssumption DEF Die
<1>43. ASSUME NEW t \in Task, NEW what \in Edits, Edit(t, what) PROVE TypeOK'
  BY <1>43, BoundsAssumption, EditedAsType DEF Edit, Backlogs
<1>44. CASE BumpCrash
  BY <1>44 DEF BumpCrash
<1>45. CASE Status
  BY <1>45 DEF Status
<1>46. CASE UNCHANGED vars
  BY <1>46 DEF vars
<1>47. QED
  BY <1>1, <1>2, <1>3, <1>4, <1>5, <1>6, <1>7, <1>8, <1>9, <1>10, <1>11, <1>12, <1>13,
     <1>14, <1>15, <1>16, <1>17, <1>18, <1>19, <1>20, <1>21, <1>22, <1>23, <1>24, <1>25,
     <1>26, <1>27, <1>28, <1>29, <1>30, <1>31, <1>32, <1>33, <1>34, <1>35, <1>36, <1>37,
     <1>38, <1>39, <1>40, <1>41, <1>42, <1>43, <1>44, <1>45, <1>46
  DEF Next, Driver, Environment

\* Every reachable state is well typed, and between the pick of a task and the end
\* of its turn the driver has a task.
THEOREM TypeTheorem == Spec => []TypeOK
  BY TypeInit, TypeStep, PTL DEF Spec

(***************************************************************************)
(* The inductive invariants.                                               *)
(***************************************************************************)
\* Revisions flow one way: from the base branch to the mirror, from there to the
\* ledger; and a task between its pick and its bump has budget left for the
\* revision it will be attempted on.
Picked  == {"guard", "refresh"}
Granted == {"cut", "add", "prepare", "bump"}

BudgetInv ==
    /\ \A t \in Task : /\ streak[t].rev <= attempts[t].fp
                       /\ attempts[t].fp <= mirror[t].rev
                       /\ mirror[t].rev <= base[t].rev
                       /\ streak[t].n <= attempts[t].n
                       /\ streak[t].n <= MaxAttempts
    /\ pc \in Picked => \/ attempts[task].n < MaxAttempts
                        \/ attempts[task].fp < mirror[task].rev
    /\ pc \in Granted => /\ forkTree[task].rev <= mirror[task].rev
                         /\ \/ attempts[task].n < MaxAttempts
                            \/ attempts[task].fp < forkTree[task].rev

\* While an attempt is under way, the tree it was forked from is the base branch
\* unless that moved on.
Forked == {"cut", "add", "prepare", "bump", "record", "preflight", "discard", "launch",
           "wait", "verify", "publish", "push", "gh"}

ForkInv == pc \in Forked => forkTip <= tip /\ (forkTip = tip => forkTree = base)

\* What a branch holds is the last attempt counted, nothing is committed before
\* the launch, and what is about to be dropped has been published.
Unlaunched == {"prepare", "bump", "record", "preflight", "discard", "launch"}
Counted    == {"preflight", "discard", "launch", "wait", "verify", "publish", "push", "gh",
               "handled", "fail", "clear", "retire"}

Verified == {"publish", "push", "gh", "handled"}
Reported == pc = "handled" \/ (pc \in {"clear", "retire"} /\ outcome = "published")

BranchInv ==
    /\ \A t \in Task : branch[t] \in {NoRef, 0, attempts[t].n}
    /\ pc \in Unlaunched => branch[task] = 0
    /\ pc \in Unlaunched \cup {"add"} => agent[task] = "none"
    /\ pc \in Counted => attempt = attempts[task].n /\ attempt > 0
    /\ pc = "record" => attempts[task].n > 0
    /\ \A t \in Task : agent[t] = "working" => attempts[t].n > 0
    /\ \A w \in made : w[2] > 0
    /\ pc \in Verified => branch[task] > 0
    /\ Reported => branch[task] > 0 /\ <<task, branch[task]>> \in published
    /\ \A t \in Task : \A n \in base[t].work \cup mirror[t].work : <<t, n>> \in published

\* A task is Done on the base branch once it was on the mirror, and the task in
\* hand, like every task worked before, has its dependencies Done there.
InHand == Picked \cup Granted \cup Unlaunched

DepsInv ==
    /\ \A t \in Task : mirror[t].status = "Done" => base[t].status = "Done"
    /\ pc \in InHand => \A d \in Deps[task] : d \in Task /\ base[d].status = "Done"
    /\ \A t \in Task : agent[t] = "working" =>
         \A d \in Deps[t] : d \in Task /\ base[d].status = "Done"
    /\ DepsFirst

\* Work that landed shows on the mirror as Done or is in handled.txt, whenever
\* the mirror is going to be asked for the next task.
LandedInv ==
    /\ \A t \in Task : base[t].work # {} => base[t].status = "Done"
    /\ pc \notin {"idle", "reclaim", "unhook", "boot"} =>
         \A t \in Task : base[t].work # {} =>
            \/ mirror[t].status = "Done"
            \/ t \in handled
            \/ pc = "handled" /\ t = task
    /\ pc \in InHand => base[task].work = {}

(***************************************************************************)
(* What the operators on backlogs do to a task.                            *)
(***************************************************************************)
\* The numbers BudgetInv compares.
LEMMA Numbers ==
  ASSUME TypeOK, NEW t \in Task
  PROVE  /\ attempts[t].n \in Nat /\ attempts[t].fp \in Nat
         /\ streak[t].n \in Nat /\ streak[t].rev \in Nat
         /\ base[t].rev \in Nat /\ mirror[t].rev \in Nat /\ forkTree[t].rev \in Nat
  BY DEF TypeOK, RemoteType, BurnDirType, HistoryType, DriverType, Ledgers, Backlogs, TaskFiles

\* Forcing a task to Done, closing its phase out and editing a task all add
\* revisions.
LEMMA MarkedDoneRevises ==
  ASSUME NEW old \in TaskFiles
  PROVE  old.rev \in Nat /\ MarkedDone(old).rev = old.rev + 1
  BY DEF MarkedDone, TaskFiles

\* An attempt only adds: it reopens nothing, moves no file, and brings its own
\* commits to its own task.
LEMMA AttemptedRevises ==
  ASSUME NEW tasks \in Backlogs, NEW t \in Task, NEW n \in Int, NEW u \in Task
  PROVE  /\ tasks[u].rev <= Attempted(tasks, t, n)[u].rev
         /\ tasks[u].where = Attempted(tasks, t, n)[u].where
         /\ tasks[u].status = "Done" => Attempted(tasks, t, n)[u].status = "Done"
         /\ Attempted(tasks, t, n)[t].status = "Done"
         /\ Attempted(tasks, t, n)[t].work = tasks[t].work \cup {n}
         /\ u # t => Attempted(tasks, t, n)[u].work = tasks[u].work
<1> DEFINE done == Worked(tasks, t, n)
<1>1. ASSUME NEW old \in TaskFiles
      PROVE  /\ old.rev <= MarkedDone(old).rev
             /\ MarkedDone(old).where = old.where
             /\ MarkedDone(old).status = "Done"
             /\ MarkedDone(old).work = old.work
  <2>1. \A k \in Nat : k <= k + 1
    OBVIOUS
  <2> QED
    BY <2>1, MarkedDoneRevises DEF MarkedDone, TaskFiles
<1>2. tasks[u] \in TaskFiles /\ tasks[t] \in TaskFiles /\ done \in Backlogs
  BY WorkedType DEF Backlogs
<1>3. /\ tasks[u].rev <= done[u].rev
      /\ done[u].where = tasks[u].where
      /\ tasks[u].status = "Done" => done[u].status = "Done"
      /\ done[t].status = "Done"
      /\ done[t].work = tasks[t].work \cup {n}
      /\ u # t => done[u].work = tasks[u].work
  <2> DEFINE marked == MarkedDone(tasks[t])
  <2>1. marked \in TaskFiles
    BY <1>2, MarkedDoneType
  <2>2. /\ done[t].rev = marked.rev /\ done[t].where = marked.where
        /\ done[t].status = marked.status /\ done[t].work = marked.work \cup {n}
        /\ u # t => done[u] = tasks[u]
    <3> HIDE DEF marked
    <3>1. done = [tasks EXCEPT ![t] = [marked EXCEPT !.work = @ \cup {n}]]
      BY DEF Worked, marked
    <3> DEFINE committed == [marked EXCEPT !.work = @ \cup {n}]
    <3>2. /\ committed.rev = marked.rev /\ committed.where = marked.where
          /\ committed.status = marked.status /\ committed.work = marked.work \cup {n}
      BY <2>1 DEF TaskFiles
    <3>3. done[t] = committed /\ (u # t => done[u] = tasks[u])
      <4> HIDE DEF committed
      <4>1. done = [tasks EXCEPT ![t] = committed]
        BY <3>1 DEF committed
      <4> QED
        BY <4>1 DEF Backlogs
    <3> QED
      BY <3>2, <3>3
  <2>3. \A k \in Nat : k <= k
    OBVIOUS
  <2> QED
    BY <1>1, <1>2, <2>2, <2>3, RevisionType
<1>4. done[u] \in TaskFiles /\ done[t] \in TaskFiles
  BY <1>2 DEF Backlogs
<1>5. \A v \in {u, t} : Attempted(tasks, t, n)[v] = done[v]
                        \/ Attempted(tasks, t, n)[v] = MarkedDone(done[v])
  BY DEF Attempted
<1>6. \A i, j, k \in Nat : i <= j /\ j <= k => i <= k
  OBVIOUS
<1>7. tasks[u].rev \in Nat /\ done[u].rev \in Nat /\ MarkedDone(done[u]).rev \in Nat
  BY <1>2, <1>4, MarkedDoneType, RevisionType
<1> QED
  BY <1>1, <1>3, <1>4, <1>5, <1>6, <1>7

\* A human edit adds a revision, reopens nothing and brings no commits.
LEMMA EditedAsRevises ==
  ASSUME NEW old \in TaskFiles, NEW what \in Edits
  PROVE  /\ old.rev <= EditedAs(what, old).rev
         /\ EditedAs(what, old).status \in {old.status, "Done"}
         /\ EditedAs(what, old).work = old.work
<1>1. what \in {"revise", "finish", "archive", "delete"}
  BY BoundsAssumption
<1>2. \A k \in Nat : k <= k /\ k <= k + 1
  OBVIOUS
<1>3. MarkedDone(old).rev = old.rev + 1 /\ MarkedDone(old).status = "Done"
      /\ MarkedDone(old).work = old.work
  BY DEF MarkedDone, TaskFiles
<1> QED
  BY <1>1, <1>2, <1>3, RevisionType DEF EditedAs, TaskFiles

(***************************************************************************)
(* Publishing and the edits of humans.                                     *)
(***************************************************************************)
\* An edit moves the tip away from the fork point for good.
LEMMA ForkPreserved == TypeOK /\ ForkInv /\ [Next]_vars => ForkInv'
<1> SUFFICES ASSUME TypeOK, ForkInv, [Next]_vars, pc' \in Forked
             PROVE  forkTip' <= tip' /\ (forkTip' = tip' => forkTree' = base')
  BY DEF ForkInv
<1>1. tip \in Nat /\ forkTip \in Nat
  BY DEF TypeOK, RemoteType, DriverType
<1>2. CASE Refresh
  BY <1>1, <1>2 DEF Refresh
<1>3. CASE ~ Refresh
  <2>1. pc \in Forked
    <3>1. pc' = pc \/ <<pc, pc'>> \in Flow
      BY FlowStep DEF Forked
    <3>2. pc \in Forked \/ pc = "refresh"
      BY <3>1 DEF Flow, Forked
    <3>3. pc # "refresh"
      BY <1>3, EnterCut DEF Forked
    <3> QED
      BY <3>2, <3>3
  <2>2. forkTip' = forkTip /\ forkTree' = forkTree
    BY <1>3, ForkTipStep DEF Forked
  <2>3. forkTip <= tip /\ (forkTip = tip => forkTree = base)
    BY <2>1 DEF ForkInv
  <2>4. (base' = base /\ tip' = tip) \/ tip' = tip + 1
    BY BaseStep DEF Edit, Lands
  <2> QED
    BY <1>1, <2>2, <2>3, <2>4
<1> QED
  BY <1>2, <1>3

\* The two invariants that the proofs below share.
LEMMA ForkInvariant == Spec => [](TypeOK /\ ForkInv)
<1>1. Init => ForkInv
  BY DEF Init, ForkInv, Forked
<1> QED
  BY <1>1, ForkPreserved, TypeTheorem, PTL DEF Spec

\* A push that lands replaces the base branch by what the attempt makes of that
\* very base branch, so that no edit is undone.
LEMMA EditsKeptStep ==
  ASSUME TypeOK, ForkInv, [Next]_vars, NEW t \in Task
  PROVE  /\ base[t].rev <= base'[t].rev
         /\ base[t].where # "live" => base'[t].where = base[t].where
         /\ base[t].status = "Done" => base'[t].status = "Done"
<1>1. CASE base' = base
  <2>1. \A k \in Nat : k <= k
    OBVIOUS
  <2> QED
    BY <1>1, <2>1, Numbers
<1>2. CASE Lands
  <2>1. forkTree = base
    BY <1>2 DEF Lands, ForkInv, Forked
  <2>2. base' = Attempted(base, task, branch[task])
    BY <1>2, <2>1 DEF Lands
  <2>3. branch[task] \in Int /\ task \in Task /\ base \in Backlogs
    BY <1>2 DEF Lands, TypeOK, GitType, DriverType, RemoteType
  <2>4. base[t].rev <= base'[t].rev
    BY <2>2, <2>3, AttemptedRevises
  <2>5. base[t].where = base'[t].where
    BY <2>2, <2>3, AttemptedRevises
  <2>6. base[t].status = "Done" => base'[t].status = "Done"
    BY <2>2, <2>3, AttemptedRevises
  <2> QED
    BY <2>4, <2>5, <2>6
<1>3. ASSUME NEW u \in Task, NEW what \in Edits, Edit(u, what)
      PROVE  /\ base[t].rev <= base'[t].rev
             /\ base[t].where # "live" => base'[t].where = base[t].where
             /\ base[t].status = "Done" => base'[t].status = "Done"
  <2>1. base[t] \in TaskFiles /\ base[u].where = "live"
    BY <1>3 DEF Edit, TypeOK, RemoteType, Backlogs
  <2>2. base'[t] = IF t = u THEN EditedAs(what, base[t]) ELSE base[t]
    BY <1>3 DEF Edit, TypeOK, RemoteType, Backlogs
  <2>3. \A k \in Nat : k <= k
    OBVIOUS
  <2> QED
    BY <2>1, <2>2, <2>3, EditedAsRevises, RevisionType
<1> QED
  BY <1>1, <1>2, <1>3, BaseStep

\* HumanEditsKept holds of the driver, whenever humans push.
THEOREM EditsTheorem == Spec => HumanEditsKept
<1>1. TypeOK /\ ForkInv /\ [Next]_vars =>
        [\A t \in Task : /\ base[t].rev <= base'[t].rev
                         /\ base[t].where # "live" => base'[t].where = base[t].where]_vars
  BY EditsKeptStep
<1> QED
  BY <1>1, ForkInvariant, PTL DEF Spec, HumanEditsKept

(***************************************************************************)
(* The budget of a revision.                                               *)
(***************************************************************************)
\* At the start the ledger is within the budget.
LEMMA BudgetInit == Init => BudgetInv
<1> SUFFICES ASSUME Init PROVE BudgetInv
  OBVIOUS
<1>1. /\ mirror = base /\ mirror = Backlog0 /\ attempts = Ledger0 /\ pc = "idle"
      /\ \A t \in Task : streak[t].n = attempts[t].n /\ streak[t].rev = attempts[t].fp
  BY DEF Init
<1>2. \A t \in Task : /\ attempts[t].n \in Nat /\ attempts[t].n <= MaxAttempts
                      /\ attempts[t].fp \in Nat /\ attempts[t].fp <= mirror[t].rev
  BY <1>1, Ledger0Assumption DEF Ledgers
<1>3. \A t \in Task : mirror[t].rev \in Nat
  BY <1>1, Backlog0Assumption DEF Backlogs, TaskFiles
<1>4. \A k \in Nat : k <= k
  OBVIOUS
<1> QED
  BY <1>1, <1>2, <1>3, <1>4 DEF BudgetInv, Picked, Granted

\* Budget granted on the mirror as it was is budget for what the worktree is cut
\* at, and the ledger is charged with that revision or a later one: definitions
\* are only revised forwards.
LEMMA BudgetPreserved == TypeOK /\ ForkInv /\ BudgetInv /\ [Next]_vars => BudgetInv'
<1> SUFFICES ASSUME TypeOK, ForkInv, BudgetInv, [Next]_vars PROVE BudgetInv'
  OBVIOUS
<1>1. /\ \A i, j, k \in Nat : i <= j /\ j <= k => i <= k
      /\ \A i, j, k \in Nat : i < j /\ j <= k => i < k
      /\ \A i, j, k \in Nat : i <= j /\ j < k => i < k
      /\ \A i, j \in Nat : i <= j /\ i # j => i < j
      /\ \A i \in Nat : i <= i /\ ~ (i < i)
  OBVIOUS
<1>2. \A t \in Task : base'[t].rev \in Nat /\ mirror'[t].rev \in Nat /\ forkTree'[t].rev \in Nat
  BY TypeStep DEF TypeOK, RemoteType, DriverType, Backlogs, TaskFiles
<1>3. \A t \in Task : base[t].rev <= base'[t].rev
  BY EditsKeptStep
<1>4. \A t \in Task : mirror[t].rev <= mirror'[t].rev /\ mirror'[t].rev <= base'[t].rev
  <2>1. \A t \in Task : mirror[t].rev <= base[t].rev
    BY DEF BudgetInv
  <2>2. CASE mirror' = mirror
    BY <1>1, <1>2, <1>3, <2>1, <2>2, Numbers
  <2>3. CASE mirror' = base /\ base' = base
    BY <1>1, <2>1, <2>3, Numbers
  <2> QED
    BY <2>2, <2>3, MirrorStep
<1>5. \A t \in Task : /\ streak'[t].rev <= attempts'[t].fp
                      /\ attempts'[t].fp <= mirror'[t].rev
                      /\ streak'[t].n <= attempts'[t].n
                      /\ streak'[t].n <= MaxAttempts
  <2>1. CASE attempts' = attempts /\ streak' = streak
    BY <1>1, <1>2, <1>4, <2>1, Numbers DEF BudgetInv
  <2>2. CASE BumpOpen
    <3>1. task \in Task /\ pc = "bump" /\ mirror' = mirror
      BY <2>2 DEF BumpOpen, TypeOK, DriverType
    <3>2. /\ attempts'[task].n = attempts[task].n + 1
          /\ attempts'[task].fp = mirror[task].rev
          /\ \A u \in Task \ {task} : attempts'[u] = attempts[u]
      BY <2>2, <3>1 DEF BumpOpen, TypeOK, BurnDirType, Ledgers
    <3>3. /\ streak'[task].rev = forkTree[task].rev
          /\ streak'[task].n = IF streak[task].rev = forkTree[task].rev
                                 THEN streak[task].n + 1 ELSE 1
          /\ \A u \in Task \ {task} : streak'[u] = streak[u]
      BY <2>2, <3>1, SpendStep DEF BumpOpen
    <3>4. /\ forkTree[task].rev <= mirror[task].rev
          /\ \/ attempts[task].n < MaxAttempts
             \/ attempts[task].fp < forkTree[task].rev
      BY <3>1 DEF BudgetInv, Granted
    <3>5. streak[task].rev <= attempts[task].fp /\ streak[task].n <= attempts[task].n
      BY <3>1 DEF BudgetInv
    <3>6. streak'[task].n <= attempts[task].n + 1 /\ streak'[task].n <= MaxAttempts
      <4>1. /\ \A i, j, m \in Nat : i <= j /\ j < m => i + 1 <= m
            /\ \A i, j \in Nat : i <= j => i + 1 <= j + 1
            /\ \A i \in Nat : 1 <= i + 1
            /\ \A m \in Nat \ {0} : 1 <= m
        OBVIOUS
      <4>2. CASE attempts[task].n < MaxAttempts
        BY <3>1, <3>3, <3>5, <4>1, <4>2, Numbers, MaxAttemptsAssumption
      <4>3. CASE attempts[task].fp < forkTree[task].rev
        <5>1. streak[task].rev # forkTree[task].rev
          BY <1>1, <3>1, <3>5, <4>3, Numbers
        <5> QED
          BY <3>1, <3>3, <4>1, <5>1, Numbers, MaxAttemptsAssumption
      <4> QED
        BY <3>4, <4>2, <4>3
    <3>7. \A u \in Task \ {task} : /\ streak'[u].rev <= attempts'[u].fp
                                   /\ attempts'[u].fp <= mirror'[u].rev
                                   /\ streak'[u].n <= attempts'[u].n
                                   /\ streak'[u].n <= MaxAttempts
      BY <3>1, <3>2, <3>3 DEF BudgetInv
    <3>8. /\ streak'[task].rev <= attempts'[task].fp
          /\ attempts'[task].fp <= mirror'[task].rev
          /\ streak'[task].n <= attempts'[task].n
          /\ streak'[task].n <= MaxAttempts
      BY <1>1, <3>1, <3>2, <3>3, <3>4, <3>6, Numbers
    <3> QED
      BY <3>7, <3>8
  <2> QED
    BY <2>1, <2>2, BudgetStep
<1>6. ASSUME pc' \in Picked \cup Granted
      PROVE  attempts' = attempts
  BY <1>6, BudgetStep DEF BumpOpen, Goto, Picked, Granted
<1>7. ASSUME pc' \in Picked \cup Granted, ~ PickTask
      PROVE  /\ task' = task /\ task \in Task
             /\ pc' \in Picked => pc \in Picked
             /\ pc' \in Granted => pc \in Granted \/ Refresh
  <2>1. task' = task
    BY <1>7, TaskStep DEF Picked, Granted
  <2>2. pc' = pc \/ <<pc, pc'>> \in Flow
    BY <1>7, FlowStep DEF Picked, Granted
  <2>3. pc \in Picked \cup Granted
    BY <1>7, <2>2, EnterGuard DEF Flow, Picked, Granted
  <2>4. pc' \in Picked => pc \in Picked
    BY <2>2, <2>3 DEF Flow, Picked, Granted
  <2>5. pc' \in Granted => pc \in Granted \/ Refresh
    BY <2>2, <2>3, EnterCut DEF Flow, Picked, Granted
  <2> QED
    BY <2>1, <2>3, <2>4, <2>5 DEF TypeOK, DriverType, Picked, Granted
<1>8. ASSUME pc' \in Picked
      PROVE  attempts'[task'].n < MaxAttempts \/ attempts'[task'].fp < mirror'[task'].rev
  <2>1. CASE PickTask
    <3>1. task' \in Task /\ mirror' = mirror
      BY <2>1, NextReadyInTask DEF PickTask
    <3>2. HasBudget(attempts[task'], mirror[task'].rev)
      BY <2>1 DEF PickTask, NextReady, Ready
    <3>3. attempts[task'].fp <= mirror[task'].rev
      BY <3>1 DEF BudgetInv
    <3> QED
      BY <1>1, <1>6, <1>8, <3>1, <3>2, <3>3, Numbers DEF HasBudget
  <2>2. CASE ~ PickTask
    <3>1. task' = task /\ task \in Task /\ pc \in Picked /\ attempts' = attempts
      BY <1>6, <1>7, <1>8, <2>2
    <3>2. attempts[task].n < MaxAttempts \/ attempts[task].fp < mirror[task].rev
      BY <3>1 DEF BudgetInv
    <3> QED
      BY <1>1, <1>2, <1>4, <3>1, <3>2, Numbers
  <2> QED
    BY <2>1, <2>2
<1>9. ASSUME pc' \in Granted
      PROVE  /\ forkTree'[task'].rev <= mirror'[task'].rev
             /\ \/ attempts'[task'].n < MaxAttempts
                \/ attempts'[task'].fp < forkTree'[task'].rev
  <2>1. task' = task /\ task \in Task /\ attempts' = attempts /\ (pc \in Granted \/ Refresh)
    <3>1. ~ PickTask
      BY <1>9 DEF PickTask, Goto, Granted
    <3> QED
      BY <1>6, <1>7, <1>9, <3>1
  <2>2. CASE Refresh
    <3>1. /\ mirror' = base /\ forkTree' = base /\ pc \in Picked
      BY <2>2 DEF Refresh, Picked
    <3>2. /\ attempts[task].n < MaxAttempts \/ attempts[task].fp < mirror[task].rev
          /\ mirror[task].rev <= base[task].rev
      BY <2>1, <3>1 DEF BudgetInv
    <3> QED
      BY <1>1, <2>1, <3>1, <3>2, Numbers
  <2>3. CASE ~ Refresh
    <3>1. pc \in Granted
      BY <2>1, <2>3
    <3>2. forkTree' = forkTree
      BY <1>9, <2>3, ForkTipStep DEF Granted
    <3>3. /\ forkTree[task].rev <= mirror[task].rev
          /\ \/ attempts[task].n < MaxAttempts
             \/ attempts[task].fp < forkTree[task].rev
      BY <3>1 DEF BudgetInv
    <3> QED
      BY <1>1, <1>2, <1>4, <2>1, <3>2, <3>3, Numbers
  <2> QED
    BY <2>2, <2>3
<1> QED
  BY <1>4, <1>5, <1>8, <1>9 DEF BudgetInv

\* BudgetRespected holds of the driver, whatever the constants: however often
\* it dies or is killed and restarted, whatever humans edit in between, and
\* whoever moves the mirror meanwhile.
THEOREM BudgetTheorem == Spec => []BudgetRespected
<1>1. BudgetInv => BudgetRespected
  BY DEF BudgetInv, BudgetRespected
<1> QED
  BY <1>1, BudgetInit, BudgetPreserved, ForkInvariant, PTL DEF Spec

(***************************************************************************)
(* Dependencies first.                                                     *)
(***************************************************************************)
\* From its pick to its launch the driver keeps the task in hand.
LEMMA InHandStep ==
  ASSUME TypeOK, [Next]_vars, pc' \in InHand, ~ PickTask
  PROVE  pc \in InHand /\ task' = task /\ task \in Task
<1> USE DEF InHand, Picked, Granted, Unlaunched
<1>1. task' = task
  BY TaskStep
<1>2. pc' = pc \/ <<pc, pc'>> \in Flow
  BY FlowStep
<1>3. pc \in InHand \/ pc = "pick"
  BY <1>2 DEF Flow
<1>4. pc # "pick"
  BY EnterGuard
<1> QED
  BY <1>1, <1>3, <1>4 DEF TypeOK, DriverType

\* What is Done stays Done, and readiness asks the mirror, which only ever says
\* Done after the base branch did.
LEMMA DepsPreserved == TypeOK /\ ForkInv /\ DepsInv /\ [Next]_vars => DepsInv'
<1> SUFFICES ASSUME TypeOK, ForkInv, DepsInv, [Next]_vars PROVE DepsInv'
  OBVIOUS
<1>1. \A t \in Task : base[t].status = "Done" => base'[t].status = "Done"
  BY EditsKeptStep
<1>2. \A t \in Task : mirror[t].status = "Done" => base[t].status = "Done"
  BY DEF DepsInv
<1>3. \A t \in Task : mirror'[t].status = "Done" => base'[t].status = "Done"
  BY <1>1, <1>2, MirrorStep
<1>4. ASSUME pc' \in InHand
      PROVE  \A d \in Deps[task'] : d \in Task /\ base'[d].status = "Done"
  <2>1. CASE PickTask
    <3>1. DepsDone(mirror, task')
      BY <2>1 DEF PickTask, NextReady, Ready
    <3> QED
      BY <1>1, <1>2, <3>1 DEF DepsDone, IsDone
  <2>2. CASE ~ PickTask
    BY <1>1, <1>4, <2>2, InHandStep DEF DepsInv
  <2> QED
    BY <2>1, <2>2
<1>5. ASSUME NEW t \in Task, agent'[t] = "working"
      PROVE  \A d \in Deps[t] : d \in Task /\ base'[d].status = "Done"
  <2>1. CASE agent[t] = "working"
    BY <1>1, <2>1 DEF DepsInv
  <2>2. CASE agent[t] # "working"
    <3>1. Launch
      BY <1>5, <2>2, AgentStep, StateTypes
    <3>2. t = task /\ pc = "launch"
      BY <1>5, <2>2, <3>1 DEF Launch, TypeOK, AgentType
    <3> QED
      BY <1>1, <3>2 DEF DepsInv, InHand, Unlaunched
  <2> QED
    BY <2>1, <2>2
<1>6. DepsFirst'
  <2>1. \A w \in made' : w \in made \/ \E t \in Task : agent[t] = "working" /\ w[1] = t
    BY MadeStep DEF AgentCommit
  <2> QED
    BY <1>1, <2>1 DEF DepsInv, DepsFirst
<1> QED
  BY <1>3, <1>4, <1>5, <1>6 DEF DepsInv

\* DepsFirst holds of the driver: no agent commits to a task whose dependencies
\* are not Done on the base branch, however stale the mirror it was picked on.
THEOREM DepsTheorem == Spec => []DepsFirst
<1>1. Init => DepsInv
  BY DEF Init, DepsInv, DepsFirst, InHand, Picked, Granted, Unlaunched
<1>2. DepsInv => DepsFirst
  BY DEF DepsInv
<1> QED
  BY <1>1, <1>2, DepsPreserved, ForkInvariant, PTL DEF Spec

(***************************************************************************)
(* Landed work.                                                            *)
(***************************************************************************)
\* Only a push adds work to the base branch: the work of the task in hand, which
\* it also makes Done.
LEMMA WorkStep ==
  ASSUME TypeOK, ForkInv, [Next]_vars, NEW t \in Task
  PROVE  \/ base'[t].work = base[t].work
         \/ Lands /\ t = task /\ base'[t].status = "Done"
<1>1. CASE Lands
  <2>1. base' = Attempted(base, task, branch[task])
    BY <1>1 DEF Lands, ForkInv, Forked
  <2>2. branch[task] \in Int /\ task \in Task /\ base \in Backlogs
    BY <1>1 DEF Lands, TypeOK, GitType, DriverType, RemoteType
  <2>3. t # task => base'[t].work = base[t].work
    BY <2>1, <2>2, AttemptedRevises
  <2>4. base'[task].status = "Done"
    BY <2>1, <2>2, AttemptedRevises
  <2> QED
    BY <1>1, <2>3, <2>4
<1>2. ASSUME NEW u \in Task, NEW what \in Edits, Edit(u, what)
      PROVE  base'[t].work = base[t].work
  <2>1. base[t] \in TaskFiles
    BY DEF TypeOK, RemoteType, Backlogs
  <2>2. base'[t] = IF t = u THEN EditedAs(what, base[t]) ELSE base[t]
    BY <1>2 DEF Edit, TypeOK, RemoteType, Backlogs
  <2> QED
    BY <2>1, <2>2, EditedAsRevises
<1> QED
  BY <1>1, <1>2, BaseStep

\* Work lands together with the status Done, and the mirror is refreshed or the
\* task noted before the next task is picked.
LEMMA LandedPreserved == TypeOK /\ ForkInv /\ LandedInv /\ [Next]_vars => LandedInv'
<1> SUFFICES ASSUME TypeOK, ForkInv, LandedInv, [Next]_vars PROVE LandedInv'
  OBVIOUS
<1>1. \A t \in Task : base[t].status = "Done" => base'[t].status = "Done"
  BY EditsKeptStep
<1>2. \A t \in Task : \/ base'[t].work = base[t].work
                      \/ Lands /\ t = task /\ base'[t].status = "Done"
  BY WorkStep
<1>3. \A t \in Task : base'[t].work # {} => base'[t].status = "Done"
  BY <1>1, <1>2 DEF LandedInv
<1>4. ASSUME pc' \notin {"idle", "reclaim", "unhook", "boot"},
             NEW t \in Task, base'[t].work # {}
      PROVE  mirror'[t].status = "Done" \/ t \in handled' \/ (pc' = "handled" /\ t = task')
  <2>1. CASE mirror' = base /\ base' = base
    BY <1>3, <1>4, <2>1
  <2>2. CASE Lands /\ ~ (mirror' = base /\ base' = base)
    <3>1. task' = task /\ handled \subseteq handled'
      BY <2>2, TaskStep, HandledStep DEF Lands, PickTask
    <3>2. mirror' = mirror
      BY <2>2, MirrorStep
    <3> QED
      BY <1>2, <1>4, <2>2, <3>1, <3>2 DEF LandedInv, Lands
  <2>3. CASE ~ Lands /\ ~ (mirror' = base /\ base' = base)
    <3>1. base[t].work # {} /\ mirror' = mirror /\ handled \subseteq handled'
      BY <1>2, <1>4, <2>3, MirrorStep, HandledStep
    <3>2. pc \notin {"idle", "reclaim", "unhook", "boot"}
      BY <1>4, <2>3, EnterPick DEF Boot
    <3>3. mirror[t].status = "Done" \/ t \in handled \/ (pc = "handled" /\ t = task)
      BY <3>1, <3>2 DEF LandedInv
    <3>4. CASE pc = "handled" /\ t = task
      <4>1. CASE pc' = "handled"
        BY <3>4, <4>1, TaskStep DEF PickTask
      <4>2. CASE pc' # "handled"
        BY <1>4, <3>4, <4>2, LeaveHandled DEF MarkHandled
      <4> QED
        BY <4>1, <4>2
    <3> QED
      BY <3>1, <3>3, <3>4
  <2> QED
    BY <2>1, <2>2, <2>3
<1>5. ASSUME pc' \in InHand
      PROVE  base'[task'].work = {}
  <2>1. ~ Lands
    BY <1>5 DEF Lands, InHand, Picked, Granted, Unlaunched
  <2>2. CASE PickTask
    <3>1. /\ task' \in Task /\ mirror[task'].status = "To Do" /\ task' \notin handled
          /\ pc = "pick"
      BY <2>2, NextReadyInTask DEF PickTask, NextReady, Ready
    <3> QED
      BY <1>2, <2>1, <3>1 DEF LandedInv
  <2>3. CASE ~ PickTask
    BY <1>2, <1>5, <2>1, <2>3, InHandStep DEF LandedInv
  <2> QED
    BY <2>2, <2>3
<1> QED
  BY <1>3, <1>4, <1>5 DEF LandedInv

\* Nothing has landed at the start.
LEMMA LandedInit == Init => LandedInv
  BY Backlog0Assumption DEF Init, LandedInv, InHand, Picked, Granted, Unlaunched

\* LandedNotRedone holds of the driver that fast-forwards: a crash between the
\* push and the note in handled.txt makes no agent redo what landed.
THEOREM LandedTheorem ==
  ASSUME Strategy = "ff"
  PROVE  Spec => []LandedNotRedone
<1>1. LandedInv => LandedNotRedone
  BY DEF LandedInv, LandedNotRedone, Landed, InHand, Unlaunched
<1> QED
  BY <1>1, LandedInit, LandedPreserved, ForkInvariant, PTL DEF Spec

(***************************************************************************)
(* Committed work.                                                         *)
(***************************************************************************)
\* A branch holds the last attempt counted or nothing, and it is dropped only
\* when that is nothing, kept elsewhere or published.
LEMMA BranchPreserved ==
  TypeOK /\ ForkInv /\ BranchInv /\ [Next]_vars => BranchInv'
<1> SUFFICES ASSUME TypeOK, ForkInv, BranchInv, [Next]_vars PROVE BranchInv'
  OBVIOUS
<1>1. /\ \A t \in Task : attempts[t].n \in Nat /\ branch[t] \in Int
      /\ attempts \in Ledgers
      /\ pc \notin {"idle", "reclaim", "boot", "pick", "drain"} => task \in Task
  BY Numbers DEF TypeOK, BurnDirType, GitType, DriverType
<1>2. pc' \notin {"idle", "reclaim", "boot", "unhook", "guard"} => task' = task
  BY TaskStep DEF PickTask, Goto
<1>3. pc' = pc \/ pc' = "idle" \/ <<pc, pc'>> \in Flow
  BY FlowStep
<1>4. \A t \in Task : \/ attempts'[t] = attempts[t]
                      \/ BumpOpen /\ t = task /\ attempts'[t].n = attempts[t].n + 1
  BY <1>1, BudgetStep DEF BumpOpen, Ledgers
<1>5. \A t \in Task : attempts'[t].n \in Nat /\ attempts'[t].n >= attempts[t].n
  BY <1>1, <1>4
<1>6. \A t \in Task : branch'[t] \in {NoRef, 0, attempts'[t].n}
  <2> SUFFICES ASSUME NEW t \in Task PROVE branch'[t] \in {NoRef, 0, attempts'[t].n}
    OBVIOUS
  <2>1. CASE BumpOpen /\ t = task
    <3>1. branch' = branch /\ branch[t] = 0
      BY <2>1 DEF BumpOpen, BranchInv, Unlaunched
    <3> QED
      BY <3>1
  <2>2. CASE ~ (BumpOpen /\ t = task)
    BY <1>4, <2>2, BranchStep, StateTypes DEF BranchInv
  <2> QED
    BY <2>1, <2>2
<1>7. ASSUME pc' \in Unlaunched \cup {"add"}
      PROVE  agent'[task'] = "none"
  <2>1. CASE Cut
    BY <1>1, <2>1 DEF Cut, RemoveWorktree, TypeOK, AgentType
  <2>2. CASE ~ Cut
    <3>1. pc \in Unlaunched \cup {"add"}
      BY <1>3, <1>7, <2>2, EnterStep DEF Flow, Unlaunched
    <3>2. task' = task /\ task \in Task /\ agent[task] = "none"
      BY <1>1, <1>2, <1>7, <3>1 DEF Unlaunched, BranchInv
    <3> QED
      BY <1>7, <3>2, NoAgentStep, StateTypes DEF Launch, Wait, Goto, Unlaunched
  <2> QED
    BY <2>1, <2>2
<1>8. ASSUME pc' \in Unlaunched
      PROVE  branch'[task'] = 0
  <2>1. CASE Add
    BY <1>1, <2>1 DEF Add, TypeOK, GitType
  <2>2. CASE ~ Add
    <3>1. pc \in Unlaunched
      BY <1>3, <1>8, <2>2, EnterStep DEF Flow, Unlaunched
    <3>2. task' = task /\ task \in Task /\ branch[task] = 0 /\ agent[task] = "none"
      BY <1>1, <1>2, <1>8, <3>1 DEF Unlaunched, BranchInv
    <3> QED
      BY <1>8, <2>2, <3>2, BranchStep, StateTypes, DropStep DEF AgentCommit, Unlaunched
  <2> QED
    BY <2>1, <2>2
<1>9. ASSUME pc' \in Counted
      PROVE  attempt' = attempts'[task'].n /\ attempt' > 0
  <2>1. CASE BumpWrite
    BY <1>1, <2>1 DEF BumpWrite, BranchInv
  <2>2. CASE ~ BumpWrite
    <3>1. pc \in Counted
      BY <1>3, <1>9, <2>2, EnterStep DEF Flow, Counted
    <3>2. task' = task /\ task \in Task /\ attempt = attempts[task].n /\ attempt > 0
      BY <1>1, <1>2, <1>9, <3>1 DEF Counted, BranchInv
    <3> QED
      BY <1>4, <1>9, <2>2, <3>2, AttemptStep DEF Counted, BumpOpen, Goto
  <2> QED
    BY <2>1, <2>2
<1>15. ASSUME pc' = "record"
       PROVE  attempts'[task'].n > 0
  <2>1. pc = "record" \/ pc = "bump"
    BY <1>3, <1>15 DEF Flow
  <2>2. task' = task /\ task \in Task
    BY <1>1, <1>2, <1>15, <2>1
  <2>3. CASE pc = "record"
    BY <1>1, <1>5, <2>2, <2>3 DEF BranchInv
  <2>4. CASE pc = "bump"
    <3>1. attempts' = [attempts EXCEPT ![task] = [n |-> @.n + 1, fp |-> mirror[task].rev]]
      BY <1>15, <2>4, EnterRecord DEF BumpOpen
    <3>2. attempts \in Ledgers /\ attempts[task].n \in Nat
      BY <2>2 DEF TypeOK, BurnDirType, Ledgers
    <3> QED
      BY <2>2, <3>1, <3>2 DEF Ledgers
  <2> QED
    BY <2>1, <2>3, <2>4
<1>10. ASSUME NEW t \in Task, agent'[t] = "working"
       PROVE  attempts'[t].n > 0
  <2>1. attempts[t].n > 0
    <3>1. CASE agent[t] = "working"
      BY <3>1 DEF BranchInv
    <3>2. CASE agent[t] # "working"
      <4>1. Launch
        BY <1>10, <3>2, AgentStep, StateTypes
      <4>2. t = task /\ pc = "launch"
        BY <1>10, <3>2, <4>1 DEF Launch, TypeOK, AgentType
      <4> QED
        BY <4>2 DEF BranchInv, Counted
    <3> QED
      BY <3>1, <3>2
  <2> QED
    BY <1>1, <1>5, <2>1
<1>11. \A w \in made' : w[2] > 0
  <2>1. \A w \in made' : w \in made \/ \E t \in Task : agent[t] = "working" /\ w[2] = attempts[t].n
    BY MadeStep DEF AgentCommit
  <2> QED
    BY <2>1 DEF BranchInv
<1>12. ASSUME pc' \in Verified
       PROVE  branch'[task'] > 0
  <2>1. task' = task /\ task \in Task /\ branch[task] > 0
    <3>1. CASE VerifyPass
      BY <1>1, <3>1 DEF VerifyPass
    <3>2. CASE ~ VerifyPass
      BY <1>1, <1>2, <1>3, <1>12, <3>2, EnterStep DEF Flow, Verified, BranchInv
    <3> QED
      BY <3>1, <3>2
  <2>2. branch'[task] = branch[task]
    BY <1>12, <2>1, BranchStep, StateTypes, DropStep DEF Add, AgentCommit, Goto, Verified
  <2> QED
    BY <2>1, <2>2
<1>13. ASSUME Reported'
       PROVE  branch'[task'] > 0 /\ <<task', branch'[task']>> \in published'
  <2>1. pc' \in {"handled", "clear", "retire"}
    BY <1>13 DEF Reported
  <2>2. task' = task /\ task \in Task
    BY <1>1, <1>2, <1>3, <2>1 DEF Flow
  <2>3. branch[task] > 0 /\ <<task, branch[task]>> \in published'
    <3>1. CASE Push \/ OpenPullRequest
      BY <2>1, <3>1 DEF Push, OpenPullRequest, Goto, BranchInv, Verified
    <3>2. CASE ~ (Push \/ OpenPullRequest)
      <4>1. Reported
        <5>1. CASE pc' = "handled"
          BY <3>2, <5>1, EnterStep DEF Reported
        <5>2. CASE pc' # "handled"
          <6>1. outcome' = "published"
            BY <1>13, <5>2 DEF Reported
          <6>2. ~ Fail
            BY <6>1 DEF Fail
          <6>3. CASE MarkHandled
            BY <6>3 DEF MarkHandled, Reported
          <6>4. CASE ~ MarkHandled
            <7>1. outcome = "published"
              BY <2>1, <6>1, <6>2, <6>4, OutcomeStep
            <7>2. pc \in {"clear", "retire"}
              BY <1>3, <2>1, <5>2, <6>2, <6>4, EnterStep DEF Flow
            <7> QED
              BY <7>1, <7>2 DEF Reported
          <6> QED
            BY <6>3, <6>4
        <5> QED
          BY <5>1, <5>2
      <4> QED
        BY <4>1, HandledStep DEF BranchInv
    <3> QED
      BY <3>1, <3>2
  <2>4. branch'[task] = branch[task]
    <3>1. ~ (ReclaimRetire \/ Retire \/ Discard) /\ ~ Add
      BY <2>1, DropStep DEF Add, Goto
    <3>2. ~ AgentCommit(task)
      BY <2>3 DEF AgentCommit
    <3> QED
      BY <2>2, <3>1, <3>2, BranchStep, StateTypes
  <2> QED
    BY <2>2, <2>3, <2>4
<1>14. \A t \in Task : \A n \in base'[t].work \cup mirror'[t].work : <<t, n>> \in published'
  <2> SUFFICES ASSUME NEW t \in Task, NEW n \in base'[t].work \cup mirror'[t].work
               PROVE  <<t, n>> \in published'
    OBVIOUS
  <2>1. published \subseteq published'
    BY HandledStep
  <2>2. CASE n \in base[t].work \cup mirror[t].work
    BY <2>1, <2>2 DEF BranchInv
  <2>3. CASE n \notin base[t].work \cup mirror[t].work
    <3>1. n \in base'[t].work /\ base'[t].work # base[t].work
      BY <2>3, MirrorStep
    <3>2. Lands /\ t = task
      BY <3>1, WorkStep
    <3>3. base' = Attempted(base, t, branch[t]) /\ base \in Backlogs /\ branch[t] \in Int
      BY <3>2 DEF Lands, ForkInv, Forked, TypeOK, RemoteType, GitType
    <3>4. n = branch[t]
      BY <2>3, <3>1, <3>3, AttemptedRevises
    <3> QED
      BY <3>2, <3>4 DEF Lands
  <2> QED
    BY <2>2, <2>3
<1> QED
  BY <1>6, <1>7, <1>8, <1>9, <1>10, <1>11, <1>12, <1>13, <1>14, <1>15 DEF BranchInv

\* The branch a retirement drops is empty, goes to the rescue ref of its own
\* attempt, or was published.
LEMMA RetiredBranch ==
  ASSUME TypeOK, BranchInv, Retire \/ ReclaimRetire
  PROVE  \/ branch[task] <= 0 /\ rescue' = rescue
         \/ <<task, branch[task]>> \in published /\ rescue' = rescue
         \/ LET n == attempts[task].n
            IN  /\ branch[task] = n /\ n > 0
                /\ rescue' = {r \in rescue : ~ (r[1] = task /\ r[2] = n)}
                               \cup {<<task, n, n>>}
<1>1. /\ task \in Task /\ branch[task] \in {NoRef, 0, attempts[task].n}
      /\ attempts[task].n \in Nat
  BY Numbers DEF TypeOK, DriverType, BranchInv, Retire, ReclaimRetire
<1>2. CASE Retire
  <2>1. attempt = attempts[task].n
    BY <1>2 DEF Retire, BranchInv, Counted
  <2>2. outcome = "published" => <<task, branch[task]>> \in published
    BY <1>2 DEF Retire, BranchInv, Reported
  <2>3. RetireBranch(task, attempt, branch[task] # 0, outcome = "published")
    BY <1>2 DEF Retire
  <2> QED
    BY <1>1, <2>1, <2>2, <2>3 DEF RetireBranch, NoRef
<1>3. CASE ReclaimRetire
  <2>1. branch[task] \in mirror[task].work => <<task, branch[task]>> \in published
    BY <1>1 DEF BranchInv
  <2>2. RetireBranch(task, attempts[task].n,
                     branch[task] # 0 /\ branch[task] \notin mirror[task].work, FALSE)
    BY <1>3 DEF ReclaimRetire
  <2> QED
    BY <1>1, <2>1, <2>2 DEF RetireBranch, NoRef
<1> QED
  BY <1>2, <1>3

\* A retired branch holds the attempt whose number names the rescue ref.
LEMMA RescueNamedPreserved ==
  TypeOK /\ BranchInv /\ RescueNamed /\ [Next]_vars => RescueNamed'
<1> SUFFICES ASSUME TypeOK, BranchInv, RescueNamed, [Next]_vars PROVE RescueNamed'
  OBVIOUS
<1>1. CASE rescue' = rescue
  BY <1>1 DEF RescueNamed
<1>2. CASE Retire \/ ReclaimRetire
  BY <1>2, RetiredBranch DEF RescueNamed
<1> QED
  BY <1>1, <1>2, RescueStep

\* A commit follows its branch to the rescue ref, and a rescue ref is replaced only
\* by another of the same attempt.
LEMMA WorkPreservedStep ==
  TypeOK /\ BranchInv /\ RescueNamed /\ WorkPreserved /\ [Next]_vars => WorkPreserved'
<1> SUFFICES ASSUME TypeOK, BranchInv, RescueNamed, WorkPreserved, [Next]_vars,
                    NEW w \in made'
             PROVE  \/ branch'[w[1]] = w[2]
                    \/ \E r \in rescue' : r[1] = w[1] /\ r[3] = w[2]
                    \/ w \in published'
  BY DEF WorkPreserved
<1>1. published \subseteq published'
  BY HandledStep
<1>2. CASE w \notin made
  <2>1. PICK t \in Task : AgentCommit(t)
    BY <1>2, MadeStep
  <2>2. w = <<t, attempts[t].n>>
    BY <1>2, <2>1 DEF AgentCommit
  <2>3. branch'[t] = attempts[t].n
    BY <2>1 DEF AgentCommit, TypeOK, GitType
  <2> QED
    BY <2>2, <2>3
<1>3. CASE w \in made
  <2>1. w[1] \in Task /\ w[2] > 0 /\ w = <<w[1], w[2]>> /\ w[2] \in Nat
    BY <1>3 DEF TypeOK, HistoryType, BranchInv
  <2>2. \A r \in rescue : r[1] = w[1] /\ r[3] = w[2]
                            => \E s \in rescue' : s[1] = w[1] /\ s[3] = w[2]
    <3>1. CASE rescue' = rescue
      BY <3>1
    <3>2. CASE Retire \/ ReclaimRetire
      <4> SUFFICES ASSUME NEW r \in rescue, r[1] = w[1], r[3] = w[2], r \notin rescue'
                   PROVE  \E s \in rescue' : s[1] = w[1] /\ s[3] = w[2]
        OBVIOUS
      <4> DEFINE n == attempts[task].n
      <4>1. rescue' = {s \in rescue : ~ (s[1] = task /\ s[2] = n)} \cup {<<task, n, n>>}
        BY <3>2, RetiredBranch
      <4>2. r[1] = task /\ r[3] = n
        BY <4>1 DEF RescueNamed
      <4> DEFINE kept == <<task, n, n>>
      <4>3. kept \in rescue' /\ kept[1] = task /\ kept[3] = n
        BY <4>1
      <4> HIDE DEF kept
      <4> QED
        BY <4>2, <4>3
    <3> QED
      BY <3>1, <3>2, RescueStep
  <2>3. CASE branch[w[1]] = w[2]
    <3>1. CASE Retire \/ ReclaimRetire
      <4>1. w[1] # task => branch'[w[1]] = branch[w[1]]
        <5>1. branch' = [branch EXCEPT ![task] = NoRef]
          BY <3>1 DEF Retire, ReclaimRetire, RetireBranch
        <5> QED
          BY <2>1, <5>1 DEF TypeOK, GitType
      <4>2. CASE w[1] = task
        <5> DEFINE n == attempts[task].n
        <5> DEFINE kept == <<task, n, n>>
        <5>1. branch[task] = w[2]
          BY <2>3, <4>2
        <5>2. CASE <<task, branch[task]>> \in published
          BY <1>1, <2>1, <4>2, <5>1, <5>2
        <5>3. CASE branch[task] = n /\ kept \in rescue'
          <6>1. kept[1] = w[1] /\ kept[3] = w[2]
            BY <4>2, <5>1, <5>3
          <6> HIDE DEF kept
          <6> QED
            BY <5>3, <6>1
        <5>4. ~ (branch[task] <= 0)
          BY <2>1, <5>1
        <5> QED
          BY <3>1, <5>2, <5>3, <5>4, RetiredBranch
      <4> QED
        BY <2>3, <4>1, <4>2
    <3>2. CASE ~ (Retire \/ ReclaimRetire)
      <4>1. ~ AgentCommit(w[1])
        BY <2>1, <2>3 DEF AgentCommit
      <4>2. ~ (Add /\ w[1] = task)
        BY <2>1, <2>3 DEF Add, NoRef
      <4>3. ~ (Discard /\ w[1] = task)
        BY <2>1, <2>3 DEF Discard, BranchInv, Unlaunched
      <4> QED
        BY <2>1, <2>3, <3>2, <4>1, <4>2, <4>3, BranchStep, StateTypes
    <3> QED
      BY <3>1, <3>2
  <2> QED
    BY <1>1, <1>3, <2>2, <2>3 DEF WorkPreserved
<1> QED
  BY <1>2, <1>3

\* There is no branch at the start.
LEMMA BranchInit == Init => BranchInv
  BY Backlog0Assumption
  DEF Init, BranchInv, NoRef, Unlaunched, Counted, Verified, Reported

\* RescueNamed holds of the driver: a rescue ref never carries the commits of an
\* attempt under the number of another.
THEOREM RescueTheorem == Spec => []RescueNamed
<1>1. Init => RescueNamed
  BY DEF Init, RescueNamed
<1> QED
  BY <1>1, BranchInit, BranchPreserved, RescueNamedPreserved, ForkInvariant, PTL DEF Spec

\* WorkPreserved holds of the driver: no crash, kill, retry or resume drops
\* commits that were not reported published.
THEOREM WorkTheorem == Spec => []WorkPreserved
<1>1. Init => WorkPreserved
  BY DEF Init, WorkPreserved
<1> QED
  BY <1>1, BranchInit, BranchPreserved, RescueTheorem, WorkPreservedStep, ForkInvariant, PTL
  DEF Spec
=============================================================================
