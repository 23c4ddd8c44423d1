---------------------------- MODULE BurnDriverSteps ----------------------------
(***************************************************************************)
(* What a step of BurnDriver may do to the driver's control and to each    *)
(* piece of state: which actions write it, and which action leads into a   *)
(* section of the turn.  Every fact here is a case split over the whole    *)
(* next-state relation, so all the actions are expanded throughout; the    *)
(* proofs of BurnDriverProofs expand only the actions they are about.      *)
(***************************************************************************)
EXTENDS BurnDriver, TLAPS

USE DEF backlogVars, publishVars, gitVars, budgetVars, agentVars, localVars, boundVars, vars,
        Next, Driver, Environment, Goto, Stop, Fresh, StartRun, StartResume,
        ReclaimRemove, ReclaimRetire, ReclaimDone, Boot, PickCrash, PickTask, QueueEmpty,
        GuardStop, GuardPass, Refresh, Cut, AddCrash, Add, Prepare, BumpCrash,
        BumpOpen, BumpWrite, Spend,
        PreflightOffends, Discard, PreflightPass, Launch, Wait, VerifyPass, VerifyFail,
        FastForward, FastForwardRefused, Push, PushBranch, OpenPullRequest, MarkHandled,
        Fail, Clear, Retire, Drain, AgentCommit, AgentMarks, AgentExits, KillSentinel,
        KillAgents, KillDriver, Die, Status, Edit

(***************************************************************************)
(* Control.                                                                *)
(***************************************************************************)
\* The points of cmd_run and cmd_resume, and where each goes next; from anywhere
\* the driver may also end.
Flow == {<<"idle", "reclaim">>, <<"idle", "boot">>, <<"reclaim", "unhook">>,
         <<"unhook", "reclaim">>, <<"reclaim", "boot">>, <<"boot", "pick">>,
         <<"pick", "guard">>, <<"pick", "drain">>, <<"guard", "refresh">>,
         <<"refresh", "cut">>, <<"cut", "add">>, <<"add", "prepare">>, <<"prepare", "bump">>,
         <<"bump", "record">>, <<"record", "preflight">>, <<"preflight", "discard">>,
         <<"preflight", "launch">>, <<"launch", "wait">>, <<"wait", "verify">>,
         <<"verify", "publish">>, <<"verify", "fail">>, <<"publish", "push">>,
         <<"publish", "gh">>, <<"publish", "fail">>, <<"push", "handled">>,
         <<"gh", "handled">>, <<"gh", "fail">>, <<"handled", "clear">>, <<"fail", "clear">>,
         <<"clear", "retire">>, <<"retire", "pick">>, <<"retire", "drain">>}

LEMMA FlowStep == [Next]_vars => pc' = pc \/ pc' = "idle" \/ <<pc, pc'>> \in Flow
  BY DEF Flow

\* The way into each section of a turn: a run reaches its loop through a fresh
\* mirror, a turn starts with a pick, a worktree is cut after a refresh, and so on.
LEMMA EnterPick ==
  [Next]_vars /\ pc \in {"idle", "reclaim", "unhook", "boot"}
              /\ pc' \notin {"idle", "reclaim", "unhook", "boot"} => Boot
  OBVIOUS

LEMMA EnterGuard == [Next]_vars /\ pc = "pick" /\ pc' \notin {"pick", "idle", "drain"} => PickTask
  OBVIOUS

LEMMA EnterCut == [Next]_vars /\ pc = "refresh" /\ pc' \notin {"refresh", "idle"} => Refresh
  OBVIOUS

LEMMA EnterStep ==
  [Next]_vars => /\ pc # "add" /\ pc' = "add" => Cut
                 /\ pc # "prepare" /\ pc' = "prepare" => Add
                 /\ pc # "preflight" /\ pc' = "preflight" => BumpWrite
                 /\ pc # "publish" /\ pc' = "publish" => VerifyPass
                 /\ pc # "handled" /\ pc' = "handled" => Push \/ OpenPullRequest
                 /\ pc # "clear" /\ pc' = "clear" => MarkHandled \/ Fail
  OBVIOUS

LEMMA EnterRecord ==
  [Next]_vars /\ pc # "record" /\ pc' = "record" => BumpOpen
  OBVIOUS

\* A turn is counted only with a task file to run on, and pushes only what it has
\* listed and fast-forwarded its clone to.
LEMMA EnterTurn ==
  [Next]_vars => /\ pc # "bump" /\ pc' = "bump" => Prepare
                 /\ pc # "push" /\ pc' = "push" => FastForward
  OBVIOUS

\* A run starts as `burn run` or by reclaiming what the last one left, and a turn
\* ends by retiring its branch.
LEMMA StartStep ==
  [Next]_vars => /\ pc = "idle" /\ pc' = "boot" => \E r \in Runs : StartRun(r)
                 /\ pc = "reclaim" /\ pc' = "boot" => ReclaimDone
                 /\ pc = "retire" /\ pc' \in {"pick", "drain"} => Retire
  OBVIOUS

\* A driver that has stopped goes on as a new run, and one that gives a task up goes
\* on to its end.
LEMMA LeaveIdle ==
  [Next]_vars /\ pc = "idle" /\ pc' # "idle" => \E r \in Runs : StartRun(r) \/ StartResume(r)
  OBVIOUS

LEMMA GiveUpStep ==
  [Next]_vars /\ pc \in {"clear", "retire"} /\ outcome = "blocked"
    => pc' \in {"idle", "clear", "retire"}
  OBVIOUS

\* Between removing a worktree and retiring its branch the driver does nothing else,
\* unless it dies there.
LEMMA DroppingStep ==
  [Next]_vars /\ pc \in {"unhook", "discard", "retire"} \ DeathPoints
    => \/ pc' = pc /\ task' = task /\ worktree' = worktree
       \/ Retire \/ ReclaimRetire \/ Discard
  OBVIOUS

\* A turn that has published goes on only by noting it.
LEMMA LeaveHandled == [Next]_vars /\ pc = "handled" /\ pc' \notin {"handled", "idle"} => MarkHandled
  OBVIOUS

\* ... unless it dies before that.
LEMMA NoteStep ==
  [Next]_vars /\ pc \in {"handled"} \ DeathPoints
    => (pc' = "handled" /\ task' = task) \/ MarkHandled
  OBVIOUS

(***************************************************************************)
(* The driver's locals.                                                    *)
(***************************************************************************)
\* The task in hand changes only where there is none.
LEMMA TaskStep ==
  [Next]_vars => task' = task \/ PickTask \/ pc' \in {"idle", "reclaim", "boot", "unhook"}
  OBVIOUS

LEMMA ForkTipStep ==
  [Next]_vars => \/ forkTip' = forkTip /\ forkTree' = forkTree
                 \/ Refresh \/ pc' \in {"idle", "reclaim", "boot"}
  OBVIOUS

LEMMA AttemptStep ==
  [Next]_vars => attempt' = attempt \/ BumpWrite \/ pc' \in {"guard", "idle", "reclaim", "boot"}
  OBVIOUS

LEMMA OutcomeStep ==
  [Next]_vars => \/ outcome' = outcome \/ MarkHandled \/ Fail
                 \/ pc' \in {"guard", "idle", "reclaim", "boot"}
  OBVIOUS

(***************************************************************************)
(* The backlog, the run state and the history.                             *)
(***************************************************************************)
\* The base branch is moved by a push that is a fast-forward, and by humans.
Lands == /\ pc = "push" /\ pc' = "handled" /\ forkTip = tip
         /\ base' = Attempted(forkTree, task, branch[task]) /\ tip' = tip + 1
         /\ published' = published \cup {<<task, branch[task]>>}

LEMMA BaseStep ==
  [Next]_vars => \/ base' = base /\ tip' = tip
                 \/ Push /\ Lands
                 \/ \E t \in Task, what \in Edits : Edit(t, what)
  BY DEF Lands

\* Whoever moves the mirror moves it to the tip of the base branch.
LEMMA MirrorStep == [Next]_vars => mirror' = mirror \/ (mirror' = base /\ base' = base)
  OBVIOUS

\* Edits are counted.
LEMMA EditsStep ==
  [Next]_vars => edits' = edits \/ \E t \in Task, what \in Edits : Edit(t, what)
  OBVIOUS

LEMMA BudgetStep == [Next]_vars => (attempts' = attempts /\ streak' = streak) \/ BumpOpen
  OBVIOUS

\* A task is noted by mark_handled, and fast failures are counted by the failing.
LEMMA FastStep ==
  [Next]_vars => /\ handled' = handled \/ MarkHandled
                 /\ override' = override \/ Fail
                 /\ \/ fastFails' = fastFails \/ MarkHandled \/ Fail
                    \/ \E r \in Runs : StartRun(r) \/ StartResume(r)
  OBVIOUS

\* Nothing is taken back from handled.txt, nor unpublished.
LEMMA HandledStep == [Next]_vars => handled \subseteq handled' /\ published \subseteq published'
  OBVIOUS

\* Lines are only added to review-queue.md, and publications are reported by a push
\* and by a pull request.
LEMMA PublishedStep ==
  [Next]_vars => /\ review \subseteq review'
                 /\ published' = published \/ Push \/ OpenPullRequest
  OBVIOUS

\* Commits come from agents.
LEMMA MadeStep ==
  [Next]_vars => made' = made \/ \E t \in Task : agent[t] = "working" /\ AgentCommit(t)
  OBVIOUS

(***************************************************************************)
(* The agents and the branches.                                            *)
(***************************************************************************)
\* An agent starts working at a launch.
LEMMA AgentStep ==
  ASSUME agent \in [Task -> {"none", "working", "exited"}], [Next]_vars, ~ Launch, NEW t \in Task,
         agent'[t] = "working"
  PROVE  agent[t] = "working"
  BY DEF RemoveWorktree

\* A worktree without an agent stays so until the launch.
LEMMA NoAgentStep ==
  ASSUME agent \in [Task -> {"none", "working", "exited"}], [Next]_vars, NEW t \in Task,
         agent[t] = "none"
  PROVE  agent'[t] = "none" \/ Launch \/ Wait
  BY DEF RemoveWorktree

\* Worktrees come with a branch, and are removed by a reclaim, before a cut and at
\* the end of a turn.
LEMMA WorktreeStep ==
  [Next]_vars => \/ worktree' = worktree \/ Add
                 \/ ReclaimRemove \/ Cut \/ PreflightOffends \/ Clear
  OBVIOUS

\* Rescue refs are made when a branch is retired.
LEMMA RescueStep == [Next]_vars => rescue' = rescue \/ Retire \/ ReclaimRetire
  OBVIOUS

\* The branch of the task in hand is dropped at the end of a turn or a reclaim.
LEMMA DropStep ==
  ReclaimRetire \/ Retire \/ Discard => pc' \in {"idle", "reclaim", "pick", "drain"}
  OBVIOUS

\* A branch is retired, discarded, cut or committed to.
LEMMA BranchStep ==
  ASSUME branch \in [Task -> Int], [Next]_vars, NEW t \in Task
  PROVE  \/ branch'[t] = branch[t]
         \/ branch'[t] = NoRef /\ t = task /\ (ReclaimRetire \/ Retire \/ Discard)
         \/ branch'[t] = 0 /\ t = task /\ Add
         \/ branch'[t] = attempts[t].n /\ AgentCommit(t)
<1>1. \/ branch' = branch \/ ReclaimRetire \/ Retire \/ Discard \/ Add
      \/ \E u \in Task : AgentCommit(u)
  OBVIOUS
<1>2. ReclaimRetire \/ Retire \/ Discard => branch' = [branch EXCEPT ![task] = NoRef]
  BY DEF RetireBranch
<1>3. CASE ReclaimRetire \/ Retire \/ Discard
  BY <1>2, <1>3
<1>4. CASE Add
  BY <1>4
<1>5. ASSUME NEW u \in Task, AgentCommit(u)
      PROVE  branch'[t] = branch[t] \/ (branch'[t] = attempts[t].n /\ AgentCommit(t))
  BY <1>5
<1> QED
  BY <1>1, <1>3, <1>4, <1>5
=============================================================================
