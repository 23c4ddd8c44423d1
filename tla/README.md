# A verification project for burnkit

burnkit is a driver for overnight agent runs. `burn run` takes tasks from a
Backlog.md queue one at a time, cuts a git branch and a worktree for each,
launches an agent in it, waits, checks the result and publishes it. Nobody
watches: what matters is what is left behind when an agent fails, a push is
refused, a human edits the backlog in between, or the process is killed.

These modules model that driver in TLA+, from three distances: the whole driver
on a backlog, an attempt at the level of processes and logs, and a publication
at the level of refs. TLC checks them on small backlogs, and
TLAPS proves every safety property that holds there, and the refinement of the
abstract specification, for every backlog, configuration and number of failures.
Liveness is model-checked.

- [Inventory](#inventory) - the parts of the program and what makes each right
- [The modules](#the-modules) - what models what
- [Runs](#runs) - what is checked, with which bounds
- [Where the code and its documents disagree](#where-the-code-and-its-documents-disagree)
- [Proofs](#proofs)
- [What is not modelled](#what-is-not-modelled)
- [Plan](#plan)

## Inventory

| Part | State it keeps | Operations | What makes it correct |
| --- | --- | --- | --- |
| Driver, `cli.py` | the locals of `cmd_run`; `pids/driver` | `run`, `resume`, `status`, `kill` | commits survive every death; nothing is attempted beyond its budget; what landed is not done again; a resumed run can go on; every run ends |
| Queue, `queue.py` | none: reads the mirror, `attempts.json`, `handled.txt` | `load_tasks`, `has_budget`, `next_ready` | dependencies first; a phase parent is never worked; the order is total |
| Run state, `state.py` | `KILL`, `attempts.json`, `handled.txt`, `PLANNER_OVERRIDE`, heartbeat | read, append, rewrite | survives a restart; the budget cannot be renewed by restarting |
| Publication, `integration.py` | the publish clone, `review-queue.md`, remote refs, rescue refs | `publish`, `retire_branch` | never overwrites others' commits; published means reachable; retiring loses nothing |
| Gates, `gates.py` | commits in the worktree | `verify`, `ensure_backlog_done`, `close_out_phase_parent` | a pass needs evidence; a phase is closed with its last leaf |
| Processes, `proc.py` | pidfiles, process groups, logs | `launch`, `wait_for_exit`, `kill_task_processes`, `kill_all` | an agent does not outlive its turn or a kill; nothing of an earlier attempt is taken for this one's end; the wait ends |
| Backends, `backend.py` | none | `task_env`, `prepare_worktree`, `stall_check`, hooks | a refused worktree is not launched |
| Markers and prompt, `prompt.py` | none | `compose`, `parse_marker` | a bail is never read as done |
| No-progress detection, `dshlog.py` | none: reads the session logs of dsh | `find_session_log`, `stall_reason` | an agent is stopped for its own calls only |
| Forensics, `forensics.py` | none | reports for humans | - |
| Configuration, `config.py` | none | - | - |

**How they interact.** `cmd_run` calls everything else, in one thread. The parts
share state through the file system and git: the *mirror* (a worktree of the
repository detached at the last fetched tip of the base branch) is where the
queue is read; `burn_dir` holds the run state; attempt branches and worktrees
are in the consumer's repository; the publish clone is a repository of its own,
between it and the remote. Other actors work on the same state meanwhile: the
agent in its worktree, `burn kill` and `burn status` in other terminals, humans
who push to the base branch, and whatever ends the driver.

**What is hard here.** A death between any two effects, followed by `run` or
`resume`; the mirror being older than the base branch at almost every decision;
pushes that fail or lose a race; a kill that arrives in every phase of a turn; a
retry of something half published; counters that live in memory, in a file, or
in both. `PROJECT.json` lists these hazards with the line where each one bites
and the properties that watch it.

## The modules

| Module | Extends | What it is |
| --- | --- | --- |
| `BurnQueue` | - | `queue.py`, operators |
| `BurnBacklog` | `BurnQueue` | what a verified attempt and a human do to a backlog |
| `BurnBoard` | `BurnBacklog` | the abstract specification |
| `BurnDriver` | `BurnBacklog` | the driver, its files, branches and remote |
| `BurnDriverBoard` | `BurnDriver` | instance of `BurnBoard` under a refinement mapping |
| `BurnDriverSteps`, `BurnDriverProofs` | `BurnDriver` | proofs: what a step may do; the safety of one turn and of a restart |
| `BurnLoopProofs` | `BurnDriverProofs` | proofs: what holds from one turn or run to the next |
| `BurnBoardProofs` | `BurnDriverBoard`, `BurnDriverProofs` | proofs: the refinement |
| `BurnGates` | - | `verify()` and `parse_marker`, operators |
| `BurnTranscript` | - | no-progress detection, operators |
| `BurnAttempt` | `BurnGates`, `BurnTranscript` | launches, waits, kills and verdicts |
| `BurnAttemptProofs` | `BurnAttempt` | proofs |
| `BurnPublish` | - | `FastForwardBranch` on refs |
| `BurnPublishProofs` | `BurnPublish` | proofs |
| `MCBurnDriver`, `MCBurnAttempt`, `MCBurnPublish` | the module named | values for TLC |

**`BurnQueue`** is `queue.py` as operators over a loaded backlog, plus
`phase_parent_to_close` from `gates.py`. A backlog maps each task to its status,
the directory it is in (`live`, `archived`, `gone`), a revision number (all that
`fingerprint()` tells apart) and the attempts the branch contains. Task ids are
numbers in the order in which the ids sort. `DottedChild` is the
phase.subtask naming convention as a relation.

**`BurnBacklog`** adds what commits do to a backlog: `Attempted` is the tree an
attempt that passed leaves, `EditedAs` what a human does to a task.

**`BurnDriver`** is the system. `pc` is the driver's place in `cmd_run` or
`reclaim_worktrees`, with one point per effect that outlives the process, so a
death can fall between any two:

```
idle -> (reclaim <-> unhook ->) boot -> pick -> guard -> refresh -> cut -> add -> prepare
     -> bump -> record -> preflight (-> discard -> idle) -> launch -> wait -> verify
     -> publish -> push | gh -> handled | fail -> clear -> retire -> pick | drain -> idle
```

| State | In the program |
| --- | --- |
| `tip`, `base` | tip of the base branch on the remote, and the backlog there |
| `mirror` | `burn_dir/mirror`, which is also `origin/<base>` as last fetched |
| `remote`, `clone` | attempt branches on the remote; what the publish clone's branch was moved to |
| `branch`, `worktree`, `rescue` | attempt branches, registered worktrees and rescue refs in the repository |
| `kill`, `ledger`, `attempts`, `handled`, `override`, `review` | the files of `burn_dir`; `ledger` says whether `attempts.json` can be read |
| `agent`, `marker` | the agent in each worktree, the marker in its log |
| `run`, `task`, `attempt`, `forkTip`, `forkTree`, `outcome`, `fastFails` | locals of `cmd_run`; `base_sha` is a tip and the backlog there |
| `exit` | how the last run ended, `CRASH` for a death or an exception |
| `victims` | what a `burn kill` in progress has still to kill |
| `made`, `published`, `streak`, `deaths`, `kills`, `edits` | history, and the counters behind the bounds |

An attempt's commits are one value, the number of the attempt, because no
property tells two commits of an attempt apart; what those commits hold is
`Attempted` of `BurnBacklog`: the tree of the fork point with the task forced to Done and, when
configured, its phase parent closed out. A fast-forward push replaces `base` by
that tree, so the model would show an edit being undone if the ancestry check or
the refusal of the push were missing. `verify()` can pass when there is a DONE
marker and a commit, and can always fail. The wait can always end, by the
timeout.

The actors beside the driver are actions as well: `AgentCommit`, `AgentMarks`,
`AgentExits`; `KillSentinel`, `KillAgents`, `KillDriver` (the sentinel is
written first, and pids are then killed in the order of their names, which can
be either); `Die` for every other end of the process, including a fetch
that raises; `Status`; and `Edit` for humans, who revise, finish, archive or
delete a task.

Definitions such as `PushForced` or `BootStale` are variants of the action
below them, each with one mistake in it. They are not part of `Next`: putting
one in the place of the real action shows that the property it is meant for
can fail.

**`MCBurnDriver`** gives backlogs and command lines to the runs: a chain of two
tasks, two independent tasks, and a phase parent over two leaves with a task
behind the phase.

**`BurnBoard`** is what burnkit promises the owner of a backlog, with three
variables: the board (the backlog on the base branch), the attempts whose
commits are kept, and those reported published. A commit is made only when the
dependencies are Done and under a higher number than those before; an attempt
lands once, whole, on top of whatever humans did; a report is about a commit that
exists. **`BurnDriverBoard`** shows that `BurnDriver` implements it: `board` is
`base`, `kept` is computed from the attempt branches, the rescue refs and
`published`, and everything else - mirrors, clones, ledgers, deaths, recoveries -
is a stutter. Retiring a branch, for one, must move the commits to a rescue ref
in the same step, or `kept` shrinks, which no step of the board does.

**`BurnGates`** is `verify()` as operators: `parse_marker` over the set of
markers a log holds, the acceptance criteria, `ensure_backlog_done` with an edit
that may not work, scope, the selection and the run of the machine gates up to
the first failure, vacuous results, and the verdict with its trust class.
**`BurnTranscript`** is `find_session_log` and `stall_reason`.

**`BurnAttempt`** is the part of a turn that `BurnDriver` takes in a few steps -
launch, wait, kill, verify - at the level of processes:

```
down -> guard -> launch -> wait -> (kill -> grace -> unlink ->) verify -> judge -> clear
                                          -> kill -> grace -> unlink -> guard
```

| State | In the program |
| --- | --- |
| `proc[p]` | the process group of launch `p`: a bash that writes its pid, opens the log, runs the agent and appends the exit marker; the agent may ignore SIGTERM, or leave something in the background |
| `pidfile`, `driverFile` | `burn_dir/pids` |
| `log` | per task and attempt number: who wrote, which markers, whether an exit marker is near the end |
| `baseline`, `ended`, `target`, `text`, `work`, `edited`, `report`, `verdict` | locals of `cmd_run`, `_kill_recorded_pid` and `verify` |
| `kill`, `killer`, `todo`, `hit` | the sentinel, and `burn kill` at its place in `kill_all` |
| `cut`, `author` | the worktrees that are there, and who committed in them |
| `calls`, `readable`, `newer` | the session transcripts, those that can be parsed, and which was written last |
| `widowed`, `strays`, `missed` | history: agents whose driver died, that outlived their turn, that a kill could not see |

`Found(p)` is where the operating system comes in: `getpgid` finds the bash of a
group while it lives and as a zombie while the driver has not reaped it, which
`Popen` does when it starts the next process. A kill is three steps - read
and SIGTERM, SIGKILL, unlink - and `burn kill` does the first two for one pidfile
after the other while the driver goes on. The driver does not look at attempts of
the past, but their agents do not know that: one that survived can write
into a log, commit to a worktree and append to a transcript of a later attempt.

**`BurnPublish`** is `FastForwardBranch` on refs: a ref is the set of commits it
reaches. `setup` is one of the three ways to use it: through the publish clone
onto the base branch (`default_integration`), onto a branch beside the base
branch, and onto a base branch without a remote. Each git command that reads or
moves a ref is an action: clone, detach, fetch with `branch -f`, fetch of the
attempt, ancestry check, `merge --ff-only` or `branch -f`, push. Between any two
the driver may die and humans push to either branch, commit, pull, switch
branches or merge.

**How they fit.** `BurnAttempt` is `BurnDriver` between `launch` and `verify`
(it may pass only with a DONE marker and a commit, and may always fail: the two
facts `BurnDriver` uses), and `BurnPublish` is its `publish` and `push` without
the backlog. They are checked on their own, because their product has no question
to ask: what the parts hand each other is the verdict, and the outcome of
`publish`. `BurnDriver` takes the status edit of `ensure_backlog_done` to succeed;
`PassIsDone` says exactly when it does not.

The proofs are in modules of their own, see [below](#proofs).

## Runs

| Run | Checks | Setting |
| --- | --- | --- |
| `driver_ff` | `TypeOK`, `WorkPreserved`, `RescueNamed`, `BudgetRespected`, `LandedNotRedone`, `PublishedListed`, `HumanEditsKept`, `ImplementsBoard` | fast-forward, chain of 2, deaths at any point (2), remote may fail, health check and hooks may refuse, `run`, `run --once --task` and `resume`, 1 edit (a revision or a deletion); 2.1 million states |
| `driver_kill` | `WorkPreserved`, `LandedNotRedone`, `ResumedCutSucceeds`, `PublishedListed`, `ImplementsBoard` | pull requests, 1 `burn kill` and 1 crash while waiting for the agent, `gh` and push may fail, every run is a resume, 1 edit (a human finishes or archives a task); 280,000 states |
| `driver_phase` | `DepsFirst`, `PhasesClosedOut`, `DemotionTakesTwoTasks`, `RunTerminates`, `BacklogWorkedOff` | 4 tasks, phase close-out, fast failures, `run` and `run --once`, 1 edit (a human revises or finishes a task), fairness; 496,000 states |
| `attempt` | `TypeOK`, `PassIsEarned`, `MeasuredIsEvidence`, `PassIsDone`, `FinishedIsOwn`, `StalledIsOwn`, `NoStrayAgents`, `KillReaches`, `KillHolds` | two launches, of one task twice or of two whose ids are one a prefix of the other, 1 death, 1 `burn kill`, two gates; 2 million states |
| `publish` | `TypeOK`, `RefusedForCause`, `OneUnmerged`, `ReportedStays`, `RemoteForward`, `SeenIsKept` | the three setups, 3 attempts, 2 human commits, 1 death; 190,000 states |
| `find_*` | one property each, violated | see the next section |

In words:

- `WorkPreserved`: a commit an agent made is on its attempt branch, on a rescue
  ref, or was reported published - after any death, kill or failure. (That what is
  reported published can be reached is another matter: see `find_push`.)
- `RescueNamed`: `rescue/<task>.a<n>` holds attempt `n`. The name comes from a
  local in the loop and from `attempts.json` in a resume; if they could
  disagree, one rescue would delete another.
- `BudgetRespected`: no definition of a task is attempted more than
  `max_attempts` times in a row. The counter is never reset, the fingerprint is
  read from a mirror that may be behind, and the driver can be restarted at will.
- `LandedNotRedone`: no agent is launched on a task whose work has landed.
- `HumanEditsKept`: no step takes back what a human did to the base branch.
- `ResumedCutSucceeds`: `git worktree add -b` of a resumed run finds the branch
  name free. It holds when every run is a resume and the driver does not die
  between removing a worktree and retiring its branch (`ResumedTheorem`); without
  the second condition it fails (`find_resume`), and without the first a plain
  `run` after a crash removes the worktree at the cut, raises on the branch, and
  leaves it where no reclaim sees it.
- `DepsFirst`: commits on a task are made only when its dependencies are Done on
  the base branch, though readiness was decided on the mirror.
- `PhasesClosedOut`: with close-out on, a phase parent is Done exactly when all
  its leaves are. Phases are one level deep: the code closes the parent of the task
  it has just worked and looks no further up, so the parent of a phase is never
  closed by it.
- `DemotionTakesTwoTasks`: with `max_attempts` of one or two (two is the default) a
  task gives at most one fast failure to a run that goes on, because its second is a
  blocked exit and the counter lives in memory. So `PLANNER_OVERRIDE` is written
  only when a second task, tried once and not published, stands beside the one in
  hand: "provider trouble, not task trouble", as the comment says. How that can
  happen at all: a task is picked on a stale mirror, fails fast, and the refresh
  shows another that sorts before it; that one fails twice.
- `RunTerminates`, `BacklogWorkedOff`: every run ends, and with a supervisor that
  starts it again every ready task ends up published or out of budget.
- `ImplementsBoard`: every behaviour is one `BurnBoard` allows.
- `PublishedListed`: every attempt ever reported published has its line in
  `review-queue.md`, although the line, the push, `gh` and the note that it was
  handled are separate effects. The converse is not promised and does not hold.
- `PassIsEarned`: a pass rests on a log that holds this task's DONE and not its
  BAIL and on a commit, both made by the agent of this very attempt, unless one
  that outlived an earlier turn had a hand in it. Logs and worktree paths are
  used again.
- `MeasuredIsEvidence`: the trust class `measured_local` needs a change of code
  within scope, no failed gate, and a gate whose output shows it checked something.
  Where every path counts as code, the task file does too, and marking the task Done
  is such a change.
- `PassIsDone`: what passed is Done in its commits, unless `backlog task edit`
  failed (nothing looks at its result) or the agent had set the status and not
  committed it (the status is read from the files, not from HEAD).
- `FinishedIsOwn`: the exit marker that ends the wait was not left by an earlier
  attempt at the same path; the signature taken before the launch is what it
  takes, since `tee` truncates in place. A stray agent that still writes there can
  end it.
- `StalledIsOwn`: an agent is stopped for want of progress only on its own calls,
  not on a transcript found at the same worktree path. It is about the step that
  ends the wait: until the kill arrives the agent may still do something new.
- `NoStrayAgents`, `KillReaches`: an agent that lives outside its turn, or after
  `burn kill` is through, is one whose driver died, or one no kill could see:
  there was no pidfile of it yet, its pidfile had been overwritten, or its driver
  was killed between its own SIGTERM and SIGKILL.
- `KillHolds`: after `burn kill` is through nothing is launched until a resume,
  wherever the driver was.
- `RemoteForward`: no commit is taken off a branch of the remote.
- `SeenIsKept`: no step takes from the shared branch a commit that was on it at the
  ancestry check. One that comes after the check, on a branch that is not checked
  out, is lost to `branch -f`; with the clone nobody else can make one.
- `ReportedStays`: without a clone, what was reported published stays reachable
  from the shared branch even when the push failed. With one it does not
  (`find_push`).
- `RefusedForCause`: through the clone an attempt is refused only because the base
  branch moved after it was cut; a failed push or a stale clone leaves nothing
  behind that refuses the next. The one exception is a driver that died
  after the clone was made and before it was detached: from then on every
  attempt is refused.
- `OneUnmerged`: attempts are cut from the base branch, so a branch beside it never
  holds more than one attempt that humans have not merged.

**Bounds.** Two tasks are enough for what the safety properties relate: a task
and the one it depends on, or the one worked before it. Two deaths give a crash
during the recovery from a crash; one edit falls between any two steps.
`MaxAttempts = 2` is the default of the program and the smallest value with both
a retry and a blocked exit. Every bound is a constant (`MaxDeaths`, `MaxKills`,
`MaxEdits`, `DeathPoints`) in the guard of one action; the proofs hold for all
their values.

In `attempt`, a second launch is what it takes for anything to be left of a first
one: a log, a worktree, a transcript, a pidfile, an agent. `MaxEvents` bounds what
agents print and call together with deaths and kills, two of them in one
behaviour: DONE quoted and BAIL, a death and a marker, a kill and an exit marker.
`Window` is 2 and `Threshold` 1, so a loop shows within the events there are, and
the two call signatures are symmetric (no property names one). The run checks no
deadlock: when the launches are used up the model stops.

In `publish`, three attempts are one before and one after an attempt whose
push fails, and two human commits can fall on both sides of the ancestry check,
or on both branches.

`driver_kill` lets the driver die only while it waits for the agent, where
nearly all of its time goes. That is a restriction: killed between two of
its own steps it can leave a branch without a worktree (`find_resume`), or, with
pull requests, a publication it has not noted. `ResumedTheorem` and
`LandedPullTheorem` say exactly which deaths have to be excluded: three points for
the one, and the point between the pull request and `handled.txt` for the other.

**Fairness.** `FairSpec` has two assumptions. `WF_vars(Driver)`: a driver that
can take a step takes one. It is justified by the code: the only waits are
`wait_for_exit`, which the timeout ends, and subprocess calls, for most of which
`sh()` or the caller sets a timeout. A hook of the consumer, or one of the few git
calls without a timeout, that hangs forever is outside the assumption.
`WF_vars(Supervised)`: when a run has ended another is started. It is not the
driver's doing but that of the supervisor the program is written for (the
comment in `bump_attempts`, "Attempts and triage" in `docs/configuration.md`),
and only `BacklogWorkedOff` needs it. Nothing is assumed of agents or humans: an
agent that never prints its marker is stopped by the timeout.

## Where the code and its documents disagree

Each of these runs checks one statement of the repository and ends in a
counterexample; `PROJECT.json` quotes the lines.

| Run | The statement | What happens |
| --- | --- | --- |
| `find_drained` | exit code 0 means the queue is drained | the mirror is not refreshed after a publication, so the task it unblocks is not seen: a chain advances one task per run |
| `find_push` | published commits are reachable | a failed push is reported published, the branch is deleted, and the publish clone's ref is reset by the next task |
| `find_resume` | after `resume` the branch is free to be cut again | a kill between removing the worktree and retiring the branch leaves a branch `reclaim_worktrees` does not see |
| `find_retry` | a verified attempt that was not published is retried | once the first push worked and `gh` failed, the retry pushes another history to the same branch |
| `find_revised` | a revised task has a fresh budget | it is blocked after one attempt |
| `find_status` | an attempt is recorded against the definition it ran on | `burn status` moves the mirror between the cut and the fingerprint |
| `find_torn` | a run survives a restart | a crash while `attempts.json` is rewritten makes it unreadable for good |

## Proofs

TLAPS checks a theorem for each safety property of the passing runs: 26
invariants and action properties of the three specifications, and the
refinement.

Assumptions are those named in the modules: a finite set of numbered tasks, a
well-typed backlog and ledger at the start with no attempt recorded against a
revision that does not exist yet, `MaxAttempts` at least one, and so on. Nothing
bounds the number of tasks, launches, deaths, kills or edits. Where a theorem needs
more, it says so in its ASSUME.

Every inductive invariant below was checked by TLC on the runs before it was
proved.

### The driver

`BurnDriverSteps` states, once, what a step may do to each piece of state: which
action writes it, and which action leads into a section of the turn (`FlowStep`,
`EnterCut`, `BaseStep`, ...). Each is a case split over all of `Next`.
The other modules cite them and open only the actions they are about.

| Theorem | Property | Inductive invariant | Why it is needed |
| --- | --- | --- | --- |
| `TypeTheorem` | `TypeOK` | itself | - |
| `EditsTheorem` | `HumanEditsKept` | `ForkInv`: while `forkTip = tip`, `forkTree = base` | the tree a push writes must be the one it was checked against |
| `BudgetTheorem` | `BudgetRespected` | `BudgetInv`: revisions only grow along streak <= ledger <= mirror <= base, and a picked task still has budget for what it is cut from | the budget is read on the mirror, spent on the fork point and recorded from the mirror again |
| `DepsTheorem` | `DepsFirst` | `DepsInv`: the dependencies of the task in hand and of every working agent are Done on the base branch, and what the mirror calls Done is | Done is never taken back, so a stale mirror errs on the safe side |
| `LandedTheorem` | `LandedNotRedone` (ff) | `LandedInv`: landed work is Done in the base, and in the mirror or noted once a task can be picked | a crash before `handled.txt` is made good by the refresh at the next boot |
| `RescueTheorem` | `RescueNamed` | `BranchInv`: a branch holds nothing, the fork point, or the attempt last counted; that number is the driver's local from `record` on | both ways of naming a rescue ref agree |
| `WorkTheorem` | `WorkPreserved` | `BranchInv`, and `RescueNamed` | a rescue ref can only be replaced by itself |

`BurnLoopProofs` has what reaches over several turns or runs:

| Theorem | Property | Inductive invariant | Hypotheses |
| --- | --- | --- | --- |
| `ResumedTheorem` | `ResumedCutSucceeds` | `CutInv`: a branch has a worktree, and past the reclaim none is left but that of the task in hand | every run is a resume; no death between removing a worktree and retiring its branch |
| `DemotionTheorem` | `DemotionTakesTwoTasks` | `FastInv`: the fast failures counted are those of as many unpublished tasks that were tried once | - |
| `PhaseTheorem` | `PhasesClosedOut` | `PhaseInv`: the task in hand is no phase parent, and parents and leaves stay where `phase_parent_to_close` looks | `FlatPhases`: phases one level deep, their files in `tasks_dir`, closed out at the start |
| `LandedPullTheorem` | `LandedNotRedone` | `NotedInv`: what was published is in `handled.txt` or about to be; and `FastInv`, by which the task in hand is not | no death between the pull request and `handled.txt` |
| `NextReadyTheorem` | - | about the operator: `next_ready` returns one ready task, and none only when nothing is ready | - |

`NextReadyTheorem` is where the order (ordinal, id) matters: it is total, and any
set of tasks has a first one, by the well-foundedness of the numbers.

### The refinement

`BurnBoardProofs` shows `BoardTheorem`, that `BurnDriver` implements `BurnBoard`,
and `ListedTheorem` (`PublishedListed`). The initial states are mapped by
definition. For the steps there are lemmas about what may happen to the commits
that can be reached (`Kept`), and one per abstract step: a commit of an agent is
`Commit`, a push that lands is `Land`, a report is `Report`, an edit is `Human`,
the rest stutters. Beside `BranchInv`, `ForkInv` and `LandedInv` that takes

- `FreshInv`: what can be reached of a task is no newer than its last attempt, and
  older than it until that attempt has committed - so a commit comes under a new
  number;
- `TurnInv`: what was true at the launch (nothing landed, dependencies Done, the
  file where it was) still is at the push;
- `ListedInv`: the line is written before the push that it announces.

### An attempt

All nine properties of the `attempt` run are theorems of `BurnAttemptProofs`.
`CoreInv` (types; where the driver and `burn kill` are says what their locals hold;
attempts are counted no faster than launches, deaths and kills) is common to all.

| Theorem | Property | Invariants beside `CoreInv` |
| --- | --- | --- |
| `KillTheorem` | `KillHolds` | `DownInv`: the kill has met the driver, which is down or has not passed the guard |
| `MeasuredTheorem`, `DoneTheorem` | `MeasuredIsEvidence`, `PassIsDone` | themselves, with lemmas on `RunMachineGates`, `GatesRun`, `Judge` and `EnsureDone` |
| `StalledTheorem` | `StalledIsOwn` | `SourceInv`: transcripts come from launches made so far, so `since` leaves only this one's |
| `FinishedTheorem` | `FinishedIsOwn` | `LogInv`: the log is the baseline, or its agent truncated it, or a stray wrote to it |
| `EarnedTheorem` | `PassIsEarned` | `LogInv`, `OwnInv` and `AuthorInv`: once the agent is at work, logs and worktree hold its own doing or a stray's; `EarnedInv` carries the evidence to the verdict |
| `StrayTheorem` | `NoStrayAgents` | `DefiantInv`, `UnnamedInv`, `UnlinkInv`: an agent that ignores SIGTERM, or that no pidfile names, is in the grace period of a kill or counted as missed |
| `ReachTheorem` | `KillReaches` | `DownInv`, and `ReachInv`: what `burn kill` has not visited yet it will |

Two properties had to be restated before they could be proved, because they held
only within the bounds of the run: `FinishedIsOwn` allowed no marker of a stray
together with one of the agent itself, which a third launch can produce, and
`StalledIsOwn` was an invariant, although the agent can still call something new
between the decision and the kill. A third one went the same way in the driver: it
said that with a budget of two the demotion never happens, which is so for the
small backlogs only; `DemotionTakesTwoTasks` is what holds.

### A publication

All six properties of the `publish` run are theorems of `BurnPublishProofs`, from
one invariant, `PublishInv`: what each git command may rely on at its place. Up to
the ancestry check the clone's copy of the base branch is behind the remote's
(`CopyInv`, from which `RefusedForCause`); when the ref is moved, what the check saw
is in the attempt (`SeenInv`, from which `SeenIsKept`); beyond what is merged, the
shared branch has one attempt at most, here and on the remote, because attempts are
cut from the base branch (`MergedInv`, from which `OneUnmerged`); and what was
reported published is on the target branch, unless a clone was used
(`ReportedInv`, from which `ReportedStays`).

### Only model-checked

`RunTerminates` and `BacklogWorkedOff`: fairness and ENABLED are out of reach of
the prover, so liveness stays with TLC. Recursive definitions there are none;
`Cardinality` occurs in `Stuck` and `OneUnmerged` only, and no theorem needs to
compute it by induction. The `find_*` runs are counterexamples and have nothing to
prove.

## What is not modelled

- Two drivers on one `burn_dir`. Nothing in the code locks it.
- Two git commands on the mirror at the same time. `Status` is one step, and so is
  `ensure_mirror`; a checkout that fails is swallowed by the code (`check=False`)
  and would leave the mirror behind.
- A branch name that changes because the title did; files with the same id in two
  directories; a status other than To Do and Done.
- `base_remote = ""` in `BurnDriver`, where the mirror follows a local branch, and
  `FastForwardBranch` without a publish clone there: both are in `BurnPublish`,
  without a backlog.
- A revision that restores an earlier text: revisions only grow.
- A `backlog task edit` that fails, in `BurnDriver`; `BurnGates` has it.
- A process id given out twice: every launch has its own. Nothing in the code
  tells a recycled pid from the one it recorded.
- herdr panes. Where herdr runs, the agent is a child of its server, and closing
  the pane by name comes before the pidfile; the models have the direct child.
- A gate that changes the worktree, and evidence as text.
- `gh` that exceeds its 60 seconds: the exception ends the run as a death does, and
  `driver_kill` lets it die only while it waits.
- A session log removed while it is being looked for.
- In `BurnDriver`, an agent that outlives its driver and goes by the path of its
  worktree instead of its working directory: removing the worktree is taken to end
  what it can commit. `BurnAttempt` lets it go on.
- The heartbeat log, prompts, environments, forensics: nothing reads them back.

## Plan

1. `BurnQueue`, `BurnDriver`, their runs and proofs - done.
2. `BurnAttempt` with `BurnGates` and `BurnTranscript` - done.
3. `BurnPublish` - done.
4. `BurnBoard` and the refinement, checked - done.
5. Proofs of every safety property of the passing runs, and of the refinement -
   done.
6. Liveness stays with TLC.
7. What could still be stated: that `BurnAttempt` and `BurnPublish` implement the
   steps of `BurnDriver` they stand for, as refinements of small abstract
   specifications of a verdict and of a publication.
