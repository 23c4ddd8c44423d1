------------------------------ MODULE BurnDriver ------------------------------
(***************************************************************************)
(* The burnkit driver: `burn run`, `burn resume`, `burn kill` and `burn    *)
(* status` (cli.py), the run state they keep in burn_dir (state.py), the   *)
(* branches and worktrees they cut and retire (integration.py), the agent  *)
(* working in one of those worktrees, and the humans who edit the backlog  *)
(* and pull the plug meanwhile.                                            *)
(*                                                                         *)
(* cmd_run is one action per durable effect, in the order of the code, so  *)
(* that a death of the driver can fall between any two of them.  What is   *)
(* abstracted: the gates of verify() are a verdict that can go either way  *)
(* once the DONE marker and a commit are there; a commit is identified by  *)
(* the attempt that made it; the branch of a task keeps its name when the  *)
(* task is revised; time is a timeout that may always fire.  One driver    *)
(* runs at a time.                                                         *)
(***************************************************************************)
EXTENDS BurnBacklog

CONSTANTS
    Backlog0,      \* the backlog at the start
    Ledger0,       \* attempts.json at the start
    Strategy,      \* "ff": FastForwardBranch through its publish clone,
                   \* "pr": PullRequestPerTask
    RemoteMayFail, \* fetch, push and gh may fail when publishing
    HealthCheck,   \* config.health_check is set
    Preflight,     \* config.preflight_hooks is not empty
    FastFail,      \* config.fast_fail_s > 0
    HasFallback,   \* config.fallback_model is set
    Runs,          \* the command lines used: [once, only, resumed]
    Edits,         \* what humans do to the backlog
    DeathPoints,   \* the points at which the driver may be killed or crash
    MaxDeaths,     \* bounds on crashes of the driver or an agent, on `burn
    MaxKills,      \* kill` commands and on edits of the backlog
    MaxEdits

NoRef == -1

Flags == {"none", "published", "failed", "blocked"}
Codes == {"none", "KILLED", "HEALTH", "PREFLIGHT", "BLOCKED", "DRAINED", "ONCE", "CRASH"}
Points == {"idle", "reclaim", "unhook", "boot", "pick", "guard", "refresh", "cut",
           "add", "prepare", "bump", "record", "preflight", "discard", "launch",
           "wait", "verify", "publish", "push", "gh", "handled", "fail", "clear",
           "retire", "drain"}
RunModes == [once : BOOLEAN, only : Task \cup {NoTask}, resumed : BOOLEAN]

ASSUME Backlog0Assumption ==
    Backlog0 \in Backlogs /\ \A t \in Task : Backlog0[t].rev > 0 /\ Backlog0[t].work = {}
ASSUME Ledger0Assumption ==
    /\ Ledger0 \in Ledgers
    /\ \A t \in Task : /\ Ledger0[t].n <= MaxAttempts
                       /\ Ledger0[t].fp <= Backlog0[t].rev
ASSUME ConfigAssumption ==
    /\ Strategy \in {"ff", "pr"}
    /\ {RemoteMayFail, HealthCheck, Preflight, FastFail, HasFallback} \subseteq BOOLEAN
ASSUME RunsAssumption ==
    /\ Runs \subseteq RunModes
    /\ \A r \in Runs : r.resumed => ~ r.once /\ r.only = NoTask
ASSUME BoundsAssumption ==
    /\ Edits \subseteq {"revise", "finish", "archive", "delete"}
    /\ DeathPoints \subseteq Points \ {"idle"}
    /\ {MaxDeaths, MaxKills, MaxEdits} \subseteq Nat

VARIABLES
    \* The base branch on the remote: its tip, and the backlog at that tip.
    tip, base,
    \* The mirror checkout of burn_dir/mirror: the backlog at the last fetch.
    mirror,
    \* The attempt branches on the remote, and the attempt the publish clone's
    \* own base branch was last moved to.
    remote, clone,
    \* The repository: attempt branches (NoRef, 0 when cut and still at the
    \* fork point, n when they hold the commits of attempt n), the tasks whose
    \* worktree is registered, and rescue refs <<task, name, attempt held>>.
    branch, worktree, rescue,
    \* burn_dir: KILL, attempts.json (whole or torn), handled.txt,
    \* PLANNER_OVERRIDE, review-queue.md.
    kill, ledger, attempts, handled, override, review,
    \* The agent in each worktree and the marker in its log.
    agent, marker,
    \* The driver process: where it is, its command line, and its locals; the
    \* fork point (base_sha) is a tip of the base branch and the backlog there.
    pc, run, task, attempt, forkTip, forkTree, outcome, fastFails, exit,
    \* What a `burn kill` in progress still has to kill.
    victims,
    \* History: commits ever made, attempts ever reported published, the revision
    \* each task was last worked on and the attempts in a row on it; and the
    \* counters behind the bounds.
    made, published, streak, deaths, kills, edits

backlogVars == <<tip, base>>
publishVars == <<remote, clone, review, published>>
gitVars     == <<branch, worktree, rescue>>
budgetVars  == <<ledger, attempts, streak>>
agentVars   == <<agent, marker>>
localVars   == <<run, task, attempt, forkTip, forkTree, outcome, fastFails>>
boundVars   == <<victims, deaths, kills, edits>>
vars == <<backlogVars, mirror, publishVars, gitVars, kill, budgetVars, handled,
          override, agentVars, pc, localVars, exit, made, boundVars>>

RemoteType ==
    /\ tip \in Nat
    /\ base \in Backlogs /\ mirror \in Backlogs
    /\ remote \in [Task -> Int]
    /\ clone \subseteq Task \X Int

GitType ==
    /\ branch \in [Task -> Int]
    /\ worktree \subseteq Task
    /\ rescue \subseteq Task \X Nat \X Int

BurnDirType ==
    /\ kill \in BOOLEAN
    /\ ledger \in {"ok", "torn"}
    /\ attempts \in Ledgers
    /\ handled \subseteq Task
    /\ override \in BOOLEAN
    /\ review \subseteq Task \X Nat

AgentType ==
    /\ agent \in [Task -> {"none", "working", "exited"}]
    /\ marker \in [Task -> {"none", "done", "bail"}]

\* Between the pick of a task and the end of its turn the driver has a task.
DriverType ==
    /\ pc \in Points
    /\ run \in RunModes
    /\ task \in Task \cup {NoTask}
    /\ pc \notin {"idle", "reclaim", "boot", "pick", "drain"} => task \in Task
    /\ attempt \in Nat
    /\ forkTip \in Nat /\ forkTree \in Backlogs
    /\ outcome \in Flags
    /\ fastFails \in 0 .. 2
    /\ exit \in Codes

HistoryType ==
    /\ made \subseteq Task \X Nat
    /\ published \subseteq Task \X Int
    /\ streak \in [Task -> [n : Nat, rev : Nat]]

BoundsType ==
    /\ victims \subseteq {"agents", "driver"}
    /\ deaths \in 0 .. MaxDeaths
    /\ kills \in 0 .. MaxKills
    /\ edits \in 0 .. MaxEdits

TypeOK ==
    /\ RemoteType /\ GitType /\ BurnDirType /\ AgentType
    /\ DriverType /\ HistoryType /\ BoundsType

Init ==
    /\ tip = 0 /\ base = Backlog0 /\ mirror = Backlog0
    /\ remote = [t \in Task |-> NoRef] /\ clone = {}
    /\ branch = [t \in Task |-> NoRef] /\ worktree = {} /\ rescue = {}
    /\ kill = FALSE
    /\ ledger = "ok" /\ attempts = Ledger0
    /\ handled = {} /\ override = FALSE /\ review = {}
    /\ agent = [t \in Task |-> "none"] /\ marker = [t \in Task |-> "none"]
    /\ pc = "idle"
    /\ run = [once |-> FALSE, only |-> NoTask, resumed |-> FALSE]
    /\ task = NoTask /\ attempt = 0 /\ forkTip = 0 /\ forkTree = Backlog0
    /\ outcome = "none" /\ fastFails = 0
    /\ exit = "none"
    /\ victims = {}
    /\ made = {} /\ published = {}
    /\ streak = [t \in Task |-> [n |-> Ledger0[t].n, rev |-> Ledger0[t].fp]]
    /\ deaths = 0 /\ kills = 0 /\ edits = 0

(***************************************************************************)
(* Helpers.                                                                *)
(***************************************************************************)
\* The driver goes on at point p.
Goto(p) == pc' = p /\ UNCHANGED exit

\* The process ends with an exit code; an uncaught exception is "CRASH".
Stop(code) == pc' = "idle" /\ exit' = code

\* `git worktree remove --force`: an agent left in the directory can no longer
\* commit from it, and its log is no longer read.
RemoveWorktree(t) ==
    /\ worktree' = worktree \ {t}
    /\ agent' = [agent EXCEPT ![t] = "none"]
    /\ marker' = [marker EXCEPT ![t] = "none"]

\* The retirement as it was before `rescue/` refs: the branch is deleted.
RetireBranchBare(t, n, carries, isPublished) ==
    /\ branch' = [branch EXCEPT ![t] = NoRef]
    /\ UNCHANGED rescue

\* A retirement that leaves the branch for a post-mortem.
RetireBranchNever(t, n, carries, isPublished) == UNCHANGED <<branch, rescue>>

\* retire_branch(branch of t, base_sha, t, n, published): delete the branch, or
\* rename it to rescue/<t>.a<n>, replacing a rescue ref of that name, when its
\* head is not base_sha and it was not published.
RetireBranch(t, n, carries, isPublished) ==
    /\ branch' = [branch EXCEPT ![t] = NoRef]
    /\ IF branch[t] # NoRef /\ carries /\ ~ isPublished
         THEN rescue' = {r \in rescue : ~ (r[1] = t /\ r[2] = n)} \cup {<<t, n, branch[t]>>}
         ELSE UNCHANGED rescue

(***************************************************************************)
(* Starting: `burn run` and `burn resume`.                                 *)
(***************************************************************************)
Fresh(r) ==
    /\ run' = r
    /\ task' = NoTask /\ attempt' = 0 /\ forkTip' = 0 /\ forkTree' = Backlog0
    /\ outcome' = "none" /\ fastFails' = 0

\* cmd_run up to ensure_mirror.
StartRun(r) ==
    /\ pc = "idle" /\ ~ r.resumed
    /\ Fresh(r)
    /\ pc' = "boot" /\ exit' = "none"
    /\ UNCHANGED <<backlogVars, mirror, publishVars, gitVars, kill, budgetVars, handled,
                   override, agentVars, made, boundVars>>

\* cmd_resume up to reclaim_worktrees: the sentinel is cleared before
\* load_attempts, which raises on a torn file.
StartResume(r) ==
    /\ pc = "idle" /\ r.resumed
    /\ Fresh(r)
    /\ kill' = FALSE
    /\ IF ledger = "ok" THEN pc' = "reclaim" /\ exit' = "none" ELSE Stop("CRASH")
    /\ UNCHANGED <<backlogVars, mirror, publishVars, gitVars, budgetVars, handled,
                   override, agentVars, made, boundVars>>

\* reclaim_worktrees, for the next worktree git lists.
ReclaimRemove ==
    /\ pc = "reclaim"
    /\ \E t \in worktree : RemoveWorktree(t) /\ task' = t
    /\ Goto("unhook")
    /\ UNCHANGED <<backlogVars, mirror, publishVars, branch, rescue, kill, budgetVars, handled,
                   override, run, attempt, forkTip, forkTree, outcome, fastFails, made,
                   boundVars>>

\* A reclaim that removes the worktrees and keeps the branches.
ReclaimKeepsBranch ==
    /\ pc = "unhook"
    /\ Goto("reclaim")
    /\ UNCHANGED <<backlogVars, mirror, publishVars, gitVars, kill, budgetVars, handled,
                   override, agentVars, localVars, made, boundVars>>

\* The branch is retired against its merge-base with the base branch as last
\* fetched: it carries nothing when that branch already contains its head.
ReclaimRetire ==
    /\ pc = "unhook"
    /\ RetireBranch(task, attempts[task].n,
                    branch[task] # 0 /\ branch[task] \notin mirror[task].work, FALSE)
    /\ Goto("reclaim")
    /\ UNCHANGED <<backlogVars, mirror, publishVars, worktree, kill, budgetVars, handled,
                   override, agentVars, localVars, made, boundVars>>

ReclaimDone ==
    /\ pc = "reclaim" /\ worktree = {}
    /\ Goto("boot")
    /\ UNCHANGED <<backlogVars, mirror, publishVars, gitVars, kill, budgetVars, handled,
                   override, agentVars, localVars, made, boundVars>>

\* A boot that trusts the mirror an earlier run left.
BootStale ==
    /\ pc = "boot"
    /\ Goto("pick")
    /\ UNCHANGED <<backlogVars, mirror, publishVars, gitVars, kill, budgetVars, handled,
                   override, agentVars, localVars, made, boundVars>>

\* The first ensure_mirror.
Boot ==
    /\ pc = "boot"
    /\ mirror' = base
    /\ Goto("pick")
    /\ UNCHANGED <<backlogVars, publishVars, gitVars, kill, budgetVars, handled,
                   override, agentVars, localVars, made, boundVars>>

(***************************************************************************)
(* One turn of the loop, up to the launch.                                 *)
(***************************************************************************)
\* next_ready reads attempts.json and raises when it is torn.
PickCrash ==
    /\ pc = "pick" /\ ledger = "torn"
    /\ Stop("CRASH")
    /\ UNCHANGED <<backlogVars, mirror, publishVars, gitVars, kill, budgetVars, handled,
                   override, agentVars, localVars, made, boundVars>>

PickTask ==
    /\ pc = "pick" /\ ledger = "ok"
    /\ task' \in NextReady(mirror, attempts, handled, run.only)
    /\ attempt' = 0 /\ outcome' = "none"
    /\ Goto("guard")
    /\ UNCHANGED <<backlogVars, mirror, publishVars, gitVars, kill, budgetVars, handled,
                   override, agentVars, run, forkTip, forkTree, fastFails, made, boundVars>>

\* A loop that does not notice that next_ready returned None.
QueueEmptyUnnoticed ==
    /\ pc = "pick" /\ ledger = "ok"
    /\ NextReady(mirror, attempts, handled, run.only) = {}
    /\ Goto("guard")
    /\ UNCHANGED <<backlogVars, mirror, publishVars, gitVars, kill, budgetVars, handled,
                   override, agentVars, localVars, made, boundVars>>

QueueEmpty ==
    /\ pc = "pick" /\ ledger = "ok"
    /\ NextReady(mirror, attempts, handled, run.only) = {}
    /\ Goto("drain")
    /\ UNCHANGED <<backlogVars, mirror, publishVars, gitVars, kill, budgetVars, handled,
                   override, agentVars, localVars, made, boundVars>>

\* The KILL sentinel, then the health check.
GuardStop ==
    /\ pc = "guard"
    /\ \/ kill /\ Stop("KILLED")
       \/ ~ kill /\ HealthCheck /\ Stop("HEALTH")
    /\ UNCHANGED <<backlogVars, mirror, publishVars, gitVars, kill, budgetVars, handled,
                   override, agentVars, localVars, made, boundVars>>

GuardPass ==
    /\ pc = "guard" /\ ~ kill
    /\ Goto("refresh")
    /\ UNCHANGED <<backlogVars, mirror, publishVars, gitVars, kill, budgetVars, handled,
                   override, agentVars, localVars, made, boundVars>>

\* ensure_mirror again, then load_tasks(...)[task], which raises when the task
\* is no longer there, and base_sha.  Readiness is not asked again.
Refresh ==
    /\ pc = "refresh"
    /\ mirror' = base
    /\ forkTip' = tip /\ forkTree' = base
    /\ IF base[task].where = "gone" THEN Stop("CRASH") ELSE Goto("cut")
    /\ UNCHANGED <<backlogVars, publishVars, gitVars, kill, budgetVars, handled,
                   override, agentVars, run, task, attempt, outcome, fastFails, made, boundVars>>

\* _remove_worktree of whatever is left at the task's worktree path.
Cut ==
    /\ pc = "cut"
    /\ RemoveWorktree(task)
    /\ Goto("add")
    /\ UNCHANGED <<backlogVars, mirror, publishVars, branch, rescue, kill, budgetVars, handled,
                   override, localVars, made, boundVars>>

\* `git worktree add -b` raises when the branch exists.
AddCrash ==
    /\ pc = "add" /\ branch[task] # NoRef
    /\ Stop("CRASH")
    /\ UNCHANGED <<backlogVars, mirror, publishVars, gitVars, kill, budgetVars, handled,
                   override, agentVars, localVars, made, boundVars>>

Add ==
    /\ pc = "add" /\ branch[task] = NoRef
    /\ branch' = [branch EXCEPT ![task] = 0]
    /\ worktree' = worktree \cup {task}
    /\ Goto("prepare")
    /\ UNCHANGED <<backlogVars, mirror, publishVars, rescue, kill, budgetVars, handled,
                   override, agentVars, localVars, made, boundVars>>

\* prepare_worktree and task_md, which finds no file for a task that is not
\* under tasks_dir at base_sha.
Prepare ==
    /\ pc = "prepare"
    /\ IF forkTree[task].where = "live" THEN Goto("bump") ELSE Stop("CRASH")
    /\ UNCHANGED <<backlogVars, mirror, publishVars, gitVars, kill, budgetVars, handled,
                   override, agentVars, localVars, made, boundVars>>

\* fingerprint(t.file) reads the file in the mirror, not in the worktree, and
\* raises when it is no longer there.
BumpCrash ==
    /\ pc = "bump" /\ mirror[task].where # "live"
    /\ Stop("CRASH")
    /\ UNCHANGED <<backlogVars, mirror, publishVars, gitVars, kill, budgetVars, handled,
                   override, agentVars, localVars, made, boundVars>>

\* An attempt on the revision the worktree was cut at.
Spend == streak' = [streak EXCEPT ![task] =
                      IF @.rev = forkTree[task].rev
                        THEN [n |-> @.n + 1, rev |-> @.rev]
                        ELSE [n |-> 1, rev |-> forkTree[task].rev]]

\* bump_attempts adds the attempt, and write_text truncates attempts.json before
\* it writes it: nobody can read what it is to hold until that is done.
BumpOpen ==
    /\ pc = "bump" /\ mirror[task].where = "live"
    /\ ledger' = "torn"
    /\ attempts' = [attempts EXCEPT ![task] = [n |-> @.n + 1, fp |-> mirror[task].rev]]
    /\ Spend
    /\ Goto("record")
    /\ UNCHANGED <<backlogVars, mirror, publishVars, gitVars, kill, handled,
                   override, agentVars, localVars, made, boundVars>>

\* A bump that returns the count it read.
BumpReturnsOld ==
    /\ pc = "record"
    /\ ledger' = "ok"
    /\ attempt' = attempts[task].n - 1
    /\ Goto("preflight")
    /\ UNCHANGED <<backlogVars, mirror, publishVars, gitVars, kill, attempts, streak, handled,
                   override, agentVars, run, task, forkTip, forkTree, outcome, fastFails, made,
                   boundVars>>

\* The file is whole again, and the number of the attempt is returned.
BumpWrite ==
    /\ pc = "record"
    /\ ledger' = "ok"
    /\ attempt' = attempts[task].n
    /\ Goto("preflight")
    /\ UNCHANGED <<backlogVars, mirror, publishVars, gitVars, kill, attempts, streak, handled,
                   override, agentVars, run, task, forkTip, forkTree, outcome, fastFails, made,
                   boundVars>>

\* A preflight hook finds offenders: the worktree goes, ...
PreflightOffends ==
    /\ pc = "preflight" /\ Preflight
    /\ RemoveWorktree(task)
    /\ Goto("discard")
    /\ UNCHANGED <<backlogVars, mirror, publishVars, branch, rescue, kill, budgetVars, handled,
                   override, localVars, made, boundVars>>

\* ... then the branch, and the run ends.
Discard ==
    /\ pc = "discard"
    /\ branch' = [branch EXCEPT ![task] = NoRef]
    /\ Stop("PREFLIGHT")
    /\ UNCHANGED <<backlogVars, mirror, publishVars, worktree, rescue, kill, budgetVars, handled,
                   override, agentVars, localVars, made, boundVars>>

PreflightPass ==
    /\ pc = "preflight"
    /\ Goto("launch")
    /\ UNCHANGED <<backlogVars, mirror, publishVars, gitVars, kill, budgetVars, handled,
                   override, agentVars, localVars, made, boundVars>>

Launch ==
    /\ pc = "launch"
    /\ agent' = [agent EXCEPT ![task] = "working"]
    /\ Goto("wait")
    /\ UNCHANGED <<backlogVars, mirror, publishVars, gitVars, kill, budgetVars, handled,
                   override, marker, localVars, made, boundVars>>

(***************************************************************************)
(* One turn of the loop, from the wait to the publication.                 *)
(***************************************************************************)
\* A wait that nothing but the exit marker ends.
WaitForever ==
    /\ pc = "wait" /\ ~ kill /\ agent[task] = "exited"
    /\ Goto("verify")
    /\ UNCHANGED <<backlogVars, mirror, publishVars, gitVars, kill, budgetVars, handled,
                   override, agentVars, localVars, made, boundVars>>

\* wait_for_exit: the exit marker ends it unless the sentinel is there, the
\* sentinel, a stall or the timeout end it at any time, and then
\* kill_task_processes takes the agent down.
Wait ==
    /\ pc = "wait"
    /\ \/ ~ kill /\ agent[task] = "exited" /\ UNCHANGED agent
       \/ agent' = [agent EXCEPT ![task] = "exited"]
    /\ Goto("verify")
    /\ UNCHANGED <<backlogVars, mirror, publishVars, gitVars, kill, budgetVars, handled,
                   override, marker, localVars, made, boundVars>>

\* verify: it can only pass with a DONE marker and a commit on the branch; the
\* other gates can always refuse.
VerifyPass ==
    /\ pc = "verify"
    /\ marker[task] = "done" /\ branch[task] > 0
    /\ Goto("publish")
    /\ UNCHANGED <<backlogVars, mirror, publishVars, gitVars, kill, budgetVars, handled,
                   override, agentVars, localVars, made, boundVars>>

VerifyFail ==
    /\ pc = "verify"
    /\ Goto("fail")
    /\ UNCHANGED <<backlogVars, mirror, publishVars, gitVars, kill, budgetVars, handled,
                   override, agentVars, localVars, made, boundVars>>

\* A publication that writes its line only after the push.
FastForwardUnlisted ==
    /\ pc = "publish" /\ Strategy = "ff" /\ forkTip = tip
    /\ clone' = {<<task, branch[task]>>}
    /\ Goto("push")
    /\ UNCHANGED <<backlogVars, mirror, remote, review, published, gitVars, kill, budgetVars,
                   handled, override, agentVars, localVars, made, boundVars>>

\* _publish_via_mirror: the clone's base branch is reset to the remote's tip
\* and, when that is an ancestor of the attempt, moved to the attempt.
FastForward ==
    /\ pc = "publish" /\ Strategy = "ff" /\ forkTip = tip
    /\ clone' = {<<task, branch[task]>>}
    /\ review' = review \cup {<<task, attempt>>}
    /\ Goto("push")
    /\ UNCHANGED <<backlogVars, mirror, remote, published, gitVars, kill, budgetVars, handled,
                   override, agentVars, localVars, made, boundVars>>

FastForwardRefused ==
    /\ pc = "publish" /\ Strategy = "ff"
    /\ \/ forkTip # tip /\ clone' = {}             \* not an ancestor
       \/ RemoteMayFail /\ UNCHANGED clone         \* the fetch failed
    /\ Goto("fail")
    /\ UNCHANGED <<backlogVars, mirror, remote, review, published, gitVars, kill, budgetVars,
                   handled, override, agentVars, localVars, made, boundVars>>

\* A push that overwrites whatever the remote holds.
PushForced ==
    /\ pc = "push"
    /\ base' = Attempted(forkTree, task, branch[task])
    /\ tip' = tip + 1
    /\ published' = published \cup {<<task, branch[task]>>}
    /\ Goto("handled")
    /\ UNCHANGED <<mirror, remote, clone, review, gitVars, kill, budgetVars, handled, override,
                   agentVars, localVars, made, boundVars>>

\* The push of the clone's branch: the remote refuses it when it moved since,
\* and its result is not looked at.
Push ==
    /\ pc = "push"
    /\ \/ /\ forkTip = tip
          /\ base' = Attempted(forkTree, task, branch[task])
          /\ tip' = tip + 1
       \/ /\ forkTip # tip \/ RemoteMayFail
          /\ UNCHANGED backlogVars
    /\ published' = published \cup {<<task, branch[task]>>}
    /\ Goto("handled")
    /\ UNCHANGED <<mirror, remote, clone, review, gitVars, kill, budgetVars, handled, override,
                   agentVars, localVars, made, boundVars>>

\* PullRequestPerTask.publish: push the attempt branch, which the remote
\* refuses when it has that branch already with other commits, ...
PushBranch ==
    /\ pc = "publish" /\ Strategy = "pr"
    /\ \/ /\ remote[task] \in {NoRef, branch[task]}
          /\ remote' = [remote EXCEPT ![task] = branch[task]]
          /\ Goto("gh")
       \/ /\ remote[task] \notin {NoRef, branch[task]} \/ RemoteMayFail
          /\ UNCHANGED remote
          /\ Goto("fail")
    /\ UNCHANGED <<backlogVars, mirror, clone, review, published, gitVars, kill, budgetVars,
                   handled, override, agentVars, localVars, made, boundVars>>

\* A pull request without a line for the morning review.
OpenPullRequestUnlisted ==
    /\ pc = "gh"
    /\ \/ published' = published \cup {<<task, branch[task]>>} /\ Goto("handled")
       \/ RemoteMayFail /\ UNCHANGED published /\ Goto("fail")
    /\ UNCHANGED <<backlogVars, mirror, remote, clone, review, gitVars, kill, budgetVars,
                   handled, override, agentVars, localVars, made, boundVars>>

\* ... then note it in review-queue.md and open the pull request.
OpenPullRequest ==
    /\ pc = "gh"
    /\ review' = review \cup {<<task, attempt>>}
    /\ \/ published' = published \cup {<<task, branch[task]>>} /\ Goto("handled")
       \/ RemoteMayFail /\ UNCHANGED published /\ Goto("fail")
    /\ UNCHANGED <<backlogVars, mirror, remote, clone, gitVars, kill, budgetVars,
                   handled, override, agentVars, localVars, made, boundVars>>

(***************************************************************************)
(* One turn of the loop, from the result to the next turn.                 *)
(***************************************************************************)
\* A published task that is not noted.
MarkNothing ==
    /\ pc = "handled"
    /\ outcome' = "published" /\ fastFails' = 0
    /\ Goto("clear")
    /\ UNCHANGED <<backlogVars, mirror, publishVars, gitVars, kill, budgetVars, handled, override,
                   agentVars, run, task, attempt, forkTip, forkTree, made, boundVars>>

\* A success that leaves the count of fast failures standing.
MarkHandledNoReset ==
    /\ pc = "handled"
    /\ handled' = handled \cup {task}
    /\ outcome' = "published"
    /\ Goto("clear")
    /\ UNCHANGED <<backlogVars, mirror, publishVars, gitVars, kill, budgetVars, override,
                   agentVars, run, task, attempt, forkTip, forkTree, fastFails, made,
                   boundVars>>

\* mark_handled.
MarkHandled ==
    /\ pc = "handled"
    /\ handled' = handled \cup {task}
    /\ outcome' = "published" /\ fastFails' = 0
    /\ Goto("clear")
    /\ UNCHANGED <<backlogVars, mirror, publishVars, gitVars, kill, budgetVars, override,
                   agentVars, run, task, attempt, forkTip, forkTree, made, boundVars>>

\* Three fast failures in a row demote the planner, once.
FastFailLimit == 3

CountFastFail(isFast) ==
    LET inARow == IF isFast THEN fastFails + 1 ELSE 0 IN
    /\ fastFails' = IF inARow >= FastFailLimit THEN 0 ELSE inARow
    /\ override' = (override \/ (inARow >= FastFailLimit /\ HasFallback))

\* The attempt was not published.
Fail ==
    /\ pc = "fail"
    /\ outcome' = IF attempt >= MaxAttempts THEN "blocked" ELSE "failed"
    /\ \E isFast \in {FALSE, FastFail} : CountFastFail(isFast)
    /\ Goto("clear")
    /\ UNCHANGED <<backlogVars, mirror, publishVars, gitVars, kill, budgetVars, handled,
                   agentVars, run, task, attempt, forkTip, forkTree, made, boundVars>>

\* _remove_worktree, at the end of the turn or before the blocked exit.
Clear ==
    /\ pc = "clear"
    /\ RemoveWorktree(task)
    /\ Goto("retire")
    /\ UNCHANGED <<backlogVars, mirror, publishVars, branch, rescue, kill, budgetVars, handled,
                   override, localVars, made, boundVars>>

\* retire_branch and kill_task_processes, and what the loop does next.
Retire ==
    /\ pc = "retire"
    /\ RetireBranch(task, attempt, branch[task] # 0, outcome = "published")
    /\ CASE outcome = "blocked" -> Stop("BLOCKED")
         [] run.once /\ outcome # "blocked" -> Goto("drain")
         [] OTHER -> Goto("pick")
    /\ UNCHANGED <<backlogVars, mirror, publishVars, worktree, kill, budgetVars, handled,
                   override, agentVars, localVars, made, boundVars>>

\* The final next_ready decides between QUEUE_DRAINED and ONCE; both return 0.
Drain ==
    /\ pc = "drain"
    /\ Stop(IF NextReady(mirror, attempts, handled, run.only) = {} THEN "DRAINED" ELSE "ONCE")
    /\ UNCHANGED <<backlogVars, mirror, publishVars, gitVars, kill, budgetVars, handled,
                   override, agentVars, localVars, made, boundVars>>

Driver ==
    \/ ReclaimRemove \/ ReclaimRetire \/ ReclaimDone \/ Boot
    \/ PickCrash \/ PickTask \/ QueueEmpty \/ GuardStop \/ GuardPass
    \/ Refresh \/ Cut \/ AddCrash \/ Add \/ Prepare
    \/ BumpCrash \/ BumpOpen \/ BumpWrite \/ PreflightOffends \/ Discard \/ PreflightPass \/ Launch
    \/ Wait \/ VerifyPass \/ VerifyFail
    \/ FastForward \/ FastForwardRefused \/ Push \/ PushBranch \/ OpenPullRequest
    \/ MarkHandled \/ Fail \/ Clear \/ Retire \/ Drain

(***************************************************************************)
(* The agent in the worktree of t.                                         *)
(***************************************************************************)
AgentCommit(t) ==
    /\ agent[t] = "working" /\ branch[t] = 0
    /\ branch' = [branch EXCEPT ![t] = attempts[t].n]
    /\ made' = made \cup {<<t, attempts[t].n>>}
    /\ UNCHANGED <<backlogVars, mirror, publishVars, worktree, rescue, kill, budgetVars, handled,
                   override, agentVars, pc, localVars, exit, boundVars>>

AgentMarks(t) ==
    /\ agent[t] = "working" /\ marker[t] = "none"
    /\ \E m \in {"done", "bail"} : marker' = [marker EXCEPT ![t] = m]
    /\ UNCHANGED <<backlogVars, mirror, publishVars, gitVars, kill, budgetVars, handled,
                   override, agent, pc, localVars, exit, made, boundVars>>

AgentExits(t) ==
    /\ agent[t] = "working"
    /\ agent' = [agent EXCEPT ![t] = "exited"]
    /\ UNCHANGED <<backlogVars, mirror, publishVars, gitVars, kill, budgetVars, handled,
                   override, marker, pc, localVars, exit, made, boundVars>>

(***************************************************************************)
(* `burn kill`, crashes of the driver, and humans.                         *)
(***************************************************************************)
\* cmd_kill writes the sentinel first, ...
KillSentinel ==
    /\ kills < MaxKills
    /\ kills' = kills + 1
    /\ kill' = TRUE
    /\ victims' = {"agents", "driver"}
    /\ UNCHANGED <<backlogVars, mirror, publishVars, gitVars, budgetVars, handled, override,
                   agentVars, pc, localVars, exit, made, deaths, edits>>

\* ... then kill_all goes through the pidfiles, the order of which is that of
\* their names.
KillAgents ==
    /\ "agents" \in victims
    /\ victims' = victims \ {"agents"}
    /\ agent' = [t \in Task |-> IF agent[t] = "working" THEN "exited" ELSE agent[t]]
    /\ UNCHANGED <<backlogVars, mirror, publishVars, gitVars, kill, budgetVars, handled,
                   override, marker, pc, localVars, exit, made, deaths, kills, edits>>

KillDriver ==
    /\ "driver" \in victims /\ pc \in DeathPoints \cup {"idle"}
    /\ victims' = victims \ {"driver"}
    /\ IF pc = "idle" THEN UNCHANGED <<pc, exit>> ELSE Stop("CRASH")
    /\ UNCHANGED <<backlogVars, mirror, publishVars, gitVars, kill, budgetVars, handled,
                   override, agentVars, localVars, made, deaths, kills, edits>>

\* The driver dies: a crash of the process or of the machine, an exception out
\* of a call that is not modelled (a fetch that fails, a git or gh timeout).
Die ==
    /\ pc \in DeathPoints /\ deaths < MaxDeaths
    /\ deaths' = deaths + 1
    /\ Stop("CRASH")
    /\ UNCHANGED <<backlogVars, mirror, publishVars, gitVars, kill, budgetVars, handled,
                   override, agentVars, localVars, made, victims, kills, edits>>

\* `burn status`, run beside the driver: ensure_mirror moves the mirror that the
\* driver reads.
Status ==
    /\ mirror' = base
    /\ UNCHANGED <<backlogVars, publishVars, gitVars, kill, budgetVars, handled, override,
                   agentVars, pc, localVars, exit, made, boundVars>>

\* A human edits a task on the base branch.
Edit(t, what) ==
    /\ edits < MaxEdits
    /\ edits' = edits + 1
    /\ base[t].where = "live"
    /\ base' = [base EXCEPT ![t] = EditedAs(what, @)]
    /\ tip' = tip + 1
    /\ UNCHANGED <<mirror, publishVars, gitVars, kill, budgetVars, handled, override, agentVars,
                   pc, localVars, exit, made, victims, deaths, kills>>

Environment ==
    \/ \E t \in Task : AgentCommit(t) \/ AgentMarks(t) \/ AgentExits(t)
    \/ KillSentinel \/ KillAgents \/ KillDriver \/ Die \/ Status
    \/ \E t \in Task, what \in Edits : Edit(t, what)

Next ==
    \/ \E r \in Runs : StartRun(r) \/ StartResume(r)
    \/ Driver
    \/ Environment

Spec == Init /\ [][Next]_vars

(***************************************************************************)
(* Fairness.  A driver that can take a step takes one: its waits are       *)
(* bounded by task_timeout_s and its git calls by their own timeouts.  A   *)
(* supervisor starts it again when it has stopped.  Nothing is assumed of  *)
(* agents, humans or the kill command.                                     *)
(***************************************************************************)
Supervised == \E r \in Runs : StartRun(r) \/ StartResume(r)

FairSpec == Spec /\ WF_vars(Driver) /\ WF_vars(Supervised)

(***************************************************************************)
(* Safety.                                                                 *)
(***************************************************************************)
\* "A failed attempt can still have produced real, committed work": whatever
\* the death, the kill or the failure, a commit of an agent stays on its attempt
\* branch or on a rescue ref until publish() has reported it published.
WorkPreserved ==
    \A w \in made : \/ branch[w[1]] = w[2]
                    \/ \E r \in rescue : r[1] = w[1] /\ r[3] = w[2]
                    \/ w \in published

\* rescue/<task>.a<n> holds the commits of attempt n and of no other, whether
\* the loop tail or a later resume made it.
RescueNamed == \A r \in rescue : r[2] = r[3]

\* However often the driver is restarted, no revision of a task is attempted
\* more than max_attempts times, although the count is never reset and the
\* budget is read from a mirror that may be behind the definition attempted.
BudgetRespected == \A t \in Task : streak[t].n <= MaxAttempts

\* A task is worked only when every dependency of it is Done on the base branch
\* itself, although readiness is decided on a mirror that may be stale and is
\* not decided again after the refresh.
DepsFirst ==
    \A w \in made : \A d \in Deps[w[1]] : d \in Task /\ base[d].status = "Done"

\* Work of t that the base branch contains, or that a pull request offers.
Landed(t) == \/ base[t].work # {}
             \/ Strategy = "pr" /\ \E w \in published : w[1] = t

\* An agent is never launched on a task whose work has landed: for "ff" because
\* the base branch says Done, for "pr" because of handled.txt.
LandedNotRedone == pc = "launch" => ~ Landed(task)

\* Publishing never undoes what humans pushed to the base branch between the
\* cut of the attempt and the push.
HumanEditsKept ==
    [][\A t \in Task : /\ base[t].rev <= base'[t].rev
                       /\ base[t].where # "live" => base'[t].where = base[t].where]_vars

\* A run started by resume never finds the branch of the task it cuts taken.
ResumedCutSucceeds == pc = "add" /\ run.resumed => branch[task] = NoRef

\* Exit code 0 of a run without --task: nothing on the base branch is ready.
DrainedMeansNothingReady ==
    exit = "DRAINED" /\ run.only = NoTask => Ready(base, attempts, handled) = {}

\* A task is given up (exit code 4) only after max_attempts attempts on the
\* definition it has.
RevisedTaskFreshBudget == exit = "BLOCKED" => streak[task].n >= MaxAttempts

\* "Each attempt is recorded against a fingerprint of the task file it ran on":
\* the fingerprint read from the mirror is that of the worktree.
RecordedAsRun == pc = "launch" => attempts[task].fp = forkTree[task].rev

\* What publish() reported published is reachable: on the remote, or on the
\* branch of the publish clone.
PublishedReachable ==
    \A w \in published : \/ w[2] \in base[w[1]].work
                         \/ remote[w[1]] = w[2]
                         \/ w \in clone

\* While no driver runs, the next one can read what attempts were spent.
LedgerReadable == pc = "idle" => ledger = "ok"

\* The push of a retry is one the remote can accept.
RetryCanPush ==
    pc = "publish" /\ Strategy = "pr" => remote[task] \in {NoRef, branch[task]}

\* "Mark a phase parent Done once every one of its leaves is": with close-out on
\* and nobody else editing, a phase parent is Done on the base branch exactly
\* when its children by parent_task_id all are.
PhasesClosedOut ==
    CloseOut /\ edits = 0 =>
        \A p \in {Parent[t] : t \in Task} \ {NoTask} :
            base[p].status = "Done"
              <=> \A t \in Task : Parent[t] = p => base[t].status = "Done"

\* With max_attempts of one or two a task gives one fast failure to a run that goes
\* on, so three in a row take a second one that was tried once, is unpublished and
\* has its turn still to come: "three consecutive fast failures = provider trouble,
\* not task trouble".
DemotionTakesTwoTasks ==
    [][MaxAttempts <= 2 /\ ~ override /\ override'
         => \E t \in Task \ (handled \cup {task}) : attempts[t].n = 1]_vars

(***************************************************************************)
(* Liveness.                                                               *)
(***************************************************************************)
\* Every run ends: the loop cannot hand tasks out forever, and no agent that
\* never prints its exit marker can hold it up.
RunTerminates == pc # "idle" ~> pc = "idle"

\* With a supervisor and no interference, the backlog is eventually worked off:
\* every task that can be worked has been published or has used up its budget.
BacklogWorkedOff == <>[](Ready(base, attempts, handled) = {})
=============================================================================
