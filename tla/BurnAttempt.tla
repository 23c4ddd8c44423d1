----------------------------- MODULE BurnAttempt -----------------------------
(***************************************************************************)
(* The processes behind the attempts: how the driver launches an agent,    *)
(* waits for it, kills it and judges what it left (proc.py, gates.py,      *)
(* prompt.py, dshlog.py, the shell wrappers of backend.py), with `burn     *)
(* kill` at work beside it and drivers that die and are started again.     *)
(*                                                                         *)
(* An agent is a process group: a bash that writes its pid, then runs the  *)
(* agent piped through tee into the attempt's log, then appends the exit   *)
(* marker.  Launches are numbered, and the number stands for the pid.      *)
(*   starting : spawned, nothing written yet                               *)
(*   recorded : its pid is in pids/<task>                                  *)
(*   running  : tee has opened, and truncated, the log                     *)
(*   defiant  : its bash took a SIGTERM that the agent ignored             *)
(*   leftover : its bash ended, and something it started lives on          *)
(*   dead     : nobody of the group is left                                *)
(* Pids are not used twice, and agents are direct children of the driver   *)
(* (a herdr pane would be closed in addition).  verify() reads the log and *)
(* counts the commits, two adjacent calls, in one step; the rest of it is  *)
(* another.  Git, the queue and the publication are in BurnDriver: a turn  *)
(* ends here with its verdict.                                             *)
(***************************************************************************)
EXTENDS BurnGates, BurnTranscript

CONSTANTS
    Queue,        \* the tasks that may be handed out at each turn, a sequence
    Calls,        \* the signatures of tool calls
    MaxLaunches, MaxDeaths, MaxKills,
    MaxEvents     \* bounds, the last for all that is printed, called, ended or killed

ASSUME BoundsAssumption ==
    /\ {MaxDeaths, MaxKills, MaxEvents} \subseteq Nat
    /\ MaxLaunches \in Nat \ {0}
ASSUME TaskAssumption == Task \subseteq Nat \ {0} /\ Queue \in [1 .. MaxLaunches -> SUBSET Task]

Launches == 1 .. MaxLaunches
Attempts == 1 .. MaxLaunches + MaxDeaths + MaxKills   \* some die before the launch
Nobody == 0
NoTask == 0
OwnPid == 0      \* pids/driver among the pidfiles
Logs == [by   : SUBSET Launches,            \* who wrote to it since it was opened
         said : SUBSET Markers,
         tail : {"open", "quoted", "exit"}] \* an exit marker near its end, whose
NoLog == [by |-> {}, said |-> {}, tail |-> "open"]
NoWork == [diff |-> {}, book |-> "open"]

VARIABLES
    \* The driver: its place and the locals of a turn - the log's signature before
    \* the launch, how the wait ended, the group its kill is at; what verify read
    \* in the log, found in the worktree and measured; whether `backlog task edit`
    \* worked.  Then pids/driver.
    pc, task, attempt, baseline, ended, target, text, work, edited, report, verdict,
    driverFile,
    \* The sentinel, and `burn kill`: its place, the pidfiles it has still to
    \* visit, the group it is at.
    kill, killer, todo, hit,
    \* attempts.json, pids/<task>, the logs, and the worktrees that are there.
    count, pidfile, log, cut,
    \* Per launch: its task, its attempt, the state of its group.  Who committed in
    \* the worktree of each task.  The session transcript of each launch, those that
    \* can be read, and the pairs of them where the first was written later.
    launches, taskOf, number, proc, author, calls, readable, newer,
    \* History: live launches whose driver died in their turn, launches that lived
    \* on after their turn, and live launches that a kill could not see.
    widowed, strays, missed, deaths, kills

turnVars   == <<task, attempt, baseline, ended, target, text, work, edited, report, verdict>>
killVars   == <<kill, killer, todo, hit>>
fileVars   == <<count, pidfile, log, cut>>
launchVars == <<launches, taskOf, number>>
agentVars  == <<author, calls, readable, newer>>
vars == <<pc, turnVars, driverFile, killVars, fileVars, launchVars, proc, agentVars,
          widowed, strays, missed, deaths, kills>>

Points == {"down", "guard", "launch", "wait", "kill", "grace", "unlink", "verify", "judge",
           "clear"}
Turn == Points \ {"down", "guard", "launch"}
States == {"unborn", "starting", "recorded", "running", "defiant", "leftover", "dead"}

TypeOK ==
    /\ pc \in Points /\ task \in Task \cup {NoTask} /\ (pc \in Turn => task \in Task)
    /\ attempt \in Attempts \cup {0} /\ baseline \in Logs
    /\ ended \in {"no", "finished", "killed", "stalled", "timeout"}
    /\ target \in Launches \cup {Nobody} /\ text \in Logs
    /\ work \in Work \cup {NoWork} /\ edited \in BOOLEAN
    /\ report \in Reports /\ verdict \in {"none"} \cup Verdicts
    /\ driverFile \in BOOLEAN
    /\ kill \in BOOLEAN /\ killer \in {"none", "list", "visit", "grace"}
    /\ todo \subseteq Task \cup {OwnPid} /\ hit \in Launches \cup {Nobody}
    /\ count \in [Task -> Attempts \cup {0}]
    /\ pidfile \in [Task -> Launches \cup {Nobody}]
    /\ log \in [Task \X Attempts -> Logs]
    /\ cut \in [Task -> BOOLEAN]
    /\ launches \in 0 .. MaxLaunches
    /\ taskOf \in [Launches -> Task \cup {NoTask}]
    /\ number \in [Launches -> Attempts \cup {0}]
    /\ proc \in [Launches -> States]
    /\ \A p \in Launches : IF p > launches THEN proc[p] = "unborn"
                                           ELSE <<taskOf[p], number[p]>> \in DOMAIN log
    /\ author \in [Task -> Launches \cup {Nobody}]
    /\ calls \in [Launches -> Seq(Calls)]
    /\ readable \subseteq Launches /\ newer \subseteq Launches \X Launches
    /\ widowed \subseteq Launches /\ strays \subseteq Launches /\ missed \subseteq Launches
    /\ deaths \in 0 .. MaxDeaths /\ kills \in 0 .. MaxKills

Init ==
    /\ pc = "down" /\ task = NoTask /\ attempt = 0 /\ baseline = NoLog /\ ended = "no"
    /\ target = Nobody /\ text = NoLog /\ work = NoWork /\ edited = TRUE
    /\ report = NoReport /\ verdict = "none" /\ driverFile = FALSE
    /\ kill = FALSE /\ killer = "none" /\ todo = {} /\ hit = Nobody
    /\ count = [t \in Task |-> 0] /\ pidfile = [t \in Task |-> Nobody]
    /\ log = [l \in Task \X Attempts |-> NoLog] /\ cut = [t \in Task |-> FALSE]
    /\ launches = 0 /\ taskOf = [p \in Launches |-> NoTask] /\ number = [p \in Launches |-> 0]
    /\ proc = [p \in Launches |-> "unborn"] /\ author = [t \in Task |-> Nobody]
    /\ calls = [p \in Launches |-> <<>>] /\ readable = {} /\ newer = {}
    /\ widowed = {} /\ strays = {} /\ missed = {} /\ deaths = 0 /\ kills = 0

(***************************************************************************)
(* Processes and signals.                                                  *)
(***************************************************************************)
\* The group still holds the agent the turn is about.
Alive(p) == proc[p] \in {"starting", "recorded", "running", "defiant"}

LogOf(p) == <<taskOf[p], number[p]>>

\* getpgid finds the bash of the group: it lives, or is a zombie because the driver
\* has started no process that would have made it reap its children.
Found(p) ==
    /\ p # Nobody
    /\ \/ proc[p] \in {"recorded", "running"}
       \/ /\ proc[p] \in {"defiant", "leftover"}
          /\ p = launches /\ pc \in {"wait", "grace", "unlink"}

\* SIGTERM to the group of p: all of it dies, or all but one that ignores it.
Terminate(p) ==
    \/ proc' = [proc EXCEPT ![p] = "dead"]
    \/ proc[p] = "running" /\ proc' = [proc EXCEPT ![p] = "defiant"]
    \/ proc[p] \in {"defiant", "leftover"} /\ UNCHANGED proc

\* A kill that goes no further than SIGTERM.
FinishOffNot(p) == UNCHANGED proc

\* After the grace period, SIGKILL to what is left of the group.
FinishOff(p) == proc' = [proc EXCEPT ![p] = "dead"]

\* What has happened that the bound counts.
Events ==
    deaths + kills + Cardinality({lm \in (DOMAIN log) \X Markers : lm[2] \in log[lm[1]].said})
      + Cardinality({l \in DOMAIN log : log[l].tail = "quoted"})
      + Cardinality(UNION {{p} \X DOMAIN calls[p] : p \in Launches})

(***************************************************************************)
(* The driver.                                                             *)
(***************************************************************************)
\* How the wait ended and what verify() found are forgotten with the turn, ...
NoVerdict ==
    /\ ended' = "no" /\ text' = NoLog /\ work' = NoWork /\ edited' = TRUE
    /\ report' = NoReport /\ verdict' = "none"

\* ... and so are its other locals.
NoTurn ==
    /\ task' = NoTask /\ attempt' = 0 /\ baseline' = NoLog /\ target' = Nobody
    /\ NoVerdict

\* `burn run` and `burn resume`: pids/driver is written; resume removes the
\* sentinel and the worktrees.
Start(resumed) ==
    /\ pc = "down" /\ launches < MaxLaunches /\ pc' = "guard"
    /\ driverFile' = TRUE
    /\ IF resumed
         THEN kill' = FALSE /\ cut' = [t \in Task |-> FALSE]
              /\ author' = [t \in Task |-> Nobody]
         ELSE UNCHANGED <<kill, cut, author>>
    /\ UNCHANGED <<turnVars, killer, todo, hit, count, pidfile, log, launchVars, proc, calls,
                   readable, newer, deaths, kills>>

\* The worktree of t, its attempt, and the signature of whatever is at the path
\* of its log.
CutFor(t) ==
    /\ pc = "guard" /\ pc' = "launch" /\ launches < MaxLaunches /\ t \in Queue[launches + 1]
    /\ task' = t /\ attempt' = count[t] + 1 /\ count' = [count EXCEPT ![t] = @ + 1]
    /\ cut' = [cut EXCEPT ![t] = TRUE]
    /\ author' = [author EXCEPT ![t] = Nobody]
    /\ baseline' = log[<<t, count[t] + 1>>]
    /\ UNCHANGED <<ended, target, text, work, edited, report, verdict, driverFile, killVars,
                   pidfile, log, launchVars, proc, calls, readable, newer, deaths, kills>>

\* A loop that does not look at the sentinel.
CutUnguarded(t) == CutFor(t)

\* The turn of a task begins, when there is no sentinel.
Cut(t) == ~ kill /\ CutFor(t)

\* The sentinel is there, or the queue is empty.
Leave ==
    /\ pc = "guard" /\ pc' = "down"
    /\ UNCHANGED <<turnVars, driverFile, killVars, fileVars, launchVars, proc, agentVars, deaths,
                   kills>>

\* A wrapper that is not told its attempt.
LaunchUnnumbered ==
    /\ pc = "launch" /\ pc' = "wait"
    /\ launches' = launches + 1
    /\ taskOf' = [taskOf EXCEPT ![launches'] = task]
    /\ proc' = [proc EXCEPT ![launches'] = "starting"]
    /\ UNCHANGED <<turnVars, driverFile, killVars, fileVars, number, agentVars, deaths, kills>>

\* launch returns as soon as the bash is spawned.
Launch ==
    /\ pc = "launch" /\ pc' = "wait"
    /\ launches' = launches + 1
    /\ taskOf' = [taskOf EXCEPT ![launches'] = task]
    /\ number' = [number EXCEPT ![launches'] = attempt]
    /\ proc' = [proc EXCEPT ![launches'] = "starting"]
    /\ UNCHANGED <<turnVars, driverFile, killVars, fileVars, agentVars, deaths, kills>>

\* The log ends with an exit marker, ...
HasExitedAnyLog == log[<<task, attempt>>].tail \in {"quoted", "exit"}

\* ... and has changed since the launch.
HasExited == log[<<task, attempt>>] # baseline /\ HasExitedAnyLog

\* The backend's stall_check, with the time of this launch.
Stalled ==
    \E s \in FindSession(newer, {p \in Launches : taskOf[p] = task}, readable, launches) :
        Stuck(calls[s])

WaitEnds(how, next) ==
    /\ pc' = next /\ ended' = how /\ baseline' = NoLog
    /\ UNCHANGED <<task, attempt, target, text, work, edited, report, verdict, driverFile,
                   killVars, fileVars, launchVars, proc, agentVars, deaths, kills>>

\* wait_for_exit.  A bash is up long before task_timeout_s is over.
Wait ==
    /\ pc = "wait"
    /\ \/ kill /\ WaitEnds("killed", "kill")
       \/ ~ kill /\ HasExited /\ WaitEnds("finished", "verify")
       \/ ~ kill /\ ~ HasExited /\ Stalled /\ WaitEnds("stalled", "kill")
       \/ /\ ~ kill /\ ~ HasExited /\ ~ Stalled /\ proc[launches] # "starting"
          /\ WaitEnds("timeout", "kill")

\* kill_task_processes, before the verdict when the wait was cut short and at
\* the end of every turn: the pid in the pidfile is read and signalled, ...
KillRead ==
    /\ pc = "kill"
    /\ target' = pidfile[task]
    /\ IF Found(pidfile[task])
         THEN pc' = "grace" /\ Terminate(pidfile[task])
         ELSE pc' = "unlink" /\ UNCHANGED proc
    /\ UNCHANGED <<task, attempt, baseline, ended, text, work, edited, report, verdict, driverFile,
                   killVars, fileVars, launchVars, agentVars, deaths, kills>>

\* ... what ignored the signal is killed, ...
KillGrace ==
    /\ pc = "grace" /\ pc' = "unlink"
    /\ FinishOff(target)
    /\ UNCHANGED <<turnVars, driverFile, killVars, fileVars, launchVars, agentVars, deaths, kills>>

\* ... and the pidfile goes, whatever it holds by now.  Without a worktree the turn
\* is over.
KillUnlink ==
    /\ pc = "unlink"
    /\ pidfile' = IF target = Nobody THEN pidfile ELSE [pidfile EXCEPT ![task] = Nobody]
    /\ IF ~ cut[task]
         THEN pc' = "guard" /\ NoTurn
         ELSE pc' = "verify" /\ target' = Nobody
              /\ UNCHANGED <<task, attempt, baseline, ended, text, work, edited, report, verdict>>
    /\ UNCHANGED <<driverFile, killVars, count, log, cut, launchVars, proc, agentVars, deaths,
                   kills>>

\* verify, up to a first refusal.
Examine(enough) ==
    /\ pc = "verify"
    /\ text' = log[<<task, attempt>>]
    /\ IF enough
         THEN pc' = "judge" /\ UNCHANGED verdict
         ELSE pc' = "clear" /\ verdict' = "refused"
    /\ UNCHANGED <<task, attempt, baseline, ended, target, work, edited, report, driverFile,
                   killVars, fileVars, launchVars, proc, agentVars, deaths, kills>>

\* A verify() that does not count the commits.
EvidenceOfMarker == Examine(ParseMarker(log[<<task, attempt>>].said, task) = "done")

\* The marker in the log, and at least one commit in the worktree.
Evidence ==
    Examine(/\ ParseMarker(log[<<task, attempt>>].said, task) = "done"
            /\ author[task] # Nobody)

\* The criteria, ensure_done, and the gates for a change of code.
JudgeWork ==
    /\ pc = "judge" /\ pc' = "clear"
    /\ \E w \in Work :
          IF CriteriaChecked(w)
            THEN \E works \in BOOLEAN, ran \in [GateNames -> GateRuns] :
                    /\ edited' = (w.book = "ticked" => works)
                    /\ work' = EnsureDone(w, works)
                    /\ report' = GatesRun(work', ran)
                    /\ verdict' = Judge(work', report')
            ELSE verdict' = "refused" /\ UNCHANGED <<work, edited, report>>
    /\ UNCHANGED <<task, attempt, baseline, ended, target, text, driverFile, killVars, fileVars,
                   launchVars, proc, agentVars, deaths, kills>>

\* The turn ends: the worktree is removed, then kill_task_processes again.
Clear ==
    /\ pc = "clear" /\ pc' = "kill"
    /\ cut' = [cut EXCEPT ![task] = FALSE] /\ author' = [author EXCEPT ![task] = Nobody]
    /\ NoVerdict
    /\ UNCHANGED <<task, attempt, baseline, target, driverFile, killVars, count, pidfile, log,
                   launchVars, proc, calls, readable, newer, deaths, kills>>

Driver ==
    \/ (\E t \in Task : Cut(t)) \/ Leave \/ Launch \/ Wait \/ KillRead \/ KillGrace \/ KillUnlink
    \/ Evidence \/ JudgeWork \/ Clear

\* The process of the driver ends, in the middle of a turn or between two.
DriverGone == pc' = "down" /\ NoTurn

Die ==
    /\ pc # "down" /\ deaths < MaxDeaths /\ Events < MaxEvents
    /\ deaths' = deaths + 1
    /\ DriverGone
    /\ UNCHANGED <<driverFile, killVars, fileVars, launchVars, proc, agentVars, kills>>

\* With no driver, a human removes an attempts.json that cannot be read: attempts
\* are numbered from one again, and the logs are still there.
ForgetAttempts ==
    /\ pc = "down" /\ deaths > 0
    /\ count' = [t \in Task |-> 0]
    /\ UNCHANGED <<pc, turnVars, driverFile, killVars, pidfile, log, cut, launchVars, proc,
                   agentVars, deaths, kills>>

(***************************************************************************)
(* `burn kill`.                                                            *)
(***************************************************************************)
KillSentinel ==
    /\ killer = "none" /\ kills < MaxKills /\ Events < MaxEvents
    /\ launches < MaxLaunches \/ \E p \in Launches : proc[p] # "dead"
    /\ kills' = kills + 1
    /\ kill' = TRUE /\ killer' = "list"
    /\ UNCHANGED <<pc, turnVars, driverFile, todo, hit, fileVars, launchVars, proc, agentVars,
                   deaths>>

\* kill_all is done when no pidfile is left to visit.
NextVisit == killer' = IF todo' = {} THEN "none" ELSE "visit"

\* It reads the directory once, ...
KillList ==
    /\ killer = "list"
    /\ todo' = {t \in Task : pidfile[t] # Nobody} \cup (IF driverFile THEN {OwnPid} ELSE {})
    /\ NextVisit
    /\ UNCHANGED <<pc, turnVars, driverFile, kill, hit, fileVars, launchVars, proc, agentVars,
                   deaths, kills>>

\* ... and goes through it by name; where "driver" comes among the names depends
\* on the spelling of the task ids, so the order is left open.
VisitDriver ==
    /\ killer = "visit" /\ OwnPid \in todo
    /\ todo' = todo \ {OwnPid} /\ NextVisit
    /\ DriverGone
    /\ UNCHANGED <<driverFile, kill, hit, fileVars, launchVars, proc, agentVars, deaths,
                   kills>>

VisitTask(t) ==
    /\ killer = "visit" /\ t \in todo
    /\ todo' = todo \ {t}
    /\ IF Found(pidfile[t])
         THEN killer' = "grace" /\ hit' = pidfile[t] /\ Terminate(pidfile[t])
         ELSE NextVisit /\ UNCHANGED <<hit, proc>>
    /\ UNCHANGED <<pc, turnVars, driverFile, kill, fileVars, launchVars, agentVars, deaths, kills>>

VisitGrace ==
    /\ killer = "grace" /\ todo' = todo /\ NextVisit
    /\ FinishOff(hit) /\ hit' = Nobody
    /\ UNCHANGED <<pc, turnVars, driverFile, kill, fileVars, launchVars, agentVars, deaths,
                   kills>>

BurnKill ==
    \/ KillSentinel \/ KillList \/ VisitDriver \/ (\E t \in Task : VisitTask(t))
    \/ VisitGrace

(***************************************************************************)
(* The group of launch p.                                                  *)
(***************************************************************************)
RecordPid(p) ==
    /\ proc[p] = "starting"
    /\ proc' = [proc EXCEPT ![p] = "recorded"]
    /\ pidfile' = [pidfile EXCEPT ![taskOf[p]] = p]
    /\ UNCHANGED <<pc, turnVars, driverFile, killVars, count, log, cut, launchVars, agentVars,
                   deaths, kills>>

OpenLog(p) ==
    /\ proc[p] = "recorded"
    /\ proc' = [proc EXCEPT ![p] = "running"]
    /\ log' = [log EXCEPT ![LogOf(p)] = [NoLog EXCEPT !.by = {p}]]
    /\ UNCHANGED <<pc, turnVars, driverFile, killVars, count, pidfile, cut, launchVars, agentVars,
                   deaths, kills>>

\* Something is written to the log of p.
Printed(p, markers, tail) ==
    /\ log' = [log EXCEPT ![LogOf(p)] =
                  [by |-> @.by \cup {p}, said |-> @.said \cup markers, tail |-> tail]]
    /\ UNCHANGED <<pc, turnVars, driverFile, killVars, count, pidfile, cut, launchVars, agentVars,
                   deaths, kills>>

\* The agent prints a marker, its own or one it quotes, of a task or of an exit.
Say(p) ==
    /\ proc[p] = "running" /\ UNCHANGED proc
    /\ \/ Printed(p, {}, "quoted")
       \/ \E marker \in Markers : marker \notin log[LogOf(p)].said /\ Printed(p, {marker}, "open")
    /\ Events' <= MaxEvents

\* The agent ends and the bash appends the exit marker; what the agent left in the
\* background stays.
Exit(p) ==
    /\ proc[p] = "running"
    /\ Printed(p, {}, "exit")
    /\ \E left \in {"dead", "leftover"} : proc' = [proc EXCEPT ![p] = left]

\* A process of the group that runs what the agent started, or the agent itself.
Active(p) == proc[p] \in {"running", "defiant", "leftover"}

\* A commit in the worktree that is at the task's path: by now that may be the
\* worktree of a later attempt.
Commit(p) ==
    /\ Active(p)
    /\ cut[taskOf[p]] /\ author[taskOf[p]] = Nobody
    /\ author' = [author EXCEPT ![taskOf[p]] = p]
    /\ UNCHANGED <<pc, turnVars, driverFile, killVars, fileVars, launchVars, proc, calls, readable,
                   newer, deaths, kills>>

\* A tool call, appended to the session log; the first one may be read before the
\* head of the log is whole.
Call(p, call) ==
    /\ proc[p] \in {"running", "defiant"}
    /\ Events < MaxEvents
    /\ calls' = [calls EXCEPT ![p] = Append(@, call)]
    /\ newer' = {pair \in newer : pair[2] # p}
                  \cup {<<p, q>> : q \in {r \in Launches \ {p} : calls[r] # <<>>}}
    /\ readable' \in {readable \cup {p}} \cup (IF calls[p] = <<>> THEN {readable} ELSE {})
    /\ UNCHANGED <<pc, turnVars, driverFile, killVars, fileVars, launchVars, proc, author, deaths,
                   kills>>

\* What is left of a group without its bash ends.
Vanish(p) ==
    /\ proc[p] \in {"defiant", "leftover"}
    /\ proc' = [proc EXCEPT ![p] = "dead"]
    /\ UNCHANGED <<pc, turnVars, driverFile, killVars, fileVars, launchVars, agentVars, deaths,
                   kills>>

Agent(p) ==
    \/ RecordPid(p) \/ OpenLog(p) \/ Say(p) \/ Exit(p) \/ Commit(p) \/ Vanish(p)
    \/ \E call \in Calls : Call(p, call)

Step ==
    \/ (\E resumed \in BOOLEAN : Start(resumed)) \/ Driver \/ Die \/ ForgetAttempts \/ BurnKill
    \/ \E p \in Launches : Agent(p)

(***************************************************************************)
(* History.                                                                *)
(***************************************************************************)
\* Driving(p): the driver is in the turn of launch p.
Driving(p) == p = launches /\ pc \in Turn

\* A kill is at work, the driver's own or `burn kill`.
Killing == killer # "none" \/ pc \in {"kill", "grace", "unlink"}

Unnamed == {p \in Launches : Alive(p) /\ pidfile[taskOf[p]] # p}

\* A kill misses a launch that no pidfile names while it is at work (but not because
\* it has removed the pidfile itself), and the one it has signalled when its driver
\* dies before the grace period is over.
History ==
    /\ widowed' = {p \in Launches : /\ Alive(p)'
                                    /\ p \in widowed \/ (Driving(p) /\ pc' = "down")}
    /\ strays' = strays \cup {p \in Launches : proc'[p] \notin {"unborn", "dead"} /\ ~ Driving(p)'}
    /\ missed' = {p \in Launches : /\ Alive(p)'
                                   /\ \/ p \in missed
                                      \/ (Killing \/ Killing') /\ p \in Unnamed' /\ p # target
                                      \/ pc = "grace" /\ pc' = "down" /\ p = target}

Next == Step /\ History

Spec == Init /\ [][Next]_vars

(***************************************************************************)
(* Safety.                                                                 *)
(***************************************************************************)
Passed == verdict \in {"attested", "measured"}

\* A pass rests on this attempt's own agent, by its log and by its commit, unless
\* one that outlived an earlier turn had a hand in it: although logs are reused
\* when attempts are counted from one again, and markers of others are quoted.
PassIsEarned ==
    Passed => /\ <<"done", task>> \in text.said /\ <<"bail", task>> \notin text.said
              /\ author[task] # Nobody
              /\ \/ text.by = {launches} /\ author[task] = launches
                 \/ (text.by \cup {author[task]}) \cap strays # {}

\* Only evidence burnkit measured itself earns "measured": code (or anything, where
\* every path counts as code) within its scope, no gate that failed, and one with an
\* output that shows it checked something.
MeasuredIsEvidence ==
    verdict = "measured" =>
        /\ work.diff \cap CodeKinds # {} \/ TaskFile \in CodeKinds
        /\ work.diff \subseteq Allowed
        /\ \A i \in DOMAIN report : report[i].ok
        /\ \E i \in DOMAIN report : ~ report[i].empty

\* What passed is Done in what is published, unless `backlog task edit` failed or
\* the agent had set the status itself and left it uncommitted.
PassIsDone == Passed /\ edited /\ work.book # "dirty" => work.book = "committed"

\* wait_for_exit takes nothing for the end of this attempt that an earlier one left
\* at the path of the log, unless an agent that lives on writes there.
FinishedIsOwn ==
    ended = "finished" => LET by == log[<<task, attempt>>].by
                          IN  by = {launches} \/ by \cap strays # {}

\* An agent is stopped for want of progress only because of its own calls.
StalledIsOwn ==
    [][ended # "stalled" /\ ended' = "stalled" => Stuck(calls[launches])]_vars

\* An agent outlives its turn only when its driver died in that turn, or when a
\* kill could not see it, or for the seconds in which `burn kill` waits for it.
NoStrayAgents ==
    \A p \in Launches : Alive(p) => Driving(p) \/ p = hit \/ p \in widowed \cup missed

\* Once `burn kill` is through, the agents that still live are those it could not
\* see.
KillReaches == kill /\ killer = "none" => \A p \in Launches : Alive(p) => p \in missed

\* Once `burn kill` is through, nothing is launched until a resume.
KillHolds == [][kill /\ killer = "none" /\ kill' => launches' = launches]_vars
=============================================================================
