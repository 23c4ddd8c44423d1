-------------------------- MODULE BurnAttemptProofs --------------------------
(***************************************************************************)
(* Theorems about BurnAttempt, for any tasks, gates, launches, deaths and  *)
(* kills: one inductive invariant in named parts, frame lemmas that say    *)
(* who may write what, then the properties.                                *)
(***************************************************************************)
EXTENDS BurnAttempt, TLAPS

USE DEF turnVars, killVars, fileVars, launchVars, agentVars

(***************************************************************************)
(* The inductive invariant.                                                *)
(***************************************************************************)
\* What the driver's place says of the locals of the turn, and of the launch the
\* turn is about.
PlaceInv ==
    /\ pc # "down" => driverFile
    /\ pc = "launch" => task \in Task /\ attempt \in Attempts /\ launches < MaxLaunches
    /\ pc \in Turn => launches \in Launches /\ LogOf(launches) = <<task, attempt>>
    /\ pc \in {"down", "guard", "launch", "wait"} => ended = "no"
    /\ verdict # "none" => pc = "clear"
    /\ pc \notin {"grace", "unlink"} => target = Nobody
    /\ pc = "grace" => target # Nobody

\* What the place of `burn kill` says of its locals.
KillerInv ==
    /\ killer \in {"none", "list"} => todo = {}
    /\ killer # "grace" => hit = Nobody
    /\ killer = "grace" => hit # Nobody

\* Every attempt that was counted was launched, or cost the driver its life; a kill
\* in hand has one to spare.
Pending == IF killer = "list" \/ OwnPid \in todo THEN 1 ELSE 0
Cutting == IF pc = "launch" THEN 1 ELSE 0
CountInv == \A t \in Task : count[t] + Pending <= launches + deaths + kills + Cutting

\* The pids that were written down, or read, are those of launches that had written
\* them.
Born(p) == proc[p] \notin {"unborn", "starting"}
PidInv ==
    /\ \A t \in Task : pidfile[t] # Nobody => Born(pidfile[t]) /\ taskOf[pidfile[t]] = t
    /\ \A p \in {target, hit} \ {Nobody} : Born(p)

\* The launches that have written, committed, called or lived on.
SourceInv ==
    /\ \A p \in strays \cup readable : p <= launches
    /\ \A t \in Task : author[t] <= launches
    /\ \A l \in DOMAIN log : log[l].said # {} => log[l].by # {}
    /\ \A p \in Launches : proc[p] \notin {"unborn", "dead"} /\ ~ Driving(p) => p \in strays

\* The driver has visited itself once a kill is through.
DownInv == kill /\ killer # "list" /\ OwnPid \notin todo => pc \in {"down", "guard"}

\* While an attempt is cut and waited for, the log is as it was before, or its agent
\* has truncated it, or a stray has written there ...
LogInv ==
    pc \in {"launch", "wait"} =>
        \/ log[<<task, attempt>>] = baseline
        \/ log[<<task, attempt>>].by \cap strays # {}
        \/ pc = "wait" /\ log[<<task, attempt>>].by = {launches}

\* ... and once the agent is at work, or has committed, nothing of an earlier
\* attempt is left there.
OwnInv ==
    pc \in Turn /\ (Active(launches) \/ author[task] = launches) =>
        log[<<task, attempt>>].by \subseteq {launches} \cup strays

\* Who has committed in the worktree of the turn.
AuthorInv ==
    pc \in Turn \cup {"launch"} =>
        author[task] \in {Nobody} \cup strays \cup (IF pc \in Turn THEN {launches} ELSE {})

\* What verify saw in the log and the worktree carries the verdict.
Earned ==
    /\ <<"done", task>> \in text.said /\ <<"bail", task>> \notin text.said
    /\ author[task] # Nobody
    /\ \/ text.by = {launches} /\ author[task] = launches
       \/ (text.by \cup {author[task]}) \cap strays # {}

EarnedInv == pc = "judge" \/ Passed => Earned

\* An agent that ignored a SIGTERM is in the grace period of a kill, or was missed.
Hunted(p) == p = hit \/ (pc = "grace" /\ p = target) \/ p \in missed
DefiantInv == \A p \in Launches : proc[p] = "defiant" => Hunted(p)

\* While a kill is at work, no agent is both unnamed and out of its sight.
UnnamedInv == Killing => \A p \in Unnamed : Hunted(p)

\* Where the driver's own kill has been.
UnlinkInv ==
    /\ pc \in {"grace", "unlink"} /\ Alive(launches) => Hunted(launches)
    /\ pc = "unlink" /\ target # Nobody /\ Alive(target) => Hunted(target)

\* Where `burn kill` has still to go.
ReachInv ==
    kill /\ killer # "list" =>
        \A p \in Launches :
            Alive(p) => Hunted(p) \/ (pidfile[taskOf[p]] = p /\ taskOf[p] \in todo)

(***************************************************************************)
(* Types.                                                                  *)
(***************************************************************************)
\* The gates that run leave a report of results.
LEMMA ReportType ==
  ASSUME NEW w \in Work, NEW ran \in [GateNames -> GateRuns]
  PROVE  GatesRun(w, ran) \in Reports
<1> DEFINE gates  == SelectGates(ChangedPaths(w))
           chosen == {k \in gates : \A j \in gates : j < k => GateResult(ran[Gates[j]]).ok}
<1>1. chosen \in SUBSET DOMAIN Gates
  BY DEF SelectGates
<1>2. ASSUME NEW i \in DOMAIN Gates
      PROVE  GateResult(ran[Gates[i]]) \in GateResults
  <2>1. ran[Gates[i]] \in GateRuns
    BY DEF GateNames
  <2>2. ran[Gates[i]].empty \in BOOLEAN
    BY <2>1 DEF GateRuns
  <2> QED
    BY <2>2 DEF GateResult, GateResults
<1>3. RunMachineGates(gates, ran) \in [chosen -> GateResults]
  BY <1>1, <1>2 DEF RunMachineGates
<1>4. NoReport \in [{} -> GateResults]
  BY DEF NoReport
<1> QED
  BY <1>1, <1>3, <1>4 DEF GatesRun, Reports

\* What the verdict depends on is well typed.
LEMMA JudgeType ==
  ASSUME NEW w \in Work, NEW works \in BOOLEAN, NEW ran \in [GateNames -> GateRuns]
  PROVE  /\ EnsureDone(w, works) \in Work
         /\ GatesRun(EnsureDone(w, works), ran) \in Reports
         /\ Judge(EnsureDone(w, works), GatesRun(EnsureDone(w, works), ran)) \in Verdicts
<1>1. EnsureDone(w, works) \in Work
  BY DEF EnsureDone, Work
<1> QED
  BY <1>1, ReportType DEF Judge, Verdicts

\* The log a launch writes to is one of the logs.
LEMMA LogType ==
  ASSUME TypeOK, NEW p \in Launches, proc[p] # "unborn"
  PROVE  /\ p <= launches /\ LogOf(p) \in Task \X Attempts
         /\ taskOf[p] \in Task /\ number[p] \in Attempts
<1>1. p <= launches /\ <<taskOf[p], number[p]>> \in DOMAIN log
  BY BoundsAssumption DEF TypeOK, Launches
<1>2. DOMAIN log = Task \X Attempts
  BY DEF TypeOK
<1> QED
  BY <1>1, <1>2 DEF LogOf

\* A line written to a log.
LEMMA LineType ==
  ASSUME TypeOK, NEW p \in Launches, proc[p] # "unborn", NEW markers \in SUBSET Markers,
         NEW tail \in {"open", "quoted", "exit"}, Printed(p, markers, tail)
  PROVE  log' \in [Task \X Attempts -> Logs]
<1>1. LogOf(p) \in Task \X Attempts /\ log \in [Task \X Attempts -> Logs]
  BY LogType DEF TypeOK
<1>2. [by |-> log[LogOf(p)].by \cup {p}, said |-> log[LogOf(p)].said \cup markers,
       tail |-> tail] \in Logs
  BY <1>1 DEF Logs
<1> QED
  BY <1>1, <1>2 DEF Printed

LEMMA NoTypes ==
  /\ NoLog \in Logs /\ NoReport \in Reports /\ NoWork \in Work \cup {NoWork}
  /\ \A p \in Launches : [NoLog EXCEPT !.by = {p}] \in Logs
<1>1. NoReport \in [{} -> GateResults]
  BY DEF NoReport
<1> QED
  BY <1>1 DEF NoLog, Logs, Reports, NoWork

LEMMA TypeInit == Init => TypeOK
<1> SUFFICES ASSUME Init PROVE TypeOK
  OBVIOUS
<1>1. \A p \in Launches : p > 0
  BY BoundsAssumption DEF Launches
<1>2. 0 \in 0 .. MaxLaunches /\ 0 \in 0 .. MaxDeaths /\ 0 \in 0 .. MaxKills
  BY BoundsAssumption
<1>3. \A p \in Launches : IF p > launches THEN proc[p] = "unborn"
                                          ELSE <<taskOf[p], number[p]>> \in DOMAIN log
  BY <1>1 DEF Init
<1>4. <<>> \in Seq(Calls)
  OBVIOUS
<1> QED
  BY <1>2, <1>3, <1>4, NoTypes DEF Init, TypeOK, Points, Turn, States, Nobody, NoTask, OwnPid

\* What a step remembers.
LEMMA HistoryType ==
  ASSUME TypeOK, History
  PROVE  widowed' \subseteq Launches /\ strays' \subseteq Launches /\ missed' \subseteq Launches
  BY DEF TypeOK, History

\* A turn that is over.
LEMMA NoTurnType ==
  ASSUME NoTurn
  PROVE  /\ task' = NoTask /\ attempt' \in Attempts \cup {0} /\ baseline' \in Logs
         /\ ended' = "no" /\ target' = Nobody /\ text' \in Logs /\ work' \in Work \cup {NoWork}
         /\ edited' \in BOOLEAN /\ report' \in Reports /\ verdict' = "none"
  BY NoTypes DEF NoTurn, NoVerdict

\* The attempt that is cut is one of the attempts.
LEMMA CutType ==
  ASSUME TypeOK, PlaceInv, CountInv, NEW t \in Task, Cut(t)
  PROVE  count[t] + 1 \in Attempts /\ launches < MaxLaunches
<1>1. /\ count[t] \in Attempts \cup {0} /\ launches \in Int /\ deaths <= MaxDeaths
      /\ kills <= MaxKills /\ deaths \in Int /\ kills \in Int
  BY BoundsAssumption DEF TypeOK
<1>2. count[t] + Pending <= launches + deaths + kills + Cutting /\ Cutting = 0
      /\ launches < MaxLaunches
  BY DEF CountInv, Cut, CutFor, Cutting
<1>3. Pending \in {0, 1}
  BY DEF Pending
<1> HIDE DEF Pending, Cutting
<1>4. count[t] \in Nat
  BY <1>1, BoundsAssumption DEF Attempts
<1> QED
  BY <1>1, <1>2, <1>3, <1>4, BoundsAssumption DEF Attempts

\* One more launch.
LEMMA NextLaunch ==
  ASSUME TypeOK, launches < MaxLaunches
  PROVE  launches + 1 \in Launches /\ \A p \in Launches : p <= launches => p # launches + 1
  BY BoundsAssumption DEF TypeOK, Launches

\* The log of the turn is one of the logs.
LEMMA TurnType ==
  ASSUME TypeOK, PlaceInv, pc \in Turn
  PROVE  /\ task \in Task /\ attempt \in Attempts /\ <<task, attempt>> \in Task \X Attempts
         /\ launches \in Launches
         /\ log[<<task, attempt>>] \in Logs
<1>1. launches \in Launches /\ LogOf(launches) = <<task, attempt>>
  BY DEF PlaceInv
<1>2. ~ launches > launches
  BY BoundsAssumption DEF TypeOK
<1>3. <<task, attempt>> \in DOMAIN log
  BY <1>1, <1>2 DEF TypeOK, LogOf
<1>4. log \in [Task \X Attempts -> Logs]
  BY DEF TypeOK
<1> QED
  BY <1>1, <1>3, <1>4

\* The states of a group that a kill is at.
LEMMA SignalType ==
  ASSUME TypeOK, NEW p \in Launches, Terminate(p) \/ FinishOff(p)
  PROVE  proc' \in [Launches -> States]
         /\ \A q \in Launches : proc[q] = "unborn" /\ q # p => proc'[q] = "unborn"
  BY DEF TypeOK, Terminate, FinishOff, States

\* A boot resets the worktrees, or leaves them as they are.
LEMMA StartType ==
  ASSUME TypeOK, NEW resumed \in BOOLEAN, Start(resumed)
  PROVE  /\ kill' \in BOOLEAN /\ driverFile' = TRUE /\ cut' \in [Task -> BOOLEAN]
         /\ author' \in [Task -> Launches \cup {Nobody}]
<1>1. kill \in BOOLEAN /\ cut \in [Task -> BOOLEAN] /\ author \in [Task -> Launches \cup {Nobody}]
  BY DEF TypeOK
<1>2. driverFile' = TRUE
  BY DEF Start
<1>3. CASE resumed
  <2>1. /\ kill' = FALSE /\ cut' = [t \in Task |-> FALSE]
        /\ author' = [t \in Task |-> Nobody]
    BY <1>3 DEF Start
  <2> QED
    BY <1>2, <2>1
<1>4. CASE ~ resumed
  BY <1>1, <1>2, <1>4 DEF Start
<1> QED
  BY <1>3, <1>4

LEMMA TypeStep == TypeOK /\ PlaceInv /\ CountInv /\ PidInv /\ KillerInv /\ [Next]_vars => TypeOK'
<1> SUFFICES ASSUME TypeOK, PlaceInv, CountInv, PidInv, KillerInv, [Next]_vars
             PROVE  TypeOK'
  OBVIOUS
<1> USE DEF TypeOK
<1>1. CASE UNCHANGED vars
  BY <1>1 DEF vars
<1> SUFFICES ASSUME Step, History
             PROVE  TypeOK'
  BY <1>1 DEF Next
<1>2. widowed' \subseteq Launches /\ strays' \subseteq Launches /\ missed' \subseteq Launches
  BY HistoryType
<1> USE <1>2 DEF Points, Turn
<1>3. ASSUME NEW resumed \in BOOLEAN, Start(resumed) PROVE TypeOK'
  <2>1. /\ pc' = "guard"
        /\ UNCHANGED <<turnVars, killer, todo, hit, count, pidfile, log, launchVars, proc, calls,
                       readable, newer, deaths, kills>>
    BY <1>3 DEF Start
  <2>2. /\ kill' \in BOOLEAN /\ driverFile' \in BOOLEAN /\ cut' \in [Task -> BOOLEAN]
        /\ author' \in [Task -> Launches \cup {Nobody}]
    BY <1>3, StartType
  <2> QED
    BY <2>1, <2>2
<1>4. ASSUME NEW t \in Task, Cut(t) PROVE TypeOK'
  <2>1. count[t] + 1 \in Attempts
    BY <1>4, CutType
  <2> QED
    BY <1>4, <2>1 DEF Cut, CutFor, Nobody
<1>5. CASE Leave
  BY <1>5 DEF Leave
<1>6. CASE Launch
  <2>1. task \in Task /\ attempt \in Attempts /\ launches' \in Launches
        /\ \A p \in Launches : p <= launches => p # launches'
    BY <1>6, NextLaunch DEF Launch, PlaceInv
  <2>2. \A p \in Launches : IF p > launches' THEN proc'[p] = "unborn"
                                            ELSE <<taskOf'[p], number'[p]>> \in DOMAIN log'
    BY <1>6, <2>1, BoundsAssumption DEF Launch, Launches
  <2>3. /\ taskOf' \in [Launches -> Task \cup {NoTask}]
        /\ number' \in [Launches -> Attempts \cup {0}]
        /\ proc' \in [Launches -> States]
    BY <1>6, <2>1 DEF Launch, States
  <2>4. launches' \in 0 .. MaxLaunches
    BY <2>1, BoundsAssumption DEF Launches
  <2>5. /\ pc' = "wait"
        /\ UNCHANGED <<turnVars, driverFile, killVars, fileVars, agentVars, deaths, kills>>
    BY <1>6 DEF Launch
  <2>6. \A p \in Launches : IF p > launches' THEN proc'[p] = "unborn"
                                            ELSE <<taskOf'[p], number'[p]>> \in DOMAIN log'
    BY <2>2
  <2>7. task' \in Task /\ attempt' \in Attempts
    BY <2>1, <2>5 DEF turnVars
  <2> HIDE <1>2
  <2> QED
    BY <1>2, <2>3, <2>4, <2>5, <2>6, <2>7
       DEF turnVars, killVars, fileVars, agentVars
<1>7. CASE Wait
  BY <1>7, NoTypes DEF Wait, WaitEnds
<1>8. CASE KillRead
  BY <1>8, SignalType DEF KillRead, Found
<1>9. CASE KillGrace
  <2>1. target \in Launches /\ Born(target)
    BY <1>9 DEF KillGrace, PlaceInv, PidInv
  <2> QED
    BY <1>9, <2>1, SignalType DEF KillGrace, Born
<1>10. CASE KillUnlink
  BY <1>10, NoTurnType DEF KillUnlink, NoTask, Nobody
<1>11. CASE Evidence
  <2>1. log[<<task, attempt>>] \in Logs
    BY <1>11, TurnType DEF Evidence, Examine
  <2>2. verdict' \in {"none"} \cup Verdicts /\ pc' \in {"judge", "clear"}
    BY <1>11 DEF Evidence, Examine, Verdicts
  <2> QED
    BY <1>11, <2>1, <2>2 DEF Evidence, Examine
<1>12. CASE JudgeWork
  <2>1. /\ work' \in Work \cup {NoWork} /\ edited' \in BOOLEAN /\ report' \in Reports
        /\ verdict' \in Verdicts
    <3>1. PICK w \in Work :
             IF CriteriaChecked(w)
               THEN \E works \in BOOLEAN, ran \in [GateNames -> GateRuns] :
                       /\ edited' = (w.book = "ticked" => works)
                       /\ work' = EnsureDone(w, works)
                       /\ report' = GatesRun(work', ran)
                       /\ verdict' = Judge(work', report')
               ELSE verdict' = "refused" /\ UNCHANGED <<work, edited, report>>
      BY <1>12 DEF JudgeWork
    <3>2. CASE ~ CriteriaChecked(w)
      BY <3>1, <3>2 DEF Verdicts
    <3>3. CASE CriteriaChecked(w)
      <4>1. PICK works \in BOOLEAN, ran \in [GateNames -> GateRuns] :
               /\ edited' = (w.book = "ticked" => works)
               /\ work' = EnsureDone(w, works)
               /\ report' = GatesRun(work', ran)
               /\ verdict' = Judge(work', report')
        BY <3>1, <3>3
      <4> QED
        <5>1. edited' \in BOOLEAN
          BY <4>1
        <5>2. work' \in Work /\ report' \in Reports /\ verdict' \in Verdicts
          <6>1. /\ EnsureDone(w, works) \in Work
                /\ GatesRun(EnsureDone(w, works), ran) \in Reports
                /\ Judge(EnsureDone(w, works), GatesRun(EnsureDone(w, works), ran)) \in Verdicts
            BY JudgeType, Zenon
          <6> QED
            BY <4>1, <6>1, Zenon
        <5> QED
          BY <5>1, <5>2
    <3> QED
      BY <3>2, <3>3
  <2> QED
    BY <1>12, <2>1 DEF JudgeWork
<1>13. CASE Clear
  BY <1>13, NoTypes DEF Clear, NoVerdict, Nobody
<1>14. CASE Die
  BY <1>14, NoTurnType, BoundsAssumption DEF Die, DriverGone, NoTask
<1>15. CASE ForgetAttempts
  BY <1>15 DEF ForgetAttempts
<1>16. CASE KillSentinel
  BY <1>16, BoundsAssumption, SMTT(20) DEF KillSentinel
<1>17. CASE KillList
  BY <1>17 DEF KillList, NextVisit
<1>18. CASE VisitDriver
  BY <1>18, NoTurnType DEF VisitDriver, NextVisit, DriverGone, NoTask
<1>19. ASSUME NEW t \in Task, VisitTask(t) PROVE TypeOK'
  BY <1>19, SignalType DEF VisitTask, NextVisit, Found
<1>20. CASE VisitGrace
  <2>1. hit \in Launches /\ Born(hit)
    BY <1>20 DEF VisitGrace, NextVisit, KillerInv, PidInv
  <2> QED
    BY <1>20, <2>1, SignalType DEF VisitGrace, NextVisit, Born
<1>21. ASSUME NEW p \in Launches, RecordPid(p) PROVE TypeOK'
  BY <1>21, LogType DEF RecordPid, States
<1>22. ASSUME NEW p \in Launches, OpenLog(p) PROVE TypeOK'
  BY <1>22, LogType, NoTypes DEF OpenLog, States
<1>23. ASSUME NEW p \in Launches, Say(p) PROVE TypeOK'
  <2>1. log' \in [Task \X Attempts -> Logs]
    BY <1>23, LineType DEF Say
  <2> QED
    BY <1>23, <2>1, SMTT(20) DEF Say, Printed
<1>24. ASSUME NEW p \in Launches, Exit(p) PROVE TypeOK'
  <2>1. log' \in [Task \X Attempts -> Logs]
    BY <1>24, LineType DEF Exit
  <2> QED
    BY <1>24, <2>1 DEF Exit, Printed, States
<1>25. ASSUME NEW p \in Launches, Commit(p) PROVE TypeOK'
  BY <1>25, LogType DEF Commit, Active
<1>26. ASSUME NEW p \in Launches, Vanish(p) PROVE TypeOK'
  BY <1>26, SMTT(20) DEF Vanish, States
<1>27. ASSUME NEW p \in Launches, NEW call \in Calls, Call(p, call) PROVE TypeOK'
  BY <1>27 DEF Call
<1> QED
  BY <1>3, <1>4, <1>5, <1>6, <1>7, <1>8, <1>9, <1>10, <1>11, <1>12, <1>13, <1>14, <1>15, <1>16,
     <1>17, <1>18, <1>19, <1>20, <1>21, <1>22, <1>23, <1>24, <1>25, <1>26, <1>27
     DEF Step, Driver, BurnKill, Agent

(***************************************************************************)
(* Who writes what.                                                        *)
(***************************************************************************)
USE DEF NoTurn, NoVerdict, NextVisit, DriverGone

\* Only a launch adds to the launches.
LEMMA LaunchFrame == [Next]_vars => UNCHANGED launchVars \/ Launch
  BY DEF Next, Step, Driver, BurnKill, Agent, vars,
         Start, Cut, CutFor, Leave, Launch, Wait, WaitEnds, KillRead, KillGrace, KillUnlink,
         Evidence, Examine, JudgeWork, Clear, Die, ForgetAttempts, KillSentinel, KillList,
         VisitDriver, VisitTask, VisitGrace, RecordPid, OpenLog, Say, Exit, Printed, Commit,
         Vanish, Call

\* Only the driver, and what ends it, moves the turn on.
Turning == Driver \/ Die \/ VisitDriver \/ \E resumed \in BOOLEAN : Start(resumed)

LEMMA TurnFrame == [Next]_vars => UNCHANGED <<pc, turnVars>> \/ Turning
  BY DEF Turning, Next, Step, BurnKill, Agent, vars,
         ForgetAttempts, KillSentinel, KillList, VisitTask, VisitGrace, RecordPid, OpenLog, Say,
         Exit, Printed, Commit, Vanish, Call

\* Groups are born, signalled, and go their own way.
LEMMA ProcFrame ==
  [Next]_vars => \/ UNCHANGED proc
                 \/ Launch \/ KillRead \/ KillGrace \/ (\E t \in Task : VisitTask(t)) \/ VisitGrace
                 \/ \E p \in Launches : RecordPid(p) \/ OpenLog(p) \/ Exit(p) \/ Vanish(p)
  BY DEF Next, Step, Driver, BurnKill, Agent, vars,
         Start, Cut, CutFor, Leave, Wait, WaitEnds, KillUnlink,
         Evidence, Examine, JudgeWork, Clear, Die, ForgetAttempts, KillSentinel, KillList,
         VisitDriver, Say, Commit, Call

\* Only the groups write logs.
LEMMA LogFrame ==
  [Next]_vars => UNCHANGED log \/ \E p \in Launches : OpenLog(p) \/ Say(p) \/ Exit(p)
  BY DEF Next, Step, Driver, BurnKill, Agent, vars,
         Start, Cut, CutFor, Leave, Launch, Wait, WaitEnds, KillRead, KillGrace, KillUnlink,
         Evidence, Examine, JudgeWork, Clear, Die, ForgetAttempts, KillSentinel, KillList,
         VisitDriver, VisitTask, VisitGrace, RecordPid, Commit, Vanish, Call

\* A pidfile is written by the group of its launch and removed by the driver.
LEMMA PidFrame ==
  [Next]_vars => UNCHANGED pidfile \/ KillUnlink \/ \E p \in Launches : RecordPid(p)
  BY DEF Next, Step, Driver, BurnKill, Agent, vars,
         Start, Cut, CutFor, Leave, Launch, Wait, WaitEnds, KillRead, KillGrace,
         Evidence, Examine, JudgeWork, Clear, Die, ForgetAttempts, KillSentinel, KillList,
         VisitDriver, VisitTask, VisitGrace, OpenLog, Say, Exit, Printed, Commit, Vanish, Call

\* Worktrees are cut and removed, and committed in.
LEMMA AuthorFrame ==
  [Next]_vars => \/ UNCHANGED author
                 \/ (\E resumed \in BOOLEAN : Start(resumed)) \/ (\E t \in Task : Cut(t)) \/ Clear
                 \/ \E p \in Launches : Commit(p)
  BY DEF Next, Step, Driver, BurnKill, Agent, vars,
         Leave, Launch, Wait, WaitEnds, KillRead, KillGrace, KillUnlink,
         Evidence, Examine, JudgeWork, Die, ForgetAttempts, KillSentinel, KillList,
         VisitDriver, VisitTask, VisitGrace, RecordPid, OpenLog, Say, Exit, Printed, Vanish, Call

\* The sentinel and the locals of `burn kill`.
LEMMA KillFrame ==
  [Next]_vars => \/ UNCHANGED killVars
                 \/ (\E resumed \in BOOLEAN : Start(resumed)) \/ BurnKill
  BY DEF Next, Step, Driver, Agent, vars,
         Cut, CutFor, Leave, Launch, Wait, WaitEnds, KillRead, KillGrace, KillUnlink,
         Evidence, Examine, JudgeWork, Clear, Die, ForgetAttempts, RecordPid, OpenLog, Say, Exit,
         Printed, Commit, Vanish, Call

\* Transcripts are those of launches that call.
LEMMA CallFrame ==
  [Next]_vars => \/ UNCHANGED <<calls, readable>>
                 \/ \E p \in Launches, call \in Calls : Call(p, call)
  BY DEF Next, Step, Driver, BurnKill, Agent, vars,
         Start, Cut, CutFor, Leave, Launch, Wait, WaitEnds, KillRead, KillGrace, KillUnlink,
         Evidence, Examine, JudgeWork, Clear, Die, ForgetAttempts, KillSentinel, KillList,
         VisitDriver, VisitTask, VisitGrace, RecordPid, OpenLog, Say, Exit, Printed, Commit,
         Vanish

(***************************************************************************)
(* The driver's place, the kill's, the attempts and the pids.              *)
(***************************************************************************)
LEMMA PlaceInit == Init => PlaceInv /\ KillerInv /\ CountInv /\ PidInv
  BY BoundsAssumption
     DEF Init, PlaceInv, KillerInv, CountInv, PidInv, Pending, Cutting, Turn, Points, Nobody,
         OwnPid

\* The launch of the turn keeps its task and its attempt.
LEMMA OwnLog ==
  ASSUME TypeOK, PlaceInv, [Next]_vars, pc' \in Turn
  PROVE  launches' \in Launches /\ LogOf(launches)' = <<task, attempt>>'
<1>1. CASE Launch
  BY <1>1, NextLaunch DEF Launch, PlaceInv, LogOf, TypeOK
<1>2. CASE UNCHANGED launchVars /\ ~ Launch
  <2>1. pc \in Turn /\ task' = task /\ attempt' = attempt
    BY <1>2, TurnFrame
       DEF Turning, Driver, Start, Cut, CutFor, Leave, Wait, WaitEnds, KillRead, KillGrace,
           KillUnlink, Evidence, Examine, JudgeWork, Clear, Die, VisitDriver, Turn, Points
  <2> QED
    BY <1>2, <2>1 DEF PlaceInv, LogOf
<1> QED
  BY <1>1, <1>2, LaunchFrame

LEMMA PlaceStep == TypeOK /\ PlaceInv /\ CountInv /\ [Next]_vars => PlaceInv'
<1> SUFFICES ASSUME TypeOK, PlaceInv, CountInv, [Next]_vars
             PROVE  PlaceInv'
  OBVIOUS
<1>1. (pc # "down" => driverFile)'
  <2>1. pc # "down" => driverFile
    BY DEF PlaceInv
  <2>2. CASE Driver
    BY <2>1, <2>2
       DEF Driver, Cut, CutFor, Leave, Launch, Wait, WaitEnds, KillRead, KillGrace, KillUnlink,
           Evidence, Examine, JudgeWork, Clear
  <2>3. CASE BurnKill
    BY <2>1, <2>3
       DEF BurnKill, KillSentinel, KillList, VisitDriver, VisitTask, VisitGrace
  <2>4. ASSUME NEW p \in Launches, Agent(p) PROVE UNCHANGED <<pc, driverFile>>
    BY <2>4 DEF Agent, RecordPid, OpenLog, Say, Exit, Printed, Commit, Vanish, Call
  <2>5. CASE UNCHANGED vars
    BY <2>1, <2>5 DEF vars
  <2> QED
    BY <2>1, <2>2, <2>3, <2>4, <2>5 DEF Next, Step, Start, Die, ForgetAttempts
<1>2. (pc \in Turn => launches \in Launches /\ LogOf(launches) = <<task, attempt>>)'
  BY OwnLog
<1>3. /\ pc \in {"down", "guard", "launch", "wait"} => ended = "no"
      /\ verdict # "none" => pc = "clear"
      /\ pc \notin {"grace", "unlink"} => target = Nobody
      /\ pc = "grace" => target # Nobody
  BY DEF PlaceInv
<1>4. (/\ pc \in {"down", "guard", "launch", "wait"} => ended = "no"
       /\ verdict # "none" => pc = "clear"
       /\ pc \notin {"grace", "unlink"} => target = Nobody
       /\ pc = "grace" => target # Nobody)'
  <2>1. CASE UNCHANGED <<pc, turnVars>>
    BY <1>3, <2>1
  <2>2. CASE Turning
    BY <1>3, <2>2
       DEF Turning, Driver, Start, Cut, CutFor, Leave, Launch, Wait, WaitEnds, KillRead, KillGrace,
           KillUnlink, Evidence, Examine, JudgeWork, Clear, Die, VisitDriver, Found
  <2> QED
    BY <2>1, <2>2, TurnFrame
<1>5. (pc = "launch" => task \in Task /\ attempt \in Attempts /\ launches < MaxLaunches)'
  <2>1. ASSUME NEW t \in Task, Cut(t)
        PROVE  task' \in Task /\ attempt' \in Attempts /\ launches' < MaxLaunches
    BY <2>1, CutType DEF Cut, CutFor
  <2>2. pc' = "launch" => \/ pc = "launch" /\ task' = task /\ attempt' = attempt
                          \/ \E t \in Task : Cut(t)
    BY TurnFrame
       DEF Turning, Driver, Start, Leave, Launch, Wait, WaitEnds, KillRead, KillGrace,
           KillUnlink, Evidence, Examine, JudgeWork, Clear, Die, VisitDriver
  <2>3. pc' = "launch" => launches' = launches
    BY LaunchFrame DEF Launch
  <2> QED
    BY <2>1, <2>2, <2>3 DEF PlaceInv
<1> QED
  BY <1>1, <1>2, <1>4, <1>5 DEF PlaceInv

LEMMA KillerStep == TypeOK /\ KillerInv /\ [Next]_vars => KillerInv'
<1> SUFFICES ASSUME TypeOK, KillerInv, [Next]_vars
             PROVE  KillerInv'
  OBVIOUS
<1>1. CASE BurnKill
  BY <1>1 DEF BurnKill, KillSentinel, KillList, VisitDriver, VisitTask, VisitGrace, KillerInv,
              Found
<1>2. CASE \E resumed \in BOOLEAN : Start(resumed)
  BY <1>2 DEF Start, KillerInv
<1> QED
  BY <1>1, <1>2, KillFrame DEF KillerInv

\* The bound on attempts: each term of the count, at each step.
\* What a step does to each term of the count of attempts.
LEMMA CountFrame ==
  ASSUME TypeOK, PlaceInv, KillerInv, [Next]_vars, NEW t \in Task
  PROVE  \/ /\ count'[t] \in {count[t], count[t] + 1} /\ Cutting = 0 /\ Cutting' = 1
            /\ Pending' = Pending /\ UNCHANGED <<launches, deaths, kills>>
         \/ /\ Cutting = 1 /\ Cutting' = 0 /\ launches' = launches + 1
            /\ Pending' = Pending /\ UNCHANGED <<count, deaths, kills>>
         \/ /\ Cutting' = 0 /\ deaths' = deaths + 1
            /\ Pending' = Pending /\ UNCHANGED <<count, launches, kills>>
         \/ /\ Pending = 0 /\ Pending' = 1 /\ kills' = kills + 1
            /\ Cutting' = Cutting /\ UNCHANGED <<count, launches, deaths>>
         \/ /\ Pending = 1 /\ Pending' = 0 /\ Cutting' = 0
            /\ UNCHANGED <<count, launches, deaths, kills>>
         \/ /\ count'[t] = 0 /\ deaths > 0 /\ Pending' = Pending /\ Cutting' = Cutting
            /\ UNCHANGED <<launches, deaths, kills>>
         \/ /\ Pending' \in {0, Pending} /\ Cutting' = Cutting
            /\ UNCHANGED <<count, launches, deaths, kills>>
<1> DEFINE Goal == \/ /\ count'[t] \in {count[t], count[t] + 1} /\ Cutting = 0 /\ Cutting' = 1
                      /\ Pending' = Pending /\ UNCHANGED <<launches, deaths, kills>>
                   \/ /\ Cutting = 1 /\ Cutting' = 0 /\ launches' = launches + 1
                      /\ Pending' = Pending /\ UNCHANGED <<count, deaths, kills>>
                   \/ /\ Cutting' = 0 /\ deaths' = deaths + 1
                      /\ Pending' = Pending /\ UNCHANGED <<count, launches, kills>>
                   \/ /\ Pending = 0 /\ Pending' = 1 /\ kills' = kills + 1
                      /\ Cutting' = Cutting /\ UNCHANGED <<count, launches, deaths>>
                   \/ /\ Pending = 1 /\ Pending' = 0 /\ Cutting' = 0
                      /\ UNCHANGED <<count, launches, deaths, kills>>
                   \/ /\ count'[t] = 0 /\ deaths > 0 /\ Pending' = Pending /\ Cutting' = Cutting
                      /\ UNCHANGED <<launches, deaths, kills>>
                   \/ /\ Pending' \in {0, Pending} /\ Cutting' = Cutting
                      /\ UNCHANGED <<count, launches, deaths, kills>>
<1>1. CASE UNCHANGED vars
  BY <1>1 DEF vars, Pending, Cutting
<1> SUFFICES ASSUME Step PROVE Goal
  BY <1>1 DEF Next
<1> USE DEF Pending, Cutting
<1>2. ASSUME NEW u \in Task, Cut(u) PROVE Goal
  BY <1>2 DEF Cut, CutFor, TypeOK
<1>3. CASE Launch
  BY <1>3 DEF Launch
<1>4. CASE Die
  BY <1>4 DEF Die
<1>5. CASE KillSentinel
  BY <1>5 DEF KillSentinel, KillerInv
<1>6. CASE VisitDriver
  BY <1>6 DEF VisitDriver
<1>7. CASE ForgetAttempts
  BY <1>7 DEF ForgetAttempts
<1>8. CASE KillList \/ (\E u \in Task : VisitTask(u)) \/ VisitGrace
  BY <1>8, TaskAssumption DEF KillList, VisitTask, VisitGrace, OwnPid
<1>9. CASE \/ (\E resumed \in BOOLEAN : Start(resumed)) \/ Leave \/ Wait \/ KillRead \/ KillGrace
           \/ KillUnlink \/ Evidence \/ JudgeWork \/ Clear \/ \E p \in Launches : Agent(p)
  BY <1>9 DEF Start, Leave, Wait, WaitEnds, KillRead, KillGrace, KillUnlink, Evidence, Examine,
              JudgeWork, Clear, Agent, RecordPid, OpenLog, Say, Exit, Printed, Commit, Vanish,
              Call
<1> QED
  BY <1>2, <1>3, <1>4, <1>5, <1>6, <1>7, <1>8, <1>9 DEF Step, Driver, BurnKill

LEMMA CountStep == TypeOK /\ PlaceInv /\ KillerInv /\ CountInv /\ [Next]_vars => CountInv'
<1> SUFFICES ASSUME TypeOK, PlaceInv, KillerInv, CountInv, [Next]_vars, NEW t \in Task
             PROVE  count'[t] + Pending' <= launches' + deaths' + kills' + Cutting'
  BY DEF CountInv
<1>1. /\ count[t] + Pending <= launches + deaths + kills + Cutting
      /\ count[t] \in Nat /\ launches \in Nat /\ deaths \in Nat /\ kills \in Nat
  BY BoundsAssumption DEF CountInv, TypeOK, Attempts
<1>2. Pending \in {0, 1} /\ Cutting \in {0, 1} /\ Pending' \in {0, 1} /\ Cutting' \in {0, 1}
  BY DEF Pending, Cutting
<1> HIDE DEF Pending, Cutting
<1> QED
  BY <1>1, <1>2, CountFrame

\* A group that has written its pid stays one that has.
LEMMA BornStep ==
  ASSUME TypeOK, [Next]_vars, NEW p \in Launches, Born(p)
  PROVE  Born(p)' /\ taskOf'[p] = taskOf[p] /\ number'[p] = number[p]
<1>1. p <= launches /\ launches \in Int
  BY LogType DEF Born, TypeOK
<1>2. CASE Launch
  BY <1>1, <1>2, NextLaunch DEF Launch, Born, TypeOK
<1>3. CASE ~ Launch
  <2>1. taskOf'[p] = taskOf[p] /\ number'[p] = number[p]
    BY <1>3, LaunchFrame
  <2>2. proc'[p] \notin {"unborn", "starting"}
    BY <1>3, ProcFrame
       DEF Born, TypeOK, KillRead, KillGrace, VisitTask, VisitGrace, RecordPid, OpenLog, Exit,
           Vanish, Terminate, FinishOff
  <2> QED
    BY <2>1, <2>2 DEF Born
<1> QED
  BY <1>2, <1>3

LEMMA PidStep == TypeOK /\ PlaceInv /\ PidInv /\ [Next]_vars => PidInv'
<1> SUFFICES ASSUME TypeOK, PlaceInv, PidInv, [Next]_vars
             PROVE  PidInv'
  OBVIOUS
<1>1. ASSUME NEW t \in Task, pidfile'[t] # Nobody
      PROVE  Born(pidfile[t])' /\ taskOf'[pidfile'[t]] = t
  <2>1. CASE pidfile'[t] = pidfile[t]
    BY <1>1, <2>1, BornStep DEF PidInv, TypeOK
  <2>2. CASE pidfile'[t] # pidfile[t]
    <3>1. PICK p \in Launches : RecordPid(p)
      BY <1>1, <2>2, PidFrame DEF KillUnlink, TypeOK
    <3>2. taskOf[p] = t /\ pidfile'[t] = p
      BY <1>1, <2>2, <3>1 DEF RecordPid, TypeOK
    <3>3. proc'[p] = "recorded" /\ taskOf' = taskOf
      BY <3>1 DEF RecordPid, TypeOK
    <3> QED
      BY <3>2, <3>3 DEF Born
  <2> QED
    BY <2>1, <2>2
<1>2. target' # Nobody => Born(target)'
  <2>1. target' = Nobody \/ target' = target \/ (KillRead /\ target' = pidfile[task])
    BY TurnFrame
       DEF Turning, Driver, Start, Cut, CutFor, Leave, Launch, Wait, WaitEnds, KillRead, KillGrace,
           KillUnlink, Evidence, Examine, JudgeWork, Clear, Die, VisitDriver
  <2>2. CASE target' = target
    BY <2>2, BornStep DEF PidInv, TypeOK
  <2>3. CASE KillRead /\ target' = pidfile[task]
    BY <2>3, BornStep, TurnType DEF PidInv, TypeOK, KillRead, Turn, Points
  <2> QED
    BY <2>1, <2>2, <2>3
<1>3. hit' # Nobody => Born(hit)'
  <2>1. hit' = Nobody \/ hit' = hit \/ \E t \in Task : hit' = pidfile[t]
    BY KillFrame DEF Start, BurnKill, KillSentinel, KillList, VisitDriver, VisitTask, VisitGrace
  <2> QED
    BY <2>1, BornStep DEF PidInv, TypeOK
<1> QED
  BY <1>1, <1>2, <1>3 DEF PidInv

CoreInv == TypeOK /\ PlaceInv /\ KillerInv /\ CountInv /\ PidInv

LEMMA CoreTheorem == Spec => []CoreInv
<1>1. Init => CoreInv
  BY TypeInit, PlaceInit DEF CoreInv
<1>2. CoreInv /\ [Next]_vars => CoreInv'
  BY TypeStep, PlaceStep, KillerStep, CountStep, PidStep DEF CoreInv
<1> QED
  BY <1>1, <1>2, PTL DEF Spec

\* Every reachable state is well typed: no attempt is numbered beyond what launches,
\* deaths and kills account for, and the log of each launch exists.
THEOREM TypeTheorem == Spec => []TypeOK
<1>1. CoreInv => TypeOK
  BY DEF CoreInv
<1> QED
  BY <1>1, CoreTheorem, PTL

(***************************************************************************)
(* After a kill.                                                           *)
(***************************************************************************)
LEMMA DownStep == CoreInv /\ DownInv /\ [Next]_vars => DownInv'
<1> SUFFICES ASSUME CoreInv, DownInv, [Next]_vars, kill', killer' # "list", OwnPid \notin todo'
             PROVE  pc' \in {"down", "guard"}
  BY DEF DownInv
<1>1. CASE UNCHANGED killVars
  BY <1>1, TurnFrame
     DEF DownInv, Turning, Driver, Start, Cut, CutFor, Leave, Launch, Wait, WaitEnds, KillRead,
         KillGrace, KillUnlink, Evidence, Examine, JudgeWork, Clear, Die, VisitDriver
<1>2. CASE \E resumed \in BOOLEAN : Start(resumed)
  BY <1>2 DEF Start
<1>3. CASE BurnKill
  BY <1>3, TaskAssumption
     DEF BurnKill, KillSentinel, KillList, VisitDriver, VisitTask, VisitGrace, DownInv, CoreInv,
         PlaceInv, OwnPid
<1> QED
  BY <1>1, <1>2, <1>3, KillFrame

\* KillHolds: once `burn kill` is through, the driver it found is gone, and none that
\* is started later launches anything while the sentinel is there.
THEOREM KillTheorem == Spec => KillHolds
<1>1. Init => DownInv
  BY DEF Init, DownInv
<1>2. CoreInv /\ DownInv /\ [Next]_vars
        => [kill /\ killer = "none" /\ kill' => launches' = launches]_vars
  <2> SUFFICES ASSUME CoreInv, DownInv, [Next]_vars, kill, killer = "none"
               PROVE  launches' = launches
    OBVIOUS
  <2>1. pc \in {"down", "guard"}
    BY DEF CoreInv, KillerInv, DownInv
  <2> QED
    BY <2>1, LaunchFrame DEF Launch
<1> QED
  BY <1>1, <1>2, CoreTheorem, DownStep, PTL DEF Spec, KillHolds

(***************************************************************************)
(* The verdict.                                                            *)
(***************************************************************************)
\* Only JudgeWork passes an attempt; what it looked at is kept with the verdict.
LEMMA VerdictFrame ==
  ASSUME CoreInv, [Next]_vars, Passed'
  PROVE  \/ JudgeWork
         \/ /\ Passed /\ UNCHANGED <<pc, task, text, work, edited, report, verdict>>
  BY TurnFrame
     DEF CoreInv, PlaceInv, Passed, Turning, Driver, Start, Cut, CutFor, Leave, Launch, Wait,
         WaitEnds, KillRead,
         KillGrace, KillUnlink, Evidence, Examine, Clear, Die, VisitDriver

\* A step of JudgeWork that passes: the work, and the report of its gates.
LEMMA JudgePasses ==
  ASSUME JudgeWork, Passed'
  PROVE  \E w \in Work, works \in BOOLEAN, ran \in [GateNames -> GateRuns] :
            /\ CriteriaChecked(w)
            /\ edited' = (w.book = "ticked" => works)
            /\ work' = EnsureDone(w, works)
            /\ report' = GatesRun(work', ran)
            /\ verdict' = Judge(work', report')
  BY DEF JudgeWork, Passed

\* A result that is in a report is that of a run of its gate.
LEMMA ReportResult ==
  ASSUME NEW w \in Work, NEW ran \in [GateNames -> GateRuns],
         NEW i \in DOMAIN GatesRun(w, ran)
  PROVE  /\ i \in DOMAIN Gates /\ ran[Gates[i]] \in GateRuns
         /\ GatesRun(w, ran)[i] = GateResult(ran[Gates[i]])
<1> DEFINE gates  == SelectGates(ChangedPaths(w))
           chosen == {k \in gates : \A j \in gates : j < k => GateResult(ran[Gates[j]]).ok}
<1>1. GatesRun(w, ran) = [k \in chosen |-> GateResult(ran[Gates[k]])]
  BY DEF GatesRun, NoReport, RunMachineGates
<1>2. i \in chosen /\ chosen \subseteq DOMAIN Gates
  BY <1>1 DEF SelectGates
<1> QED
  BY <1>1, <1>2 DEF GateNames

\* What "measured" takes.
LEMMA MeasuredTakes ==
  ASSUME NEW w \in Work, NEW ran \in [GateNames -> GateRuns],
         Judge(w, GatesRun(w, ran)) = "measured"
  PROVE  /\ w.diff \cap CodeKinds # {} \/ TaskFile \in CodeKinds
         /\ w.diff \subseteq Allowed
         /\ \A i \in DOMAIN GatesRun(w, ran) : GatesRun(w, ran)[i].ok
         /\ \E i \in DOMAIN GatesRun(w, ran) : ~ GatesRun(w, ran)[i].empty
<1> DEFINE rep == GatesRun(w, ran)
<1>1. IsCodeChange(ChangedPaths(w)) /\ ScopeViolations(ChangedPaths(w)) = {} /\ ReportOk(rep)
  BY DEF Judge
<1>2. w.diff \cap CodeKinds # {} \/ TaskFile \in CodeKinds
  BY <1>1 DEF IsCodeChange, ChangedPaths
<1>3. w.diff \subseteq Allowed
  BY <1>1 DEF ScopeViolations, ChangedPaths
<1>4. \A i \in DOMAIN rep : rep[i].ok
  BY <1>1 DEF ReportOk
<1>5. PICK i \in DOMAIN rep : ~ rep[i].vacuous
  BY <1>1 DEF ReportOk
<1>6. rep[i] = GateResult(ran[Gates[i]]) /\ rep[i].ok
  BY <1>4, <1>5, ReportResult
<1>7. ~ rep[i].empty
  BY <1>5, <1>6 DEF GateResult
<1> QED
  BY <1>2, <1>3, <1>4, <1>5, <1>7

\* MeasuredIsEvidence: only what the driver measured itself is ever called measured.
THEOREM MeasuredTheorem == Spec => []MeasuredIsEvidence
<1>1. Init => MeasuredIsEvidence
  BY DEF Init, MeasuredIsEvidence
<1>2. CoreInv /\ MeasuredIsEvidence /\ [Next]_vars => MeasuredIsEvidence'
  <2> SUFFICES ASSUME CoreInv, MeasuredIsEvidence, [Next]_vars, verdict' = "measured"
               PROVE  MeasuredIsEvidence'
    BY DEF MeasuredIsEvidence
  <2>1. CASE JudgeWork
    <3>1. PICK w \in Work, works \in BOOLEAN, ran \in [GateNames -> GateRuns] :
             /\ work' = EnsureDone(w, works)
             /\ report' = GatesRun(work', ran)
             /\ verdict' = Judge(work', report')
      BY <2>1, JudgePasses DEF Passed
    <3>2. work' \in Work
      BY <3>1 DEF EnsureDone, Work
    <3> QED
      BY <3>1, <3>2, MeasuredTakes DEF MeasuredIsEvidence
  <2>2. CASE ~ JudgeWork
    BY <2>2, VerdictFrame DEF Passed, MeasuredIsEvidence
  <2> QED
    BY <2>1, <2>2
<1> QED
  BY <1>1, <1>2, CoreTheorem, PTL DEF Spec

\* PassIsDone: what passed is Done in what is published, but for the two known ways
\* round ensure_backlog_done.
THEOREM DoneTheorem == Spec => []PassIsDone
<1>1. Init => PassIsDone
  BY DEF Init, PassIsDone, Passed
<1>2. CoreInv /\ PassIsDone /\ [Next]_vars => PassIsDone'
  <2> SUFFICES ASSUME CoreInv, PassIsDone, [Next]_vars, Passed', edited',
                      work'.book # "dirty"
               PROVE  work'.book = "committed"
    BY DEF PassIsDone
  <2>1. CASE JudgeWork
    <3>1. PICK w \in Work, works \in BOOLEAN :
             /\ CriteriaChecked(w)
             /\ edited' = (w.book = "ticked" => works)
             /\ work' = EnsureDone(w, works)
      BY <2>1, JudgePasses
    <3>2. w.book = "ticked" => works
      BY <3>1
    <3> QED
      BY <3>1, <3>2 DEF CriteriaChecked, EnsureDone, Work
  <2>2. CASE ~ JudgeWork
    BY <2>2, VerdictFrame DEF PassIsDone
  <2> QED
    BY <2>1, <2>2
<1> QED
  BY <1>1, <1>2, CoreTheorem, PTL DEF Spec

(***************************************************************************)
(* The sources of the evidence.                                            *)
(***************************************************************************)
\* Launches and strays only grow.
LEMMA GrowStep ==
  ASSUME CoreInv, [Next]_vars
  PROVE  launches <= launches' /\ strays \subseteq strays'
<1>1. launches <= launches'
  BY LaunchFrame DEF Launch, CoreInv, TypeOK
<1>2. strays \subseteq strays'
  BY DEF Next, History, vars
<1> QED
  BY <1>1, <1>2

\* Who writes to a log is the agent of the turn, or a stray.
LEMMA WriteStep ==
  ASSUME CoreInv, SourceInv, [Next]_vars, NEW l \in Task \X Attempts
  PROVE  \/ log'[l] = log[l]
         \/ \E p \in Launches :
               /\ p \in strays \/ (pc \in Turn /\ p = launches)
               /\ LogOf(p) = l /\ proc[p] \in {"recorded", "running"}
               /\ \/ log'[l].by = {p}
                  \/ proc[p] = "running" /\ log'[l].by = log[l].by \cup {p}
               /\ UNCHANGED <<pc, turnVars, launchVars, author>>
<1>1. CASE log' # log
  <2>1. PICK p \in Launches : OpenLog(p) \/ Say(p) \/ Exit(p)
    BY <1>1, LogFrame
  <2>2. /\ proc[p] \in {"recorded", "running"} /\ UNCHANGED <<pc, turnVars, launchVars, author>>
        /\ \E line \in Logs : /\ log' = [log EXCEPT ![LogOf(p)] = line]
                              /\ \/ line.by = {p}
                                 \/ proc[p] = "running" /\ line.by = log[LogOf(p)].by \cup {p}
    <3>1. CASE OpenLog(p)
      BY <3>1, NoTypes DEF OpenLog, NoLog
    <3>2. CASE Say(p) \/ Exit(p)
      <4>1. PICK markers \in SUBSET Markers, tail \in {"open", "quoted", "exit"} :
               Printed(p, markers, tail)
        BY <3>2 DEF Say, Exit
      <4>2. proc[p] = "running"
        BY <3>2 DEF Say, Exit
      <4>3. LogOf(p) \in Task \X Attempts /\ log \in [Task \X Attempts -> Logs]
        BY <4>2, LogType DEF CoreInv, TypeOK
      <4>4. [by |-> log[LogOf(p)].by \cup {p}, said |-> log[LogOf(p)].said \cup markers,
             tail |-> tail] \in Logs
        BY <4>3 DEF Logs
      <4> QED
        BY <4>1, <4>2, <4>4 DEF Printed
    <3> QED
      BY <2>1, <3>1, <3>2
  <2>3. p \in strays \/ (pc \in Turn /\ p = launches)
    BY <2>2 DEF SourceInv, Driving
  <2>4. log \in [Task \X Attempts -> Logs]
    BY DEF CoreInv, TypeOK
  <2> QED
    BY <2>2, <2>3, <2>4
<1> QED
  BY <1>1

\* A line that is written has its writer.
LEMMA SaidStep ==
  ASSUME CoreInv, SourceInv, [Next]_vars, NEW l \in Task \X Attempts, log'[l].said # {}
  PROVE  log'[l].by # {}
<1>1. log[l].said # {} => log[l].by # {}
  BY DEF SourceInv, CoreInv, TypeOK
<1> QED
  BY <1>1, WriteStep

LEMMA SourceStep == CoreInv /\ CoreInv' /\ SourceInv /\ [Next]_vars => SourceInv'
<1> SUFFICES ASSUME CoreInv, CoreInv', SourceInv, [Next]_vars
             PROVE  SourceInv'
  OBVIOUS
<1> USE DEF CoreInv
<1>1. /\ launches \in Int /\ launches' \in Int /\ launches <= launches'
      /\ \A p \in Launches : p \in Int
  <2>1. launches \in 0 .. MaxLaunches /\ launches' \in 0 .. MaxLaunches
    BY DEF TypeOK
  <2>2. \A p \in Launches : p \in Int
    BY DEF Launches
  <2> QED
    BY <2>1, <2>2, GrowStep
<1>2. \A p \in Launches : proc'[p] # "unborn" => p <= launches'
  <2>1. \A p \in Launches : p > launches' => proc'[p] = "unborn"
    BY DEF TypeOK
  <2> QED
    BY <1>1, <2>1
<1>3. ASSUME NEW p \in strays' PROVE p <= launches'
  <2>1. p \in Launches
    BY DEF TypeOK
  <2>2. p \in strays \/ proc'[p] # "unborn"
    BY DEF Next, History, vars
  <2>3. p \in strays => p <= launches
    BY DEF SourceInv
  <2> QED
    BY <1>1, <1>2, <2>1, <2>2, <2>3
<1>4. ASSUME NEW p \in readable' PROVE p <= launches'
  <2>1. p \in Launches
    BY DEF TypeOK
  <2>2. p \in readable \/ proc[p] \in {"running", "defiant"}
    BY CallFrame DEF Call
  <2>3. p \in readable => p <= launches
    BY DEF SourceInv
  <2>4. proc[p] \in {"running", "defiant"} => p <= launches
    BY <2>1, LogType
  <2> QED
    BY <1>1, <2>1, <2>2, <2>3, <2>4
<1>5. ASSUME NEW t \in Task PROVE author'[t] <= launches'
  <2>1. author[t] \in Int /\ author[t] <= launches /\ 0 <= launches
    BY DEF SourceInv, TypeOK, Launches, Nobody
  <2>2. CASE author'[t] = author[t] \/ author'[t] = Nobody
    BY <1>1, <2>1, <2>2 DEF Nobody
  <2>3. ASSUME NEW p \in Launches, Commit(p), author'[t] # author[t] PROVE author'[t] <= launches'
    <3>1. author'[t] = p /\ proc[p] # "unborn"
      BY <2>3 DEF Commit, Active, TypeOK
    <3> QED
      BY <3>1, <1>1, LogType
  <2>4. author \in [Task -> Launches \cup {Nobody}]
    BY DEF TypeOK
  <2>5. ASSUME NEW resumed \in BOOLEAN, Start(resumed)
        PROVE  author'[t] = author[t] \/ author'[t] = Nobody
    BY <2>5 DEF Start
  <2>6. ASSUME NEW u \in Task, Cut(u) PROVE author'[t] = author[t] \/ author'[t] = Nobody
    BY <2>4, <2>6 DEF Cut, CutFor
  <2>7. Clear => author'[t] = author[t] \/ author'[t] = Nobody
    BY <2>4 DEF Clear
  <2> QED
    BY <2>2, <2>3, <2>5, <2>6, <2>7, AuthorFrame
<1>6. \A l \in DOMAIN log' : log'[l].said # {} => log'[l].by # {}
  BY SaidStep DEF TypeOK
<1>7. \A p \in Launches : proc'[p] \notin {"unborn", "dead"} /\ ~ Driving(p)' => p \in strays'
  BY DEF SourceInv, Next, History, vars, Driving
<1> QED
  BY <1>3, <1>4, <1>5, <1>6, <1>7 DEF SourceInv

LEMMA SourceInit == Init => SourceInv
  BY BoundsAssumption DEF Init, SourceInv, NoLog, Nobody

LEMMA SourceTheorem == Spec => [](CoreInv /\ SourceInv)
  BY CoreTheorem, SourceInit, SourceStep, PTL DEF Spec

\* The session that the stall check reads is the one of this launch.
LEMMA SessionIsOwn ==
  ASSUME CoreInv, SourceInv, pc \in Turn,
         NEW s \in FindSession(newer, {p \in Launches : taskOf[p] = task}, readable, launches)
  PROVE  s = launches
<1>1. s \in readable /\ s \in Launches /\ s >= launches
  BY DEF FindSession
<1>2. s <= launches /\ s \in Int /\ launches \in Int
  BY <1>1 DEF SourceInv, CoreInv, TypeOK, Launches
<1> QED
  BY <1>1, <1>2

\* StalledIsOwn: an agent is stopped for want of progress for its own calls, whatever
\* transcripts earlier launches have left in the same worktree path.
THEOREM StalledTheorem == Spec => StalledIsOwn
<1>1. CoreInv /\ SourceInv /\ [Next]_vars
        => [ended # "stalled" /\ ended' = "stalled" => Stuck(calls[launches])]_vars
  <2> SUFFICES ASSUME CoreInv, SourceInv, [Next]_vars, ended # "stalled", ended' = "stalled"
               PROVE  Stuck(calls[launches])
    OBVIOUS
  <2>1. pc \in Turn /\ Stalled
    BY TurnFrame
       DEF Turning, Driver, Start, Cut, CutFor, Leave, Launch, Wait, WaitEnds, KillRead, KillGrace,
           KillUnlink, Evidence, Examine, JudgeWork, Clear, Die, VisitDriver, Turn, Points
  <2> QED
    BY <2>1, SessionIsOwn DEF Stalled
<1> QED
  BY <1>1, SourceTheorem, PTL DEF Spec, StalledIsOwn

(***************************************************************************)
(* The log and the worktree of the turn.                                   *)
(***************************************************************************)
\* A turn begins, launches its agent, or is about what it was about before.
LEMMA TurnKept ==
  ASSUME [Next]_vars, pc' \in Turn \cup {"launch"}
  PROVE  \/ \E t \in Task : Cut(t)
         \/ Launch
         \/ /\ pc \in Turn \cup {"launch"} /\ (pc \in Turn <=> pc' \in Turn)
            /\ UNCHANGED <<task, attempt, launchVars>>
  BY TurnFrame, LaunchFrame
     DEF Turning, Driver, Start, Leave, Wait, WaitEnds, KillRead, KillGrace, KillUnlink,
         Evidence, Examine, JudgeWork, Clear, Die, VisitDriver, Turn, Points

\* Who commits in the worktree of the turn is its agent, or a stray.
LEMMA AuthorStep == CoreInv /\ SourceInv /\ AuthorInv /\ [Next]_vars => AuthorInv'
<1> SUFFICES ASSUME CoreInv, SourceInv, AuthorInv, [Next]_vars, pc' \in Turn \cup {"launch"}
             PROVE  author'[task'] \in {Nobody} \cup strays'
                                         \cup (IF pc' \in Turn THEN {launches'} ELSE {})
  BY DEF AuthorInv
<1>1. ASSUME NEW t \in Task, Cut(t)
      PROVE  author'[task'] = Nobody
  BY <1>1 DEF Cut, CutFor, CoreInv, TypeOK
<1>2. CASE Launch
  <2>1. author'[task'] = author[task] /\ pc = "launch"
    BY <1>2 DEF Launch
  <2> QED
    BY <2>1, GrowStep DEF AuthorInv, Turn
<1>3. CASE /\ pc \in Turn \cup {"launch"} /\ (pc \in Turn <=> pc' \in Turn)
           /\ UNCHANGED <<task, attempt, launchVars>>
  <2>1. author[task] \in {Nobody} \cup strays' \cup (IF pc' \in Turn THEN {launches'} ELSE {})
    BY <1>3, GrowStep DEF AuthorInv
  <2>2. CASE author'[task] # author[task]
    <3>1. task \in Task /\ author \in [Task -> Launches \cup {Nobody}]
      BY <1>3 DEF CoreInv, PlaceInv, TypeOK
    <3>2. CASE Clear
      BY <1>3, <3>1, <3>2 DEF Clear
    <3>3. ASSUME NEW p \in Launches, Commit(p)
          PROVE  author'[task] \in strays' \cup (IF pc' \in Turn THEN {launches'} ELSE {})
      <4>1. author'[task] = p /\ proc[p] \notin {"unborn", "dead"}
        BY <2>2, <3>1, <3>3 DEF Commit, Active
      <4>2. p \in strays \/ (pc \in Turn /\ p = launches)
        BY <4>1 DEF SourceInv, Driving
      <4> QED
        BY <1>3, <4>1, <4>2, GrowStep
    <3> QED
      BY <1>1, <1>3, <2>2, <3>2, <3>3, AuthorFrame DEF Start, Turn
  <2> QED
    BY <1>3, <2>1, <2>2
<1> QED
  BY <1>1, <1>2, <1>3, TurnKept

\* A signal sets nothing to work.
LEMMA SignalStep ==
  ASSUME TypeOK, NEW p \in Launches, NEW q, Terminate(q) \/ FinishOff(q)
  PROVE  proc'[p] \in {proc[p], "dead"} \/ (proc[p] = "running" /\ proc'[p] = "defiant")
  BY DEF TypeOK, Terminate, FinishOff

\* A group is at work once it has opened the log.
LEMMA ActiveStep ==
  ASSUME CoreInv, [Next]_vars, NEW p \in Launches, Active(p)', ~ Active(p)
  PROVE  OpenLog(p)
<1> USE DEF CoreInv
<1>1. proc \in [Launches -> States] /\ proc'[p] # proc[p]
  BY DEF TypeOK, Active
<1>2. ~ Launch
  BY <1>1, NextLaunch DEF Launch, TypeOK, Active, PlaceInv
<1>3. ~ KillRead /\ ~ KillGrace /\ ~ VisitGrace /\ ~ \E t \in Task : VisitTask(t)
  BY <1>1, SignalStep DEF Active, KillRead, KillGrace, VisitTask, VisitGrace
<1>4. \A q \in Launches : ~ RecordPid(q) /\ ~ Exit(q) /\ ~ Vanish(q)
  BY <1>1 DEF Active, RecordPid, Exit, Vanish
<1>5. \A q \in Launches : OpenLog(q) => q = p
  BY <1>1 DEF Active, OpenLog
<1> QED
  BY <1>1, <1>2, <1>3, <1>4, <1>5, ProcFrame

\* The agent at work in the turn has truncated the log.
LEMMA OwnStep == CoreInv /\ SourceInv /\ OwnInv /\ [Next]_vars => OwnInv'
<1> SUFFICES ASSUME CoreInv, SourceInv, OwnInv, [Next]_vars, pc' \in Turn,
                    Active(launches)' \/ author'[task'] = launches'
             PROVE  log'[<<task', attempt'>>].by \subseteq {launches'} \cup strays'
  BY DEF OwnInv
<1>1. ~ \E t \in Task : Cut(t)
  BY DEF Cut, CutFor, Turn
<1>2. ~ Launch
  <2> SUFFICES ASSUME Launch PROVE FALSE
    OBVIOUS
  <2>1. proc'[launches'] = "starting" /\ author'[task'] = author[task] /\ task \in Task
        /\ launches' = launches + 1
    BY NextLaunch DEF Launch, CoreInv, TypeOK, PlaceInv
  <2>2. author[task] \in Int /\ launches \in Int /\ author[task] <= launches
    BY <2>1 DEF SourceInv, CoreInv, TypeOK, Launches, Nobody
  <2> QED
    BY <2>1, <2>2 DEF Active
<1>3. pc \in Turn /\ UNCHANGED <<task, attempt, launchVars>>
  BY <1>1, <1>2, TurnKept
<1>4. /\ task \in Task /\ <<task, attempt>> \in Task \X Attempts /\ launches \in Launches
      /\ LogOf(launches) = <<task, attempt>>
  BY <1>3, TurnType DEF CoreInv, PlaceInv
<1>5. CASE OpenLog(launches)
  BY <1>3, <1>4, <1>5 DEF OpenLog, CoreInv, TypeOK, NoLog
<1>6. CASE ~ OpenLog(launches)
  <2>1. Active(launches)' => Active(launches)
    BY <1>3, <1>4, <1>6, ActiveStep
  <2>2. author'[task] = launches => author[task] = launches \/ Active(launches)
    <3>1. author \in [Task -> Launches \cup {Nobody}] /\ launches # Nobody
      BY <1>4 DEF CoreInv, TypeOK, Launches, Nobody
    <3> QED
      BY <1>1, <1>3, <1>4, <3>1, AuthorFrame DEF Start, Clear, Commit, Turn, Active
  <2>3. log[<<task, attempt>>].by \subseteq {launches} \cup strays'
    BY <1>3, <2>1, <2>2, GrowStep DEF OwnInv
  <2>4. log'[<<task, attempt>>].by \subseteq {launches} \cup strays'
    BY <1>4, <2>3, WriteStep, GrowStep
  <2> QED
    BY <1>3, <2>4
<1> QED
  BY <1>5, <1>6

\* What the wait looks at is the log as it was, or the work of a stray or of its agent.
LEMMA LogStep == CoreInv /\ SourceInv /\ OwnInv /\ LogInv /\ [Next]_vars => LogInv'
<1> SUFFICES ASSUME CoreInv, SourceInv, OwnInv, LogInv, [Next]_vars, pc' \in {"launch", "wait"}
             PROVE  LogInv'
  BY DEF LogInv
<1>1. ASSUME NEW t \in Task, Cut(t)
      PROVE  LogInv'
  BY <1>1 DEF Cut, CutFor, LogInv
<1>2. CASE Launch
  <2>1. /\ pc = "launch" /\ log' = log
        /\ UNCHANGED <<task, attempt, baseline>>
    BY <1>2 DEF Launch
  <2> QED
    BY <2>1, GrowStep DEF LogInv
<1>3. CASE /\ pc' = pc /\ UNCHANGED <<task, attempt, baseline, launchVars>>
  <2>1. <<task, attempt>> \in Task \X Attempts
    BY <1>3, TurnType DEF CoreInv, PlaceInv, Turn, Points
  <2>2. CASE log'[<<task, attempt>>] = log[<<task, attempt>>]
    BY <1>3, <2>2, GrowStep DEF LogInv
  <2>3. ASSUME NEW p \in Launches,
               p \in strays \/ (pc \in Turn /\ p = launches),
               LogOf(p) = <<task, attempt>>,
               \/ log'[<<task, attempt>>].by = {p}
               \/ /\ proc[p] = "running"
                  /\ log'[<<task, attempt>>].by = log[<<task, attempt>>].by \cup {p}
        PROVE  LogInv'
    <3>1. CASE p \in strays
      BY <1>3, <2>3, <3>1, GrowStep DEF LogInv
    <3>2. CASE p \notin strays
      <4>1. p = launches /\ pc = "wait"
        BY <1>3, <2>3, <3>2 DEF Turn
      <4>2. CASE log'[<<task, attempt>>].by = {p}
        BY <1>3, <4>1, <4>2 DEF LogInv
      <4>3. CASE /\ proc[p] = "running"
                 /\ log'[<<task, attempt>>].by = log[<<task, attempt>>].by \cup {p}
        <5>1. log[<<task, attempt>>].by \subseteq {launches} \cup strays
          BY <4>1, <4>3 DEF OwnInv, Active, Turn, Points
        <5>2. \/ log'[<<task, attempt>>].by = {launches}
              \/ log'[<<task, attempt>>].by \cap strays # {}
          BY <4>1, <4>3, <5>1
        <5> QED
          BY <1>3, <4>1, <5>2, GrowStep DEF LogInv
      <4> QED
        BY <2>3, <4>2, <4>3
    <3> QED
      BY <3>1, <3>2
  <2> QED
    BY <2>1, <2>2, <2>3, WriteStep
<1> QED
  <2>1. \/ \E t \in Task : Cut(t)
        \/ Launch
        \/ pc' = pc /\ UNCHANGED <<task, attempt, baseline, launchVars>>
    BY TurnFrame, LaunchFrame
       DEF Turning, Driver, Start, Leave, Wait, WaitEnds, KillRead, KillGrace, KillUnlink,
           Evidence, Examine, JudgeWork, Clear, Die, VisitDriver
  <2> QED
    BY <1>1, <1>2, <1>3, <2>1

TurnInv == CoreInv /\ SourceInv /\ AuthorInv /\ OwnInv /\ LogInv

LEMMA TurnTheorem == Spec => []TurnInv
<1>1. Init => AuthorInv /\ OwnInv /\ LogInv
  BY DEF Init, AuthorInv, OwnInv, LogInv, Turn, Points
<1> QED
  BY <1>1, SourceTheorem, AuthorStep, OwnStep, LogStep, PTL DEF Spec, TurnInv

\* FinishedIsOwn: the exit marker that ends a wait is not one that the log held
\* before the launch.
THEOREM FinishedTheorem == Spec => []FinishedIsOwn
<1>1. Init => FinishedIsOwn
  BY DEF Init, FinishedIsOwn
<1>2. TurnInv /\ FinishedIsOwn /\ [Next]_vars => FinishedIsOwn'
  <2> SUFFICES ASSUME TurnInv, FinishedIsOwn, [Next]_vars, ended' = "finished"
               PROVE  \/ log'[<<task', attempt'>>].by = {launches'}
                      \/ log'[<<task', attempt'>>].by \cap strays' # {}
    BY DEF FinishedIsOwn
  <2>1. \/ pc = "wait" /\ HasExited /\ Wait
        \/ ended = "finished" /\ UNCHANGED <<task, attempt>>
    <3>1. pc \notin {"down", "guard", "launch"} \/ ended = "no"
      BY DEF TurnInv, CoreInv, PlaceInv
    <3> QED
      BY <3>1, TurnFrame
         DEF Turning, Driver, Start, Cut, CutFor, Leave, Launch, Wait, WaitEnds, KillRead,
             KillGrace, KillUnlink, Evidence, Examine, JudgeWork, Clear, Die, VisitDriver
  <2>2. CASE pc = "wait" /\ HasExited /\ Wait
    BY <2>2, GrowStep DEF TurnInv, LogInv, HasExited, Wait, WaitEnds
  <2>3. CASE ended = "finished" /\ UNCHANGED <<task, attempt>>
    <3>1. pc \in Turn
      BY <2>3 DEF TurnInv, CoreInv, PlaceInv, TypeOK, Turn
    <3>2. <<task, attempt>> \in Task \X Attempts /\ launches' = launches
      BY <3>1, TurnType, LaunchFrame DEF TurnInv, CoreInv, Launch, Turn
    <3>3. \/ log[<<task, attempt>>].by = {launches}
          \/ log[<<task, attempt>>].by \cap strays # {}
      BY <2>3 DEF FinishedIsOwn
    <3>4. \/ log'[<<task, attempt>>].by = {launches}
          \/ log'[<<task, attempt>>].by \cap strays' # {}
      BY <3>2, <3>3, WriteStep, GrowStep DEF TurnInv
    <3> QED
      BY <2>3, <3>2, <3>4
  <2> QED
    BY <2>1, <2>2, <2>3
<1> QED
  BY <1>1, <1>2, TurnTheorem, PTL DEF Spec

\* What verify accepts is the agent's own, or a stray's.
LEMMA EvidenceIsOwn ==
  ASSUME TurnInv, Evidence, pc' = "judge", strays \subseteq strays'
  PROVE  Earned'
<1>1. /\ pc \in Turn /\ text' = log[<<task, attempt>>] /\ author[task] # Nobody
      /\ ParseMarker(log[<<task, attempt>>].said, task) = "done"
      /\ UNCHANGED <<task, attempt, launches, author>>
  BY DEF Evidence, Examine, Turn, Points
<1>2. task \in Task /\ <<task, attempt>> \in Task \X Attempts
  BY <1>1, TurnType DEF TurnInv, CoreInv
<1>3. <<"done", task>> \in text'.said /\ <<"bail", task>> \notin text'.said
  BY <1>1, <1>2 DEF ParseMarker, Bailed
<1>4. text'.by # {}
  BY <1>1, <1>2, <1>3 DEF TurnInv, SourceInv, CoreInv, TypeOK
<1>5. author[task] \in strays \cup {launches}
  BY <1>1 DEF TurnInv, AuthorInv
<1>6. CASE author[task] \in strays
  BY <1>1, <1>3, <1>6 DEF Earned
<1>7. CASE author[task] = launches
  <2>1. text'.by \subseteq {launches} \cup strays
    BY <1>1, <1>7 DEF TurnInv, OwnInv
  <2>2. text'.by = {launches} \/ text'.by \cap strays # {}
    BY <1>4, <2>1
  <2> QED
    BY <1>1, <1>3, <1>7, <2>2 DEF Earned
<1> QED
  BY <1>5, <1>6, <1>7

\* It stays so until the verdict is forgotten.
LEMMA EarnedKept ==
  ASSUME TurnInv, Earned, [Next]_vars, pc \in {"judge", "clear"}, ~ Clear,
         UNCHANGED <<task, text>>
  PROVE  Earned'
<1>1. launches' = launches /\ strays \subseteq strays'
  BY LaunchFrame, GrowStep DEF Launch, TurnInv
<1>2. author'[task] = author[task]
  <2>1. task \in Task /\ author \in [Task -> Launches \cup {Nobody}]
    BY DEF TurnInv, CoreInv, TypeOK, Turn, Points
  <2>2. \A p \in Launches : Commit(p) => author'[task] = author[task]
    BY <2>1 DEF Commit, Earned
  <2> QED
    BY <2>2, AuthorFrame DEF Start, Cut, CutFor
<1> QED
  BY <1>1, <1>2 DEF Earned

LEMMA EarnedStep == TurnInv /\ EarnedInv /\ [Next]_vars => EarnedInv'
<1> SUFFICES ASSUME TurnInv, EarnedInv, [Next]_vars, pc' = "judge" \/ Passed'
             PROVE  Earned'
  BY DEF EarnedInv
<1>1. \/ Evidence /\ pc' = "judge"
      \/ pc = "judge" /\ UNCHANGED <<task, text>>
      \/ Passed /\ UNCHANGED <<pc, task, text>>
  <2>1. CASE Passed'
    BY <2>1, VerdictFrame DEF JudgeWork, TurnInv
  <2>2. CASE pc' = "judge"
    BY <2>2, TurnFrame
       DEF Turning, Driver, Start, Cut, CutFor, Leave, Launch, Wait, WaitEnds, KillRead, KillGrace,
           KillUnlink, Evidence, Examine, JudgeWork, Clear, Die, VisitDriver
  <2> QED
    BY <2>1, <2>2
<1>2. CASE Evidence /\ pc' = "judge"
  BY <1>2, EvidenceIsOwn, GrowStep DEF TurnInv
<1>3. CASE pc = "judge" /\ UNCHANGED <<task, text>>
  BY <1>3, EarnedKept DEF EarnedInv, Clear
<1>4. CASE Passed /\ UNCHANGED <<pc, task, text>>
  <2>1. pc = "clear" /\ ~ Clear
    BY <1>4 DEF Passed, Clear, TurnInv, CoreInv, PlaceInv
  <2> QED
    BY <1>4, <2>1, EarnedKept DEF EarnedInv
<1> QED
  BY <1>1, <1>2, <1>3, <1>4

\* PassIsEarned: an attempt passes on its own agent's DONE marker and commit, unless
\* an agent that outlived its turn had a hand in the log or the worktree.
THEOREM EarnedTheorem == Spec => []PassIsEarned
<1>1. Init => EarnedInv
  BY DEF Init, EarnedInv, Passed
<1>2. EarnedInv => PassIsEarned
  BY DEF EarnedInv, PassIsEarned, Earned
<1> QED
  BY <1>1, <1>2, TurnTheorem, EarnedStep, PTL DEF Spec

(***************************************************************************)
(* The agents a kill does not reach.                                       *)
(***************************************************************************)
HuntInv == DefiantInv /\ UnnamedInv /\ UnlinkInv

\* An agent that lives was alive before, or is the one launched.
LEMMA AliveStep ==
  ASSUME CoreInv, [Next]_vars, NEW p \in Launches, Alive(p)', ~ Alive(p)
  PROVE  Launch /\ p = launches' /\ proc[p] = "unborn"
<1> USE DEF CoreInv
<1>1. proc \in [Launches -> States] /\ proc'[p] # proc[p]
  BY DEF TypeOK, Alive
<1>2. ~ KillRead /\ ~ KillGrace /\ ~ VisitGrace /\ ~ \E t \in Task : VisitTask(t)
  BY <1>1, SignalStep DEF Alive, KillRead, KillGrace, VisitTask, VisitGrace
<1>3. \A q \in Launches : ~ RecordPid(q) /\ ~ OpenLog(q) /\ ~ Exit(q) /\ ~ Vanish(q)
  BY <1>1 DEF Alive, RecordPid, OpenLog, Exit, Vanish
<1>4. Launch
  BY <1>1, <1>2, <1>3, ProcFrame
<1>5. p = launches + 1 /\ launches' = launches + 1
  BY <1>1, <1>4 DEF Launch, TypeOK
<1>6. p > launches
  BY <1>5 DEF TypeOK
<1> QED
  BY <1>4, <1>5, <1>6 DEF TypeOK

\* A kill that has missed an agent does not see it later ...
LEMMA MissedKept ==
  ASSUME [Next]_vars, NEW p \in Launches, Alive(p)'
  PROVE  (p \in missed => p \in missed') /\ (p \in widowed => p \in widowed')
  BY DEF Next, History, vars, Alive

\* ... the one `burn kill` is at is killed before it goes on ...
LEMMA HitKept ==
  ASSUME CoreInv, [Next]_vars, NEW p \in Launches, Alive(p)', p = hit
  PROVE  p = hit'
<1>1. hit # Nobody /\ proc \in [Launches -> States]
  BY DEF CoreInv, TypeOK, Nobody, Launches
<1>2. ~ VisitGrace
  BY <1>1 DEF VisitGrace, FinishOff, Alive
<1>3. killer = "grace"
  BY <1>1 DEF CoreInv, KillerInv
<1> QED
  BY <1>2, <1>3, KillFrame DEF Start, BurnKill, KillSentinel, KillList, VisitDriver, VisitTask

\* ... and so is the one the driver is at, unless the driver dies.
LEMMA TargetKept ==
  ASSUME CoreInv, [Next]_vars, NEW p \in Launches, Alive(p)', pc = "grace", p = target
  PROVE  Hunted(p)'
<1>1. proc \in [Launches -> States]
  BY DEF CoreInv, TypeOK
<1>2. ~ KillGrace
  BY <1>1 DEF KillGrace, FinishOff, Alive
<1>3. (pc' = "grace" /\ target' = target) \/ pc' = "down"
  BY <1>2, TurnFrame
     DEF Turning, Driver, Start, Cut, CutFor, Leave, Launch, Wait, WaitEnds, KillRead, KillUnlink,
         Evidence, Examine, JudgeWork, Clear, Die, VisitDriver
<1>4. pc' = "down" => p \in missed'
  BY DEF Next, History, vars, Alive
<1> QED
  BY <1>3, <1>4 DEF Hunted

LEMMA HuntedKept ==
  ASSUME CoreInv, [Next]_vars, NEW p \in Launches, Alive(p)', Hunted(p)
  PROVE  Hunted(p)'
  BY MissedKept, HitKept, TargetKept DEF Hunted

\* A pid that is written down is found, unless its agent has ignored a SIGTERM.
LEMMA NotFound ==
  ASSUME DefiantInv, NEW p \in Launches, Born(p), Alive(p), ~ Found(p)
  PROVE  Hunted(p)
  BY DEF DefiantInv, Born, Alive, Found, Nobody, Launches

LEMMA DefiantStep == CoreInv /\ DefiantInv /\ [Next]_vars => DefiantInv'
<1> SUFFICES ASSUME CoreInv, DefiantInv, [Next]_vars, NEW p \in Launches, proc'[p] = "defiant"
             PROVE  Hunted(p)'
  BY DEF DefiantInv
<1>1. Alive(p)'
  BY DEF Alive
<1>2. CASE proc[p] = "defiant"
  BY <1>1, <1>2, HuntedKept DEF DefiantInv
<1>3. CASE proc[p] # "defiant"
  <2>1. proc \in [Launches -> States] /\ proc'[p] # proc[p]
    BY <1>3 DEF CoreInv, TypeOK
  <2>2. /\ ~ Launch /\ ~ KillGrace /\ ~ VisitGrace
        /\ \A q \in Launches : ~ RecordPid(q) /\ ~ OpenLog(q) /\ ~ Exit(q) /\ ~ Vanish(q)
    BY <2>1 DEF Launch, KillGrace, VisitGrace, FinishOff, RecordPid, OpenLog, Exit, Vanish
  <2>3. CASE KillRead
    BY <2>1, <2>3 DEF KillRead, Terminate, Hunted
  <2>4. ASSUME NEW t \in Task, VisitTask(t) PROVE Hunted(p)'
    BY <2>1, <2>4 DEF VisitTask, Terminate, Hunted
  <2> QED
    BY <2>1, <2>2, <2>3, <2>4, ProcFrame
<1> QED
  BY <1>2, <1>3

\* An agent that no pidfile names while a kill is at work is missed, unless the kill
\* has it in hand.
LEMMA LostName ==
  ASSUME CoreInv, UnlinkInv, [Next]_vars, NEW p \in Launches, Killing \/ Killing',
         p \in Unnamed'
  PROVE  Hunted(p)' \/ UNCHANGED vars
<1>1. Alive(p)'
  BY DEF Unnamed
<1>2. CASE p # target
  BY <1>1, <1>2 DEF Next, History, Hunted, Alive
<1>3. CASE p = target
  <2>1. pc \in {"grace", "unlink"} /\ target # Nobody
    BY <1>3 DEF CoreInv, PlaceInv, Launches, Nobody
  <2>2. Alive(p)
    BY <1>1, <2>1, AliveStep DEF Launch
  <2>3. Hunted(p)
    BY <1>3, <2>1, <2>2 DEF UnlinkInv, Hunted
  <2> QED
    BY <1>1, <2>3, HuntedKept
<1> QED
  BY <1>2, <1>3

LEMMA UnnamedStep == CoreInv /\ HuntInv /\ [Next]_vars => UnnamedInv'
<1> SUFFICES ASSUME CoreInv, HuntInv, [Next]_vars, Killing', NEW p \in Unnamed'
             PROVE  Hunted(p)'
  BY DEF UnnamedInv
<1>1. CASE UNCHANGED vars
  BY <1>1 DEF HuntInv, UnnamedInv, Unnamed, Killing, Hunted, Alive, vars
<1>2. p \in Launches
  BY DEF Unnamed
<1> QED
  BY <1>1, <1>2, LostName DEF HuntInv

\* The agent that the driver's pidfile names, when it reads it.
LEMMA ReadStep ==
  ASSUME CoreInv, HuntInv, [Next]_vars, KillRead, NEW p \in Launches, p = pidfile[task],
         Alive(p)'
  PROVE  Hunted(p)'
<1>1. CASE Found(p)
  BY <1>1 DEF KillRead, Hunted
<1>2. CASE ~ Found(p)
  <2>1. Alive(p)
    BY AliveStep DEF Launch, KillRead
  <2>2. Born(p)
    BY TurnType DEF CoreInv, PidInv, KillRead, Turn, Points, Launches, Nobody
  <2> QED
    BY <1>2, <2>1, <2>2, NotFound, HuntedKept DEF HuntInv
<1> QED
  BY <1>1, <1>2

LEMMA UnlinkStep == CoreInv /\ HuntInv /\ [Next]_vars => UnlinkInv'
<1> SUFFICES ASSUME CoreInv, HuntInv, [Next]_vars, pc' \in {"grace", "unlink"}
             PROVE  UnlinkInv'
  BY DEF UnlinkInv
<1>1. \/ KillRead /\ pc = "kill" /\ target' = pidfile[task]
      \/ KillGrace /\ pc = "grace" /\ target' = target
      \/ pc' = pc /\ target' = target
  <2>1. CASE UNCHANGED <<pc, turnVars>>
    BY <2>1
  <2>2. CASE Turning /\ ~ KillRead /\ ~ KillGrace
    BY <2>2
       DEF Turning, Driver, Start, Cut, CutFor, Leave, Launch, Wait, WaitEnds, KillUnlink, Evidence,
           Examine, JudgeWork, Clear, Die, VisitDriver
  <2>3. CASE KillRead \/ KillGrace
    BY <2>3 DEF KillRead, KillGrace
  <2> QED
    BY <2>1, <2>2, <2>3, TurnFrame
<1>2. launches' = launches /\ launches \in Launches /\ LogOf(launches) = <<task, attempt>>
      /\ pc \in Turn
  BY <1>1, LaunchFrame DEF Launch, CoreInv, PlaceInv, Turn, Points
<1>3. ASSUME Alive(launches)'
      PROVE  Hunted(launches)'
  <2>1. Alive(launches)' /\ launches' = launches /\ Alive(launches)
    BY <1>2, <1>3, AliveStep DEF Launch, Turn
  <2>2. CASE Hunted(launches)
    BY <1>2, <2>1, <2>2, HuntedKept DEF Alive, Hunted
  <2>3. CASE ~ Hunted(launches)
    <3>1. KillRead /\ pc = "kill"
      BY <1>1, <2>1, <2>3 DEF HuntInv, UnlinkInv
    <3>2. launches \notin Unnamed
      BY <2>3, <3>1 DEF HuntInv, UnnamedInv, Killing
    <3>3. launches = pidfile[task]
      BY <1>2, <2>1, <3>2 DEF Unnamed, LogOf
    <3> QED
      BY <1>2, <2>1, <3>1, <3>3, ReadStep DEF Alive, Hunted
  <2> QED
    BY <2>2, <2>3
<1>4. ASSUME pc' = "unlink", target' # Nobody, Alive(target)'
      PROVE  Hunted(target)'
  <2>1. target' \in Launches
    BY <1>1, <1>2, <1>4, TurnType DEF CoreInv, TypeOK
  <2>2. CASE KillRead /\ target' = pidfile[task]
    BY <1>4, <2>1, <2>2, ReadStep DEF Alive, Hunted
  <2>3. CASE KillGrace
    BY <1>4, <2>1, <2>3 DEF KillGrace, FinishOff, CoreInv, TypeOK, Alive
  <2>4. CASE pc' = pc /\ target' = target
    <3>1. Alive(target) /\ target \in Launches
      BY <1>2, <1>4, <2>1, <2>4, AliveStep DEF Launch, Turn, Alive
    <3>2. Hunted(target)
      BY <1>4, <2>4, <3>1 DEF HuntInv, UnlinkInv
    <3> QED
      BY <1>4, <2>1, <2>4, <3>1, <3>2, HuntedKept DEF Alive, Hunted
  <2> QED
    BY <1>1, <2>2, <2>3, <2>4
<1> QED
  BY <1>3, <1>4 DEF UnlinkInv

LEMMA HuntTheorem == Spec => [](CoreInv /\ HuntInv)
<1>1. Init => HuntInv
  BY DEF Init, HuntInv, DefiantInv, UnnamedInv, UnlinkInv, Killing
<1>2. CoreInv /\ HuntInv /\ [Next]_vars => HuntInv'
  BY DefiantStep, UnnamedStep, UnlinkStep DEF HuntInv
<1> QED
  BY <1>1, <1>2, CoreTheorem, PTL DEF Spec

\* NoStrayAgents: an agent outlives its turn only when its driver died in the turn, or
\* a kill could not see it, or `burn kill` has it in hand.
THEOREM StrayTheorem == Spec => []NoStrayAgents
<1>1. Init => NoStrayAgents
  BY DEF Init, NoStrayAgents, Alive
<1>2. CoreInv /\ HuntInv /\ NoStrayAgents /\ [Next]_vars => NoStrayAgents'
  <2> SUFFICES ASSUME CoreInv, HuntInv, NoStrayAgents, [Next]_vars,
                      NEW p \in Launches, Alive(p)'
               PROVE  Driving(p)' \/ p = hit' \/ p \in widowed' \cup missed'
    BY DEF NoStrayAgents
  <2>1. CASE ~ Alive(p)
    BY <2>1, AliveStep DEF Launch, Driving, Turn, Points
  <2>2. CASE Alive(p) /\ ~ Driving(p)
    BY <2>2, HitKept, MissedKept DEF NoStrayAgents
  <2>3. CASE Alive(p) /\ Driving(p)
    <3>1. p = launches /\ pc \in Turn /\ launches' = launches
      BY <2>3, LaunchFrame DEF Driving, Launch, Turn
    <3>2. pc' \in Turn \/ pc' = "down" \/ (KillUnlink /\ pc' = "guard")
      <4>1. CASE UNCHANGED <<pc, turnVars>>
        BY <3>1, <4>1
      <4>2. CASE Driver
        BY <3>1, <4>2
           DEF Driver, Cut, CutFor, Leave, Launch, Wait, WaitEnds, KillRead, KillGrace,
               KillUnlink, Evidence, Examine, JudgeWork, Clear, Turn, Points
      <4>3. CASE Die \/ VisitDriver
        BY <3>1, <4>3 DEF Die, VisitDriver, DriverGone
      <4>4. ASSUME NEW resumed \in BOOLEAN, Start(resumed) PROVE FALSE
        BY <3>1, <4>4 DEF Start, Turn
      <4> QED
        BY <4>1, <4>2, <4>3, <4>4, TurnFrame DEF Turning
    <3>3. CASE pc' \in Turn
      BY <3>1, <3>3 DEF Driving
    <3>4. CASE pc' = "down"
      <4>1. pc # "down" /\ Next
        BY <3>1, <3>4 DEF Turn, vars
      <4> QED
        BY <2>3, <3>4, <4>1 DEF Next, History, Alive
    <3>5. CASE KillUnlink /\ pc' = "guard"
      <4>1. p = hit \/ p \in missed
        BY <2>3, <3>1, <3>5 DEF HuntInv, UnlinkInv, Hunted, KillUnlink
      <4> QED
        BY <4>1, HitKept, MissedKept
    <3> QED
      BY <3>2, <3>3, <3>4, <3>5
  <2> QED
    BY <2>1, <2>2, <2>3
<1> QED
  BY <1>1, <1>2, HuntTheorem, PTL DEF Spec

\* An agent launched while `burn kill` is at work is missed.
LEMMA LateLaunch ==
  ASSUME CoreInv, DownInv, [Next]_vars, kill, killer # "list", Launch, NEW p \in Launches,
         p = launches', proc[p] = "unborn", Alive(p)'
  PROVE  p \in missed'
<1>1. pc = "launch" /\ killer' = killer /\ pidfile' = pidfile /\ taskOf'[p] = task
  BY DEF Launch, CoreInv, TypeOK
<1>2. killer \notin {"none", "list"}
  BY <1>1 DEF DownInv, CoreInv, KillerInv
<1>3. target = Nobody /\ task \in Task
  BY <1>1 DEF CoreInv, PlaceInv
<1>4. pidfile[task] # p /\ p # Nobody
  BY <1>3 DEF CoreInv, PidInv, Born, Launches, Nobody
<1>5. p \in Unnamed'
  BY <1>1, <1>4 DEF Unnamed, Alive
<1>6. Next /\ Killing
  BY <1>1, <1>2 DEF Killing, Launch, vars
<1> QED
  BY <1>3, <1>4, <1>5, <1>6 DEF Next, History, Alive

\* `burn kill` has been at every agent it could see, or has still to visit it.
LEMMA ReachStep ==
  CoreInv /\ CoreInv' /\ HuntInv /\ DownInv /\ ReachInv /\ [Next]_vars => ReachInv'
<1> SUFFICES ASSUME CoreInv, CoreInv', HuntInv, DownInv, ReachInv, [Next]_vars,
                    kill', killer' # "list", NEW p \in Launches, Alive(p)'
             PROVE  \/ Hunted(p)'
                    \/ pidfile'[taskOf'[p]] = p /\ taskOf'[p] \in todo'
  BY DEF ReachInv
<1>1. CASE KillList
  <2>1. killer = "list" /\ UNCHANGED <<pidfile, taskOf, proc>>
    BY <1>1 DEF KillList
  <2>2. Alive(p) /\ Killing
    BY <2>1 DEF Alive, Killing
  <2>3. CASE p \in Unnamed
    BY <2>2, <2>3, HuntedKept DEF HuntInv, UnnamedInv
  <2>4. CASE p \notin Unnamed
    <3>1. pidfile[taskOf[p]] = p /\ p # Nobody
      BY <2>2, <2>4 DEF Unnamed, Launches, Nobody
    <3>2. taskOf[p] \in Task
      BY <2>2, LogType DEF CoreInv, Alive
    <3> QED
      BY <1>1, <2>1, <3>1, <3>2 DEF KillList
  <2> QED
    BY <2>3, <2>4
<1>2. CASE ~ KillList
  <2>1. kill /\ killer # "list"
    BY <1>2, KillFrame DEF Start, BurnKill, KillSentinel, VisitDriver, VisitTask, VisitGrace
  <2>2. CASE ~ Alive(p)
    BY <2>1, <2>2, AliveStep, LateLaunch DEF Hunted
  <2>3. CASE Alive(p) /\ Hunted(p)
    BY <2>3, HuntedKept
  <2>4. CASE Alive(p) /\ ~ Hunted(p)
    <3>1. pidfile[taskOf[p]] = p /\ taskOf[p] \in todo
      BY <2>1, <2>4 DEF ReachInv
    <3>2. taskOf[p] \in Task /\ taskOf'[p] = taskOf[p] /\ taskOf[p] # OwnPid
      <4>1. taskOf[p] \in Task /\ p <= launches
        BY <2>4, LogType DEF CoreInv, Alive
      <4>2. taskOf \in [Launches -> Task \cup {NoTask}]
        BY DEF CoreInv, TypeOK
      <4>3. Launch => p # launches'
        BY <4>1, NextLaunch DEF CoreInv, PlaceInv, Launch
      <4>4. taskOf'[p] = taskOf[p]
        BY <4>2, <4>3, LaunchFrame DEF Launch, launchVars
      <4> QED
        BY <4>1, <4>4, TaskAssumption DEF OwnPid
    <3>3. CASE VisitTask(taskOf[p])
      <4>1. CASE Found(p)
        BY <3>1, <3>3, <4>1 DEF VisitTask, Hunted
      <4>2. CASE ~ Found(p)
        <5>1. Born(p)
          BY <3>1, <3>2 DEF CoreInv, PidInv, Launches, Nobody
        <5> QED
          BY <2>4, <4>2, <5>1, NotFound DEF HuntInv
      <4> QED
        BY <4>1, <4>2
    <3>4. CASE ~ VisitTask(taskOf[p])
      <4>1. taskOf[p] \in todo'
        BY <1>2, <2>1, <3>1, <3>2, <3>4, KillFrame
           DEF Start, BurnKill, KillSentinel, VisitDriver, VisitTask, VisitGrace
      <4>2. Killing'
        BY <4>1 DEF CoreInv, KillerInv, Killing
      <4>3. CASE pidfile'[taskOf'[p]] # p
        <5>1. p \in Unnamed'
          BY <4>3 DEF Unnamed, Alive
        <5> QED
          BY <2>4, <3>1, <4>2, <4>3, <5>1, LostName DEF HuntInv, vars
      <4> QED
        BY <3>2, <4>1, <4>3
    <3> QED
      BY <3>3, <3>4
  <2> QED
    BY <2>2, <2>3, <2>4
<1> QED
  BY <1>1, <1>2

\* KillReaches: when `burn kill` is through, the agents that still live are those that
\* no pidfile named while it was at work, or whose own kill was cut short.
THEOREM ReachTheorem == Spec => []KillReaches
<1>1. Init => DownInv /\ ReachInv
  BY DEF Init, DownInv, ReachInv
<1>2. CoreInv /\ DownInv /\ ReachInv => KillReaches
  <2> SUFFICES ASSUME CoreInv, DownInv, ReachInv, kill, killer = "none",
                      NEW p \in Launches, Alive(p)
               PROVE  p \in missed
    BY DEF KillReaches
  <2>1. todo = {} /\ hit = Nobody /\ pc \in {"down", "guard"}
    BY DEF CoreInv, KillerInv, DownInv
  <2> QED
    BY <2>1 DEF ReachInv, Hunted, Nobody, Launches
<1> QED
  BY <1>1, <1>2, HuntTheorem, DownStep, ReachStep, PTL DEF Spec

=============================================================================
