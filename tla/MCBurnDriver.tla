----------------------------- MODULE MCBurnDriver -----------------------------
(***************************************************************************)
(* Small backlogs and command lines for the runs of BurnDriver.            *)
(***************************************************************************)
EXTENDS BurnDriverBoard, TLC

Open == [status |-> "To Do", where |-> "live", rev |-> 1, work |-> {}]
Unspent == [n |-> 0, fp |-> 0]

\* Task 2 depends on task 1.
ChainTasks   == {1, 2}
ChainDeps    == (1 :> {}) @@ (2 :> {1})
ChainOrdinal == (1 :> 1) @@ (2 :> 0)
ChainParent  == (1 :> NoTask) @@ (2 :> NoTask)
ChainBacklog == [t \in ChainTasks |-> Open]
ChainLedger  == [t \in ChainTasks |-> Unspent]

\* Two tasks that do not depend on each other.
PairTasks   == {1, 2}
PairDeps    == [t \in PairTasks |-> {}]
PairOrdinal == [t \in PairTasks |-> 0]
PairParent  == [t \in PairTasks |-> NoTask]
PairBacklog == [t \in PairTasks |-> Open]
PairLedger  == [t \in PairTasks |-> Unspent]

\* Task 1 is the phase parent of tasks 2 and 3, and task 4 depends on the phase.
PhaseTasks   == {1, 2, 3, 4}
PhaseDeps    == [t \in PhaseTasks |-> IF t = 4 THEN {1} ELSE {}]
PhaseOrdinal == [t \in PhaseTasks |-> 4 - t]
PhaseParents == [t \in PhaseTasks |-> IF t \in {2, 3} THEN 1 ELSE NoTask]
PhaseBacklog == [t \in PhaseTasks |-> Open]
PhaseLedger  == [t \in PhaseTasks |-> Unspent]

Loop   == [once |-> FALSE, only |-> NoTask, resumed |-> FALSE]
Once   == [once |-> TRUE, only |-> NoTask, resumed |-> FALSE]
Only2  == [once |-> TRUE, only |-> 2, resumed |-> FALSE]
Resume == [once |-> FALSE, only |-> NoTask, resumed |-> TRUE]

LoopRuns   == {Loop}
ResumeRuns == {Resume}
LoopOnce   == {Loop, Once}
AnyRuns    == {Loop, Only2, Resume}

Anywhere == Points \ {"idle"}
=============================================================================
