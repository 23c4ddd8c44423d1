------------------------------ MODULE BurnGates ------------------------------
(***************************************************************************)
(* The evidence of an attempt, as pure operators: the markers in its log   *)
(* (prompt.py), the gates of verify() and the report they leave (gates.py).*)
(*                                                                         *)
(* A log is the set of the markers in it, a marker a pair <<kind, task>>.  *)
(* What an attempt left in its worktree is a record                        *)
(*    diff : the kinds of path its commits touch, without the task file    *)
(*    book : what became of the task file: "open" (nothing was ticked),    *)
(*           "ticked" (the acceptance criteria were, the status was not    *)
(*           set), "dirty" (both, and left uncommitted) or "committed"     *)
(***************************************************************************)
EXTENDS Integers, Sequences, FiniteSets

CONSTANTS
    Task,      \* the task ids
    IdPrefix,  \* set of <<t, u>>: the id of u starts with the whole id of t
    Kinds,     \* kinds of path
    Diffs,     \* the diffs an attempt may commit, each a set of kinds
    TaskFile,  \* the kind of path of the task files
    CodeKinds, \* config.code_change_prefixes
    Allowed,   \* config.code_task_allowed_prefixes
    Gates,     \* config.machine_gates, a sequence
    Applies    \* the kinds of path each gate applies to

GateNames == {Gates[i] : i \in DOMAIN Gates}

ASSUME GatesAssumption ==
    /\ IdPrefix \subseteq Task \X Task
    /\ TaskFile \in Kinds /\ CodeKinds \subseteq Kinds /\ Allowed \subseteq Kinds
    /\ Diffs \subseteq SUBSET Kinds
    /\ Gates \in Seq(GateNames)
    /\ Applies \in [GateNames -> SUBSET Kinds]

Markers == {"done", "bail"} \X Task

(***************************************************************************)
(* parse_marker.                                                           *)
(***************************************************************************)
\* The test for BAIL ends with the task id: it also finds a longer id.
Bailed(text, t) == \E u \in Task : <<"bail", u>> \in text /\ (u = t \/ <<t, u>> \in IdPrefix)

\* DONE looked for before BAIL.
ParseDoneFirst(text, t) ==
    IF <<"done", t>> \in text THEN "done" ELSE IF Bailed(text, t) THEN "bail" ELSE "none"

ParseMarker(text, t) ==
    IF Bailed(text, t) THEN "bail" ELSE IF <<"done", t>> \in text THEN "done" ELSE "none"

(***************************************************************************)
(* What the gates look at.                                                 *)
(***************************************************************************)
Work == [diff : Diffs, book : {"open", "ticked", "dirty", "committed"}]

\* unchecked_acceptance_criteria, read from the file in the worktree.
CriteriaChecked(w) == w.book # "open"

\* A verify() that trusts the agent's own bookkeeping.
EnsureNothing(w, editWorks) == w

\* ensure_backlog_done: the status in the worktree decides whether there is
\* anything to do; `backlog task edit` and the commit after it are unchecked.
EnsureDone(w, editWorks) ==
    IF w.book = "ticked" /\ editWorks THEN [w EXCEPT !.book = "committed"] ELSE w

\* changed_paths: what the commits touch.
ChangedPaths(w) == w.diff \cup (IF w.book = "committed" THEN {TaskFile} ELSE {})

IsCodeChange(paths) == paths \cap CodeKinds # {}

ScopeViolations(paths) == paths \ Allowed

(***************************************************************************)
(* The machine gates.  A run of a gate ends with an exit code (a timeout   *)
(* is a failure) and an output that may look like that of an empty suite.  *)
(***************************************************************************)
GateRuns == [code : {0}, empty : BOOLEAN] \cup [code : {124}, empty : {TRUE}]
GateResults == [ok : BOOLEAN, empty : BOOLEAN, vacuous : BOOLEAN]

\* The gates that apply, as their places in the configuration.
SelectGates(paths) == {i \in DOMAIN Gates : Applies[Gates[i]] \cap paths # {}}

\* A gate result that forgets what an empty output means.
ResultNeverVacuous(ran) == [ok |-> ran.code = 0, empty |-> ran.empty, vacuous |-> FALSE]

GateResult(ran) ==
    [ok |-> ran.code = 0, empty |-> ran.empty, vacuous |-> ran.code = 0 /\ ran.empty]

\* A report has the result of each gate that ran.
Reports == UNION {[S -> GateResults] : S \in SUBSET DOMAIN Gates}

NoReport == [i \in {} |-> 0]

\* run_machine_gates: in order, up to and including the first failure.
RunMachineGates(gates, ran) ==
    [i \in {k \in gates : \A j \in gates : j < k => GateResult(ran[Gates[j]]).ok} |->
        GateResult(ran[Gates[i]])]

\* GateReport.ok and GateReport.failed.
ReportOk(report) ==
    /\ \E i \in DOMAIN report : ~ report[i].vacuous
    /\ \A i \in DOMAIN report : report[i].ok

ReportFailed(report) == \E i \in DOMAIN report : ~ report[i].ok

(***************************************************************************)
(* verify, from the acceptance criteria on.                                *)
(***************************************************************************)
\* A pass is "measured" or "attested", after the trust class it is given.
Verdicts == {"refused", "attested", "measured"}

\* The gates run only for a change of code that stays within its scope.
GatesRun(w, ran) ==
    IF IsCodeChange(ChangedPaths(w)) /\ ScopeViolations(ChangedPaths(w)) = {}
      THEN RunMachineGates(SelectGates(ChangedPaths(w)), ran)
      ELSE NoReport

Judge(w, report) ==
    CASE ~ IsCodeChange(ChangedPaths(w)) -> "attested"
      [] IsCodeChange(ChangedPaths(w)) /\ (ScopeViolations(ChangedPaths(w)) # {}
                                             \/ ReportFailed(report)) -> "refused"
      [] OTHER -> IF ReportOk(report) THEN "measured" ELSE "attested"
=============================================================================
