------------------------------ MODULE BurnQueue ------------------------------
(***************************************************************************)
(* The task queue of burnkit/queue.py, as pure operators over a loaded     *)
(* backlog: which tasks are ready, and which of them the driver is handed  *)
(* next.  Nothing here has state; BurnDriver applies these operators to    *)
(* its mirror checkout.                                                    *)
(*                                                                         *)
(* A backlog is a function from Task to records                            *)
(*    status : "To Do" or "Done" (any other status behaves as neither)     *)
(*    where  : "live" in tasks_dir, "archived" in one of dep_dirs,         *)
(*             "gone" in none of them                                      *)
(*    rev    : the revision of the task file, all that fingerprint()       *)
(*             distinguishes                                               *)
(*    work   : the attempts whose commits the branch holding this backlog  *)
(*             contains (git's side of the same tree)                      *)
(* Task ids are numbers, in the order in which the ids sort as strings.    *)
(***************************************************************************)
EXTENDS Integers, FiniteSets

CONSTANTS
    Task,         \* the task ids
    Deps,         \* [Task -> SUBSET Nat]: the `dependencies` of each task
    Ordinal,      \* [Task -> Nat]
    Parent,       \* [Task -> Task \cup {NoTask}]: `parent_task_id`
    DottedChild,  \* set of <<p, c>>: the id of c starts with the id of p and "."
    SkipList,     \* config.skip_list
    MaxAttempts   \* config.max_attempts

NoTask == 0

ASSUME TaskAssumption == Task \subseteq Nat \ {NoTask} /\ IsFiniteSet(Task)
ASSUME DepsAssumption == Deps \in [Task -> SUBSET Nat]
ASSUME OrdinalAssumption == Ordinal \in [Task -> Nat]
ASSUME MaxAttemptsAssumption == MaxAttempts \in Nat \ {0}

TaskFiles == [status : {"To Do", "Done"},
              where  : {"live", "archived", "gone"},
              rev    : Nat,
              work   : SUBSET Int]

Backlogs == [Task -> TaskFiles]

\* attempts.json: how many attempts were spent, and the revision the last of
\* them ran on.  Revisions start at 1; 0 is the unknown fingerprint of a record
\* written before fingerprints existed.
Ledgers == [Task -> [n : Nat, fp : Nat]]

(***************************************************************************)
(* What load_tasks returns.                                                *)
(***************************************************************************)
Loaded(tasks) == {t \in Task : tasks[t].where # "gone"}

Live(tasks) == {t \in Task : tasks[t].where = "live"}

IsDone(tasks, t) == t \in Loaded(tasks) /\ tasks[t].status = "Done"

(***************************************************************************)
(* Readiness.                                                              *)
(***************************************************************************)
\* A budget that every restart renews.
HasBudgetAlways(spent, rev) == TRUE

HasBudget(spent, rev) == spent.n < MaxAttempts \/ spent.fp # rev

IsPhaseParent(tasks, t) ==
    \E c \in Loaded(tasks) \ {t} : Parent[c] = t \/ <<t, c>> \in DottedChild

\* The dependency check as a check that the dependencies exist.
DepsKnown(tasks, t) == \A d \in Deps[t] : d \in Loaded(tasks)

DepsDone(tasks, t) == \A d \in Deps[t] : d \in Task /\ IsDone(tasks, d)

Ready(tasks, attempts, handled) ==
    {t \in Live(tasks) \ (SkipList \cup handled) :
        /\ ~ IsPhaseParent(tasks, t)
        /\ HasBudget(attempts[t], tasks[t].rev)
        /\ tasks[t].status = "To Do"
        /\ DepsDone(tasks, t)}

\* The order of ready.sort(key = (ordinal, id)).
Before(t, u) == \/ Ordinal[t] < Ordinal[u]
                \/ Ordinal[t] = Ordinal[u] /\ t < u

\* next_ready, as the set holding the one task it returns, or the empty set.
\* With only_task it looks for that task among the ready ones and nothing else.
NextReady(tasks, attempts, handled, only) ==
    LET ready == Ready(tasks, attempts, handled) IN
    IF only = NoTask
      THEN {t \in ready : \A u \in ready \ {t} : Before(t, u)}
      ELSE ready \cap {only}

(***************************************************************************)
(* phase_parent_to_close, over the live tasks of a worktree in which t was *)
(* just marked Done: the parent_task_id parent of t, if it is open and all *)
(* its children by parent_task_id are Done.                                *)
(***************************************************************************)
PhaseParentToClose(tasks, t) ==
    {p \in Live(tasks) : /\ t \in Live(tasks)
                         /\ p = Parent[t]
                         /\ tasks[p].status # "Done"
                         /\ \A c \in Live(tasks) : Parent[c] = p => IsDone(tasks, c)}
=============================================================================
