----------------------------- MODULE BurnBacklog -----------------------------
(***************************************************************************)
(* What commits do to a backlog: those of an attempt that passed verify(), *)
(* and those of the humans who edit the task files (gates.py and the       *)
(* Backlog.md command line).                                               *)
(***************************************************************************)
EXTENDS BurnQueue

CONSTANT CloseOut   \* config.close_out_phase_parents

ASSUME CloseOutAssumption == CloseOut \in BOOLEAN

\* `backlog task edit -s Done`, committed.
MarkedDone(old) == [old EXCEPT !.status = "Done", !.rev = @ + 1]

\* ensure_backlog_done on top of the commits of attempt n.
Worked(tasks, t, n) ==
    [tasks EXCEPT ![t] = [MarkedDone(tasks[t]) EXCEPT !.work = @ \cup {n}]]

\* Closing out the phase before the task itself is Done.
AttemptedClosedEarly(tasks, t, n) ==
    LET done == Worked(tasks, t, n)
    IN  [u \in Task |-> IF CloseOut /\ u \in PhaseParentToClose(tasks, t)
                          THEN MarkedDone(done[u])
                          ELSE done[u]]

\* What the attempt's tree holds once verify has forced the task to Done and
\* closed its phase parent out: the tree it was forked from, and those edits.
Attempted(tasks, t, n) ==
    LET done == Worked(tasks, t, n)
    IN  [u \in Task |-> IF CloseOut /\ u \in PhaseParentToClose(done, t)
                          THEN MarkedDone(done[u])
                          ELSE done[u]]

\* A human edits a task on the base branch: rewrites it, finishes it (or merges
\* its pull request), archives it or deletes it.
EditedAs(what, old) ==
    CASE what = "revise"  -> [old EXCEPT !.rev = @ + 1]
      [] what = "finish"  -> MarkedDone(old)
      [] what = "archive" -> [old EXCEPT !.where = "archived"]
      [] what = "delete"  -> [old EXCEPT !.where = "gone"]
=============================================================================
