------------------------------ MODULE BurnBoard ------------------------------
(***************************************************************************)
(* What burnkit promises the people whose backlog it works on, whatever    *)
(* dies, fails or is killed on the way: an abstract specification that     *)
(* knows nothing of mirrors, branches, clones and attempt files.           *)
(*                                                                         *)
(*  - a task is worked only once its dependencies are Done on the board;   *)
(*  - the attempts at a task are numbered upwards, and the commits of an   *)
(*    attempt are never lost;                                              *)
(*  - an attempt reaches the board once per task, whole, with the task     *)
(*    marked Done, on top of everything humans did to the board before;    *)
(*  - nothing is reported published that was not committed.                *)
(***************************************************************************)
EXTENDS BurnBacklog

CONSTANTS Backlog0,   \* the backlog at the start
          Strategy    \* only "ff" writes to the board itself

VARIABLES board,      \* the backlog on the base branch
          kept,       \* <<t, n>>: the commits of attempt n at t can be reached
          reported    \* the attempts reported published

boardVars == <<board, kept, reported>>

Init == board = Backlog0 /\ kept = {} /\ reported = {}

DepsOnBoard(t) == \A d \in Deps[t] : d \in Task /\ board[d].status = "Done"

Commit(t, n) ==
    /\ DepsOnBoard(t)
    /\ \A w \in kept : w[1] = t => w[2] < n
    /\ kept' = kept \cup {<<t, n>>}
    /\ UNCHANGED <<board, reported>>

Land(t, n) ==
    /\ Strategy = "ff"
    /\ <<t, n>> \in kept
    /\ board[t].where = "live" /\ board[t].work = {} /\ DepsOnBoard(t)
    /\ board' = Attempted(board, t, n)
    /\ reported' = reported \cup {<<t, n>>}
    /\ UNCHANGED kept

Report(t, n) ==
    /\ <<t, n>> \in kept
    /\ reported' = reported \cup {<<t, n>>}
    /\ UNCHANGED <<board, kept>>

Human(t, what) ==
    /\ board[t].where = "live"
    /\ board' = [board EXCEPT ![t] = EditedAs(what, @)]
    /\ UNCHANGED <<kept, reported>>

Next ==
    \/ \E w \in kept' \ kept : w \in Task \X Nat /\ Commit(w[1], w[2])
    \/ \E w \in kept : Land(w[1], w[2]) \/ Report(w[1], w[2])
    \/ \E t \in Task, what \in {"revise", "finish", "archive", "delete"} : Human(t, what)

Spec == Init /\ [][Next]_boardVars
=============================================================================
