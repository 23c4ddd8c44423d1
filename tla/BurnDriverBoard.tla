--------------------------- MODULE BurnDriverBoard ---------------------------
(***************************************************************************)
(* BurnDriver implements BurnBoard.  The board is the base branch of the   *)
(* remote.  A commit is kept when an attempt branch or a rescue ref of the *)
(* repository holds it, or when it was reported published.  Everything     *)
(* else the driver does, and every death and recovery, is a stutter.       *)
(***************************************************************************)
EXTENDS BurnDriver

\* The commits that can still be reached.
Kept == {<<t, branch[t]>> : t \in {u \in Task : branch[u] > 0}}
        \cup {<<r[1], r[3]>> : r \in rescue}
        \cup published

Board == INSTANCE BurnBoard WITH board <- base, kept <- Kept, reported <- published

\* Every behaviour of the driver, its agents, its killers and the humans beside
\* it is one the abstract board allows.
ImplementsBoard == Board!Spec

\* review-queue.md, "for the morning review pass": every attempt that was ever
\* reported published has its line there, although the line is written before
\* the push or the pull request and the driver may die or fail in between.
PublishedListed == published \subseteq review
=============================================================================
