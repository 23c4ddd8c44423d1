--------------------------- MODULE BurnTranscript ---------------------------
(***************************************************************************)
(* No-progress detection (dshlog.py), as pure operators over the session   *)
(* transcripts agents leave.  A transcript is the sequence of the          *)
(* signatures of its tool calls.  Launches are numbered in the order of    *)
(* time, and a session is created by the launch it carries the number of.  *)
(***************************************************************************)
EXTENDS Integers, Sequences, FiniteSets

CONSTANTS Window,     \* STALL_WINDOW
          Threshold   \* the repeats in a window that make a stall:
                      \* STALL_THRESHOLD times STALL_WINDOW

ASSUME WindowAssumption == Window \in Nat \ {0} /\ Threshold \in 1 .. Window

\* The calls of the last window that were made before.
Repeats(calls) ==
    {i \in Len(calls) - Window + 1 .. Len(calls) : \E j \in 1 .. i - 1 : calls[j] = calls[i]}

\* stall_reason.
Stuck(calls) == Len(calls) >= Window /\ Cardinality(Repeats(calls)) >= Threshold

\* find_session_log without `since`: the newest readable log of this worktree.
NewestSession(newer, mine, readable, since) ==
    LET found == mine \cap readable
    IN  {s \in found : \A r \in found \ {s} : <<s, r>> \in newer}

\* find_session_log, as the set of the session it returns.  newer holds <<s, r>> when
\* session s was last written after session r; mine are those that record the
\* worktree as their cwd, readable those with a whole first record.
FindSession(newer, mine, readable, since) ==
    LET found == {s \in mine \cap readable : s >= since}
    IN  {s \in found : \A r \in found \ {s} : <<s, r>> \in newer}
=============================================================================
