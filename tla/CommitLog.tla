------------------------------ MODULE CommitLog ------------------------------
(***************************************************************************)
(* What a gdbx data file promises to whoever opens it, with no meta page,  *)
(* page cache or lock in sight: a log of committed versions of which only  *)
(* the last one is visible.  Commits are appended; a flush pins the log    *)
(* as it stands; a failure may cut the log back, but never behind what was *)
(* flushed.                                                                *)
(***************************************************************************)
EXTENDS Naturals, Sequences

CONSTANTS Version, Genesis

VARIABLES
  log,      \* every version committed and not lost again, oldest first
  synced,   \* how many of them no failure can take back
  visible   \* the version an opening process finds

vars == <<log, synced, visible>>

TypeOK ==
  /\ log \in Seq(Version)
  /\ synced \in 1..Len(log)
  /\ visible \in Version

Init ==
  /\ log = <<Genesis>>
  /\ synced = 1
  /\ visible = Genesis

\* One more version, visible from now on, not yet pinned.
Commit ==
  /\ visible' \in Version
  /\ log' = Append(log, visible')
  /\ UNCHANGED synced

Sync ==
  /\ synced' = Len(log)
  /\ UNCHANGED <<log, visible>>

\* A failure keeps a prefix of the log that holds all that was pinned.
Fail ==
  /\ \E k \in synced..Len(log) : log' = SubSeq(log, 1, k) /\ visible' = log[k]
  /\ UNCHANGED synced

Next == Commit \/ Sync \/ Fail

Spec == Init /\ [][Next]_vars

(***************************************************************************)
(* What is pinned stays: the first `synced` versions never change.         *)
(***************************************************************************)
PinnedStays == [][SubSeq(log', 1, synced) = SubSeq(log, 1, synced)]_vars
==============================================================================
