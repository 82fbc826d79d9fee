--------------------------- MODULE CommitLogProofs ---------------------------
(***************************************************************************)
(* What the commit log promises holds of it, for every set of versions.    *)
(***************************************************************************)
EXTENDS CommitLog, TLAPS

(***************************************************************************)
(* A prefix of a sequence has the sequence's entries and no others.        *)
(***************************************************************************)
LEMMA Prefix ==
  ASSUME NEW S, NEW s \in Seq(S), NEW k \in 0..Len(s)
  PROVE  /\ SubSeq(s, 1, k) \in Seq(S)
         /\ Len(SubSeq(s, 1, k)) = k
         /\ \A i \in 1..k : SubSeq(s, 1, k)[i] = s[i]
  OBVIOUS

(***************************************************************************)
(* Two sequences that agree on their first k entries have the same prefix. *)
(***************************************************************************)
LEMMA SamePrefix ==
  ASSUME NEW S, NEW s \in Seq(S), NEW t \in Seq(S),
         NEW k \in Nat, k <= Len(s), k <= Len(t),
         \A i \in 1..k : s[i] = t[i]
  PROVE  SubSeq(s, 1, k) = SubSeq(t, 1, k)
  OBVIOUS

(***************************************************************************)
(* The log never gets shorter than its pinned part, and holds versions.    *)
(***************************************************************************)
THEOREM LogTyped == Genesis \in Version => (Spec => []TypeOK)
<1> SUFFICES ASSUME Genesis \in Version PROVE Spec => []TypeOK
  OBVIOUS
<1>1. Init => TypeOK
  BY DEF Init, TypeOK
<1>2. TypeOK /\ [Next]_vars => TypeOK'
  <2> SUFFICES ASSUME TypeOK, [Next]_vars PROVE TypeOK'
    OBVIOUS
  <2>1. CASE Commit
    BY <2>1 DEF Commit, TypeOK
  <2>2. CASE Sync
    BY <2>2 DEF Sync, TypeOK
  <2>3. CASE Fail
    <3>1. PICK k \in synced..Len(log) : log' = SubSeq(log, 1, k) /\ visible' = log[k]
      BY <2>3 DEF Fail
    <3>2. k \in 1..Len(log) /\ k \in 0..Len(log)
      BY DEF TypeOK
    <3>3. log' \in Seq(Version) /\ Len(log') = k
      BY <3>1, <3>2, Prefix DEF TypeOK
    <3>4. log[k] \in Version
      BY <3>2 DEF TypeOK
    <3> QED
      BY <2>3, <3>1, <3>2, <3>3, <3>4 DEF Fail, TypeOK
  <2>4. CASE UNCHANGED vars
    BY <2>4 DEF vars, TypeOK
  <2> QED
    BY <2>1, <2>2, <2>3, <2>4 DEF Next
<1> QED
  BY <1>1, <1>2, PTL DEF Spec

(***************************************************************************)
(* Neither a commit nor a failure changes a version that was flushed: what *)
(* a process reads after any crash extends what Sync made durable.         *)
(***************************************************************************)
THEOREM PinnedStaysPinned == Genesis \in Version => (Spec => PinnedStays)
<1> SUFFICES ASSUME Genesis \in Version PROVE Spec => PinnedStays
  OBVIOUS
<1>1. Spec => []TypeOK
  BY LogTyped
<1>2. TypeOK /\ [Next]_vars => [SubSeq(log', 1, synced) = SubSeq(log, 1, synced)]_vars
  <2> SUFFICES ASSUME TypeOK, Next PROVE SubSeq(log', 1, synced) = SubSeq(log, 1, synced)
    OBVIOUS
  <2>0. log \in Seq(Version) /\ synced \in Nat /\ synced \in 1..Len(log)
    BY DEF TypeOK
  <2>1. CASE Commit
    <3>1. /\ log' \in Seq(Version)
          /\ synced <= Len(log')
          /\ \A i \in 1..synced : log'[i] = log[i]
      BY <2>0, <2>1 DEF Commit
    <3> QED
      BY <2>0, <3>1, SamePrefix
  <2>2. CASE Sync
    BY <2>2 DEF Sync
  <2>3. CASE Fail
    <3>1. PICK k \in synced..Len(log) : log' = SubSeq(log, 1, k)
      BY <2>3 DEF Fail
    <3>2. k \in 0..Len(log) /\ synced <= k
      BY <2>0
    <3>3. /\ log' \in Seq(Version)
          /\ synced <= Len(log')
          /\ \A i \in 1..synced : log'[i] = log[i]
      BY <2>0, <3>1, <3>2, Prefix
    <3> QED
      BY <2>0, <3>3, SamePrefix
  <2> QED
    BY <2>1, <2>2, <2>3 DEF Next
<1> QED
  BY <1>1, <1>2, PTL DEF Spec, PinnedStays
==============================================================================
