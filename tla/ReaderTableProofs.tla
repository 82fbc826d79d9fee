-------------------------- MODULE ReaderTableProofs --------------------------
(***************************************************************************)
(* What holds of the reader table for any number of processes, threads and *)
(* slots: types, that no slot is lost, that the freelists stay short, and  *)
(* that a slot has one owner. The last needs two assumptions, without      *)
(* which TLC finds it violated: one checker at a time, and no process      *)
(* killed between the two stores of a release.                             *)
(***************************************************************************)
EXTENDS ReaderTable, SequenceTheorems, FiniteSetTheorems, TLAPS

OneChecker == \A c, d \in Checkers : c = d
Quiet == OneChecker /\ "clear" \notin KilledAt

------------------------------------------------------------------------------
(* The inductive invariant *)

\* Whoever is not idle works on a slot of the table, in its own name or none.
SlotsAreSlots ==
  /\ \A t \in Threads : pc[t] # "idle" => slot[t] \in Slots
  /\ \A t \in Threads : asPid[t] \in {Home[t], NoPid}
  /\ \A c \in Checkers : checkPc[c] # "idle" => checkSlot[c] \in Slots

\* The txnid field of an owned slot is what its owner stored in it.
OwnedIsTaken ==
  \A t \in Threads :
    /\ At(t, "pid") \/ At(t, "txnid") => txnid[slot[t]] = Claimed
    /\ At(t, "active") => /\ own[t] \in Txnids
                          /\ txnid[slot[t]] = own[t]

\* So is its pid field, unless a late release has cleared it.
OwnedIsNamed ==
  \A t \in Threads :
    At(t, "txnid") \/ At(t, "active") => pid[slot[t]] \in {Home[t], NoPid}

\* The checker has read a txnid.  If the slot was released since, or released
\* and claimed, its pid is that of a thread still about to clear it: a process
\* that runs.
SeenPidIsLive ==
  \A c \in Checkers :
    LET s == checkSlot[c]
    IN  /\ CheckerAt(c, "pid")
        /\ pid[s] # NoPid
        /\ txnid[s] = Free \/ \E t \in Threads : At(t, "pid") /\ slot[t] = s
        => \E t \in Threads : At(t, "clear") /\ slot[t] = s /\ Home[t] = pid[s]

\* The checker has read a txnid and a dead pid: nobody runs who owns the slot,
\* and nobody can claim it, as it does not read as free.
SeenDeadIsTaken ==
  \A c \in Checkers :
    CheckerAt(c, "clear") => txnid[checkSlot[c]] # Free

WellTyped == TypeOK /\ SlotsAreSlots

Exclusion ==
  /\ SlotHasOneOwner
  /\ OwnedIsTaken
  /\ OwnedIsNamed
  /\ SeenPidIsLive
  /\ SeenDeadIsTaken
  /\ CheckClearsOnlyStale

------------------------------------------------------------------------------
(* Types *)

(***************************************************************************)
(* A stack popped is a stack: acquireReaderSlot takes the last entry.      *)
(***************************************************************************)
LEMMA PoppedStack ==
  ASSUME NEW S, NEW stack \in Seq(S), stack # <<>>
  PROVE  /\ stack[Len(stack)] \in S
         /\ SubSeq(stack, 1, Len(stack) - 1) \in Seq(S)
         /\ Len(SubSeq(stack, 1, Len(stack) - 1)) = Len(stack) - 1
<1>1. Len(stack) \in Nat \ {0}
  BY EmptySeq
<1>2. \A i \in 1..Len(stack) : stack[i] \in S
  BY ElementOfSeq
<1>3. /\ SubSeq(stack, 1, Len(stack) - 1) \in Seq(S)
      /\ Len(SubSeq(stack, 1, Len(stack) - 1))
           = IF 1 <= Len(stack) - 1 THEN Len(stack) - 1 - 1 + 1 ELSE 0
  BY <1>1, <1>2, SubSeqProperties
<1>4. Len(SubSeq(stack, 1, Len(stack) - 1)) = Len(stack) - 1
  <2>. DEFINE n == Len(stack)
              k == Len(SubSeq(stack, 1, n - 1))
  <2>1. n \in Nat \ {0} /\ k = IF 1 <= n - 1 THEN n - 1 - 1 + 1 ELSE 0
    BY <1>1, <1>3
  <2>. HIDE DEF n, k
  <2>2. k = n - 1
    BY <2>1
  <2>. QED  BY <2>2 DEF n, k
<1>. QED  BY <1>1, <1>2, <1>3, <1>4

(***************************************************************************)
(* The constants the table is built from are distinct: 0 and ^0 are no     *)
(* txnid a reader registers.                                               *)
(***************************************************************************)
LEMMA Marks ==
  /\ Free # Claimed
  /\ Free \notin Txnids
  /\ Claimed \notin Txnids
  /\ NoSlot \notin Slots
  /\ 1 \in Slots
  /\ NumSlots \in Slots
  /\ \A s \in Slots : s # NumSlots => s + 1 \in Slots
BY SlotsAssumption, TxnidAssumption DEF Free, Claimed, Txnids, NoSlot, Slots

(***************************************************************************)
(* The initial table is well typed, all of it free and everybody idle.     *)
(***************************************************************************)
LEMMA InitTyped == Init => WellTyped
BY PidAssumption, HomeAssumption, SlotsAssumption
   DEF Init, WellTyped, TypeOK, SlotsAreSlots, ThreadPCs, CheckerPCs, NoSlot

(***************************************************************************)
(* Every step of acquire, release and cleanup keeps the types, and keeps   *)
(* everybody who is at work on a slot that exists.                         *)
(***************************************************************************)
LEMMA StepTyped == WellTyped /\ [Next]_vars => WellTyped'
<1>. SUFFICES ASSUME WellTyped, [Next]_vars PROVE WellTyped'
  OBVIOUS
<1>. USE Marks, HomeAssumption DEF WellTyped, TypeOK, SlotsAreSlots, table, threads, checkers
<1>1. ASSUME NEW t \in Threads, NEW p \in {Home[t], NoPid}, Acquire(t, p)
      PROVE  WellTyped'
  <2>1. CASE freeSlots[Home[t]] # <<>>
    <3>. DEFINE list == freeSlots[Home[t]]
    <3>1. list \in Seq(Slots) /\ list # <<>>
      BY <2>1
    <3>2. list[Len(list)] \in Slots /\ SubSeq(list, 1, Len(list) - 1) \in Seq(Slots)
      <4>. HIDE DEF list
      <4>. QED  BY <3>1, PoppedStack
    <3>3. /\ slot' = [slot EXCEPT ![t] = list[Len(list)]]
          /\ freeSlots' = [freeSlots EXCEPT ![Home[t]] = SubSeq(list, 1, Len(list) - 1)]
          /\ Goes(t, "pop")
          /\ asPid' = [asPid EXCEPT ![t] = p]
          /\ UNCHANGED <<table, alive, own, checkers>>
      BY <1>1, <2>1 DEF Acquire
    <3>. HIDE DEF list
    <3>. QED  BY <3>2, <3>3 DEF Goes, ThreadPCs
  <2>2. CASE freeSlots[Home[t]] = <<>>
    BY <1>1, <2>2 DEF Acquire, At, Goes, ThreadPCs
  <2>. QED  BY <2>1, <2>2
<1>2. ASSUME NEW t \in Threads, ClaimPopped(t) \/ ClaimScanned(t)
      PROVE  WellTyped'
  BY <1>2 DEF ClaimPopped, ClaimScanned, Claim, At, Goes, ThreadPCs
<1>3. ASSUME NEW t \in Threads, PoppedIsTaken(t) \/ ScannedIsTaken(t)
      PROVE  WellTyped'
  <2>1. CASE PoppedIsTaken(t)
    BY <2>1 DEF PoppedIsTaken, At, Goes, ThreadPCs
  <2>2. CASE ScannedIsTaken(t)
    <3>1. slot[t] \in Slots
      BY <2>2 DEF ScannedIsTaken, At
    <3>2. CASE slot[t] # NumSlots
      <4>1. slot' = [slot EXCEPT ![t] = slot[t] + 1] /\ slot[t] + 1 \in Slots
        BY <2>2, <3>1, <3>2 DEF ScannedIsTaken
      <4>2. UNCHANGED <<table, freeSlots, alive, pc, asPid, own, checkers>>
        BY <2>2, <3>2 DEF ScannedIsTaken
      <4>. QED  BY <4>1, <4>2
    <3>3. CASE slot[t] = NumSlots
      <4>1. GoesIdle(t) /\ UNCHANGED <<table, freeSlots, alive, checkers>>
        BY <2>2, <3>3 DEF ScannedIsTaken
      <4>. QED  BY <4>1 DEF GoesIdle, Goes, ThreadPCs
    <3>. QED  BY <3>2, <3>3
  <2>. QED  BY <1>3, <2>1, <2>2
<1>4. ASSUME NEW t \in Threads, StorePid(t)
      PROVE  WellTyped'
  BY <1>4 DEF StorePid, At, Goes, ThreadPCs
<1>5. ASSUME NEW t \in Threads, NEW n \in Txnids, SetReaderTxnid(t, n)
      PROVE  WellTyped'
  BY <1>5 DEF SetReaderTxnid, At, Goes, ThreadPCs
<1>6. ASSUME NEW t \in Threads, ClearTxnid(t) \/ ClearPid(t)
      PROVE  WellTyped'
  BY <1>6 DEF ClearTxnid, ClearPid, At, Goes, ThreadPCs
<1>7. ASSUME NEW t \in Threads, PushFree(t)
      PROVE  WellTyped'
  BY <1>7 DEF PushFree, At, Goes, GoesIdle, ThreadPCs
<1>8. ASSUME NEW c \in Checkers, CheckerStep(c)
      PROVE  WellTyped'
  <2>1. CASE StartCheck(c)
    BY <2>1 DEF StartCheck, CheckerAt, CheckerPCs
  <2>2. ASSUME CheckerAt(c, "txnid") \/ CheckerAt(c, "pid") \/ CheckerAt(c, "clear"),
               NextSlot(c) \/ StaysTo(c, "pid") \/ StaysTo(c, "clear")
        PROVE  /\ checkPc' \in [Checkers -> CheckerPCs]
               /\ checkSlot' \in [Checkers -> Slots \cup {NoSlot}]
               /\ \A d \in Checkers : checkPc'[d] # "idle" => checkSlot'[d] \in Slots
    <3>1. CASE NextSlot(c) /\ checkSlot[c] = NumSlots
      BY <3>1 DEF NextSlot, CheckerPCs
    <3>2. CASE NextSlot(c) /\ checkSlot[c] # NumSlots
      <4>1. checkSlot[c] + 1 \in Slots
        BY <2>2, <3>2 DEF CheckerAt
      <4>. QED  BY <3>2, <4>1 DEF NextSlot, CheckerPCs
    <3>3. CASE StaysTo(c, "pid") \/ StaysTo(c, "clear")
      BY <2>2, <3>3 DEF StaysTo, CheckerAt, CheckerPCs
    <3>. QED  BY <2>2, <3>1, <3>2, <3>3
  <2>3. CASE CheckTxnid(c)
    BY <2>2, <2>3 DEF CheckTxnid
  <2>4. CASE CheckPid(c)
    BY <2>2, <2>4 DEF CheckPid
  <2>5. CASE ClearStale(c)
    BY <2>2, <2>5 DEF ClearStale
  <2>. QED  BY <1>8, <2>1, <2>3, <2>4, <2>5 DEF CheckerStep
<1>9. ASSUME NEW p \in Procs, Die(p)
      PROVE  WellTyped'
  BY <1>9 DEF Die
<1>10. CASE UNCHANGED vars
  BY <1>10 DEF vars
<1>. QED
  BY <1>1, <1>2, <1>3, <1>4, <1>5, <1>6, <1>7, <1>8, <1>9, <1>10 DEF Next, ThreadStep

(***************************************************************************)
(* Type correctness of the reader table.                                   *)
(***************************************************************************)
THEOREM TypeCorrect == Spec => []TypeOK
<1>1. WellTyped => TypeOK
  BY DEF WellTyped
<1>. QED  BY <1>1, InitTyped, StepTyped, PTL DEF Spec

------------------------------------------------------------------------------
(* One owner *)

(***************************************************************************)
(* At the start nobody owns or checks anything.                            *)
(***************************************************************************)
LEMMA InitExclusion == Init => Exclusion
BY DEF Init, Exclusion, SlotHasOneOwner, OwnedIsTaken, OwnedIsNamed, SeenPidIsLive,
       SeenDeadIsTaken, CheckClearsOnlyStale, Owns, Owning, At, CheckerAt

(***************************************************************************)
(* A step of a thread that owns no slot before it and none after it, and   *)
(* leaves the table alone, is nothing to anybody else.                     *)
(***************************************************************************)
Slotless == {"idle", "pop", "scan", "push"}

LEMMA StepOutside ==
  ASSUME WellTyped, Exclusion, NEW t \in Threads,
         UNCHANGED <<txnid, pid, alive, own, checkPc, checkSlot>>,
         \A u \in Threads \ {t} : pc'[u] = pc[u] /\ slot'[u] = slot[u],
         pc[t] \in Slotless, pc'[t] \in Slotless
  PROVE  Exclusion'
<1>. USE DEF Exclusion, Slotless, Owning, Owns, At, Runs, CheckerAt
<1>1. SlotHasOneOwner'
  BY DEF SlotHasOneOwner
<1>2. OwnedIsTaken'
  BY DEF OwnedIsTaken
<1>3. OwnedIsNamed'
  BY DEF OwnedIsNamed
<1>4. SeenPidIsLive'
  BY DEF SeenPidIsLive
<1>5. SeenDeadIsTaken'
  BY DEF SeenDeadIsTaken
<1>6. CheckClearsOnlyStale'
  BY DEF CheckClearsOnlyStale
<1>. QED  BY <1>1, <1>2, <1>3, <1>4, <1>5, <1>6

(***************************************************************************)
(* Every step of acquire, release and cleanup, and every death the         *)
(* assumptions allow, keeps the invariant.                                 *)
(***************************************************************************)
LEMMA StepExclusion ==
  ASSUME Quiet, WellTyped, Exclusion, [Next]_vars
  PROVE  Exclusion'
<1>. USE Marks, HomeAssumption, CheckersAssumption
     DEF Exclusion, Quiet, OneChecker, WellTyped, TypeOK, SlotsAreSlots, table, threads,
         checkers, SlotHasOneOwner, OwnedIsTaken, OwnedIsNamed, SeenPidIsLive,
         SeenDeadIsTaken, CheckClearsOnlyStale, Owns, Owning, At, Runs, CheckerAt
<1>1. ASSUME NEW t \in Threads, NEW p \in {Home[t], NoPid}, Acquire(t, p)
      PROVE  Exclusion'
  <2>1. /\ UNCHANGED <<txnid, pid, alive, own, checkPc, checkSlot>>
        /\ \A u \in Threads \ {t} : pc'[u] = pc[u] /\ slot'[u] = slot[u]
        /\ pc[t] \in Slotless /\ pc'[t] \in Slotless
    BY <1>1 DEF Acquire, Goes, Slotless
  <2>. HIDE DEF Exclusion, WellTyped
  <2>. QED  BY <2>1, StepOutside
<1>2. ASSUME NEW t \in Threads, ClaimPopped(t) \/ ClaimScanned(t)
      PROVE  Exclusion'
  <2>1. /\ pc[t] \in {"pop", "scan"}
        /\ slot[t] \in Slots
        /\ txnid[slot[t]] = Free
        /\ txnid' = [txnid EXCEPT ![slot[t]] = Claimed]
        /\ pc' = [pc EXCEPT ![t] = "pid"]
        /\ UNCHANGED <<pid, alive, slot, own, checkPc, checkSlot>>
    BY <1>2 DEF ClaimPopped, ClaimScanned, Claim, Goes
  <2>2. \A u \in Threads : Runs(u) /\ pc[u] \in Owning => slot[u] # slot[t]
    BY <2>1
  <2>3. \A u \in Threads : u # t => pc'[u] = pc[u]
    BY <2>1
  <2>4. SlotHasOneOwner'
    BY <2>1, <2>2
  <2>5. OwnedIsTaken'
    BY <2>1, <2>2
  <2>6. OwnedIsNamed'
    BY <2>1, <2>2
  <2>7. SeenPidIsLive'
    <3>. SUFFICES ASSUME NEW c \in Checkers, CheckerAt(c, "pid")', pid[checkSlot[c]] # NoPid,
                         \/ txnid'[checkSlot[c]] = Free
                         \/ \E u \in Threads : At(u, "pid")' /\ slot[u] = checkSlot[c]
                  PROVE  \E u \in Threads : /\ At(u, "clear")'
                                            /\ slot[u] = checkSlot[c]
                                            /\ Home[u] = pid[checkSlot[c]]
      BY <2>1
    <3>1. CheckerAt(c, "pid") /\ checkSlot[c] \in Slots
      BY <2>1
    <3>2. \/ txnid[checkSlot[c]] = Free
          \/ \E u \in Threads : At(u, "pid") /\ slot[u] = checkSlot[c]
      BY <2>1, <3>1
    <3>3. PICK u \in Threads : /\ At(u, "clear")
                               /\ slot[u] = checkSlot[c]
                               /\ Home[u] = pid[checkSlot[c]]
      BY <3>1, <3>2
    <3>. QED  BY <2>1, <3>3
  <2>8. SeenDeadIsTaken'
    BY <2>1
  <2>9. CheckClearsOnlyStale'
    BY <2>1
  <2>. QED  BY <2>4, <2>5, <2>6, <2>7, <2>8, <2>9
<1>3. ASSUME NEW t \in Threads, PoppedIsTaken(t) \/ ScannedIsTaken(t)
      PROVE  Exclusion'
  <2>1. /\ UNCHANGED <<txnid, pid, alive, own, checkPc, checkSlot>>
        /\ \A u \in Threads \ {t} : pc'[u] = pc[u] /\ slot'[u] = slot[u]
        /\ pc[t] \in Slotless /\ pc'[t] \in Slotless
    BY <1>3 DEF PoppedIsTaken, ScannedIsTaken, Goes, GoesIdle, Slotless
  <2>. HIDE DEF Exclusion, WellTyped
  <2>. QED  BY <2>1, StepOutside
<1>4. ASSUME NEW t \in Threads, StorePid(t)
      PROVE  Exclusion'
  <2>1. /\ pc[t] = "pid" /\ Runs(t)
        /\ slot[t] \in Slots
        /\ asPid[t] \in {Home[t], NoPid}
        /\ pid' = [pid EXCEPT ![slot[t]] = asPid[t]]
        /\ pc' = [pc EXCEPT ![t] = "txnid"]
        /\ UNCHANGED <<txnid, alive, slot, own, checkPc, checkSlot>>
    BY <1>4 DEF StorePid, Goes
  <2>2. \A u \in Threads : Runs(u) /\ pc[u] \in Owning /\ u # t => slot[u] # slot[t]
    BY <2>1
  <2>3. SlotHasOneOwner'
    BY <2>1
  <2>4. OwnedIsTaken'
    BY <2>1
  <2>5. OwnedIsNamed'
    BY <2>1, <2>2
  <2>6. SeenPidIsLive'
    <3>. SUFFICES ASSUME NEW c \in Checkers, CheckerAt(c, "pid")', pid'[checkSlot[c]] # NoPid,
                         \/ txnid[checkSlot[c]] = Free
                         \/ \E u \in Threads : At(u, "pid")' /\ slot[u] = checkSlot[c]
                  PROVE  \E u \in Threads : /\ At(u, "clear")'
                                            /\ slot[u] = checkSlot[c]
                                            /\ Home[u] = pid'[checkSlot[c]]
      BY <2>1
    <3>1. CheckerAt(c, "pid") /\ checkSlot[c] \in Slots
      BY <2>1
    <3>2. checkSlot[c] # slot[t]
      BY <2>1, <2>2
    <3>3. PICK u \in Threads : /\ At(u, "clear")
                               /\ slot[u] = checkSlot[c]
                               /\ Home[u] = pid[checkSlot[c]]
      BY <2>1, <3>1, <3>2
    <3>. QED  BY <2>1, <3>2, <3>3
  <2>7. SeenDeadIsTaken'
    BY <2>1
  <2>8. CheckClearsOnlyStale'
    BY <2>1
  <2>. QED  BY <2>3, <2>4, <2>5, <2>6, <2>7, <2>8
<1>5. ASSUME NEW t \in Threads, NEW n \in Txnids, SetReaderTxnid(t, n)
      PROVE  Exclusion'
  BY <1>5 DEF SetReaderTxnid, Goes
<1>6. ASSUME NEW t \in Threads, ClearTxnid(t)
      PROVE  Exclusion'
  <2>1. SlotHasOneOwner'
    BY <1>6 DEF ClearTxnid, Goes
  <2>2. OwnedIsTaken'
    BY <1>6 DEF ClearTxnid, Goes
  <2>3. OwnedIsNamed'
    BY <1>6 DEF ClearTxnid, Goes
  <2>4. SeenPidIsLive'
    BY <1>6 DEF ClearTxnid, Goes
  <2>5. SeenDeadIsTaken'
    BY <1>6 DEF ClearTxnid, Goes
  <2>6. CheckClearsOnlyStale'
    BY <1>6 DEF ClearTxnid, Goes
  <2>. QED  BY <2>1, <2>2, <2>3, <2>4, <2>5, <2>6
<1>7. ASSUME NEW t \in Threads, ClearPid(t)
      PROVE  Exclusion'
  <2>1. SlotHasOneOwner'
    BY <1>7 DEF ClearPid, Goes
  <2>2. OwnedIsTaken'
    BY <1>7 DEF ClearPid, Goes
  <2>3. OwnedIsNamed'
    BY <1>7 DEF ClearPid, Goes
  <2>4. SeenPidIsLive'
    BY <1>7 DEF ClearPid, Goes
  <2>5. SeenDeadIsTaken'
    BY <1>7 DEF ClearPid, Goes
  <2>6. CheckClearsOnlyStale'
    BY <1>7 DEF ClearPid, Goes
  <2>. QED  BY <2>1, <2>2, <2>3, <2>4, <2>5, <2>6
<1>8. ASSUME NEW t \in Threads, PushFree(t)
      PROVE  Exclusion'
  <2>1. /\ UNCHANGED <<txnid, pid, alive, own, checkPc, checkSlot>>
        /\ \A u \in Threads \ {t} : pc'[u] = pc[u] /\ slot'[u] = slot[u]
        /\ pc[t] \in Slotless /\ pc'[t] \in Slotless
    BY <1>8 DEF PushFree, Goes, GoesIdle, Slotless
  <2>. HIDE DEF Exclusion, WellTyped
  <2>. QED  BY <2>1, StepOutside
<1>9. ASSUME NEW c \in Checkers, StartCheck(c) \/ CheckTxnid(c)
      PROVE  Exclusion'
  BY <1>9 DEF StartCheck, CheckTxnid, NextSlot, StaysTo
<1>10. ASSUME NEW c \in Checkers, CheckPid(c)
       PROVE  Exclusion'
  BY <1>10 DEF CheckPid, NextSlot, StaysTo
<1>11. ASSUME NEW c \in Checkers, ClearStale(c)
       PROVE  Exclusion'
  BY <1>11 DEF ClearStale, NextSlot
<1>12. ASSUME NEW p \in Procs, Die(p)
       PROVE  Exclusion'
  <2>1. SlotHasOneOwner'
    BY <1>12 DEF Die
  <2>2. OwnedIsTaken'
    BY <1>12 DEF Die
  <2>3. OwnedIsNamed'
    BY <1>12 DEF Die
  <2>4. SeenPidIsLive'
    BY <1>12 DEF Die
  <2>5. SeenDeadIsTaken'
    BY <1>12 DEF Die
  <2>6. CheckClearsOnlyStale'
    BY <1>12 DEF Die
  <2>. QED  BY <2>1, <2>2, <2>3, <2>4, <2>5, <2>6
<1>13. CASE UNCHANGED vars
  BY <1>13 DEF vars
<1>. QED
  BY <1>1, <1>2, <1>3, <1>4, <1>5, <1>6, <1>7, <1>8, <1>9, <1>10, <1>11, <1>12, <1>13
     DEF Next, ThreadStep, CheckerStep

(***************************************************************************)
(* The invariant of the protocol, under the two assumptions.               *)
(***************************************************************************)
LEMMA Invariant == Quiet => (Spec => [](WellTyped /\ Exclusion))
<1>. SUFFICES ASSUME Quiet PROVE Spec => [](WellTyped /\ Exclusion)
  OBVIOUS
<1>1. Init => WellTyped /\ Exclusion
  BY InitTyped, InitExclusion
<1>2. WellTyped /\ Exclusion /\ [Next]_vars => (WellTyped /\ Exclusion)'
  BY StepTyped, StepExclusion
<1>. QED  BY <1>1, <1>2, PTL DEF Spec

(***************************************************************************)
(* A reader slot never has two running owners, of whatever processes, as   *)
(* long as one process at a time checks for stale readers and none is      *)
(* killed in the middle of a release.                                      *)
(***************************************************************************)
THEOREM Exclusive == Quiet => (Spec => []SlotHasOneOwner)
<1>1. WellTyped /\ Exclusion => SlotHasOneOwner
  BY DEF Exclusion
<1>. QED  BY <1>1, Invariant, PTL

(***************************************************************************)
(* Under the same assumptions a running reader's txnid stays in the table  *)
(* until it releases the slot: oldestReader does not overlook it.          *)
(***************************************************************************)
THEOREM Registered == Quiet => (Spec => []LiveReaderIsRegistered)
<1>1. WellTyped /\ Exclusion => LiveReaderIsRegistered
  BY DEF Exclusion, OwnedIsTaken, LiveReaderIsRegistered
<1>. QED  BY <1>1, Invariant, PTL

(***************************************************************************)
(* And cleanupStaleReaders frees no slot from under a running reader.      *)
(***************************************************************************)
THEOREM ChecksAreSafe == Quiet => (Spec => []CheckClearsOnlyStale)
<1>1. WellTyped /\ Exclusion => CheckClearsOnlyStale
  BY DEF Exclusion
<1>. QED  BY <1>1, Invariant, PTL
------------------------------------------------------------------------------
(* No slot is lost, and the freelists stay short *)

(***************************************************************************)
(* A slot that reads as taken has an owner: a step that takes a slot makes *)
(* its thread the owner, an owner's step leaves it one or frees the slot,  *)
(* and no other step touches what is owned.                                *)
(***************************************************************************)
LEMMA StepNoSlotIsLost == WellTyped /\ NoSlotIsLost /\ [Next]_vars => NoSlotIsLost'
<1>. SUFFICES ASSUME WellTyped, NoSlotIsLost, [Next]_vars PROVE NoSlotIsLost'
  OBVIOUS
<1>. USE DEF WellTyped, TypeOK, NoSlotIsLost, Owns, Owning, At, Runs, Goes, table, threads,
             checkers
<1>1. ASSUME NEW t \in Threads,
             /\ UNCHANGED <<txnid, alive>> /\ pc[t] \notin Owning
             /\ \A u \in Threads \ {t} : pc'[u] = pc[u] /\ slot'[u] = slot[u]
      PROVE  NoSlotIsLost'
  BY <1>1
<1>2. ASSUME NEW t \in Threads, NEW p, Acquire(t, p) PROVE NoSlotIsLost'
  <2>1. /\ UNCHANGED <<txnid, alive>> /\ pc[t] \notin Owning
        /\ \A u \in Threads \ {t} : pc'[u] = pc[u] /\ slot'[u] = slot[u]
    BY <1>2 DEF Acquire
  <2>. QED  BY <1>1, <2>1
<1>3. ASSUME NEW t \in Threads, PoppedIsTaken(t) \/ ScannedIsTaken(t) \/ PushFree(t)
      PROVE  NoSlotIsLost'
  <2>1. /\ UNCHANGED <<txnid, alive>> /\ pc[t] \notin Owning
        /\ \A u \in Threads \ {t} : pc'[u] = pc[u] /\ slot'[u] = slot[u]
    BY <1>3 DEF PoppedIsTaken, ScannedIsTaken, PushFree, GoesIdle
  <2>. QED  BY <1>1, <2>1
<1>4. ASSUME NEW t \in Threads, ClaimPopped(t) \/ ClaimScanned(t) PROVE NoSlotIsLost'
  BY <1>4 DEF ClaimPopped, ClaimScanned, Claim
<1>5. ASSUME NEW t \in Threads, StorePid(t) PROVE NoSlotIsLost'
  BY <1>5 DEF StorePid
<1>6. ASSUME NEW t \in Threads, NEW n \in Txnids, SetReaderTxnid(t, n) PROVE NoSlotIsLost'
  BY <1>6 DEF SetReaderTxnid
<1>7. ASSUME NEW t \in Threads, ClearTxnid(t) \/ ClearPid(t) PROVE NoSlotIsLost'
  BY <1>7 DEF ClearTxnid, ClearPid
<1>8. ASSUME NEW c \in Checkers, CheckerStep(c) PROVE NoSlotIsLost'
  BY <1>8 DEF CheckerStep, StartCheck, CheckTxnid, CheckPid, ClearStale
<1>9. ASSUME NEW p \in Procs, Die(p) PROVE NoSlotIsLost'
  BY <1>9 DEF Die
<1>10. CASE UNCHANGED vars
  BY <1>10 DEF vars
<1>. QED
  BY <1>2, <1>3, <1>4, <1>5, <1>6, <1>7, <1>8, <1>9, <1>10 DEF Next, ThreadStep

(***************************************************************************)
(* As long as no process has died, acquire and release lose no slot, on    *)
(* any path and whatever ReaderCheck does in between.                      *)
(***************************************************************************)
THEOREM SlotsAreKept == Spec => []NoSlotIsLost
<1>1. Init => NoSlotIsLost
  BY DEF Init, NoSlotIsLost
<1>. QED  BY <1>1, InitTyped, StepTyped, StepNoSlotIsLost, PTL DEF Spec

(***************************************************************************)
(* A thread that turns busy, or idle, counts for one in its process.       *)
(***************************************************************************)
LEMMA BusyCounts ==
  ASSUME NEW p \in Procs
  PROVE  /\ Cardinality(Busy(p)) \in Nat
         /\ Cardinality({t \in Threads : Home[t] = p}) \in Nat
         /\ Cardinality(Busy(p)) <= Cardinality({t \in Threads : Home[t] = p})
         /\ \A t \in Threads :
              /\ t \in Busy(p) =>
                   Cardinality(Busy(p) \ {t}) = Cardinality(Busy(p)) - 1
              /\ t \notin Busy(p) =>
                   Cardinality(Busy(p) \cup {t}) = Cardinality(Busy(p)) + 1
<1>. DEFINE Homed == {t \in Threads : Home[t] = p}
<1>1. IsFiniteSet(Homed)
  BY ThreadsAssumption, FS_Subset
<1>2. Busy(p) \in SUBSET Homed
  BY DEF Busy
<1>. HIDE DEF Homed
<1>3. IsFiniteSet(Busy(p)) /\ Cardinality(Busy(p)) <= Cardinality(Homed)
  BY <1>1, <1>2, FS_Subset
<1>4. Cardinality(Busy(p)) \in Nat /\ Cardinality(Homed) \in Nat
  BY <1>1, <1>3, FS_CardinalityType
<1>5. \A t : /\ t \in Busy(p) => Cardinality(Busy(p) \ {t}) = Cardinality(Busy(p)) - 1
             /\ t \notin Busy(p) => Cardinality(Busy(p) \cup {t}) = Cardinality(Busy(p)) + 1
  BY <1>3, FS_RemoveElement, FS_AddElement
<1>. QED  BY <1>3, <1>4, <1>5 DEF Homed

(***************************************************************************)
(* A thread goes from idle to busy with an entry of the freelist or when   *)
(* there is none, and gives one back when it is idle again.                *)
(***************************************************************************)
LEMMA StepFreelistIsBounded ==
  WellTyped /\ FreelistIsBounded /\ [Next]_vars => FreelistIsBounded'
<1>. SUFFICES ASSUME WellTyped, FreelistIsBounded, [Next]_vars,
                     NEW p \in Procs, p \in alive'
              PROVE  (Len(freeSlots[p]) + Cardinality(Busy(p))
                        <= Cardinality({t \in Threads : Home[t] = p}))'
  BY StepTyped DEF FreelistIsBounded, WellTyped, TypeOK
<1>. DEFINE Homed == {t \in Threads : Home[t] = p}
            Fits == Len(freeSlots[p]) + Cardinality(Busy(p)) <= Cardinality(Homed)
<1>1. /\ pc \in [Threads -> ThreadPCs] /\ freeSlots \in [Procs -> Seq(Slots)]
      /\ slot \in [Threads -> Slots \cup {NoSlot}] /\ Len(freeSlots[p]) \in Nat
  BY DEF WellTyped, TypeOK
<1>2. p \in alive => Fits
  BY DEF FreelistIsBounded
<1>3. ASSUME UNCHANGED <<freeSlots, alive>>,
             \A u \in Threads : pc'[u] = "idle" <=> pc[u] = "idle"
      PROVE  Fits'
  <2>1. Busy(p)' = Busy(p)
    BY <1>3 DEF Busy
  <2>. QED  BY <1>2, <1>3, <2>1
<1>4. ASSUME NEW t \in Threads, NEW q \in {Home[t], NoPid}, Acquire(t, q)
      PROVE  Fits'
  <2>1. /\ At(t, "idle") /\ alive' = alive /\ pc' = [pc EXCEPT ![t] = pc'[t]]
        /\ pc'[t] # "idle"
    BY <1>1, <1>4 DEF Acquire, Goes
  <2>2. CASE Home[t] # p
    <3>1. Busy(p)' = Busy(p)
      BY <1>1, <2>1, <2>2 DEF Busy
    <3>2. freeSlots'[p] = freeSlots[p]
      BY <1>1, <1>4, <2>2 DEF Acquire
    <3>. QED  BY <1>2, <2>1, <3>1, <3>2
  <2>3. CASE Home[t] = p
    <3>1. t \notin Busy(p) /\ Busy(p)' = Busy(p) \cup {t}
      BY <1>1, <2>1, <2>3 DEF Busy, At
    <3>2. Cardinality(Busy(p)') = Cardinality(Busy(p)) + 1
      BY <3>1, BusyCounts
    <3>3. CASE freeSlots[p] = <<>>
      <4>1. freeSlots' = freeSlots /\ Len(freeSlots[p]) = 0
        BY <1>4, <2>3, <3>3 DEF Acquire
      <4>2. Busy(p)' \in SUBSET Homed
        BY <2>3, <3>1 DEF Busy
      <4>3. IsFiniteSet(Homed)
        BY ThreadsAssumption, FS_Subset
      <4>4. Cardinality(Busy(p)') <= Cardinality(Homed)
        BY <4>2, <4>3, FS_Subset
      <4>5. Cardinality(Busy(p)) \in Nat /\ Cardinality(Homed) \in Nat
        BY BusyCounts
      <4>. QED  BY <3>2, <4>1, <4>4, <4>5
    <3>4. CASE freeSlots[p] # <<>>
      <4>1. freeSlots'[p] = SubSeq(freeSlots[p], 1, Len(freeSlots[p]) - 1)
        BY <1>1, <1>4, <2>3, <3>4 DEF Acquire
      <4>2. Len(freeSlots[p]) \in Nat \ {0}
        BY <1>1, <3>4, EmptySeq
      <4>3. Len(freeSlots'[p]) = Len(freeSlots[p]) - 1
        BY <1>1, <3>4, <4>1, PoppedStack
      <4>. QED  BY <1>2, <2>1, <3>2, <4>2, <4>3, BusyCounts
    <3>. QED  BY <3>3, <3>4
  <2>. QED  BY <2>2, <2>3
<1>5. ASSUME NEW t \in Threads, ClaimPopped(t) \/ ClaimScanned(t) \/ PoppedIsTaken(t)
                                  \/ StorePid(t) \/ ClearTxnid(t) \/ ClearPid(t)
      PROVE  Fits'
  <2>1. /\ pc[t] # "idle" /\ UNCHANGED <<freeSlots, alive>>
        /\ \E where \in ThreadPCs \ {"idle"} : Goes(t, where)
    BY <1>5 DEF ClaimPopped, ClaimScanned, Claim, PoppedIsTaken, StorePid, ClearTxnid,
                ClearPid, At, ThreadPCs
  <2>. QED  BY <1>1, <1>3, <2>1 DEF Goes
<1>6. ASSUME NEW t \in Threads, NEW n \in Txnids, SetReaderTxnid(t, n)
      PROVE  Fits'
  <2>1. pc[t] # "idle" /\ UNCHANGED <<freeSlots, alive>> /\ Goes(t, "active")
    BY <1>6 DEF SetReaderTxnid, At
  <2>. QED  BY <1>1, <1>3, <2>1 DEF Goes
<1>7. ASSUME NEW t \in Threads, pc[t] # "idle", Goes(t, "idle"), alive' = alive,
             \/ freeSlots' = freeSlots
             \/ freeSlots' = [freeSlots EXCEPT ![Home[t]] = Append(freeSlots[Home[t]], slot[t])],
             slot[t] \in Slots
      PROVE  Fits'
  <2>1. CASE Home[t] # p
    <3>1. Busy(p)' = Busy(p)
      BY <1>1, <1>7, <2>1 DEF Busy, Goes
    <3>2. freeSlots'[p] = freeSlots[p]
      BY <1>1, <1>7, <2>1
    <3>. QED  BY <1>2, <1>7, <3>1, <3>2
  <2>2. CASE Home[t] = p
    <3>1. t \in Busy(p) /\ Busy(p)' = Busy(p) \ {t}
      BY <1>1, <1>7, <2>2 DEF Busy, Goes
    <3>2. Cardinality(Busy(p)') = Cardinality(Busy(p)) - 1
      BY <3>1, BusyCounts
    <3>3. Len(freeSlots'[p]) \in {Len(freeSlots[p]), Len(freeSlots[p]) + 1}
      BY <1>1, <1>7, <2>2
    <3>. QED  BY <1>1, <1>2, <1>7, <3>2, <3>3, BusyCounts
  <2>. QED  BY <2>1, <2>2
<1>8. ASSUME NEW t \in Threads, ScannedIsTaken(t) PROVE Fits'
  <2>1. pc[t] = "scan" /\ UNCHANGED <<freeSlots, alive>> /\ slot[t] \in Slots
    BY <1>8 DEF ScannedIsTaken, At, WellTyped, SlotsAreSlots
  <2>2. pc' = pc \/ Goes(t, "idle")
    BY <1>8 DEF ScannedIsTaken, GoesIdle
  <2>3. CASE pc' = pc
    BY <1>3, <2>1, <2>3
  <2>4. CASE Goes(t, "idle")
    BY <1>7, <2>1, <2>4
  <2>. QED  BY <2>2, <2>3, <2>4
<1>9. ASSUME NEW t \in Threads, PushFree(t) PROVE Fits'
  BY <1>7, <1>9 DEF PushFree, GoesIdle, At, WellTyped, SlotsAreSlots
<1>10. ASSUME NEW c \in Checkers, CheckerStep(c) PROVE Fits'
  <2>1. UNCHANGED <<freeSlots, alive, pc>>
    BY <1>10 DEF CheckerStep, StartCheck, CheckTxnid, CheckPid, ClearStale, threads
  <2>. QED  BY <1>3, <2>1
<1>11. ASSUME NEW q \in Procs, Die(q) PROVE Fits'
  <2>1. p \in alive /\ freeSlots'[p] = freeSlots[p] /\ pc' = pc
    BY <1>1, <1>11 DEF Die, threads
  <2>2. Busy(p)' = Busy(p)
    BY <2>1 DEF Busy
  <2>. QED  BY <1>2, <2>1, <2>2
<1>12. CASE UNCHANGED vars
  BY <1>3, <1>12 DEF vars, threads
<1>. QED
  BY <1>4, <1>5, <1>6, <1>8, <1>9, <1>10, <1>11, <1>12 DEF Next, ThreadStep

(***************************************************************************)
(* A process's freelist never holds more entries than it has threads that  *)
(* are not busy, whatever happened to the slots it lists.                  *)
(***************************************************************************)
THEOREM FreelistsAreShort == Spec => []FreelistIsBounded
<1>1. Init => FreelistIsBounded
  <2>. SUFFICES ASSUME Init, NEW p \in Procs
                PROVE  Len(freeSlots[p]) + Cardinality(Busy(p))
                         <= Cardinality({t \in Threads : Home[t] = p})
    BY DEF Init, FreelistIsBounded
  <2>1. Len(freeSlots[p]) = 0
    BY DEF Init
  <2>. QED  BY <2>1, BusyCounts
<1>. QED  BY <1>1, InitTyped, StepTyped, StepFreelistIsBounded, PTL DEF Spec
==============================================================================
