----------------------------- MODULE ReaderTable -----------------------------
(***************************************************************************)
(* The reader table of the lock file: slots shared by every process that   *)
(* has the file open, claimed by compare-and-swap, released by plain       *)
(* stores, recycled through a stack private to each process, and cleared   *)
(* by ReaderCheck when the process that owned them is gone.                *)
(* Source: lock.go, and the callers in txn.go and env.go.                  *)
(***************************************************************************)
EXTENDS Naturals, Sequences, FiniteSets

CONSTANTS
  Procs,     \* processes, each with its own freelist
  Threads,   \* read transaction objects, each used by one goroutine
  Home,      \* the process of each thread
  Checkers,  \* processes that call ReaderCheck, one call at a time each
  KilledAt,  \* where the threads of a process may be when it is killed
  NoPid,     \* pid 0 in a slot
  NumSlots,  \* size of the table
  MaxTxnid   \* bound: txnids a reader may register

ASSUME SlotsAssumption == NumSlots \in Nat \ {0}
ASSUME TxnidAssumption == MaxTxnid \in Nat \ {0}
ASSUME HomeAssumption == Home \in [Threads -> Procs]
ASSUME PidAssumption == NoPid \notin Procs
ASSUME CheckersAssumption == Checkers \subseteq Procs
ASSUME ThreadsAssumption == IsFiniteSet(Threads)

Slots == 1..NumSlots

\* A slot's txnid field: 0 is free, ^uint64(0) is claimed with no txnid yet.
Txnids == 1..MaxTxnid
Free == 0
Claimed == MaxTxnid + 1

VARIABLES
  txnid,     \* per slot, the txnid field
  pid,       \* per slot, the pid field
  freeSlots, \* per process, the stack of released slots
  alive,     \* the processes that run
  pc,        \* per thread, where it is in acquire or release
  slot,      \* per thread, the slot it tries or owns
  asPid,     \* per thread, the pid it registers
  own,       \* per thread, the txnid it registered
  checkPc,   \* per checker, where its scan is
  checkSlot  \* per checker, the slot it looks at

table == <<txnid, pid>>
threads == <<pc, slot, asPid, own>>
checkers == <<checkPc, checkSlot>>
vars == <<table, freeSlots, alive, threads, checkers>>

------------------------------------------------------------------------------
\* Where a thread is: it owns a slot from "pid" to "active", and works on one
\* in every state but "idle".
ThreadPCs == {"idle", "pop", "scan", "pid", "txnid", "active", "clear", "push"}
Owning == {"pid", "txnid", "active"}
CheckerPCs == {"idle", "txnid", "pid", "clear"}

NoSlot == 0

Init ==
  /\ txnid = [s \in Slots |-> Free]
  /\ pid = [s \in Slots |-> NoPid]
  /\ freeSlots = [p \in Procs |-> <<>>]
  /\ alive = Procs
  /\ pc = [t \in Threads |-> "idle"]
  /\ slot = [t \in Threads |-> NoSlot]
  /\ asPid = [t \in Threads |-> NoPid]
  /\ own = [t \in Threads |-> 0]
  /\ checkPc = [c \in Checkers |-> "idle"]
  /\ checkSlot = [c \in Checkers |-> NoSlot]

Runs(t) == Home[t] \in alive
At(t, where) == Runs(t) /\ pc[t] = where
Goes(t, where) == pc' = [pc EXCEPT ![t] = where]

\* Outside acquire, release and what is between them a thread has no slot.
GoesIdle(t) ==
  /\ Goes(t, "idle")
  /\ slot' = [slot EXCEPT ![t] = NoSlot]
  /\ asPid' = [asPid EXCEPT ![t] = NoPid]
  /\ UNCHANGED own

------------------------------------------------------------------------------
(* acquireReaderSlot *)

\* A mutant of Acquire: the freelist's last entry is read and left there.
AcquirePeek(t, p) ==
  /\ At(t, "idle")
  /\ asPid' = [asPid EXCEPT ![t] = p]
  /\ LET stack == freeSlots[Home[t]]
     IN  IF stack # <<>>
         THEN Goes(t, "pop") /\ slot' = [slot EXCEPT ![t] = stack[Len(stack)]]
         ELSE Goes(t, "scan") /\ slot' = [slot EXCEPT ![t] = 1]
  /\ UNCHANGED <<table, freeSlots, alive, own, checkers>>

\* Called by beginReadTxn and Unpark with the process's pid, by Renew with 0.
\* It pops the freelist, or starts the scan when the list is empty.
Acquire(t, p) ==
  /\ At(t, "idle")
  /\ asPid' = [asPid EXCEPT ![t] = p]
  /\ LET stack == freeSlots[Home[t]]
     IN  \/ /\ stack # <<>>
            /\ Goes(t, "pop")
            /\ slot' = [slot EXCEPT ![t] = stack[Len(stack)]]
            /\ freeSlots' = [freeSlots EXCEPT ![Home[t]] = SubSeq(stack, 1, Len(stack) - 1)]
         \/ /\ stack = <<>>
            /\ Goes(t, "scan")
            /\ slot' = [slot EXCEPT ![t] = 1]
            /\ UNCHANGED freeSlots
  /\ UNCHANGED <<table, alive, own, checkers>>

\* A mutant of Claim: a plain store, the slot being free once it was listed.
ClaimBlindly(t) ==
  /\ txnid' = [txnid EXCEPT ![slot[t]] = Claimed]
  /\ Goes(t, "pid")
  /\ UNCHANGED <<pid, freeSlots, alive, slot, asPid, own, checkers>>

\* The compare-and-swap on the txnid field, from 0 to ^0.
Claim(t) ==
  /\ txnid[slot[t]] = Free
  /\ txnid' = [txnid EXCEPT ![slot[t]] = Claimed]
  /\ Goes(t, "pid")
  /\ UNCHANGED <<pid, freeSlots, alive, slot, asPid, own, checkers>>

ClaimPopped(t) == At(t, "pop") /\ Claim(t)

\* Another process took the popped slot: scan from the start.
PoppedIsTaken(t) ==
  /\ At(t, "pop")
  /\ txnid[slot[t]] # Free
  /\ Goes(t, "scan")
  /\ slot' = [slot EXCEPT ![t] = 1]
  /\ UNCHANGED <<table, freeSlots, alive, asPid, own, checkers>>

ClaimScanned(t) == At(t, "scan") /\ Claim(t)

\* A mutant of ScannedIsTaken: the scan goes one slot too far.
ScannedPastEnd(t) ==
  /\ At(t, "scan")
  /\ txnid[slot[t]] # Free
  /\ slot' = [slot EXCEPT ![t] = slot[t] + 1]
  /\ UNCHANGED <<table, freeSlots, alive, pc, asPid, own, checkers>>

\* The slot is taken: the next one, or errLockReadersFull after the last.
ScannedIsTaken(t) ==
  /\ At(t, "scan")
  /\ txnid[slot[t]] # Free
  /\ \/ /\ slot[t] # NumSlots
        /\ slot' = [slot EXCEPT ![t] = slot[t] + 1]
        /\ UNCHANGED <<pc, asPid, own>>
     \/ /\ slot[t] = NumSlots
        /\ GoesIdle(t)
  /\ UNCHANGED <<table, freeSlots, alive, checkers>>

StorePid(t) ==
  /\ At(t, "pid")
  /\ pid' = [pid EXCEPT ![slot[t]] = asPid[t]]
  /\ Goes(t, "txnid")
  /\ UNCHANGED <<txnid, freeSlots, alive, slot, asPid, own, checkers>>

\* setReaderTxnid, with the txnid of the meta the transaction reads.
SetReaderTxnid(t, n) ==
  /\ At(t, "txnid")
  /\ txnid' = [txnid EXCEPT ![slot[t]] = n]
  /\ own' = [own EXCEPT ![t] = n]
  /\ Goes(t, "active")
  /\ UNCHANGED <<pid, freeSlots, alive, slot, asPid, checkers>>

------------------------------------------------------------------------------
(* releaseReaderSlot, called by Abort, Reset and Park *)

\* A mutant of ClearTxnid: only tid and pid are cleared.
ClearOwnOnly(t) ==
  /\ At(t, "active")
  /\ own' = [own EXCEPT ![t] = 0]
  /\ Goes(t, "clear")
  /\ UNCHANGED <<table, freeSlots, alive, slot, asPid, checkers>>

ClearTxnid(t) ==
  /\ At(t, "active")
  /\ txnid' = [txnid EXCEPT ![slot[t]] = Free]
  /\ own' = [own EXCEPT ![t] = 0]
  /\ Goes(t, "clear")
  /\ UNCHANGED <<pid, freeSlots, alive, slot, asPid, checkers>>

ClearPid(t) ==
  /\ At(t, "clear")
  /\ pid' = [pid EXCEPT ![slot[t]] = NoPid]
  /\ Goes(t, "push")
  /\ UNCHANGED <<txnid, freeSlots, alive, slot, asPid, own, checkers>>

PushFree(t) ==
  /\ At(t, "push")
  /\ freeSlots' = [freeSlots EXCEPT ![Home[t]] = Append(freeSlots[Home[t]], slot[t])]
  /\ GoesIdle(t)
  /\ UNCHANGED <<table, alive, checkers>>

------------------------------------------------------------------------------
(* cleanupStaleReaders, called by Env.ReaderCheck *)

CheckerAt(c, where) == c \in alive /\ checkPc[c] = where

\* On to the next slot, or out of the loop after the last.
NextSlot(c) ==
  IF checkSlot[c] = NumSlots
  THEN /\ checkPc' = [checkPc EXCEPT ![c] = "idle"]
       /\ checkSlot' = [checkSlot EXCEPT ![c] = NoSlot]
  ELSE /\ checkPc' = [checkPc EXCEPT ![c] = "txnid"]
       /\ checkSlot' = [checkSlot EXCEPT ![c] = checkSlot[c] + 1]

StaysTo(c, where) ==
  checkPc' = [checkPc EXCEPT ![c] = where] /\ UNCHANGED checkSlot

StartCheck(c) ==
  /\ CheckerAt(c, "idle")
  /\ checkPc' = [checkPc EXCEPT ![c] = "txnid"]
  /\ checkSlot' = [checkSlot EXCEPT ![c] = 1]
  /\ UNCHANGED <<table, freeSlots, alive, threads>>

\* A mutant of CheckTxnid: slots being claimed are looked at.
CheckClaimedToo(c) ==
  /\ CheckerAt(c, "txnid")
  /\ IF txnid[checkSlot[c]] = Free THEN NextSlot(c) ELSE StaysTo(c, "pid")
  /\ UNCHANGED <<table, freeSlots, alive, threads>>

\* Slots that are free or being claimed are skipped.
CheckTxnid(c) ==
  /\ CheckerAt(c, "txnid")
  /\ IF txnid[checkSlot[c]] \in {Free, Claimed} THEN NextSlot(c) ELSE StaysTo(c, "pid")
  /\ UNCHANGED <<table, freeSlots, alive, threads>>

\* A mutant of CheckPid: no question is asked about the process.
CheckAnyPid(c) ==
  /\ CheckerAt(c, "pid")
  /\ IF pid[checkSlot[c]] = NoPid THEN NextSlot(c) ELSE StaysTo(c, "clear")
  /\ UNCHANGED <<table, freeSlots, alive, threads>>

\* So are slots with no pid, with the checker's own, or of a living process.
CheckPid(c) ==
  /\ CheckerAt(c, "pid")
  /\ IF pid[checkSlot[c]] \in alive \cup {NoPid} THEN NextSlot(c) ELSE StaysTo(c, "clear")
  /\ UNCHANGED <<table, freeSlots, alive, threads>>

\* A plain store, whoever has the slot by now.
ClearStale(c) ==
  /\ CheckerAt(c, "clear")
  /\ txnid' = [txnid EXCEPT ![checkSlot[c]] = Free]
  /\ NextSlot(c)
  /\ UNCHANGED <<pid, freeSlots, alive, threads>>

------------------------------------------------------------------------------
\* A process dies and leaves its slots as they are.  Its pid is not reused.
Die(p) ==
  /\ p \in alive
  /\ \A t \in Threads : Home[t] = p => pc[t] \in KilledAt
  /\ alive' = alive \ {p}
  /\ freeSlots' = [freeSlots EXCEPT ![p] = <<>>]
  /\ UNCHANGED <<table, threads, checkers>>

ThreadStep(t) ==
  \/ \E p \in {Home[t], NoPid} : Acquire(t, p)
  \/ ClaimPopped(t)
  \/ PoppedIsTaken(t)
  \/ ClaimScanned(t)
  \/ ScannedIsTaken(t)
  \/ StorePid(t)
  \/ \E n \in Txnids : SetReaderTxnid(t, n)
  \/ ClearTxnid(t)
  \/ ClearPid(t)
  \/ PushFree(t)

CheckerStep(c) ==
  \/ StartCheck(c)
  \/ CheckTxnid(c)
  \/ CheckPid(c)
  \/ ClearStale(c)

Next ==
  \/ \E t \in Threads : ThreadStep(t)
  \/ \E c \in Checkers : CheckerStep(c)
  \/ \E p \in Procs : Die(p)

Spec == Init /\ [][Next]_vars

------------------------------------------------------------------------------
TypeOK ==
  /\ txnid \in [Slots -> Txnids \cup {Free, Claimed}]
  /\ pid \in [Slots -> Procs \cup {NoPid}]
  /\ freeSlots \in [Procs -> Seq(Slots)]
  /\ alive \subseteq Procs
  /\ pc \in [Threads -> ThreadPCs]
  /\ slot \in [Threads -> Slots \cup {NoSlot}]
  /\ asPid \in [Threads -> Procs \cup {NoPid}]
  /\ own \in [Threads -> Txnids \cup {0}]
  /\ checkPc \in [Checkers -> CheckerPCs]
  /\ checkSlot \in [Checkers -> Slots \cup {NoSlot}]

Owns(t, s) == Runs(t) /\ pc[t] \in Owning /\ slot[t] = s

(***************************************************************************)
(* No two running transactions, of one process or of two, own a slot       *)
(* together: not through a stale freelist entry, not through a scan racing *)
(* a release, not through a slot ReaderCheck took from a dead process.     *)
(***************************************************************************)
SlotHasOneOwner ==
  \A t, u \in Threads : \A s \in Slots : Owns(t, s) /\ Owns(u, s) => t = u

(***************************************************************************)
(* The txnid a running reader registered stays in the table until that     *)
(* reader releases its slot, so oldestReader never overlooks it.           *)
(***************************************************************************)
LiveReaderIsRegistered ==
  \A t \in Threads :
    At(t, "active") => txnid[slot[t]] = own[t]

(***************************************************************************)
(* A process's freelist holds at most as many entries as it has read       *)
(* transactions outside acquire..release, however often entries go stale   *)
(* or are pushed twice.                                                    *)
(***************************************************************************)
Busy(p) == {t \in Threads : Home[t] = p /\ pc[t] # "idle"}
FreelistIsBounded ==
  \A p \in alive :
    Len(freeSlots[p]) + Cardinality(Busy(p))
      <= Cardinality({t \in Threads : Home[t] = p})

(***************************************************************************)
(* When no process has died, a slot that reads as taken is owned by a      *)
(* transaction: acquire and release lose no slot, on any path.             *)
(***************************************************************************)
NoSlotIsLost ==
  alive = Procs =>
    \A s \in Slots : txnid[s] # Free => \E t \in Threads : Owns(t, s)

(***************************************************************************)
(* A checker about to clear a slot clears one no running reader owns,      *)
(* whatever became of the slot since it read the txnid and the pid.        *)
(***************************************************************************)
CheckClearsOnlyStale ==
  \A c \in Checkers :
    CheckerAt(c, "clear") => \A t \in Threads : ~Owns(t, checkSlot[c])
==============================================================================
