------------------------- MODULE EnvLifecycleProofs --------------------------
(***************************************************************************)
(* What holds of the environment's lifecycle for any number of threads and *)
(* any file.  That one thread writes, and that no map is lost, needs no    *)
(* assumption.  The rest needs Close not to be called while BeginTxn is in *)
(* progress, and that a snapshot is mapped also that the other process's   *)
(* commits stay in this one's map: TLC finds both violated without.        *)
(***************************************************************************)
EXTENDS EnvLifecycle, FiniteSetTheorems, TLAPS

------------------------------------------------------------------------------
(* Types *)

PCs     == {"idle"} \cup Beginning \cup Closing \cup InTxn
Pages   == 0 .. MaxPages
TxnRecs == [map : Pages, pages : Pages, alloc : Pages]
Running == {t \in Threads : pc[t] \in InTxn}

Typed ==
  /\ pc \in [Threads -> PCs]
  /\ txn \in [Threads -> TxnRecs]
  /\ muReaders \subseteq Threads /\ muWriter \in Threads \cup {Nobody}
  /\ {txnMu, writeTxn} \subseteq Threads \cup {Nobody}
  /\ flock \in {Nobody, "us", "peer"}
  /\ dataMap \in Pages /\ now \in Pages /\ seen \in Pages

(***************************************************************************)
(* The environment as Open leaves it is well typed.                        *)
(***************************************************************************)
LEMMA InitTyped == Init => Typed
BY LifecycleAssumption
   DEF Init, Typed, PCs, Pages, TxnRecs, NoTxn, NoMap

(***************************************************************************)
(* Every step keeps the types; what a transaction allocates, and what a    *)
(* commit publishes, stays below the bound on the file.                    *)
(***************************************************************************)
LEMMA StepTyped == Typed /\ [Next]_vars => Typed'
<1>. SUFFICES ASSUME Typed, [Next]_vars PROVE Typed'
  OBVIOUS
<1>. USE LifecycleAssumption
     DEF Typed, Goto, At, PCs, Beginning, Closing, InTxn, Pages, TxnRecs, NoTxn, NoMap,
         Begun, envVars, lockVars, fileVars
<1>1. ASSUME NEW t \in Threads, Progress(t) PROVE Typed'
  <2>1. CASE AnnounceLock(t)
    BY <2>1 DEF AnnounceLock
  <2>2. CASE BeginRead(t)
    BY <2>2 DEF BeginRead
  <2>3. CASE Renew(t)
    BY <2>3 DEF Renew
  <2>4. CASE CopyHead(t) \/ CopyTail(t)
    BY <2>4 DEF CopyHead, CopyTail
  <2>5. CASE LockTxnMu(t)
    BY <2>5 DEF LockTxnMu
  <2>6. CASE HoldRLock(t)
    BY <2>6 DEF HoldRLock
  <2>7. CASE BeginWrite(t)
    BY <2>7 DEF BeginWrite
  <2>8. CASE SwapMap(t)
    BY <2>8 DEF SwapMap, Locked
  <2>9. CASE WriteMeta(t)
    BY <2>9 DEF WriteMeta
  <2>10. CASE ReadMeta(t)
    BY <2>10 DEF ReadMeta, Locked
  <2>11. CASE UnlockWriter(t)
    BY <2>11 DEF UnlockWriter
  <2>12. CASE ClearWriteTxn(t)
    BY <2>12 DEF ClearWriteTxn
  <2>13. CASE EndWrite(t)
    BY <2>13 DEF EndWrite
  <2>14. CASE Unsign(t)
    BY <2>14 DEF Unsign, Locked
  <2>15. CASE Drain(t)
    BY <2>15 DEF Drain
  <2>16. CASE CloseFiles(t)
    BY <2>16 DEF CloseFiles, Locked
  <2>. QED
    BY <1>1, <2>1, <2>2, <2>3, <2>4, <2>5, <2>6, <2>7, <2>8, <2>9, <2>10, <2>11, <2>12,
       <2>13, <2>14, <2>15, <2>16 DEF Progress
<1>2. ASSUME NEW t \in Threads, Ends(t) PROVE Typed'
  BY <1>2 DEF Ends, EndRead, Commit, Abort
<1>3. ASSUME NEW t \in Threads, Calls(t) PROVE Typed'
  <2>1. CASE Allocate(t)
    BY <2>1 DEF Allocate
  <2>2. CASE CallBegin(t, "read") \/ CallBegin(t, "write") \/ CallClose(t)
    BY <2>2 DEF CallBegin, CallClose
  <2>3. CASE Reset(t) \/ CallRenew(t) \/ CopySize(t)
    BY <2>3 DEF Reset, CallRenew, CopySize
  <2>. QED  BY <1>3, <2>1, <2>2, <2>3 DEF Calls
<1>4. CASE PreExtendMmap
  BY <1>4 DEF PreExtendMmap
<1>5. CASE PeerLock \/ PeerUnlock \/ PeerCommit
  BY <1>5 DEF PeerLock, PeerUnlock, PeerCommit, Peer
<1>6. CASE UNCHANGED vars
  BY <1>6 DEF vars
<1>. QED  BY <1>1, <1>2, <1>3, <1>4, <1>5, <1>6 DEF Next
------------------------------------------------------------------------------
(* One writer *)

WriterPCs == {"writing", "remap", "meta", "publish", "unlock"}

\* txnMu is held between taking it and the flock, and writeTxn is its thread
\* from then on until it is cleared; nobody gets txnMu while it is set.
OneWriteTxn ==
  /\ \A t \in Threads : pc[t] \in {"rlock", "flock"} => txnMu = t
  /\ \A t \in Threads : pc[t] \in WriterPCs \cup {"clear"} => writeTxn = t
  /\ \A t \in Threads : pc[t] \in WriterPCs => flock = "us"
  /\ txnMu # Nobody => writeTxn = Nobody

(***************************************************************************)
(* Nobody writes when the environment has been opened.                     *)
(***************************************************************************)
LEMMA InitOneWriteTxn == Init => OneWriteTxn
BY DEF Init, OneWriteTxn, WriterPCs

(***************************************************************************)
(* txnMu, writeTxn and the flock are handed from writer to writer: no step *)
(* of a thread, of Close or of the other process breaks in.                *)
(***************************************************************************)
LEMMA StepOneWriteTxn == Typed /\ OneWriteTxn /\ [Next]_vars => OneWriteTxn'
<1>. SUFFICES ASSUME Typed, OneWriteTxn, [Next]_vars PROVE OneWriteTxn'
  OBVIOUS
<1>. USE LifecycleAssumption DEF Typed, OneWriteTxn, WriterPCs, Goto, At, lockVars
<1>1. ASSUME NEW t \in Threads, Progress(t) PROVE OneWriteTxn'
  <2>1. CASE AnnounceLock(t)
    BY <2>1 DEF AnnounceLock, WantsLock
  <2>2. CASE BeginRead(t)
    BY <2>2 DEF BeginRead
  <2>3. CASE Renew(t)
    BY <2>3 DEF Renew
  <2>4. CASE CopyHead(t)
    BY <2>4 DEF CopyHead
  <2>5. CASE CopyTail(t)
    BY <2>5 DEF CopyTail
  <2>6. CASE LockTxnMu(t)
    BY <2>6 DEF LockTxnMu
  <2>7. CASE HoldRLock(t)
    BY <2>7 DEF HoldRLock
  <2>8. CASE BeginWrite(t)
    BY <2>8 DEF BeginWrite
  <2>9. CASE SwapMap(t)
    BY <2>9 DEF SwapMap, Locked
  <2>10. CASE WriteMeta(t)
    BY <2>10 DEF WriteMeta
  <2>11. CASE ReadMeta(t)
    BY <2>11 DEF ReadMeta, Locked
  <2>12. CASE UnlockWriter(t)
    BY <2>12 DEF UnlockWriter
  <2>13. CASE ClearWriteTxn(t)
    BY <2>13 DEF ClearWriteTxn
  <2>14. CASE EndWrite(t)
    BY <2>14 DEF EndWrite
  <2>15. CASE Unsign(t)
    BY <2>15 DEF Unsign, Locked
  <2>16. CASE Drain(t)
    BY <2>16 DEF Drain
  <2>17. CASE CloseFiles(t)
    BY <2>17 DEF CloseFiles, Locked
  <2>. QED
    BY <1>1, <2>1, <2>2, <2>3, <2>4, <2>5, <2>6, <2>7, <2>8, <2>9, <2>10, <2>11, <2>12, <2>13, <2>14, <2>15, <2>16, <2>17 DEF Progress
<1>2. ASSUME NEW t \in Threads, Ends(t) PROVE OneWriteTxn'
  BY <1>2 DEF Ends, EndRead, Commit, Abort
<1>3. ASSUME NEW t \in Threads, Calls(t) PROVE OneWriteTxn'
  BY <1>3 DEF Calls, CallBegin, CallClose, Reset, CallRenew, CopySize, Allocate
<1>4. CASE PreExtendMmap
  BY <1>4 DEF PreExtendMmap
<1>5. CASE PeerLock \/ PeerUnlock \/ PeerCommit
  BY <1>5 DEF PeerLock, PeerUnlock, PeerCommit, Peer
<1>6. CASE UNCHANGED vars
  BY <1>6 DEF vars
<1>. QED  BY <1>1, <1>2, <1>3, <1>4, <1>5, <1>6 DEF Next

(***************************************************************************)
(* At most one thread works on a write transaction, and the process holds  *)
(* the writer lock as long as it does (beginWriteTxn, endWriteTxn).        *)
(***************************************************************************)
THEOREM WriterIsAlone == Spec => []OneWriter
<1>1. Typed /\ OneWriteTxn => OneWriter
  <2>. SUFFICES ASSUME Typed, OneWriteTxn PROVE OneWriter
    OBVIOUS
  <2>. DEFINE writers == {t \in Threads : pc[t] \in WriterPCs}
  <2>1. writers # {} => flock = "us"
    BY DEF OneWriteTxn
  <2>2. \A t, u \in writers : t = u
    BY DEF OneWriteTxn
  <2>3. writers = {} \/ \E t \in writers : writers = {t}
    BY <2>2
  <2>4. Cardinality(writers) \in {0, 1}
    BY <2>3, FS_EmptySet, FS_Singleton, Zenon
  <2>. QED  BY <2>1, <2>4 DEF OneWriter, WriterPCs
<1>. QED  BY <1>1, InitTyped, StepTyped, InitOneWriteTxn, StepOneWriteTxn, PTL DEF Spec

------------------------------------------------------------------------------
(* Maps are not lost *)

(***************************************************************************)
(* A map leaves the current one's place only for the list of old maps, and *)
(* a new one is installed by the commit that made it.                      *)
(***************************************************************************)
LEMMA StepNoMapIsLost == Typed /\ NoMapIsLost /\ [Next]_vars => NoMapIsLost'
<1>. SUFFICES ASSUME Typed, NoMapIsLost, [Next]_vars PROVE NoMapIsLost'
  OBVIOUS
<1>. USE DEF Typed, NoMapIsLost, Goto, At, envVars, lockVars, NoTxn, TxnRecs
<1>1. ASSUME NEW t \in Threads, Progress(t) PROVE NoMapIsLost'
  <2>1. CASE AnnounceLock(t)
    BY <2>1 DEF AnnounceLock, WantsLock
  <2>2. CASE BeginRead(t)
    BY <2>2 DEF BeginRead
  <2>3. CASE Renew(t)
    BY <2>3 DEF Renew
  <2>4. CASE CopyHead(t)
    BY <2>4 DEF CopyHead
  <2>5. CASE CopyTail(t)
    BY <2>5 DEF CopyTail
  <2>6. CASE LockTxnMu(t)
    BY <2>6 DEF LockTxnMu
  <2>7. CASE HoldRLock(t)
    BY <2>7 DEF HoldRLock
  <2>8. CASE BeginWrite(t)
    BY <2>8 DEF BeginWrite
  <2>9. CASE SwapMap(t)
    BY <2>9 DEF SwapMap, Locked
  <2>10. CASE WriteMeta(t)
    BY <2>10 DEF WriteMeta
  <2>11. CASE ReadMeta(t)
    BY <2>11 DEF ReadMeta, Locked
  <2>12. CASE UnlockWriter(t)
    BY <2>12 DEF UnlockWriter
  <2>13. CASE ClearWriteTxn(t)
    <3>1. /\ UNCHANGED <<mapped, dataMap, oldMmaps, txn>>
          /\ \A u \in Threads : At(u, "remap") => pc'[u] = "remap"
      BY <2>13 DEF ClearWriteTxn
    <3>. QED  BY <3>1
  <2>14. CASE EndWrite(t)
    BY <2>14 DEF EndWrite
  <2>15. CASE Unsign(t)
    BY <2>15 DEF Unsign, Locked
  <2>16. CASE Drain(t)
    BY <2>16 DEF Drain
  <2>17. CASE CloseFiles(t)
    BY <2>17 DEF CloseFiles, Locked
  <2>. QED
    BY <1>1, <2>1, <2>2, <2>3, <2>4, <2>5, <2>6, <2>7, <2>8, <2>9, <2>10, <2>11, <2>12, <2>13, <2>14, <2>15, <2>16, <2>17 DEF Progress
<1>2. ASSUME NEW t \in Threads, Ends(t) PROVE NoMapIsLost'
  BY <1>2 DEF Ends, EndRead, Commit, Abort
<1>3. ASSUME NEW t \in Threads, Calls(t) PROVE NoMapIsLost'
  BY <1>3 DEF Calls, CallBegin, CallClose, Reset, CallRenew, CopySize, Allocate
<1>4. CASE PreExtendMmap
  BY <1>4 DEF PreExtendMmap
<1>5. CASE PeerLock \/ PeerUnlock \/ PeerCommit
  BY <1>5 DEF PeerLock, PeerUnlock, PeerCommit, Peer
<1>6. CASE UNCHANGED vars
  BY <1>6 DEF vars
<1>. QED  BY <1>1, <1>2, <1>3, <1>4, <1>5, <1>6 DEF Next

(***************************************************************************)
(* Close finds every map to unmap: it is the current one, an old one, or   *)
(* about to be installed (mmapMu, remapFile, closeFiles).                  *)
(***************************************************************************)
THEOREM MapsAreKept == Spec => []NoMapIsLost
<1>1. Init => NoMapIsLost
  BY DEF Init, NoMapIsLost
<1>. QED  BY <1>1, InitTyped, StepTyped, StepNoMapIsLost, PTL DEF Spec
------------------------------------------------------------------------------
(* The count of transactions *)

Counted == txnWg = Cardinality(Running)

(***************************************************************************)
(* A step that moves no thread into a transaction or out of one, and       *)
(* leaves the count alone, leaves it true.                                 *)
(***************************************************************************)
LEMMA SameCount ==
  ASSUME Typed, Typed', Counted, UNCHANGED txnWg,
         \A t \in Threads : pc'[t] \in InTxn <=> pc[t] \in InTxn
  PROVE  Counted'
<1>1. Running' = Running
  BY DEF Running
<1>. QED  BY <1>1 DEF Counted

(***************************************************************************)
(* A thread that enters a transaction is one more, one that leaves is one  *)
(* less: txnWg.Add(1) and txnWg.Done.                                      *)
(***************************************************************************)
LEMMA OneMoreOrLess ==
  ASSUME Typed, Typed', Counted, NEW t \in Threads,
         \A u \in Threads \ {t} : pc'[u] \in InTxn <=> pc[u] \in InTxn,
         \/ pc[t] \notin InTxn /\ pc'[t] \in InTxn /\ txnWg' = txnWg + 1
         \/ pc[t] \in InTxn /\ pc'[t] \notin InTxn /\ txnWg' = txnWg - 1
  PROVE  Counted'
<1>1. IsFiniteSet(Running)
  BY FS_Subset, LifecycleAssumption DEF Running
<1>2. CASE pc[t] \notin InTxn /\ pc'[t] \in InTxn /\ txnWg' = txnWg + 1
  <2>1. Running' = Running \cup {t} /\ t \notin Running
    BY <1>2 DEF Running
  <2>. QED  BY <1>1, <1>2, <2>1, FS_AddElement DEF Counted
<1>3. CASE pc[t] \in InTxn /\ pc'[t] \notin InTxn /\ txnWg' = txnWg - 1
  <2>1. Running' = Running \ {t} /\ t \in Running
    BY <1>3 DEF Running
  <2>. QED  BY <1>1, <1>3, <2>1, FS_RemoveElement DEF Counted
<1>. QED  BY <1>2, <1>3

(***************************************************************************)
(* txnWg counts the transactions that have begun and not ended, across     *)
(* begin, commit, abort, reset and renew.                                  *)
(***************************************************************************)
LEMMA StepCounted == Typed /\ Typed' /\ Counted /\ [Next]_vars => Counted'
<1>. SUFFICES ASSUME Typed, Typed', Counted, [Next]_vars PROVE Counted'
  OBVIOUS
<1>. DEFINE Same == UNCHANGED txnWg /\ \A t \in Threads : pc'[t] \in InTxn <=> pc[t] \in InTxn
            Moves(t) == /\ \A u \in Threads \ {t} : pc'[u] = pc[u]
                        /\ \/ pc[t] \notin InTxn /\ pc'[t] \in InTxn /\ txnWg' = txnWg + 1
                           \/ pc[t] \in InTxn /\ pc'[t] \notin InTxn /\ txnWg' = txnWg - 1
<1>1. ASSUME NEW t \in Threads, Progress(t) \/ Ends(t) \/ Calls(t) PROVE Same \/ Moves(t)
  <2>. USE DEF Typed, Goto, At, InTxn, Beginning, Closing, WantsLock, Locked
  <2>1. CASE BeginRead(t) \/ BeginWrite(t) \/ EndRead(t) \/ EndWrite(t)
    BY <2>1 DEF BeginRead, BeginWrite, EndRead, EndWrite
  <2>2. CASE AnnounceLock(t) \/ Renew(t) \/ CopyHead(t) \/ CopyTail(t) \/ Reset(t)
             \/ CallRenew(t) \/ CopySize(t)
    BY <2>2 DEF AnnounceLock, Renew, CopyHead, CopyTail, Reset, CallRenew, CopySize
  <2>3. CASE LockTxnMu(t) \/ HoldRLock(t) \/ Allocate(t) \/ Commit(t) \/ Abort(t) \/ SwapMap(t)
    BY <2>3 DEF LockTxnMu, HoldRLock, Allocate, Commit, Abort, SwapMap
  <2>4. CASE WriteMeta(t) \/ ReadMeta(t) \/ UnlockWriter(t)
    BY <2>4 DEF WriteMeta, ReadMeta, UnlockWriter
  <2>5. CASE ClearWriteTxn(t)
    BY <2>5 DEF ClearWriteTxn
  <2>6. CASE Unsign(t) \/ Drain(t) \/ CloseFiles(t)
    BY <2>6 DEF Unsign, Drain, CloseFiles
  <2>7. CASE CallBegin(t, "read") \/ CallBegin(t, "write") \/ CallClose(t)
    BY <2>7 DEF CallBegin, CallClose
  <2>. QED  BY <1>1, <2>1, <2>2, <2>3, <2>4, <2>5, <2>6, <2>7 DEF Progress, Ends, Calls
<1>2. ASSUME PreExtendMmap \/ PeerLock \/ PeerUnlock \/ PeerCommit \/ UNCHANGED vars PROVE Same
  BY <1>2 DEF PreExtendMmap, PeerLock, PeerUnlock, PeerCommit, Peer, vars
<1>. QED  BY <1>1, <1>2, SameCount, OneMoreOrLess DEF Next

------------------------------------------------------------------------------
(* Close *)

Orderly == ~CloseRaces

\* From Unsign on nobody begins; from Drain on nobody has begun, and then
\* the current map goes.
CloseIsLast ==
  /\ (~valid \/ \E t \in Threads : pc[t] \in Closing) =>
       \A u \in Threads : pc[u] \notin Beginning
  /\ \A t \in Threads : pc[t] \in {"drain", "files"} => ~valid
  /\ (dataMap = NoMap \/ \E t \in Threads : At(t, "files")) =>
       \A u \in Threads : pc[u] \notin InTxn
  /\ dataMap = NoMap => ~valid

\* Close unmaps what is current or old; a commit installs the map it made,
\* which is larger than the current one.
MapsHeld ==
  /\ dataMap # NoMap => dataMap \in mapped
  /\ oldMmaps \subseteq mapped /\ oldMmaps \subseteq 1 .. MaxPages
  /\ \A t \in Threads : At(t, "remap") => txn[t].alloc \in mapped /\ txn[t].alloc > dataMap
  /\ BegunTxnIsMapped

(***************************************************************************)
(* When Close is not called while BeginTxn is in progress, txnWg.Wait      *)
(* leaves no transaction behind, and none begins after it.                 *)
(***************************************************************************)
LEMMA StepCloseIsLast ==
  ASSUME Orderly, Typed, Counted, CloseIsLast, MapsHeld, [Next]_vars
  PROVE  CloseIsLast'
<1>. USE DEF Orderly, Typed, CloseIsLast, Goto, At, NoMap, Pages, Beginning, Closing, InTxn,
             envVars, lockVars
<1>1. ASSUME NEW t \in Threads, Progress(t) PROVE CloseIsLast'
  <2>1. CASE AnnounceLock(t)
    BY <2>1 DEF AnnounceLock, WantsLock
  <2>2. CASE BeginRead(t)
    BY <2>2 DEF BeginRead
  <2>3. CASE Renew(t)
    BY <2>3 DEF Renew
  <2>4. CASE CopyHead(t)
    BY <2>4 DEF CopyHead
  <2>5. CASE CopyTail(t)
    BY <2>5 DEF CopyTail
  <2>6. CASE LockTxnMu(t)
    BY <2>6 DEF LockTxnMu
  <2>7. CASE HoldRLock(t)
    BY <2>7 DEF HoldRLock
  <2>8. CASE BeginWrite(t)
    BY <2>8 DEF BeginWrite
  <2>9. CASE SwapMap(t)
    BY <2>9 DEF SwapMap, Locked, MapsHeld
  <2>10. CASE WriteMeta(t)
    BY <2>10 DEF WriteMeta
  <2>11. CASE ReadMeta(t)
    BY <2>11 DEF ReadMeta, Locked
  <2>12. CASE UnlockWriter(t)
    BY <2>12 DEF UnlockWriter
  <2>13. CASE ClearWriteTxn(t)
    BY <2>13 DEF ClearWriteTxn
  <2>14. CASE EndWrite(t)
    BY <2>14 DEF EndWrite
  <2>15. CASE Unsign(t)
    BY <2>15 DEF Unsign, Locked
  <2>16. CASE Drain(t)
    <3>1. Running = {}
      <4>1. IsFiniteSet(Running)
        BY FS_Subset, LifecycleAssumption DEF Running
      <4>. QED  BY <2>16, <4>1, FS_EmptySet DEF Drain, Counted
    <3>. QED  BY <2>16, <3>1 DEF Drain, Running
  <2>17. CASE CloseFiles(t)
    BY <2>17 DEF CloseFiles, Locked
  <2>. QED
    BY <1>1, <2>1, <2>2, <2>3, <2>4, <2>5, <2>6, <2>7, <2>8, <2>9, <2>10, <2>11, <2>12, <2>13, <2>14, <2>15, <2>16, <2>17 DEF Progress
<1>2. ASSUME NEW t \in Threads, Ends(t) PROVE CloseIsLast'
  <2>1. CASE EndRead(t)
    BY <2>1 DEF EndRead
  <2>2. CASE Commit(t)
    BY <2>2 DEF Commit
  <2>3. CASE Abort(t)
    BY <2>3 DEF Abort
  <2>. QED  BY <1>2, <2>1, <2>2, <2>3 DEF Ends
<1>3. ASSUME NEW t \in Threads, Calls(t) PROVE CloseIsLast'
  <2>1. CASE CallBegin(t, "read") \/ CallBegin(t, "write")
    BY <2>1 DEF CallBegin
  <2>2. CASE CallClose(t)
    BY <2>2 DEF CallClose
  <2>3. CASE Reset(t) \/ CallRenew(t) \/ CopySize(t)
    BY <2>3 DEF Reset, CallRenew, CopySize
  <2>4. CASE Allocate(t)
    BY <2>4 DEF Allocate
  <2>. QED  BY <1>3, <2>1, <2>2, <2>3, <2>4 DEF Calls
<1>4. CASE PreExtendMmap
  BY <1>4 DEF PreExtendMmap
<1>5. CASE PeerLock \/ PeerUnlock \/ PeerCommit
  BY <1>5 DEF PeerLock, PeerUnlock, PeerCommit, Peer
<1>6. CASE UNCHANGED vars
  BY <1>6 DEF vars
<1>. QED  BY <1>1, <1>2, <1>3, <1>4, <1>5, <1>6 DEF Next

------------------------------------------------------------------------------
(* Maps in use *)

(***************************************************************************)
(* A map in use stays mapped: only Close unmaps, when no transaction is    *)
(* left, and only a commit replaces the current map, which it keeps.       *)
(***************************************************************************)
LEMMA StepMapsHeld ==
  ASSUME Orderly, Typed, OneWriteTxn, CloseIsLast, MapsHeld, [Next]_vars
  PROVE  MapsHeld'
<1>. USE LifecycleAssumption
     DEF Typed, MapsHeld, BegunTxnIsMapped, Goto, At, NoMap, NoTxn, Begun, Pages, TxnRecs,
         InTxn, envVars, lockVars
<1>1. ASSUME NEW t \in Threads, Progress(t) PROVE MapsHeld'
  <2>1. CASE AnnounceLock(t)
    BY <2>1 DEF AnnounceLock, WantsLock
  <2>2. CASE BeginRead(t)
    BY <2>2 DEF BeginRead
  <2>3. CASE Renew(t)
    BY <2>3 DEF Renew, CloseIsLast
  <2>4. CASE CopyHead(t)
    BY <2>4 DEF CopyHead
  <2>5. CASE CopyTail(t)
    BY <2>5 DEF CopyTail
  <2>6. CASE LockTxnMu(t)
    BY <2>6 DEF LockTxnMu
  <2>7. CASE HoldRLock(t)
    BY <2>7 DEF HoldRLock
  <2>8. CASE BeginWrite(t)
    BY <2>8 DEF BeginWrite, CloseIsLast, Beginning
  <2>9. CASE SwapMap(t)
    <3>1. /\ dataMap' = txn[t].alloc /\ oldMmaps' = oldMmaps \cup {dataMap}
          /\ UNCHANGED <<mapped, txn>>
          /\ pc[t] = "remap"
          /\ pc' = [pc EXCEPT ![t] = "meta"] \/ pc' = [pc EXCEPT ![t] = "unlock"]
      BY <2>9 DEF SwapMap, Locked
    <3>2. dataMap \in mapped /\ dataMap \in 1 .. MaxPages
      BY <3>1 DEF CloseIsLast
    <3>3. \A u \in Threads : pc'[u] # "remap"
      BY <3>1 DEF OneWriteTxn, WriterPCs
    <3>4. \A u \in Threads : pc'[u] \in InTxn => pc[u] \in InTxn
      BY <3>1
    <3>. QED  BY <3>1, <3>2, <3>3, <3>4
  <2>10. CASE WriteMeta(t)
    BY <2>10 DEF WriteMeta
  <2>11. CASE ReadMeta(t)
    BY <2>11 DEF ReadMeta, Locked
  <2>12. CASE UnlockWriter(t)
    BY <2>12 DEF UnlockWriter
  <2>13. CASE ClearWriteTxn(t)
    BY <2>13 DEF ClearWriteTxn
  <2>14. CASE EndWrite(t)
    BY <2>14 DEF EndWrite
  <2>15. CASE Unsign(t)
    BY <2>15 DEF Unsign, Locked
  <2>16. CASE Drain(t)
    BY <2>16 DEF Drain
  <2>17. CASE CloseFiles(t)
    BY <2>17 DEF CloseFiles, Locked, CloseIsLast
  <2>. QED
    BY <1>1, <2>1, <2>2, <2>3, <2>4, <2>5, <2>6, <2>7, <2>8, <2>9, <2>10, <2>11, <2>12, <2>13, <2>14, <2>15, <2>16, <2>17 DEF Progress
<1>2. ASSUME NEW t \in Threads, Ends(t) PROVE MapsHeld'
  <2>1. CASE EndRead(t)
    BY <2>1 DEF EndRead
  <2>2. CASE Commit(t)
    BY <2>2 DEF Commit
  <2>3. CASE Abort(t)
    BY <2>3 DEF Abort
  <2>. QED  BY <1>2, <2>1, <2>2, <2>3 DEF Ends
<1>3. ASSUME NEW t \in Threads, Calls(t) PROVE MapsHeld'
  <2>1. CASE CallBegin(t, "read") \/ CallBegin(t, "write")
    BY <2>1 DEF CallBegin
  <2>2. CASE CallClose(t)
    BY <2>2 DEF CallClose
  <2>3. CASE Reset(t) \/ CallRenew(t) \/ CopySize(t)
    BY <2>3 DEF Reset, CallRenew, CopySize
  <2>4. CASE Allocate(t)
    BY <2>4 DEF Allocate
  <2>. QED  BY <1>3, <2>1, <2>2, <2>3, <2>4 DEF Calls
<1>4. CASE PreExtendMmap
  BY <1>4 DEF PreExtendMmap, CloseIsLast
<1>5. CASE PeerLock \/ PeerUnlock \/ PeerCommit
  BY <1>5 DEF PeerLock, PeerUnlock, PeerCommit, Peer
<1>6. CASE UNCHANGED vars
  BY <1>6 DEF vars
<1>. QED  BY <1>1, <1>2, <1>3, <1>4, <1>5, <1>6 DEF Next

\* What a meta page says is in the current map, also what a commit is about
\* to say.
SnapshotsFit ==
  /\ dataMap # NoMap => now <= dataMap /\ seen <= dataMap
  /\ \A t \in Threads : At(t, "meta") => txn[t].alloc <= dataMap
  /\ SnapshotIsMapped

(***************************************************************************)
(* A commit maps the grown file before it writes the meta page that needs  *)
(* it, so that who begins after finds a map that is large enough.          *)
(***************************************************************************)
LEMMA StepSnapshotsFit ==
  ASSUME Orderly, ~PeerGrows, Typed, OneWriteTxn, CloseIsLast, MapsHeld, SnapshotsFit,
         [Next]_vars
  PROVE  SnapshotsFit'
<1>. USE LifecycleAssumption
     DEF Typed, SnapshotsFit, SnapshotIsMapped, Goto, At, NoMap, NoTxn, Begun, Pages, TxnRecs,
         InTxn, envVars, lockVars, fileVars
<1>1. ASSUME NEW t \in Threads, Progress(t) PROVE SnapshotsFit'
  <2>1. CASE AnnounceLock(t)
    BY <2>1 DEF AnnounceLock, WantsLock
  <2>2. CASE BeginRead(t)
    BY <2>2 DEF BeginRead
  <2>3. CASE Renew(t)
    BY <2>3 DEF Renew, CloseIsLast
  <2>4. CASE CopyHead(t)
    BY <2>4 DEF CopyHead
  <2>5. CASE CopyTail(t)
    BY <2>5 DEF CopyTail
  <2>6. CASE LockTxnMu(t)
    BY <2>6 DEF LockTxnMu
  <2>7. CASE HoldRLock(t)
    BY <2>7 DEF HoldRLock
  <2>8. CASE BeginWrite(t)
    BY <2>8 DEF BeginWrite, CloseIsLast, Beginning
  <2>9. CASE SwapMap(t)
    <3>1. /\ dataMap' = txn[t].alloc /\ txn[t].alloc > dataMap
          /\ seen' \in {seen, now} /\ UNCHANGED <<now, txn>>
          /\ pc[t] = "remap"
          /\ pc' = [pc EXCEPT ![t] = "meta"] \/ pc' = [pc EXCEPT ![t] = "unlock"]
      BY <2>9 DEF SwapMap, Locked, MapsHeld
    <3>2. dataMap # NoMap
      BY <3>1 DEF CloseIsLast
    <3>3. \A u \in Threads \ {t} : pc[u] # "meta"
      BY <3>1 DEF OneWriteTxn, WriterPCs
    <3>4. \A u \in Threads : pc'[u] \in InTxn => pc[u] \in InTxn
      BY <3>1
    <3>. QED  BY <3>1, <3>2, <3>3, <3>4
  <2>10. CASE WriteMeta(t)
    BY <2>10 DEF WriteMeta, OneWriteTxn, WriterPCs
  <2>11. CASE ReadMeta(t)
    BY <2>11 DEF ReadMeta, Locked
  <2>12. CASE UnlockWriter(t)
    BY <2>12 DEF UnlockWriter
  <2>13. CASE ClearWriteTxn(t)
    BY <2>13 DEF ClearWriteTxn
  <2>14. CASE EndWrite(t)
    BY <2>14 DEF EndWrite
  <2>15. CASE Unsign(t)
    BY <2>15 DEF Unsign, Locked
  <2>16. CASE Drain(t)
    BY <2>16 DEF Drain
  <2>17. CASE CloseFiles(t)
    BY <2>17 DEF CloseFiles, Locked, CloseIsLast
  <2>. QED
    BY <1>1, <2>1, <2>2, <2>3, <2>4, <2>5, <2>6, <2>7, <2>8, <2>9, <2>10, <2>11, <2>12, <2>13, <2>14, <2>15, <2>16, <2>17 DEF Progress
<1>2. ASSUME NEW t \in Threads, Ends(t) PROVE SnapshotsFit'
  <2>1. CASE EndRead(t)
    BY <2>1 DEF EndRead
  <2>2. CASE Commit(t)
    BY <2>2 DEF Commit
  <2>3. CASE Abort(t)
    BY <2>3 DEF Abort
  <2>. QED  BY <1>2, <2>1, <2>2, <2>3 DEF Ends
<1>3. ASSUME NEW t \in Threads, Calls(t) PROVE SnapshotsFit'
  <2>1. CASE CallBegin(t, "read") \/ CallBegin(t, "write")
    BY <2>1 DEF CallBegin
  <2>2. CASE CallClose(t)
    BY <2>2 DEF CallClose
  <2>3. CASE Reset(t) \/ CallRenew(t) \/ CopySize(t)
    BY <2>3 DEF Reset, CallRenew, CopySize
  <2>4. CASE Allocate(t)
    BY <2>4 DEF Allocate
  <2>. QED  BY <1>3, <2>1, <2>2, <2>3, <2>4 DEF Calls
<1>4. CASE PreExtendMmap
  BY <1>4 DEF PreExtendMmap, CloseIsLast
<1>5. CASE PeerLock \/ PeerUnlock \/ PeerCommit
  BY <1>5 DEF PeerLock, PeerUnlock, PeerCommit, Peer
<1>6. CASE UNCHANGED vars
  BY <1>6 DEF vars
<1>. QED  BY <1>1, <1>2, <1>3, <1>4, <1>5, <1>6 DEF Next

------------------------------------------------------------------------------
(* The invariant *)

Lifecycle == Typed /\ OneWriteTxn /\ Counted /\ CloseIsLast /\ MapsHeld

(***************************************************************************)
(* The invariant of an orderly program: types, one writer, the count,      *)
(* Close, and the maps.                                                    *)
(***************************************************************************)
LEMMA Invariant == Orderly => (Spec => []Lifecycle)
<1>. SUFFICES ASSUME Orderly PROVE Spec => []Lifecycle
  OBVIOUS
<1>1. Init => Lifecycle
  <2>1. Init => CloseIsLast /\ MapsHeld
    BY LifecycleAssumption
       DEF Init, CloseIsLast, MapsHeld, BegunTxnIsMapped, At, NoMap, Closing, Beginning, InTxn
  <2>2. Init => Counted
    <3>1. Init => Running = {}
      BY DEF Init, Running, InTxn
    <3>. QED  BY <3>1, FS_EmptySet DEF Init, Counted
  <2>. QED  BY <2>1, <2>2, InitTyped, InitOneWriteTxn DEF Lifecycle
<1>2. Lifecycle /\ [Next]_vars => Lifecycle'
  BY StepTyped, StepOneWriteTxn, StepCounted, StepCloseIsLast, StepMapsHeld DEF Lifecycle
<1>. QED  BY <1>1, <1>2, PTL DEF Spec

(***************************************************************************)
(* Type correctness; in particular txnWg is the number of transactions, so *)
(* that Close neither waits for ever nor returns early.                    *)
(***************************************************************************)
THEOREM TypeCorrect == Orderly => (Spec => []TypeOK)
<1>1. Lifecycle => TypeOK
  BY DEF Lifecycle, Typed, Counted, MapsHeld, TypeOK, PCs, Running, Pages
<1>. QED  BY <1>1, Invariant, PTL

(***************************************************************************)
(* The map of a transaction stays mapped until the transaction ends,       *)
(* through every commit that replaces the environment's map and through    *)
(* Close (oldMmaps, txnWg).                                                *)
(***************************************************************************)
THEOREM TxnsKeepTheirMap == Orderly => (Spec => []BegunTxnIsMapped)
<1>1. Lifecycle => BegunTxnIsMapped
  BY DEF Lifecycle, MapsHeld
<1>. QED  BY <1>1, Invariant, PTL

(***************************************************************************)
(* All pages of a transaction's snapshot lie in the map it holds, when the *)
(* other process does not commit past it (PreExtendMmap).                  *)
(***************************************************************************)
THEOREM SnapshotsFitTheirMap == Orderly /\ ~PeerGrows => (Spec => []SnapshotIsMapped)
<1>. SUFFICES ASSUME Orderly, ~PeerGrows PROVE Spec => []SnapshotIsMapped
  OBVIOUS
<1>1. Init => SnapshotsFit
  BY LifecycleAssumption
     DEF Init, SnapshotsFit, SnapshotIsMapped, At, NoMap, InTxn
<1>2. Lifecycle /\ SnapshotsFit /\ [Next]_vars => SnapshotsFit'
  BY StepSnapshotsFit DEF Lifecycle
<1>3. SnapshotsFit => SnapshotIsMapped
  BY DEF SnapshotsFit
<1>. QED  BY <1>1, <1>2, <1>3, Invariant, PTL DEF Spec
==============================================================================
