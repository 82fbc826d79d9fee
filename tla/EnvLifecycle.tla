---------------------------- MODULE EnvLifecycle -----------------------------
(***************************************************************************)
(* The environment of one process from Open to Close, with the goroutines  *)
(* that begin, end, reset and renew transactions, and another process that *)
(* takes the writer lock: Env.mu with its readers and its waiting writer,  *)
(* txnMu with the condition on writeTxn, the flock, txnWg, and the maps of *)
(* the data file, replaced when a commit grows the file and kept until     *)
(* Close.  A map is named by the number of pages it covers; a new one is   *)
(* always larger.                                                          *)
(***************************************************************************)
EXTENDS Integers, FiniteSets

CONSTANTS
  Threads,       \* goroutines of this process, each in one call at a time
  Closers,       \* those that may call Close
  Copiers,       \* those that may call CopyFD
  Nobody,        \* nobody holds the lock
  CloseRaces,    \* Close is called while BeginTxn may be in progress
  PeerGrows,     \* the other process's commits go past the map of this one
  FirstPages,    \* pages of the file at Open
  MaxPages,      \* bound on the file
  MaxBegins      \* bound on transactions begun

ASSUME LifecycleAssumption ==
  /\ IsFiniteSet(Threads) /\ Closers \subseteq Threads /\ Copiers \subseteq Threads
  /\ Nobody \notin Threads \cup {"us", "peer"}
  /\ CloseRaces \in BOOLEAN /\ PeerGrows \in BOOLEAN
  /\ MaxPages \in Nat /\ FirstPages \in 1 .. MaxPages /\ MaxBegins \in Nat

NoMap == 0

VARIABLES
  valid,      \* Env.signature
  dataMap,    \* the current map
  oldMmaps,   \* the maps it replaced
  mapped,     \* the maps not yet unmapped
  muReaders,  \* threads that hold Env.mu shared across steps
  muWriter,   \* the thread that waits for Env.mu exclusively
  txnMu,      \* the thread that holds txnMu
  writeTxn,   \* the thread of the current write transaction
  flock,      \* the process that holds the writer lock
  txnWg,      \* transactions counted for Close
  now,        \* Geometry.Now of the newest meta page
  seen,       \* the same as this process last read it (Env.meta)
  pc,         \* where each thread is
  txn,        \* its transaction: its map, the pages of its snapshot and,
              \* of the writer, the end of what it allocated
  copied,     \* what its CopyFD has: pages to copy, pages its metas need
  begins

envVars  == <<valid, dataMap, oldMmaps, mapped>>
lockVars == <<muReaders, muWriter, txnMu, writeTxn, flock>>
fileVars == <<now, seen>>
vars == <<envVars, lockVars, fileVars, txnWg, pc, txn, copied, begins>>

Beginning == {"read", "write", "cond", "rlock", "flock"}
Closing   == {"sign", "drain", "files"}
InTxn     == {"reading", "reset", "renew", "copyHead", "copyTail",
              "writing", "remap", "meta", "publish", "unlock", "clear", "done"}

NoTxn == [map |-> NoMap, pages |-> 0, alloc |-> 0]
Begun(map, pages) == [map |-> map, pages |-> pages, alloc |-> pages]

Goto(t, at) == pc' = [pc EXCEPT ![t] = at]
At(t, at)   == pc[t] = at

Init ==
  /\ valid = TRUE /\ dataMap = FirstPages /\ oldMmaps = {} /\ mapped = {FirstPages}
  /\ muReaders = {} /\ muWriter = Nobody /\ txnMu = Nobody /\ writeTxn = Nobody
  /\ flock = Nobody /\ txnWg = 0
  /\ now = FirstPages /\ seen = FirstPages
  /\ pc = [t \in Threads |-> "idle"]
  /\ txn = [t \in Threads |-> NoTxn]
  /\ copied = [t \in Threads |-> [size |-> 0, metas |-> 0]]
  /\ begins = 0

------------------------------------------------------------------------------
(* Env.mu.  A thread that waits for it exclusively keeps new readers out.  *)

MayRLock == muWriter = Nobody

WantsLock == {"sign", "files", "remap", "publish"}
AnnounceLock(t) ==
  /\ pc[t] \in WantsLock /\ muWriter = Nobody
  /\ muWriter' = t
  /\ UNCHANGED <<envVars, muReaders, txnMu, writeTxn, flock, fileVars, txnWg, pc, txn,
                 copied, begins>>

\* The critical section is one step; it gives the lock up.
Locked(t, at) ==
  /\ At(t, at) /\ muWriter = t /\ muReaders = {}
  /\ muWriter' = Nobody
  /\ UNCHANGED <<muReaders, txnMu, writeTxn, flock, copied, begins>>

------------------------------------------------------------------------------
(* Read transactions.                                                      *)

\* BeginTxn checks the signature before it takes any lock.
CallBegin(t, at) ==
  /\ At(t, "idle") /\ valid
  /\ begins < MaxBegins
  /\ CloseRaces \/ \A u \in Threads : pc[u] \notin Closing
  /\ begins' = begins + 1
  /\ Goto(t, at)
  /\ UNCHANGED <<envVars, lockVars, fileVars, txnWg, txn, copied>>

\* beginReadTxn, all under Env.mu shared; nothing in it waits.
BeginRead(t) ==
  /\ At(t, "read") /\ MayRLock
  /\ IF dataMap = NoMap THEN Goto(t, "idle") /\ UNCHANGED <<txn, txnWg>>
     ELSE /\ Goto(t, "reading")
          /\ txn' = [txn EXCEPT ![t] = Begun(dataMap, seen)]
          /\ txnWg' = txnWg + 1
  /\ UNCHANGED <<envVars, lockVars, fileVars, copied, begins>>

\* Mutant: the end of a read transaction unmaps the old maps when no other
\* transaction is counted (the disabled body of tryCleanupOldMmaps).
EndReadAndCleanUp(t) ==
  /\ pc[t] \in {"reading", "reset"}
  /\ Goto(t, "idle")
  /\ txn' = [txn EXCEPT ![t] = NoTxn]
  /\ txnWg' = txnWg - 1
  /\ LET unused == \A u \in Threads \ {t} : ~At(u, "reading")
     IN /\ oldMmaps' = IF unused THEN {} ELSE oldMmaps
        /\ mapped' = IF unused THEN mapped \ oldMmaps ELSE mapped
  /\ UNCHANGED <<valid, dataMap, lockVars, fileVars, copied, begins>>
\* Abort or Commit of a read transaction; old maps stay.
EndRead(t) ==
  /\ pc[t] \in {"reading", "reset"}
  /\ Goto(t, "idle")
  /\ txn' = [txn EXCEPT ![t] = NoTxn]
  /\ txnWg' = txnWg - 1
  /\ UNCHANGED <<envVars, lockVars, fileVars, copied, begins>>

\* Reset gives the reader slot back; the map and the count stay.
Reset(t) ==
  /\ At(t, "reading") /\ Goto(t, "reset")
  /\ UNCHANGED <<envVars, lockVars, fileVars, txnWg, txn, copied, begins>>

CallRenew(t) ==
  /\ At(t, "reset") /\ begins < MaxBegins
  /\ begins' = begins + 1
  /\ Goto(t, "renew")
  /\ UNCHANGED <<envVars, lockVars, fileVars, txnWg, txn, copied>>

Renew(t) ==
  /\ At(t, "renew") /\ MayRLock
  /\ Goto(t, "reading")
  /\ txn' = [txn EXCEPT ![t] = Begun(dataMap, seen)]
  /\ UNCHANGED <<envVars, lockVars, fileVars, txnWg, copied, begins>>

\* CopyFD in its own read transaction: the size from the meta page of the
\* moment, then the file from its start, meta pages first.  A thread copies
\* once.
CopySize(t) ==
  /\ At(t, "reading") /\ t \in Copiers /\ copied[t].size = 0
  /\ Goto(t, "copyHead")
  /\ copied' = [copied EXCEPT ![t] = [size |-> seen, metas |-> 0]]
  /\ UNCHANGED <<envVars, lockVars, fileVars, txnWg, txn, begins>>

CopyHead(t) ==
  /\ At(t, "copyHead") /\ Goto(t, "copyTail")
  /\ copied' = [copied EXCEPT ![t].metas = now]
  /\ UNCHANGED <<envVars, lockVars, fileVars, txnWg, txn, begins>>

CopyTail(t) ==
  /\ At(t, "copyTail") /\ Goto(t, "reading")
  /\ UNCHANGED <<envVars, lockVars, fileVars, txnWg, txn, copied, begins>>

------------------------------------------------------------------------------
(* Write transactions.                                                     *)

\* Mutant: the lock is taken without waiting for writeTxn to go.
LockTxnMuUnchecked(t) ==
  /\ At(t, "write") /\ txnMu = Nobody
  /\ Goto(t, "rlock") /\ txnMu' = t
  /\ UNCHANGED <<envVars, muReaders, muWriter, writeTxn, flock, fileVars, txnWg, txn,
                 copied, begins>>
\* beginWriteTxn: txnMu, given up while the thread waits for writeTxn to go.
LockTxnMu(t) ==
  /\ At(t, "write") /\ txnMu = Nobody
  /\ IF writeTxn # Nobody THEN Goto(t, "cond") /\ UNCHANGED txnMu
     ELSE Goto(t, "rlock") /\ txnMu' = t
  /\ UNCHANGED <<envVars, muReaders, muWriter, writeTxn, flock, fileVars, txnWg, txn,
                 copied, begins>>

\* It holds Env.mu shared, and txnMu, while it waits for the other process.
HoldRLock(t) ==
  /\ At(t, "rlock") /\ MayRLock
  /\ IF dataMap = NoMap
     THEN Goto(t, "idle") /\ txnMu' = Nobody /\ UNCHANGED muReaders
     ELSE Goto(t, "flock") /\ muReaders' = muReaders \cup {t} /\ UNCHANGED txnMu
  /\ UNCHANGED <<envVars, muWriter, writeTxn, flock, fileVars, txnWg, txn, copied, begins>>

\* flock of a file this process has locked already succeeds.
BeginWrite(t) ==
  /\ At(t, "flock") /\ flock # "peer"
  /\ flock' = "us"
  /\ seen' = now
  /\ txn' = [txn EXCEPT ![t] = Begun(dataMap, now)]
  /\ txnWg' = txnWg + 1
  /\ writeTxn' = t
  /\ txnMu' = Nobody /\ muReaders' = muReaders \ {t}
  /\ Goto(t, "writing")
  /\ UNCHANGED <<envVars, muWriter, now, copied, begins>>

Allocate(t) ==
  /\ At(t, "writing") /\ txn[t].alloc < MaxPages
  /\ txn' = [txn EXCEPT ![t].alloc = @ + 1]
  /\ UNCHANGED <<envVars, lockVars, fileVars, txnWg, pc, copied, begins>>

\* Mutant: the file is extended, and not mapped anew.
CommitUnmapped(t) ==
  /\ At(t, "writing") /\ Goto(t, "meta")
  /\ UNCHANGED <<envVars, lockVars, fileVars, txnWg, txn, copied, begins>>
\* writeDirtyPages: a file that is too small is extended and mapped anew.
Commit(t) ==
  /\ At(t, "writing")
  /\ IF txn[t].alloc > dataMap
     THEN Goto(t, "remap") /\ mapped' = mapped \cup {txn[t].alloc}
     ELSE Goto(t, "meta") /\ UNCHANGED mapped
  /\ UNCHANGED <<valid, dataMap, oldMmaps, lockVars, fileVars, txnWg, txn, copied, begins>>

\* Abort by the caller, and abortInternal of a commit that fails before its
\* meta page is stored: in writeDirtyPages, on either side of the new map, or
\* in updateMeta.
Abort(t) ==
  /\ pc[t] \in {"writing", "meta"} /\ Goto(t, "unlock")
  /\ UNCHANGED <<envVars, lockVars, fileVars, txnWg, txn, copied, begins>>

\* Mutant: the replaced map is not kept.
SwapMapAndForget(t) ==
  /\ Locked(t, "remap") /\ Goto(t, "meta")
  /\ dataMap' = txn[t].alloc
  /\ seen' = now
  /\ UNCHANGED <<valid, oldMmaps, mapped, now, txnWg, txn>>
\* The new map replaces the old one, which is kept for readers.  If readMeta
\* fails on it, the commit does, and the map stays.
SwapMap(t) ==
  /\ Locked(t, "remap")
  /\ dataMap' = txn[t].alloc
  /\ oldMmaps' = oldMmaps \cup {dataMap}
  /\ \/ Goto(t, "meta") /\ seen' = now
     \/ Goto(t, "unlock") /\ UNCHANGED seen
  /\ UNCHANGED <<valid, mapped, now, txnWg, txn>>

\* updateMeta stores the meta page, then reads it under the lock; or it fails
\* with the page stored (Sync), and the commit ends in abortInternal.
WriteMeta(t) ==
  /\ At(t, "meta")
  /\ Goto(t, "publish") \/ Goto(t, "unlock")
  /\ now' = txn[t].alloc
  /\ UNCHANGED <<envVars, lockVars, seen, txnWg, txn, copied, begins>>

\* readMeta may fail; the commit then ends in abortInternal as well.
ReadMeta(t) ==
  /\ Locked(t, "publish") /\ Goto(t, "unlock")
  /\ seen' \in {seen, now}
  /\ UNCHANGED <<envVars, now, txnWg, txn>>

UnlockWriter(t) ==
  /\ At(t, "unlock") /\ Goto(t, "clear")
  /\ flock' = Nobody
  /\ UNCHANGED <<envVars, muReaders, muWriter, txnMu, writeTxn, fileVars, txnWg, txn,
                 copied, begins>>

\* Mutant: Signal wakes at most one waiter, and Broadcast is not called.
ClearWithoutBroadcast(t) ==
  /\ At(t, "clear") /\ txnMu = Nobody
  /\ writeTxn' = Nobody
  /\ Goto(t, "done")
  /\ UNCHANGED <<envVars, muReaders, muWriter, txnMu, flock, fileVars, txnWg, txn,
                 copied, begins>>
\* writeTxn = nil and Broadcast, under txnMu; the woken look at it again.
ClearWriteTxn(t) ==
  /\ At(t, "clear") /\ txnMu = Nobody
  /\ writeTxn' = Nobody
  /\ pc' = [u \in Threads |-> IF u = t THEN "done"
                              ELSE IF pc[u] = "cond" THEN "write" ELSE pc[u]]
  /\ UNCHANGED <<envVars, muReaders, muWriter, txnMu, flock, fileVars, txnWg, txn,
                 copied, begins>>

\* Mutant: the count is given back only when the commit wrote pages.
EndWriteIfWritten(t) ==
  /\ At(t, "done") /\ Goto(t, "idle")
  /\ txnWg' = IF txn[t].alloc > txn[t].pages THEN txnWg - 1 ELSE txnWg
  /\ txn' = [txn EXCEPT ![t] = NoTxn]
  /\ UNCHANGED <<envVars, lockVars, fileVars, copied, begins>>
\* txnWg.Done, last.
EndWrite(t) ==
  /\ At(t, "done") /\ Goto(t, "idle")
  /\ txnWg' = txnWg - 1
  /\ txn' = [txn EXCEPT ![t] = NoTxn]
  /\ UNCHANGED <<envVars, lockVars, fileVars, copied, begins>>

------------------------------------------------------------------------------
(* Close, PreExtendMmap, and the other process.                            *)

CallClose(t) ==
  /\ At(t, "idle") /\ valid /\ t \in Closers
  /\ CloseRaces \/ \A u \in Threads : pc[u] \notin Beginning
  /\ Goto(t, "sign")
  /\ UNCHANGED <<envVars, lockVars, fileVars, txnWg, txn, copied, begins>>

Unsign(t) ==
  /\ Locked(t, "sign") /\ Goto(t, "drain")
  /\ valid' = FALSE
  /\ UNCHANGED <<dataMap, oldMmaps, mapped, fileVars, txnWg, txn>>

\* txnWg.Wait.
Drain(t) ==
  /\ At(t, "drain") /\ txnWg = 0 /\ Goto(t, "files")
  /\ UNCHANGED <<envVars, lockVars, fileVars, txnWg, txn, copied, begins>>

CloseFiles(t) ==
  /\ Locked(t, "files") /\ Goto(t, "idle")
  /\ mapped' = mapped \ (oldMmaps \cup {dataMap})
  /\ dataMap' = NoMap /\ oldMmaps' = {}
  /\ UNCHANGED <<valid, fileVars, txnWg, txn>>

\* Called before any transactions start, as its comment asks.
PreExtendMmap ==
  /\ valid /\ begins = 0 /\ \A t \in Threads : At(t, "idle")
  /\ dataMap < MaxPages
  /\ dataMap' = dataMap + 1
  /\ mapped' = mapped \cup {dataMap'}
  /\ oldMmaps' = oldMmaps \cup {dataMap}
  /\ seen' = now
  /\ UNCHANGED <<valid, lockVars, now, txnWg, pc, txn, copied, begins>>

Peer(held, next) ==
  /\ flock = held /\ flock' = next
  /\ UNCHANGED <<envVars, muReaders, muWriter, txnMu, writeTxn, seen, txnWg, pc, txn,
                 copied, begins>>
PeerLock   == Peer(Nobody, "peer") /\ valid /\ UNCHANGED now
PeerUnlock == Peer("peer", Nobody) /\ UNCHANGED now
PeerCommit ==
  /\ Peer("peer", "peer") /\ now < MaxPages
  /\ PeerGrows \/ now < dataMap
  /\ now' = now + 1

------------------------------------------------------------------------------
\* What a thread does on its own, once in a call.
Progress(t) ==
  \/ AnnounceLock(t)
  \/ BeginRead(t) \/ Renew(t) \/ CopyHead(t) \/ CopyTail(t)
  \/ LockTxnMu(t) \/ HoldRLock(t) \/ BeginWrite(t)
  \/ SwapMap(t) \/ WriteMeta(t) \/ ReadMeta(t)
  \/ UnlockWriter(t) \/ ClearWriteTxn(t) \/ EndWrite(t)
  \/ Unsign(t) \/ Drain(t) \/ CloseFiles(t)

\* What the application decides.
Ends(t) == EndRead(t) \/ Commit(t) \/ Abort(t)
Calls(t) ==
  \/ CallBegin(t, "read") \/ CallBegin(t, "write") \/ CallClose(t)
  \/ Reset(t) \/ CallRenew(t) \/ CopySize(t) \/ Allocate(t)

Next ==
  \/ \E t \in Threads : Progress(t) \/ Ends(t) \/ Calls(t)
  \/ PreExtendMmap
  \/ PeerLock \/ PeerUnlock \/ PeerCommit

\* Goroutines run, the application ends its transactions, the other process
\* gives the writer lock back, and flock is granted to who waits for it.
Fairness ==
  /\ \A t \in Threads : WF_vars(Progress(t)) /\ WF_vars(Ends(t)) /\ SF_vars(BeginWrite(t))
  /\ WF_vars(PeerUnlock)

Spec == Init /\ [][Next]_vars /\ Fairness

------------------------------------------------------------------------------
(* Properties.                                                             *)

\* The locks have at most one owner each, and txnWg counts the transactions
\* that Close has to wait for.
TypeOK ==
  /\ pc \in [Threads -> {"idle"} \cup Beginning \cup Closing \cup InTxn]
  /\ muReaders \subseteq Threads /\ muWriter \in Threads \cup {Nobody}
  /\ {txnMu, writeTxn} \subseteq Threads \cup {Nobody}
  /\ flock \in {Nobody, "us", "peer"}
  /\ dataMap \in 0 .. MaxPages /\ oldMmaps \subseteq 1 .. MaxPages
  /\ txnWg = Cardinality({t \in Threads : pc[t] \in InTxn})

\* A transaction's map stays mapped until the transaction ends, through
\* commits that replace the environment's map and through Close.
BegunTxnIsMapped == \A t \in Threads : pc[t] \in InTxn => txn[t].map \in mapped

\* All pages of a transaction's snapshot lie in the map it holds: a commit
\* maps the grown file before its meta page can be seen.
SnapshotIsMapped == \A t \in Threads : pc[t] \in InTxn => txn[t].pages <= txn[t].map

\* One thread works on a write transaction, and it holds the writer lock as
\* long as it may write, although flock lets the whole process pass.
OneWriter ==
  LET writers == {t \in Threads : pc[t] \in {"writing", "remap", "meta", "publish", "unlock"}}
  IN Cardinality(writers) <= 1 /\ (writers # {} => flock = "us")

\* Every map is either current, kept, or about to be installed, so that Close
\* finds them all.
NoMapIsLost ==
  mapped \subseteq {dataMap} \cup oldMmaps \cup {txn[t].alloc : t \in {u \in Threads : At(u, "remap")}}

\* Every call returns, Close among them: nobody waits for ever for Env.mu,
\* txnMu, the condition, the writer lock or the count of transactions.
EveryCallReturns == \A t \in Threads : pc[t] # "idle" ~> pc[t] = "idle"

\* The meta pages of a finished copy need no page behind its end ("Start a
\* read transaction to get a consistent snapshot").
CopyIsComplete ==
  \A t \in Threads : At(t, "reading") => copied[t].metas <= copied[t].size
==============================================================================
