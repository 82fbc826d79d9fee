------------------------------ MODULE MetaPages ------------------------------
(***************************************************************************)
(* The commit protocol of gdbx: three meta pages written in rotation, the  *)
(* copy of them each process caches, the readers that take their snapshot  *)
(* from that cache, and what a process crash or a power failure leaves.    *)
(* Source: meta.go, and in txn.go / env.go the code that begins, commits   *)
(* and renews transactions and opens the file.                             *)
(***************************************************************************)
EXTENDS Naturals, Sequences, FiniteSets, Functions

CONSTANTS
  Procs,        \* processes that may open the file
  Readers,      \* read transaction objects
  Home,         \* the process each reader belongs to
  NoProc,       \* nobody holds the writer lock
  WriteMapModes,\* which values of the WriteMap flag to consider
  SyncModes,    \* and whether a commit ends in a flush (the sync flags)
  MaxAttempts,  \* bound: commits ever attempted
  MaxUnsynced,  \* bound: commits not flushed when a write transaction begins
  MaxIOErrors   \* bound: WriteAt and Sync calls that return an error

ASSUME ProcsAssumption == NoProc \notin Procs
ASSUME HomeAssumption == Home \in [Readers -> Procs]
ASSUME ModesAssumption == WriteMapModes \subseteq BOOLEAN /\ SyncModes \subseteq BOOLEAN
ASSUME BoundsAssumption == MaxAttempts \in Nat /\ MaxUnsynced \in Nat /\ MaxIOErrors \in Nat

\* numMetas pages; InitialTxnID is the newest txnid of a fresh file.
Slots == 0..2
InitialTxnID == 3

\* A tree is named by the write transaction that built it; 0 is the empty one.
Trees == 0..MaxAttempts

\* The parts of a meta page the protocol is about: the two txnid fields and
\* the body, in two halves that the memory-mapped path stores one by one.
Meta == [txnidA : Nat, txnidB : Nat, MainTree : Trees, Geometry : Trees]

\* A snapshot as a transaction sees it: a number and a root.
Version == [txnid : Nat, tree : Trees]
Genesis == [txnid |-> InitialTxnID, tree |-> 0]

VARIABLES
  useWriteMap, \* the environment's WriteMap flag
  cache,       \* the meta pages as every process maps them (the page cache)
  disk,        \* the meta pages as of the last flush
  unsynced,    \* images stored in each page since, any of which may reach disk
  pagesUnsynced, \* trees whose data pages were written since the last flush
  pagesLost,   \* trees whose data pages a power failure took
  triple,      \* Env.meta of each process: per slot a txnid, and the recent one
  w,           \* the write transaction in progress (the flock admits one)
  attempts,    \* commits attempted so far
  ioErrors,    \* errors returned by the file so far
  readers,     \* the read transactions
  chain,       \* ghost: the versions committed, oldest first
  synced,      \* ghost: how many of them were covered by a flush
  acked        \* ghost: per process, txnid of the last commit that returned nil

fileVars == <<cache, disk, unsynced, pagesUnsynced, pagesLost>>
ghostVars == <<chain, synced, acked>>
counters == <<attempts, ioErrors>>
vars == <<useWriteMap, fileVars, triple, w, counters, readers, ghostVars>>

------------------------------------------------------------------------------
(* Reading meta pages *)

\* meta.validate: magic and version are never damaged here, the txnids may be.
isConsistent(m) == m.txnidA = m.txnidB

ValidSlots(pages) == {s \in Slots : isConsistent(pages[s])}

\* newMetaTriple: the highest txnid among the valid pages, the first on a tie.
RecentSlot(pages) ==
  CHOOSE s \in ValidSlots(pages) :
    \A t \in ValidSlots(pages) :
      \/ pages[t].txnidA < pages[s].txnidA
      \/ pages[t].txnidA = pages[s].txnidA /\ s <= t

VersionAt(m) == [txnid |-> m.txnidA, tree |-> m.MainTree]

\* What a process that opens the file now would find.
Recovered(pages) == VersionAt(pages[RecentSlot(pages)])

\* metaTriple: an invalid page counts as txnid 0.  The metas themselves are
\* pointers into the map, so a triple holds slots, not contents.
NewMetaTriple(pages) ==
  [txnids |-> [s \in Slots |->
                 IF isConsistent(pages[s]) THEN pages[s].txnidA ELSE 0],
   recent |-> RecentSlot(pages)]

Closed == [txnids |-> [s \in Slots |-> 0], recent |-> 0]
IsOpen(p) == triple[p] # Closed

\* Mutants of nextMetaIndex: the recent page itself; rotation with no wrap.
OverwriteRecent(t) == t.recent
RotateUnwrapped(t) == t.recent + 1

\* metaTriple.nextMetaIndex: the lowest cached txnid, the first on a tie.
nextMetaIndex(t) ==
  CHOOSE s \in Slots :
    \A u \in Slots : \/ t.txnids[s] < t.txnids[u]
                     \/ t.txnids[s] = t.txnids[u] /\ s <= u

\* The images a power failure may leave: per page the flushed one or any later.
Survivors == {img \in [Slots -> UNION {unsynced[s] \cup {disk[s]} : s \in Slots}] :
                \A s \in Slots : img[s] \in unsynced[s] \cup {disk[s]}}

------------------------------------------------------------------------------
Idle == [proc |-> NoProc, pc |-> "idle", txnid |-> 0, tree |-> 0,
         slot |-> 0, step |-> 0, willSync |-> FALSE]
NoTxn == [pc |-> "idle", how |-> "begin", slot |-> 0,
          txnid |-> 0, tree |-> 0, floor |-> 0]

WriterPCs == {"idle", "open", "meta", "sync", "publish"}
ReaderPCs == {"idle", "header", "trees", "active", "reset"}

\* A fresh file: initNewDB wrote and flushed txnids 1, 2 and 3.
Init ==
  /\ useWriteMap \in WriteMapModes
  /\ cache = [s \in Slots |-> [txnidA |-> InitialTxnID - (2 - s),
                               txnidB |-> InitialTxnID - (2 - s),
                               MainTree |-> 0, Geometry |-> 0]]
  /\ disk = cache
  /\ unsynced = [s \in Slots |-> {}]
  /\ pagesUnsynced = {}
  /\ pagesLost = {}
  /\ triple = [p \in Procs |-> Closed]
  /\ w = Idle
  /\ attempts = 0
  /\ ioErrors = 0
  /\ readers = [r \in Readers |-> NoTxn]
  /\ chain = <<Genesis>>
  /\ synced = 1
  /\ acked = [p \in Procs |-> 0]

\* Env.Open on an existing file: readMeta, an error when no page is valid.
Open(p) ==
  /\ ~IsOpen(p)
  /\ ValidSlots(cache) # {}
  /\ triple' = [triple EXCEPT ![p] = NewMetaTriple(cache)]
  /\ acked' = [acked EXCEPT ![p] = Recovered(cache).txnid]
  /\ UNCHANGED <<useWriteMap, fileVars, w, counters, readers, chain, synced>>

------------------------------------------------------------------------------
(* Writers *)

\* A reader inside beginReadTxn holds Env.mu shared.
HoldsRLock(r) == readers[r].how = "begin" /\ readers[r].pc \in {"header", "trees"}

\* A mutant: the writer reads the meta pages again without Env.mu.
NobodyIsAsked(p) == TRUE

NobodyReadLocks(p) == \A r \in Readers : Home[r] = p => ~HoldsRLock(r)

\* beginWriteTxn: flock, readMeta, the next txnid.  Whether the commit will
\* flush depends on flags known now.
BeginWrite(p, willSync) ==
  /\ IsOpen(p)
  /\ w.pc = "idle"
  /\ ValidSlots(cache) # {}
  /\ attempts < MaxAttempts
  /\ Len(chain) - synced <= MaxUnsynced
  /\ triple' = [triple EXCEPT ![p] = NewMetaTriple(cache)]
  /\ w' = [Idle EXCEPT !.proc = p, !.pc = "open", !.willSync = willSync,
                       !.txnid = Recovered(cache).txnid + 1]
  /\ UNCHANGED <<useWriteMap, fileVars, counters, readers, ghostVars>>

\* Abort by the caller, or by Commit because a page could not be written.
AbortWrite ==
  /\ w.pc = "open"
  /\ w' = Idle
  /\ UNCHANGED <<useWriteMap, fileVars, triple, counters, readers, ghostVars>>

\* writeDirtyPages: the data pages, with no flush.  Growing the file maps it
\* again and reads the meta pages again, under Env.mu.  updateMeta then picks
\* the page to overwrite.
WriteDirtyPages(grow) ==
  /\ w.pc = "open"
  /\ grow => NobodyReadLocks(w.proc) /\ ValidSlots(cache) # {}
  /\ triple' = IF grow THEN [triple EXCEPT ![w.proc] = NewMetaTriple(cache)] ELSE triple
  /\ attempts' = attempts + 1
  /\ pagesUnsynced' = pagesUnsynced \cup {attempts'}
  /\ w' = [w EXCEPT !.pc = "meta", !.tree = attempts',
                    !.slot = nextMetaIndex(triple'[w.proc]), !.step = 1]
  /\ UNCHANGED <<useWriteMap, cache, disk, unsynced, pagesLost, ioErrors, readers, ghostVars>>

(***************************************************************************)
(* The images the target page goes through.  The standard path prepares    *)
(* the page in a buffer and writes it twice.  The WriteMap path works in   *)
(* the map: a copy of the recent meta, both txnids, the trees, the         *)
(* geometry, and only then txnid_b to 0 and back.                          *)
(***************************************************************************)
Page(a, b, tree, geometry) ==
  [txnidA |-> a, txnidB |-> b, MainTree |-> tree, Geometry |-> geometry]

WriteAtOnce(n, tree) == \* a mutant: txnid_b is not zeroed first
  << Page(n, n, tree, tree), Page(n, n, tree, tree) >>

WriteAtImages(n, tree) ==
  << Page(n, 0, tree, tree), Page(n, n, tree, tree) >>

WriteMapImages(n, tree, recent) ==
  << recent,
     Page(n, n, recent.MainTree, recent.Geometry),
     Page(n, n, tree, recent.Geometry),
     Page(n, n, tree, tree),
     Page(n, 0, tree, tree),
     Page(n, n, tree, tree) >>

Images ==
  IF useWriteMap
  THEN WriteMapImages(w.txnid, w.tree, cache[triple[w.proc].recent])
  ELSE WriteAtImages(w.txnid, w.tree)

\* One store of updateMeta; the last one makes the version visible in the file.
StoreMeta ==
  /\ w.pc = "meta"
  /\ LET img == Images[w.step]
         last == w.step = Len(Images)
     IN  /\ cache' = [cache EXCEPT ![w.slot] = img]
         /\ unsynced' = [unsynced EXCEPT ![w.slot] = @ \cup {img}]
         /\ w' = IF last THEN [w EXCEPT !.pc = "sync", !.slot = 0, !.step = 0]
                   ELSE [w EXCEPT !.step = @ + 1]
         /\ chain' = IF last THEN Append(chain, VersionAt(img)) ELSE chain
  /\ UNCHANGED <<useWriteMap, disk, pagesUnsynced, pagesLost, triple, counters,
                 readers, synced, acked>>

\* Everything the page cache holds is now on disk.
Flush ==
  /\ disk' = cache
  /\ unsynced' = [s \in Slots |-> {}]
  /\ pagesUnsynced' = {}
  /\ synced' = Len(chain)
  /\ UNCHANGED <<cache, pagesLost>>

\* WriteAt or Sync returns an error: Commit aborts and leaves the page as it is.
CommitFails ==
  /\ \/ w.pc = "meta" /\ ~useWriteMap
     \/ w.pc = "sync" /\ w.willSync
  /\ ioErrors < MaxIOErrors
  /\ ioErrors' = ioErrors + 1
  /\ w' = Idle
  /\ UNCHANGED <<useWriteMap, fileVars, triple, attempts, readers, ghostVars>>

\* dataFile.Sync, when this commit flushes.
SyncMeta ==
  /\ w.pc = "sync"
  /\ w' = [w EXCEPT !.pc = "publish"]
  /\ IF w.willSync THEN Flush ELSE UNCHANGED <<fileVars, synced>>
  /\ UNCHANGED <<useWriteMap, triple, counters, readers, chain, acked>>

\* A mutant of Publish: Commit returns without reading the meta pages again.
PublishStale ==
  /\ w.pc = "publish"
  /\ NobodyReadLocks(w.proc)
  /\ acked' = [acked EXCEPT ![w.proc] = w.txnid]
  /\ w' = Idle
  /\ UNCHANGED <<useWriteMap, fileVars, triple, counters, readers, chain, synced>>

\* readMeta under Env.mu, then Commit unlocks the writer and returns.
Publish ==
  /\ w.pc = "publish"
  /\ NobodyReadLocks(w.proc)
  /\ ValidSlots(cache) # {}
  /\ triple' = [triple EXCEPT ![w.proc] = NewMetaTriple(cache)]
  /\ acked' = [acked EXCEPT ![w.proc] = w.txnid]
  /\ w' = Idle
  /\ UNCHANGED <<useWriteMap, fileVars, counters, readers, chain, synced>>

\* Env.Sync(force) from any thread of any process.
ForceSync(p) ==
  /\ IsOpen(p)
  /\ Flush
  /\ UNCHANGED <<useWriteMap, triple, w, counters, readers, chain, acked>>

------------------------------------------------------------------------------
(* Readers *)

Set(r, txn) == readers' = [readers EXCEPT ![r] = txn]

\* A mutant of BeginRead: readers go first when a writer waits for Env.mu.
BeginReadFirst(r) ==
  /\ readers[r].pc = "idle"
  /\ IsOpen(Home[r])
  /\ Set(r, [NoTxn EXCEPT !.pc = "header", !.slot = triple[Home[r]].recent,
                          !.floor = acked[Home[r]]])
  /\ UNCHANGED <<useWriteMap, fileVars, triple, w, counters, ghostVars>>

\* beginReadTxn: Env.mu shared (a writer waiting for it goes first), then the
\* recent meta of the cached triple.
BeginRead(r) ==
  /\ readers[r].pc = "idle"
  /\ IsOpen(Home[r])
  /\ ~(w.pc = "publish" /\ w.proc = Home[r])
  /\ Set(r, [NoTxn EXCEPT !.pc = "header", !.slot = triple[Home[r]].recent,
                          !.floor = acked[Home[r]]])
  /\ UNCHANGED <<useWriteMap, fileVars, triple, w, counters, ghostVars>>

\* Renew of a reset transaction: the same, but Env.mu is held for the load of
\* the triple only.
BeginRenew(r) ==
  /\ readers[r].pc = "reset"
  /\ IsOpen(Home[r])
  /\ ~(w.pc = "publish" /\ w.proc = Home[r])
  /\ Set(r, [NoTxn EXCEPT !.pc = "header", !.slot = triple[Home[r]].recent,
                          !.floor = acked[Home[r]], !.how = "renew"])
  /\ UNCHANGED <<useWriteMap, fileVars, triple, w, counters, ghostVars>>

\* The txnid and then the trees are read through the pointer into the map.
ReadTxnid(r) ==
  /\ readers[r].pc = "header"
  /\ Set(r, [readers[r] EXCEPT !.pc = "trees", !.txnid = cache[readers[r].slot].txnidA])
  /\ UNCHANGED <<useWriteMap, fileVars, triple, w, counters, ghostVars>>

ReadTrees(r) ==
  /\ readers[r].pc = "trees"
  /\ Set(r, [readers[r] EXCEPT !.pc = "active", !.slot = 0, !.floor = 0,
                                 !.tree = cache[readers[r].slot].MainTree])
  /\ UNCHANGED <<useWriteMap, fileVars, triple, w, counters, ghostVars>>

Reset(r) ==
  /\ readers[r].pc = "active"
  /\ Set(r, [NoTxn EXCEPT !.pc = "reset"])
  /\ UNCHANGED <<useWriteMap, fileVars, triple, w, counters, ghostVars>>

AbortRead(r) ==
  /\ readers[r].pc \in {"active", "reset"}
  /\ Set(r, NoTxn)
  /\ UNCHANGED <<useWriteMap, fileVars, triple, w, counters, ghostVars>>

------------------------------------------------------------------------------
(* Failures *)

\* The log of versions when v is what the next process will find: v after the
\* older ones, whether its commit finished or not.
ChainEndsAt(v) ==
  \E k \in 0..Len(chain) :
    /\ \A j \in 1..k : chain[j].txnid < v.txnid
    /\ k < Len(chain) => chain[k + 1].txnid >= v.txnid
    /\ chain' = Append(SubSeq(chain, 1, k), v)

\* A process ends, at any point of a transaction; the page cache survives and
\* the kernel drops the flock.  Env.Close of an idle process looks the same.
ProcessEnds(p) ==
  /\ IsOpen(p)
  /\ triple' = [triple EXCEPT ![p] = Closed]
  /\ readers' = [r \in Readers |-> IF Home[r] = p THEN NoTxn ELSE readers[r]]
  /\ acked' = [acked EXCEPT ![p] = 0]
  /\ w' = IF w.proc = p THEN Idle ELSE w
  /\ IF w.proc = p THEN ChainEndsAt(Recovered(cache)) ELSE UNCHANGED chain
  /\ UNCHANGED <<useWriteMap, fileVars, counters, synced>>

\* The machine stops: each meta page keeps one of its possible images, and any
\* data pages not flushed may be gone (those no version uses are not counted).
PowerFails ==
  /\ \E img \in Survivors, gone \in SUBSET pagesUnsynced :
       /\ cache' = img
       /\ disk' = img
       /\ IF ValidSlots(img) = {} THEN chain' = <<>> ELSE ChainEndsAt(Recovered(img))
       /\ pagesLost' = {v.tree : v \in Range(chain')} \cap (pagesLost \cup gone)
  /\ unsynced' = [s \in Slots |-> {}]
  /\ pagesUnsynced' = {}
  /\ triple' = [p \in Procs |-> Closed]
  /\ readers' = [r \in Readers |-> NoTxn]
  /\ acked' = [p \in Procs |-> 0]
  /\ w' = Idle
  /\ UNCHANGED <<useWriteMap, counters, synced>>

------------------------------------------------------------------------------
WriterStep ==
  \/ \E p \in Procs, willSync \in SyncModes : BeginWrite(p, willSync)
  \/ AbortWrite
  \/ \E grow \in BOOLEAN : WriteDirtyPages(grow)
  \/ StoreMeta
  \/ CommitFails
  \/ SyncMeta
  \/ Publish

ReaderStep(r) ==
  \/ BeginRead(r)
  \/ BeginRenew(r)
  \/ ReadTxnid(r)
  \/ ReadTrees(r)
  \/ Reset(r)
  \/ AbortRead(r)

Next ==
  \/ \E p \in Procs : Open(p)
  \/ WriterStep
  \/ \E p \in Procs : ForceSync(p)
  \/ \E r \in Readers : ReaderStep(r)
  \/ \E p \in Procs : ProcessEnds(p)
  \/ PowerFails

(***************************************************************************)
(* A commit is code that runs on; so is a reader between taking Env.mu and *)
(* giving it back.  Nobody is obliged to begin anything.                   *)
(***************************************************************************)
Fairness ==
  /\ WF_vars(StoreMeta)
  /\ WF_vars(SyncMeta)
  /\ WF_vars(Publish)
  /\ \A r \in Readers : WF_vars(ReadTxnid(r)) /\ WF_vars(ReadTrees(r))

Spec == Init /\ [][Next]_vars
FairSpec == Spec /\ Fairness

------------------------------------------------------------------------------
TypeOK ==
  /\ useWriteMap \in BOOLEAN
  /\ cache \in [Slots -> Meta]
  /\ disk \in [Slots -> Meta]
  /\ unsynced \in [Slots -> SUBSET Meta]
  /\ pagesUnsynced \subseteq Trees
  /\ pagesLost \subseteq Trees
  /\ triple \in [Procs -> [txnids : [Slots -> Nat], recent : Slots]]
  /\ w \in [proc : Procs \cup {NoProc}, pc : WriterPCs, txnid : Nat, tree : Trees,
             slot : Slots, step : 0..6, willSync : BOOLEAN]
  /\ attempts \in 0..MaxAttempts
  /\ ioErrors \in 0..MaxIOErrors
  /\ readers \in [Readers -> [pc : ReaderPCs, how : {"begin", "renew"}, slot : Slots,
                              txnid : Nat, tree : Trees, floor : Nat]]
  /\ chain \in Seq(Version)
  /\ synced \in Nat
  /\ acked \in [Procs -> Nat]

(***************************************************************************)
(* Whatever a power failure leaves of the meta pages, the file opens, and  *)
(* it opens at a version no older than the last one that was flushed.      *)
(***************************************************************************)
FlushedCommitsSurvive ==
  \A img \in Survivors :
    /\ ValidSlots(img) # {}
    /\ Recovered(img).txnid >= chain[synced].txnid

(***************************************************************************)
(* beginReadTxn gives its reader one committed version: the txnid it       *)
(* publishes in the reader table and the root it reads from belong         *)
(* together, although the page they come from is reused two commits later. *)
(***************************************************************************)
SnapshotIsCommitted(how) ==
  \A r \in Readers :
    readers[r].pc = "active" /\ readers[r].how = how =>
      [txnid |-> readers[r].txnid, tree |-> readers[r].tree] \in Range(chain)

BegunSnapshotIsCommitted == SnapshotIsCommitted("begin")

(***************************************************************************)
(* The same for a transaction that was reset and renewed: Renew copies the *)
(* trees of the meta it loaded, after it let go of Env.mu.                 *)
(***************************************************************************)
RenewedSnapshotIsCommitted == SnapshotIsCommitted("renew")

(***************************************************************************)
(* A reader begun after Commit returned, in the same process, sees that    *)
(* commit or a later one.                                                  *)
(***************************************************************************)
ReaderSeesAcknowledged ==
  \A r \in Readers :
    readers[r].pc = "trees" => readers[r].txnid >= readers[r].floor

(***************************************************************************)
(* A meta page whose two txnids agree was written completely: its trees    *)
(* and its geometry come from the same transaction.  The next writer       *)
(* allocates pages from Geometry, over the pages of a newer tree if the    *)
(* two are mixed, so this must hold whenever no writer is at work on it.   *)
(* A process that dies on the WriteMap path of updateMeta leaves a page    *)
(* that breaks it.                                                         *)
(***************************************************************************)
ConsistentMetaIsComplete ==
  w.pc # "meta" =>
    \A s \in Slots : isConsistent(cache[s]) => cache[s].MainTree = cache[s].Geometry

(***************************************************************************)
(* The version an opening process finds has all its data pages, whatever   *)
(* the power failure before it took.                                       *)
(***************************************************************************)
RecoveredTreeHasItsPages ==
  (\A p \in Procs : ~IsOpen(p)) /\ ValidSlots(cache) # {} =>
    Recovered(cache).tree \notin pagesLost

(***************************************************************************)
(* A commit that has reached its meta page finishes or fails: it is not    *)
(* kept waiting by the readers that share Env.mu.                          *)
(***************************************************************************)
CommitEnds == w.pc = "meta" ~> w.pc = "idle"

(***************************************************************************)
(* Written with WriteAt, the meta pages implement the commit log: commits  *)
(* appear one at a time and in order, and no crash undoes a flushed one.   *)
(* What is visible is computed from the pages, as an opening process does. *)
(***************************************************************************)
Log == INSTANCE CommitLog WITH log <- chain, visible <- Recovered(cache)

ImplementsCommitLog == Log!Spec
=============================================================================
