------------------------------ MODULE NamedTrees ------------------------------
(***************************************************************************)
(* The named databases of one process.  Their roots live in MainDBI, which *)
(* a transaction reads through its own snapshot, and again in Env.dbis, a  *)
(* table of handles shared by all transactions and updated on the side:    *)
(* by a commit after its meta page, and by whoever opens a handle.         *)
(* Source: txn.go, and in env.go and dbi.go the code that uses Env.dbis.   *)
(***************************************************************************)
EXTENDS Naturals

CONSTANTS
  Names,        \* named databases
  NoName,       \* an unused handle
  Readers,      \* read transaction objects
  NumHandles,   \* maxDBs - CoreDBs
  MaxUpdates,   \* bound: updates ever made
  MaxCloses,    \* bound: calls of CloseDBI and Drop(del)
  ForeignCommits\* whether another process commits too

ASSUME NamesAssumption == NoName \notin Names
ASSUME HandlesAssumption == NumHandles \in Nat
ASSUME BoundsAssumption == MaxUpdates \in Nat /\ MaxCloses \in Nat
ASSUME ForeignAssumption == ForeignCommits \in BOOLEAN

Handles == 1..NumHandles

\* A tree is named by the updates it contains, 0 for what was in the file when
\* the process opened it; MainDBI maps the names that exist to their trees.
Updates == 0..MaxUpdates
Trees == SUBSET Updates
Roots == UNION {[S -> Trees] : S \in SUBSET Names}

VARIABLES
  main,      \* MainDBI as the newest meta page of the file has it
  view,      \* MainDBI as the recent meta of Env.meta has it
  dbis,      \* Env.dbis
  w,         \* the write transaction
  readers,   \* the read transactions
  updates,   \* updates made so far
  published, \* ghost: the updates any commit has written
  closes,    \* handles closed so far
  foreign    \* ghost: whether another process has committed

counts == <<closes, foreign>>
vars == <<main, view, dbis, w, readers, updates, published, counts>>

------------------------------------------------------------------------------
NoInfo == [name |-> NoName, tree |-> {}]
Infos == [name : Names \cup {NoName}, tree : Trees]

NoTrees == [h \in Handles |-> {}]
NoNames == [h \in Handles |-> NoName]
NoSlot == 0
NoRoots == [n \in {} |-> {}]

HandleOf(n) == {h \in Handles : dbis[h].name = n}
FreeHandles == {h \in Handles : dbis[h] = NoInfo}
FirstFree == CHOOSE h \in FreeHandles : \A g \in FreeHandles : h <= g

\* Copying Env.dbis over a transaction's trees, when it begins or is renewed:
\* the trees slice is reused and keeps what it had where no handle is open.
CopyTrees(trees) ==
  [h \in Handles |-> IF dbis[h] = NoInfo THEN trees[h] ELSE dbis[h].tree]

\* What the program knows its handles by: those open in the environment.
OpenNames == [h \in Handles |-> dbis[h].name]

WriterIdle(trees) ==
  [pc |-> "idle", main |-> NoRoots, trees |-> trees, dirty |-> {},
   handle |-> NoNames, opening |-> NoName, slot |-> NoSlot, made |-> {}, dropped |-> {}]

ReaderIdle(trees) ==
  [pc |-> "idle", how |-> "begin", main |-> NoRoots, trees |-> trees,
   mapped |-> {}]

Init ==
  /\ main \in {[n \in S |-> {0}] : S \in SUBSET Names}
  /\ view = main
  /\ dbis = [h \in Handles |-> NoInfo]
  /\ w = WriterIdle(NoTrees)
  /\ readers = [r \in Readers |-> ReaderIdle(NoTrees)]
  /\ updates = 0
  /\ published = {0}
  /\ closes = 0
  /\ foreign = FALSE

------------------------------------------------------------------------------
(* The write transaction *)

\* beginWriteTxn reads the meta pages again, but takes named trees from dbis.
BeginWrite ==
  /\ w.pc = "idle"
  /\ view' = main
  /\ w' = [WriterIdle(CopyTrees(w.trees)) EXCEPT
             !.pc = "open", !.main = main, !.handle = OpenNames]
  /\ UNCHANGED <<main, dbis, readers, updates, published, counts>>

\* OpenDBI of a name that has a handle: openNamedDBI lets go of dbisMu with
\* the handle's number (existingSlot), and takes it again for the tree.
OpenKnown(n) ==
  /\ w.pc = "open"
  /\ \E h \in HandleOf(n) :
       w' = [w EXCEPT !.pc = "lookup", !.opening = n, !.slot = h]
  /\ UNCHANGED <<main, view, dbis, readers, updates, published, counts>>

\* The tree cached behind that number by now, over whatever this transaction
\* has done to its own; none if the handle was closed in between.
OpenCached ==
  LET h == w.slot
  IN  /\ w.pc = "lookup" /\ h # NoSlot
      /\ w' = [w EXCEPT !.pc = "open", !.opening = NoName, !.slot = NoSlot,
                        !.handle[h] = w.opening,
                        !.trees[h] = IF dbis[h] = NoInfo THEN @ ELSE dbis[h].tree]
      /\ UNCHANGED <<main, view, dbis, readers, updates, published, counts>>

\* OpenDBI of a name that has none: it lets go of dbisMu to read MainDBI.
OpenLookup(n) ==
  /\ w.pc = "open"
  /\ HandleOf(n) = {}
  /\ w' = [w EXCEPT !.pc = "lookup", !.opening = n]
  /\ UNCHANGED <<main, view, dbis, readers, updates, published, counts>>

\* A mutant of OpenFound: no second search, a free handle is filled.
OpenFoundUnchecked ==
  /\ w.pc = "lookup" /\ w.slot = NoSlot
  /\ w.opening \in DOMAIN w.main
  /\ FreeHandles # {}
  /\ dbis' = [dbis EXCEPT ![FirstFree] = [name |-> w.opening, tree |-> w.main[w.opening]]]
  /\ w' = [w EXCEPT !.pc = "open", !.opening = NoName]
  /\ UNCHANGED <<main, view, readers, updates, published, counts>>

\* Under dbisMu again, the name in MainDBI: a handle somebody else added in
\* between is returned as it is, or else a free one filled, if there is one.
OpenFound ==
  LET n == w.opening
      opened == [w EXCEPT !.pc = "open", !.opening = NoName]
  IN  /\ w.pc = "lookup" /\ w.slot = NoSlot
      /\ n \in DOMAIN w.main
      /\ \/ \E h \in HandleOf(n) :
              /\ w' = [opened EXCEPT !.handle[h] = n]
              /\ UNCHANGED dbis
         \/ /\ HandleOf(n) = {}
            /\ FreeHandles # {}
            /\ dbis' = [dbis EXCEPT ![FirstFree] = [name |-> n, tree |-> w.main[n]]]
            /\ w' = [opened EXCEPT !.handle[FirstFree] = n,
                                   !.trees[FirstFree] = w.main[n]]
         \/ /\ HandleOf(n) = {}
            /\ FreeHandles = {}
            /\ w' = opened
            /\ UNCHANGED dbis
      /\ UNCHANGED <<main, view, readers, updates, published, counts>>

\* The name not in MainDBI: an error, or createNamedDBI, which puts it there
\* and takes the first free handle, if there is one.
OpenMissing(create) ==
  LET n == w.opening
      created == [m \in {n} \cup DOMAIN w.main |-> IF m = n THEN {} ELSE w.main[m]]
  IN  /\ w.pc = "lookup" /\ w.slot = NoSlot
      /\ n \notin DOMAIN w.main
      /\ \/ /\ ~create
            /\ w' = [w EXCEPT !.pc = "open", !.opening = NoName]
            /\ UNCHANGED dbis
         \/ /\ create
            /\ FreeHandles # {}
            /\ dbis' = [dbis EXCEPT ![FirstFree] = [name |-> n, tree |-> {}]]
            /\ w' = [w EXCEPT !.pc = "open", !.opening = NoName, !.main = created,
                              !.handle[FirstFree] = n, !.trees[FirstFree] = {}]
         \/ /\ create
            /\ FreeHandles = {}
            /\ w' = [w EXCEPT !.pc = "open", !.opening = NoName, !.main = created]
            /\ UNCHANGED dbis
      /\ UNCHANGED <<main, view, readers, updates, published, counts>>

\* Put or Delete through a handle of this transaction.
Update(h) ==
  /\ w.pc = "open"
  /\ w.handle[h] # NoName
  /\ updates < MaxUpdates
  /\ updates' = updates + 1
  /\ w' = [w EXCEPT !.trees[h] = @ \cup {updates'}, !.dirty = @ \cup {h},
                    !.made = @ \cup {updates'}]
  /\ UNCHANGED <<main, view, dbis, readers, published, counts>>

\* Drop: an empty tree and, with del, the handle gone from dbis at once.
Drop(h, del) ==
  /\ w.pc = "open"
  /\ w.handle[h] # NoName
  /\ del => closes < MaxCloses
  /\ w' = [w EXCEPT !.trees[h] = {}, !.dirty = @ \cup {h},
                    !.dropped = @ \cup {w.handle[h]},
                    !.handle[h] = IF del THEN NoName ELSE @]
  /\ dbis' = IF del THEN [dbis EXCEPT ![h] = NoInfo] ELSE dbis
  /\ closes' = IF del THEN closes + 1 ELSE closes
  /\ UNCHANGED <<main, view, readers, updates, published, foreign>>

\* Abort, by the caller or because Commit could not write: the trees slice and
\* the handles opened on the way stay.
AbortWrite ==
  /\ w.pc \in {"open", "commit"}
  /\ w' = WriterIdle(w.trees)
  /\ UNCHANGED <<main, view, dbis, readers, updates, published, counts>>

\* A mutant of Dirty: handles that are gone are written all the same.
DirtyAnyway == w.dirty

Dirty == {h \in w.dirty : dbis[h] # NoInfo}

\* A mutant of PersistNamedTrees: it updates the cached trees as well.
PersistAndCache ==
  /\ w.pc = "open"
  /\ dbis' = [h \in Handles |->
                IF h \in Dirty THEN [dbis[h] EXCEPT !.tree = w.trees[h]] ELSE dbis[h]]
  /\ w' = [w EXCEPT !.pc = "commit"]
  /\ UNCHANGED <<main, view, readers, updates, published, counts>>

\* persistNamedDBTrees: under the name each handle has now.
PersistNamedTrees ==
  /\ w.pc = "open"
  /\ w' = [w EXCEPT !.pc = "commit",
             !.main = [n \in DOMAIN @ \cup {dbis[h].name : h \in Dirty} |->
                         IF \E h \in Dirty : dbis[h].name = n
                         THEN w.trees[CHOOSE h \in Dirty : dbis[h].name = n]
                         ELSE @[n]]]
  /\ UNCHANGED <<main, view, dbis, readers, updates, published, counts>>

\* A mutant of HoldsRLock: beginReadTxn lets go of Env.mu as Renew does.
HoldsNothing(r) == FALSE

\* A reader in beginReadTxn holds Env.mu shared all along; in Renew it does not.
HoldsRLock(r) == readers[r].pc = "copy" /\ readers[r].how = "begin"

\* writeDirtyPages and updateMeta; the last readMeta is under Env.mu.
UpdateMeta ==
  /\ w.pc = "commit"
  /\ \A r \in Readers : ~HoldsRLock(r)
  /\ main' = w.main
  /\ view' = w.main
  /\ published' = published \cup w.made
  /\ w' = [w EXCEPT !.pc = "cache"]
  /\ UNCHANGED <<dbis, readers, updates, counts>>

\* A mutant of UpdateCachedTrees: the cached trees are left as they were.
CacheLeftStale ==
  /\ w.pc = "cache"
  /\ w' = WriterIdle(w.trees)
  /\ UNCHANGED <<main, view, dbis, readers, updates, published, counts>>

\* updateCachedDBITrees, and the end of Commit.
UpdateCachedTrees ==
  /\ w.pc = "cache"
  /\ dbis' = [h \in Handles |->
                IF h \in Dirty THEN [dbis[h] EXCEPT !.tree = w.trees[h]] ELSE dbis[h]]
  /\ w' = WriterIdle(w.trees)
  /\ UNCHANGED <<main, view, readers, updates, published, counts>>

------------------------------------------------------------------------------
(* Read transactions *)

Set(r, txn) == readers' = [readers EXCEPT ![r] = txn]

\* beginReadTxn or Renew, up to the trees of the meta page and the mapping.
StartRead(r, how) ==
  /\ readers[r].pc = IF how = "begin" THEN "idle" ELSE "reset"
  /\ Set(r, [readers[r] EXCEPT !.pc = "copy", !.how = how, !.main = view,
                                !.mapped = published])
  /\ UNCHANGED <<main, view, dbis, w, updates, published, counts>>

\* The rest of it: the named trees, from dbis.
CopyNamed(r) ==
  /\ readers[r].pc = "copy"
  /\ Set(r, [readers[r] EXCEPT !.pc = "active", !.trees = CopyTrees(@)])
  /\ UNCHANGED <<main, view, dbis, w, updates, published, counts>>

\* OpenDBI in a read transaction: the tree is read from its snapshot, and is
\* stored only when it is the first to open the name; for a name that has a
\* handle it changes nothing.
OpenRead(r, n) ==
  /\ readers[r].pc = "active"
  /\ n \in DOMAIN readers[r].main
  /\ HandleOf(n) = {} /\ FreeHandles # {}
  /\ dbis' = [dbis EXCEPT ![FirstFree] = [name |-> n, tree |-> readers[r].main[n]]]
  /\ Set(r, [readers[r] EXCEPT !.trees[FirstFree] = readers[r].main[n]])
  /\ UNCHANGED <<main, view, w, updates, published, counts>>

EndRead(r, pc) ==
  /\ readers[r].pc \in {"active", "reset"} \ {pc}
  /\ Set(r, [ReaderIdle(readers[r].trees) EXCEPT !.pc = pc])
  /\ UNCHANGED <<main, view, dbis, w, updates, published, counts>>

Reset(r) == EndRead(r, "reset")
AbortRead(r) == EndRead(r, "idle")

------------------------------------------------------------------------------
(* The rest of the program, and other programs *)

CloseDBI(h) ==
  /\ closes < MaxCloses
  /\ dbis[h] # NoInfo
  /\ dbis' = [dbis EXCEPT ![h] = NoInfo]
  /\ closes' = closes + 1
  /\ UNCHANGED <<main, view, w, readers, updates, published, foreign>>

\* A write transaction of another process, whole: the file lock admits one.
ForeignCommit(n) ==
  /\ ForeignCommits
  /\ w.pc = "idle"
  /\ n \in DOMAIN main
  /\ updates < MaxUpdates
  /\ updates' = updates + 1
  /\ main' = [main EXCEPT ![n] = @ \cup {updates'}]
  /\ published' = published \cup {updates'}
  /\ foreign' = TRUE
  /\ UNCHANGED <<view, dbis, w, readers, closes>>

WriterStep ==
  \/ BeginWrite
  \/ \E n \in Names : OpenKnown(n)
  \/ OpenCached
  \/ \E n \in Names : OpenLookup(n)
  \/ OpenFound
  \/ \E create \in BOOLEAN : OpenMissing(create)
  \/ \E h \in Handles : Update(h)
  \/ \E h \in Handles, del \in BOOLEAN : Drop(h, del)
  \/ AbortWrite
  \/ PersistNamedTrees
  \/ UpdateMeta
  \/ UpdateCachedTrees

ReaderStep(r) ==
  \/ \E how \in {"begin", "renew"} : StartRead(r, how)
  \/ CopyNamed(r)
  \/ \E n \in Names : OpenRead(r, n)
  \/ Reset(r)
  \/ AbortRead(r)

Next ==
  \/ WriterStep
  \/ \E r \in Readers : ReaderStep(r)
  \/ \E h \in Handles : CloseDBI(h)
  \/ \E n \in Names : ForeignCommit(n)

Spec == Init /\ [][Next]_vars

------------------------------------------------------------------------------
TypeOK ==
  /\ main \in Roots
  /\ view \in Roots
  /\ dbis \in [Handles -> Infos]
  /\ w \in [pc : {"idle", "open", "lookup", "commit", "cache"}, main : Roots,
            trees : [Handles -> Trees], dirty : SUBSET Handles,
            handle : [Handles -> Names \cup {NoName}],
            opening : Names \cup {NoName}, slot : {NoSlot} \cup Handles,
            made : SUBSET Updates, dropped : SUBSET Names]
  /\ readers \in [Readers -> [pc : {"idle", "copy", "active", "reset"},
                              how : {"begin", "renew"}, main : Roots,
                              trees : [Handles -> Trees],
                              mapped : SUBSET Updates]]
  /\ updates \in 0..MaxUpdates
  /\ published \subseteq Updates
  /\ closes \in 0..MaxCloses
  /\ foreign \in BOOLEAN

(***************************************************************************)
(* Whoever opens a database, from two goroutines or after a handle was     *)
(* closed, a name has one handle: the searches of openNamedDBI and         *)
(* createNamedDBI are apart from the store that follows them.              *)
(***************************************************************************)
OneHandlePerName ==
  \A g, h \in Handles : dbis[g].name = dbis[h].name /\ dbis[g] # NoInfo => g = h

Calm == closes = 0 /\ ~foreign

(***************************************************************************)
(* Between transactions, a handle's cached tree is the committed one: the  *)
(* next write transaction builds on it and never looks into MainDBI.       *)
(***************************************************************************)
CacheIsCommitted ==
  w.pc # "cache" /\ Calm =>
    \A h \in Handles :
      dbis[h].name \in DOMAIN main =>
        dbis[h].tree = main[dbis[h].name]

(***************************************************************************)
(* What an aborted or unfinished transaction did to a named database is in *)
(* no cached tree and in no reader's, although handles opened by it stay   *)
(* and the slices that hold the trees are reused.                          *)
(***************************************************************************)
OnlyCommittedUpdatesVisible ==
  Calm =>
    /\ \A h \in Handles : dbis[h].tree \subseteq published
    /\ \A r \in Readers, h \in Handles : readers[r].trees[h] \subseteq published

(***************************************************************************)
(* No tree of a begun reader is newer than the mapping it reads through:   *)
(* a commit shows its meta first and its named trees after it.             *)
(***************************************************************************)
TreesAreMapped(how) ==
  \A r \in Readers :
    readers[r].pc = "active" /\ readers[r].how = how =>
      \A h \in Handles : readers[r].trees[h] \subseteq readers[r].mapped

BegunTreesAreMapped == Calm => TreesAreMapped("begin")

(***************************************************************************)
(* A commit keeps every committed update of the databases that it did not  *)
(* drop: it builds on their newest trees.                                  *)
(***************************************************************************)
CommittedUpdatesAreKept ==
  [][\A n \in Names :
       n \in DOMAIN main \ w.dropped =>
         n \in DOMAIN main' /\ main[n] \subseteq main'[n]]_vars
==============================================================================
