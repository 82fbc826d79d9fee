# gdbx in TLA+

A verification development for gdbx, a Go implementation of the MDBX embedded
key-value store. It models the parts where gdbx is hard to test: what a crash
leaves of the file, what readers see while a writer commits, how processes
share the reader table, how named databases follow the commits that change
them, what puts, deletes and range deletes do to the pages of a B+tree and to
the snapshots other readers hold of it, where cursors are after all that, where
changed pages live until the commit, and how transactions, a growing map and
`Close` get on with each other.

| module | what it is |
| --- | --- |
| `CommitLog` | what a data file promises: a log of versions, of which a flushed prefix is permanent |
| `MetaPages` | `meta.go`, `Env.BeginTxn`, `Txn.Commit/Renew/Reset`: three meta pages, crashes, readers |
| `ReaderTable` | `lock.go`: reader slots shared by processes, the freelist, `ReaderCheck` |
| `NamedTrees` | `OpenDBI`, `Drop`, `CloseDBI` and the cached trees of `Env.dbis` |
| `BTreePage` | `page.go`, `node.go`: entries of one page, search, whether they fit, where a page splits |
| `BTree` | `cursor_modify.go`, `Txn.Put/Del/Get`: the tree, copy-on-write, page allocation, commit, readers |
| `RangeDelete` | `range_delete.go`: `Txn.DeleteRange` on that tree |
| `MapCursor` | what a cursor promises: a place in the sorted keys of a map |
| `Cursors` | `cursor.go`, `Cursor.Put/Del`: stacks of pages, moves, and the repair of a stack after another cursor's changes |
| `FastMap`, `SpillBuffer` | `fastmap/`, `spill/`: the hash table and the slot allocator of write transactions |
| `DirtyPages` | where changed pages live (map, spill slots, heap), how they are found, written and given back |
| `EnvLifecycle` | `Env.BeginTxn/Close/CopyFD/PreExtendMmap`, `Txn.Commit/Abort/Reset/Renew`: locks, maps, the writer's turn |
| `MC*` | small instances of these for TLC |
| `CommitLogProofs`, `MetaPagesProofs`, `ReaderTableProofs`, `NamedTreesProofs`, `EnvLifecycleProofs`, `BTreeShapeProofs`, `BTreeProofs`, `DirtyPagesProofs` | theorems and proofs for any instance |

## The system

**Data file.** Pages 0 to 2 are meta pages: two copies of a txnid (`txnid_a`,
`txnid_b`), the roots of the core trees (GC and Main), the geometry. The rest
are tree pages, written copy-on-write. State: the meta pages as mapped, and
what of them is on disk. Operations: create, open, commit, sync.
Correct when the newest consistent meta page always belongs to a complete,
committed transaction, and no crash goes back behind a flushed one.

**Environment** (`env.go`). One per process: the map of the data file, a cached
`metaTriple` (three txnids, pointers into the map, the index of the recent
one), the current write transaction, the table of open named databases, the
spill buffer, maps kept for old readers. `Env.mu` is held shared by
`beginReadTxn` and exclusively around `readMeta` when a commit ends.

**Transactions** (`txn.go`). A write transaction holds the file lock, allocates
pages from the geometry it read, and keeps dirty pages until commit. A read
transaction owns a slot of the reader table and copies roots out of a meta
page. Transaction objects are reused; their slices are not cleared.

**Reader table** (`lock.go`). An array of slots in a file mapped by every
process. State: per slot a txnid and a pid; per process a stack of slots it
released. Operations: acquire (pop, or scan, by compare-and-swap), register a
txnid, release, `ReaderCheck`. Correct when a slot has one owner, a live
reader's txnid stays in the table, and slots are not lost.

**Named databases** (`txn.go`, `dbi.go`). MainDBI maps names to trees, under
the snapshot rules of any tree. `Env.dbis` caches a tree per open handle, is
shared by all transactions under its own lock, and is what new transactions
copy. Correct when the two agree, and when a transaction sees the trees of its
snapshot and no uncommitted ones.

**B+tree, cursors, pages, nodes, duplicates, range delete** (`cursor*.go`,
`page.go`, `node.go`, `range_delete.go`). Sequential code over the pages of one
write transaction. Correct when the tree is a sorted map after every
operation, every cursor stays on its entry, and pages of the committed
snapshot are never written.

**Dirty pages** (`dirtyPageTracker`, `fastmap`, `spill`). A changed page lies in
the map (WriteMap), in a slot of the environment's spill buffer, or on the
heap, and is found by its number. The slots of a finished transaction are
released after the next writer may have begun. Correct when pages never share
their data, a lookup finds the last version, commit writes every page, and
slots come back.

**Lifecycle** (`env.go`, `mmap/`). A commit that grows the file maps it anew and
keeps the old map for those who read in it; `Close` waits for the transactions
and unmaps all. `Env.mu`, `txnMu` with a condition, `flock` and `txnWg` order
them. Correct when a transaction's map outlives it and covers its snapshot,
there is one writer, and nobody waits for ever.

They interact through calls, except: meta pages and the reader table are
memory shared between processes; `Env.meta`, `Env.dbis` and the data map are
shared between the goroutines of one process.

What is hard: a commit is some ten separate writes and may stop after any of
them; readers look at memory the next writer but two overwrites; the reader
table is changed by plain stores of processes that may be killed at any
instruction; the handle cache is a second copy of committed state, changed at
other moments than the first. PROJECT.json lists the hazards line by line.

## MetaPages

One action is one step another process, a reader or a crash can see.

| code | model |
| --- | --- |
| the two txnid fields, trees, geometry of a meta page | a record of `cache[slot]`; the tree and geometry are named by the transaction that wrote them |
| page cache, disk | `cache`; `disk` plus the images stored since the last flush (`unsynced`) |
| `Env.meta` of a process | `triple[p]`: slots, not contents, since the Go code keeps pointers |
| `Env.writeTxn` and flock | `w`: there is one, and it has a process |
| `Env.mu` | `HoldsRLock` (shared, in `beginReadTxn`), and guards of the actions that take it exclusively |
| `newMetaTriple`, `nextMetaIndex`, `isConsistent` | `NewMetaTriple`, `nextMetaIndex`, `isConsistent` |
| the stores of `updateMeta` | the sequence `Images`, one element per `StoreMeta` |

`chain`, `synced` and `acked` are history: versions committed, how many of
them a flush covered, what `Commit` acknowledged. `Log == INSTANCE CommitLog`
maps the pages to the abstract log; the visible version is computed from the
pages as an opening process computes it.

A power failure leaves each meta page in its flushed state or in any later
image, independently of the others and of the data pages. A meta page's image
is taken to reach the disk whole; so is a `WriteAt` of one page with respect
to process death. The WriteMap stores are separate because they are.

Runs:

- `meta_commit`: one process, one reader, three attempted commits, at most one
  I/O error, at most one unflushed commit when the next transaction begins.
  Three commits go once round the three pages, so every page is overwritten and
  the page a slow reader points to is reused. Checked: flushed commits survive
  every power failure; begun readers see a committed pair of txnid and root,
  and the last acknowledged commit; commits end; the pages implement `CommitLog`.

That a page whose two txnids agree was written completely
(`ConsistentMetaIsComplete`) is no property of this run: each image stored with
`WriteAt` has both its halves from one transaction by construction. It is the
stores of the WriteMap path that break it ("More that the models show").

The bound `MaxUnsynced` matters: with two unflushed commits pending, a third
may overwrite the last flushed page, and a power failure may then leave a
version older than the flushed one, or no valid page. That is what `NoSync`
gives up, so the bound is part of the statement.

`meta_commit` has one process. With two (`Procs = {p1, p2}`)
`BegunSnapshotIsCommitted` fails: the triple of a process that only reads is
not refreshed when another process commits, and its `Env.mu` does not keep the
other's writer away from the page it is copying.

Fairness: a commit that has reached its meta page is straight-line code
(`StoreMeta`, `SyncMeta`, `Publish`), and so is a reader inside
`beginReadTxn` (`ReadTxnid`, `ReadTrees`); both are weakly fair. Nothing else
is: nobody must begin, read, or sync. `Publish` needs no strong fairness
because Go's `RWMutex` lets no new reader in while a writer waits: that is the
guard of `BeginRead`, and without it `CommitEnds` fails.

Proved in `MetaPagesProofs`, for any number of processes, readers and commits,
under the hypotheses of the second column:

| theorem | holds when | what |
| --- | --- | --- |
| `TypeCorrect` | always | `Spec => []TypeOK`, in both modes of `updateMeta` |
| `AcknowledgedIsSeen` | `ByWriteAt`: no WriteMap | `ReaderSeesAcknowledged` |
| `FlushedSurvive` | `Durable`: `ByWriteAt`, `MaxUnsynced <= 1` | `FlushedCommitsSurvive` |
| `ImplementsLog` | `Durable` | `Spec => ImplementsCommitLog`, the refinement |
| `FlushedVersionsStay` | `Durable` | `Log!PinnedStays`: no step changes a flushed version; from `ImplementsLog` and `CommitLogProofs` |
| `BegunSnapshots` | `Prompt`: `Durable`, one process, `MaxIOErrors <= 1` | `BegunSnapshotIsCommitted` |

The hypotheses are needed: with WriteMap, with two commits unflushed, with a
second process that commits, with a second failed commit TLC finds the property
violated. The exception is `AcknowledgedIsSeen`, whose argument rests on
`ByWriteAt`, although TLC finds no violation with WriteMap in the instance of
`meta_commit`.

The argument is an invariant in layers. `WellTyped` adds to the types that some
page besides the one being written is valid; without it `newMetaTriple` would
have nothing to choose. `Ordered` is about all images that may be on disk
(`Kept`), not only the page cache, because a power failure may bring any of
them back: the consistent ones of two pages have different numbers, none is
newer than the version shown, and the writer's number is the next. From it
follow the two facts about `nextMetaIndex` everything else rests on
(`NextSparesNewest`): it never takes the newest page, nor the one before it when
the two numbers are adjacent. `DurablyLogged` says that the page of the last
flushed version, the anchor, has had no store since, and is not the writer's
target; it is the newest page or the one before, as long as one commit at most
is unflushed, so the next commit spares it. An image at least as new as the
anchor is a version of the log, so what a power failure leaves is a prefix of
the log that contains the flushed one: that is a step `Fail` of `CommitLog`, the
last store of a commit is `Commit`, a flush is `Sync`, and every other step
stutters. `Begun` bounds how far the page in the triple lags behind the file: by
the commits the file refused after their page was stored, and by one more
between the store and `Publish`. With a lag of one `nextMetaIndex` spares that
page; `Publish` waits for the readers on it before it moves on.

`CommitEnds` is a liveness property and stays with TLC.

## ReaderTable

Every atomic load, store and compare-and-swap of `lock.go` is an action.
`^uint64(0)` (claimed, no txnid yet) is `Claimed`; pid 0 is `NoPid`. `tid` and the
snapshot counters are written and never read. A slot's `pid` and `tid` stores
are one action as nothing reads `tid`. A process dies by `Die`: its slots stay,
its freelist is gone. Pids are not reused. `Acquire(t, p)` is called with the
process's pid by `beginReadTxn` and `Unpark`, and with 0 by `Renew`.

`KilledAt` says where the threads of a process may be when it dies. The runs
use everywhere (`AnyPC`), or everywhere but between the two stores of a release
(`NotMidRelease`).

- `readers_table`: two processes, three transactions, two slots, one process
  calling `ReaderCheck`. Fewer slots than transactions, so the table fills up,
  freelist entries go stale and scans fail over; two processes, so slots move
  between freelists; two transactions in one process, so its freelist is
  shared.

A reader that `Renew` registered has pid 0 in its slot. When its process dies
the slot stays taken for ever: `CheckPid` skips it, as the code does.

Deadlock is not an error here: all processes may have died.

Proved in `ReaderTableProofs`, for any number of processes, threads and slots
(assumed: at least one slot and one txnid, `NoPid` is no process, each thread
has a process):

- `TypeCorrect`: `Spec => []TypeOK`.
- `Exclusive`, `Registered`, `ChecksAreSafe`: `SlotHasOneOwner`,
  `LiveReaderIsRegistered` and `CheckClearsOnlyStale` hold if at most one
  process checks for stale readers and no process is killed in mid-release
  (`Quiet`). Both conditions are needed: with `KilledAt <- AnyPC` the last
  property fails; with two checkers one may clear a slot the other has already cleared and a reader
  has claimed since.

The argument. That two owners never share a slot follows from the
compare-and-swap as long as an owned slot never reads as free, so the
invariant says what an owned slot contains (`OwnedIsTaken`). Only the checker
writes to slots it does not own, so the rest is about what it has seen. It has
read a registered txnid (`checkPc = "pid"`): if the slot was released since,
its old pid is either cleared or belongs to a thread still about to clear it,
hence to a living process (`SeenPidIsLive`; this is where `Quiet` enters). It
has read a dead pid (`"clear"`): then the slot does not read as free
(`SeenDeadIsTaken`), so nobody can claim it. `OwnedIsNamed` connects the two: an
owned slot names its owner's process or nobody.

- `SlotsAreKept`, `FreelistsAreShort`: `NoSlotIsLost` and `FreelistIsBounded`,
  without `Quiet`, whatever is checked and killed: until a process dies a slot
  that is not free has an owner, at each instruction between its claim and its
  release; and a freelist with the transactions that are busy is never longer
  than the number of the process's transactions (finitely many are assumed).

## NamedTrees

A tree is the set of updates it contains. `main` is MainDBI in the file,
`view` the one of the process's cached triple, `dbis` the handle table, `w` and
`readers` the transactions with their `trees` slices, which are reused without
being cleared. `OpenDBI` is split where it lets go of `dbisMu`: the first search
(`OpenKnown`, `OpenLookup`), then the tree cached behind the number it found
(`OpenCached`; the handle may be closed by then), or the second search and the
store (`OpenFound`, `OpenMissing`, `OpenRead`). A commit is split where readers can come between:
`PersistNamedTrees`, `UpdateMeta`, `UpdateCachedTrees`. `Drop` and `CloseDBI`
change `dbis` at once, as the code does. `ForeignCommit` is a whole transaction
of another process.

- `named_trees`: two names (interchangeable, hence the symmetry), two handles,
  one reader, one update, one closed handle, a foreign commit. One update is
  enough for the properties, which compare sets; two handles are what a name
  needs to be opened twice or in another's place.
- `named_lost`: a property the code does not keep.

`OpenDBI` of a known name in a read transaction changes nothing in the model,
because it changes nothing in the code: the tree it reads from the snapshot is
dropped, and the transaction goes on with what its `trees` slice had.

`CacheIsCommitted`, `OnlyCommittedUpdatesVisible` and `BegunTreesAreMapped` are
stated for calm histories (no handle closed, no foreign commit): with them the
code does not keep them, which the hazards note.

Proved in `NamedTreesProofs`, for any number of names, handles, readers and
updates: `TypeCorrect` and `HandlesAreUnique` (`OneHandlePerName`) in every
history; `CacheFollowsCommits` (`CacheIsCommitted`), `AbortsLeaveNothing`
(`OnlyCommittedUpdatesVisible`) and `BegunReadersAreMapped`
(`BegunTreesAreMapped`) in calm ones, as they are stated. The invariant is
`Typed /\ Shape /\ (Calm => Settled /\ Known)`. `Shape` is what holds in every history:
names are not removed from MainDBI behind a transaction's back, and no name has
two handles. `Settled` says that the process's view is the file's (nobody else
commits), that a free handle has left nothing in any `trees` slice
(`FreeIsClean`), that a cached tree is the one of MainDBI, the file's or the
writer's depending on how far the commit is (`Cached`), that of a name without
a handle everybody sees the file's tree (`Unopened`), where uncommitted updates
may be (`Committed`), and that a reader's trees lie in its map (`Mapped`).
`Known` says that the number a writer's first search found still is the handle
of the name it opens.

## BTreePage and BTree

A page is its type and the sequence of its entries; a tree is a root, a height
and counts over a function from page numbers to pages. The write transaction's
record `w` has the pages as it sees them, which of them are dirty, the list of
freed page numbers, the end of the file and the tree; `disk` is what readers
see through the map. Keys are numbers, and every key and value has a length in
units of a node header, so whether a node fits, whether a value goes to
overflow pages, and where a page splits are decided as in the code.

| code | model |
| --- | --- |
| `searchPage` with its halving loop | `SearchPage`, `Searched`, `Round` |
| `searchForInsert`, `positionForAppend` | `Path`, `AppendPath`: a path is the cursor's stack, and both are a `Descent` |
| `first`, `moveNext`, `getCurrent` | `Leaves`, `Walk` |
| `insertEntry` with compaction, `splitPoint`, `splitAndInsert` | `Fits`, `SplitPoint`, `Split` |
| `insertNodeAt`, `insertIntoParent`, `createNewRoot` | `InsertNode`: `InsertLevel` on each page of the path upwards, `CreateNewRoot` |
| `touchPageAt`, `updateChildPointer` | `Touch`: `TouchLevel` on each page of the path downwards, `UpdateChild` |
| `put`, `updateNode`, `createRoot` | `PutAt`, `UpdateNode`, `CreateRoot` |
| `delNode`, `freeEmptyPage` | `DelNode`, `FreeEmptyPage` |
| `allocatePage`, `allocateOverflow`, `freeOverflow`, `updateOverflowInPlace` | operators of the same names |
| `writeDirtyPages` and the meta page | `Commit`, one action: `MetaPages` has its steps |

One action is one call. The transaction is single-threaded, so nothing comes
between the steps of a call except, with WriteMap, a reader looking at a page;
`btree` does not use WriteMap, `Cursors` does. A branch page that lost its last entry keeps the
entry's bytes, and the code reads them without looking at the count: `stale` is
the child they name. The code's descents end at a leaf, or with an error when
the stack of `CursorStackSize` pages is full; `Descent` ends at a leaf, or one page below the
height, which is as wrong and keeps the path finite. `live` is what the calls
promised, `committed` and `snap`
are the commits with the contents of their pages as they were: history, against
which the present pages are compared.

Proved in the first part of `BTreeShapeProofs`, for pages of any length and any lengths of keys and
values, are the decisions taken on one page:

| theorem | what |
| --- | --- |
| `LeafSearch` | the halving of `searchPage` on a leaf ends, within as many rounds as there are entries, at the first entry not before the key, or behind the last |
| `BranchSearch` | on a branch page, whose first entry is never compared, it ends at the one entry whose range holds the key |
| `SplitKeepsEntries` | the two pages of a split are the page with the new node in its place |
| `SplitKeepsOrder` | a new key put where `searchPage` landed is in order, and a split leaves every key on the left before every key on the right |
| `SplitPointFits` | when some split leaves two pages that hold something and fit, `splitPoint` chooses such a split |

The hypothesis `Ordered` of the searches and splits, that the keys of a page grow and a branch page's
first key is the empty one, is not proved of the tree; for leaves it is part of
what `TreeHoldsTheMap` checks, and with it added as an invariant for all pages
on a path, `btree` passes. `SplitKeepsEntries` leaves out a split at index 0 of
a node that is not first: there the node goes alone to the left page, out of its
place. `splitPoint` chooses that index when no valid one is nearer the middle,
which takes a node too long for either neighbour ("More that the models show").
The search
is proved as a loop: `Round` keeps `low` and `high` in bounds and narrows what
is between them by one entry at least, every entry left of `low` is before the
key and every one right of `high` after it, and when nothing is left between
them the answer is known. The proofs
rest on two facts about numbers, that a set of them has a least one (from the
library's well-foundedness of `<`) and, by it, that what
holds of 0 and of each number's successor holds up to any bound (`UpTo`). What a page's entries take
together (`Used`, a fold) is opaque to them: that two halves fit is a
hypothesis, never computed.

Proved in `BTreeProofs`, over the rest of `BTreeShapeProofs`, is what a whole call does, and
from it what holds after any history of calls, commits and aborts: for any keys,
values, lengths, page size, number of readers and bounds on transactions and
calls. The first three assume `~WriteMap` and `MaxDelHeight <= 2`, the values of
the run `btree`; `Stands` is explained below.

| theorem | what |
| --- | --- |
| `SnapshotTreesStay` | `Spec => []SnapshotTreesAreImmutable` |
| `FreePagesStayUnused` | `Spec => []FreePagesAreUnused`, the part of `PagesAreUsedOnce` without counting |
| `HeightStaysDepth` | `Spec => []HeightIsDepth`, the part of `ShapeIsCounted` without counting |
| `PutStands` | a put at the end of `Path` or `AppendPath` fails or keeps `Stands`; no hypothesis on the tree's height |
| `DelStands` | a delete from a tree of at most two levels keeps `Stands` |
| `PathTouched` | `Touch` gives a sound tree with the same nodes in the leaf and a path of dirty pages, and writes no held page |
| `PathFindsLeaf` | `Path` goes through one page on each level, parent to child, to a leaf |

The argument. None of the three properties is inductive. A page is overwritten
when it is dirty or comes from the free list, so a snapshot's pages are safe if
the dirty pages are not among them and the free list has none of them either;
that the free list has no page of the *tree* rests on every page of the tree
having one parent, and on the map of levels being right, since it is the level
at which the code knows a page to be a leaf. The invariant therefore says of the
writer's state `s`, of the pages `H` that the last commit and the readers hold
and of the map `base` (`Stands(s, H, base)`) that there are a level for each
page of the tree (`lv`), a set of free pages (`F`) and a set of reserved ones (`R`) with

- `Tree`: a page on level 1 is a leaf, on a higher one a branch page whose nodes
  lead one level down; the nodes of leaves lead to overflow pages; no two nodes
  claim the same page, and none claims a free or a reserved one;
- `Filled`: a branch page has nodes;
- `Spares`: no dirty page is in `H`, and the pages of `H` are in `s` as in `base`,
  none of them an overflow page;
- `FreeList`: the list holds the pages of `F`, each once, and none of `H`;
- `Rooted`: the root is a reserved page on the level that is the tree's height.

`lv` and `R` are no part of the state: levels are what the descent counts, and
`R` is what makes the steps inside a call provable one by one. Between the build
of a node and its insertion, between a split and the separator's arrival in the
parent, between the freeing of a leaf and the removal of its parent's node,
pages exist that no node claims; a page is reserved as long as that lasts. Each
operator of `BTree` has its lemma, about `Tree` with the page reserved before and
claimed, free or gone after; the ascent of an insertion, the descent and the
copying of a path are recursive functions over the path, for each of which the
step that breaks the claim first is considered and shown not to. The whole
invariant, `SnapshotsStand`, adds that what the next writer would begin with
stands as well, which is what an abort returns to, and that every held page is
in the map as it was committed.

The two hypotheses are where the code stops keeping it. With WriteMap a freed
overflow page of the last commit may be taken for a leaf or branch page, in the
map itself; after an abort the committed leaf still leads there, to a page that
is no overflow page any more. After a delete from a higher tree `Filled` is wrong, `freeEmptyPage` leaves an empty
branch page, and the searches that enter it go where a deleted node led
("More that the models show").

What stays with TLC: that a tree has as many pages as its nodes lead to and as
many leaves as the header says (the counting parts of `PagesAreUsedOnce` and
`ShapeIsCounted`, and the counters in `TypeOK`), that no call fails
(`CallsSucceed`, sums of lengths), and what `Get` and iteration find
(`TreeHoldsTheMap`, an induction over trees of any height). `PutStands` says
"fails or": a transaction in which a call failed with `ErrPageFull` or
`ErrCorrupted` is only aborted in the model. The code would let it commit.

Runs:

- `btree`: pages of six units, which take two leaf nodes or three branch
  entries, five keys, a key that also gets big values of one and two overflow
  pages, one reader, two write transactions and five calls between them. Five
  calls build a tree of height 3; two transactions let a reader hold the first
  while the second copies, frees and reuses pages. Deletes stop above height 2
  (`MaxDelHeight`), and no length is near the limit: behind these two bounds
  are two of the defects listed under "More that the models show", and every
  property of this run would fail with them. Checked: `Get` and iteration give exactly the map, no call
  ends in `ErrPageFull` or `ErrCorrupted`, snapshots keep their branch and leaf
  pages, no page is used twice or both used and free, height and leaf count are
  those of the tree.

Readers do not search in `BTree`: that a snapshot's pages are unchanged says
more than that a search finds the same; they do in `Cursors`. The bounds stop the system, so
deadlock is not checked.

## RangeDelete

`DeleteRange` is one call on the store of `BTree`: operators that follow
`drDeleteInPage` from the root down and give back the store, the page that
replaces the one they were called on, and the number of entries deleted. The
two passes of `drDeleteInBranch` keep their order, because the page numbers
depend on it: first the children at the ends, then the copy of the page, then
the subtrees that lie whole in the range, freed by the walk of
`drFreeSubtreeRecursive` without a look at their keys. The loop that collapses
a root with one child is a fold over the height. It is checked in `cursors`
(ranges over every pair of keys and nil bounds, trees of two and three levels):
the map without the range, no page used twice or both used and free.

## Cursors and MapCursor

`MapCursor` is the contract: a client knows whether its cursor is new, at a key
or at the end, and `Promised` is the key each operation of `Cursor.Get` gives
it. `Cursors` is the code: a cursor is its stack.

| code | model |
| --- | --- |
| `pages`, `indices`, `top`, `state` | `p` (page numbers), `i`, `top`, `state` of `cur[owner]`; levels and entries count from 1 |
| `dirtyMask`, `stackDirty` | `dirty`, the levels whose bit is set; entries above the top stay, as in the code |
| `numExpected`, `afterDelete` | `exp`, `after` |
| `refreshPage`, `refreshStackFromRoot` | `Refresh`, `RefreshStack` |
| `first`, `last`, `moveNext`, `movePrev`, `nextNoDup`, `prevNoDup`, `getCurrent`, `search`, `setUpperbound` | `First`, `LastKey`, `MoveNext`, `MovePrev`, `NextNoDup`, `PrevNoDup`, `GetCurrent`, `Search`, `SetUpperbound` |
| the loops of `moveNext` and `nextNoDup`, of `movePrev` and `prevNoDup` | `Forward`, `Backward` with a flag for what differs |
| `pushPageByPgno`; the pages `last`, `descendRight` enter without it | `Push`; `Enter` |
| `touchPageAt` of a caller's cursor, `delNode`, `freeEmptyPage`, `put` | `TouchUpTo`, `CursorDel`, `AfterFree`, `CursorPut` |

A page in the code is a slice: a cursor that holds a committed page goes on
seeing it when the tree has a copy, and sees changes made in place. Page
numbers say the same, since a copy has a new number. Every reader has a cursor
on its snapshot, the write transaction has one beside the cached cursor of
`Txn.Del`, which always searches from the root. `client` is history: the key
the client was given last, and what its last move should have given.

`Clients` says what a program does with its cursor, because the code holds for
some programs and not for others. The four of `cursors` are: delete through
the cursor that iterates; iterate with `NextNoDup` and prune with `Txn.Del` of
the key just seen; put and delete at keys just sought; delete ranges and then
through a cursor. `Pruning`, `Mixing`, `Backwards`, `Reusing` are the programs
of four violations.

- `cursors`: pages as in `btree`, five keys put in ascending or descending order
  by the first commit (leaves filled, leaves split), one write transaction of
  three changes with WriteMap, any moves between them, a reader that makes every
  move beside the first kind of client and scans beside the others. Checked: a cursor that has a position has a stack; the reader's
  moves are exactly those of `MapCursor` whatever is written; a writer's move
  gives the promised key or at worst an earlier one again (`WriterSkipsNothing`:
  after a `Del` of the last entry of the last leaf the cursor goes back one, and
  `Next` gives that key again, which is why the exact property is not checked
  for the writer); the tree is the map; pages are used once.

The run shows WriteMap because there a wrong write is seen at once; copies and
page numbers are the same without.

## FastMap, SpillBuffer and DirtyPages

`FastMap` and `SpillBuffer` are the data structures as operators: open
addressing with the low bits of the Fibonacci hash and growth at three
quarters; segments with bitmaps scanned by words from a hint, `curSegment`, the
count, indices stored modulo `IndexMod`. `DirtyPages` composes them with all
callers. A page's data is a place, `latest` is history: where the transaction
last put the data of each page. A commit is split where the code lets the next
writer in: `Commit` or `Abort` first, `ReleaseSlots` later, while another
transaction object works.

- `dirty_pages`: two transaction objects, two transactions, five calls, both
  values of WriteMap, tables of four buckets (growth at the fourth page, probes
  around the end), words of two bits and segments of three slots (a last word
  that is not full, a second segment), a map that ends inside an overflow value
  or before a new page. Checked: no two pages share data or use a slot another
  transaction gives back; `get` finds the last version; commit writes every page
  outside the map, the shortcut for WriteMap included; no free slot is left
  behind `curSegment`.

Proved in `DirtyPagesProofs` are all five properties of the run, for any number
of transaction objects, transactions and calls, any first table of more than one
bucket, any word and segment size (assumed of the marker `Unused`: it is no
entry and no place):

| theorem | what |
| --- | --- |
| `LookupsAreLatest` | `Spec => []LookupIsLatest` |
| `EveryPageIsWritten` | `Spec => []CommitWritesEveryPage` |
| `SlotsAreFound` | `Spec => []FreeSlotsAreFound` |
| `DataAreOwned` | `Spec /\ []FewSegments => []PagesOwnTheirData` |
| `TypeCorrect` | `Spec /\ []FewSegments => []TypeOK` |
| `SetIsUpdate` | `Set` gives a sound table (`IsTable`) that differs in the one key, whether it grows or probes |

`FewSegments` says that the buffer has no more segments than the 16 bits of
`Slot.SegmentIdx` can number (`IndexMod`). The code does not enforce it
(`DefaultMaxSegments` is the largest `int32`), but 65 536 segments of 1 024 slots
are 2^26 pages changed and not yet given back. Without it the statements are
false (TLC shows it with segments of one slot and `IndexMod = 2`): the Slot of a
page in segment 65 537 is that of one in the first, so `ReleaseBulk` frees a slot
somebody else uses.

The argument. `Tracked` says, whoever works, that the tracker has the places
`latest` has (`Tracks`), and for each that the transaction object shows what
commit and release go by (`Home`): a page on the heap has set `hasNonMmapPages`
if there is WriteMap, a page in the buffer has its slot under its own number in
`spillSlots`. It also says that the two tables are tables and that the buffer is
one (`IsBuffer`: full segments before `curSegment`). It needs no bound. `Owned`
adds who has which slot: all slots in the tables of transactions are taken, no
slot is in two tables or twice in one, and a page's Slot still tells where the
page is (`Unwrapped`; here `FewSegments` enters). `Allocate` takes a slot nobody
has and `ReleaseBulk` gives back those of its list only, so a transaction that
gives its slots back late takes none from the one at work. A page freed and
allocated again puts a second slot under its number; the first is then in no
table, which loses it and harms nobody.

Calls are proved as ways between triples of buffer, transaction and `latest`
(`LeadsTo`), which compose: an overflow value is two new pages, a shortened one
copies and a change of the free list. Underneath are the two data structures. A
table is sound when the probe for each of its keys stops at that key
(`IsTable`, `IsStop`), the count is right and a bucket is unused, so that every
probe ends; a probe ends at the first unused bucket, so the one `Insert` fills is
on the way to no other key.
The loops of `grow`, `ForEach` and `ReleaseBulk` are recursive functions of the
number of elements done, and what is said of them goes from each number to the
next one.

## EnvLifecycle

A goroutine is a `pc` that says which blocking point of which call it is at;
one action is the code between two of them. `Env.mu` is `muReaders` (those who
hold it shared across a wait) and `muWriter` (who waits for it exclusively and
lets no new reader in, as Go's `RWMutex` does); `txnMu` with `writeTxn` and its
condition; `flock`, which belongs to the process and so does not keep its
goroutines apart; `txnWg`. A map is named by the pages it covers.
A commit may fail in each of its steps, in writing its pages, on either side of
the new map, in `updateMeta` before or after the meta page is stored, and in
`readMeta`; it then ends in `abortInternal`. The other
process takes and gives back the writer lock and commits.

- `lifecycle`: three goroutines of which one may close the environment and one
  copy it, three transactions begun, a file that grows from one page to two,
  another process that locks and commits inside this process's map. Three
  goroutines are a reader, a writer and a waiting writer, or a reader, a writer
  and `Close`; one growth makes one old map. Checked: transactions keep their
  map mapped and it covers their snapshot; one writer, holding the file lock;
  every map can be found by `Close`; every call returns.

Fairness: goroutines that can run do (`Progress`), applications end their
transactions (`Ends`), the other process gives the lock back (`PeerUnlock`), all
weakly fair. `BeginWrite` is strongly fair: it waits in `flock`, which the other
process may take again and again, and the kernel grants it to a waiter
eventually. Waiting for the condition and for `Env.mu` needs no more than weak
fairness: that `writeTxn` is cleared and broadcast, and the guard of readers,
are what `EveryCallReturns` checks. It is stated for programs that do not call
`Close` with their own transaction open.

`CloseRaces` and `PeerGrows` are `FALSE` in the run: what they admit is listed
below.

Proved in `EnvLifecycleProofs`, for any finite number of goroutines, any number
of transactions and any file size (assumed: `Nobody` is no goroutine, a fresh
file has a page and fits):

- `WriterIsAlone`, `MapsAreKept`: `OneWriter` and `NoMapIsLost`, with both
  constants free.
- `TypeCorrect`, `TxnsKeepTheirMap`: `TypeOK` and `BegunTxnIsMapped` if `Close`
  does not race with a reader behind its signature check (`~CloseRaces`).
- `SnapshotsFitTheirMap`: `SnapshotIsMapped` if moreover no other process grows
  the file (`~PeerGrows`).

The invariant (`Lifecycle`) ties the counters to the goroutines they count:
`txnWg` is the number of begun transactions (`Counted`), so `Close`, which waits
for zero, is last when it unmaps (`CloseIsLast`); the goroutine named in
`writeTxn` is the only one past the wait of `BeginWrite` (`OneWriteTxn`); a map
in use is the current one or among the kept (`MapsHeld`). `EveryCallReturns` is
liveness and stays with TLC.

## CommitLog

The abstract specification. `MetaPages` with the standard path implements it
(`ImplementsCommitLog` of `meta_commit`). `CommitLogProofs` proves, for every set
of versions, that the log stays well-formed (`LogTyped`) and that no commit and
no failure changes the flushed prefix (`PinnedStaysPinned`); by the refinement,
which `ImplementsLog` of `MetaPagesProofs` proves, the same is true of what a
process finds in the file.

## Findings

Five runs end in a violation of something the repository says of itself:

- `named_lost`: a writer whose `OpenDBI` is overtaken by a reader's may commit
  over the committed tree.
- `range_reuse`: `DeleteRange` lists committed pages as free for its own
  transaction; the next `Put` overwrites pages of the last commit.
- `cursor_prev`: after `Del`, `Prev` into another leaf and `Del` again, the second
  deletion is made in the committed leaf.
- `cursor_mixed`: `Txn.Del` and `Cursor.Del` in one leaf copy it twice; the first
  deletion is lost.
- `cursor_prune`: `Next` passes over a leaf when `Txn.Del` emptied the one before.

### More that the models show

The modules state these properties too. Each fails on the instance given, one
property at a time; the runs of the project stay on the other side of the
condition named, which the hazards note.

| property | instance | what happens |
| --- | --- | --- |
| `MetaPages.ConsistentMetaIsComplete` | `WriteMapModes = {TRUE}`, no reader, one commit | a process that dies in `updateMeta` (`src/txn.go:1846`) leaves equal txnids over the new trees and the old geometry, which `src/meta.go:139` calls a complete write; the next writer allocates from that geometry, over pages of the new tree |
| `MetaPages.RenewedSnapshotIsCommitted` | as `meta_commit` | `Renew` mixes the txnid of one version with the root of another |
| `MetaPages.RecoveredTreeHasItsPages` | `SyncModes = {TRUE}`, no reader | one fsync after data and meta page: a power failure may keep the meta page and lose the data |
| `ReaderTable.CheckClearsOnlyStale` | `KilledAt <- AnyPC` | a death between the stores of a release leaves a pid that is taken for the next owner's |
| `BTree.TreeHoldsTheMap` | `Room = 10`, `KeyLen <- OneLongKey`, `Puts <- OneLongPut`, three keys | a node that fits with neither neighbour is put on the wrong side of its separator |
| `BTree.TreeHoldsTheMap` | `MaxDelHeight = 3`, seven small puts and deletes in one transaction | an emptied branch page sends searches and iterations to a freed page |
| `BTree.SnapshotsAreImmutable` | one key, `Puts <- OnlyBigPuts` | an updated big value changes the committed value's pages |
| `DirtyPages.SlotsAreReleased` | as `dirty_pages` | a page freed and allocated again has two slots, and one entry to release them by |
| `DirtyPages.OverflowStaysInMap` | as `dirty_pages` | an overflow value that ends behind the map is written through a slice out of range |
| `MetaPages.BegunSnapshotIsCommitted` | as `meta_commit`, `MaxIOErrors = 2`, `MaxAttempts = 4` | two commits fail in their fsync, after their meta pages are stored; the third writes over the page a reader of the same process is still copying |
| `NamedTrees.BegunTreesAreMapped` without `Calm` | `MaxUpdates = 2`, `MaxCloses = 1` | an aborted writer's tree stays in the reused `trees` slice; a handle closed and refilled between the two searches of `OpenDBI` is returned without setting it, and the next commit stores the aborted updates |
| `EnvLifecycle.BegunTxnIsMapped` | `CloseRaces = TRUE` | a reader that passed the signature check counts itself after `Close` waited |
| `EnvLifecycle.CopyIsComplete` | as `lifecycle` | a commit between `CopyFD`'s size and its meta pages makes a copy with a meta page that needs more |
| `EnvLifecycle.SnapshotIsMapped` | `PeerGrows = TRUE`, `MaxPages = 3` | a writer begun after another process grew the file has the new snapshot in its old map |
| `Cursors.TreeHoldsTheMap` | `Clients <- Putting` | after a `Put` that split, `Del` removes an entry of the parent |
| `Cursors.WriterMovesAreExact` | `Clients <- Putting`, or `Choosing` | `Next` gives a key again: after a `Put` for its stale count, after a `Del` of the last leaf's only entry |

## Not modelled, and the plan

1. `DupSort`: single value, sub-page, sub-tree and the moves between them, and
   the cursor operations on duplicates. The only larger part of the engine
   without a module. It would stand on `BTree` as one more tree inside a node.
2. Smaller gaps: creation of a file (`initNewDB`), `Sequence`,
   `NoOverwrite` and `PutReserve`, comparators, option setters.
3. Proofs: the order of keys in `BTree`: that the keys under a node lie between
   its key and the next one is one more part of `Tree`, and the first half of
   `TreeHoldsTheMap`. Then the counts (`PagesAreUsedOnce`, `ShapeIsCounted`).

Out of reach of proof: liveness and enabledness (`CommitEnds`,
`EveryCallReturns`), and `RangeDelete` and `Cursors`, which declare recursive
operators. So is a general induction over data; what is proved of a recursive
function in `BTreeShapeProofs` and `DirtyPagesProofs` is proved for that
function, by looking at the least argument at which the claim would fail.

Left out for good: the assembly of the key search, the compatibility wrappers,
the Windows port of the lock file, benchmarks.
