-------------------------------- MODULE BTree --------------------------------
(***************************************************************************)
(* One database's B+tree under one writer and several snapshot readers:    *)
(* Txn.Put (plain and Append) and Txn.Del on the cached cursor of a write  *)
(* transaction (cursor_modify.go), with copy-on-write (touchPageAt), page  *)
(* splits up to a new root, empty pages freed and the root collapsed,      *)
(* overflow pages of big values, the transaction's list of freed pages,    *)
(* and commit and abort.  A reader keeps the tree of the commit it began   *)
(* at and reads pages in place from the map (directGetReadOnly).           *)
(***************************************************************************)
EXTENDS BTreePage

CONSTANTS
  Puts,         \* the pairs of a key and a value the writer may put
  Readers,      \* read transactions
  NoSnap,       \* what an idle reader holds
  WriteMap,     \* the writer changes the map itself (env flag WriteMap)
  MaxTxns,      \* bound on write transactions
  MaxCalls,     \* bound on puts and deletes that change the tree
  MaxDelHeight  \* bound: no deletes from taller trees

ASSUME TreeAssumption ==
  /\ Puts \subseteq Keys \X Vals
  /\ WriteMap \in BOOLEAN
  /\ MaxTxns \in Nat /\ MaxCalls \in Nat /\ MaxDelHeight \in Nat

VARIABLES
  w,          \* what the write transaction works on, the pages as it sees them
  writing,    \* is there a write transaction
  disk,       \* the pages as readers see them through the map
  committed,  \* the last commit: tree, end of file (Geometry.Now), contents,
              \* and the pages of its tree as they were then
  live,       \* the map from keys to values the writer's calls promise
  snap,       \* what each reader holds of the commit it began at
  txns,       \* write transactions begun
  calls       \* puts and deletes done

vars == <<w, writing, disk, committed, live, snap, txns, calls>>

EmptyTree == [root |-> NoPage, height |-> 0, items |-> 0, leaves |-> 0]
EmptyMap  == [k \in Keys |-> NoVal]

\* beginWriteTxn: nothing dirty, nothing free, pages as on disk.
Fresh(pages, c) ==
  [pg |-> pages, dirty |-> {}, free |-> <<>>, alloc |-> c.alloc,
   tree |-> c.tree, failed |-> FALSE]

Failed(s) == [s EXCEPT !.failed = TRUE]

\* Pages of which those in the set hold the same.
Over(pages, set, page) ==
  [p \in set \cup DOMAIN pages |-> IF p \in set THEN page ELSE pages[p]]

\* dirtyTracker.set with the page's new contents.
Write(s, p, page) == [s EXCEPT !.pg = Over(@, {p}, page), !.dirty = @ \cup {p}]

\* The same for the entries of a page, whose type stays.
SetEnts(s, p, es) == Write(s, p, [s.pg[p] EXCEPT !.ents = es])

------------------------------------------------------------------------------
(* Reading: the descent of directGet and the order of first and moveNext.  *)

\* Page by page from the root, in each to the spot given for it, until a page
\* of ends; one page more than the tree is high, if there is none before.
Descent(s, spot, ends) ==
  LET At(p) == [p |-> p, i |-> spot[p]]
      down[n \in 0 .. s.tree.height] ==
        IF n = 0 THEN <<At(s.tree.root)>>
        ELSE LET path == down[n - 1]
                 end  == Last(path)
             IN IF end.p \in ends THEN path
                ELSE Append(path, At(ChildAt(s.pg[end.p], end.i)))
  IN IF s.tree.root = NoPage THEN <<>> ELSE down[s.tree.height]

IsLeaf(s, p) == s.pg[p].type = "leaf"

Path(s, k) ==
  Descent(s, [p \in DOMAIN s.pg |-> SearchPage(s.pg[p], k)], {p \in DOMAIN s.pg : IsLeaf(s, p)})

\* positionForAppend: the rightmost path, behind the last entry unless the
\* key is already there; it stops at a page without entries.
AppendPath(s, k) ==
  LET Behind(p) == IsLeaf(s, p) /\ Last(s.pg[p].ents).k # k
      spot == [p \in DOMAIN s.pg |->
                 IF s.pg[p].ents = <<>> THEN 1
                 ELSE Len(s.pg[p].ents) + (IF Behind(p) THEN 1 ELSE 0)]
      ends == {p \in DOMAIN s.pg : IsLeaf(s, p) \/ (s.pg[p].type = "branch" /\ s.pg[p].ents = <<>>)}
  IN Descent(s, spot, ends)

\* A big value is whole if all its pages hold it.
ValueOf(pages, node) ==
  IF node.ovf = NoPage THEN node.v
  ELSE LET read == {pages[p] : p \in node.ovf .. node.ovf + node.n - 1}
       IN IF \E v \in Vals : read = {LargePage(v)}
          THEN (CHOOSE v \in Vals : read = {LargePage(v)}) ELSE NoVal

NodeAt(s, path) ==
  LET es == s.pg[Last(path).p].ents
  IN IF path # <<>> /\ Last(path).i \in DOMAIN es THEN es[Last(path).i] ELSE [k |-> NoKey]

Found(s, path, k) == path # <<>> /\ NodeAt(s, path).k = k

\* Txn.Get.
Get(s, k) ==
  IF Found(s, Path(s, k), k) THEN ValueOf(s.pg, NodeAt(s, Path(s, k))) ELSE NoVal

\* The leaves in the order of the branch entries.
Leaves(s) ==
  LET leaves[p \in DOMAIN s.pg] ==
        IF s.pg[p].type = "leaf" THEN <<p>>
        ELSE IF s.pg[p].ents = <<>> THEN leaves[s.pg[p].stale]
        ELSE FlattenSeq([i \in DOMAIN s.pg[p].ents |-> leaves[s.pg[p].ents[i].child]])
  IN IF s.tree.root = NoPage THEN <<>> ELSE leaves[s.tree.root]

\* The keys Cursor.First and then Next return: getCurrent on a leaf without
\* entries says NotFound, and the iteration is over.
Walk(s) ==
  LET ls == Leaves(s)
      end == SelectInSeq(ls, LAMBDA p : s.pg[p].ents = <<>>)
      seen == IF end = 0 THEN ls ELSE SubSeq(ls, 1, end - 1)
  IN FlattenSeq([i \in DOMAIN seen |->
       [j \in DOMAIN s.pg[seen[i]].ents |-> s.pg[seen[i]].ents[j].k]])

\* The pages of the tree, level by level, and the overflow pages of its values.
TreePages(s) ==
  LET Children(p) == {node.child : node \in ToSet(s.pg[p].ents)}
      reach[n \in 0 .. s.tree.height] ==
        IF n = 0 THEN {s.tree.root}
        ELSE reach[n - 1] \cup UNION {Children(p) : p \in {q \in reach[n - 1] : ~IsLeaf(s, q)}}
  IN IF s.tree.root = NoPage THEN {} ELSE reach[s.tree.height]

BigNodes(s) ==
  {node \in UNION {ToSet(s.pg[p].ents) : p \in {q \in TreePages(s) : IsLeaf(s, q)}} :
     node.ovf # NoPage}
OverflowPages(s) == UNION {node.ovf .. node.ovf + node.n - 1 : node \in BigNodes(s)}

PagesOf(s) == [p \in TreePages(s) \cup OverflowPages(s) |-> s.pg[p]]

------------------------------------------------------------------------------
(* Allocation.                                                             *)

\* allocatePage prefers the page freed last; the page is then written.
NewPageNo(s) == IF s.free = <<>> THEN s.alloc ELSE Last(s.free)
AllocatePage(s, page) ==
  LET taken == IF s.free = <<>> THEN [s EXCEPT !.alloc = @ + 1]
                                ELSE [s EXCEPT !.free = Front(@)]
  IN Write(taken, NewPageNo(s), page)

FreePage(s, p) == [s EXCEPT !.free = Append(@, p)]
\* Mutant: one page too many is freed (a count rounded up twice).
FreePagesAndNext(s, first, n) ==
  [s EXCEPT !.free = @ \o [i \in 1 .. n + 1 |-> first + i - 1]]
FreePages(s, first, n) == [s EXCEPT !.free = @ \o [i \in 1 .. n |-> first + i - 1]]

\* allocateOverflow takes its pages from the end of the file.
AllocateOverflow(s, v) ==
  LET pages == s.alloc .. s.alloc + NumPages(v) - 1
  IN [s EXCEPT !.pg = Over(@, pages, LargePage(v)),
               !.dirty = @ \cup pages, !.alloc = @ + NumPages(v)]

FreeOverflow(s, node) == IF node.ovf = NoPage THEN s ELSE FreePages(s, node.ovf, node.n)

\* updateOverflowInPlace: the old pages take the new value, surplus ones
\* are freed.
UpdateOverflowInPlace(s, node, v) ==
  LET pages == node.ovf .. node.ovf + NumPages(v) - 1
      over  == [s EXCEPT !.pg = Over(@, pages, LargePage(v)),
                         !.dirty = IF WriteMap THEN @ ELSE @ \cup pages]
  IN FreePages(over, node.ovf + NumPages(v), node.n - NumPages(v))

------------------------------------------------------------------------------
(* Copy-on-write: touchPageAt from the root to the leaf.                   *)

\* updateChildPointer; on a page without entries it misses the node.
UpdateChild(s, at, new) ==
  LET es == s.pg[at.p].ents
  IN IF at.i \in DOMAIN es THEN SetEnts(s, at.p, ReplaceAt(es, at.i, Entry(es[at.i].k, new)))
     ELSE s

\* Mutant: the committed page is put on the free list when it is copied.
TouchLevelAndFree(a, at) ==
  IF at.p \in a.s.dirty THEN [a EXCEPT !.path = Append(@, at)]
  ELSE LET new  == a.s.alloc
           copy == [Write(a.s, new, a.s.pg[at.p]) EXCEPT
                      !.alloc = new + 1, !.free = Append(@, at.p)]
       IN [s |-> IF a.path = <<>> THEN [copy EXCEPT !.tree.root = new]
                 ELSE UpdateChild(copy, Last(a.path), new),
           path |-> Append(a.path, [at EXCEPT !.p = new])]

TouchLevel(a, at) ==
  IF at.p \in a.s.dirty THEN [a EXCEPT !.path = Append(@, at)]
  ELSE LET new  == a.s.alloc
           copy == [Write(a.s, new, a.s.pg[at.p]) EXCEPT !.alloc = new + 1]
       IN [s |-> IF a.path = <<>> THEN [copy EXCEPT !.tree.root = new]
                 ELSE UpdateChild(copy, Last(a.path), new),
           path |-> Append(a.path, [at EXCEPT !.p = new])]

Touch(s, path) ==
  LET upTo[l \in 0 .. Len(path)] ==
        IF l = 0 THEN [s |-> s, path |-> <<>>] ELSE TouchLevel(upTo[l - 1], path[l])
  IN upTo[Len(path)]

------------------------------------------------------------------------------
(* Insertion, from the leaf upwards.                                       *)

NoNode == [k |-> NoKey]

\* splitAndInsert on one page: the right half moves to a new page, and its
\* first key is the separator for the parent.
Split(s, at, node) ==
  LET page  == s.pg[at.p]
      x     == SplitPoint(page.ents, node, at.i - 1)
      left  == SplitLeft(page.ents, node, at.i - 1, x)
      right == SplitRight(page.ents, node, at.i - 1, x)
      moved == AllocatePage(s, [page EXCEPT !.ents = right])
      done  == SetEnts(moved, at.p, left)
      count == [done EXCEPT !.tree.leaves = IF page.type = "leaf" THEN @ + 1 ELSE @,
                            !.tree.items  = IF page.type = "leaf" THEN @ ELSE @ + 1]
  IN IF right # <<>> /\ Fits(left) /\ Fits(right)
     THEN [s |-> count, node |-> Entry(Head(right).k, NewPageNo(s))]
     ELSE [s |-> Failed(done), node |-> NoNode]

\* insertNodeAt and insertIntoParent: an entry that fits ends the ascent.
InsertLevel(a, at) ==
  LET page == a.s.pg[at.p]
  IN IF a.node = NoNode THEN a
     ELSE IF at.i <= Len(page.ents) + 1 /\ Fits(InsertAt(page.ents, at.i, a.node))
     THEN [s |-> SetEnts(a.s, at.p, InsertAt(page.ents, at.i, a.node)), node |-> NoNode]
     ELSE Split(a.s, at, a.node)

\* Mutant: the new root does not raise the tree.
CreateNewRootFlat(s, node) ==
  [AllocatePage(s, BranchPage(<<Entry(NoKey, s.tree.root), node>>)) EXCEPT
     !.tree.root = NewPageNo(s)]

\* createNewRoot over the two halves of the old one.
CreateNewRoot(s, node) ==
  LET root == BranchPage(<<Entry(NoKey, s.tree.root), node>>)
  IN [AllocatePage(s, root) EXCEPT !.tree.root = NewPageNo(s), !.tree.height = @ + 1]

\* In a parent the new entry goes behind the one the path came through.
InsertNode(s, path, node) ==
  LET Spot(l) == IF l = Len(path) THEN path[l] ELSE [path[l] EXCEPT !.i = @ + 1]
      up[n \in 0 .. Len(path)] ==
        IF n = 0 THEN [s |-> s, node |-> node]
        ELSE InsertLevel(up[n - 1], Spot(Len(path) - n + 1))
      top == up[Len(path)]
  IN IF top.node = NoNode THEN top.s ELSE CreateNewRoot(top.s, top.node)

CreateRoot(s, node) ==
  [AllocatePage(s, LeafPage(<<node>>)) EXCEPT
     !.tree = [root |-> NewPageNo(s), height |-> 1, items |-> 1, leaves |-> 1]]

\* updateNode: the old value's overflow pages are freed first; a node that
\* outgrew its page is removed and inserted again.
UpdateNode(s, path, node) ==
  LET t    == Touch(s, path)
      at   == Last(t.path)
      old  == NodeAt(t.s, t.path)
      f    == FreeOverflow(t.s, old)
      es   == f.pg[at.p].ents
  IN IF Fits(ReplaceAt(es, at.i, node)) THEN SetEnts(f, at.p, ReplaceAt(es, at.i, node))
     ELSE InsertNode(SetEnts(f, at.p, RemoveAt(es, at.i)), t.path, node)

\* Cursor.put behind the positioning.
PutAt(s, path, k, v) ==
  LET exact == Found(s, path, k)
      old   == NodeAt(s, path)
      built == IF IsBig(k, v) THEN AllocateOverflow(s, v) ELSE s
      node  == IF IsBig(k, v) THEN BigNode(k, s.alloc, NumPages(v)) ELSE InlineNode(k, v)
      t     == Touch(built, path)
  IN IF exact /\ IsBig(k, v) /\ old.ovf # NoPage /\ NumPages(v) <= old.n
     THEN LET u  == Touch(UpdateOverflowInPlace(s, old, v), path)
              at == Last(u.path)
              es == u.s.pg[at.p].ents
          IN SetEnts(u.s, at.p, ReplaceAt(es, at.i, [es[at.i] EXCEPT !.n = NumPages(v)]))
     ELSE IF exact THEN UpdateNode(built, path, node)
     ELSE IF s.tree.root = NoPage THEN CreateRoot(built, node)
     ELSE InsertNode([t.s EXCEPT !.tree.items = @ + 1], t.path, node)

------------------------------------------------------------------------------
(* Deletion.                                                               *)

\* Mutant: a collapsing root frees its last child instead of itself.
FreeLastChild(s, path) ==
  LET up    == path[Len(path) - 1]
      es    == s.pg[up.p].ents
      rest  == RemoveAt(es, up.i)
      gone  == [FreePage(s, Last(path).p) EXCEPT !.tree.leaves = @ - 1]
      kept  == Write(gone, up.p, [gone.pg[up.p] EXCEPT
                 !.ents = rest, !.stale = IF rest = <<>> THEN es[up.i].child ELSE @])
  IN IF up.i \notin DOMAIN es THEN Failed(gone)
     ELSE IF Len(path) > 2 \/ Len(rest) > 1 THEN kept
     ELSE IF rest = <<>>
     THEN [FreePage(kept, up.p) EXCEPT !.tree.root = NoPage, !.tree.height = 0]
     ELSE [FreePage(kept, rest[1].child) EXCEPT
             !.tree.root = rest[1].child, !.tree.height = @ - 1]

\* freeEmptyPage: the parent loses its entry.  An empty root goes, a root
\* with one child gives way to it, any other empty branch page stays.
FreeEmptyPage(s, path) ==
  LET up    == path[Len(path) - 1]
      es    == s.pg[up.p].ents
      rest  == RemoveAt(es, up.i)
      gone  == [FreePage(s, Last(path).p) EXCEPT !.tree.leaves = @ - 1]
      kept  == Write(gone, up.p, [gone.pg[up.p] EXCEPT
                 !.ents = rest, !.stale = IF rest = <<>> THEN es[up.i].child ELSE @])
  IN IF up.i \notin DOMAIN es THEN Failed(gone)
     ELSE IF Len(path) > 2 \/ Len(rest) > 1 THEN kept
     ELSE IF rest = <<>>
     THEN [FreePage(kept, up.p) EXCEPT !.tree.root = NoPage, !.tree.height = 0]
     ELSE [FreePage(kept, up.p) EXCEPT !.tree.root = rest[1].child, !.tree.height = @ - 1]

\* delNode at the end of a path.
DelNode(s, path) ==
  LET t    == Touch(s, path)
      at   == Last(t.path)
      f    == FreeOverflow(t.s, NodeAt(t.s, t.path))
      rest == RemoveAt(f.pg[at.p].ents, at.i)
      cut  == [SetEnts(f, at.p, rest) EXCEPT !.tree.items = @ - 1]
  IN IF rest # <<>> THEN cut
     ELSE IF Len(path) = 1
     THEN [FreePage(cut, at.p) EXCEPT
             !.tree.root = NoPage, !.tree.height = 0, !.tree.leaves = 0]
     ELSE FreeEmptyPage(cut, t.path)

------------------------------------------------------------------------------
(* Transactions.                                                           *)

Init ==
  /\ committed = [tree |-> EmptyTree, alloc |-> 1,
                  map |-> EmptyMap, pages |-> <<>>]
  /\ disk = <<>>
  /\ w = Fresh(disk, committed)
  /\ writing = FALSE
  /\ live = EmptyMap
  /\ snap = [r \in Readers |-> NoSnap]
  /\ txns = 0 /\ calls = 0

BeginWrite ==
  /\ ~writing /\ txns < MaxTxns
  /\ writing' = TRUE
  /\ txns' = txns + 1
  /\ w' = Fresh(disk, committed)
  /\ live' = committed.map
  /\ UNCHANGED <<disk, committed, snap, calls>>

\* What a call on the tree leaves; with WriteMap readers see it at once.
\* A call that failed keeps the contents promised before.
Works(s, map) ==
  /\ writing /\ ~w.failed
  /\ calls < MaxCalls /\ s # w
  /\ calls' = calls + 1
  /\ w' = s
  /\ disk' = IF WriteMap THEN s.pg ELSE disk
  /\ live' = IF s.failed THEN live ELSE map
  /\ UNCHANGED <<writing, committed, snap, txns>>

Put(k, v) == Works(PutAt(w, Path(w, k), k, v), [live EXCEPT ![k] = v])

\* With the Append flag a key before the last one is refused.
PutAppend(k, v) ==
  /\ w.tree.root # NoPage => Last(w.pg[Last(AppendPath(w, k)).p].ents).k <= k
  /\ Works(PutAt(w, AppendPath(w, k), k, v), [live EXCEPT ![k] = v])

Del(k) ==
  /\ Found(w, Path(w, k), k)
  /\ w.tree.height <= MaxDelHeight
  /\ Works(DelNode(w, Path(w, k)), [live EXCEPT ![k] = NoVal])

\* writeDirtyPages, then the meta page with the tree and Geometry.Now.
Commit ==
  /\ writing /\ ~w.failed
  /\ writing' = FALSE
  /\ disk' = w.pg
  /\ committed' = [tree |-> w.tree, alloc |-> w.alloc,
                   map |-> live, pages |-> PagesOf(w)]
  /\ w' = Fresh(disk', committed')
  /\ UNCHANGED <<live, snap, txns, calls>>

\* abortInternal drops the dirty pages; what went to the map stays there.
Abort ==
  /\ writing
  /\ writing' = FALSE
  /\ w' = Fresh(disk, committed)
  /\ live' = committed.map
  /\ UNCHANGED <<disk, committed, snap, txns, calls>>

BeginRead(r) ==
  /\ snap[r] = NoSnap
  /\ snap' = [snap EXCEPT ![r] = committed]
  /\ UNCHANGED <<w, writing, disk, committed, live, txns, calls>>

EndRead(r) ==
  /\ snap[r] # NoSnap
  /\ snap' = [snap EXCEPT ![r] = NoSnap]
  /\ UNCHANGED <<w, writing, disk, committed, live, txns, calls>>

Next ==
  \/ BeginWrite \/ Commit \/ Abort
  \/ \E pair \in Puts : Put(pair[1], pair[2]) \/ PutAppend(pair[1], pair[2])
  \/ \E k \in Keys : Del(k)
  \/ \E r \in Readers : BeginRead(r) \/ EndRead(r)

Spec == Init /\ [][Next]_vars

------------------------------------------------------------------------------
(* Properties.                                                             *)

\* Every variable holds what the program can hold: page numbers are below
\* the end of the file, counters are not negative.
TypeOK ==
  /\ w.dirty \subseteq 1 .. w.alloc - 1
  /\ w.free \in Seq(1 .. w.alloc - 1)
  /\ 1 .. w.alloc - 1 \subseteq DOMAIN w.pg
  /\ w.tree.root \in {NoPage} \cup DOMAIN w.pg
  /\ w.tree.height \in Nat /\ w.tree.items \in Nat /\ w.tree.leaves \in Nat
  /\ w.failed \in BOOLEAN /\ writing \in BOOLEAN
  /\ live \in [Keys -> Vals \cup {NoVal}]
  /\ \A r \in Readers : snap[r] # NoSnap => snap[r].map \in [Keys -> Vals \cup {NoVal}]

\* After any sequence of puts and deletes, through splits, freed pages and
\* collapsed roots, Get finds exactly the values last put, and First with
\* Next visits exactly those keys, in order.
TreeHoldsTheMap ==
  ~w.failed =>
    /\ \A k \in Keys : Get(w, k) = live[k]
    /\ Walk(w) = SetToSortSeq({k \in Keys : live[k] # NoVal}, <)

\* No put or delete of a key of legal length ends with ErrPageFull or
\* ErrCorrupted (splitAndInsert, freeEmptyPage).
CallsSucceed == ~w.failed

Held == {committed} \cup ({snap[r] : r \in Readers} \ {NoSnap})

\* What a reader's snapshot, or the last commit while the writer works or
\* after it aborted, is made of stays as it was committed: the writer
\* changes copies (touchPageAt) and new pages only.
SnapshotsAreImmutable ==
  \A c \in Held : \A p \in DOMAIN c.pages : disk[p] = c.pages[p]

\* The same of branch and leaf pages alone, whatever happens to overflow
\* pages: a snapshot's keys and its inline values stay.
SnapshotTreesAreImmutable ==
  \A c \in Held : \A p \in DOMAIN c.pages : c.pages[p].type # "large" => disk[p] = c.pages[p]

\* The free list holds only pages of no use, each once.
FreePagesAreUnused ==
  ~w.failed =>
    /\ TreePages(w) \cap OverflowPages(w) = {}
    /\ IsInjective(w.free)
    /\ ToSet(w.free) \cap (TreePages(w) \cup OverflowPages(w)) = {}

\* No page has two parents, no overflow page two values, and no free page
\* any use.
PagesAreUsedOnce ==
  LET tree == TreePages(w)
      branches == {p \in tree : w.pg[p].type = "branch"}
      Total(S, n(_)) == FoldSet(LAMBDA x, sum : n(x) + sum, 0, S)
  IN /\ FreePagesAreUnused
     /\ ~w.failed =>
          /\ tree # {} => Cardinality(tree) = 1 + Total(branches, LAMBDA p : Len(w.pg[p].ents))
          /\ Cardinality(OverflowPages(w)) = Total(BigNodes(w), LAMBDA node : node.n)

\* Height, by which Next and Prev count their descent (descendLeft), is the
\* depth of every leaf.
HeightIsDepth == ~w.failed => \A k \in Keys : Len(Path(w, k)) = w.tree.height

\* Height and LeafPages are what the tree has.
ShapeIsCounted == HeightIsDepth /\ (~w.failed => w.tree.leaves = Len(Leaves(w)))
==============================================================================
