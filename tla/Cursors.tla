------------------------------- MODULE Cursors -------------------------------
(***************************************************************************)
(* Cursors on the tree of BTree (cursor.go and the cursor's part of        *)
(* cursor_modify.go): the stack of pages and indices a cursor keeps, its   *)
(* moves, what it does when another cursor changed the tree under it       *)
(* (refreshPage, refreshStackFromRoot), and Del and Put through it.  Every *)
(* read transaction has one cursor on its snapshot; the write transaction  *)
(* has one beside the cached cursor that Txn.Del works with.  A client's   *)
(* view of a cursor is that of MapCursor: a place between the keys of a    *)
(* map.                                                                    *)
(***************************************************************************)
EXTENDS RangeDelete

CONSTANTS
  Writer,       \* owner of the write transaction's cursor
  Levels,       \* bound on the height of trees
  Preloads,     \* the keys of the first commit, in the order of their insertion
  Value,        \* the value of all keys
  Clients       \* what clients do: the moves of the writer's and of readers'
                \* cursors, the calls by which the writer changes the tree, and
                \* whether its relative moves follow a put without a seek

Map == INSTANCE MapCursor

ASSUME CursorAssumption ==
  /\ Writer \notin Readers
  /\ Levels \in Nat \ {0}
  /\ Preloads \subseteq Seq(Keys) /\ Value \in Vals
  /\ Clients \subseteq [moves : SUBSET Map!Moves, reads : SUBSET Map!Moves,
                       changes : SUBSET {"Cursor.Del", "Txn.Del", "Cursor.Put",
                                         "Txn.DeleteRange"},
                       moveAfterPut : BOOLEAN]

VARIABLES
  cur,     \* every owner's cursor
  client,  \* what its client knows of it, see MapCursor
  habits   \* the one of Clients the program has

cursorVars == <<vars, cur, client, habits>>

Owners == Readers \cup {Writer}

\* A cursor as OpenCursor hands it out.
Opened(readOnly) ==
  [state |-> "new", top |-> 0, after |-> FALSE, dirty |-> {}, ro |-> readOnly,
   p |-> [l \in 1 .. Levels |-> NoPage], i |-> [l \in 1 .. Levels |-> 1],
   exp |-> [l \in 1 .. Levels |-> 0], ret |-> NoKey]

NotFound(c) == [c EXCEPT !.ret = NoKey]
AtEOF(c)    == [c EXCEPT !.ret = NoKey, !.state = "eof"]

------------------------------------------------------------------------------
(* The stack.                                                              *)

\* currentPage, getChildPgno and popPage.
Current(s, c)  == s.pg[c.p[c.top]]
Entries(s, c)  == Current(s, c).ents
OnBranch(s, c) == Current(s, c).type = "branch"
Child(s, c)    == ChildAt(Current(s, c), c.i[c.top])
Pop(c)         == [c EXCEPT !.top = @ - 1]

\* A page entered without a word about its dirtiness or its entries.
Enter(c, p, i) ==
  [c EXCEPT !.top = @ + 1, !.p[c.top + 1] = p, !.i[c.top + 1] = i]

\* pushPageByPgno.
Push(s, c, p, i) ==
  LET l == c.top + 1
  IN [Enter(c, p, i) EXCEPT
        !.exp[l] = Len(s.pg[p].ents),
        !.dirty  = IF ~c.ro /\ p \in s.dirty THEN @ \cup {l} ELSE @ \ {l}]

\* reset; the expected counts stay.
Reset(c) == [c EXCEPT !.top = 0, !.state = "new", !.after = FALSE, !.dirty = {}]

\* How first, last and search enter the root.
EnterRoot(s, c, i) ==
  [Enter(Reset(c), s.tree.root, i) EXCEPT !.exp[1] = Len(s.pg[s.tree.root].ents)]

\* refreshStackFromRoot: down from the new root by the old indices; fewer
\* entries than expected around an index mean it names the next entry now.
RefreshStack(s, c) ==
  LET n    == Len(s.pg[s.tree.root].ents)
      Kept(l, len) == IF c.i[l] <= len THEN c.i[l] ELSE IF len = 0 THEN 1 ELSE len
      Cut(l, len)  == len < c.exp[l] /\ c.i[l] <= len
      root == [c EXCEPT !.top = 1, !.p[1] = s.tree.root, !.dirty = {}, !.exp[1] = n]
      Down(a, l) ==
        IF ~OnBranch(s, a) \/ a.i[a.top] \notin DOMAIN Entries(s, a) THEN a
        ELSE LET len == Len(s.pg[Child(s, a)].ents)
             IN [Push(s, a, Child(s, a), Kept(l, len)) EXCEPT !.after = @ \/ Cut(l, len)]
  IN IF c.top = 0 \/ s.tree.root = NoPage THEN [c EXCEPT !.state = "eof"]
     ELSE IF n = 0 THEN [root EXCEPT !.i[1] = 1, !.state = "eof"]
     ELSE IF c.top > 1 /\ ~OnBranch(s, root) THEN [root EXCEPT !.i[1] = 1, !.after = TRUE]
     ELSE FoldLeft(Down, [root EXCEPT !.i[1] = Kept(1, n), !.after = @ \/ Cut(1, n)],
                   [l \in 1 .. c.top - 1 |-> l + 1])

\* Fewer entries than expected on the page: the index names the next one.
Recount(s, c) ==
  LET n == Len(Entries(s, c))
  IN IF n >= c.exp[c.top] THEN c
     ELSE [c EXCEPT !.after = @ \/ c.i[c.top] <= n, !.exp[c.top] = n]

\* Mutant: a page with fewer entries is taken for an unchanged one.
RefreshRootOnly(s, c) ==
  IF c.ro \/ c.top = 0 THEN c
  ELSE IF c.p[1] # s.tree.root THEN RefreshStack(s, c) ELSE c
\* refreshPage: what another cursor of the transaction did to the page.
Refresh(s, c) ==
  IF c.ro \/ c.top = 0 THEN c
  ELSE Recount(s, IF c.p[1] # s.tree.root THEN RefreshStack(s, c) ELSE c)

------------------------------------------------------------------------------
(* Moves.                                                                  *)

\* getCurrent.
EntryAt(s, c) ==
  IF c.i[c.top] \notin DOMAIN Entries(s, c) THEN NotFound(c)
  ELSE [c EXCEPT !.ret = Entries(s, c)[c.i[c.top]].k]
GetCurrent(s, c) ==
  IF c.state # "at" \/ c.top = 0 THEN NotFound(c) ELSE EntryAt(s, Refresh(s, c))

\* After a deletion the cursor is already at its next entry.
Arrived(s, c) == GetCurrent(s, [c EXCEPT !.after = FALSE])

RECURSIVE FirstLeaf(_, _), LastLeaf(_, _), SearchLeaf(_, _, _)
FirstLeaf(s, c) ==
  IF OnBranch(s, c) THEN FirstLeaf(s, Push(s, c, Child(s, c), 1)) ELSE c
LastLeaf(s, c) ==
  LET l == c.top + 1
      n == Len(s.pg[Child(s, c)].ents)
  IN IF OnBranch(s, c) THEN LastLeaf(s, [Enter(c, Child(s, c), n) EXCEPT !.exp[l] = n])
     ELSE c
SearchLeaf(s, c, k) ==
  LET a == [c EXCEPT !.i[c.top] = SearchPage(Current(s, c), k)]
  IN IF OnBranch(s, a) THEN SearchLeaf(s, Push(s, a, Child(s, a), 1), k) ELSE a

First(s, c) ==
  LET leaf == FirstLeaf(s, EnterRoot(s, c, 1))
  IN IF s.tree.root = NoPage THEN AtEOF(Reset(c))
     ELSE IF Entries(s, leaf) = <<>> THEN AtEOF(leaf)
     ELSE GetCurrent(s, [leaf EXCEPT !.state = "at"])

LastKey(s, c) ==
  LET leaf == LastLeaf(s, EnterRoot(s, c, Len(s.pg[s.tree.root].ents)))
  IN IF s.tree.root = NoPage THEN AtEOF(Reset(c))
     ELSE GetCurrent(s, [leaf EXCEPT !.state = "at"])

Below(s, c) == [l \in 1 .. s.tree.height - c.top |-> l]

\* descendLeft counts the levels by the tree's height.
DescendLeft(s, c) ==
  GetCurrent(s, FoldLeft(LAMBDA a, l : Push(s, a, Child(s, a), 1), c, Below(s, c)))

\* descendRight and descendRightFast enter their pages without
\* pushPageByPgno; the fast one reads its entry without a refresh.
DescendRight(s, c, fast) ==
  LET a == FoldLeft(LAMBDA b, l : Enter(b, Child(s, b), Len(s.pg[Child(s, b)].ents)),
                    c, Below(s, c))
  IN IF fast THEN [a EXCEPT !.ret = Last(Entries(s, a)).k] ELSE GetCurrent(s, a)

RECURSIVE Forward(_, _, _), Backward(_, _, _)

\* One level of the loops of moveNext and nextNoDup, on a refreshed page;
\* nextNoDup looks at afterDelete on its way up.
StepForward(s, c, noDup) ==
  LET next == IF noDup /\ c.after THEN [c EXCEPT !.after = FALSE]
              ELSE [c EXCEPT !.i[c.top] = @ + 1]
  IN IF ~(noDup /\ c.after) /\ c.i[c.top] >= Len(Entries(s, c))
     THEN Forward(s, Pop(c), noDup)
     ELSE IF OnBranch(s, c) THEN DescendLeft(s, next) ELSE GetCurrent(s, next)

\* The loops; the top is 0 when the entries end.
Forward(s, c, noDup) ==
  IF c.top = 0 THEN NotFound(c) ELSE StepForward(s, Refresh(s, c), noDup)

\* The loops of movePrev and prevNoDup.
StepBackward(s, c, noDup) ==
  LET prev == [c EXCEPT !.i[c.top] = @ - 1]
  IN IF c.i[c.top] = 1 THEN Backward(s, Pop(c), noDup)
     ELSE IF OnBranch(s, c) THEN DescendRight(s, prev, noDup) ELSE GetCurrent(s, prev)

Backward(s, c, noDup) ==
  IF c.top = 0 THEN AtEOF(c) ELSE StepBackward(s, Refresh(s, c), noDup)

\* Mutant: the stack stays popped.
OrPopped(c, from) == c
\* moveNext at the last entry: the cursor stays where it is.
OrStay(c, from) == IF c.top = 0 THEN [c EXCEPT !.top = from.top, !.i = from.i] ELSE c
OrEOF(c) == IF c.top = 0 THEN AtEOF(c) ELSE c

\* moveNext and nextNoDup from a refreshed page.
NextFrom(s, c, noDup) ==
  IF c.after THEN Arrived(s, c)
  ELSE IF noDup THEN OrEOF(Forward(s, c, TRUE))
  ELSE OrStay(Forward(s, c, FALSE), c)

Onward(s, c, noDup) ==
  IF c.state = "new" THEN First(s, c)
  ELSE IF c.state # "at" THEN NotFound(c)
  ELSE NextFrom(s, Refresh(s, c), noDup)
MoveNext(s, c)  == Onward(s, c, FALSE)
NextNoDup(s, c) == Onward(s, c, TRUE)

MovePrev(s, c) ==
  IF c.state \in {"new", "eof"} THEN LastKey(s, c)
  ELSE IF c.after THEN Arrived(s, c)
  ELSE Backward(s, c, FALSE)

PrevNoDup(s, c) ==
  IF c.state = "new" THEN LastKey(s, c)
  ELSE IF c.state = "eof" THEN NotFound(c)
  ELSE Backward(s, Refresh(s, c), TRUE)

\* Mutant: a seek does not look behind the leaf it comes to.
SoughtHere(s, c, k, orGreater) ==
  LET n == Len(Entries(s, c))
      i == c.i[c.top]
  IN IF i <= n /\ (orGreater \/ Entries(s, c)[i].k = k)
     THEN GetCurrent(s, [c EXCEPT !.state = "at"])
     ELSE AtEOF(c)
\* search at the leaf it comes to.
Sought(s, c, k, orGreater) ==
  LET n == Len(Entries(s, c))
      i == c.i[c.top]
  IN IF i <= n /\ (orGreater \/ Entries(s, c)[i].k = k)
     THEN GetCurrent(s, [c EXCEPT !.state = "at"])
     ELSE IF i <= n \/ ~orGreater THEN AtEOF(c)
     ELSE MoveNext(s, [c EXCEPT !.state = "at", !.i[c.top] = IF n = 0 THEN @ ELSE n])

\* search, for Set and SetKey (exact) and SetRange.
Search(s, c, k, orGreater) ==
  IF s.tree.root = NoPage THEN AtEOF(Reset(c))
  ELSE Sought(s, SearchLeaf(s, EnterRoot(s, c, 1), k), k, orGreater)

Beyond(s, c, k) == IF c.ret = k THEN MoveNext(s, c) ELSE c
SetUpperbound(s, c, k) == Beyond(s, Search(s, c, k, TRUE), k)

\* Cursor.Get; SetLowerbound of a database without duplicates is SetRange.
Move(s, c, op, k) ==
  CASE op = "First"         -> First(s, c)
    [] op = "Last"          -> LastKey(s, c)
    [] op = "Next"          -> MoveNext(s, c)
    [] op = "Prev"          -> MovePrev(s, c)
    [] op = "NextNoDup"     -> NextNoDup(s, c)
    [] op = "PrevNoDup"     -> PrevNoDup(s, c)
    [] op = "GetCurrent"    -> GetCurrent(s, c)
    [] op = "Set"           -> Search(s, c, k, FALSE)
    [] op = "SetRange"      -> Search(s, c, k, TRUE)
    [] op = "SetUpperbound" -> SetUpperbound(s, c, k)


------------------------------------------------------------------------------
(* Changes through a cursor.                                               *)

PathOf(c) == [l \in 1 .. c.top |-> [p |-> c.p[l], i |-> c.i[l]]]

\* touchPageAt: a level whose dirty bit is set is taken as it is, and the
\* copying starts below the lowest such level above it.
TouchUpTo(s, c, level) ==
  LET start == Max({0} \cup {l \in c.dirty : l < level}) + 1
      Touch1(a, l) ==
        LET p   == a.c.p[l]
            new == a.s.alloc
            copy == [Write(a.s, new, a.s.pg[p]) EXCEPT !.alloc = new + 1]
            up  == PathOf(a.c)[l - 1]
            seen == [a EXCEPT !.c.dirty = @ \cup {l}]
        IN IF p \in a.s.dirty THEN seen
           ELSE [s |-> IF l = 1 THEN [copy EXCEPT !.tree.root = new]
                       ELSE UpdateChild(copy, up, new),
                 c |-> [seen.c EXCEPT !.p[l] = new]]
  IN IF level \in c.dirty THEN [s |-> s, c |-> c]
     ELSE FoldLeft(Touch1, [s |-> s, c |-> c], [j \in 1 .. level - start + 1 |-> start + j - 1])

\* What freeEmptyPage and the rest of delNode make of the cursor: it goes to
\* the entry behind the freed page's, or to the last one left.
AfterFree(s, c) ==
  LET n == Len(Entries(s, c))
      a == IF c.p[1] # s.tree.root THEN Push(s, [c EXCEPT !.top = 0], s.tree.root, 1)
           ELSE [c EXCEPT !.i[c.top] = IF @ > n /\ n > 0 THEN n ELSE @]
  IN IF s.tree.root = NoPage \/ n = 0 THEN [c EXCEPT !.state = "eof", !.after = FALSE]
     ELSE [IF OnBranch(s, a) THEN DescendLeft(s, a) ELSE a EXCEPT !.after = TRUE]

\* Cursor.Del: delNode with freeEmptyPage, on a database without duplicates.
\* A page changed in place stays as dirty as the tracker had it.
CursorDel(s, c) ==
  LET t    == TouchUpTo(s, c, c.top)
      at   == t.c.p[c.top]
      i    == t.c.i[c.top]
      rest == RemoveAt(t.s.pg[at].ents, i)
      cut  == [t.s EXCEPT !.pg[at].ents = rest, !.tree.items = @ - 1]
      up   == TouchUpTo(cut, Pop(t.c), c.top - 1)
      free == [FreeEmptyPage(up.s, Append(PathOf(up.c), [p |-> at, i |-> i]))
                 EXCEPT !.dirty = up.s.dirty]
  IN IF i \notin DOMAIN t.s.pg[at].ents THEN [s |-> Failed(t.s), c |-> t.c]
     ELSE IF rest # <<>> THEN [s |-> cut, c |-> [t.c EXCEPT !.after = i <= Len(rest)]]
     ELSE IF c.top = 1
     THEN [s |-> [FreePage(cut, at) EXCEPT
                    !.tree.root = NoPage, !.tree.height = 0, !.tree.leaves = 0],
           c |-> [t.c EXCEPT !.state = "eof", !.after = FALSE]]
     ELSE [s |-> free, c |-> AfterFree(free, up.c)]

\* The cursor after a put, from the tree before and after it and the path as
\* it was touched: every page that split is popped.
AfterPut(c, old, new, path, exact) ==
  LET splits == new.leaves - old.leaves + new.items - old.items - (IF exact THEN 0 ELSE 1)
      depth  == Len(path)
      a      == [Reset(c) EXCEPT !.state = "at"]
  IN IF path = <<>> THEN Enter(a, new.root, 1)
     ELSE [a EXCEPT !.top   = Max({1, depth - splits}),
                    !.dirty = 1 .. depth,
                    !.p = [l \in DOMAIN @ |-> IF l <= depth THEN path[l].p ELSE @[l]],
                    !.i = [l \in DOMAIN @ |-> IF l <= depth THEN path[l].i ELSE @[l]]]

\* Cursor.Put: searchForInsert counts no entries, and the path is touched.
CursorPut(s, c, k, v) ==
  LET path == Path(s, k)
      Result(done) ==
        [s |-> done, c |-> AfterPut(c, s.tree, done.tree, Touch(s, path).path, Found(s, path, k))]
  IN Result(PutAt(s, path, k, v))

------------------------------------------------------------------------------
(* Transactions, each with a cursor.                                       *)

\* What is above the top is never read again but the counts and dirty bits.
Settled(c) ==
  [c EXCEPT !.ret = NoKey,
            !.p = [l \in DOMAIN @ |-> IF l <= c.top THEN @[l] ELSE NoPage],
            !.i = [l \in DOMAIN @ |-> IF l <= c.top THEN @[l] ELSE 1]]

\* The first commit put its keys in a bare tree.
Preloaded(order) ==
  FoldLeft(LAMBDA s, k : PutAt(s, Path(s, k), k, Value),
           Fresh(<<>>, [tree |-> EmptyTree, alloc |-> 1]), order)

CursorInit ==
  /\ \E order \in Preloads :
       \E s \in {Preloaded(order)} :
          /\ committed = [tree |-> s.tree, alloc |-> s.alloc, pages |-> PagesOf(s),
                          map |-> [k \in Keys |-> IF k \in ToSet(order) THEN Value ELSE NoVal]]
          /\ disk = s.pg
  /\ w = Fresh(disk, committed)
  /\ writing = FALSE
  /\ live = committed.map
  /\ snap = [r \in Readers |-> NoSnap]
  /\ txns = 0 /\ calls = 0
  /\ habits \in Clients
  /\ cur = [o \in Owners |-> Opened(o # Writer)]
  /\ client = [o \in Owners |-> Map!New]

Open(o) ==
  /\ cur' = [cur EXCEPT ![o] = Opened(o # Writer)]
  /\ client' = [client EXCEPT ![o] = Map!New]
  /\ UNCHANGED habits

StoreOf(o) == IF o = Writer THEN w ELSE Fresh(disk, snap[o])
KeysOf(o)  == {k \in Keys : (IF o = Writer THEN live ELSE snap[o].map)[k] # NoVal}
Uses(o)    == IF o = Writer THEN writing ELSE snap[o] # NoSnap

\* Cursor.Get.
GetBy(o, op, k) ==
  /\ Uses(o)
  /\ \E moved \in {Move(StoreOf(o), cur[o], op, k)} :
        /\ cur' = [cur EXCEPT ![o] = Settled(moved)]
        /\ client' = [client EXCEPT ![o] = Map!After(@, op, k, KeysOf(o), moved.ret)]
  /\ UNCHANGED <<vars, habits>>

\* What a change leaves the client with: its key, but no answer.
Silent(v) == [v EXCEPT !.ret = Map!Nothing, !.want = Map!Nothing]

\* Cursor.Del of the entry the cursor is at.
DelBy(o) ==
  /\ "Cursor.Del" \in habits.changes
  /\ cur[o].state = "at" /\ cur[o].top > 0
  /\ client[o].state = "at" /\ client[o].at \in KeysOf(o)
  /\ w.tree.height <= MaxDelHeight
  /\ \E done \in {CursorDel(w, cur[o])} :
       /\ Works(done.s, [live EXCEPT ![client[o].at] = NoVal])
       /\ cur' = [cur EXCEPT ![o] = Settled(done.c)]
  /\ client' = [client EXCEPT ![o] = Silent(@)]
  /\ UNCHANGED habits

\* Txn.Del beside the cursor: of the key it is at, or while it is at none.
DelBeside(o, k) ==
  /\ "Txn.Del" \in habits.changes
  /\ client[o].state = "at" => k = client[o].at
  /\ Del(k)
  /\ client' = [client EXCEPT ![o] = Silent(@)]
  /\ UNCHANGED <<cur, habits>>

\* Txn.DeleteRange while the cursor is at no key.
DeleteRangeBeside(o, from, to) ==
  /\ "Txn.DeleteRange" \in habits.changes
  /\ client[o].state # "at"
  /\ Works(DeleteRange(w, from, to),
           [k \in Keys |-> IF InRange(k, from, to) THEN NoVal ELSE live[k]])
  /\ client' = [client EXCEPT ![o] = Silent(@)]
  /\ UNCHANGED <<cur, habits>>

\* Cursor.Put; a client that makes no relative moves afterwards counts on no
\* place.
PutBy(o, k) ==
  /\ "Cursor.Put" \in habits.changes
  /\ \E done \in {CursorPut(w, cur[o], k, Value)} :
       /\ Works(done.s, [live EXCEPT ![k] = Value])
       /\ cur' = [cur EXCEPT ![o] = Settled(done.c)]
  /\ client' = [client EXCEPT ![o] =
                  [Silent(@) EXCEPT !.state = IF habits.moveAfterPut THEN "at" ELSE "put",
                                    !.at = k]]
  /\ UNCHANGED habits

Seeks == {"Set", "SetRange", "SetUpperbound"}
MovesOf(o) ==
  LET ops == IF o = Writer THEN habits.moves ELSE habits.reads
  IN IF client[o].state = "put" THEN ops \ Map!Relative ELSE ops

CursorNext ==
  \/ (BeginWrite \/ Commit \/ Abort) /\ Open(Writer)
  \/ \E r \in Readers : (BeginRead(r) \/ EndRead(r)) /\ Open(r)
  \/ \E o \in Owners : \E op \in MovesOf(o) :
       \E k \in IF op \in Seeks THEN Keys ELSE {NoKey} : GetBy(o, op, k)
  \/ DelBy(Writer)
  \/ \E k \in Keys : DelBeside(Writer, k) \/ PutBy(Writer, k)
  \/ \E from, to \in Keys \cup {NoBound} : DeleteRangeBeside(Writer, from, to)

CursorSpec == CursorInit /\ [][CursorNext]_cursorVars

------------------------------------------------------------------------------
(* Properties.                                                             *)

\* A positioned cursor has a stack of pages from the root down and a client
\* that made a move.
CursorsOK ==
  \A o \in Owners :
    /\ cur[o].state \in {"new", "at", "eof"}
    /\ cur[o].top \in 0 .. Levels
    /\ cur[o].state = "at" => cur[o].top > 0
    /\ cur[o].dirty \subseteq 1 .. Levels
    /\ cur[o].state = "at" => client[o].state # "new"

\* Whatever the write transaction does, commits or aborts meanwhile, every
\* move on a read transaction's cursor gives the key the map of its snapshot
\* has there (Cursor.Get).
ReaderMovesAreExact == \A r \in Readers : client[r].ret = client[r].want

\* In a write transaction that deletes as it goes, through the cursor or with
\* Txn.Del of the key the cursor is at, a move gives the next key or at worst
\* an earlier one again: it skips no key and ends at no other place than the
\* end (moveNext, refreshPage, delNode).
WriterSkipsNothing ==
  LET v == client[Writer]
  IN v.ret = v.want \/ (v.ret # Map!Nothing /\ (v.want = Map!Nothing \/ v.ret < v.want))

\* Every move in a write transaction gives the key the map has there.
WriterMovesAreExact == client[Writer].ret = client[Writer].want
==============================================================================
