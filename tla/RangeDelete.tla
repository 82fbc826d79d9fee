----------------------------- MODULE RangeDelete -----------------------------
(***************************************************************************)
(* Txn.DeleteRange (range_delete.go) on the tree of BTree: whole subtrees  *)
(* inside the range are freed without a visit to their entries, the pages  *)
(* at its two ends are copied and cut, emptied pages leave their parents,  *)
(* and the root gives way to a single child.  Keys are numbers, and the    *)
(* bound NoKey stands for a nil from or to.                                *)
(***************************************************************************)
EXTENDS BTree

NoBound == NoKey
BeforeEnd(k, to) == to = NoBound \/ k < to
InRange(k, from, to) == k >= from /\ BeforeEnd(k, to)

\* What a call on one page leaves: the store, the page that takes its place
\* (NoPage if all of it went) and the number of entries deleted.
Left(s, page, n) == [s |-> s, page |-> page, n |-> n]

OverflowOf(node) ==
  IF node.ovf = NoPage THEN <<>> ELSE [j \in 1 .. node.n |-> node.ovf + j - 1]
OverflowIn(page, S) ==
  FlattenSeq([i \in DOMAIN page.ents |-> IF i \in S THEN OverflowOf(page.ents[i]) ELSE <<>>])

\* drFreeSubtreeRecursive and drFreeTreeRecursive: children before parents,
\* the overflow pages of a leaf before the leaf.
SubtreePages(s, root) ==
  LET pages[p \in DOMAIN s.pg] ==
        LET page == s.pg[p]
        IN Append(IF page.type = "leaf" THEN OverflowIn(page, DOMAIN page.ents)
                  ELSE FlattenSeq([i \in DOMAIN page.ents |-> pages[page.ents[i].child]]), p)
  IN pages[root]

FreeSubtree(s, root) ==
  LET sub    == [s EXCEPT !.tree.root = root]
      leaves == ToSet(Leaves(sub))
  IN Left([s EXCEPT !.free = @ \o SubtreePages(s, root),
                    !.tree.leaves = @ - Cardinality(leaves)],
          NoPage, FoldSet(LAMBDA p, sum : sum + Len(s.pg[p].ents), 0, leaves))

\* drCowPage; a page of this transaction is changed where it is.
CowPage(s, p) ==
  IF p \in s.dirty THEN Left(s, p, 0)
  ELSE Left([Write(s, s.alloc, s.pg[p]) EXCEPT !.alloc = @ + 1], s.alloc, 0)

RECURSIVE DeleteInPage(_, _, _, _, _)

\* drDeleteInLeaf.
DeleteInLeaf(s, p, from, to) ==
  LET es   == s.pg[p].ents
      gone == {i \in DOMAIN es : InRange(es[i].k, from, to)}
      cow  == CowPage(s, p)
      freed == [cow.s EXCEPT !.free = @ \o OverflowIn(s.pg[p], gone)]
      rest == SelectSeq(es, LAMBDA node : ~InRange(node.k, from, to))
  IN IF gone = {} THEN Left(s, p, 0)
     ELSE IF rest = <<>>
     THEN Left([FreePage(freed, cow.page) EXCEPT !.tree.leaves = @ - 1], NoPage, Len(es))
     ELSE Left([freed EXCEPT !.pg[cow.page].ents = rest], cow.page, Cardinality(gone))

\* Mutant: an inner child is taken for contained by its upper key alone.
ContainedByUpper(es, i, from, to) ==
  IF i < Len(es) THEN BeforeEnd(es[i + 1].k - 1, to) ELSE to = NoBound
\* drIsChildFullyContained: child i holds keys from its own to the next one's.
FullyContained(es, i, from, to) ==
  /\ es[i].k >= from
  /\ IF i < Len(es) THEN BeforeEnd(es[i + 1].k - 1, to) ELSE to = NoBound

\* drDeleteInBranch: the children at the ends of the range first, each with
\* the bound that cuts it; then the page is copied, the contained children
\* are freed and the entries of freed children removed.
DeleteInBranch(s, p, height, from, to) ==
  LET es    == s.pg[p].ents
      n     == Len(es)
      start == Max({1} \cup {i \in 1 .. n : es[i].k <= from})
      end   == Max({0} \cup {i \in 1 .. n : BeforeEnd(es[i].k, to)})
      Whole(i) == FullyContained(es, i, from, to)
      Cut(a, i) ==
        IF Whole(i) THEN a
        ELSE LET r == DeleteInPage(a.s, es[i].child, height - 1,
                                   IF i = start THEN from ELSE NoBound,
                                   IF i = end THEN to ELSE NoBound)
             IN [s |-> r.s, child |-> [a.child EXCEPT ![i] = r.page], n |-> a.n + r.n]
      ends  == FoldLeft(Cut, [s |-> s, child |-> [i \in 1 .. n |-> es[i].child], n |-> 0],
                        [j \in 1 .. end - start + 1 |-> start + j - 1])
      cow   == CowPage(ends.s, p)
      Free(a, i) ==
        IF ~Whole(i) THEN a
        ELSE LET r == FreeSubtree(a.s, es[i].child)
             IN [s |-> r.s, child |-> [a.child EXCEPT ![i] = NoPage], n |-> a.n + r.n]
      all   == FoldLeft(Free, [ends EXCEPT !.s = cow.s],
                        [j \in 1 .. end - start + 1 |-> start + j - 1])
      kept  == SelectSeq([i \in 1 .. n |-> Entry(es[i].k, all.child[i])],
                         LAMBDA node : node.child # NoPage)
  IN IF n = 0 \/ start > end
        \/ (ends.n = 0 /\ \A i \in start .. end : ~Whole(i) /\ ends.child[i] = es[i].child)
     THEN Left(s, p, 0)
     ELSE IF kept = <<>> THEN Left(FreePage(all.s, cow.page), NoPage, all.n)
     ELSE Left([all.s EXCEPT !.pg[cow.page].ents = kept], cow.page, all.n)

DeleteInPage(s, p, height, from, to) ==
  IF height = 1 THEN DeleteInLeaf(s, p, from, to)
  ELSE DeleteInBranch(s, p, height, from, to)

\* Mutant: the child that takes the root's place is freed, not the root.
CollapseToFreed(s) ==
  IF s.tree.height > 1 /\ s.tree.root # NoPage /\ Len(s.pg[s.tree.root].ents) = 1
  THEN [FreePage(s, s.pg[s.tree.root].ents[1].child) EXCEPT
          !.tree.root = s.pg[s.tree.root].ents[1].child, !.tree.height = @ - 1]
  ELSE s
\* One turn of the loop that collapses the tree.
Collapse(s) ==
  IF s.tree.height > 1 /\ s.tree.root # NoPage /\ Len(s.pg[s.tree.root].ents) = 1
  THEN [FreePage(s, s.tree.root) EXCEPT
          !.tree.root = s.pg[s.tree.root].ents[1].child, !.tree.height = @ - 1]
  ELSE s

\* An empty root page goes too.
DropEmptyRoot(s) ==
  IF s.tree.root # NoPage /\ s.pg[s.tree.root].ents = <<>>
  THEN [FreePage(s, s.tree.root) EXCEPT !.tree.root = NoPage, !.tree.height = 0] ELSE s

DeleteRange(s, from, to) ==
  LET r    == DeleteInPage(s, s.tree.root, s.tree.height, from, to)
      cut  == [r.s EXCEPT !.tree.root = r.page, !.tree.items = @ - r.n]
      low  == FoldLeft(LAMBDA t, l : Collapse(t), cut, [l \in 1 .. s.tree.height |-> l])
  IN IF s.tree.root = NoPage THEN s
     ELSE IF from = NoBound /\ to = NoBound
     THEN [s EXCEPT !.free = @ \o SubtreePages(s, s.tree.root), !.tree = EmptyTree]
     ELSE IF (to # NoBound /\ from >= to) \/ (r.n = 0 /\ r.page = s.tree.root) THEN s
     ELSE DropEmptyRoot(low)
==============================================================================
