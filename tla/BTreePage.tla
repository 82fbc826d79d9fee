------------------------------ MODULE BTreePage ------------------------------
(***************************************************************************)
(* The pages of a B+tree as gdbx lays them out (node.go, page.go) and the  *)
(* decisions taken on one page: where a key belongs (Cursor.searchPage),   *)
(* whether an entry fits (page.insertEntry) and where a full page splits   *)
(* (page.splitPoint).  Lengths are counted in units of a node header with  *)
(* its entry pointer, so a page of Room units stands for the 4 076 bytes   *)
(* behind a page header.                                                   *)
(***************************************************************************)
EXTENDS Integers, Sequences, FiniteSets, SequencesExt

CONSTANTS
  Keys,     \* keys, numbers compared by <
  Vals,     \* values
  NoVal,    \* the answer of a search that finds nothing
  KeyLen,   \* length of every key
  ValLen,   \* length of every value
  Room      \* what the entries of one page may take together

NoKey  == 0    \* the key of a branch page's first entry is empty
NoPage == 0    \* invalidPgno

\* Env.MaxKeySize and Env.MaxValSize: two branch entries, and two leaf
\* entries with a shortest key, fit a page.
MaxKeyLen == Room \div 2 - 1
MaxValLen == Room \div 2 - 2

ASSUME LengthsAssumption ==
  /\ Keys \subseteq Nat \ {NoKey}
  /\ NoVal \notin Vals
  /\ Room \in Nat /\ Room >= 6
  /\ KeyLen \in [Keys -> 1 .. MaxKeyLen]
  /\ ValLen \in [Vals -> Nat]

\* A value too long for its leaf goes to overflow pages (put, isBig).
IsBig(k, v) == ValLen[v] > MaxValLen \/ 1 + KeyLen[k] + ValLen[v] > Room

\* The overflow pages a big value takes; that later pages have no header and
\* hold a little more than the first is left out (allocateOverflow).
NumPages(v) == (ValLen[v] + Room - 1) \div Room

\* A leaf node holds its value or the first and the number of its overflow
\* pages; a branch node holds a child.
InlineNode(k, v) == [k |-> k, v |-> v, ovf |-> NoPage, n |-> 0]
BigNode(k, p, n) == [k |-> k, v |-> NoVal, ovf |-> p, n |-> n]
Entry(k, p)      == [k |-> k, child |-> p]

LeafPage(es)   == [type |-> "leaf",   ents |-> es, stale |-> NoPage]
BranchPage(es) == [type |-> "branch", ents |-> es, stale |-> NoPage]
LargePage(v)   == [type |-> "large",  v |-> v]

\* calcNodeSizeFast, with the entry pointer: a branch node has no data, a
\* big node has a page number of the size of the shortest value.
Size(node) ==
  1 + (IF node.k = NoKey THEN 0 ELSE KeyLen[node.k])
    + (IF "child" \in DOMAIN node THEN 0
       ELSE IF node.ovf # NoPage THEN 1 ELSE ValLen[node.v])

Used(es) == FoldLeft(LAMBDA sum, node : sum + Size(node), 0, es)

\* insertEntry compacts the page before it gives up, so only the sum counts.
Fits(es) == Used(es) <= Room

\* Mutant: a key equal to a separator is sought to the left of it.
SearchPageLeft(page, k) ==
  IF page.type = "leaf"
  THEN 1 + Cardinality({i \in DOMAIN page.ents : page.ents[i].k < k})
  ELSE Max({1} \cup {i \in DOMAIN page.ents : page.ents[i].k < k})

\* One round of searchPage's loop over the entries low .. high; hit is the
\* entry that has the key, once there is one.
Round(es, k, b) ==
  LET mid == (b.low + b.high) \div 2
  IN IF b.low > b.high \/ b.hit # 0 THEN b
     ELSE IF k < es[mid].k THEN [b EXCEPT !.high = mid - 1]
     ELSE IF k > es[mid].k THEN [b EXCEPT !.low = mid + 1]
     ELSE [b EXCEPT !.hit = mid]

\* The loop from entry first up to the last but one; it ends within as many
\* rounds as there are entries, and a round after the end changes nothing.
Searched(es, k, first) ==
  LET after[n \in 0 .. Len(es)] ==
        IF n = 0 THEN [low |-> first, high |-> Len(es) - 1, hit |-> 0]
        ELSE Round(es, k, after[n - 1])
  IN after[Len(es)]

\* searchPage: the last entry is compared first, then the others are searched
\* in halves.  A branch page answers with the entry before the first one after
\* k, and its own first entry, which has no key, is never compared.
SearchPage(page, k) ==
  LET es   == page.ents
      n    == Len(es)
      leaf == page.type = "leaf"
      b    == Searched(es, k, IF leaf THEN 1 ELSE 2)
  IN IF n = 0 \/ (n = 1 /\ ~leaf) THEN 1
     ELSE IF k > es[n].k THEN (IF leaf THEN n + 1 ELSE n)
     ELSE IF k = es[n].k THEN n
     ELSE IF b.hit # 0 THEN b.hit
     ELSE IF leaf THEN b.low ELSE b.low - 1

\* The child behind entry i.  A branch page that lost its last entry still
\* has the entry's bytes, which an unchecked read takes for entry 0.
ChildAt(page, i) == IF page.ents = <<>> THEN page.stale ELSE page.ents[i].child

\* The two pages a split at x makes of es and a new node at 0-based index i.
SplitLeft(es, node, i, x) ==
  IF x = 0 THEN <<node>>
  ELSE IF i < x THEN InsertAt(SubSeq(es, 1, x), i + 1, node) ELSE SubSeq(es, 1, x)
SplitRight(es, node, i, x) ==
  LET moved == SubSeq(es, x + 1, Len(es))
  IN IF x = 0 \/ i < x THEN moved ELSE InsertAt(moved, i - x + 1, node)

\* Mutant: every insertion is taken for an append.
SplitPointAtEnd(es, node, i) == Len(es)

\* splitPoint: append keeps the page whole; otherwise the middle or the
\* nearest index both halves of which fit, first on the side of the new node.
SplitPoint(es, node, i) ==
  LET n   == Len(es)
      mid == IF n = 1 THEN 1 ELSE n \div 2
      Valid(x) == \A half \in {SplitLeft(es, node, i, x), SplitRight(es, node, i, x)} :
                     half # <<>> /\ Fits(half)
      Distance(x) == IF x < mid THEN 2 * (mid - x) + (IF i < mid THEN 0 ELSE 1)
                                ELSE 2 * (x - mid) + (IF i < mid THEN 1 ELSE 0)
      valid == {x \in 0 .. n : Valid(x)}
  IN IF n = 0 THEN 0
     ELSE IF i >= n /\ Fits(es) /\ Fits(<<node>>) THEN n
     ELSE IF valid = {} \/ mid \in valid THEN mid
     ELSE CHOOSE x \in valid : \A y \in valid : Distance(x) <= Distance(y)
==============================================================================
