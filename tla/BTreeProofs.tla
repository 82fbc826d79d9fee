----------------------------- MODULE BTreeProofs -----------------------------
(***************************************************************************)
(* What holds of the tree after any puts, deletes, commits and aborts, for *)
(* every set of keys, values and readers, when the writer's pages are its  *)
(* own until the commit and deletes come from trees of at most two levels: *)
(* a reader's tree stays as it was, free pages are of no use to anyone,    *)
(* and the height in the header is the depth of every leaf.                *)
(***************************************************************************)
EXTENDS BTreeShapeProofs

------------------------------------------------------------------------------
(* Freed pages and overflow pages                                          *)

\* Two lists without common pages, one behind the other.
LEMMA FreedJoined ==
  ASSUME NEW f \in Seq(Nat), IsInjective(f), NEW g \in Seq(Nat), IsInjective(g),
         ToSet(f) \cap ToSet(g) = {}, NEW all, all = f \o g
  PROVE  all \in Seq(Nat) /\ IsInjective(all) /\ ToSet(all) = ToSet(f) \cup ToSet(g)
<1>1. PICK n \in Nat, m \in Nat : n = Len(f) /\ m = Len(g)
  OBVIOUS
<1>2. /\ all \in Seq(Nat) /\ Len(all) = n + m
      /\ \A j \in 1 .. n : all[j] = f[j]
      /\ \A j \in 1 .. m : all[n + j] = g[j]
  BY <1>1, Joined
<1>3. DOMAIN f = 1 .. n /\ DOMAIN g = 1 .. m /\ DOMAIN all = 1 .. (n + m)
  BY <1>1, <1>2
<1>4. \A j \in 1 .. (n + m) : j \in 1 .. n \/ (j - n \in 1 .. m /\ j = n + (j - n))
  OBVIOUS
<1>5. \A j \in 1 .. n : all[j] \in ToSet(f)
  BY <1>2, <1>3 DEF ToSet
<1>6. \A j \in 1 .. (n + m) : j \notin 1 .. n => all[j] = g[j - n] /\ all[j] \in ToSet(g)
  <2>. SUFFICES ASSUME NEW j \in 1 .. (n + m), j \notin 1 .. n
                PROVE  all[j] = g[j - n] /\ all[j] \in ToSet(g)
    OBVIOUS
  <2>1. PICK i : i = j - n
    OBVIOUS
  <2>2. i \in 1 .. m /\ j = n + i
    BY <1>4, <2>1
  <2>3. all[j] = g[i]
    BY <1>2, <2>2
  <2>. QED  BY <1>3, <2>1, <2>2, <2>3 DEF ToSet
<1>7. ToSet(all) = ToSet(f) \cup ToSet(g)
  <2>1. ASSUME NEW x \in ToSet(all) PROVE x \in ToSet(f) \cup ToSet(g)
    <3>1. PICK j \in 1 .. (n + m) : x = all[j]
      BY <1>3 DEF ToSet
    <3>. QED  BY <1>5, <1>6, <3>1
  <2>2. ASSUME NEW x \in ToSet(f) PROVE x \in ToSet(all)
    <3>1. PICK j \in 1 .. n : x = f[j]
      BY <1>3 DEF ToSet
    <3>2. j \in 1 .. (n + m) /\ all[j] = x
      BY <1>2, <3>1
    <3>. QED  BY <1>3, <3>2 DEF ToSet
  <2>3. ASSUME NEW x \in ToSet(g) PROVE x \in ToSet(all)
    <3>1. PICK j \in 1 .. m : x = g[j]
      BY <1>3 DEF ToSet
    <3>2. n + j \in 1 .. (n + m) /\ all[n + j] = x
      BY <1>2, <3>1
    <3>. QED  BY <1>3, <3>2 DEF ToSet
  <2>. QED  BY <2>1, <2>2, <2>3
<1>8. IsInjective(all)
  <2>. SUFFICES ASSUME NEW i \in DOMAIN all, NEW j \in DOMAIN all, all[i] = all[j] PROVE i = j
    BY Zenon DEF IsInjective
  <2>1. i \in 1 .. (n + m) /\ j \in 1 .. (n + m)
    BY <1>3
  <2>2. CASE i \in 1 .. n /\ j \in 1 .. n
    <3>1. f[i] = f[j]
      BY <1>2, <2>2
    <3>. QED  BY <1>3, <2>2, <3>1, Zenon DEF IsInjective
  <2>3. CASE i \notin 1 .. n /\ j \notin 1 .. n
    <3>1. g[i - n] = g[j - n] /\ i - n \in 1 .. m /\ j - n \in 1 .. m
      BY <1>4, <1>6, <2>1, <2>3
    <3>2. i - n = j - n
      BY <1>3, <3>1, Zenon DEF IsInjective
    <3>. QED  BY <2>1, <3>2
  <2>4. CASE i \in 1 .. n /\ j \notin 1 .. n
    <3>1. all[i] \in ToSet(f) /\ all[j] \in ToSet(g)
      BY <1>5, <1>6, <2>1, <2>4
    <3>. QED  BY <3>1
  <2>5. CASE i \notin 1 .. n /\ j \in 1 .. n
    <3>1. all[i] \in ToSet(g) /\ all[j] \in ToSet(f)
      BY <1>5, <1>6, <2>1, <2>5
    <3>. QED  BY <3>1
  <2>. QED  BY <2>2, <2>3, <2>4, <2>5
<1>. QED  BY <1>2, <1>7, <1>8

\* Only the free list differs.
FreesTo(s, t, f) ==
  /\ IsState(t)
  /\ t.pg = s.pg /\ t.dirty = s.dirty /\ t.alloc = s.alloc /\ t.tree = s.tree
  /\ t.failed = s.failed /\ t.free = f

\* Another list of free pages changes nothing else.
LEMMA FreeSet ==
  ASSUME NEW s, IsState(s), NEW f, NEW t, t = [s EXCEPT !.free = f]
  PROVE  FreesTo(s, t, f)
<1>1. /\ t.pg = s.pg /\ t.dirty = s.dirty /\ t.alloc = s.alloc /\ t.tree = s.tree
      /\ t.failed = s.failed /\ t.free = f
  BY Zenon DEF IsState
<1>2. t = [pg |-> t.pg, dirty |-> t.dirty, free |-> t.free, alloc |-> t.alloc,
           tree |-> t.tree, failed |-> t.failed]
  BY Zenon DEF IsState
<1>3. IsTree(t.tree)
  <2>1. IsTree(s.tree)
    BY Zenon DEF IsState
  <2>. QED  BY <1>1, <2>1
<1>. QED  BY <1>1, <1>2, <1>3, Zenon DEF FreesTo, IsState

\* The pages of set go to the free list.
Frees(s, t, set) ==
  \E f : /\ FreesTo(s, t, f)
         /\ \A F, H : FreeList(s, F, H) /\ set \cap (F \cup H) = {} => FreeList(t, F \cup set, H)

\* FreePage puts one page on one of the two lists of free pages.
LEMMA PageFreed ==
  ASSUME NEW s, IsState(s), NEW p \in Nat, NEW t, t = FreePage(s, p)
  PROVE  Frees(s, t, {p})
<1>1. PICK f : f = Append(s.free, p)
  OBVIOUS
<1>2. FreesTo(s, t, f)
  <2>1. t = [s EXCEPT !.free = f]
    BY <1>1, Zenon DEF FreePage
  <2>. QED  BY <2>1, FreeSet, Zenon
<1>3. ASSUME NEW F, NEW H, FreeList(s, F, H), {p} \cap (F \cup H) = {}
      PROVE  FreeList(t, F \cup {p}, H)
  <2>1. PICK old, g : old = s.free /\ g = <<p>>
    OBVIOUS
  <2>2. old \in Seq(Nat) /\ IsInjective(old) /\ ToSet(old) = F /\ F \cap H = {}
    BY <1>3, <2>1 DEF FreeList
  <2>3. g \in Seq(Nat) /\ IsInjective(g) /\ ToSet(g) = {p}
    BY <2>1 DEF IsInjective, ToSet
  <2>4. f = old \o g
    BY <1>1, <2>1, <2>2
  <2>5. f \in Seq(Nat) /\ IsInjective(f) /\ ToSet(f) = F \cup {p}
    BY <1>3, <2>2, <2>3, <2>4, FreedJoined
  <2>6. t.free = f
    BY <1>2, Zenon DEF FreesTo
  <2>. QED  BY <1>3, <2>2, <2>5, <2>6 DEF FreeList
<1>. QED  BY <1>2, <1>3, Zenon DEF Frees

\* FreePages does so with each page of an overflow run.
LEMMA PagesFreed ==
  ASSUME NEW s, IsState(s), NEW first \in Nat, NEW n \in Int, NEW t, t = FreePages(s, first, n)
  PROVE  Frees(s, t, first .. (first + n - 1))
<1>1. PICK g : g = [i \in 1 .. n |-> first + i - 1]
  OBVIOUS
<1>2. PICK f : f = s.free \o g
  OBVIOUS
<1>3. FreesTo(s, t, f)
  <2>1. t = [s EXCEPT !.free = f]
    BY <1>1, <1>2, Zenon DEF FreePages
  <2>. QED  BY <2>1, FreeSet, Zenon
<1>4. g \in Seq(Nat) /\ IsInjective(g) /\ ToSet(g) = first .. (first + n - 1)
  <2>1. \A i \in 1 .. n : first + i - 1 \in Nat
    OBVIOUS
  <2>2. PICK m \in Nat : 1 .. n = 1 .. m
    <3>1. CASE n \in Nat
      BY <3>1
    <3>2. CASE n \notin Nat
      BY <3>2, 1 .. n = 1 .. 0
    <3>. QED  BY <3>1, <3>2
  <2>3. g \in Seq(Nat) /\ DOMAIN g = 1 .. n
    BY <1>1, <2>1, <2>2
  <2>4. IsInjective(g)
    BY <1>1, <2>3 DEF IsInjective
  <2>5. ToSet(g) = first .. (first + n - 1)
    <3>1. ASSUME NEW x \in first .. (first + n - 1) PROVE x \in ToSet(g)
      <4>1. x - first + 1 \in 1 .. n /\ g[x - first + 1] = x
        BY <1>1
      <4>. QED  BY <2>3, <4>1 DEF ToSet
    <3>2. ASSUME NEW x \in ToSet(g) PROVE x \in first .. (first + n - 1)
      <4>1. PICK i \in 1 .. n : x = g[i]
        BY <2>3 DEF ToSet
      <4>. QED  BY <1>1, <4>1
    <3>. QED  BY <3>1, <3>2
  <2>. QED  BY <2>3, <2>4, <2>5
<1>5. ASSUME NEW F, NEW H, FreeList(s, F, H), (first .. (first + n - 1)) \cap (F \cup H) = {}
      PROVE  FreeList(t, F \cup (first .. (first + n - 1)), H)
  <2>1. PICK old : old = s.free
    OBVIOUS
  <2>2. old \in Seq(Nat) /\ IsInjective(old) /\ ToSet(old) = F /\ F \cap H = {}
    BY <1>5, <2>1 DEF FreeList
  <2>5. f \in Seq(Nat) /\ IsInjective(f) /\ ToSet(f) = F \cup (first .. (first + n - 1))
    <3>1. ToSet(old) \cap ToSet(g) = {} /\ f = old \o g
      BY <1>2, <1>4, <1>5, <2>1, <2>2
    <3>2. f \in Seq(Nat) /\ IsInjective(f) /\ ToSet(f) = ToSet(old) \cup ToSet(g)
      BY <1>4, <2>2, <3>1, FreedJoined, Zenon
    <3>. QED  BY <1>4, <2>2, <3>2, Zenon
  <2>6. t.free = f
    BY <1>3, Zenon DEF FreesTo
  <2>. QED  BY <1>5, <2>2, <2>5, <2>6 DEF FreeList
<1>. QED  BY <1>3, <1>5, Zenon DEF Frees

\* The pages of set, some past the end of the file perhaps, hold large pages.
Overwrites(s, t, set, page, alloc) ==
  /\ IsState(t)
  /\ t.pg = Over(s.pg, set, page) /\ t.alloc = alloc
  /\ t.tree = s.tree /\ t.failed = s.failed /\ t.free = s.free
  /\ s.dirty \subseteq t.dirty /\ t.dirty \subseteq s.dirty \cup set

\* Writing an overflow run to new pages, with the allocation mark after it.
LEMMA OverflowWritten ==
  ASSUME NEW s, IsState(s), NEW set, NEW page, NEW alloc, NEW dirty,
         s.dirty \subseteq dirty, dirty \subseteq s.dirty \cup set,
         NEW pg, pg = Over(s.pg, set, page),
         NEW t, t = [s EXCEPT !.pg = pg, !.dirty = dirty, !.alloc = alloc]
  PROVE  Overwrites(s, t, set, page, alloc)
<1>1. /\ t.pg = pg /\ t.dirty = dirty /\ t.alloc = alloc /\ t.tree = s.tree
      /\ t.failed = s.failed /\ t.free = s.free
  BY Zenon DEF IsState
<1>2. t = [pg |-> t.pg, dirty |-> t.dirty, free |-> t.free, alloc |-> t.alloc,
           tree |-> t.tree, failed |-> t.failed]
  BY Zenon DEF IsState
<1>3. IsTree(t.tree)
  <2>1. IsTree(s.tree)
    BY Zenon DEF IsState
  <2>. QED  BY <1>1, <2>1
<1>4. IsState(t)
  BY <1>2, <1>3, Zenon DEF IsState
<1>5. s.dirty \subseteq t.dirty /\ t.dirty \subseteq s.dirty \cup set
  BY <1>1, Zenon
<1>. QED  BY <1>1, <1>4, <1>5, Zenon DEF Overwrites

\* What Over makes of several pages.
Overwritten(pg, set, page, pg2) ==
  /\ DOMAIN pg2 = set \cup DOMAIN pg
  /\ \A p \in set : pg2[p] = page
  /\ \A p \in DOMAIN pg \ set : pg2[p] = pg[p]

\* Over page by page.
LEMMA OverAt ==
  ASSUME NEW pg, NEW set, NEW page, NEW pg2, pg2 = Over(pg, set, page)
  PROVE  Overwritten(pg, set, page, pg2)
BY DEF Over, Overwritten

\* A value takes a number of overflow pages.
LEMMA NumPagesIsNat ==
  ASSUME NEW v \in Vals
  PROVE  NumPages(v) \in Nat
<1>1. ValLen[v] \in Nat /\ Room \in Nat /\ Room > 0
  BY LengthsAssumption
<1>2. ValLen[v] + Room - 1 \in Nat
  BY <1>1
<1>3. PICK a \in Nat, r \in Nat \ {0} : a = ValLen[v] + Room - 1 /\ r = Room
  BY <1>1, <1>2
<1>4. a \div r \in Nat
  OBVIOUS
<1>. QED  BY <1>3, <1>4 DEF NumPages

BuiltOf(s, k, v) == IF IsBig(k, v) THEN AllocateOverflow(s, v) ELSE s
NodeOf(s, k, v)  == IF IsBig(k, v) THEN BigNode(k, s.alloc, NumPages(v)) ELSE InlineNode(k, v)

\* t has what node needs.
IsBuilt(s, H, base, lv, F, R, node, t, R2) ==
  /\ Sound(t, H, base, lv, F, R2) /\ R \subseteq R2
  /\ t.free = s.free /\ t.tree = s.tree /\ t.failed = s.failed
  /\ \A p \in DOMAIN lv : t.pg[p] = s.pg[p]
  /\ Pending(t, lv, R2, 1, node)

\* The new node of a put, and the overflow pages of its value.
LEMMA Built ==
  ASSUME NEW s, NEW H, NEW base, NEW lv, NEW F, NEW R, Sound(s, H, base, lv, F, R),
         s.tree.root \in 0 .. (s.alloc - 1),
         NEW k \in Keys, NEW v \in Vals, NEW t, t = BuiltOf(s, k, v), NEW node, node = NodeOf(s, k, v)
  PROVE  \E R2 : IsBuilt(s, H, base, lv, F, R, node, t, R2)
<1>1. k \in Nat
  BY LengthsAssumption
<1>2. CASE ~IsBig(k, v)
  <2>1. t = s /\ node = InlineNode(k, v)
    BY <1>2, Zenon DEF BuiltOf, NodeOf
  <2>2. node \in LeafNode /\ Claims(1, node) = {}
    BY <1>1, <2>1 DEF InlineNode, LeafNode, NoPage, Claims
  <2>3. Pending(t, lv, R, 1, node)
    BY <2>2 DEF Pending, Leads, Kind
  <2>4. IsBuilt(s, H, base, lv, F, R, node, t, R)
    BY <2>1, <2>3 DEF IsBuilt
  <2>. QED  BY <2>4
<1>3. CASE IsBig(k, v)
  <2>1. t = AllocateOverflow(s, v) /\ node = BigNode(k, s.alloc, NumPages(v))
    BY <1>3, Zenon DEF BuiltOf, NodeOf
  <2>2. PICK n \in Nat : n = NumPages(v)
    BY NumPagesIsNat
  <2>3. PICK a, set, page : a = s.alloc /\ set = a .. (a + n - 1) /\ page = LargePage(v)
    OBVIOUS
  <2>4. Overwrites(s, t, set, page, a + n)
    <3>1. PICK dirty, pg, alloc : dirty = s.dirty \cup set /\ pg = Over(s.pg, set, page) /\ alloc = a + n
      OBVIOUS
    <3>2. t = [s EXCEPT !.pg = pg, !.dirty = dirty, !.alloc = alloc]
      BY <2>1, <2>2, <2>3, <3>1, Zenon DEF AllocateOverflow
    <3>3. IsState(s) /\ s.dirty \subseteq dirty /\ dirty \subseteq s.dirty \cup set
      BY <3>1 DEF Sound
    <3>4. Overwrites(s, t, set, page, alloc)
      BY <3>1, <3>2, <3>3, OverflowWritten, Zenon
    <3>. QED  BY <3>1, <3>4
  <2>5. /\ IsState(t) /\ t.pg = Over(s.pg, set, page) /\ t.alloc = a + n
        /\ t.tree = s.tree /\ t.failed = s.failed /\ t.free = s.free
        /\ s.dirty \subseteq t.dirty /\ t.dirty \subseteq s.dirty \cup set
    BY <2>4, Zenon DEF Overwrites
  <2>6. /\ DOMAIN t.pg = set \cup DOMAIN s.pg
        /\ \A p \in set : t.pg[p] = page
        /\ \A p \in DOMAIN s.pg \ set : t.pg[p] = s.pg[p]
    <3>1. Overwritten(s.pg, set, page, t.pg)
      BY <2>5, OverAt, Zenon
    <3>. QED  BY <3>1, Zenon DEF Overwritten
  <2>7. /\ a \in Nat \ {0} /\ Bounds(s.pg, a, lv, F, R) /\ H \subseteq 1 .. (a - 1)
    BY <2>3 DEF Sound, Spares, Tree, Bounds
  <2>8. \A p \in 1 .. (a - 1) : p \notin set /\ t.pg[p] = s.pg[p]
    BY <2>3, <2>6, <2>7 DEF Bounds
  <2>9. page.type = "large"
    BY <2>3 DEF LargePage
  <2>10. Tree(t.pg, t.alloc, lv, F, R \cup set)
    <3>1. Bounds(t.pg, t.alloc, lv, F, R \cup set)
      BY <2>2, <2>3, <2>5, <2>6, <2>7 DEF Bounds
    <3>2. t.alloc >= a /\ F \cup (R \cup set) \subseteq F \cup R \cup (a .. (t.alloc - 1))
      BY <2>2, <2>3, <2>5, <2>7
    <3>3. \A q \in DOMAIN lv : t.pg[q] = s.pg[q]
      BY <2>7, <2>8 DEF Bounds
    <3>4. \A c \in (1 .. (a - 1)) \ (F \cup R) : s.pg[c].type = "large" => t.pg[c].type = "large"
      BY <2>8
    <3>5. Tree(s.pg, a, lv, F, R)
      BY <2>3 DEF Sound
    <3>. QED  BY <3>1, <3>2, <3>3, <3>4, <3>5, PagesChanged
  <2>11. \A q \in DOMAIN lv : t.pg[q] = s.pg[q]
    BY <2>7, <2>8 DEF Bounds
  <2>12. Filled(t.pg, lv)
    BY <2>11 DEF Filled, Sound
  <2>13. Spares(t, H, base)
    <3>1. H \subseteq 1 .. (t.alloc - 1)
      BY <2>2, <2>5, <2>7
    <3>2. \A q \in H : t.pg[q] = s.pg[q] /\ q \notin set
      BY <2>7, <2>8
    <3>3. t.dirty \cap H = {}
      BY <2>5, <3>2 DEF Sound, Spares
    <3>. QED  BY <3>1, <3>2, <3>3 DEF Sound, Spares
  <2>14. Sound(t, H, base, lv, F, R \cup set)
    BY <2>5, <2>10, <2>12, <2>13, Zenon DEF Sound
  <2>15. node \in LeafNode /\ Claims(1, node) = set
    BY <1>1, <2>1, <2>2, <2>3, <2>7 DEF BigNode, LeafNode, Claims
  <2>16. Pending(t, lv, R \cup set, 1, node)
    <3>1. t.tree.root \notin set
      BY <2>3, <2>5, <2>7
    <3>. QED  BY <2>6, <2>9, <2>15, <3>1 DEF Pending, Leads, Kind
  <2>17. IsBuilt(s, H, base, lv, F, R, node, t, R \cup set)
    BY <2>5, <2>11, <2>14, <2>16 DEF IsBuilt
  <2>. QED  BY <2>17
<1>. QED  BY <1>2, <1>3

\* A path through pages that stay.
LEMMA PathKept ==
  ASSUME NEW pg, NEW lv, NEW root, NEW path, OnPath(pg, lv, root, path),
         NEW pg2, \A p \in DOMAIN lv : pg2[p] = pg[p]
  PROVE  OnPath(pg2, lv, root, path)
<1>1. PICK N : N = Len(path)
  OBVIOUS
<1>2. PathTo(pg, lv, root, N, path)
  BY <1>1, PathToLeaf, Zenon
<1>3. /\ path \in Seq(Position)
      /\ Len(path) = N
      /\ root \in DOMAIN lv /\ N = lv[root] /\ N # 0 /\ path[1].p = root
      /\ \A l \in 1 .. N : path[l].p \in DOMAIN lv /\ lv[path[l].p] = N - l + 1
      /\ \A l \in 1 .. (N - 1) :
           /\ path[l].i \in Slots(pg[path[l].p].ents)
           /\ pg[path[l].p].ents[path[l].i].child = path[l + 1].p
      /\ path[N].i \in 1 .. Len(pg[path[N].p].ents) + 1
  BY <1>2, Zenon DEF PathTo
<1>4. N \in Nat
  BY <1>3
<1>5. \A l \in 1 .. N : pg2[path[l].p] = pg[path[l].p]
  BY <1>3
<1>6. \A l \in 1 .. (N - 1) :
           /\ path[l].i \in Slots(pg2[path[l].p].ents)
           /\ pg2[path[l].p].ents[path[l].i].child = path[l + 1].p
  <2>. TAKE l \in 1 .. (N - 1)
  <2>1. l \in 1 .. N
    BY <1>4
  <2>. QED  BY <1>3, <1>5, <2>1
<1>7. path[N].i \in 1 .. Len(pg2[path[N].p].ents) + 1
  <2>1. N \in 1 .. N
    BY <1>3, <1>4
  <2>. QED  BY <1>3, <1>5, <2>1
<1>8. PathTo(pg2, lv, root, N, path)
  BY <1>3, <1>6, <1>7, Zenon DEF PathTo
<1>. QED  BY <1>1, <1>8, PathToLeaf, Zenon

------------------------------------------------------------------------------
(* The leaf of a path                                                      *)

\* The count of items is no part of a tree's shape.
LEMMA ItemsSet ==
  ASSUME NEW s, IsState(s), NEW x, NEW t, t = [s EXCEPT !.tree.items = x]
  PROVE  Reroots(s, t, s.tree.root, s.tree.height)
<1>1. IsState(t) /\ t.tree.root = s.tree.root /\ t.tree.height = s.tree.height
  BY Zenon DEF IsState, IsTree
<1>2. /\ t.pg = s.pg /\ t.dirty = s.dirty /\ t.free = s.free
      /\ t.alloc = s.alloc /\ t.failed = s.failed
  BY Zenon DEF IsState
<1>. QED  BY <1>1, <1>2 DEF Reroots

\* A touched path and the pages of a new node.
IsReady(H, base, F, node, s, path, lv, R) ==
  /\ Sound(s, H, base, lv, F, R) /\ Rooted(s, lv, R) /\ FreeList(s, F, H)
  /\ OnPath(s.pg, lv, s.tree.root, path)
  /\ \A l \in 1 .. Len(path) : path[l].p \in s.dirty
  /\ Pending(s, lv, R, 1, node)

\* After the new node is built and the path touched the tree is sound, the
\* path is dirty, and the pages the node claims are reserved for it.
LEMMA Ready ==
  ASSUME NEW s, NEW H, NEW base, NEW lv, NEW F, NEW R, Sound(s, H, base, lv, F, R),
         FreeList(s, F, H), Rooted(s, lv, R), NEW path, OnPath(s.pg, lv, s.tree.root, path),
         NEW node, NEW t, NEW R2, IsBuilt(s, H, base, lv, F, R, node, t, R2),
         NEW u, u = Touch(t, path)
  PROVE  \E lv3, R3 : /\ IsReady(H, base, F, node, u.s, u.path, lv3, R3)
                      /\ IsCopyOf(t, H, base, F, R2, path, u.s, u.path, lv3, R3)
<1>1. /\ Sound(t, H, base, lv, F, R2) /\ R \subseteq R2
      /\ t.free = s.free /\ t.tree = s.tree /\ t.failed = s.failed
      /\ \A p \in DOMAIN lv : t.pg[p] = s.pg[p]
      /\ Pending(t, lv, R2, 1, node)
  BY Zenon DEF IsBuilt
<1>2. Rooted(t, lv, R2)
  BY <1>1 DEF Rooted
<1>3. OnPath(t.pg, lv, t.tree.root, path)
  BY <1>1, PathKept
<1>4. PICK lv3, R3 : IsCopyOf(t, H, base, F, R2, path, u.s, u.path, lv3, R3)
  BY <1>1, <1>2, <1>3, PathTouched, Zenon
<1>5. /\ Sound(u.s, H, base, lv3, F, R3) /\ Rooted(u.s, lv3, R3) /\ R2 \subseteq R3
      /\ OnPath(u.s.pg, lv3, u.s.tree.root, u.path)
      /\ \A l \in 1 .. Len(u.path) : u.path[l].p \in u.s.dirty
      /\ Carried(t, u.s)
  BY <1>4, Zenon DEF IsCopyOf
<1>6. FreeList(u.s, F, H)
  <2>1. u.s.free = s.free
    BY <1>1, <1>5 DEF Carried
  <2>. QED  BY <2>1 DEF FreeList
<1>7. Pending(u.s, lv3, R3, 1, node)
  <2>1. /\ node \in LeafNode /\ \A c \in Claims(1, node) : t.pg[c].type = "large"
        /\ Claims(1, node) \subseteq R2
    BY <1>1 DEF Pending, Leads, Kind
  <2>2. R2 \subseteq 1 .. (t.alloc - 1)
    BY <1>1 DEF Sound, Tree, Bounds
  <2>3. \A c \in Claims(1, node) : u.s.pg[c].type = "large"
    BY <1>5, <2>1, <2>2 DEF Carried
  <2>4. u.s.tree.root \in DOMAIN lv3 /\ IsPage(u.s.pg[u.s.tree.root], lv3[u.s.tree.root])
    BY <1>5 DEF Rooted, Sound, Tree
  <2>5. u.s.pg[u.s.tree.root].type # "large"
    BY <2>4 DEF IsPage
  <2>. QED  BY <1>5, <2>1, <2>3, <2>5 DEF Pending, Leads, Kind
<1>8. IsReady(H, base, F, node, u.s, u.path, lv3, R3)
  BY <1>5, <1>6, <1>7, Zenon DEF IsReady
<1>. QED  BY <1>4, <1>8

\* A node that goes between others.
LEMMA InsertionSettles ==
  ASSUME NEW H, NEW base, NEW F, NEW node, NEW s, NEW path, NEW lv, NEW R,
         IsReady(H, base, F, node, s, path, lv, R),
         NEW x, NEW c, c = [s EXCEPT !.tree.items = x], NEW t, t = InsertNode(c, path, node)
  PROVE  Settled(t, H, base)
<1>1. /\ Sound(s, H, base, lv, F, R) /\ Rooted(s, lv, R) /\ FreeList(s, F, H)
      /\ OnPath(s.pg, lv, s.tree.root, path)
      /\ \A l \in 1 .. Len(path) : path[l].p \in s.dirty
      /\ Pending(s, lv, R, 1, node)
  BY Zenon DEF IsReady
<1>2. Reroots(s, c, s.tree.root, s.tree.height)
  <2>1. IsState(s)
    BY <1>1, Zenon DEF Sound
  <2>. QED  BY <2>1, ItemsSet, Zenon
<1>3. PICK d : d = c
  OBVIOUS
<1>4. /\ IsState(d)
      /\ d.pg = s.pg /\ d.dirty = s.dirty /\ d.free = s.free
      /\ d.alloc = s.alloc /\ d.failed = s.failed
      /\ d.tree.root = s.tree.root /\ d.tree.height = s.tree.height
  BY <1>2, <1>3, Zenon DEF Reroots
<1>5. Sound(d, H, base, lv, F, R)
  <2>1. Spares(d, H, base)
    BY <1>1, <1>4, Zenon DEF Sound, Spares
  <2>. QED  BY <1>1, <1>4, <2>1, Zenon DEF Sound
<1>6. Rooted(d, lv, R) /\ FreeList(d, F, H)
  BY <1>1, <1>4, Zenon DEF Rooted, FreeList
<1>7. OnPath(d.pg, lv, d.tree.root, path) /\ \A l \in 1 .. Len(path) : path[l].p \in d.dirty
  BY <1>1, <1>4, Zenon
<1>8. Pending(d, lv, R, 1, node)
  BY <1>1, <1>4, Zenon DEF Pending
<1>9. t = InsertNode(d, path, node)
  BY <1>3, Zenon
<1>. QED  BY <1>5, <1>6, <1>7, <1>8, <1>9, InsertNodeSettles, Zenon

AreApart(s, H, lv, F, R, old, C) ==
  /\ C \subseteq 1 .. (s.alloc - 1)
  /\ C \cap (F \cup R \cup DOMAIN lv \cup H) = {}
  /\ \A c \in C : s.pg[c].type = "large"
  /\ old \in LeafNode

\* The pages of a value are of no other use, and no held pages.
LEMMA ClaimsAreApart ==
  ASSUME NEW s, NEW H, NEW base, NEW lv, NEW F, NEW R, Sound(s, H, base, lv, F, R),
         NEW p \in DOMAIN lv, lv[p] = 1, NEW i \in Slots(s.pg[p].ents),
         NEW old, old = s.pg[p].ents[i], NEW C, C = Claims(1, old)
  PROVE  AreApart(s, H, lv, F, R, old, C)
<1>1. Nodes(s.pg, s.alloc, lv, F, R) /\ \A q \in DOMAIN lv : IsPage(s.pg[q], lv[q])
  BY DEF Sound, Tree
<1>2. /\ Leads(s.pg, lv, lv[p], s.pg[p].ents[i])
      /\ Claims(lv[p], s.pg[p].ents[i]) \subseteq (1 .. (s.alloc - 1)) \ (F \cup R)
  BY <1>1, Zenon DEF Nodes
<1>3. /\ Leads(s.pg, lv, 1, old) /\ Claims(1, old) \subseteq (1 .. (s.alloc - 1)) \ (F \cup R)
  BY <1>2
<1>4. old \in LeafNode /\ \A c \in Claims(1, old) : s.pg[c].type = "large"
  BY <1>3 DEF Leads, Kind
<1>5. \A q \in DOMAIN lv : s.pg[q].type # "large"
  BY <1>1 DEF IsPage
<1>6. \A q \in H : s.pg[q].type # "large"
  BY DEF Sound, Spares
<1>. QED  BY <1>3, <1>4, <1>5, <1>6 DEF AreApart

\* Only the free list is longer.
GivesUp(s, f, F, H) == FreesTo(s, f, f.free) /\ FreeList(f, F, H)

\* Freeing a node's overflow run gives up exactly the pages it claims.
LEMMA OldFreed ==
  ASSUME NEW s, NEW H, NEW base, NEW lv, NEW F, NEW R, Sound(s, H, base, lv, F, R),
         FreeList(s, F, H), NEW p \in DOMAIN lv, lv[p] = 1, NEW i \in Slots(s.pg[p].ents),
         NEW old, old = s.pg[p].ents[i], NEW f, f = FreeOverflow(s, old)
  PROVE  GivesUp(s, f, F \cup Claims(1, old), H)
<1>1. /\ Claims(1, old) \subseteq 1 .. (s.alloc - 1)
      /\ Claims(1, old) \cap (F \cup R \cup DOMAIN lv \cup H) = {}
      /\ old \in LeafNode
  BY ClaimsAreApart DEF AreApart
<1>2. old.ovf \in Nat /\ old.n \in Nat
  BY <1>1 DEF LeafNode
<1>3. CASE old.ovf = NoPage
  <2>1. f = s
    BY <1>3, Zenon DEF FreeOverflow
  <2>2. Claims(1, old) = {}
    <3>1. Claims(1, old) = 0 .. (old.n - 1)
      BY <1>2, <1>3 DEF Claims, NoPage
    <3>2. 0 \notin Claims(1, old)
      BY <1>1
    <3>3. ~(old.n >= 1)
      BY <1>2, <3>1, <3>2
    <3>. QED  BY <1>2, <3>1, <3>3
  <2>3. FreesTo(s, f, f.free)
    BY <2>1 DEF FreesTo, Sound
  <2>. QED  BY <2>1, <2>2, <2>3 DEF GivesUp
<1>4. CASE old.ovf # NoPage
  <2>1. PICK first \in Nat, n \in Int : first = old.ovf /\ n = old.n
    BY <1>2
  <2>2. f = FreePages(s, first, n) /\ IsState(s)
    BY <1>4, <2>1, Zenon DEF FreeOverflow, Sound
  <2>3. Frees(s, f, first .. (first + n - 1))
    BY <2>2, PagesFreed, Zenon
  <2>4. first .. (first + n - 1) = Claims(1, old)
    BY <2>1 DEF Claims
  <2>5. Frees(s, f, Claims(1, old))
    BY <2>3, <2>4, Zenon
  <2>6. PICK g : /\ FreesTo(s, f, g)
                 /\ \A F2, H2 : FreeList(s, F2, H2) /\ Claims(1, old) \cap (F2 \cup H2) = {}
                                  => FreeList(f, F2 \cup Claims(1, old), H2)
    BY <2>5, Zenon DEF Frees
  <2>7. Claims(1, old) \cap (F \cup H) = {}
    BY <1>1
  <2>8. FreeList(f, F \cup Claims(1, old), H)
    BY <2>6, <2>7, Zenon
  <2>9. FreesTo(s, f, f.free)
    BY <2>6, Zenon DEF FreesTo
  <2>. QED  BY <2>8, <2>9 DEF GivesUp
<1>. QED  BY <1>3, <1>4

\* A leaf without one of its nodes, the node's pages freed.
LEMMA LeafCut ==
  ASSUME NEW s, NEW H, NEW base, NEW lv, NEW F, NEW R, Sound(s, H, base, lv, F, R),
         NEW p \in DOMAIN lv, lv[p] = 1, NEW i \in Slots(s.pg[p].ents),
         NEW old, old = s.pg[p].ents[i], NEW C, C = Claims(1, old),
         NEW pg2, Rewritten(s.pg, pg2, p, RemoveAt(s.pg[p].ents, i))
  PROVE  Tree(pg2, s.alloc, lv, F \cup C, R)
<1>1. Tree(s.pg, s.alloc, lv, F, R)
  BY DEF Sound
<1>2. Tree(pg2, s.alloc, lv, F, R \cup C)
  BY <1>1, NodeRemoved
<1>3. C \subseteq 1 .. (s.alloc - 1) /\ C \cap (F \cup R \cup DOMAIN lv \cup H) = {}
  BY ClaimsAreApart DEF AreApart
<1>4. Bounds(pg2, s.alloc, lv, F, R \cup C) /\ Bounds(s.pg, s.alloc, lv, F, R)
  BY <1>1, <1>2, Zenon DEF Tree
<1>5. Bounds(pg2, s.alloc, lv, F \cup C, R)
  BY <1>3, <1>4 DEF Bounds
<1>6. s.alloc >= s.alloc
  BY <1>4 DEF Bounds
<1>7. (F \cup C) \cup R \subseteq F \cup (R \cup C) \cup (s.alloc .. (s.alloc - 1))
  OBVIOUS
<1>. QED  BY <1>2, <1>5, <1>6, <1>7, PagesChanged

\* The same with another node in its place.
LEMMA LeafReplaced ==
  ASSUME NEW s, NEW H, NEW base, NEW lv, NEW F, NEW R, Sound(s, H, base, lv, F, R),
         NEW p \in DOMAIN lv, lv[p] = 1, NEW i \in Slots(s.pg[p].ents),
         NEW old, old = s.pg[p].ents[i], NEW C, C = Claims(1, old),
         NEW node, Leads(s.pg, lv, 1, node), NEW N, N = Claims(1, node), N \subseteq R \cup C,
         NEW pg2, Rewritten(s.pg, pg2, p, ReplaceAt(s.pg[p].ents, i, node))
  PROVE  Tree(pg2, s.alloc, lv, F \cup (C \ N), R \ N)
<1>1. Tree(s.pg, s.alloc, lv, F, R)
  BY DEF Sound
<1>2. Tree(pg2, s.alloc, lv, F, (R \cup C) \ N)
  <2>1. Leads(s.pg, lv, lv[p], node) /\ Claims(lv[p], node) \subseteq R \cup Claims(lv[p], old)
    OBVIOUS
  <2>2. Tree(pg2, s.alloc, lv, F, (R \cup Claims(lv[p], old)) \ Claims(lv[p], node))
    BY <1>1, <2>1, NodeReplaced
  <2>. QED  BY <2>2
<1>3. C \subseteq 1 .. (s.alloc - 1) /\ C \cap (F \cup R \cup DOMAIN lv \cup H) = {}
  BY ClaimsAreApart DEF AreApart
<1>4. Bounds(pg2, s.alloc, lv, F, (R \cup C) \ N) /\ Bounds(s.pg, s.alloc, lv, F, R)
  BY <1>1, <1>2, Zenon DEF Tree
<1>5. Bounds(pg2, s.alloc, lv, F \cup (C \ N), R \ N)
  BY <1>3, <1>4 DEF Bounds
<1>6. s.alloc >= s.alloc
  BY <1>4 DEF Bounds
<1>7. (F \cup (C \ N)) \cup (R \ N) \subseteq F \cup ((R \cup C) \ N) \cup (s.alloc .. (s.alloc - 1))
  BY <1>3
<1>8. \A c \in (1 .. (s.alloc - 1)) \ (F \cup ((R \cup C) \ N)) : pg2[c].type = "large" => pg2[c].type = "large"
  OBVIOUS
<1>. QED  BY <1>2, <1>5, <1>6, <1>7, PagesChanged

\* t has other entries in leaf p.
IsLeafSet(f, H, base, lv, F, R, p, es, t) ==
  /\ Sound(t, H, base, lv, F, R) /\ FreeList(t, F, H)
  /\ SameBut(f, t) /\ Rewritten(f.pg, t.pg, p, es) /\ t.dirty = f.dirty \cup {p}

\* A dirty leaf may take any nodes that keep the tree a tree once the given
\* up pages are free.
LEMMA LeafSet ==
  ASSUME NEW s, NEW H, NEW base, NEW lv, NEW F, NEW R, Sound(s, H, base, lv, F, R),
         NEW p \in DOMAIN lv \cap s.dirty, lv[p] = 1, NEW f, NEW F2, NEW R2, GivesUp(s, f, F2, H),
         NEW es, \A pg2 : Rewritten(s.pg, pg2, p, es) => Tree(pg2, s.alloc, lv, F2, R2),
         NEW t, t = SetEnts(f, p, es)
  PROVE  IsLeafSet(f, H, base, lv, F2, R2, p, es, t)
<1>1. /\ IsState(f)
      /\ f.pg = s.pg /\ f.dirty = s.dirty /\ f.alloc = s.alloc /\ f.tree = s.tree
      /\ f.failed = s.failed /\ FreeList(f, F2, H)
  BY Zenon DEF GivesUp, FreesTo
<1>2. IsPage(s.pg[p], 1) /\ p \in DOMAIN s.pg
  BY DEF Sound, Tree, Bounds
<1>3. AreEntsSet(f, p, es, t)
  <2>1. IsPage(f.pg[p], 1) /\ p \in DOMAIN f.pg
    BY <1>1, <1>2
  <2>. QED  BY <1>1, <2>1, EntsSet, Zenon
<1>4. /\ IsState(t) /\ t.free = f.free /\ t.alloc = s.alloc /\ t.tree = s.tree /\ t.failed = s.failed
      /\ Rewritten(s.pg, t.pg, p, es) /\ t.dirty = s.dirty \cup {p}
  BY <1>1, <1>3, Zenon DEF AreEntsSet, SameBut
<1>5. Tree(t.pg, t.alloc, lv, F2, R2)
  BY <1>4
<1>6. /\ DOMAIN t.pg = DOMAIN s.pg /\ \A r \in DOMAIN s.pg \ {p} : t.pg[r] = s.pg[r]
  BY <1>4, Zenon DEF Rewritten
<1>7. 1 .. (s.alloc - 1) \subseteq DOMAIN s.pg /\ DOMAIN lv \subseteq 1 .. (s.alloc - 1)
  BY DEF Sound, Tree, Bounds
<1>8. Filled(t.pg, lv)
  <2>. SUFFICES ASSUME NEW r \in DOMAIN lv, lv[r] # 1 PROVE t.pg[r].ents # <<>>
    BY DEF Filled
  <2>1. t.pg[r] = s.pg[r]
    BY <1>6, <1>7
  <2>2. Filled(s.pg, lv)
    BY DEF Sound
  <2>. QED  BY <2>1, <2>2 DEF Filled
<1>9. Spares(t, H, base)
  <2>1. /\ H \subseteq 1 .. (s.alloc - 1) /\ s.dirty \cap H = {}
        /\ \A r \in H : s.pg[r] = base[r] /\ base[r].type # "large"
    BY DEF Sound, Spares
  <2>2. \A r \in H : t.pg[r] = s.pg[r]
    BY <1>6, <1>7, <2>1
  <2>. QED  BY <1>4, <2>1, <2>2 DEF Spares
<1>10. FreeList(t, F2, H)
  BY <1>1, <1>4, Zenon DEF FreeList
<1>11. Sound(t, H, base, lv, F2, R2)
  BY <1>4, <1>5, <1>8, <1>9, Zenon DEF Sound
<1>12. SameBut(f, t) /\ Rewritten(f.pg, t.pg, p, es) /\ t.dirty = f.dirty \cup {p}
  BY <1>1, <1>4, Zenon DEF SameBut
<1>. QED  BY <1>10, <1>11, <1>12, Zenon DEF IsLeafSet

\* A path to a leaf whose entries change.
LEMMA PathOverLeaf ==
  ASSUME NEW pg, NEW lv, NEW root, NEW path, OnPath(pg, lv, root, path),
         NEW p, p = Last(path).p, NEW es, NEW pg2, Rewritten(pg, pg2, p, es),
         DOMAIN lv \subseteq DOMAIN pg, Last(path).i \in 1 .. Len(es) + 1
  PROVE  OnPath(pg2, lv, root, path)
<1>1. PICK N : N = Len(path)
  OBVIOUS
<1>2. PathTo(pg, lv, root, N, path)
  BY <1>1, PathToLeaf, Zenon
<1>3. /\ path \in Seq(Position)
      /\ Len(path) = N
      /\ root \in DOMAIN lv /\ N = lv[root] /\ N # 0 /\ path[1].p = root
      /\ \A l \in 1 .. N : path[l].p \in DOMAIN lv /\ lv[path[l].p] = N - l + 1
      /\ \A l \in 1 .. (N - 1) :
           /\ path[l].i \in Slots(pg[path[l].p].ents)
           /\ pg[path[l].p].ents[path[l].i].child = path[l + 1].p
  BY <1>2, Zenon DEF PathTo
<1>4. N \in Nat /\ N \in 1 .. N /\ Last(path) = path[N]
  BY <1>3 DEF Last
<1>5. lv[p] = 1 /\ p \in DOMAIN lv /\ pg2[p].ents = es
      /\ \A q \in DOMAIN lv : q # p => pg2[q] = pg[q]
  <2>1. path[N].p \in DOMAIN lv /\ lv[path[N].p] = N - N + 1
    BY <1>3, <1>4
  <2>2. lv[p] = 1 /\ p \in DOMAIN lv
    BY <1>4, <2>1
  <2>. QED  BY <2>2 DEF Rewritten
<1>6. \A l \in 1 .. (N - 1) :
           /\ path[l].i \in Slots(pg2[path[l].p].ents)
           /\ pg2[path[l].p].ents[path[l].i].child = path[l + 1].p
  <2>. TAKE l \in 1 .. (N - 1)
  <2>1. path[l].p \in DOMAIN lv /\ lv[path[l].p] = N - l + 1 /\ N - l + 1 # 1
    <3>1. l \in 1 .. N /\ N - l + 1 # 1
      BY <1>4
    <3>. QED  BY <1>3, <3>1
  <2>2. pg2[path[l].p] = pg[path[l].p]
    BY <1>5, <2>1
  <2>. QED  BY <1>3, <2>2
<1>7. path[N].i \in 1 .. Len(pg2[path[N].p].ents) + 1
  BY <1>4, <1>5
<1>8. PathTo(pg2, lv, root, N, path)
  BY <1>3, <1>6, <1>7, Zenon DEF PathTo
<1>. QED  BY <1>1, <1>8, PathToLeaf, Zenon

------------------------------------------------------------------------------
(* Put                                                                     *)

\* The end of a path.
LEMMA LeafOf ==
  ASSUME NEW pg, NEW lv, NEW root, NEW path, OnPath(pg, lv, root, path)
  PROVE  /\ Last(path).p \in DOMAIN lv /\ lv[Last(path).p] = 1
         /\ Last(path).i \in 1 .. Len(pg[Last(path).p].ents) + 1
         /\ path # <<>> /\ Last(path) = path[Len(path)] /\ Len(path) \in 1 .. Len(path)
         /\ Last(path) \in Position
<1>1. PICK N : N = Len(path)
  OBVIOUS
<1>2. PathTo(pg, lv, root, N, path)
  BY <1>1, PathToLeaf, Zenon
<1>3. /\ path \in Seq(Position)
      /\ Len(path) = N /\ N # 0
      /\ \A l \in 1 .. N : path[l].p \in DOMAIN lv /\ lv[path[l].p] = N - l + 1
      /\ path[N].i \in 1 .. Len(pg[path[N].p].ents) + 1
  BY <1>2, Zenon DEF PathTo
<1>4. N \in Nat /\ N \in 1 .. N /\ Last(path) = path[N] /\ path # <<>> /\ path[N] \in Position
  BY <1>3 DEF Last
<1>5. path[N].p \in DOMAIN lv /\ lv[path[N].p] = N - N + 1
  BY <1>3, <1>4
<1>6. N - N + 1 = 1
  BY <1>4
<1>. QED  BY <1>1, <1>3, <1>4, <1>5, <1>6

\* updateNode.
LEMMA UpdateSettles ==
  ASSUME NEW H, NEW base, NEW F, NEW node, NEW lv, NEW R, NEW s, NEW path,
         NEW u, u = Touch(s, path), IsReady(H, base, F, node, u.s, u.path, lv, R),
         Last(u.path).i \in Slots(u.s.pg[Last(u.path).p].ents),
         NEW t, t = UpdateNode(s, path, node)
  PROVE  Settled(t, H, base)
<1>1. PICK c, P, p, i, es : /\ c = u.s /\ P = u.path /\ p = Last(P).p /\ i = Last(P).i
                            /\ es = c.pg[p].ents
  OBVIOUS
<1>2. /\ Sound(c, H, base, lv, F, R) /\ Rooted(c, lv, R) /\ FreeList(c, F, H)
      /\ OnPath(c.pg, lv, c.tree.root, P)
      /\ \A l \in 1 .. Len(P) : P[l].p \in c.dirty
      /\ Pending(c, lv, R, 1, node)
  BY <1>1, Zenon DEF IsReady
<1>3. /\ p \in DOMAIN lv \cap c.dirty /\ lv[p] = 1 /\ P # <<>> /\ i \in Slots(es)
  <2>1. /\ Last(P).p \in DOMAIN lv /\ lv[Last(P).p] = 1
        /\ P # <<>> /\ Last(P) = P[Len(P)] /\ Len(P) \in 1 .. Len(P)
    BY <1>2, LeafOf
  <2>2. Last(P).p \in c.dirty
    BY <1>2, <2>1
  <2>. QED  BY <1>1, <2>1, <2>2
<1>4. IsPage(c.pg[p], 1) /\ es \in Seq(LeafNode) /\ i \in 1 .. Len(es)
  <2>1. IsPage(c.pg[p], 1)
    BY <1>2, <1>3 DEF Sound, Tree
  <2>2. es \in Seq(LeafNode)
    BY <1>1, <2>1 DEF IsPage, Kind
  <2>. QED  BY <1>3, <2>1, <2>2 DEF Slots
<1>5. PICK old : old = es[i]
  OBVIOUS
<1>6. NodeAt(c, P) = old
  <2>1. Last(P).i \in DOMAIN es
    BY <1>1, <1>4
  <2>. QED  BY <1>1, <1>3, <1>5, <2>1, Zenon DEF NodeAt
<1>7. PICK f : f = FreeOverflow(c, old)
  OBVIOUS
<1>8. PICK C, N : C = Claims(1, old) /\ N = Claims(1, node)
  OBVIOUS
<1>9. GivesUp(c, f, F \cup C, H)
  BY <1>1, <1>2, <1>3, <1>5, <1>7, <1>8, OldFreed, Zenon
<1>10. f.pg = c.pg /\ f.tree = c.tree
  BY <1>9, Zenon DEF GivesUp, FreesTo
<1>11. t = IF Fits(ReplaceAt(es, i, node)) THEN SetEnts(f, p, ReplaceAt(es, i, node))
           ELSE InsertNode(SetEnts(f, p, RemoveAt(es, i)), P, node)
  <2>1. /\ Last(Touch(s, path).path).p = p /\ Last(Touch(s, path).path).i = i
        /\ Touch(s, path).path = P
        /\ FreeOverflow(Touch(s, path).s, NodeAt(Touch(s, path).s, Touch(s, path).path)) = f
    BY <1>1, <1>6, <1>7, Zenon
  <2>2. f.pg[p].ents = es
    BY <1>1, <1>10, Zenon
  <2>. QED  BY <2>1, <2>2, Zenon DEF UpdateNode
<1>12. /\ C \subseteq 1 .. (c.alloc - 1) /\ C \cap (F \cup R \cup DOMAIN lv \cup H) = {}
  <2>1. AreApart(c, H, lv, F, R, old, C)
    BY <1>1, <1>2, <1>3, <1>5, <1>8, ClaimsAreApart, Zenon
  <2>. QED  BY <2>1, Zenon DEF AreApart
<1>13. /\ Leads(c.pg, lv, 1, node) /\ N \subseteq R /\ c.tree.root \notin N
  BY <1>2, <1>8 DEF Pending
<1>14. /\ c.tree.root \in DOMAIN lv /\ c.tree.root \in R /\ lv[c.tree.root] = c.tree.height
       /\ DOMAIN lv \subseteq 1 .. (c.alloc - 1)
       /\ 1 .. (c.alloc - 1) \subseteq DOMAIN c.pg /\ R \subseteq 1 .. (c.alloc - 1)
       /\ c.tree.root # NoPage
  <2>1. /\ c.tree.root \in DOMAIN lv /\ c.tree.root \in R /\ lv[c.tree.root] = c.tree.height
    BY <1>2 DEF Rooted
  <2>2. /\ DOMAIN lv \subseteq 1 .. (c.alloc - 1) /\ c.alloc \in Nat
        /\ 1 .. (c.alloc - 1) \subseteq DOMAIN c.pg /\ R \subseteq 1 .. (c.alloc - 1)
    BY <1>2 DEF Sound, Tree, Bounds
  <2>. QED  BY <2>1, <2>2 DEF NoPage
<1>15. CASE Fits(ReplaceAt(es, i, node))
  <2>1. PICK es2 : es2 = ReplaceAt(es, i, node)
    OBVIOUS
  <2>2. t = SetEnts(f, p, es2)
    BY <1>11, <1>15, <2>1, Zenon
  <2>3. ASSUME NEW pg2, Rewritten(c.pg, pg2, p, es2) PROVE Tree(pg2, c.alloc, lv, F \cup C, R \ N)
    <3>1. Rewritten(c.pg, pg2, p, ReplaceAt(c.pg[p].ents, i, node))
      BY <1>1, <2>1, <2>3, Zenon
    <3>2. N \subseteq R \cup C /\ i \in Slots(c.pg[p].ents) /\ old = c.pg[p].ents[i]
          /\ p \in DOMAIN lv
      BY <1>1, <1>3, <1>5, <1>13
    <3>3. Tree(pg2, c.alloc, lv, F \cup (C \ N), R \ N)
      BY <1>2, <1>3, <1>8, <1>13, <3>1, <3>2, LeafReplaced, Zenon
    <3>4. C \ N = C
      BY <1>12, <1>13
    <3>. QED  BY <3>3, <3>4
  <2>4. IsLeafSet(f, H, base, lv, F \cup C, R \ N, p, es2, t)
    BY <1>2, <1>3, <1>9, <2>2, <2>3, LeafSet, Zenon
  <2>5. Sound(t, H, base, lv, F \cup C, R \ N) /\ FreeList(t, F \cup C, H) /\ t.tree = c.tree
    BY <1>10, <2>4, Zenon DEF IsLeafSet, SameBut
  <2>6. Rooted(t, lv, R \ N) /\ t.tree.root # NoPage
    BY <1>13, <1>14, <2>5 DEF Rooted
  <2>. QED  BY <2>5, <2>6 DEF Settled, Stands
<1>16. CASE ~Fits(ReplaceAt(es, i, node))
  <2>1. PICK es2 : es2 = RemoveAt(es, i)
    OBVIOUS
  <2>2. PICK cut : cut = SetEnts(f, p, es2)
    OBVIOUS
  <2>3. t = InsertNode(cut, P, node)
    BY <1>11, <1>16, <2>1, <2>2, Zenon
  <2>4. ASSUME NEW pg2, Rewritten(c.pg, pg2, p, es2) PROVE Tree(pg2, c.alloc, lv, F \cup C, R)
    <3>1. Rewritten(c.pg, pg2, p, RemoveAt(c.pg[p].ents, i))
      BY <1>1, <2>1, <2>4, Zenon
    <3>2. i \in Slots(c.pg[p].ents) /\ old = c.pg[p].ents[i] /\ p \in DOMAIN lv
      BY <1>1, <1>3, <1>5
    <3>. QED  BY <1>2, <1>3, <1>8, <3>1, <3>2, LeafCut, Zenon
  <2>5. IsLeafSet(f, H, base, lv, F \cup C, R, p, es2, cut)
    BY <1>2, <1>3, <1>9, <2>2, <2>4, LeafSet, Zenon
  <2>6. Sound(cut, H, base, lv, F \cup C, R) /\ FreeList(cut, F \cup C, H) /\ cut.tree = c.tree
        /\ Rewritten(c.pg, cut.pg, p, es2) /\ c.dirty \subseteq cut.dirty
    <3>1. f.dirty = c.dirty
      BY <1>9, Zenon DEF GivesUp, FreesTo
    <3>2. Sound(cut, H, base, lv, F \cup C, R) /\ FreeList(cut, F \cup C, H) /\ cut.tree = f.tree
          /\ Rewritten(f.pg, cut.pg, p, es2) /\ cut.dirty = f.dirty \cup {p}
      BY <2>5, Zenon DEF IsLeafSet, SameBut
    <3>. QED  BY <1>10, <3>1, <3>2
  <2>7. Rooted(cut, lv, R)
    BY <1>14, <2>6 DEF Rooted
  <2>8. OnPath(cut.pg, lv, cut.tree.root, P)
    <3>1. IsRemoved(es2, LeafNode, es, i)
      BY <1>4, <2>1, Removed, Zenon
    <3>2. Len(es2) = Len(es) - 1
      BY <3>1, Zenon DEF IsRemoved
    <3>3. Last(P).i \in 1 .. Len(es2) + 1
      BY <1>1, <1>4, <3>2
    <3>4. DOMAIN lv \subseteq DOMAIN c.pg
      BY <1>14
    <3>5. OnPath(cut.pg, lv, c.tree.root, P)
      BY <1>1, <1>2, <2>6, <3>3, <3>4, PathOverLeaf, Zenon
    <3>. QED  BY <2>6, <3>5
  <2>9. Pending(cut, lv, R, 1, node)
    <3>1. /\ node \in LeafNode /\ \A x \in N : c.pg[x].type = "large"
      BY <1>8, <1>13 DEF Leads, Kind
    <3>2. c.pg[p].type # "large"
      BY <1>4 DEF IsPage
    <3>3. \A x \in N : cut.pg[x] = c.pg[x]
      BY <1>13, <1>14, <2>6, <3>1, <3>2 DEF Rewritten
    <3>. QED  BY <1>8, <1>13, <2>6, <3>1, <3>3 DEF Pending, Leads, Kind
  <2>10. \A l \in 1 .. Len(P) : P[l].p \in cut.dirty
    BY <1>2, <2>6
  <2>. QED  BY <2>3, <2>6, <2>7, <2>8, <2>9, <2>10, InsertNodeSettles, Zenon
<1>. QED  BY <1>15, <1>16

\* Writing an overflow run over its own pages.
LEMMA OverflowRewritten ==
  ASSUME NEW s, IsState(s), NEW set, NEW page, NEW dirty,
         s.dirty \subseteq dirty, dirty \subseteq s.dirty \cup set,
         NEW pg, pg = Over(s.pg, set, page),
         NEW t, t = [s EXCEPT !.pg = pg, !.dirty = dirty]
  PROVE  Overwrites(s, t, set, page, s.alloc)
<1>1. /\ t.pg = pg /\ t.dirty = dirty /\ t.alloc = s.alloc /\ t.tree = s.tree
      /\ t.failed = s.failed /\ t.free = s.free
  BY Zenon DEF IsState
<1>2. t = [pg |-> t.pg, dirty |-> t.dirty, free |-> t.free, alloc |-> t.alloc,
           tree |-> t.tree, failed |-> t.failed]
  BY Zenon DEF IsState
<1>3. IsTree(t.tree)
  <2>1. IsTree(s.tree)
    BY Zenon DEF IsState
  <2>. QED  BY <1>1, <2>1
<1>4. IsState(t)
  BY <1>2, <1>3, Zenon DEF IsState
<1>5. s.dirty \subseteq t.dirty /\ t.dirty \subseteq s.dirty \cup set
  BY <1>1, Zenon
<1>. QED  BY <1>1, <1>4, <1>5, Zenon DEF Overwrites

\* What updateOverflowInPlace leaves: the tree as it was, and the pages the
\* value no longer takes on the free list.
IsRewritten(s, H, base, lv, F, R, t, S) ==
  /\ Sound(t, H, base, lv, F, R) /\ FreeList(t, F \cup S, H)
  /\ t.tree = s.tree /\ t.failed = s.failed
  /\ \A p \in DOMAIN lv : t.pg[p] = s.pg[p]

\* The in-place update of a large value writes the first pages of the run
\* it had and frees the rest.
LEMMA OverflowUpdated ==
  ASSUME NEW s, NEW H, NEW base, NEW lv, NEW F, NEW R, Sound(s, H, base, lv, F, R),
         FreeList(s, F, H), NEW p \in DOMAIN lv, lv[p] = 1, NEW i \in Slots(s.pg[p].ents),
         NEW old, old = s.pg[p].ents[i], NEW v \in Vals, NumPages(v) <= old.n,
         NEW t, t = UpdateOverflowInPlace(s, old, v)
  PROVE  IsRewritten(s, H, base, lv, F, R, t,
                     Claims(1, old) \ (old.ovf .. (old.ovf + NumPages(v) - 1)))
<1>1. PICK n \in Nat : n = NumPages(v)
  BY NumPagesIsNat
<1>2. PICK C, set, page : /\ C = Claims(1, old) /\ set = old.ovf .. (old.ovf + n - 1)
                          /\ page = LargePage(v)
  OBVIOUS
<1>3. AreApart(s, H, lv, F, R, old, C)
  BY <1>2, ClaimsAreApart, Zenon
<1>4. /\ C \subseteq 1 .. (s.alloc - 1) /\ C \cap (F \cup R \cup DOMAIN lv \cup H) = {}
      /\ old \in LeafNode
  BY <1>3, Zenon DEF AreApart
<1>5. old.ovf \in Nat /\ old.n \in Nat /\ n <= old.n
  BY <1>1, <1>4 DEF LeafNode
<1>6. set \subseteq C /\ (old.ovf + n) .. (old.ovf + n + (old.n - n) - 1) = C \ set
  <2>1. PICK a \in Nat, m \in Nat : a = old.ovf /\ m = old.n
    BY <1>5
  <2>2. C = a .. (a + m - 1) /\ set = a .. (a + n - 1) /\ n <= m
    BY <1>2, <1>5, <2>1 DEF Claims
  <2>3. set \subseteq C
    BY <2>2
  <2>4. (a + n) .. (a + n + (m - n) - 1) = C \ set
    BY <2>2
  <2>. QED  BY <2>1, <2>3, <2>4
<1>7. PICK over : over = [s EXCEPT !.pg = Over(s.pg, set, page),
                                   !.dirty = IF WriteMap THEN s.dirty ELSE s.dirty \cup set]
  OBVIOUS
<1>8. t = FreePages(over, old.ovf + n, old.n - n)
  BY <1>1, <1>2, <1>7, Zenon DEF UpdateOverflowInPlace
<1>9. Overwrites(s, over, set, page, s.alloc)
  <2>1. PICK dirty, pg : /\ dirty = IF WriteMap THEN s.dirty ELSE s.dirty \cup set
                         /\ pg = Over(s.pg, set, page)
    OBVIOUS
  <2>2. over = [s EXCEPT !.pg = pg, !.dirty = dirty]
    BY <1>7, <2>1, Zenon
  <2>3. IsState(s)
    BY DEF Sound
  <2>4. s.dirty \subseteq dirty /\ dirty \subseteq s.dirty \cup set
    BY <2>1
  <2>. QED  BY <2>1, <2>2, <2>3, <2>4, OverflowRewritten, Zenon
<1>10. /\ IsState(over) /\ over.pg = Over(s.pg, set, page) /\ over.alloc = s.alloc
       /\ over.tree = s.tree /\ over.failed = s.failed /\ over.free = s.free
       /\ s.dirty \subseteq over.dirty /\ over.dirty \subseteq s.dirty \cup set
  BY <1>9, Zenon DEF Overwrites
<1>11. /\ DOMAIN over.pg = set \cup DOMAIN s.pg
       /\ \A q \in set : over.pg[q] = page
       /\ \A q \in DOMAIN s.pg \ set : over.pg[q] = s.pg[q]
  <2>1. Overwritten(s.pg, set, page, over.pg)
    BY <1>10, OverAt, Zenon
  <2>. QED  BY <2>1, Zenon DEF Overwritten
<1>12. page.type = "large"
  BY <1>2 DEF LargePage
<1>13. Bounds(s.pg, s.alloc, lv, F, R) /\ H \subseteq 1 .. (s.alloc - 1)
  BY DEF Sound, Tree, Spares
<1>14. \A q \in DOMAIN lv \cup H : over.pg[q] = s.pg[q]
  BY <1>4, <1>6, <1>11, <1>13 DEF Bounds
<1>15. Tree(over.pg, over.alloc, lv, F, R)
  <2>1. Bounds(over.pg, over.alloc, lv, F, R)
    BY <1>10, <1>11, <1>13 DEF Bounds
  <2>2. over.alloc >= s.alloc /\ F \cup R \subseteq F \cup R \cup (s.alloc .. (over.alloc - 1))
    BY <1>10, <1>13 DEF Bounds
  <2>3. \A q \in DOMAIN lv : over.pg[q] = s.pg[q]
    BY <1>14
  <2>4. \A c \in (1 .. (s.alloc - 1)) \ (F \cup R) : s.pg[c].type = "large" => over.pg[c].type = "large"
    BY <1>11, <1>12, <1>13 DEF Bounds
  <2>5. Tree(s.pg, s.alloc, lv, F, R)
    BY DEF Sound
  <2>. QED  BY <2>1, <2>2, <2>3, <2>4, <2>5, PagesChanged
<1>16. Filled(over.pg, lv)
  BY <1>14 DEF Filled, Sound
<1>17. Spares(over, H, base)
  BY <1>4, <1>6, <1>10, <1>14 DEF Sound, Spares
<1>18. Sound(over, H, base, lv, F, R)
  BY <1>10, <1>15, <1>16, <1>17, Zenon DEF Sound
<1>19. PICK S : S = C \ set
  OBVIOUS
<1>20. Frees(over, t, S)
  <2>1. PICK first \in Nat, m \in Int : first = old.ovf + n /\ m = old.n - n
    BY <1>1, <1>5
  <2>2. t = FreePages(over, first, m)
    BY <1>8, <2>1, Zenon
  <2>3. Frees(over, t, first .. (first + m - 1))
    BY <1>10, <2>2, PagesFreed, Zenon
  <2>4. first .. (first + m - 1) = S
    BY <1>6, <1>19, <2>1
  <2>. QED  BY <2>3, <2>4, Zenon
<1>21. PICK g : /\ FreesTo(over, t, g)
                /\ \A F2, H2 : FreeList(over, F2, H2) /\ S \cap (F2 \cup H2) = {}
                                 => FreeList(t, F2 \cup S, H2)
  BY <1>20, Zenon DEF Frees
<1>22. FreeList(t, F \cup S, H)
  <2>1. FreeList(over, F, H)
    BY <1>10, Zenon DEF FreeList
  <2>2. S \cap (F \cup H) = {}
    BY <1>4, <1>19
  <2>. QED  BY <1>21, <2>1, <2>2, Zenon
<1>23. /\ IsState(t) /\ t.pg = over.pg /\ t.dirty = over.dirty /\ t.alloc = over.alloc
       /\ t.tree = over.tree /\ t.failed = over.failed
  BY <1>21, Zenon DEF FreesTo
<1>24. Sound(t, H, base, lv, F, R)
  <2>1. Spares(t, H, base)
    BY <1>17, <1>23, Zenon DEF Spares
  <2>. QED  BY <1>18, <1>23, <2>1, Zenon DEF Sound
<1>25. IsRewritten(s, H, base, lv, F, R, t, S)
  BY <1>10, <1>14, <1>22, <1>23, <1>24 DEF IsRewritten
<1>. QED  BY <1>1, <1>2, <1>19, <1>25

\* A big value that fits the pages of the old one.
InPlace(s, path, old, v) ==
  LET u  == Touch(UpdateOverflowInPlace(s, old, v), path)
      at == Last(u.path)
      es == u.s.pg[at.p].ents
  IN SetEnts(u.s, at.p, ReplaceAt(es, at.i, [es[at.i] EXCEPT !.n = NumPages(v)]))

\* A value replaced where it is leaves a tree whose invariant holds.
LEMMA InPlaceSettles ==
  ASSUME NEW s, NEW H, NEW base, NEW lv, NEW F, NEW R, Sound(s, H, base, lv, F, R),
         FreeList(s, F, H), Rooted(s, lv, R), NEW path, OnPath(s.pg, lv, s.tree.root, path),
         Last(path).i \in Slots(s.pg[Last(path).p].ents),
         NEW old, old = NodeAt(s, path), NEW v \in Vals, NumPages(v) <= old.n,
         NEW t, t = InPlace(s, path, old, v)
  PROVE  Settled(t, H, base)
<1>1. PICK p, i : p = Last(path).p /\ i = Last(path).i
  OBVIOUS
<1>2. p \in DOMAIN lv /\ lv[p] = 1 /\ path # <<>>
  BY <1>1, LeafOf
<1>3. IsPage(s.pg[p], 1)
  BY <1>2 DEF Sound, Tree
<1>4. i \in Slots(s.pg[p].ents) /\ s.pg[p].ents \in Seq(LeafNode)
  BY <1>1, <1>3 DEF IsPage, Kind
<1>5. old = s.pg[p].ents[i]
  <2>1. i \in DOMAIN s.pg[p].ents
    BY <1>4 DEF Slots
  <2>. QED  BY <1>1, <1>2, <2>1, Zenon DEF NodeAt
<1>6. PICK o : o = UpdateOverflowInPlace(s, old, v)
  OBVIOUS
<1>7. PICK C, set, S : /\ C = Claims(1, old) /\ set = old.ovf .. (old.ovf + NumPages(v) - 1)
                       /\ S = C \ set
  OBVIOUS
<1>8. IsRewritten(s, H, base, lv, F, R, o, S)
  BY <1>2, <1>4, <1>5, <1>6, <1>7, OverflowUpdated, Zenon
<1>9. /\ Sound(o, H, base, lv, F, R) /\ FreeList(o, F \cup S, H)
      /\ o.tree = s.tree /\ \A q \in DOMAIN lv : o.pg[q] = s.pg[q]
  BY <1>8, Zenon DEF IsRewritten
<1>10. Rooted(o, lv, R) /\ OnPath(o.pg, lv, o.tree.root, path)
  BY <1>9, PathKept DEF Rooted
<1>11. PICK u : u = Touch(o, path)
  OBVIOUS
<1>12. PICK lv2, R2 : IsCopyOf(o, H, base, F, R, path, u.s, u.path, lv2, R2)
  BY <1>9, <1>10, <1>11, PathTouched, Zenon
<1>13. PICK c, q : c = u.s /\ q = Last(u.path).p
  OBVIOUS
<1>14. /\ Sound(c, H, base, lv2, F, R2) /\ Rooted(c, lv2, R2)
       /\ OnPath(c.pg, lv2, c.tree.root, u.path)
       /\ \A l \in 1 .. Len(u.path) : u.path[l].p \in c.dirty
       /\ Carried(o, c)
       /\ Last(u.path).i = i /\ c.pg[q].ents = o.pg[p].ents
  BY <1>1, <1>12, <1>13, Zenon DEF IsCopyOf
<1>15. q \in DOMAIN lv2 \cap c.dirty /\ lv2[q] = 1
  <2>1. /\ Last(u.path).p \in DOMAIN lv2 /\ lv2[Last(u.path).p] = 1
        /\ Last(u.path) = u.path[Len(u.path)] /\ Len(u.path) \in 1 .. Len(u.path)
    BY <1>14, LeafOf
  <2>2. Last(u.path).p \in c.dirty
    BY <1>14, <2>1
  <2>. QED  BY <1>13, <2>1, <2>2
<1>16. PICK es : es = c.pg[q].ents
  OBVIOUS
<1>17. i \in Slots(es) /\ es[i] = old
  BY <1>2, <1>4, <1>5, <1>9, <1>14, <1>16
<1>18. AreApart(c, H, lv2, F, R2, old, C)
  BY <1>7, <1>14, <1>15, <1>16, <1>17, ClaimsAreApart, Zenon
<1>19. /\ C \subseteq 1 .. (c.alloc - 1) /\ C \cap (F \cup R2 \cup DOMAIN lv2 \cup H) = {}
       /\ \A x \in C : c.pg[x].type = "large" /\ old \in LeafNode
       /\ old \in LeafNode
  BY <1>18, Zenon DEF AreApart
<1>20. PICK node : node = [old EXCEPT !.n = NumPages(v)]
  OBVIOUS
<1>21. node \in LeafNode /\ Claims(1, node) = set /\ set \subseteq C
  <2>1. PICK n \in Nat : n = NumPages(v)
    BY NumPagesIsNat
  <2>2. old.ovf \in Nat /\ old.n \in Nat /\ n <= old.n
    BY <1>19, <2>1 DEF LeafNode
  <2>3. node \in LeafNode /\ node.ovf = old.ovf /\ node.n = n
    BY <1>19, <1>20, <2>1 DEF LeafNode
  <2>. QED  BY <1>7, <2>1, <2>2, <2>3 DEF Claims
<1>22. PICK es2 : es2 = ReplaceAt(es, i, node)
  OBVIOUS
<1>23. t = SetEnts(c, q, es2)
  <2>1. /\ Touch(UpdateOverflowInPlace(s, old, v), path).s = c
        /\ Last(Touch(UpdateOverflowInPlace(s, old, v), path).path).p = q
        /\ Last(Touch(UpdateOverflowInPlace(s, old, v), path).path).i = i
    BY <1>6, <1>11, <1>13, <1>14, Zenon
  <2>2. ReplaceAt(c.pg[q].ents, i, [c.pg[q].ents[i] EXCEPT !.n = NumPages(v)]) = es2
    BY <1>16, <1>17, <1>20, <1>22, Zenon
  <2>. QED  BY <2>1, <2>2, Zenon DEF InPlace
<1>24. GivesUp(c, c, F \cup S, H)
  <2>1. FreesTo(c, c, c.free)
    BY <1>14 DEF FreesTo, Sound
  <2>2. FreeList(c, F \cup S, H)
    <3>1. c.free = o.free
      BY <1>14 DEF Carried
    <3>. QED  BY <1>9, <3>1, Zenon DEF FreeList
  <2>. QED  BY <2>1, <2>2, Zenon DEF GivesUp
<1>25. ASSUME NEW pg2, Rewritten(c.pg, pg2, q, es2) PROVE Tree(pg2, c.alloc, lv2, F \cup S, R2)
  <2>1. Rewritten(c.pg, pg2, q, ReplaceAt(c.pg[q].ents, i, node))
    BY <1>16, <1>22, <1>25, Zenon
  <2>2. /\ q \in DOMAIN lv2 /\ i \in Slots(c.pg[q].ents) /\ old = c.pg[q].ents[i]
        /\ Leads(c.pg, lv2, 1, node) /\ set = Claims(1, node) /\ set \subseteq R2 \cup C
    BY <1>15, <1>16, <1>17, <1>19, <1>21 DEF Leads, Kind
  <2>3. Tree(pg2, c.alloc, lv2, F \cup (C \ set), R2 \ set)
    BY <1>7, <1>14, <1>15, <2>1, <2>2, LeafReplaced, Zenon
  <2>4. R2 \ set = R2
    BY <1>19, <1>21
  <2>. QED  BY <1>7, <2>3, <2>4
<1>26. IsLeafSet(c, H, base, lv2, F \cup S, R2, q, es2, t)
  BY <1>14, <1>15, <1>23, <1>24, <1>25, LeafSet, Zenon
<1>27. Sound(t, H, base, lv2, F \cup S, R2) /\ FreeList(t, F \cup S, H) /\ t.tree = c.tree
  BY <1>26, Zenon DEF IsLeafSet, SameBut
<1>28. Rooted(t, lv2, R2) /\ t.tree.root # NoPage
  <2>1. DOMAIN lv2 \subseteq 1 .. (c.alloc - 1)
    BY <1>14 DEF Sound, Tree, Bounds
  <2>. QED  BY <1>14, <1>27, <2>1 DEF Rooted, NoPage
<1>. QED  BY <1>27, <1>28 DEF Settled, Stands

\* The path a call came by.
Reached(s, lv, R, path) ==
  \/ s.tree.root = NoPage /\ path = <<>>
  \/ Rooted(s, lv, R) /\ OnPath(s.pg, lv, s.tree.root, path)

\* Cursor.put behind the positioning.
LEMMA PutSettles ==
  ASSUME NEW s, NEW H, NEW base, NEW lv, NEW F, NEW R, Sound(s, H, base, lv, F, R),
         FreeList(s, F, H), NEW path, Reached(s, lv, R, path),
         NEW k \in Keys, NEW v \in Vals, NEW t, t = PutAt(s, path, k, v)
  PROVE  Settled(t, H, base)
<1>1. PICK built, node, old : /\ built = BuiltOf(s, k, v) /\ node = NodeOf(s, k, v)
                              /\ old = NodeAt(s, path)
  OBVIOUS
<1>2. PICK u : u = Touch(built, path)
  OBVIOUS
<1>3. t = IF Found(s, path, k) /\ IsBig(k, v) /\ old.ovf # NoPage /\ NumPages(v) <= old.n
          THEN InPlace(s, path, old, v)
          ELSE IF Found(s, path, k) THEN UpdateNode(built, path, node)
          ELSE IF s.tree.root = NoPage THEN CreateRoot(built, node)
          ELSE InsertNode([u.s EXCEPT !.tree.items = @ + 1], u.path, node)
  BY <1>1, <1>2, Zenon DEF PutAt, BuiltOf, NodeOf, InPlace
<1>4. s.tree.root \in 0 .. (s.alloc - 1)
  <2>1. DOMAIN lv \subseteq 1 .. (s.alloc - 1) /\ s.alloc \in Nat \ {0}
    BY DEF Sound, Tree, Bounds
  <2>. QED  BY <2>1 DEF Reached, Rooted, NoPage
<1>5. PICK R2 : IsBuilt(s, H, base, lv, F, R, node, built, R2)
  BY <1>1, <1>4, Built, Zenon
<1>6. CASE s.tree.root = NoPage /\ path = <<>>
  <2>1. ~Found(s, path, k)
    BY <1>6 DEF Found
  <2>2. t = CreateRoot(built, node)
    BY <1>3, <1>6, <2>1, Zenon
  <2>3. Sound(built, H, base, lv, F, R2) /\ Pending(built, lv, R2, 1, node) /\ built.free = s.free
    BY <1>5, Zenon DEF IsBuilt
  <2>4. FreeList(built, F, H)
    BY <2>3, Zenon DEF FreeList
  <2>5. Stands(t, H, base)
    BY <2>2, <2>3, <2>4, RootCreated, Zenon
  <2>. QED  BY <2>5 DEF Settled
<1>7. CASE Rooted(s, lv, R) /\ OnPath(s.pg, lv, s.tree.root, path)
  <2>1. PICK lv3, R3 : /\ IsReady(H, base, F, node, u.s, u.path, lv3, R3)
                       /\ IsCopyOf(built, H, base, F, R2, path, u.s, u.path, lv3, R3)
    BY <1>2, <1>5, <1>7, Ready, Zenon
  <2>2. s.tree.root # NoPage
    BY <1>7 DEF Rooted, Sound, Tree, Bounds, NoPage
  <2>3. CASE Found(s, path, k)
    <3>1. Last(path).i \in Slots(s.pg[Last(path).p].ents)
      <4>1. path # <<>> /\ NodeAt(s, path).k = k /\ k # NoKey
        BY <2>3, LengthsAssumption DEF Found
      <4>2. Last(path).i \in DOMAIN s.pg[Last(path).p].ents
        BY <4>1 DEF NodeAt
      <4>3. Last(path).p \in DOMAIN lv /\ lv[Last(path).p] = 1
        BY <1>7, LeafOf
      <4>4. s.pg[Last(path).p].ents \in Seq(LeafNode)
        BY <4>3 DEF Sound, Tree, IsPage, Kind
      <4>. QED  BY <4>2, <4>4 DEF Slots
    <3>2. CASE IsBig(k, v) /\ old.ovf # NoPage /\ NumPages(v) <= old.n
      <4>1. t = InPlace(s, path, old, v)
        BY <1>3, <2>3, <3>2, Zenon
      <4>. QED  BY <1>1, <1>7, <3>1, <3>2, <4>1, InPlaceSettles, Zenon
    <3>3. CASE ~(IsBig(k, v) /\ old.ovf # NoPage /\ NumPages(v) <= old.n)
      <4>1. t = UpdateNode(built, path, node)
        BY <1>3, <2>3, <3>3, Zenon
      <4>2. Last(u.path).i \in Slots(u.s.pg[Last(u.path).p].ents)
        <5>1. /\ Last(u.path).i = Last(path).i
              /\ u.s.pg[Last(u.path).p].ents = built.pg[Last(path).p].ents
          BY <2>1, Zenon DEF IsCopyOf
        <5>2. Last(path).p \in DOMAIN lv
          BY <1>7, LeafOf
        <5>3. built.pg[Last(path).p] = s.pg[Last(path).p]
          BY <1>5, <5>2 DEF IsBuilt
        <5>. QED  BY <3>1, <5>1, <5>3
      <4>. QED  BY <1>2, <2>1, <4>1, <4>2, UpdateSettles, Zenon
    <3>. QED  BY <3>2, <3>3
  <2>4. CASE ~Found(s, path, k)
    <3>1. t = InsertNode([u.s EXCEPT !.tree.items = @ + 1], u.path, node)
      BY <1>3, <2>2, <2>4, Zenon
    <3>2. PICK c, P, x : c = u.s /\ P = u.path /\ x = c.tree.items + 1
      OBVIOUS
    <3>3. PICK d : d = [c EXCEPT !.tree.items = x]
      OBVIOUS
    <3>4. t = InsertNode(d, P, node)
      BY <3>1, <3>2, <3>3, Zenon
    <3>. QED  BY <2>1, <3>2, <3>3, <3>4, InsertionSettles, Zenon
  <2>. QED  BY <2>3, <2>4
<1>. QED  BY <1>6, <1>7 DEF Reached

------------------------------------------------------------------------------
(* Delete                                                                  *)

\* Pages no node leads to leave the tree and are free.
LEMMA TreeDropped ==
  ASSUME NEW pg, NEW alloc, NEW lv, NEW F, NEW R, Tree(pg, alloc, lv, F, R),
         NEW D \in SUBSET R, NEW T, T = DOMAIN lv \ D,
         NEW pg2, 1 .. (alloc - 1) \subseteq DOMAIN pg2, \A q \in T : pg2[q] = pg[q],
         \A c \in (1 .. (alloc - 1)) \ (F \cup R) : pg[c].type = "large" => pg2[c].type = "large"
  PROVE  Tree(pg2, alloc, Only(lv, T), F \cup D, R \ D)
<1>1. PICK lv2 : lv2 = Only(lv, T)
  OBVIOUS
<1>2. DOMAIN lv2 = T /\ \A q \in T : lv2[q] = lv[q]
  BY <1>1 DEF Only
<1>3. /\ Bounds(pg, alloc, lv, F, R) /\ Nodes(pg, alloc, lv, F, R)
  BY Zenon DEF Tree
<1>4. Tree(pg, alloc, lv2, F, R)
  <2>1. ASSUME NEW p \in T, NEW i \in Slots(pg[p].ents)
        PROVE  lv[p] = 1 \/ pg[p].ents[i].child \in T
    <3>1. p \in DOMAIN lv
      OBVIOUS
    <3>2. /\ Leads(pg, lv, lv[p], pg[p].ents[i])
          /\ Claims(lv[p], pg[p].ents[i]) \subseteq (1 .. (alloc - 1)) \ (F \cup R)
      BY <1>3, <3>1, Zenon DEF Nodes
    <3>. QED  BY <3>2 DEF Leads, Claims
  <2>2. T \in SUBSET DOMAIN lv
    OBVIOUS
  <2>. QED  BY <1>1, <2>1, <2>2, PagesDropped
<1>5. Bounds(pg, alloc, lv2, F, R)
  BY <1>4, Zenon DEF Tree
<1>6. Bounds(pg2, alloc, lv2, F \cup D, R \ D)
  <2>1. (F \cup D) \cap (DOMAIN lv2 \cup (R \ D)) = {}
    BY <1>2, <1>3 DEF Bounds
  <2>. QED  BY <1>5, <2>1 DEF Bounds
<1>7. alloc >= alloc /\ (F \cup D) \cup (R \ D) \subseteq F \cup R \cup (alloc .. (alloc - 1))
  BY <1>3 DEF Bounds
<1>8. \A q \in DOMAIN lv2 : pg2[q] = pg[q]
  BY <1>2
<1>9. Tree(pg2, alloc, lv2, F \cup D, R \ D)
  BY <1>4, <1>6, <1>7, <1>8, PagesChanged
<1>. QED  BY <1>1, <1>9

\* One page freed and the tree's record changed.
FreesPage(s, p, root, height, t) ==
  /\ IsState(t)
  /\ t.pg = s.pg /\ t.dirty = s.dirty /\ t.alloc = s.alloc /\ t.failed = s.failed
  /\ t.tree.root = root /\ t.tree.height = height
  /\ \A F, H : FreeList(s, F, H) /\ p \notin F \cup H => FreeList(t, F \cup {p}, H)

\* A page freed and the root pointer set: one step of the delete's end.
LEMMA FreedAndRerooted ==
  ASSUME NEW s, IsState(s), NEW p \in Nat, NEW f, f = FreePage(s, p),
         NEW root, NEW height, NEW t, Reroots(f, t, root, height)
  PROVE  FreesPage(s, p, root, height, t)
<1>1. Frees(s, f, {p})
  BY PageFreed, Zenon
<1>2. PICK g : /\ FreesTo(s, f, g)
               /\ \A F, H : FreeList(s, F, H) /\ {p} \cap (F \cup H) = {} => FreeList(f, F \cup {p}, H)
  BY <1>1, Zenon DEF Frees
<1>3. /\ IsState(t) /\ t.pg = s.pg /\ t.dirty = s.dirty /\ t.alloc = s.alloc /\ t.failed = s.failed
      /\ t.tree.root = root /\ t.tree.height = height /\ t.free = f.free
  BY <1>2, Zenon DEF FreesTo, Reroots
<1>4. ASSUME NEW F, NEW H, FreeList(s, F, H), p \notin F \cup H PROVE FreeList(t, F \cup {p}, H)
  <2>1. {p} \cap (F \cup H) = {}
    BY <1>4
  <2>2. FreeList(f, F \cup {p}, H)
    BY <1>2, <1>4, <2>1, Zenon
  <2>. QED  BY <1>3, <2>2, Zenon DEF FreeList
<1>. QED  BY <1>3, <1>4, Zenon DEF FreesPage

\* t's pages but those of D are the ones of pg, and as they must be.
Drops(s, H, lv, F, S, pg, D, T, t) ==
  /\ D \in SUBSET S /\ T = DOMAIN lv \ D
  /\ IsState(t) /\ t.alloc = s.alloc /\ t.dirty \subseteq s.dirty
  /\ DOMAIN s.pg \subseteq DOMAIN t.pg
  /\ \A q \in H : t.pg[q] = s.pg[q]
  /\ \A q \in T : t.pg[q] = pg[q] /\ (lv[q] # 1 => pg[q].ents # <<>>)
  /\ \A c \in (1 .. (s.alloc - 1)) \ (F \cup S) : pg[c].type = "large" => t.pg[c].type = "large"

\* A state whose pages but those of D are the ones of a tree.
LEMMA SoundDropped ==
  ASSUME NEW s, NEW H, NEW base, NEW lv, NEW F, NEW R, Sound(s, H, base, lv, F, R),
         NEW pg, NEW S, Tree(pg, s.alloc, lv, F, S), NEW D, NEW T, NEW t,
         Drops(s, H, lv, F, S, pg, D, T, t)
  PROVE  Sound(t, H, base, Only(lv, T), F \cup D, S \ D)
<1>0. /\ D \in SUBSET S /\ T = DOMAIN lv \ D
      /\ IsState(t) /\ t.alloc = s.alloc /\ t.dirty \subseteq s.dirty
      /\ DOMAIN s.pg \subseteq DOMAIN t.pg
      /\ \A q \in H : t.pg[q] = s.pg[q]
      /\ \A q \in T : t.pg[q] = pg[q] /\ (lv[q] # 1 => pg[q].ents # <<>>)
      /\ \A c \in (1 .. (s.alloc - 1)) \ (F \cup S) : pg[c].type = "large" => t.pg[c].type = "large"
  BY Zenon DEF Drops
<1>. USE <1>0
<1>1. 1 .. (s.alloc - 1) \subseteq DOMAIN s.pg
  BY DEF Sound, Tree, Bounds
<1>2. PICK alloc, pg2, lv2 : alloc = s.alloc /\ pg2 = t.pg /\ lv2 = Only(lv, T)
  OBVIOUS
<1>3. Tree(pg2, alloc, lv2, F \cup D, S \ D)
  <2>1. Tree(pg, alloc, lv, F, S) /\ 1 .. (alloc - 1) \subseteq DOMAIN pg2 /\ \A q \in T : pg2[q] = pg[q]
    BY <1>1, <1>2
  <2>2. \A c \in (1 .. (alloc - 1)) \ (F \cup S) : pg[c].type = "large" => pg2[c].type = "large"
    BY <1>2
  <2>3. Tree(pg2, alloc, Only(lv, T), F \cup D, S \ D)
    BY <2>1, <2>2, TreeDropped
  <2>. QED  BY <1>2, <2>3
<1>4. Tree(t.pg, t.alloc, lv2, F \cup D, S \ D)
  BY <1>2, <1>3
<1>5. Filled(t.pg, lv2)
  <2>1. DOMAIN lv2 = T /\ \A q \in T : lv2[q] = lv[q]
    BY <1>2 DEF Only
  <2>. QED  BY <2>1 DEF Filled
<1>6. Spares(t, H, base)
  BY DEF Sound, Spares
<1>7. Sound(t, H, base, lv2, F \cup D, S \ D)
  BY <1>4, <1>5, <1>6, Zenon DEF Sound
<1>. QED  BY <1>2, <1>7

\* The count of leaves is no part of a tree's shape.
LEMMA LeavesSet ==
  ASSUME NEW s, IsState(s), NEW x, NEW t, t = [s EXCEPT !.tree.leaves = x]
  PROVE  Reroots(s, t, s.tree.root, s.tree.height)
<1>1. IsState(t) /\ t.tree.root = s.tree.root /\ t.tree.height = s.tree.height
  BY Zenon DEF IsState, IsTree
<1>2. /\ t.pg = s.pg /\ t.dirty = s.dirty /\ t.free = s.free
      /\ t.alloc = s.alloc /\ t.failed = s.failed
  BY Zenon DEF IsState
<1>. QED  BY <1>1, <1>2 DEF Reroots

\* A root pointer moved one level down.
LEMMA RootSunk ==
  ASSUME NEW s, IsState(s), NEW q, NEW h, NEW t,
         t = [s EXCEPT !.tree.root = q, !.tree.height = h]
  PROVE  Reroots(s, t, q, h)
<1>1. IsState(t) /\ t.tree.root = q /\ t.tree.height = h
  BY Zenon DEF IsState, IsTree
<1>2. /\ t.pg = s.pg /\ t.dirty = s.dirty /\ t.free = s.free
      /\ t.alloc = s.alloc /\ t.failed = s.failed
  BY Zenon DEF IsState
<1>. QED  BY <1>1, <1>2 DEF Reroots

\* The tree without pages.
LEMMA TreeEmptied ==
  ASSUME NEW s, IsState(s), NEW q, NEW h, NEW l, NEW t,
         t = [s EXCEPT !.tree.root = q, !.tree.height = h, !.tree.leaves = l]
  PROVE  Reroots(s, t, q, h)
<1>1. IsState(t) /\ t.tree.root = q /\ t.tree.height = h
  BY Zenon DEF IsState, IsTree
<1>2. /\ t.pg = s.pg /\ t.dirty = s.dirty /\ t.free = s.free
      /\ t.alloc = s.alloc /\ t.failed = s.failed
  BY Zenon DEF IsState
<1>. QED  BY <1>1, <1>2 DEF Reroots

\* A leaf freed; an entry taken from its parent.
GoneOf(s, p) == [FreePage(s, p) EXCEPT !.tree.leaves = @ - 1]
KeptOf(gone, r, rest, x) == Write(gone, r, [gone.pg[r] EXCEPT !.ents = rest, !.stale = x])

\* The parent's entries without the one of a page that is gone.
IsKept(s, H, base, lv, F, R, r, p, rest, kept) ==
  /\ IsState(kept)
  /\ kept.alloc = s.alloc /\ kept.failed = s.failed /\ kept.dirty = s.dirty
  /\ kept.tree.root = s.tree.root /\ kept.tree.height = s.tree.height
  /\ FreeList(kept, F \cup {p}, H)
  /\ Rewritten(s.pg, kept.pg, r, rest)
  /\ Tree(kept.pg, s.alloc, lv, F, R \cup {p})

\* The parent of an emptied leaf loses the node that led to it.
LEMMA ParentCut ==
  ASSUME NEW s, NEW H, NEW base, NEW lv, NEW F, NEW R, Sound(s, H, base, lv, F, R),
         FreeList(s, F, H), NEW r \in DOMAIN lv \cap s.dirty, lv[r] = 2,
         NEW j \in Slots(s.pg[r].ents), NEW p \in s.dirty \cap DOMAIN lv, p = s.pg[r].ents[j].child,
         NEW rest, rest = RemoveAt(s.pg[r].ents, j),
         NEW gone, gone = GoneOf(s, p), NEW x,
         NEW kept, kept = KeptOf(gone, r, rest, x)
  PROVE  IsKept(s, H, base, lv, F, R, r, p, rest, kept)
<1>1. /\ IsState(s) /\ p \in Nat /\ p \notin F \cup H /\ IsPage(s.pg[r], 2)
      /\ 1 .. (s.alloc - 1) \subseteq DOMAIN s.pg /\ DOMAIN lv \subseteq 1 .. (s.alloc - 1)
  <2>1. /\ IsState(s) /\ Tree(s.pg, s.alloc, lv, F, R) /\ Spares(s, H, base)
    BY Zenon DEF Sound
  <2>2. Bounds(s.pg, s.alloc, lv, F, R) /\ \A q \in DOMAIN lv : IsPage(s.pg[q], lv[q])
    BY <2>1, Zenon DEF Tree
  <2>3. p \in DOMAIN lv /\ p \in s.dirty /\ r \in DOMAIN lv
    OBVIOUS
  <2>4. IsPage(s.pg[r], 2)
    <3>1. IsPage(s.pg[r], lv[r])
      BY <2>2, <2>3, Zenon
    <3>2. lv[r] = 2
      OBVIOUS
    <3>. QED  BY <3>1, <3>2, Zenon
  <2>5. p \notin F /\ p \in Nat /\ 1 .. (s.alloc - 1) \subseteq DOMAIN s.pg
        /\ DOMAIN lv \subseteq 1 .. (s.alloc - 1)
    BY <2>2, <2>3 DEF Bounds
  <2>6. p \notin H
    BY <2>1, <2>3 DEF Spares
  <2>. QED  BY <2>1, <2>4, <2>5, <2>6, Zenon
<1>2. PICK f : f = FreePage(s, p)
  OBVIOUS
<1>3. FreesPage(s, p, s.tree.root, s.tree.height, gone)
  <2>1. IsState(f) /\ f.tree = s.tree
    <3>1. Frees(s, f, {p})
      BY <1>1, <1>2, PageFreed, Zenon
    <3>. QED  BY <3>1, Zenon DEF Frees, FreesTo
  <2>2. PICK y : y = f.tree.leaves - 1
    OBVIOUS
  <2>3. gone = [f EXCEPT !.tree.leaves = y]
    BY <1>2, <2>2, Zenon DEF GoneOf
  <2>4. Reroots(f, gone, f.tree.root, f.tree.height)
    BY <2>1, <2>3, LeavesSet, Zenon
  <2>5. Reroots(f, gone, s.tree.root, s.tree.height)
    BY <2>1, <2>4, Zenon
  <2>. QED  BY <1>1, <1>2, <2>5, FreedAndRerooted, Zenon
<1>4. /\ IsState(gone)
      /\ gone.pg = s.pg /\ gone.dirty = s.dirty /\ gone.alloc = s.alloc /\ gone.failed = s.failed
      /\ gone.tree.root = s.tree.root /\ gone.tree.height = s.tree.height
      /\ FreeList(gone, F \cup {p}, H)
  BY <1>1, <1>3, Zenon DEF FreesPage
<1>5. PICK old, page : old = gone.pg[r] /\ page = [old EXCEPT !.ents = rest, !.stale = x]
  OBVIOUS
<1>6. IsPage(old, 2) /\ old = s.pg[r]
  BY <1>1, <1>4, <1>5, Zenon
<1>7. page = [type |-> page.type, ents |-> page.ents, stale |-> page.stale]
      /\ page.type = old.type /\ page.ents = rest
  BY <1>5, <1>6, Zenon DEF IsPage
<1>8. IsWritten(gone, r, page, kept)
  <2>1. kept = Write(gone, r, page)
    BY <1>5, Zenon DEF KeptOf
  <2>2. IsState(gone)
    BY <1>4, Zenon
  <2>. QED  BY <2>1, <2>2, Written, Zenon
<1>9. /\ IsState(kept) /\ kept.free = gone.free /\ kept.alloc = s.alloc /\ kept.tree = gone.tree
      /\ kept.failed = s.failed /\ kept.pg = Over(s.pg, {r}, page) /\ kept.dirty = s.dirty \cup {r}
  BY <1>4, <1>8, Zenon DEF IsWritten, SameBut
<1>10. OnePage(s.pg, r, page, kept.pg)
  BY <1>9, OnePageOver, Zenon
<1>11. Rewritten(s.pg, kept.pg, r, rest)
  <2>1. r \in DOMAIN s.pg
    BY <1>1
  <2>2. DOMAIN kept.pg = DOMAIN s.pg /\ kept.pg[r] = page
        /\ \A q \in DOMAIN s.pg \ {r} : kept.pg[q] = s.pg[q]
    BY <1>10, <2>1 DEF OnePage
  <2>. QED  BY <1>6, <1>7, <2>2, Zenon DEF Rewritten
<1>12. Tree(kept.pg, s.alloc, lv, F, R \cup {p})
  <2>1. Tree(s.pg, s.alloc, lv, F, R)
    BY DEF Sound
  <2>2. Rewritten(s.pg, kept.pg, r, RemoveAt(s.pg[r].ents, j))
    BY <1>11, Zenon
  <2>3. Tree(kept.pg, s.alloc, lv, F, R \cup Claims(lv[r], s.pg[r].ents[j]))
    BY <2>1, <2>2, NodeRemoved
  <2>4. Claims(lv[r], s.pg[r].ents[j]) = {p}
    <3>1. lv[r] = 2 /\ p = s.pg[r].ents[j].child
      OBVIOUS
    <3>. QED  BY <3>1 DEF Claims
  <2>. QED  BY <2>3, <2>4, Zenon
<1>13. FreeList(kept, F \cup {p}, H) /\ kept.dirty = s.dirty
  BY <1>4, <1>9 DEF FreeList
<1>. QED  BY <1>4, <1>9, <1>11, <1>12, <1>13, Zenon DEF IsKept

\* The tree with page r free besides p, whatever becomes of the root.
IsDropped(s, H, base, lv, F, S, p, r, t) ==
  /\ Sound(t, H, base, Only(lv, DOMAIN lv \ {p, r}), F \cup {p, r}, S \ {p, r})
  /\ FreeList(t, F \cup {p, r}, H)

\* When the root's only child takes its place the root's page is free too.
LEMMA RootDropped ==
  ASSUME NEW s, NEW H, NEW base, NEW lv, NEW F, NEW R, Sound(s, H, base, lv, F, R),
         NEW r \in DOMAIN lv \cap s.dirty \cap R, NEW p, p # r,
         NEW rest, NEW kept, IsKept(s, H, base, lv, F, R, r, p, rest, kept),
         NEW root, NEW height, NEW t, FreesPage(kept, r, root, height, t),
         NEW pg, NEW S, Tree(pg, s.alloc, lv, F, S), {p, r} \subseteq S,
         \A q \in DOMAIN s.pg \ {r} : pg[q] = s.pg[q], pg[r].type = s.pg[r].type
  PROVE  IsDropped(s, H, base, lv, F, S, p, r, t)
<1>1. /\ IsState(t) /\ t.pg = kept.pg /\ t.dirty = s.dirty /\ t.alloc = s.alloc
      /\ Rewritten(s.pg, t.pg, r, rest)
      /\ FreeList(kept, F \cup {p}, H)
      /\ \A F2, H2 : FreeList(kept, F2, H2) /\ r \notin F2 \cup H2 => FreeList(t, F2 \cup {r}, H2)
  BY Zenon DEF IsKept, FreesPage
<1>2. /\ DOMAIN t.pg = DOMAIN s.pg /\ \A q \in DOMAIN s.pg \ {r} : t.pg[q] = s.pg[q]
      /\ t.pg[r].type = s.pg[r].type
  BY <1>1, Zenon DEF Rewritten
<1>3. /\ DOMAIN lv \subseteq 1 .. (s.alloc - 1) /\ 1 .. (s.alloc - 1) \subseteq DOMAIN s.pg
      /\ r \notin F /\ r \notin H /\ H \subseteq 1 .. (s.alloc - 1)
  BY DEF Sound, Tree, Bounds, Spares
<1>4. FreeList(t, F \cup {p, r}, H)
  <2>1. r \notin (F \cup {p}) \cup H
    BY <1>3
  <2>2. FreeList(t, (F \cup {p}) \cup {r}, H)
    BY <1>1, <2>1, Zenon
  <2>3. (F \cup {p}) \cup {r} = F \cup {p, r}
    OBVIOUS
  <2>. QED  BY <2>2, <2>3, Zenon
<1>5. PICK D, T : D = {p, r} /\ T = DOMAIN lv \ D
  OBVIOUS
<1>6. \A q \in H : t.pg[q] = s.pg[q]
  BY <1>2, <1>3
<1>7. \A q \in T : t.pg[q] = pg[q] /\ (lv[q] # 1 => pg[q].ents # <<>>)
  <2>. TAKE q \in T
  <2>1. q \in DOMAIN lv /\ q \in DOMAIN s.pg \ {r}
    BY <1>3, <1>5
  <2>2. Filled(s.pg, lv)
    BY DEF Sound
  <2>. QED  BY <1>2, <2>1, <2>2 DEF Filled
<1>8. \A c \in (1 .. (s.alloc - 1)) \ (F \cup S) : pg[c].type = "large" => t.pg[c].type = "large"
  BY <1>2, <1>3
<1>9. DOMAIN s.pg \subseteq DOMAIN t.pg /\ D \in SUBSET S /\ t.dirty \subseteq s.dirty
  BY <1>1, <1>2, <1>5
<1>10. Sound(t, H, base, Only(lv, T), F \cup D, S \ D)
  <2>1. Drops(s, H, lv, F, S, pg, D, T, t)
    BY <1>1, <1>5, <1>6, <1>7, <1>8, <1>9, Zenon DEF Drops
  <2>. QED  BY <2>1, SoundDropped, Zenon
<1>. QED  BY <1>4, <1>5, <1>10, Zenon DEF IsDropped

\* A parent with entries left stays.
LEMMA ParentStays ==
  ASSUME NEW s, NEW H, NEW base, NEW lv, NEW F, NEW R, Sound(s, H, base, lv, F, R),
         Rooted(s, lv, R), NEW r \in DOMAIN lv \cap s.dirty, NEW p, p # r, p # s.tree.root,
         NEW rest, rest # <<>>, NEW kept, IsKept(s, H, base, lv, F, R, r, p, rest, kept)
  PROVE  Stands(kept, H, base)
<1>1. /\ IsState(kept) /\ kept.dirty = s.dirty /\ kept.alloc = s.alloc
      /\ kept.tree.root = s.tree.root /\ kept.tree.height = s.tree.height
      /\ Rewritten(s.pg, kept.pg, r, rest)
      /\ FreeList(kept, F \cup {p}, H)
      /\ Tree(kept.pg, s.alloc, lv, F, R \cup {p})
  BY Zenon DEF IsKept
<1>2. /\ DOMAIN kept.pg = DOMAIN s.pg /\ \A q \in DOMAIN s.pg \ {r} : kept.pg[q] = s.pg[q]
      /\ kept.pg[r].ents = rest
  BY <1>1, Zenon DEF Rewritten
<1>3. /\ DOMAIN lv \subseteq 1 .. (s.alloc - 1) /\ 1 .. (s.alloc - 1) \subseteq DOMAIN s.pg
      /\ r \notin H /\ H \subseteq 1 .. (s.alloc - 1)
  BY DEF Sound, Tree, Bounds, Spares
<1>4. PICK D, T, S : D = {p} /\ T = DOMAIN lv \ D /\ S = R \cup {p}
  OBVIOUS
<1>5. \A q \in H : kept.pg[q] = s.pg[q]
  BY <1>2, <1>3
<1>6. \A q \in T : kept.pg[q] = kept.pg[q] /\ (lv[q] # 1 => kept.pg[q].ents # <<>>)
  <2>. TAKE q \in T
  <2>1. q \in DOMAIN lv /\ q \in DOMAIN s.pg
    BY <1>3, <1>4
  <2>2. Filled(s.pg, lv)
    BY DEF Sound
  <2>. QED  BY <1>2, <2>1, <2>2 DEF Filled
<1>7. PICK pg : pg = kept.pg
  OBVIOUS
<1>8. Sound(kept, H, base, Only(lv, T), F \cup D, S \ D)
  <2>1. Tree(pg, s.alloc, lv, F, S) /\ D \in SUBSET S /\ DOMAIN s.pg \subseteq DOMAIN kept.pg
        /\ kept.dirty \subseteq s.dirty
    BY <1>1, <1>2, <1>4, <1>7
  <2>2. \A c \in (1 .. (s.alloc - 1)) \ (F \cup S) : pg[c].type = "large" => kept.pg[c].type = "large"
    BY <1>7
  <2>3. \A q \in T : kept.pg[q] = pg[q] /\ (lv[q] # 1 => pg[q].ents # <<>>)
    BY <1>6, <1>7
  <2>4. Drops(s, H, lv, F, S, pg, D, T, kept)
    BY <1>1, <1>4, <1>5, <2>1, <2>2, <2>3, Zenon DEF Drops
  <2>. QED  BY <2>1, <2>4, SoundDropped, Zenon
<1>9. PICK lv2 : lv2 = Only(lv, T)
  OBVIOUS
<1>10. DOMAIN lv2 = T /\ \A q \in T : lv2[q] = lv[q]
  BY <1>9 DEF Only
<1>11. Rooted(kept, lv2, S \ D)
  BY <1>1, <1>4, <1>10 DEF Rooted
<1>12. kept.tree.root # NoPage
  BY <1>1, <1>3 DEF Rooted, NoPage
<1>13. Sound(kept, H, base, lv2, F \cup D, S \ D) /\ FreeList(kept, F \cup D, H)
  BY <1>1, <1>4, <1>8, <1>9, Zenon
<1>. QED  BY <1>11, <1>12, <1>13, Zenon DEF Stands

\* The leaf at the end of a path of two pages is gone, and so is the root.
RootGoneOf(kept, r)     == [FreePage(kept, r) EXCEPT !.tree.root = NoPage, !.tree.height = 0]
RootSunkOf(kept, r, q)  == [FreePage(kept, r) EXCEPT !.tree.root = q, !.tree.height = @ - 1]

\* What the branches of freeEmptyPage leave.
EmptiedTo(s, path, r, i, p, kept, t) ==
  /\ r = path[1].p /\ i = path[1].i /\ p = Last(path).p
  /\ \E rest, x : /\ rest = RemoveAt(s.pg[r].ents, i)
                  /\ kept = KeptOf(GoneOf(s, p), r, rest, x)
                  /\ \/ Len(rest) > 1 /\ t = kept
                     \/ rest = <<>> /\ t = RootGoneOf(kept, r)
                     \/ ~(Len(rest) > 1) /\ rest # <<>> /\ t = RootSunkOf(kept, r, rest[1].child)

\* freeEmptyPage with the names of its pages given.
EmptyAt(s, n, p, r, i, es) ==
  LET rest  == RemoveAt(es, i)
      x     == IF rest = <<>> THEN es[i].child ELSE GoneOf(s, p).pg[r].stale
      kept  == KeptOf(GoneOf(s, p), r, rest, x)
  IN IF i \notin DOMAIN es THEN Failed(GoneOf(s, p))
     ELSE IF n > 2 \/ Len(rest) > 1 THEN kept
     ELSE IF rest = <<>> THEN RootGoneOf(kept, r)
     ELSE RootSunkOf(kept, r, rest[1].child)

\* FreeEmptyPage by the parts it is made of.
LEMMA EmptiedAt ==
  ASSUME NEW s, NEW path, NEW t, t = FreeEmptyPage(s, path)
  PROVE  t = EmptyAt(s, Len(path), Last(path).p, path[Len(path) - 1].p, path[Len(path) - 1].i,
                     s.pg[path[Len(path) - 1].p].ents)
BY DEF FreeEmptyPage, EmptyAt, RootGoneOf, RootSunkOf, KeptOf, GoneOf

\* On a path of two pages FreeEmptyPage takes the leaf from its parent, and
\* lets the root give way when one child is left.
LEMMA PageEmptied ==
  ASSUME NEW s, NEW path, Len(path) = 2, path[1].i \in DOMAIN s.pg[path[1].p].ents,
         NEW t, t = FreeEmptyPage(s, path)
  PROVE  \E r, i, p, kept : EmptiedTo(s, path, r, i, p, kept, t)
<1>1. Len(path) - 1 = 1 /\ ~(Len(path) > 2)
  OBVIOUS
<1>2. PICK r, i, p : r = path[1].p /\ i = path[1].i /\ p = Last(path).p
  OBVIOUS
<1>3. PICK rest, x : /\ rest = RemoveAt(s.pg[r].ents, i)
                     /\ x = IF rest = <<>> THEN s.pg[r].ents[i].child ELSE GoneOf(s, p).pg[r].stale
  OBVIOUS
<1>4. PICK kept : kept = KeptOf(GoneOf(s, p), r, rest, x)
  OBVIOUS
<1>5. i \in DOMAIN s.pg[r].ents
  BY <1>2, Zenon
<1>6. t = IF Len(rest) > 1 THEN kept
          ELSE IF rest = <<>> THEN RootGoneOf(kept, r) ELSE RootSunkOf(kept, r, rest[1].child)
  <2>1. path[Len(path) - 1] = path[1]
    BY <1>1, Zenon
  <2>2. PICK up : up = path[Len(path) - 1]
    OBVIOUS
  <2>3. t = EmptyAt(s, Len(path), Last(path).p, up.p, up.i, s.pg[up.p].ents)
    BY <2>2, EmptiedAt, Zenon
  <2>4. up.p = r /\ up.i = i
    BY <1>2, <2>1, <2>2, Zenon
  <2>5. PICK n, es : n = Len(path) /\ es = s.pg[r].ents
    OBVIOUS
  <2>6. t = EmptyAt(s, n, p, r, i, es)
    BY <1>2, <2>3, <2>4, <2>5, Zenon
  <2>7. i \in DOMAIN es /\ ~(n > 2) /\ rest = RemoveAt(es, i)
    BY <1>1, <1>3, <1>5, <2>5, Zenon
  <2>8. kept = KeptOf(GoneOf(s, p), r, RemoveAt(es, i),
                      IF RemoveAt(es, i) = <<>> THEN es[i].child ELSE GoneOf(s, p).pg[r].stale)
    BY <1>3, <1>4, <2>5, Zenon
  <2>9. t = IF i \notin DOMAIN es THEN Failed(GoneOf(s, p))
            ELSE IF n > 2 \/ Len(rest) > 1 THEN kept
            ELSE IF rest = <<>> THEN RootGoneOf(kept, r) ELSE RootSunkOf(kept, r, rest[1].child)
    BY <2>6, <2>7, <2>8, Zenon DEF EmptyAt
  <2>. QED  BY <2>7, <2>9, Zenon
<1>7. \/ Len(rest) > 1 /\ t = kept
      \/ rest = <<>> /\ t = RootGoneOf(kept, r)
      \/ ~(Len(rest) > 1) /\ rest # <<>> /\ t = RootSunkOf(kept, r, rest[1].child)
  <2>1. CASE Len(rest) > 1
    BY <1>6, <2>1, Zenon
  <2>2. CASE ~(Len(rest) > 1) /\ rest = <<>>
    BY <1>6, <2>2, Zenon
  <2>3. CASE ~(Len(rest) > 1) /\ rest # <<>>
    BY <1>6, <2>3, Zenon
  <2>. QED  BY <2>1, <2>2, <2>3, Zenon
<1>8. EmptiedTo(s, path, r, i, p, kept, t)
  BY <1>2, <1>3, <1>4, <1>7, Zenon DEF EmptiedTo
<1>. QED  BY <1>8, Zenon

\* A root without entries goes with its last leaf.
LEMMA RootGone ==
  ASSUME NEW s, NEW H, NEW base, NEW lv, NEW F, NEW R, Sound(s, H, base, lv, F, R),
         NEW r \in DOMAIN lv \cap s.dirty \cap R, NEW p, p # r,
         NEW rest, NEW kept, IsKept(s, H, base, lv, F, R, r, p, rest, kept),
         NEW t, t = RootGoneOf(kept, r)
  PROVE  Stands(t, H, base)
<1>1. IsState(kept) /\ Tree(kept.pg, s.alloc, lv, F, R \cup {p}) /\ Rewritten(s.pg, kept.pg, r, rest)
  BY Zenon DEF IsKept
<1>2. r \in Nat
  BY DEF Sound, Tree, Bounds
<1>3. PICK f : f = FreePage(kept, r)
  OBVIOUS
<1>4. IsState(f)
  <2>1. Frees(kept, f, {r})
    BY <1>1, <1>2, <1>3, PageFreed, Zenon
  <2>. QED  BY <2>1, Zenon DEF Frees, FreesTo
<1>5. Reroots(f, t, NoPage, 0)
  <2>1. t = [f EXCEPT !.tree.root = NoPage, !.tree.height = 0]
    BY <1>3, Zenon DEF RootGoneOf
  <2>. QED  BY <1>4, <2>1, RootSunk, Zenon
<1>6. FreesPage(kept, r, NoPage, 0, t)
  BY <1>1, <1>2, <1>3, <1>5, FreedAndRerooted, Zenon
<1>7. PICK pg, S : pg = kept.pg /\ S = R \cup {p}
  OBVIOUS
<1>8. \A q \in DOMAIN s.pg \ {r} : pg[q] = s.pg[q]
  BY <1>1, <1>7 DEF Rewritten
<1>9. pg[r].type = s.pg[r].type
  BY <1>1, <1>7 DEF Rewritten
<1>10. Tree(pg, s.alloc, lv, F, S) /\ {p, r} \subseteq S
  BY <1>1, <1>7
<1>11. IsDropped(s, H, base, lv, F, S, p, r, t)
  BY <1>6, <1>8, <1>9, <1>10, RootDropped, Zenon
<1>12. t.tree.root = NoPage /\ t.tree.height = 0
  BY <1>6, Zenon DEF FreesPage
<1>. QED  BY <1>11, <1>12, Zenon DEF IsDropped, Stands

\* A root with one child gives way to it.
LEMMA RootGivesWay ==
  ASSUME NEW s, NEW H, NEW base, NEW lv, NEW F, NEW R, Sound(s, H, base, lv, F, R),
         NEW r \in DOMAIN lv \cap s.dirty \cap R, lv[r] = 2, s.tree.height = 2, NEW p, p # r,
         NEW rest, Slots(rest) = {1},
         NEW kept, IsKept(s, H, base, lv, F, R, r, p, rest, kept),
         NEW q, q = rest[1].child, NEW t, t = RootSunkOf(kept, r, q)
  PROVE  Stands(t, H, base)
<1>1. IsState(kept) /\ Tree(kept.pg, s.alloc, lv, F, R \cup {p}) /\ Rewritten(s.pg, kept.pg, r, rest)
      /\ kept.tree.height = 2
  BY Zenon DEF IsKept
<1>2. r \in Nat /\ r \in DOMAIN lv /\ r \in DOMAIN kept.pg
  BY <1>1 DEF Tree, Bounds
<1>3. PICK f, h : f = FreePage(kept, r) /\ h = f.tree.height - 1
  OBVIOUS
<1>4. IsState(f) /\ f.tree = kept.tree
  <2>1. Frees(kept, f, {r})
    BY <1>1, <1>2, <1>3, PageFreed, Zenon
  <2>. QED  BY <2>1, Zenon DEF Frees, FreesTo
<1>5. Reroots(f, t, q, h)
  <2>1. t = [f EXCEPT !.tree.root = q, !.tree.height = h]
    BY <1>3, Zenon DEF RootSunkOf
  <2>. QED  BY <1>4, <2>1, RootSunk, Zenon
<1>6. FreesPage(kept, r, q, h, t)
  BY <1>1, <1>2, <1>3, <1>5, FreedAndRerooted, Zenon
<1>7. h = 1
  <2>1. f.tree.height = 2
    BY <1>1, <1>4, Zenon
  <2>. QED  BY <1>3, <2>1
<1>8. PICK pg2, S2, alloc : pg2 = kept.pg /\ S2 = R \cup {p} /\ alloc = s.alloc
  OBVIOUS
<1>9. pg2[r].ents = rest /\ 1 \in Slots(pg2[r].ents) /\ Claims(lv[r], pg2[r].ents[1]) = {q}
  <2>1. pg2[r].ents = rest
    BY <1>1, <1>8, Zenon DEF Rewritten
  <2>. QED  BY <2>1 DEF Claims
<1>10. Tree(pg2, alloc, lv, F, S2)
  BY <1>1, <1>8, Zenon
<1>11. q \in DOMAIN lv /\ lv[q] = 1 /\ q \notin S2
  <2>1. /\ Leads(pg2, lv, lv[r], pg2[r].ents[1])
        /\ Claims(lv[r], pg2[r].ents[1]) \subseteq (1 .. (alloc - 1)) \ (F \cup S2)
    BY <1>2, <1>9, <1>10, Zenon DEF Tree, Nodes
  <2>2. q \notin S2
    BY <1>9, <2>1
  <2>3. q \in DOMAIN lv /\ lv[q] = lv[r] - 1
    <3>1. lv[r] # 1 /\ pg2[r].ents[1].child = q
      BY <1>9
    <3>. QED  BY <2>1, <3>1, Zenon DEF Leads
  <2>. QED  BY <2>2, <2>3
<1>12. PICK es3 : es3 = RemoveAt(pg2[r].ents, 1)
  OBVIOUS
<1>13. PICK pg3 : Rewritten(pg2, pg3, r, es3)
  <2>1. IsPage(pg2[r], lv[r])
    BY <1>2, <1>10, Zenon DEF Tree
  <2>. QED  BY <1>2, <1>8, <2>1, RewrittenExists, Zenon
<1>14. Tree(pg3, alloc, lv, F, S2 \cup {q})
  <2>1. Tree(pg3, alloc, lv, F, S2 \cup Claims(lv[r], pg2[r].ents[1]))
    BY <1>2, <1>9, <1>10, <1>12, <1>13, NodeRemoved, Zenon
  <2>. QED  BY <1>9, <2>1, Zenon
<1>15. /\ \A c \in DOMAIN s.pg \ {r} : pg3[c] = s.pg[c]
       /\ pg3[r].type = s.pg[r].type
  <2>1. DOMAIN pg2 = DOMAIN s.pg /\ pg2[r].type = s.pg[r].type
        /\ \A c \in DOMAIN s.pg \ {r} : pg2[c] = s.pg[c]
    BY <1>1, <1>8, Zenon DEF Rewritten
  <2>2. pg3[r].type = pg2[r].type /\ \A c \in DOMAIN pg2 \ {r} : pg3[c] = pg2[c]
    BY <1>13, Zenon DEF Rewritten
  <2>. QED  BY <2>1, <2>2
<1>16. PICK S : S = S2 \cup {q}
  OBVIOUS
<1>17. {p, r} \subseteq S
  BY <1>8, <1>16
<1>18. IsDropped(s, H, base, lv, F, S, p, r, t)
  <2>1. Tree(pg3, s.alloc, lv, F, S)
    BY <1>8, <1>14, <1>16, Zenon
  <2>. QED  BY <1>6, <1>15, <1>17, <2>1, RootDropped, Zenon
<1>19. t.tree.root = q /\ t.tree.height = 1
  BY <1>6, <1>7, Zenon DEF FreesPage
<1>20. PICK lv2 : lv2 = Only(lv, DOMAIN lv \ {p, r})
  OBVIOUS
<1>21. q \in DOMAIN lv2 /\ lv2[q] = 1 /\ q \in S \ {p, r}
  BY <1>8, <1>11, <1>16, <1>20 DEF Only
<1>22. Rooted(t, lv2, S \ {p, r}) /\ t.tree.root # NoPage
  <2>1. q # NoPage
    BY <1>10, <1>11 DEF Tree, Bounds, NoPage
  <2>. QED  BY <1>19, <1>21, <2>1, Zenon DEF Rooted
<1>. QED  BY <1>18, <1>20, <1>22, Zenon DEF IsDropped, Stands

\* freeEmptyPage below a root.
LEMMA EmptyPageFreed ==
  ASSUME NEW s, NEW H, NEW base, NEW lv, NEW F, NEW R, Sound(s, H, base, lv, F, R),
         FreeList(s, F, H), Rooted(s, lv, R), NEW path, OnPath(s.pg, lv, s.tree.root, path),
         Len(path) = 2, \A l \in 1 .. Len(path) : path[l].p \in s.dirty,
         NEW t, t = FreeEmptyPage(s, path)
  PROVE  Stands(t, H, base)
<1>1. /\ path \in Seq(Position) /\ path[1].p = s.tree.root /\ lv[s.tree.root] = 2
      /\ path[2].p \in DOMAIN lv /\ lv[path[2].p] = 1
      /\ path[1].i \in Slots(s.pg[path[1].p].ents)
      /\ s.pg[path[1].p].ents[path[1].i].child = path[2].p
      /\ path[1].p \in s.dirty /\ path[2].p \in s.dirty /\ Last(path) = path[2]
  <2>1. PICK pg, root, N : pg = s.pg /\ root = s.tree.root /\ N = 2
    OBVIOUS
  <2>2. PathTo(pg, lv, root, N, path)
    <3>1. OnPath(pg, lv, root, path) /\ N = Len(path)
      BY <2>1, Zenon
    <3>. QED  BY <3>1, PathToLeaf, Zenon
  <2>3. /\ path \in Seq(Position)
        /\ N = lv[root] /\ path[1].p = root
        /\ \A l \in 1 .. N : path[l].p \in DOMAIN lv /\ lv[path[l].p] = N - l + 1
        /\ \A l \in 1 .. (N - 1) :
             /\ path[l].i \in Slots(pg[path[l].p].ents)
             /\ pg[path[l].p].ents[path[l].i].child = path[l + 1].p
    BY <2>2, Zenon DEF PathTo
  <2>4. 1 \in 1 .. N /\ 2 \in 1 .. N /\ 1 \in 1 .. (N - 1) /\ 1 + 1 = 2 /\ N - 2 + 1 = 1
    BY <2>1
  <2>5. path[2].p \in DOMAIN lv /\ lv[path[2].p] = 1
    BY <2>3, <2>4
  <2>6. path[1].i \in Slots(pg[path[1].p].ents) /\ pg[path[1].p].ents[path[1].i].child = path[2].p
    BY <2>3, <2>4
  <2>7. path[1].p \in s.dirty /\ path[2].p \in s.dirty
    OBVIOUS
  <2>8. Last(path) = path[2]
    BY DEF Last
  <2>. QED  BY <2>1, <2>3, <2>5, <2>6, <2>7, <2>8
<1>2. path[1].i \in DOMAIN s.pg[path[1].p].ents
  <2>1. s.tree.root \in DOMAIN lv
    BY DEF Rooted
  <2>2. s.pg[path[1].p].ents \in Seq(BranchNode)
    <3>1. PICK r, page : r = path[1].p /\ page = s.pg[r]
      OBVIOUS
    <3>2. r \in DOMAIN lv /\ lv[r] = 2
      BY <1>1, <2>1, <3>1
    <3>3. IsPage(page, lv[r])
      BY <3>1, <3>2, Zenon DEF Sound, Tree
    <3>4. IsPage(page, 2)
      BY <3>2, <3>3, Zenon
    <3>5. page.ents \in Seq(BranchNode)
      BY <3>4 DEF IsPage, Kind
    <3>. QED  BY <3>1, <3>5, Zenon
  <2>. QED  BY <1>1, <2>2 DEF Slots
<1>3. PICK r, i, p, kept : EmptiedTo(s, path, r, i, p, kept, t)
  BY <1>2, PageEmptied, Zenon
<1>4. PICK rest, x : /\ rest = RemoveAt(s.pg[r].ents, i)
                     /\ kept = KeptOf(GoneOf(s, p), r, rest, x)
                     /\ \/ Len(rest) > 1 /\ t = kept
                        \/ rest = <<>> /\ t = RootGoneOf(kept, r)
                        \/ ~(Len(rest) > 1) /\ rest # <<>> /\ t = RootSunkOf(kept, r, rest[1].child)
  BY <1>3, Zenon DEF EmptiedTo
<1>5. /\ r = s.tree.root /\ lv[r] = 2 /\ lv[p] = 1 /\ p # r
      /\ r \in DOMAIN lv \cap s.dirty \cap R /\ p \in s.dirty \cap DOMAIN lv
      /\ i \in Slots(s.pg[r].ents) /\ p = s.pg[r].ents[i].child /\ s.tree.height = 2
  <2>1. r = path[1].p /\ i = path[1].i /\ p = path[2].p
    BY <1>1, <1>3, Zenon DEF EmptiedTo
  <2>. QED  BY <1>1, <2>1 DEF Rooted
<1>6. IsKept(s, H, base, lv, F, R, r, p, rest, kept)
  <2>1. PICK gone : gone = GoneOf(s, p)
    OBVIOUS
  <2>2. kept = KeptOf(gone, r, rest, x)
    BY <1>4, <2>1, Zenon
  <2>3. r \in DOMAIN lv \cap s.dirty
    BY <1>5
  <2>. QED  BY <1>4, <1>5, <2>1, <2>2, <2>3, ParentCut, Zenon
<1>7. Len(rest) \in Nat /\ rest \in Seq(BranchNode)
  <2>1. Tree(kept.pg, s.alloc, lv, F, R \cup {p}) /\ Rewritten(s.pg, kept.pg, r, rest)
    BY <1>6, Zenon DEF IsKept
  <2>2. IsPage(kept.pg[r], 2) /\ kept.pg[r].ents = rest
    BY <1>5, <2>1 DEF Tree, Rewritten
  <2>. QED  BY <2>2 DEF IsPage, Kind
<1>8. CASE Len(rest) > 1 /\ t = kept
  <2>1. rest # <<>> /\ r \in DOMAIN lv \cap s.dirty /\ p # s.tree.root
    BY <1>5, <1>8
  <2>2. Stands(kept, H, base)
    BY <1>5, <1>6, <2>1, ParentStays, Zenon
  <2>. QED  BY <1>8, <2>2
<1>9. CASE rest = <<>> /\ t = RootGoneOf(kept, r)
  BY <1>5, <1>6, <1>9, RootGone, Zenon
<1>10. CASE ~(Len(rest) > 1) /\ rest # <<>> /\ t = RootSunkOf(kept, r, rest[1].child)
  <2>1. Len(rest) = 1
    <3>1. PICK n \in Nat : n = Len(rest)
      BY <1>7
    <3>2. n # 0
      BY <1>7, <1>10, <3>1
    <3>. QED  BY <1>10, <3>1, <3>2
  <2>2. Slots(rest) = {1}
    BY <2>1 DEF Slots
  <2>3. PICK q : q = rest[1].child
    OBVIOUS
  <2>4. t = RootSunkOf(kept, r, q)
    BY <1>10, <2>3, Zenon
  <2>. QED  BY <1>5, <1>6, <2>2, <2>3, <2>4, RootGivesWay, Zenon
<1>. QED  BY <1>4, <1>8, <1>9, <1>10

\* What delNode leaves of a leaf, and of a tree of one leaf.
CutOf(f, p, es)  == [SetEnts(f, p, es) EXCEPT !.tree.items = @ - 1]
TreeGoneOf(c, p) == [FreePage(c, p) EXCEPT !.tree.root = NoPage, !.tree.height = 0, !.tree.leaves = 0]

\* Freeing the last leaf, the root, leaves the empty tree.
LEMMA TreeGone ==
  ASSUME NEW s, NEW H, NEW base, NEW lv, NEW F, NEW R, Sound(s, H, base, lv, F, R),
         FreeList(s, F, H), NEW p \in DOMAIN lv \cap R \cap s.dirty, NEW t, t = TreeGoneOf(s, p)
  PROVE  Stands(t, H, base)
<1>1. /\ IsState(s) /\ Tree(s.pg, s.alloc, lv, F, R) /\ Filled(s.pg, lv) /\ p \in Nat
      /\ p \notin F \cup H
  BY DEF Sound, Tree, Bounds, Spares
<1>2. PICK f : f = FreePage(s, p)
  OBVIOUS
<1>3. IsState(f)
  <2>1. Frees(s, f, {p})
    BY <1>1, <1>2, PageFreed, Zenon
  <2>. QED  BY <2>1, Zenon DEF Frees, FreesTo
<1>4. Reroots(f, t, NoPage, 0)
  <2>1. t = [f EXCEPT !.tree.root = NoPage, !.tree.height = 0, !.tree.leaves = 0]
    BY <1>2, Zenon DEF TreeGoneOf
  <2>. QED  BY <1>3, <2>1, TreeEmptied, Zenon
<1>5. FreesPage(s, p, NoPage, 0, t)
  BY <1>1, <1>2, <1>4, FreedAndRerooted, Zenon
<1>6. /\ IsState(t) /\ t.pg = s.pg /\ t.dirty = s.dirty /\ t.alloc = s.alloc
      /\ t.tree.root = NoPage /\ t.tree.height = 0 /\ FreeList(t, F \cup {p}, H)
  BY <1>1, <1>5, Zenon DEF FreesPage
<1>7. PICK pg, D, T : pg = s.pg /\ D = {p} /\ T = DOMAIN lv \ D
  OBVIOUS
<1>8. Drops(s, H, lv, F, R, pg, D, T, t)
  <2>1. D \in SUBSET R /\ T = DOMAIN lv \ D
    BY <1>7
  <2>2. \A q \in T : t.pg[q] = pg[q] /\ (lv[q] # 1 => pg[q].ents # <<>>)
    BY <1>1, <1>6, <1>7 DEF Filled
  <2>3. \A c \in (1 .. (s.alloc - 1)) \ (F \cup R) : pg[c].type = "large" => t.pg[c].type = "large"
    BY <1>6, <1>7
  <2>4. t.dirty \subseteq s.dirty /\ DOMAIN s.pg \subseteq DOMAIN t.pg
        /\ \A q \in H : t.pg[q] = s.pg[q]
    BY <1>6
  <2>. QED  BY <1>6, <2>1, <2>2, <2>3, <2>4, Zenon DEF Drops
<1>9. Sound(t, H, base, Only(lv, T), F \cup D, R \ D)
  <2>1. Tree(pg, s.alloc, lv, F, R)
    BY <1>1, <1>7, Zenon
  <2>. QED  BY <1>8, <2>1, SoundDropped, Zenon
<1>. QED  BY <1>6, <1>7, <1>9, Zenon DEF Stands

\* delNode with the names of its page and path given.
DelAt(f, n, p, i, P) ==
  LET rest == RemoveAt(f.pg[p].ents, i)
      cut  == CutOf(f, p, rest)
  IN IF rest # <<>> THEN cut
     ELSE IF n = 1 THEN TreeGoneOf(cut, p) ELSE FreeEmptyPage(cut, P)

\* DelNode by the parts it is made of.
LEMMA DeletedAt ==
  ASSUME NEW s, NEW path, NEW t, t = DelNode(s, path)
  PROVE  t = DelAt(FreeOverflow(Touch(s, path).s, NodeAt(Touch(s, path).s, Touch(s, path).path)),
                   Len(path), Last(Touch(s, path).path).p, Last(Touch(s, path).path).i,
                   Touch(s, path).path)
BY DEF DelNode, DelAt, CutOf, TreeGoneOf

\* delNode.
LEMMA DelSettles ==
  ASSUME NEW s, NEW H, NEW base, NEW lv, NEW F, NEW R, Sound(s, H, base, lv, F, R),
         FreeList(s, F, H), Rooted(s, lv, R), NEW path, OnPath(s.pg, lv, s.tree.root, path),
         Len(path) <= 2, Last(path).i \in Slots(s.pg[Last(path).p].ents),
         NEW t, t = DelNode(s, path)
  PROVE  Settled(t, H, base)
<1>0. PICK u : u = Touch(s, path)
  OBVIOUS
<1>1. PICK c, P, p, i, es : /\ c = u.s /\ P = u.path /\ p = Last(P).p /\ i = Last(P).i
                            /\ es = c.pg[p].ents
  OBVIOUS
<1>a. PICK lv2, R2 : IsCopyOf(s, H, base, F, R, path, c, P, lv2, R2)
  <2>1. \E lv2, R2 : IsCopyOf(s, H, base, F, R, path, u.s, u.path, lv2, R2)
    BY <1>0, PathTouched, Zenon
  <2>. QED  BY <1>1, <2>1, Zenon
<1>2. /\ Sound(c, H, base, lv2, F, R2) /\ Rooted(c, lv2, R2)
      /\ OnPath(c.pg, lv2, c.tree.root, P)
      /\ \A l \in 1 .. Len(P) : P[l].p \in c.dirty
      /\ Len(P) = Len(path) /\ Last(P).i = Last(path).i
      /\ c.pg[Last(P).p].ents = s.pg[Last(path).p].ents
      /\ c.free = s.free
  BY <1>a, Zenon DEF IsCopyOf, Carried
<1>b. FreeList(c, F, H)
  BY <1>2 DEF FreeList
<1>3. /\ p \in DOMAIN lv2 \cap c.dirty /\ lv2[p] = 1 /\ P # <<>> /\ i \in Slots(es)
      /\ Last(P) = P[Len(P)]
  <2>1. /\ Last(P).p \in DOMAIN lv2 /\ lv2[Last(P).p] = 1
        /\ P # <<>> /\ Last(P) = P[Len(P)] /\ Len(P) \in 1 .. Len(P)
    BY <1>2, LeafOf
  <2>2. Last(P).p \in c.dirty
    BY <1>2, <2>1
  <2>3. i \in Slots(es)
    BY <1>1, <1>2, Zenon
  <2>. QED  BY <1>1, <2>1, <2>2, <2>3
<1>4. IsPage(c.pg[p], 1) /\ es \in Seq(LeafNode) /\ i \in 1 .. Len(es)
  <2>1. IsPage(c.pg[p], 1)
    BY <1>2, <1>3 DEF Sound, Tree
  <2>2. es \in Seq(LeafNode)
    BY <1>1, <2>1 DEF IsPage, Kind
  <2>. QED  BY <1>3, <2>1, <2>2 DEF Slots
<1>5. PICK old : old = es[i]
  OBVIOUS
<1>6. NodeAt(c, P) = old
  <2>1. Last(P).i \in DOMAIN es
    BY <1>1, <1>4
  <2>. QED  BY <1>1, <1>3, <1>5, <2>1, Zenon DEF NodeAt
<1>7. PICK f : f = FreeOverflow(c, old)
  OBVIOUS
<1>8. PICK C : C = Claims(1, old)
  OBVIOUS
<1>9. GivesUp(c, f, F \cup C, H)
  <2>1. Sound(c, H, base, lv2, F, R2) /\ i \in Slots(c.pg[p].ents) /\ old = c.pg[p].ents[i]
        /\ p \in DOMAIN lv2
    BY <1>1, <1>2, <1>3, <1>5
  <2>. QED  BY <1>3, <1>b, <1>7, <1>8, <2>1, OldFreed, Zenon
<1>10. f.pg = c.pg /\ f.tree = c.tree /\ f.dirty = c.dirty
  BY <1>9, Zenon DEF GivesUp, FreesTo
<1>11. PICK rest : rest = RemoveAt(es, i)
  OBVIOUS
<1>12. PICK g, cut : g = SetEnts(f, p, rest) /\ cut = CutOf(f, p, rest)
  OBVIOUS
<1>13. t = IF rest # <<>> THEN cut
           ELSE IF Len(path) = 1 THEN TreeGoneOf(cut, p) ELSE FreeEmptyPage(cut, P)
  <2>1. /\ Last(Touch(s, path).path).p = p /\ Last(Touch(s, path).path).i = i
        /\ Touch(s, path).path = P
        /\ FreeOverflow(Touch(s, path).s, NodeAt(Touch(s, path).s, Touch(s, path).path)) = f
    BY <1>0, <1>1, <1>6, <1>7, Zenon
  <2>2. RemoveAt(f.pg[p].ents, i) = rest
    BY <1>1, <1>10, <1>11, Zenon
  <2>3. PICK n : n = Len(path)
    OBVIOUS
  <2>4. t = DelAt(f, n, p, i, P)
    BY <2>1, <2>3, DeletedAt, Zenon
  <2>5. t = IF rest # <<>> THEN cut
            ELSE IF n = 1 THEN TreeGoneOf(cut, p) ELSE FreeEmptyPage(cut, P)
    BY <1>12, <2>2, <2>4, Zenon DEF DelAt
  <2>. QED  BY <2>3, <2>5, Zenon
<1>14. IsLeafSet(f, H, base, lv2, F \cup C, R2, p, rest, g)
  <2>1. ASSUME NEW pg2, Rewritten(c.pg, pg2, p, rest) PROVE Tree(pg2, c.alloc, lv2, F \cup C, R2)
    <3>1. Rewritten(c.pg, pg2, p, RemoveAt(c.pg[p].ents, i))
      BY <1>1, <1>11, <2>1, Zenon
    <3>2. i \in Slots(c.pg[p].ents) /\ old = c.pg[p].ents[i] /\ p \in DOMAIN lv2
      BY <1>1, <1>3, <1>5
    <3>. QED  BY <1>2, <1>3, <1>8, <3>1, <3>2, LeafCut, Zenon
  <2>. QED  BY <1>2, <1>3, <1>9, <1>12, <2>1, LeafSet, Zenon
<1>15. /\ Sound(g, H, base, lv2, F \cup C, R2) /\ FreeList(g, F \cup C, H) /\ g.tree = c.tree
       /\ Rewritten(c.pg, g.pg, p, rest) /\ c.dirty \subseteq g.dirty /\ IsState(g)
  <2>2. Sound(g, H, base, lv2, F \cup C, R2) /\ FreeList(g, F \cup C, H) /\ g.tree = f.tree
        /\ Rewritten(f.pg, g.pg, p, rest) /\ g.dirty = f.dirty \cup {p} /\ IsState(g)
    BY <1>14, Zenon DEF IsLeafSet, SameBut
  <2>. QED  BY <1>10, <2>2
<1>16. Reroots(g, cut, g.tree.root, g.tree.height)
  <2>1. PICK x : x = g.tree.items - 1
    OBVIOUS
  <2>2. cut = [g EXCEPT !.tree.items = x]
    BY <1>12, <2>1, Zenon DEF CutOf
  <2>. QED  BY <1>15, <2>2, ItemsSet, Zenon
<1>17. PICK d : d = cut
  OBVIOUS
<1>18. /\ IsState(d) /\ d.pg = g.pg /\ d.dirty = g.dirty /\ d.free = g.free /\ d.alloc = g.alloc
       /\ d.tree.root = c.tree.root /\ d.tree.height = c.tree.height
  BY <1>15, <1>16, <1>17, Zenon DEF Reroots
<1>19. Sound(d, H, base, lv2, F \cup C, R2)
  <2>1. /\ Tree(g.pg, g.alloc, lv2, F \cup C, R2) /\ Filled(g.pg, lv2) /\ Spares(g, H, base)
    BY <1>15, Zenon DEF Sound
  <2>2. Spares(d, H, base)
    BY <1>18, <2>1, Zenon DEF Spares
  <2>3. Tree(d.pg, d.alloc, lv2, F \cup C, R2) /\ Filled(d.pg, lv2)
    BY <1>18, <2>1, Zenon
  <2>. QED  BY <1>18, <2>2, <2>3, Zenon DEF Sound
<1>20. FreeList(d, F \cup C, H)
  BY <1>15, <1>18, Zenon DEF FreeList
<1>21. Rooted(d, lv2, R2) /\ d.tree.root # NoPage
  <2>1. /\ c.tree.root \in DOMAIN lv2 /\ c.tree.root \in R2 /\ lv2[c.tree.root] = c.tree.height
    BY <1>2, Zenon DEF Rooted
  <2>2. c.tree.root # NoPage
    BY <1>2, <2>1 DEF Sound, Tree, Bounds, NoPage
  <2>. QED  BY <1>18, <2>1, <2>2, Zenon DEF Rooted
<1>22. CASE rest # <<>>
  <2>1. t = d
    BY <1>13, <1>17, <1>22, Zenon
  <2>. QED  BY <1>19, <1>20, <1>21, <2>1, Zenon DEF Settled, Stands
<1>23. CASE rest = <<>> /\ Len(path) = 1
  <2>1. t = TreeGoneOf(d, p)
    BY <1>13, <1>17, <1>23, Zenon
  <2>2. p \in DOMAIN lv2 \cap R2 \cap d.dirty
    <3>1. p = c.tree.root
      <4>1. P[1].p = c.tree.root
        BY <1>2, Zenon DEF OnPath
      <4>2. Last(P) = P[1]
        BY <1>2, <1>3, <1>23, Zenon
      <4>. QED  BY <1>1, <4>1, <4>2, Zenon
    <3>2. p \in R2
      BY <1>2, <3>1 DEF Rooted
    <3>. QED  BY <1>3, <1>15, <1>18, <3>2
  <2>3. Stands(t, H, base)
    BY <1>19, <1>20, <2>1, <2>2, TreeGone, Zenon
  <2>. QED  BY <2>3, Zenon DEF Settled
<1>24. CASE rest = <<>> /\ Len(path) # 1
  <2>1. t = FreeEmptyPage(d, P)
    BY <1>13, <1>17, <1>24, Zenon
  <2>2. OnPath(d.pg, lv2, d.tree.root, P)
    <3>1. IsRemoved(rest, LeafNode, es, i)
      BY <1>4, <1>11, Removed, Zenon
    <3>2. Len(rest) = Len(es) - 1
      BY <3>1, Zenon DEF IsRemoved
    <3>3. Last(P).i \in 1 .. Len(rest) + 1
      BY <1>1, <1>4, <3>2
    <3>4. DOMAIN lv2 \subseteq DOMAIN c.pg
      BY <1>2 DEF Sound, Tree, Bounds
    <3>5. OnPath(g.pg, lv2, c.tree.root, P)
      BY <1>1, <1>2, <1>15, <3>3, <3>4, PathOverLeaf, Zenon
    <3>. QED  BY <1>18, <3>5, Zenon
  <2>3. Len(P) = 2
    <3>1. P \in Seq(Position) /\ Len(P) # 0
      BY <1>2, Zenon DEF OnPath
    <3>2. PICK n \in Nat : n = Len(P)
      BY <3>1
    <3>3. n # 0 /\ n # 1 /\ n <= 2
      BY <1>2, <1>24, <3>1, <3>2
    <3>. QED  BY <3>2, <3>3
  <2>4. \A l \in 1 .. Len(P) : P[l].p \in d.dirty
    BY <1>2, <1>15, <1>18
  <2>5. Stands(t, H, base)
    BY <1>19, <1>20, <1>21, <2>1, <2>2, <2>3, <2>4, EmptyPageFreed, Zenon
  <2>. QED  BY <2>5, Zenon DEF Settled
<1>. QED  BY <1>22, <1>23, <1>24, Zenon

------------------------------------------------------------------------------
(* The pages a commit holds                                                *)

\* The pages a level below those of a set, and the set.
Wider(s, set) ==
  set \cup UNION {{node.child : node \in ToSet(s.pg[p].ents)} : p \in {q \in set : ~IsLeaf(s, q)}}

\* reach holds the pages down to each level.
IsReach(s, m, reach) ==
  reach = [n \in 0 .. m |-> IF n = 0 THEN {s.tree.root} ELSE Wider(s, reach[n - 1])]

\* There is such a function for every number of levels.
LEMMA ReachExists ==
  ASSUME NEW s, NEW N \in Nat
  PROVE  \E reach : IsReach(s, N, reach)
<1>. DEFINE Done == {m \in Nat : \E reach : IsReach(s, m, reach)}
<1>1. 0 \in Done
  <2>1. PICK f : f = [n \in 0 .. 0 |-> {s.tree.root}]
    OBVIOUS
  <2>2. IsReach(s, 0, f)
    BY <2>1 DEF IsReach
  <2>. QED  BY <2>2
<1>2. ASSUME NEW m \in 0 .. (N - 1), m \in Done PROVE m + 1 \in Done
  <2>1. PICK f : IsReach(s, m, f)
    BY <1>2
  <2>2. PICK next : next = Wider(s, f[m])
    OBVIOUS
  <2>3. PICK g : g = [n \in 0 .. (m + 1) |-> IF n = m + 1 THEN next ELSE f[n]]
    OBVIOUS
  <2>4. \A n \in 0 .. m : f[n] = IF n = 0 THEN {s.tree.root} ELSE Wider(s, f[n - 1])
    BY <2>1 DEF IsReach
  <2>5. ASSUME NEW n \in 0 .. (m + 1)
        PROVE  g[n] = IF n = 0 THEN {s.tree.root} ELSE Wider(s, g[n - 1])
    <3>1. CASE n = m + 1
      <4>1. g[n] = next /\ g[n - 1] = f[m] /\ n # 0
        BY <2>3, <3>1
      <4>. QED  BY <2>2, <3>1, <4>1
    <3>2. CASE n # m + 1
      <4>1. n \in 0 .. m /\ g[n] = f[n]
        BY <2>3, <3>2
      <4>2. n # 0 => g[n - 1] = f[n - 1]
        BY <2>3, <4>1
      <4>. QED  BY <2>4, <4>1, <4>2
    <3>. QED  BY <3>1, <3>2
  <2>6. IsReach(s, m + 1, g)
    BY <2>3, <2>5 DEF IsReach
  <2>. QED  BY <2>6
<1>. HIDE DEF Done
<1>3. N \in Done
  BY <1>1, <1>2, UpTo
<1>. QED  BY <1>3 DEF Done

\* TreePages takes the last of them.
Reaching(s, reach, pages) == IsReach(s, s.tree.height, reach) /\ pages = reach[s.tree.height]

\* TreePages is the last value of a function of the levels gone.
LEMMA TreePagesReach ==
  ASSUME NEW s, s.tree.height \in Nat, s.tree.root # NoPage, NEW pages, pages = TreePages(s)
  PROVE  \E reach : Reaching(s, reach, pages)
<1>. DEFINE N == s.tree.height
            Children(p) == {node.child : node \in ToSet(s.pg[p].ents)}
            reach[n \in 0 .. N] ==
              IF n = 0 THEN {s.tree.root}
              ELSE reach[n - 1] \cup UNION {Children(p) : p \in {q \in reach[n - 1] : ~IsLeaf(s, q)}}
<1>1. \E f : f = [n \in 0 .. N |->
              IF n = 0 THEN {s.tree.root}
              ELSE f[n - 1] \cup UNION {Children(p) : p \in {q \in f[n - 1] : ~IsLeaf(s, q)}}]
  <2>1. \E f : IsReach(s, N, f)
    BY ReachExists
  <2>. QED  BY <2>1, Zenon DEF IsReach, Wider
<1>2. reach = [n \in 0 .. N |->
              IF n = 0 THEN {s.tree.root}
              ELSE reach[n - 1] \cup UNION {Children(p) : p \in {q \in reach[n - 1] : ~IsLeaf(s, q)}}]
  BY <1>1, Zenon
<1>3. pages = reach[N]
  BY Zenon DEF TreePages
<1>4. IsReach(s, N, reach)
  BY <1>2, Zenon DEF IsReach, Wider
<1>5. PICK f : f = reach
  OBVIOUS
<1>. HIDE DEF reach
<1>6. Reaching(s, f, pages)
  BY <1>3, <1>4, <1>5, Zenon DEF Reaching
<1>. QED  BY <1>6

\* The descent from the root stays in the tree.
LEMMA TreePagesAreNodes ==
  ASSUME NEW s, NEW lv, NEW F, NEW R, Tree(s.pg, s.alloc, lv, F, R), Rooted(s, lv, R),
         NEW pages, pages = TreePages(s)
  PROVE  pages \subseteq DOMAIN lv
<1>1. PICK pg, alloc, N : pg = s.pg /\ alloc = s.alloc /\ N = s.tree.height
  OBVIOUS
<1>2. Tree(pg, alloc, lv, F, R)
  BY <1>1, Zenon
<1>3. s.tree.root \in DOMAIN lv /\ N \in Nat /\ s.tree.root # NoPage
  BY <1>1, <1>2 DEF Rooted, Tree, Bounds, NoPage
<1>4. PICK reach : Reaching(s, reach, pages)
  BY <1>1, <1>3, TreePagesReach, Zenon
<1>5. /\ pages = reach[N]
      /\ \A n \in 0 .. N : reach[n] = IF n = 0 THEN {s.tree.root} ELSE Wider(s, reach[n - 1])
  BY <1>1, <1>4 DEF Reaching, IsReach
<1>6. ASSUME NEW set, set \subseteq DOMAIN lv PROVE Wider(s, set) \subseteq DOMAIN lv
  <2>1. ASSUME NEW p \in set, ~IsLeaf(s, p), NEW node \in ToSet(pg[p].ents)
        PROVE  node.child \in DOMAIN lv
    <3>1. p \in DOMAIN lv /\ IsPage(pg[p], lv[p])
      BY <1>2, <1>6, <2>1 DEF Tree
    <3>2. lv[p] # 1
      BY <1>1, <2>1, <3>1 DEF IsLeaf, IsPage
    <3>3. PICK i \in Slots(pg[p].ents) : node = pg[p].ents[i]
      BY <2>1, <3>1 DEF ToSet, Slots, IsPage
    <3>4. Leads(pg, lv, lv[p], pg[p].ents[i])
      BY <1>2, <3>1, Zenon DEF Tree, Nodes
    <3>. QED  BY <3>2, <3>3, <3>4 DEF Leads
  <2>. QED  BY <1>1, <1>6, <2>1 DEF Wider
<1>7. PICK S : S = {n \in 0 .. N : reach[n] \subseteq DOMAIN lv}
  OBVIOUS
<1>8. 0 \in S
  BY <1>3, <1>5, <1>7
<1>9. \A n \in 0 .. (N - 1) : n \in S => n + 1 \in S
  <2>. TAKE n \in 0 .. (N - 1)
  <2>. HAVE n \in S
  <2>1. n + 1 \in 0 .. N /\ n + 1 # 0 /\ n + 1 - 1 = n
    BY <1>3
  <2>2. reach[n + 1] = Wider(s, reach[n])
    BY <1>5, <2>1
  <2>3. reach[n + 1] \subseteq DOMAIN lv
    BY <1>6, <1>7, <2>2
  <2>. QED  BY <1>7, <2>1, <2>3
<1>10. N \in 0 .. N
  BY <1>3
<1>11. N \in S
  BY <1>3, <1>8, <1>9, <1>10, UpTo, Zenon
<1>. QED  BY <1>5, <1>7, <1>11

\* A state's tree and overflow pages are its tree's and those its nodes claim.
PagesAre(s, lv, F) ==
  /\ TreePages(s) \subseteq DOMAIN lv
  /\ \A c \in OverflowPages(s) : c \notin F /\ s.pg[c].type = "large"

\* PagesOf are pages with a level, and overflow pages their leaves claim.
LEMMA PagesAreTheTrees ==
  ASSUME NEW s, NEW lv, NEW F, NEW R, Tree(s.pg, s.alloc, lv, F, R),
         s.tree.root = NoPage \/ Rooted(s, lv, R)
  PROVE  PagesAre(s, lv, F)
<1>1. PICK T : T = TreePages(s)
  OBVIOUS
<1>2. T \subseteq DOMAIN lv
  <2>1. CASE s.tree.root = NoPage
    <3>1. T = {}
      BY <1>1, <2>1, Zenon DEF TreePages
    <3>. QED  BY <3>1
  <2>2. CASE Rooted(s, lv, R)
    BY <1>1, <2>2, TreePagesAreNodes, Zenon
  <2>. QED  BY <2>1, <2>2
<1>3. PICK O : O = OverflowPages(s)
  OBVIOUS
<1>4. ASSUME NEW c \in O PROVE c \notin F /\ s.pg[c].type = "large"
  <2>1. PICK node \in BigNodes(s) : c \in node.ovf .. (node.ovf + node.n - 1)
    BY <1>3, <1>4, Zenon DEF OverflowPages
  <2>2. PICK q \in T : IsLeaf(s, q) /\ node \in ToSet(s.pg[q].ents)
    BY <1>1, <2>1 DEF BigNodes
  <2>3. PICK pg, alloc : pg = s.pg /\ alloc = s.alloc
    OBVIOUS
  <2>4. q \in DOMAIN lv /\ IsPage(pg[q], lv[q]) /\ Tree(pg, alloc, lv, F, R)
    BY <1>2, <2>2, <2>3 DEF Tree
  <2>5. lv[q] = 1
    BY <2>2, <2>3, <2>4 DEF IsLeaf, IsPage
  <2>6. PICK i \in Slots(pg[q].ents) : node = pg[q].ents[i]
    BY <2>2, <2>3, <2>4 DEF ToSet, Slots, IsPage
  <2>7. /\ Leads(pg, lv, lv[q], pg[q].ents[i])
        /\ Claims(lv[q], pg[q].ents[i]) \subseteq (1 .. (alloc - 1)) \ (F \cup R)
    BY <2>4, <2>6, Zenon DEF Tree, Nodes
  <2>8. c \in Claims(lv[q], pg[q].ents[i])
    BY <2>1, <2>5, <2>6 DEF Claims
  <2>9. pg[c].type = "large"
    BY <2>5, <2>7, <2>8 DEF Leads
  <2>. QED  BY <2>3, <2>7, <2>8, <2>9
<1>. QED  BY <1>1, <1>2, <1>3, <1>4 DEF PagesAre

\* The pages of a commit that are not a value's.
NodePages(pages) == {p \in DOMAIN pages : pages[p].type # "large"}

HoldsNodes(s, lv, pages) ==
  /\ NodePages(pages) \subseteq DOMAIN lv
  /\ \A p \in DOMAIN pages : pages[p] = s.pg[p]

\* PagesOf holds no free page.
LEMMA HeldAreNodes ==
  ASSUME NEW s, NEW lv, NEW F, NEW R, Tree(s.pg, s.alloc, lv, F, R),
         s.tree.root = NoPage \/ Rooted(s, lv, R), NEW pages, pages = PagesOf(s)
  PROVE  HoldsNodes(s, lv, pages)
<1>1. PICK T, O : T = TreePages(s) /\ O = OverflowPages(s)
  OBVIOUS
<1>2. PagesAre(s, lv, F)
  BY PagesAreTheTrees, Zenon
<1>3. T \subseteq DOMAIN lv /\ \A c \in O : s.pg[c].type = "large"
  BY <1>1, <1>2, Zenon DEF PagesAre
<1>4. pages = [p \in T \cup O |-> s.pg[p]]
  BY <1>1, Zenon DEF PagesOf
<1>. QED  BY <1>3, <1>4 DEF NodePages, HoldsNodes

------------------------------------------------------------------------------
(* Transactions                                                            *)

\* Fewer pages to spare.
LEMMA StandsForLess ==
  ASSUME NEW s, NEW H, NEW base, Stands(s, H, base), NEW H2 \in SUBSET H
  PROVE  Stands(s, H2, base)
<1>1. PICK lv, F, R : /\ Sound(s, H, base, lv, F, R) /\ FreeList(s, F, H)
                      /\ s.tree.root = NoPage \/ Rooted(s, lv, R)
                      /\ s.tree.root = NoPage => s.tree.height = 0
  BY Zenon DEF Stands
<1>2. Spares(s, H2, base)
  <2>1. Spares(s, H, base)
    BY <1>1, Zenon DEF Sound
  <2>. QED  BY <2>1 DEF Spares
<1>3. Sound(s, H2, base, lv, F, R)
  BY <1>1, <1>2, Zenon DEF Sound
<1>4. FreeList(s, F, H2)
  <2>1. /\ s.free \in Seq(Nat) /\ IsInjective(s.free) /\ ToSet(s.free) = F /\ F \cap H = {}
    BY <1>1, Zenon DEF FreeList
  <2>2. F \cap H2 = {}
    BY <2>1
  <2>. QED  BY <2>1, <2>2, Zenon DEF FreeList
<1>. QED  BY <1>1, <1>3, <1>4, Zenon DEF Stands

\* What a transaction begins with.
IsFresh(pages, c, s) ==
  /\ s.pg = pages /\ s.dirty = {} /\ s.free = <<>> /\ s.alloc = c.alloc /\ s.tree = c.tree
  /\ s.failed = FALSE /\ (IsTree(c.tree) => IsState(s))

\* The writer's state at the begin of a transaction.
LEMMA FreshIs ==
  ASSUME NEW pages, NEW c, NEW s, s = Fresh(pages, c)
  PROVE  IsFresh(pages, c, s)
<1>1. s = [pg |-> pages, dirty |-> {}, free |-> <<>>, alloc |-> c.alloc,
           tree |-> c.tree, failed |-> FALSE]
  BY Zenon DEF Fresh
<1>2. /\ s.pg = pages /\ s.dirty = {} /\ s.free = <<>> /\ s.alloc = c.alloc /\ s.tree = c.tree
      /\ s.failed = FALSE
  BY <1>1
<1>3. s = [pg |-> s.pg, dirty |-> s.dirty, free |-> s.free, alloc |-> s.alloc,
           tree |-> s.tree, failed |-> s.failed]
  BY <1>1, <1>2, Zenon
<1>4. IsTree(c.tree) => IsState(s)
  BY <1>2, <1>3, Zenon DEF IsState
<1>. QED  BY <1>2, <1>4, Zenon DEF IsFresh

\* Before the first page.
LEMMA FreshStands ==
  ASSUME NEW c, c.tree = EmptyTree, c.alloc = 1, NEW s, s = Fresh(<<>>, c)
  PROVE  Stands(s, {}, <<>>)
<1>1. PICK none : none = <<>>
  OBVIOUS
<1>2. IsTree(c.tree) /\ c.tree.root = NoPage /\ c.tree.height = 0
  BY DEF EmptyTree, IsTree
<1>3. /\ s.pg = none /\ s.dirty = {} /\ s.free = none /\ s.alloc = 1 /\ s.tree = c.tree
      /\ s.failed = FALSE /\ IsState(s)
  <2>1. IsFresh(none, c, s)
    BY <1>1, FreshIs, Zenon
  <2>. QED  BY <1>1, <1>2, <2>1 DEF IsFresh
<1>4. DOMAIN none = {} /\ none \in Seq(Nat) /\ Len(none) = 0
  BY <1>1
<1>5. Tree(s.pg, s.alloc, none, {}, {})
  <2>1. none \in [DOMAIN none -> Nat \ {0}]
    BY <1>1, <1>4
  <2>2. Bounds(s.pg, s.alloc, none, {}, {})
    BY <1>3, <1>4, <2>1 DEF Bounds
  <2>. QED  BY <1>4, <2>2 DEF Tree, Nodes, Apart
<1>6. Filled(s.pg, none) /\ Spares(s, {}, none)
  BY <1>3, <1>4 DEF Filled, Spares
<1>7. FreeList(s, {}, {})
  BY <1>3, <1>4 DEF FreeList, IsInjective, ToSet
<1>8. Sound(s, {}, none, none, {}, {})
  BY <1>3, <1>5, <1>6, Zenon DEF Sound
<1>9. Stands(s, {}, none)
  BY <1>2, <1>3, <1>7, <1>8, Zenon DEF Stands
<1>. QED  BY <1>1, <1>9

\* What a commit leaves: its pages are the map, and more pages to spare.
LEMMA CommittedStands ==
  ASSUME NEW s, NEW H, NEW base, Stands(s, H, base), NEW pages, pages = PagesOf(s),
         NEW c, c.alloc = s.alloc, c.tree = s.tree, NEW t, t = Fresh(s.pg, c)
  PROVE  /\ Stands(t, H \cup NodePages(pages), s.pg)
         /\ \A p \in H : s.pg[p] = base[p]
         /\ \A p \in DOMAIN pages : pages[p] = s.pg[p]
<1>1. PICK lv, F, R : /\ Sound(s, H, base, lv, F, R) /\ FreeList(s, F, H)
                      /\ s.tree.root = NoPage \/ Rooted(s, lv, R)
                      /\ s.tree.root = NoPage => s.tree.height = 0
  BY Zenon DEF Stands
<1>2. /\ IsState(s) /\ Tree(s.pg, s.alloc, lv, F, R) /\ Filled(s.pg, lv) /\ Spares(s, H, base)
  BY <1>1, Zenon DEF Sound
<1>3. /\ NodePages(pages) \subseteq DOMAIN lv /\ \A p \in DOMAIN pages : pages[p] = s.pg[p]
  <2>1. HoldsNodes(s, lv, pages)
    BY <1>1, <1>2, HeldAreNodes, Zenon
  <2>. QED  BY <2>1, Zenon DEF HoldsNodes
<1>4. /\ t.pg = s.pg /\ t.dirty = {} /\ t.free = <<>> /\ t.alloc = s.alloc /\ t.tree = s.tree
      /\ IsState(t)
  <2>1. PICK pg : pg = s.pg
    OBVIOUS
  <2>2. IsFresh(pg, c, t)
    BY <2>1, FreshIs, Zenon
  <2>3. IsTree(c.tree)
    BY <1>2, Zenon DEF IsState
  <2>. QED  BY <2>1, <2>2, <2>3, Zenon DEF IsFresh
<1>5. PICK H2 : H2 = H \cup NodePages(pages)
  OBVIOUS
<1>6. Tree(s.pg, s.alloc, lv, {}, R)
  <2>1. Bounds(s.pg, s.alloc, lv, F, R)
    BY <1>2, Zenon DEF Tree
  <2>2. Bounds(s.pg, s.alloc, lv, {}, R) /\ s.alloc \in Nat
    BY <2>1 DEF Bounds
  <2>3. /\ s.alloc >= s.alloc /\ {} \cup R \subseteq F \cup R \cup (s.alloc .. (s.alloc - 1))
    BY <2>2
  <2>4. /\ \A p \in DOMAIN lv : s.pg[p] = s.pg[p]
        /\ \A x \in (1 .. (s.alloc - 1)) \ (F \cup R) : s.pg[x].type = "large" => s.pg[x].type = "large"
    OBVIOUS
  <2>. QED  BY <1>2, <2>2, <2>3, <2>4, PagesChanged, Zenon
<1>7. Tree(t.pg, t.alloc, lv, {}, R) /\ Filled(t.pg, lv)
  BY <1>2, <1>4, <1>6, Zenon
<1>8. /\ H \subseteq 1 .. (s.alloc - 1) /\ \A p \in H : s.pg[p] = base[p] /\ base[p].type # "large"
  BY <1>2, Zenon DEF Spares
<1>9. /\ DOMAIN lv \subseteq 1 .. (s.alloc - 1)
      /\ \A p \in DOMAIN lv : s.pg[p].type # "large"
  <2>1. DOMAIN lv \subseteq 1 .. (s.alloc - 1) /\ \A p \in DOMAIN lv : IsPage(s.pg[p], lv[p])
    BY <1>2, Zenon DEF Tree, Bounds
  <2>. QED  BY <2>1 DEF IsPage
<1>10. Spares(t, H2, s.pg)
  <2>1. H2 \subseteq 1 .. (t.alloc - 1)
    BY <1>3, <1>4, <1>5, <1>8, <1>9
  <2>2. \A p \in H2 : s.pg[p].type # "large"
    BY <1>3, <1>5, <1>8, <1>9
  <2>3. \A p \in H2 : t.pg[p] = s.pg[p] /\ s.pg[p].type # "large"
    BY <1>4, <2>2
  <2>4. t.dirty \cap H2 = {}
    BY <1>4
  <2>. QED  BY <2>1, <2>3, <2>4, Zenon DEF Spares
<1>11. Sound(t, H2, s.pg, lv, {}, R)
  BY <1>4, <1>7, <1>10, Zenon DEF Sound
<1>12. FreeList(t, {}, H2)
  BY <1>4 DEF FreeList, IsInjective, ToSet
<1>13. /\ t.tree.root = NoPage \/ Rooted(t, lv, R)
       /\ t.tree.root = NoPage => t.tree.height = 0
  BY <1>1, <1>4, Zenon DEF Rooted
<1>14. Stands(t, H2, s.pg)
  BY <1>11, <1>12, <1>13, Zenon DEF Stands
<1>. QED  BY <1>3, <1>5, <1>8, <1>14

(***************************************************************************)
(* Theorem.  Txn.Put, plain or with Append, of any key and value, through  *)
(* splits up to a new root, overflow pages and updates in place: it        *)
(* fails, or what it leaves is again a tree in which no two nodes lead to  *)
(* one page, whose free pages no node claims, and whose writer has spared  *)
(* the pages of H.                                                         *)
(***************************************************************************)
THEOREM PutStands ==
  ASSUME NEW s, NEW H, NEW base, Stands(s, H, base), NEW k \in Keys, NEW v \in Vals,
         NEW t, t = PutAt(s, Path(s, k), k, v) \/ t = PutAt(s, AppendPath(s, k), k, v)
  PROVE  Settled(t, H, base)
<1>1. PICK lv, F, R : /\ Sound(s, H, base, lv, F, R) /\ FreeList(s, F, H)
                      /\ s.tree.root = NoPage \/ Rooted(s, lv, R)
  BY Zenon DEF Stands
<1>2. Tree(s.pg, s.alloc, lv, F, R) /\ Filled(s.pg, lv) /\ k \in Nat
  BY <1>1, LengthsAssumption DEF Sound
<1>3. PICK path : t = PutAt(s, path, k, v) /\ (path = Path(s, k) \/ path = AppendPath(s, k))
  <2>1. CASE t = PutAt(s, Path(s, k), k, v)
    BY <2>1, Zenon
  <2>2. CASE t = PutAt(s, AppendPath(s, k), k, v)
    BY <2>2, Zenon
  <2>. QED  BY <2>1, <2>2
<1>4. Reached(s, lv, R, path)
  <2>1. CASE s.tree.root = NoPage
    <3>1. Path(s, k) = <<>> /\ AppendPath(s, k) = <<>>
      BY <2>1, Zenon DEF Path, AppendPath, Descent
    <3>. QED  BY <1>3, <2>1, <3>1, Zenon DEF Reached
  <2>2. CASE Rooted(s, lv, R)
    <3>1. CASE path = Path(s, k)
      <4>1. OnPath(s.pg, lv, s.tree.root, path)
        BY <1>2, <2>2, <3>1, PathFindsLeaf, Zenon
      <4>. QED  BY <2>2, <4>1, Zenon DEF Reached
    <3>2. CASE path = AppendPath(s, k)
      <4>1. OnPath(s.pg, lv, s.tree.root, path)
        BY <1>2, <2>2, <3>2, AppendPathFindsLeaf, Zenon
      <4>. QED  BY <2>2, <4>1, Zenon DEF Reached
    <3>. QED  BY <1>3, <3>1, <3>2
  <2>. QED  BY <1>1, <2>1, <2>2
<1>. QED  BY <1>1, <1>3, <1>4, PutSettles, Zenon

(***************************************************************************)
(* Theorem.  The same of Txn.Del on a tree of at most two levels: a leaf   *)
(* that is emptied leaves its parent, a root with one child gives way to   *)
(* it, and the pages freed are those no node leads to any more.            *)
(***************************************************************************)
THEOREM DelStands ==
  ASSUME NEW s, NEW H, NEW base, Stands(s, H, base), NEW k \in Keys, Found(s, Path(s, k), k),
         s.tree.height <= 2, NEW t, t = DelNode(s, Path(s, k))
  PROVE  Settled(t, H, base)
<1>1. PICK lv, F, R : /\ Sound(s, H, base, lv, F, R) /\ FreeList(s, F, H)
                      /\ s.tree.root = NoPage \/ Rooted(s, lv, R)
  BY Zenon DEF Stands
<1>2. Tree(s.pg, s.alloc, lv, F, R) /\ Filled(s.pg, lv) /\ k \in Nat /\ k # NoKey
  BY <1>1, LengthsAssumption DEF Sound
<1>3. PICK path : path = Path(s, k)
  OBVIOUS
<1>4. path # <<>> /\ NodeAt(s, path).k = k
  BY <1>3, Zenon DEF Found
<1>5. s.tree.root # NoPage
  <2>1. s.tree.root = NoPage => path = <<>>
    BY <1>3, Zenon DEF Path, Descent
  <2>. QED  BY <1>4, <2>1
<1>6. Rooted(s, lv, R)
  BY <1>1, <1>5
<1>7. OnPath(s.pg, lv, s.tree.root, path)
  BY <1>2, <1>3, <1>6, PathFindsLeaf, Zenon
<1>8. Len(path) <= 2
  <2>1. Len(path) = lv[s.tree.root] /\ lv[s.tree.root] = s.tree.height
    BY <1>6, <1>7, Zenon DEF OnPath, Rooted
  <2>. QED  BY <2>1
<1>9. Last(path).i \in Slots(s.pg[Last(path).p].ents)
  <2>1. Last(path).i \in DOMAIN s.pg[Last(path).p].ents
    BY <1>2, <1>4 DEF NodeAt
  <2>2. Last(path).p \in DOMAIN lv /\ lv[Last(path).p] = 1
    BY <1>7, LeafOf
  <2>3. s.pg[Last(path).p].ents \in Seq(LeafNode)
    BY <1>2, <2>2 DEF Tree, IsPage, Kind
  <2>. QED  BY <2>1, <2>3 DEF Slots
<1>. QED  BY <1>1, <1>3, <1>6, <1>7, <1>8, <1>9, DelSettles, Zenon

\* The branch and leaf pages that commits still in use consist of.
HeldPages == UNION {NodePages(c.pages) : c \in Held}

\* Every held page is in the map as committed; the writer's pages, and those
\* the next writer begins with, make up a tree of other pages and held ones it
\* does not write.
SnapshotsStand ==
  /\ DOMAIN snap = Readers
  /\ SnapshotTreesAreImmutable
  /\ Stands(Fresh(disk, committed), HeldPages, disk)
  /\ ~w.failed => Stands(w, HeldPages, disk)

\* The empty database satisfies the invariant.
LEMMA SnapshotsStandInit == Init => SnapshotsStand
<1>. SUFFICES ASSUME Init PROVE SnapshotsStand
  OBVIOUS
<1>1. /\ committed = [tree |-> EmptyTree, alloc |-> 1, map |-> EmptyMap, pages |-> <<>>]
      /\ disk = <<>> /\ w = Fresh(disk, committed) /\ snap = [r \in Readers |-> NoSnap]
  BY Zenon DEF Init
<1>2. Held = {committed}
  BY <1>1 DEF Held
<1>3. NodePages(committed.pages) = {}
  BY <1>1 DEF NodePages
<1>4. HeldPages = {}
  BY <1>2, <1>3 DEF HeldPages
<1>5. SnapshotTreesAreImmutable
  BY <1>1, <1>2 DEF SnapshotTreesAreImmutable
<1>6. committed.tree = EmptyTree /\ committed.alloc = 1
  BY <1>1
<1>7. PICK c : c = committed
  OBVIOUS
<1>8. PICK s : s = Fresh(<<>>, c)
  OBVIOUS
<1>9. Stands(s, {}, <<>>)
  BY <1>6, <1>7, <1>8, FreshStands, Zenon
<1>10. Stands(Fresh(disk, committed), HeldPages, disk)
  BY <1>1, <1>4, <1>7, <1>8, <1>9, Zenon
<1>11. Stands(w, HeldPages, disk)
  BY <1>1, <1>10, Zenon
<1>12. DOMAIN snap = Readers
  BY <1>1
<1>. QED  BY <1>5, <1>10, <1>11, <1>12, Zenon DEF SnapshotsStand

\* A step that begins or ends a transaction, or works in one, without a
\* change to the map or the last commit.
LEMMA QuietStep ==
  ASSUME SnapshotsStand, disk' = disk, committed' = committed, Held' \subseteq Held,
         DOMAIN snap' = DOMAIN snap,
         \/ w' = w
         \/ w' = Fresh(disk, committed)
         \/ Settled(w', HeldPages, disk)
  PROVE  SnapshotsStand'
<1>1. HeldPages' \subseteq HeldPages
  BY DEF HeldPages
<1>2. SnapshotTreesAreImmutable'
  <2>1. SnapshotTreesAreImmutable
    BY Zenon DEF SnapshotsStand
  <2>. QED  BY <2>1 DEF SnapshotTreesAreImmutable
<1>3. PICK H, H2, d, c, s : /\ H = HeldPages /\ H2 = HeldPages' /\ d = disk /\ c = committed
                            /\ s = w'
  OBVIOUS
<1>4. H2 \in SUBSET H
  BY <1>1, <1>3
<1>5. Stands(Fresh(d, c), H, d)
  BY <1>3, Zenon DEF SnapshotsStand
<1>6. Stands(Fresh(d, c), H2, d)
  <2>1. PICK f : f = Fresh(d, c)
    OBVIOUS
  <2>2. Stands(f, H2, d)
    BY <1>4, <1>5, <2>1, StandsForLess, Zenon
  <2>. QED  BY <2>1, <2>2, Zenon
<1>7. ~s.failed => Stands(s, H, d)
  <2>1. CASE w' = w
    BY <1>3, <2>1, Zenon DEF SnapshotsStand
  <2>2. CASE w' = Fresh(disk, committed)
    BY <1>3, <1>5, <2>2, Zenon
  <2>3. CASE Settled(w', HeldPages, disk)
    BY <1>3, <2>3, Zenon DEF Settled
  <2>. QED  BY <2>1, <2>2, <2>3
<1>8. ~s.failed => Stands(s, H2, d)
  BY <1>4, <1>7, StandsForLess, Zenon
<1>9. disk' = d /\ committed' = c /\ w' = s /\ HeldPages' = H2
  BY <1>3, Zenon
<1>10. DOMAIN snap' = Readers
  BY DEF SnapshotsStand
<1>. QED  BY <1>2, <1>6, <1>8, <1>9, <1>10, Zenon DEF SnapshotsStand

\* A commit.
LEMMA CommitStep ==
  ASSUME SnapshotsStand, Commit
  PROVE  SnapshotsStand'
<1>1. /\ ~w.failed /\ disk' = w.pg /\ snap' = snap
      /\ committed' = [tree |-> w.tree, alloc |-> w.alloc, map |-> live, pages |-> PagesOf(w)]
      /\ w' = Fresh(disk', committed')
  BY Zenon DEF Commit
<1>2. PICK s, H, d, pages, c : /\ s = w /\ H = HeldPages /\ d = disk /\ pages = PagesOf(w)
                               /\ c = committed'
  OBVIOUS
<1>3. Stands(s, H, d)
  BY <1>1, <1>2, Zenon DEF SnapshotsStand
<1>4. c.tree = s.tree /\ c.alloc = s.alloc /\ c.pages = pages
  BY <1>1, <1>2
<1>5. PICK t : t = Fresh(s.pg, c)
  OBVIOUS
<1>6. /\ Stands(t, H \cup NodePages(pages), s.pg)
      /\ \A p \in H : s.pg[p] = d[p]
      /\ \A p \in DOMAIN pages : pages[p] = s.pg[p]
  BY <1>2, <1>3, <1>4, <1>5, CommittedStands
<1>7. Held' \subseteq Held \cup {c}
  BY <1>1, <1>2 DEF Held
<1>8. HeldPages' \subseteq H \cup NodePages(pages)
  BY <1>2, <1>4, <1>7 DEF HeldPages
<1>9. Stands(t, HeldPages', s.pg)
  <2>1. PICK H2 : H2 = HeldPages'
    OBVIOUS
  <2>2. H2 \in SUBSET (H \cup NodePages(pages))
    BY <1>8, <2>1
  <2>3. Stands(t, H2, s.pg)
    BY <1>6, <2>2, StandsForLess, Zenon
  <2>. QED  BY <2>1, <2>3, Zenon
<1>10. SnapshotTreesAreImmutable'
  <2>. SUFFICES ASSUME NEW e \in Held', NEW p \in DOMAIN e.pages, e.pages[p].type # "large"
                PROVE  disk'[p] = e.pages[p]
    BY Zenon DEF SnapshotTreesAreImmutable
  <2>1. CASE e = c
    BY <1>1, <1>2, <1>4, <1>6, <2>1
  <2>2. CASE e \in Held
    <3>1. p \in HeldPages
      BY <2>2 DEF HeldPages, NodePages
    <3>2. disk[p] = e.pages[p]
      BY <2>2 DEF SnapshotsStand, SnapshotTreesAreImmutable
    <3>. QED  BY <1>1, <1>2, <1>6, <3>1, <3>2
  <2>. QED  BY <1>7, <2>1, <2>2
<1>11. Fresh(disk', committed') = t /\ w' = t /\ disk' = s.pg
  BY <1>1, <1>2, <1>5, Zenon
<1>12. DOMAIN snap' = Readers
  BY <1>1, Zenon DEF SnapshotsStand
<1>. QED  BY <1>9, <1>10, <1>11, <1>12, Zenon DEF SnapshotsStand

\* A call of the writer.
LEMMA CallStep ==
  ASSUME ~WriteMap, SnapshotsStand, NEW s, NEW map, Works(s, map),
         Stands(w, HeldPages, disk) => Settled(s, HeldPages, disk)
  PROVE  SnapshotsStand'
<1>1. ~w.failed /\ w' = s /\ disk' = disk /\ committed' = committed /\ snap' = snap
  BY DEF Works
<1>2. Settled(w', HeldPages, disk)
  BY <1>1, Zenon DEF SnapshotsStand
<1>3. Held' \subseteq Held
  BY <1>1 DEF Held
<1>. QED  BY <1>1, <1>2, <1>3, QuietStep

\* Each step keeps the invariant.
LEMMA SnapshotsStandNext ==
  ASSUME ~WriteMap, MaxDelHeight <= 2, SnapshotsStand, [Next]_vars
  PROVE  SnapshotsStand'
<1>1. CASE BeginWrite \/ Abort
  <2>1. w' = Fresh(disk, committed) /\ disk' = disk /\ committed' = committed /\ snap' = snap
    BY <1>1, Zenon DEF BeginWrite, Abort
  <2>2. Held' \subseteq Held
    BY <2>1 DEF Held
  <2>. QED  BY <2>1, <2>2, QuietStep
<1>2. CASE Commit
  BY <1>2, CommitStep
<1>3. ASSUME NEW k \in Keys, NEW v \in Vals, Put(k, v) \/ PutAppend(k, v)
      PROVE  SnapshotsStand'
  <2>1. PICK t, map : /\ Works(t, map)
                      /\ t = PutAt(w, Path(w, k), k, v) \/ t = PutAt(w, AppendPath(w, k), k, v)
    BY <1>3, Zenon DEF Put, PutAppend
  <2>2. ASSUME Stands(w, HeldPages, disk) PROVE Settled(t, HeldPages, disk)
    <3>1. PICK s, H, d : s = w /\ H = HeldPages /\ d = disk
      OBVIOUS
    <3>2. Stands(s, H, d) /\ (t = PutAt(s, Path(s, k), k, v) \/ t = PutAt(s, AppendPath(s, k), k, v))
      BY <2>1, <2>2, <3>1, Zenon
    <3>3. Settled(t, H, d)
      BY <3>2, PutStands, Zenon
    <3>. QED  BY <3>1, <3>3, Zenon
  <2>. QED  BY <2>1, <2>2, CallStep
<1>4. ASSUME NEW k \in Keys, Del(k)
      PROVE  SnapshotsStand'
  <2>1. PICK t, map : /\ Works(t, map) /\ Found(w, Path(w, k), k) /\ w.tree.height <= MaxDelHeight
                      /\ t = DelNode(w, Path(w, k))
    BY <1>4, Zenon DEF Del
  <2>2. ASSUME Stands(w, HeldPages, disk) PROVE Settled(t, HeldPages, disk)
    <3>1. PICK s, H, d : s = w /\ H = HeldPages /\ d = disk
      OBVIOUS
    <3>2. Stands(s, H, d) /\ t = DelNode(s, Path(s, k)) /\ Found(s, Path(s, k), k)
      BY <2>1, <2>2, <3>1, Zenon
    <3>3. s.tree.height <= 2
      <4>1. s.tree.height \in Nat
        BY <3>2 DEF Stands, Rooted, Sound, Tree, Bounds
      <4>2. s.tree.height <= MaxDelHeight
        BY <2>1, <3>1, Zenon
      <4>. QED  BY <4>1, <4>2, TreeAssumption
    <3>4. Settled(t, H, d)
      BY <3>2, <3>3, DelStands, Zenon
    <3>. QED  BY <3>1, <3>4, Zenon
  <2>. QED  BY <2>1, <2>2, CallStep
<1>5. ASSUME NEW r \in Readers, BeginRead(r) \/ EndRead(r)
      PROVE  SnapshotsStand'
  <2>1. /\ w' = w /\ disk' = disk /\ committed' = committed
        /\ \/ snap' = [snap EXCEPT ![r] = committed]
           \/ snap' = [snap EXCEPT ![r] = NoSnap]
    BY <1>5, Zenon DEF BeginRead, EndRead
  <2>2. DOMAIN snap = Readers
    BY Zenon DEF SnapshotsStand
  <2>3. Held' \subseteq Held /\ DOMAIN snap' = DOMAIN snap
    BY <2>1, <2>2 DEF Held
  <2>. QED  BY <2>1, <2>3, QuietStep
<1>6. CASE UNCHANGED vars
  <2>1. w' = w /\ disk' = disk /\ committed' = committed /\ snap' = snap
    BY <1>6 DEF vars
  <2>2. Held' \subseteq Held
    BY <2>1 DEF Held
  <2>. QED  BY <2>1, <2>2, QuietStep
<1>7. CASE Next
  <2>1. \A pair \in Puts : pair[1] \in Keys /\ pair[2] \in Vals
    BY TreeAssumption
  <2>. QED  BY <1>1, <1>2, <1>3, <1>4, <1>5, <1>7, <2>1, Zenon DEF Next
<1>. QED  BY <1>6, <1>7

(***************************************************************************)
(* Theorem.  A reader's tree is the one it began with: no branch or leaf   *)
(* page that the last commit or a reader holds is ever written, by any     *)
(* number of transactions, for every set of keys, values and readers.      *)
(* The writer changes in place only pages it made itself and copies every  *)
(* other one (touchPageAt), and what it puts on its list of free pages     *)
(* and takes again (freePage, allocatePage) may be an overflow page of     *)
(* the commit, but never a page of its trees.  WriteMap is FALSE: what an  *)
(* aborted writer did to the map itself stays there.  MaxDelHeight <= 2:   *)
(* from a higher tree a delete can leave a branch page without nodes, and  *)
(* a search that enters it follows the bytes of a node that is gone, to a  *)
(* page that may be free.                                                  *)
(***************************************************************************)
THEOREM SnapshotTreesStay ==
  ASSUME ~WriteMap, MaxDelHeight <= 2
  PROVE  Spec => []SnapshotTreesAreImmutable
<1>1. SnapshotsStand /\ [Next]_vars => SnapshotsStand'
  BY SnapshotsStandNext
<1>2. SnapshotsStand => SnapshotTreesAreImmutable
  BY DEF SnapshotsStand
<1>. QED  BY <1>1, <1>2, SnapshotsStandInit, PTL DEF Spec

(***************************************************************************)
(* Theorem.  The writer never holds a page as free that its tree leads to, *)
(* nor one twice: no page freed by freeEmptyPage, freeOverflowPages or an  *)
(* update in place has a node left that claims it, and no page is a tree's *)
(* page and part of a large value.  A page given away twice would be the   *)
(* child of two parents, without any error.                                *)
(***************************************************************************)
THEOREM FreePagesStayUnused ==
  ASSUME ~WriteMap, MaxDelHeight <= 2
  PROVE  Spec => []FreePagesAreUnused
<1>1. SnapshotsStand /\ [Next]_vars => SnapshotsStand'
  BY SnapshotsStandNext
<1>2. ASSUME SnapshotsStand PROVE FreePagesAreUnused
  <2>. SUFFICES ASSUME ~w.failed
                PROVE  /\ TreePages(w) \cap OverflowPages(w) = {}
                       /\ IsInjective(w.free)
                       /\ ToSet(w.free) \cap (TreePages(w) \cup OverflowPages(w)) = {}
    BY DEF FreePagesAreUnused
  <2>1. PICK s, H, d : s = w /\ H = HeldPages /\ d = disk
    OBVIOUS
  <2>2. Stands(s, H, d)
    BY <1>2, <2>1, Zenon DEF SnapshotsStand
  <2>3. PICK lv, F, R : /\ Sound(s, H, d, lv, F, R) /\ FreeList(s, F, H)
                        /\ s.tree.root = NoPage \/ Rooted(s, lv, R)
    BY <2>2, Zenon DEF Stands
  <2>4. Tree(s.pg, s.alloc, lv, F, R)
    BY <2>3, Zenon DEF Sound
  <2>5. PagesAre(s, lv, F)
    BY <2>3, <2>4, PagesAreTheTrees, Zenon
  <2>6. PICK T, O : T = TreePages(s) /\ O = OverflowPages(s)
    OBVIOUS
  <2>7. /\ T \subseteq DOMAIN lv
        /\ \A c \in O : c \notin F /\ s.pg[c].type = "large"
    BY <2>5, <2>6, Zenon DEF PagesAre
  <2>8. F \cap DOMAIN lv = {} /\ \A p \in DOMAIN lv : s.pg[p].type # "large"
    BY <2>4 DEF Tree, Bounds, IsPage
  <2>9. IsInjective(s.free) /\ ToSet(s.free) = F
    BY <2>3, Zenon DEF FreeList
  <2>10. T \cap O = {} /\ F \cap (T \cup O) = {}
    BY <2>7, <2>8
  <2>. QED  BY <2>1, <2>6, <2>9, <2>10, Zenon
<1>. QED  BY <1>1, <1>2, SnapshotsStandInit, PTL DEF Spec

(***************************************************************************)
(* Theorem.  The height in the tree's header is the length of the way to   *)
(* every key's leaf: a new root raises it (createNewRoot), and a root that *)
(* gives way to its only child lowers it (freeEmptyPage).                  *)
(***************************************************************************)
THEOREM HeightStaysDepth ==
  ASSUME ~WriteMap, MaxDelHeight <= 2
  PROVE  Spec => []HeightIsDepth
<1>1. SnapshotsStand /\ [Next]_vars => SnapshotsStand'
  BY SnapshotsStandNext
<1>2. ASSUME SnapshotsStand PROVE HeightIsDepth
  <2>. SUFFICES ASSUME ~w.failed, NEW k \in Keys
                PROVE  Len(Path(w, k)) = w.tree.height
    BY DEF HeightIsDepth
  <2>1. PICK s, H, d, path : s = w /\ H = HeldPages /\ d = disk /\ path = Path(s, k)
    OBVIOUS
  <2>2. Stands(s, H, d)
    BY <1>2, <2>1, Zenon DEF SnapshotsStand
  <2>3. PICK lv, F, R : /\ Sound(s, H, d, lv, F, R)
                        /\ s.tree.root = NoPage \/ Rooted(s, lv, R)
                        /\ s.tree.root = NoPage => s.tree.height = 0
    BY <2>2, Zenon DEF Stands
  <2>4. Tree(s.pg, s.alloc, lv, F, R) /\ Filled(s.pg, lv) /\ k \in Nat
    BY <2>3, LengthsAssumption DEF Sound
  <2>5. CASE s.tree.root = NoPage
    <3>1. path = <<>>
      BY <2>1, <2>5, Zenon DEF Path, Descent
    <3>. QED  BY <2>1, <2>3, <2>5, <3>1
  <2>6. CASE Rooted(s, lv, R)
    <3>1. OnPath(s.pg, lv, s.tree.root, path)
      BY <2>1, <2>4, <2>6, PathFindsLeaf, Zenon
    <3>2. Len(path) = s.tree.height
      BY <2>6, <3>1, Zenon DEF OnPath, Rooted
    <3>. QED  BY <2>1, <3>2, Zenon
  <2>. QED  BY <2>3, <2>5, <2>6
<1>. QED  BY <1>1, <1>2, SnapshotsStandInit, PTL DEF Spec
==============================================================================
