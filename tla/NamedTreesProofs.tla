-------------------------- MODULE NamedTreesProofs ---------------------------
(***************************************************************************)
(* What holds of the named databases for any number of names, handles and  *)
(* readers: types, and that a name has one handle.  As long as no handle   *)
(* is closed and no other process commits, the cached trees are also the   *)
(* committed ones, nothing uncommitted is seen, and what a reader sees is  *)
(* in its map; TLC finds each of these violated otherwise.                 *)
(***************************************************************************)
EXTENDS NamedTrees, WellFoundedInduction, TLAPS

------------------------------------------------------------------------------
(* The data *)

WriterPCs == {"idle", "open", "lookup", "commit", "cache"}
Writer ==
  [pc : WriterPCs, main : Roots, trees : [Handles -> Trees], dirty : SUBSET Handles,
   handle : [Handles -> Names \cup {NoName}], opening : Names \cup {NoName},
   slot : {NoSlot} \cup Handles, made : SUBSET Updates, dropped : SUBSET Names]
ReaderPCs == {"idle", "copy", "active", "reset"}
Reader ==
  [pc : ReaderPCs, how : {"begin", "renew"}, main : Roots, trees : [Handles -> Trees],
   mapped : SUBSET Updates]

(***************************************************************************)
(* A set of numbers that is not empty has a least one.                     *)
(***************************************************************************)
LEMMA Least ==
  ASSUME NEW S \in SUBSET Nat, S # {}
  PROVE  \E x \in S : \A y \in S : x <= y
<1>1. PICK x \in S : \A y \in S : ~ (<<y, x>> \in OpToRel(<,Nat))
  BY NatLessThanWellFounded, WFMin
<1>2. \A y \in S : ~ (y < x)
  BY <1>1 DEF OpToRel
<1>. QED  BY <1>2

(***************************************************************************)
(* The handle that OpenDBI fills is free, if any is.                       *)
(***************************************************************************)
LEMMA FirstFreeIsFree == FreeHandles # {} => FirstFree \in FreeHandles
<1>1. FreeHandles \in SUBSET Nat
  BY HandlesAssumption DEF FreeHandles, Handles
<1>. QED  BY <1>1, Least DEF FirstFree

(***************************************************************************)
(* MainDBI maps some of the names to trees.                                *)
(***************************************************************************)
LEMMA RootsAre ==
  /\ \A S \in SUBSET Names : \A f \in [S -> Trees] : f \in Roots
  /\ \A f \in Roots : DOMAIN f \in SUBSET Names /\ f \in [DOMAIN f -> Trees]
  /\ NoRoots \in Roots
<1>1. \A S \in SUBSET Names : \A f \in [S -> Trees] : f \in Roots
  BY DEF Roots
<1>2. \A f \in Roots : DOMAIN f \in SUBSET Names /\ f \in [DOMAIN f -> Trees]
  BY DEF Roots
<1>3. NoRoots \in [{} -> Trees]
  BY DEF NoRoots
<1>. QED  BY <1>1, <1>2, <1>3

(***************************************************************************)
(* NoRoots, NoNames and the trees a transaction begins with are well typed.*)
(***************************************************************************)
LEMMA BeginTyped ==
  ASSUME dbis \in [Handles -> Infos]
  PROVE  /\ NoRoots \in Roots /\ NoNames \in [Handles -> Names \cup {NoName}]
         /\ OpenNames \in [Handles -> Names \cup {NoName}]
         /\ \A trees \in [Handles -> Trees] : CopyTrees(trees) \in [Handles -> Trees]
BY RootsAre DEF NoNames, OpenNames, CopyTrees, Infos

------------------------------------------------------------------------------
(* The steps, with the transaction written out field by field *)

Txn(pc, roots, trees, dirty, handle, opening, slot, made, dropped) ==
  [pc |-> pc, main |-> roots, trees |-> trees, dirty |-> dirty, handle |-> handle,
   opening |-> opening, slot |-> slot, made |-> made, dropped |-> dropped]

ReadTxn(pc, how, roots, trees, mapped) ==
  [pc |-> pc, how |-> how, main |-> roots, trees |-> trees, mapped |-> mapped]

\* Env.dbis with the first free handle filled, and MainDBI with a name added.
Filled(n, tree) == [dbis EXCEPT ![FirstFree] = [name |-> n, tree |-> tree]]
Created(roots, n) == [m \in {n} \cup DOMAIN roots |-> IF m = n THEN {} ELSE roots[m]]

\* Env.dbis as updateCachedDBITrees, and MainDBI as persistNamedDBTrees, leaves it.
DbisCached ==
  [h \in Handles |-> IF h \in Dirty THEN [dbis[h] EXCEPT !.tree = w.trees[h]] ELSE dbis[h]]
Persisted(roots) ==
  [n \in DOMAIN roots \cup {dbis[h].name : h \in Dirty} |->
     IF \E h \in Dirty : dbis[h].name = n
     THEN w.trees[CHOOSE h \in Dirty : dbis[h].name = n]
     ELSE roots[n]]

(***************************************************************************)
(* A write transaction begins, or ends.                                    *)
(***************************************************************************)
LEMMA AfterBeginWrite ==
  ASSUME BeginWrite
  PROVE  /\ w.pc = "idle"
         /\ w' = Txn("open", main, CopyTrees(w.trees), {}, OpenNames, NoName, NoSlot, {}, {})
         /\ view' = main
         /\ UNCHANGED <<main, dbis, readers, updates, published, counts>>
BY Zenon DEF BeginWrite, WriterIdle, Txn

LEMMA AfterAbortWrite ==
  ASSUME AbortWrite
  PROVE  /\ w.pc \in {"open", "commit"}
         /\ w' = Txn("idle", NoRoots, w.trees, {}, NoNames, NoName, NoSlot, {}, {})
         /\ UNCHANGED <<main, view, dbis, readers, updates, published, counts>>
BY Zenon DEF AbortWrite, WriterIdle, Txn

LEMMA AfterUpdateCachedTrees ==
  ASSUME UpdateCachedTrees
  PROVE  /\ w.pc = "cache"
         /\ w' = Txn("idle", NoRoots, w.trees, {}, NoNames, NoName, NoSlot, {}, {})
         /\ dbis' = DbisCached
         /\ UNCHANGED <<main, view, readers, updates, published, counts>>
BY Zenon DEF UpdateCachedTrees, WriterIdle, Txn, DbisCached

(***************************************************************************)
(* OpenDBI in a write transaction.                                         *)
(***************************************************************************)
LEMMA AfterOpenKnown ==
  ASSUME w \in Writer, NEW n \in Names, OpenKnown(n)
  PROVE  /\ w.pc = "open"
         /\ \E h \in HandleOf(n) :
              w' = Txn("lookup", w.main, w.trees, w.dirty, w.handle, n, h, w.made, w.dropped)
         /\ UNCHANGED <<main, view, dbis, readers, updates, published, counts>>
BY Zenon DEF Writer, OpenKnown, Txn

LEMMA AfterOpenCached ==
  ASSUME w \in Writer, OpenCached
  PROVE  /\ w.pc = "lookup" /\ w.slot # NoSlot
         /\ w' = Txn("open", w.main,
                     [w.trees EXCEPT ![w.slot] =
                        IF dbis[w.slot] = NoInfo THEN @ ELSE dbis[w.slot].tree],
                     w.dirty, [w.handle EXCEPT ![w.slot] = w.opening], NoName, NoSlot,
                     w.made, w.dropped)
         /\ UNCHANGED <<main, view, dbis, readers, updates, published, counts>>
BY Zenon DEF Writer, OpenCached, Txn

LEMMA AfterOpenLookup ==
  ASSUME w \in Writer, NEW n \in Names, OpenLookup(n)
  PROVE  /\ w.pc = "open" /\ HandleOf(n) = {}
         /\ w' = Txn("lookup", w.main, w.trees, w.dirty, w.handle, n, w.slot, w.made,
                     w.dropped)
         /\ UNCHANGED <<main, view, dbis, readers, updates, published, counts>>
BY Zenon DEF Writer, OpenLookup, Txn

LEMMA AfterOpenFound ==
  ASSUME w \in Writer, OpenFound
  PROVE  /\ w.pc = "lookup" /\ w.slot = NoSlot /\ w.opening \in DOMAIN w.main
         /\ \/ \E h \in HandleOf(w.opening) :
                 /\ w' = Txn("open", w.main, w.trees, w.dirty,
                             [w.handle EXCEPT ![h] = w.opening], NoName, w.slot, w.made, w.dropped)
                 /\ dbis' = dbis
            \/ /\ HandleOf(w.opening) = {} /\ FreeHandles # {}
               /\ w' = Txn("open", w.main,
                           [w.trees EXCEPT ![FirstFree] = w.main[w.opening]], w.dirty,
                           [w.handle EXCEPT ![FirstFree] = w.opening], NoName, w.slot, w.made,
                           w.dropped)
               /\ dbis' = Filled(w.opening, w.main[w.opening])
            \/ /\ w' = Txn("open", w.main, w.trees, w.dirty, w.handle, NoName, w.slot, w.made,
                           w.dropped)
               /\ dbis' = dbis
         /\ UNCHANGED <<main, view, readers, updates, published, counts>>
BY Zenon DEF Writer, OpenFound, Txn, Filled

LEMMA AfterOpenMissing ==
  ASSUME w \in Writer, NEW create \in BOOLEAN, OpenMissing(create)
  PROVE  /\ w.pc = "lookup" /\ w.slot = NoSlot /\ w.opening \notin DOMAIN w.main
         /\ \/ /\ w' = Txn("open", w.main, w.trees, w.dirty, w.handle, NoName, w.slot, w.made,
                           w.dropped)
               /\ dbis' = dbis
            \/ /\ FreeHandles # {}
               /\ w' = Txn("open", Created(w.main, w.opening),
                           [w.trees EXCEPT ![FirstFree] = {}], w.dirty,
                           [w.handle EXCEPT ![FirstFree] = w.opening], NoName, w.slot, w.made,
                           w.dropped)
               /\ dbis' = Filled(w.opening, {})
            \/ /\ w' = Txn("open", Created(w.main, w.opening), w.trees, w.dirty, w.handle,
                           NoName, w.slot, w.made, w.dropped)
               /\ dbis' = dbis
         /\ UNCHANGED <<main, view, readers, updates, published, counts>>
BY Zenon DEF Writer, OpenMissing, Txn, Filled, Created

(***************************************************************************)
(* Put, Delete and Drop.                                                   *)
(***************************************************************************)
LEMMA AfterUpdate ==
  ASSUME w \in Writer, NEW h \in Handles, Update(h)
  PROVE  /\ w.pc = "open" /\ w.handle[h] # NoName
         /\ updates < MaxUpdates /\ updates' = updates + 1
         /\ w' = Txn("open", w.main, [w.trees EXCEPT ![h] = @ \cup {updates'}],
                     w.dirty \cup {h}, w.handle, w.opening, w.slot, w.made \cup {updates'}, w.dropped)
         /\ UNCHANGED <<main, view, dbis, readers, published, counts>>
BY Zenon DEF Writer, Update, Txn

LEMMA AfterDrop ==
  ASSUME w \in Writer, NEW h \in Handles, NEW del \in BOOLEAN, Drop(h, del)
  PROVE  /\ w.pc = "open" /\ w.handle[h] # NoName
         /\ del => closes < MaxCloses
         /\ w' = Txn("open", w.main, [w.trees EXCEPT ![h] = {}], w.dirty \cup {h},
                     [w.handle EXCEPT ![h] = IF del THEN NoName ELSE @], w.opening, w.slot, w.made,
                     w.dropped \cup {w.handle[h]})
         /\ dbis' = IF del THEN [dbis EXCEPT ![h] = NoInfo] ELSE dbis
         /\ closes' = IF del THEN closes + 1 ELSE closes
         /\ UNCHANGED <<main, view, readers, updates, published, foreign>>
BY Zenon DEF Writer, Drop, Txn

(***************************************************************************)
(* The two halves of Commit before the cached trees.                       *)
(***************************************************************************)
LEMMA AfterPersistNamedTrees ==
  ASSUME w \in Writer, PersistNamedTrees
  PROVE  /\ w.pc = "open"
         /\ w' = Txn("commit", Persisted(w.main), w.trees, w.dirty, w.handle, w.opening, w.slot,
                     w.made, w.dropped)
         /\ UNCHANGED <<main, view, dbis, readers, updates, published, counts>>
BY Zenon DEF Writer, PersistNamedTrees, Txn, Persisted

LEMMA AfterUpdateMeta ==
  ASSUME w \in Writer, UpdateMeta
  PROVE  /\ w.pc = "commit" /\ \A r \in Readers : ~HoldsRLock(r)
         /\ w' = Txn("cache", w.main, w.trees, w.dirty, w.handle, w.opening, w.slot, w.made,
                     w.dropped)
         /\ main' = w.main /\ view' = w.main /\ published' = published \cup w.made
         /\ UNCHANGED <<dbis, readers, updates, counts>>
BY Zenon DEF Writer, UpdateMeta, Txn

(***************************************************************************)
(* The steps of a read transaction.                                        *)
(***************************************************************************)
LEMMA AfterStartRead ==
  ASSUME NEW r \in Readers, readers[r] \in Reader, NEW how, StartRead(r, how)
  PROVE  /\ readers' = [readers EXCEPT ![r] =
                          ReadTxn("copy", how, view, readers[r].trees, published)]
         /\ UNCHANGED <<main, view, dbis, w, updates, published, counts>>
<1>1. PICK x : /\ x = [readers[r] EXCEPT !.pc = "copy", !.how = how, !.main = view,
                                         !.mapped = published]
               /\ readers' = [readers EXCEPT ![r] = x]
  BY DEF StartRead, Set
<1>2. x = ReadTxn("copy", how, view, readers[r].trees, published)
  BY <1>1, Zenon DEF Reader, ReadTxn
<1>. QED  BY <1>1, <1>2 DEF StartRead

LEMMA AfterCopyNamed ==
  ASSUME NEW r \in Readers, readers[r] \in Reader, CopyNamed(r)
  PROVE  /\ readers[r].pc = "copy"
         /\ readers' = [readers EXCEPT ![r] =
                          ReadTxn("active", readers[r].how, readers[r].main,
                                  CopyTrees(readers[r].trees), readers[r].mapped)]
         /\ UNCHANGED <<main, view, dbis, w, updates, published, counts>>
<1>1. PICK x : /\ x = [readers[r] EXCEPT !.pc = "active",
                                         !.trees = CopyTrees(readers[r].trees)]
               /\ readers' = [readers EXCEPT ![r] = x]
  BY DEF CopyNamed, Set
<1>2. x = ReadTxn("active", readers[r].how, readers[r].main, CopyTrees(readers[r].trees),
                  readers[r].mapped)
  BY <1>1, Zenon DEF Reader, ReadTxn
<1>. QED  BY <1>1, <1>2 DEF CopyNamed

LEMMA AfterOpenRead ==
  ASSUME NEW r \in Readers, readers[r] \in Reader, NEW n \in Names, OpenRead(r, n)
  PROVE  /\ readers[r].pc = "active" /\ n \in DOMAIN readers[r].main
         /\ HandleOf(n) = {} /\ FreeHandles # {}
         /\ dbis' = Filled(n, readers[r].main[n])
         /\ readers' = [readers EXCEPT ![r] =
                          ReadTxn("active", readers[r].how, readers[r].main,
                                  [readers[r].trees EXCEPT ![FirstFree] = readers[r].main[n]],
                                  readers[r].mapped)]
         /\ UNCHANGED <<main, view, w, updates, published, counts>>
<1>1. PICK x : /\ x = [readers[r] EXCEPT !.trees[FirstFree] = readers[r].main[n]]
               /\ readers' = [readers EXCEPT ![r] = x]
  BY DEF OpenRead, Set
<1>2. x = ReadTxn(readers[r].pc, readers[r].how, readers[r].main,
                  [readers[r].trees EXCEPT ![FirstFree] = readers[r].main[n]],
                  readers[r].mapped)
  BY <1>1, Zenon DEF Reader, ReadTxn
<1>. QED  BY <1>1, <1>2 DEF OpenRead, Filled

LEMMA AfterEndRead ==
  ASSUME NEW r \in Readers, NEW pc \in {"idle", "reset"}, EndRead(r, pc)
  PROVE  /\ readers' = [readers EXCEPT ![r] =
                          ReadTxn(pc, "begin", NoRoots, readers[r].trees, {})]
         /\ UNCHANGED <<main, view, dbis, w, updates, published, counts>>
<1>1. [ReaderIdle(readers[r].trees) EXCEPT !.pc = pc]
        = ReadTxn(pc, "begin", NoRoots, readers[r].trees, {})
  BY DEF ReaderIdle, ReadTxn
<1>. QED  BY <1>1, Zenon DEF EndRead, Set

------------------------------------------------------------------------------
(* Types *)

Typed ==
  /\ main \in Roots /\ view \in Roots
  /\ dbis \in [Handles -> Infos]
  /\ w \in Writer /\ readers \in [Readers -> Reader]
  /\ updates \in 0..MaxUpdates /\ published \subseteq Updates
  /\ closes \in 0..MaxCloses /\ foreign \in BOOLEAN
  /\ \A h \in Handles : dbis[h].name = NoName => dbis[h] = NoInfo
  /\ w.pc = "lookup" => w.opening \in Names
  /\ w.slot # NoSlot => w.pc = "lookup"

(***************************************************************************)
(* A free handle stays in the table when it is filled, and so do the       *)
(* cached trees of a commit.                                               *)
(***************************************************************************)
LEMMA DbisTyped ==
  ASSUME Typed
  PROVE  /\ DbisCached \in [Handles -> Infos]
         /\ FreeHandles # {} => FirstFree \in Handles /\ dbis[FirstFree] = NoInfo
         /\ \A n \in Names, tree \in Trees : Filled(n, tree) \in [Handles -> Infos]
<1>1. DbisCached \in [Handles -> Infos]
  BY DEF Typed, DbisCached, Infos, Writer
<1>2. \A n \in Names, tree \in Trees : [name |-> n, tree |-> tree] \in Infos
  BY DEF Infos
<1>3. \A n \in Names, tree \in Trees : Filled(n, tree) \in [Handles -> Infos]
  BY <1>2 DEF Typed, Filled
<1>. QED  BY <1>1, <1>3, FirstFreeIsFree DEF FreeHandles

(***************************************************************************)
(* What createNamedDBI and persistNamedDBTrees make of MainDBI.            *)
(***************************************************************************)
LEMMA RootsTyped ==
  ASSUME Typed
  PROVE  /\ \A n \in Names : Created(w.main, n) \in Roots
         /\ Persisted(w.main) \in Roots
<1>1. /\ w.main \in Roots /\ w.trees \in [Handles -> Trees]
      /\ DOMAIN w.main \in SUBSET Names /\ w.main \in [DOMAIN w.main -> Trees]
  BY RootsAre DEF Typed, Writer
<1>2. ASSUME NEW n \in Names PROVE Created(w.main, n) \in Roots
  <2>1. Created(w.main, n) \in [{n} \cup DOMAIN w.main -> Trees]
    BY <1>1 DEF Created, Trees
  <2>. QED  BY <1>1, <2>1, RootsAre
<1>3. Persisted(w.main) \in Roots
  <2>. DEFINE S == DOMAIN w.main \cup {dbis[h].name : h \in Dirty}
  <2>1. S \in SUBSET Names
    BY <1>1 DEF Dirty, Typed, Infos, Writer
  <2>2. \A n \in Names : (\E h \in Dirty : dbis[h].name = n) =>
          w.trees[CHOOSE h \in Dirty : dbis[h].name = n] \in Trees
    BY <1>1 DEF Dirty, Typed, Writer
  <2>3. Persisted(w.main) \in [S -> Trees]
    BY <1>1, <2>1, <2>2 DEF Persisted
  <2>. QED  BY <2>1, <2>3, RootsAre
<1>. QED  BY <1>2, <1>3

(***************************************************************************)
(* The process starts well typed, whatever databases the file holds.       *)
(***************************************************************************)
LEMMA InitTyped == Init => Typed
<1>. SUFFICES ASSUME Init PROVE Typed
  OBVIOUS
<1>1. main \in Roots
  <2>1. PICK S \in SUBSET Names : main = [n \in S |-> {0}]
    BY DEF Init
  <2>2. main \in [S -> Trees]
    BY <2>1, BoundsAssumption DEF Trees, Updates
  <2>. QED  BY <2>2, RootsAre
<1>2. NoTrees \in [Handles -> Trees] /\ NoInfo \in Infos
  BY DEF NoTrees, Trees, NoInfo, Infos
<1>3. w \in Writer /\ readers \in [Readers -> Reader]
  BY <1>2, RootsAre
     DEF Init, WriterIdle, ReaderIdle, NoNames, Writer, WriterPCs, Reader, ReaderPCs
<1>4. dbis = [h \in Handles |-> NoInfo] /\ w.pc = "idle" /\ w.slot = NoSlot
  BY DEF Init, WriterIdle
<1>5. 0 \in Updates /\ 0 \in 0..MaxCloses
  BY BoundsAssumption DEF Updates
<1>. QED
  BY <1>1, <1>2, <1>3, <1>4, <1>5 DEF Init, Typed, Updates

(***************************************************************************)
(* Every step keeps the types: an update is numbered within its bound, and *)
(* nothing but a name of the file or of an OpenDBI gets a handle.          *)
(***************************************************************************)
LEMMA StepTyped == Typed /\ [Next]_vars => Typed'
<1>. SUFFICES ASSUME Typed, [Next]_vars PROVE Typed'
  OBVIOUS
<1>. USE DEF counts
<1>1. /\ w \in Writer /\ w.main \in Roots /\ w.trees \in [Handles -> Trees]
      /\ w.made \in SUBSET Updates /\ w.dirty \in SUBSET Handles
      /\ w.opening \in Names \cup {NoName} /\ w.dropped \in SUBSET Names
      /\ w.handle \in [Handles -> Names \cup {NoName}]
      /\ dbis \in [Handles -> Infos] /\ \A h \in Handles : dbis[h].tree \in Trees
  BY DEF Typed, Writer, Infos
<1>2. \A n : \A h \in HandleOf(n) : h \in Handles
  BY DEF HandleOf
<1>18. NoInfo \in Infos
  BY DEF NoInfo, Infos, Trees
<1>3. CASE BeginWrite
  BY <1>1, <1>3, AfterBeginWrite, BeginTyped DEF Typed, Txn, Writer, WriterPCs
<1>4. ASSUME NEW n \in Names, OpenKnown(n) PROVE Typed'
  BY <1>1, <1>2, <1>4, AfterOpenKnown DEF Typed, Txn, Writer, WriterPCs
<1>19. CASE OpenCached
  <2>1. w.slot \in Handles /\ dbis[w.slot].tree \in Trees
    BY <1>1, <1>19, AfterOpenCached DEF Writer
  <2>. QED  BY <1>1, <1>19, <2>1, AfterOpenCached DEF Typed, Txn, Writer, WriterPCs
<1>5. ASSUME NEW n \in Names, OpenLookup(n) PROVE Typed'
  BY <1>1, <1>5, AfterOpenLookup DEF Typed, Txn, Writer, WriterPCs
<1>6. CASE OpenFound
  <2>1. w'.pc = "open" /\ w'.slot = w.slot /\ w.slot = NoSlot
    BY <1>1, <1>6, AfterOpenFound DEF Txn
  <2>2. w' \in Writer
    <3>1. PICK trees, handle : w' = Txn("open", w.main, trees, w.dirty, handle, NoName,
                                        w.slot, w.made, w.dropped)
            /\ \/ trees = w.trees
               \/ FreeHandles # {} /\ trees = [w.trees EXCEPT ![FirstFree] = w.main[w.opening]]
            /\ \/ handle = w.handle
               \/ \E h \in Handles : handle = [w.handle EXCEPT ![h] = w.opening]
      BY <1>1, <1>2, <1>6, AfterOpenFound, DbisTyped
    <3>2. w.opening \in Names /\ w.main[w.opening] \in Trees
      BY <1>1, <1>6, AfterOpenFound, RootsAre DEF Typed
    <3>3. trees \in [Handles -> Trees]
      BY <1>1, <3>1, <3>2, DbisTyped
    <3>4. handle \in [Handles -> Names \cup {NoName}]
      BY <1>1, <3>1, <3>2
    <3>. QED  BY <1>1, <3>1, <3>3, <3>4 DEF Txn, Writer, WriterPCs
  <2>3. dbis' \in [Handles -> Infos] /\ \A g \in Handles : dbis'[g].name = NoName => dbis'[g] = NoInfo
    <3>1. dbis' = dbis \/ (w.main[w.opening] \in Trees /\ w.opening \in Names
                            /\ dbis' = Filled(w.opening, w.main[w.opening]))
      BY <1>1, <1>6, AfterOpenFound, RootsAre DEF Typed
    <3>2. CASE dbis' = dbis
      BY <3>2 DEF Typed
    <3>3. CASE /\ w.main[w.opening] \in Trees /\ w.opening \in Names
               /\ dbis' = Filled(w.opening, w.main[w.opening])
      BY <1>1, <3>3, DbisTyped, NamesAssumption DEF Typed, Filled
    <3>. QED  BY <3>1, <3>2, <3>3
  <2>. QED  BY <1>1, <1>6, <2>1, <2>2, <2>3, AfterOpenFound DEF Typed
<1>7. ASSUME NEW create \in BOOLEAN, OpenMissing(create) PROVE Typed'
  BY <1>1, <1>7, AfterOpenMissing, DbisTyped, RootsTyped, NamesAssumption
     DEF Typed, Txn, Writer, WriterPCs, Filled, Trees
<1>8. ASSUME NEW h \in Handles, Update(h) PROVE Typed'
  <2>1. updates' \in Updates
    <3>1. updates < MaxUpdates /\ updates' = updates + 1
      BY <1>1, <1>8, AfterUpdate
    <3>. QED  BY <3>1, BoundsAssumption DEF Typed, Updates
  <2>2. [w.trees EXCEPT ![h] = @ \cup {updates'}] \in [Handles -> Trees]
    BY <1>1, <2>1 DEF Trees
  <2>3. w' \in Writer /\ w'.pc = "open" /\ w'.slot = w.slot
    <3>1. w' = Txn("open", w.main, [w.trees EXCEPT ![h] = @ \cup {updates'}],
                   w.dirty \cup {h}, w.handle, w.opening, w.slot, w.made \cup {updates'},
                   w.dropped)
      BY <1>1, <1>8, AfterUpdate
    <3>. QED  BY <1>1, <2>1, <2>2, <3>1 DEF Txn, Writer, WriterPCs
  <2>4. w.slot = NoSlot
    <3>1. w.pc = "open"
      BY <1>1, <1>8, AfterUpdate
    <3>. QED  BY <3>1 DEF Typed
  <2>. QED  BY <1>1, <1>8, <2>1, <2>3, <2>4, AfterUpdate DEF Typed, Updates
<1>9. ASSUME NEW h \in Handles, NEW del \in BOOLEAN, Drop(h, del) PROVE Typed'
  <2>1. w' \in Writer /\ w'.pc = "open" /\ w'.slot = w.slot
    BY <1>1, <1>9, AfterDrop DEF Txn, Writer, WriterPCs, Trees
  <2>2. dbis' \in [Handles -> Infos]
    BY <1>1, <1>9, <1>18, AfterDrop
  <2>3. \A g \in Handles : dbis'[g].name = NoName => dbis'[g] = NoInfo
    BY <1>1, <1>9, AfterDrop DEF NoInfo, Typed
  <2>4. closes' \in 0..MaxCloses
    <3>1. (del => closes < MaxCloses) /\ closes' = IF del THEN closes + 1 ELSE closes
      BY <1>1, <1>9, AfterDrop
    <3>. QED  BY <3>1, BoundsAssumption DEF Typed
  <2>5. w.slot = NoSlot
    <3>1. w.pc = "open"
      BY <1>1, <1>9, AfterDrop
    <3>. QED  BY <3>1 DEF Typed
  <2>. QED  BY <1>1, <1>9, <2>1, <2>2, <2>3, <2>4, <2>5, AfterDrop DEF Typed
<1>10. CASE AbortWrite
  BY <1>1, <1>10, AfterAbortWrite, BeginTyped DEF Typed, Txn, Writer, WriterPCs
<1>11. CASE PersistNamedTrees
  BY <1>1, <1>11, AfterPersistNamedTrees, RootsTyped DEF Typed, Txn, Writer, WriterPCs
<1>12. CASE UpdateMeta
  BY <1>1, <1>12, AfterUpdateMeta DEF Typed, Txn, Writer, WriterPCs
<1>13. CASE UpdateCachedTrees
  <2>1. \A h \in Handles : DbisCached[h].name = NoName => DbisCached[h] = NoInfo
    BY <1>1 DEF Typed, DbisCached, Dirty, Infos
  <2>. QED
    BY <1>1, <1>13, <2>1, AfterUpdateCachedTrees, BeginTyped, DbisTyped
       DEF Typed, Txn, Writer, WriterPCs
<1>14. ASSUME NEW r \in Readers, ReaderStep(r) PROVE Typed'
  <2>1. /\ readers \in [Readers -> Reader]
        /\ readers[r] \in Reader /\ readers[r].main \in Roots
        /\ readers[r].trees \in [Handles -> Trees] /\ readers[r].mapped \in SUBSET Updates
        /\ readers[r].how \in {"begin", "renew"}
    BY DEF Typed, Reader
  <2>2. ASSUME NEW how \in {"begin", "renew"}, StartRead(r, how) PROVE Typed'
    BY <2>1, <2>2, AfterStartRead DEF Typed, ReadTxn, Reader, ReaderPCs
  <2>3. CASE CopyNamed(r)
    <3>1. CopyTrees(readers[r].trees) \in [Handles -> Trees]
      BY <1>1, <2>1, BeginTyped
    <3>2. ReadTxn("active", readers[r].how, readers[r].main, CopyTrees(readers[r].trees),
                  readers[r].mapped) \in Reader
      BY <2>1, <3>1 DEF ReadTxn, Reader, ReaderPCs
    <3>. QED  BY <2>1, <2>3, <3>2, AfterCopyNamed DEF Typed
  <2>4. ASSUME NEW n \in Names, OpenRead(r, n) PROVE Typed'
    <3>1. readers[r].main[n] \in Trees
      BY <2>1, <2>4, AfterOpenRead, RootsAre
    <3>2. Filled(n, readers[r].main[n]) \in [Handles -> Infos]
      BY <3>1, DbisTyped
    <3>3. readers' \in [Readers -> Reader]
      <4>1. [readers[r].trees EXCEPT ![FirstFree] = readers[r].main[n]] \in [Handles -> Trees]
        BY <2>1, <3>1
      <4>2. ReadTxn("active", readers[r].how, readers[r].main,
                    [readers[r].trees EXCEPT ![FirstFree] = readers[r].main[n]],
                    readers[r].mapped) \in Reader
        BY <2>1, <4>1 DEF ReadTxn, Reader, ReaderPCs
      <4>. QED  BY <2>1, <2>4, <4>2, AfterOpenRead
    <3>4. \A h \in Handles : dbis'[h].name = NoName => dbis'[h] = NoInfo
      <4>1. dbis' = Filled(n, readers[r].main[n]) /\ FreeHandles # {}
        BY <2>1, <2>4, AfterOpenRead
      <4>. QED  BY <1>1, <4>1, DbisTyped, NamesAssumption DEF Filled, Typed
    <3>. QED  BY <2>4, <3>2, <3>3, <3>4, AfterOpenRead DEF Typed
  <2>5. ASSUME NEW pc \in {"idle", "reset"}, EndRead(r, pc) PROVE Typed'
    BY <2>1, <2>5, AfterEndRead, RootsAre DEF Typed, ReadTxn, Reader, ReaderPCs
  <2>. QED  BY <1>14, <2>2, <2>3, <2>4, <2>5 DEF ReaderStep, Reset, AbortRead
<1>15. ASSUME NEW h \in Handles, CloseDBI(h) PROVE Typed'
  <2>1. closes' \in 0..MaxCloses
    BY <1>15, BoundsAssumption DEF CloseDBI, Typed
  <2>2. dbis' \in [Handles -> Infos] /\ dbis' = [dbis EXCEPT ![h] = NoInfo]
    BY <1>1, <1>15, <1>18 DEF CloseDBI
  <2>3. \A g \in Handles : dbis'[g].name = NoName => dbis'[g] = NoInfo
    BY <1>1, <2>2 DEF Typed
  <2>. QED  BY <1>15, <2>1, <2>2, <2>3 DEF CloseDBI, Typed
<1>16. ASSUME NEW n \in Names, ForeignCommit(n) PROVE Typed'
  <2>1. updates' \in Updates /\ updates' \in 0..MaxUpdates
    BY <1>16, BoundsAssumption DEF ForeignCommit, Typed, Updates
  <2>2. main' \in [DOMAIN main -> Trees] /\ DOMAIN main \in SUBSET Names
    BY <1>16, <2>1, RootsAre DEF ForeignCommit, Typed, Trees
  <2>3. main' \in Roots
    BY <2>2, RootsAre
  <2>. QED  BY <1>16, <2>1, <2>3 DEF ForeignCommit, Typed
<1>17. CASE UNCHANGED vars
  BY <1>17 DEF vars, Typed
<1>. QED
  BY <1>3, <1>4, <1>5, <1>6, <1>7, <1>8, <1>9, <1>10, <1>11, <1>12, <1>13, <1>14, <1>15,
     <1>16, <1>17, <1>19 DEF Next, WriterStep

------------------------------------------------------------------------------
(* One handle per name *)

\* Whoever sees a name in MainDBI sees it there for good, and a name that the
\* writer has not found in its MainDBI has no handle.
NamesStay ==
  /\ DOMAIN view \subseteq DOMAIN main
  /\ \A r \in Readers : DOMAIN readers[r].main \subseteq DOMAIN main
  /\ w.pc \in {"open", "lookup", "commit"} => DOMAIN main \subseteq DOMAIN w.main
  /\ w.pc = "lookup" /\ w.slot = NoSlot /\ w.opening \notin DOMAIN w.main =>
       \A h \in Handles : dbis[h].name # w.opening

Shape == NamesStay /\ OneHandlePerName

(***************************************************************************)
(* No handle is open at first.                                             *)
(***************************************************************************)
LEMMA InitShape == Init => Shape
BY RootsAre
   DEF Init, Shape, NamesStay, OneHandlePerName, WriterIdle, ReaderIdle, NoRoots, NoInfo

(***************************************************************************)
(* A free handle that is filled for a name without one keeps the table so. *)
(***************************************************************************)
LEMMA FilledShape ==
  ASSUME Typed, OneHandlePerName, FreeHandles # {},
         NEW n \in Names, \A h \in Handles : dbis[h].name # n,
         NEW tree \in Trees, dbis' = Filled(n, tree)
  PROVE  /\ OneHandlePerName'
         /\ \A m : (\A h \in Handles : dbis[h].name # m) /\ m # n =>
               \A h \in Handles : dbis'[h].name # m
<1>1. FirstFree \in Handles /\ dbis[FirstFree] = NoInfo
  BY DbisTyped
<1>2. dbis \in [Handles -> Infos]
  BY DEF Typed
<1>3. /\ dbis'[FirstFree].name = n
      /\ \A h \in Handles : h # FirstFree => dbis'[h] = dbis[h]
  BY <1>1, <1>2 DEF Filled
<1>4. OneHandlePerName'
  BY <1>1, <1>3 DEF OneHandlePerName
<1>. QED  BY <1>1, <1>3, <1>4

(***************************************************************************)
(* A step on MainDBI never takes a name out of it, and a handle is added   *)
(* under dbisMu, for a name searched for under the same lock.              *)
(***************************************************************************)
LEMMA StepShape == Typed /\ Shape /\ [Next]_vars => Shape'
<1>. SUFFICES ASSUME Typed, Shape, [Next]_vars PROVE Shape'
  OBVIOUS
<1>. USE DEF counts, Shape
<1>1. w \in Writer /\ w.pc \in WriterPCs /\ dbis \in [Handles -> Infos]
  BY DEF Typed, Writer
<1>2. CASE BeginWrite
  BY <1>2, AfterBeginWrite DEF Txn, NamesStay, OneHandlePerName
<1>3. ASSUME NEW n \in Names, OpenKnown(n) PROVE Shape'
  <2>1. /\ w.pc = "open" /\ w'.pc = "lookup" /\ w'.main = w.main /\ w'.slot \in Handles
        /\ UNCHANGED <<main, view, dbis, readers>>
    BY <1>1, <1>3, AfterOpenKnown DEF Txn, HandleOf
  <2>2. w'.slot # NoSlot
    BY <2>1, HandlesAssumption DEF Handles, NoSlot
  <2>. QED  BY <2>1, <2>2 DEF NamesStay, OneHandlePerName
<1>17. CASE OpenCached
  BY <1>1, <1>17, AfterOpenCached DEF Txn, NamesStay, OneHandlePerName
<1>4. ASSUME NEW n \in Names, OpenLookup(n) PROVE Shape'
  BY <1>1, <1>4, AfterOpenLookup DEF Txn, NamesStay, OneHandlePerName, HandleOf
<1>5. CASE OpenFound
  <2>1. /\ w.pc = "lookup" /\ w'.pc = "open" /\ w'.main = w.main
        /\ UNCHANGED <<main, view, readers>>
        /\ \/ dbis' = dbis
           \/ /\ HandleOf(w.opening) = {} /\ FreeHandles # {}
              /\ w.main[w.opening] \in Trees
              /\ dbis' = Filled(w.opening, w.main[w.opening])
    BY <1>1, <1>5, AfterOpenFound, RootsAre DEF Txn, Writer
  <2>2. NamesStay'
    BY <2>1 DEF NamesStay
  <2>3. OneHandlePerName'
    BY <2>1, FilledShape DEF OneHandlePerName, HandleOf, Typed
  <2>. QED  BY <2>2, <2>3
<1>6. ASSUME NEW create \in BOOLEAN, OpenMissing(create) PROVE Shape'
  <2>1. /\ w.pc = "lookup" /\ w'.pc = "open" /\ w.opening \notin DOMAIN w.main
        /\ w.slot = NoSlot /\ DOMAIN w.main \subseteq DOMAIN w'.main
        /\ UNCHANGED <<main, view, readers>>
        /\ dbis' = dbis \/ (FreeHandles # {} /\ dbis' = Filled(w.opening, {}))
    <3>1. DOMAIN w.main \subseteq DOMAIN Created(w.main, w.opening)
      BY DEF Created
    <3>2. /\ w.pc = "lookup" /\ w'.pc = "open" /\ w.opening \notin DOMAIN w.main
          /\ w.slot = NoSlot
          /\ w'.main = w.main \/ w'.main = Created(w.main, w.opening)
      BY <1>1, <1>6, AfterOpenMissing DEF Txn
    <3>3. dbis' = dbis \/ (FreeHandles # {} /\ dbis' = Filled(w.opening, {}))
      BY <1>1, <1>6, AfterOpenMissing
    <3>4. UNCHANGED <<main, view, readers>>
      BY <1>1, <1>6, AfterOpenMissing
    <3>. QED  BY <3>1, <3>2, <3>3, <3>4
  <2>2. NamesStay'
    BY <2>1 DEF NamesStay
  <2>3. OneHandlePerName'
    BY <2>1, FilledShape DEF OneHandlePerName, NamesStay, Typed, Trees
  <2>. QED  BY <2>2, <2>3
<1>7. ASSUME NEW h \in Handles, Update(h) PROVE Shape'
  BY <1>1, <1>7, AfterUpdate DEF Txn, NamesStay, OneHandlePerName
<1>8. ASSUME NEW h \in Handles, NEW del \in BOOLEAN, Drop(h, del) PROVE Shape'
  <2>1. /\ w.pc = "open" /\ w'.pc = "open" /\ w'.main = w.main
        /\ UNCHANGED <<main, view, readers>>
        /\ dbis' = IF del THEN [dbis EXCEPT ![h] = NoInfo] ELSE dbis
    BY <1>1, <1>8, AfterDrop DEF Txn
  <2>2. NamesStay'
    BY <2>1 DEF NamesStay
  <2>3. OneHandlePerName'
    BY <1>1, <2>1 DEF OneHandlePerName, NoInfo, Typed
  <2>. QED  BY <2>2, <2>3
<1>9. CASE AbortWrite
  BY <1>1, <1>9, AfterAbortWrite DEF Txn, NamesStay, OneHandlePerName
<1>10. CASE PersistNamedTrees
  BY <1>1, <1>10, AfterPersistNamedTrees DEF Txn, Persisted, NamesStay, OneHandlePerName
<1>11. CASE UpdateMeta
  BY <1>1, <1>11, AfterUpdateMeta DEF Txn, NamesStay, OneHandlePerName
<1>12. CASE UpdateCachedTrees
  <2>1. \A h \in Handles :
          DbisCached[h].name = dbis[h].name /\ (dbis[h] = NoInfo => DbisCached[h] = NoInfo)
    BY <1>1 DEF DbisCached, Dirty, Infos
  <2>2. w'.pc = "idle" /\ dbis' = DbisCached /\ UNCHANGED <<main, view, readers>>
    BY <1>12, AfterUpdateCachedTrees DEF Txn
  <2>3. OneHandlePerName'
    BY <2>1, <2>2 DEF OneHandlePerName
  <2>. QED  BY <2>2, <2>3 DEF NamesStay
<1>13. ASSUME NEW r \in Readers, ReaderStep(r) PROVE Shape'
  <2>1. readers \in [Readers -> Reader] /\ readers[r] \in Reader
    BY DEF Typed
  <2>2. ASSUME NEW how \in {"begin", "renew"}, StartRead(r, how) PROVE Shape'
    BY <2>1, <2>2, AfterStartRead DEF ReadTxn, NamesStay, OneHandlePerName
  <2>3. CASE CopyNamed(r)
    BY <2>1, <2>3, AfterCopyNamed DEF ReadTxn, NamesStay, OneHandlePerName
  <2>4. ASSUME NEW n \in Names, OpenRead(r, n) PROVE Shape'
    <3>1. /\ n \in DOMAIN readers[r].main /\ HandleOf(n) = {} /\ FreeHandles # {}
          /\ dbis' = Filled(n, readers[r].main[n]) /\ readers[r].main[n] \in Trees
          /\ \A q \in Readers : readers'[q].main = readers[q].main
          /\ UNCHANGED <<main, view, w>>
      BY <2>1, <2>4, AfterOpenRead, RootsAre DEF ReadTxn, Reader
    <3>2. \A h \in Handles : dbis[h].name # n
      BY <3>1 DEF HandleOf
    <3>3. /\ OneHandlePerName'
          /\ \A m : (\A h \in Handles : dbis[h].name # m) /\ m # n =>
                \A h \in Handles : dbis'[h].name # m
      BY <3>1, <3>2, FilledShape
    <3>4. NamesStay'
      BY <3>1, <3>3 DEF NamesStay
    <3>. QED  BY <3>3, <3>4
  <2>5. ASSUME NEW pc \in {"idle", "reset"}, EndRead(r, pc) PROVE Shape'
    BY <2>1, <2>5, AfterEndRead DEF ReadTxn, NoRoots, NamesStay, OneHandlePerName
  <2>. QED  BY <1>13, <2>2, <2>3, <2>4, <2>5 DEF ReaderStep, Reset, AbortRead
<1>14. ASSUME NEW h \in Handles, CloseDBI(h) PROVE Shape'
  <2>1. NamesStay'
    BY <1>1, <1>14, NamesAssumption DEF CloseDBI, NamesStay, NoInfo, Typed
  <2>2. OneHandlePerName'
    BY <1>1, <1>14 DEF CloseDBI, OneHandlePerName, NoInfo, Typed
  <2>. QED  BY <2>1, <2>2
<1>15. ASSUME NEW n \in Names, ForeignCommit(n) PROVE Shape'
  BY <1>15 DEF ForeignCommit, NamesStay, OneHandlePerName
<1>16. CASE UNCHANGED vars
  BY <1>16 DEF vars, NamesStay, OneHandlePerName
<1>. QED
  BY <1>2, <1>3, <1>4, <1>5, <1>6, <1>7, <1>8, <1>9, <1>10, <1>11, <1>12, <1>13, <1>14,
     <1>15, <1>16, <1>17 DEF Next, WriterStep

------------------------------------------------------------------------------
(* The cached trees, as long as no handle closes and nobody else commits *)

NoHandle(n) == \A h \in Handles : dbis[h].name # n

\* A handle that has not been opened has left nothing behind.
FreeIsClean ==
  \A h \in Handles : dbis[h] = NoInfo =>
    /\ w.trees[h] = {} /\ h \notin w.dirty /\ w.handle[h] = NoName
    /\ \A r \in Readers : readers[r].trees[h] = {}

\* The tree of a handle, and the one that a commit on its way gives it, is what
\* MainDBI says of its name, in the file, in the writer's copy, or in both.
TreeOf(h) == IF h \in w.dirty THEN w.trees[h] ELSE dbis[h].tree
Agree(roots, h, tree) == dbis[h].name \in DOMAIN roots => tree = roots[dbis[h].name]
Cached ==
  \A h \in Handles :
    /\ w.pc # "cache" => Agree(main, h, dbis[h].tree)
    /\ w.pc \in {"open", "lookup"} => Agree(w.main, h, dbis[h].tree)
    /\ w.pc = "commit" => Agree(w.main, h, TreeOf(h))
    /\ w.pc = "cache" => Agree(main, h, TreeOf(h))

\* Of a name without a handle, all see the tree that the file has.
Unopened ==
  \A n \in Names : NoHandle(n) =>
    /\ \A r \in Readers : n \in DOMAIN readers[r].main => readers[r].main[n] = main[n]
    /\ w.pc \in {"open", "lookup", "commit"} /\ n \in DOMAIN main => w.main[n] = main[n]

\* Where an update that is not committed yet may be.
Within(roots, ups) == \A n \in DOMAIN roots : roots[n] \subseteq ups
Committed ==
  /\ Within(main, published)
  /\ w.pc \in {"open", "lookup"} => Within(w.main, published)
  /\ w.pc = "commit" => Within(w.main, published \cup w.made)
  /\ w.pc # "idle" => \A h \in Handles : w.trees[h] \subseteq published \cup w.made
  /\ w.pc = "cache" => w.made \subseteq published
  /\ \A h \in Handles : dbis[h].tree \subseteq published
  /\ \A r \in Readers : Within(readers[r].main, published)
  /\ \A r \in Readers, h \in Handles : readers[r].trees[h] \subseteq published

\* A reader between the two halves of beginReadTxn keeps commits away.
Mapped ==
  \A r \in Readers :
    /\ readers[r].pc = "copy" /\ readers[r].how = "begin" => readers[r].mapped = published
    /\ readers[r].pc \in {"copy", "active"} => Within(readers[r].main, readers[r].mapped)
    /\ readers[r].pc = "active" /\ readers[r].how = "begin" =>
         \A h \in Handles : readers[r].trees[h] \subseteq readers[r].mapped

\* The handle that the first search of openNamedDBI found is still the name's.
Known ==
  w.slot # NoSlot =>
    w.opening \in Names /\ w.slot \in Handles /\ dbis[w.slot].name = w.opening

Settled == view = main /\ FreeIsClean /\ Cached /\ Unopened /\ Committed /\ Mapped

(***************************************************************************)
(* What the process starts with is all committed.                          *)
(***************************************************************************)
LEMMA InitSettled == Init => Settled
<1>. SUFFICES ASSUME Init PROVE Settled
  OBVIOUS
<1>1. /\ view = main /\ w.pc = "idle" /\ w.trees = NoTrees /\ w.dirty = {}
      /\ w.handle = NoNames /\ published = {0} /\ dbis = [h \in Handles |-> NoInfo]
      /\ \A r \in Readers : /\ readers[r].pc = "idle" /\ readers[r].trees = NoTrees
                            /\ readers[r].main = NoRoots
  BY DEF Init, WriterIdle, ReaderIdle
<1>2. \A n \in DOMAIN main : n \in Names /\ main[n] = {0}
  BY DEF Init
<1>3. \A h \in Handles : dbis[h].name \notin Names /\ dbis[h].tree = {}
  BY <1>1, NamesAssumption DEF NoInfo
<1>4. FreeIsClean
  BY <1>1 DEF FreeIsClean, NoTrees, NoNames
<1>5. Cached
  BY <1>1, <1>2, <1>3 DEF Cached, Agree
<1>6. Unopened /\ Committed /\ Mapped
  BY <1>1, <1>2, <1>3 DEF Unopened, Committed, Mapped, Within, NoRoots, NoTrees
<1>. QED  BY <1>1, <1>4, <1>5, <1>6 DEF Settled

(***************************************************************************)
(* A transaction begins: the trees it copies are those of the open handles.*)
(***************************************************************************)
LEMMA BeginWriteSettled ==
  ASSUME Typed, Shape, Settled, BeginWrite
  PROVE  Settled'
<1>1. /\ w.pc = "idle" /\ w'.pc = "open" /\ w'.main = main /\ w'.dirty = {} /\ w'.made = {}
      /\ \A h \in Handles :
           /\ w'.trees[h] = IF dbis[h] = NoInfo THEN w.trees[h] ELSE dbis[h].tree
           /\ w'.handle[h] = dbis[h].name
      /\ view' = main /\ UNCHANGED <<main, dbis, readers, published>>
  BY AfterBeginWrite DEF Txn, CopyTrees, OpenNames
<1>2. FreeIsClean'
  BY <1>1 DEF Settled, FreeIsClean, NoInfo
<1>3. Cached'
  BY <1>1 DEF Settled, Cached, Agree
<1>4. Unopened' /\ Mapped'
  <2>1. Unopened'
    BY <1>1 DEF Settled, Unopened, NoHandle
  <2>2. Mapped'
    BY <1>1 DEF Settled, Mapped, Within
  <2>. QED  BY <2>1, <2>2
<1>5. Committed'
  BY <1>1 DEF Settled, Committed, FreeIsClean, Within
<1>. QED  BY <1>1, <1>2, <1>3, <1>4, <1>5 DEF Settled

(***************************************************************************)
(* The first search of openNamedDBI changes nothing yet.                   *)
(***************************************************************************)
LEMMA OpenKnownSettled ==
  ASSUME Typed, Shape, Settled, NEW n \in Names, OpenKnown(n)
  PROVE  Settled'
<1>1. /\ w.pc = "open" /\ w'.pc = "lookup" /\ w'.main = w.main /\ w'.dirty = w.dirty
      /\ w'.made = w.made /\ w'.trees = w.trees /\ w'.handle = w.handle
      /\ UNCHANGED <<main, view, dbis, readers, published>>
  BY AfterOpenKnown DEF Txn, Typed
<1>2. FreeIsClean' /\ Cached' /\ Unopened' /\ Mapped'
  <2>1. FreeIsClean'
    BY <1>1 DEF Settled, FreeIsClean
  <2>2. Cached'
    BY <1>1 DEF Settled, Cached, Agree
  <2>3. Unopened'
    BY <1>1 DEF Settled, Unopened, NoHandle
  <2>4. Mapped'
    BY <1>1 DEF Settled, Mapped, Within
  <2>. QED  BY <2>1, <2>2, <2>3, <2>4
<1>3. Committed'
  BY <1>1 DEF Settled, Committed, Within
<1>. QED  BY <1>1, <1>2, <1>3 DEF Settled

(***************************************************************************)
(* OpenDBI of a name that has a handle hands out the tree that is cached.  *)
(***************************************************************************)
LEMMA OpenCachedSettled ==
  ASSUME Typed, Shape, Settled, Known, OpenCached
  PROVE  Settled'
<1>1. /\ w \in Writer /\ w.trees \in [Handles -> Trees]
      /\ w.handle \in [Handles -> Names \cup {NoName}]
  BY DEF Typed, Writer
<1>2. PICK h \in Handles : h = w.slot /\ dbis[h].name = w.opening /\ w.opening \in Names
  BY <1>1, AfterOpenCached DEF Known
<1>3. dbis[h] # NoInfo
  BY <1>2, NamesAssumption DEF NoInfo
<1>4. /\ w.pc = "lookup" /\ UNCHANGED <<main, view, dbis, readers, published>>
      /\ w' = Txn("open", w.main,
                  [w.trees EXCEPT ![h] = IF dbis[h] = NoInfo THEN @ ELSE dbis[h].tree],
                  w.dirty, [w.handle EXCEPT ![h] = w.opening], NoName, NoSlot,
                  w.made, w.dropped)
  BY <1>1, <1>2, AfterOpenCached
<1>5. /\ w'.pc = "open" /\ w'.main = w.main /\ w'.dirty = w.dirty /\ w'.made = w.made
      /\ w'.trees[h] = dbis[h].tree
      /\ \A g \in Handles : g # h => w'.trees[g] = w.trees[g] /\ w'.handle[g] = w.handle[g]
  BY <1>1, <1>2, <1>3, <1>4 DEF Txn
<1>6. FreeIsClean'
  BY <1>3, <1>4, <1>5 DEF Settled, FreeIsClean
<1>7. Cached' /\ Unopened' /\ Mapped'
  <2>1. Cached'
    BY <1>4, <1>5 DEF Settled, Cached, Agree
  <2>2. Unopened'
    BY <1>4, <1>5 DEF Settled, Unopened, NoHandle
  <2>3. Mapped'
    BY <1>4, <1>5 DEF Settled, Mapped, Within
  <2>. QED  BY <2>1, <2>2, <2>3
<1>8. Committed'
  BY <1>4, <1>5 DEF Settled, Committed, Within
<1>. QED  BY <1>4, <1>6, <1>7, <1>8 DEF Settled

(***************************************************************************)
(* The search for a name in MainDBI changes nothing yet.                   *)
(***************************************************************************)
LEMMA OpenLookupSettled ==
  ASSUME Typed, Shape, Settled, NEW n \in Names, OpenLookup(n)
  PROVE  Settled'
<1>1. /\ w.pc = "open" /\ w'.pc = "lookup" /\ w'.main = w.main /\ w'.dirty = w.dirty
      /\ w'.made = w.made /\ w'.trees = w.trees /\ w'.handle = w.handle
      /\ UNCHANGED <<main, view, dbis, readers, published>>
  BY AfterOpenLookup DEF Txn, Typed
<1>2. FreeIsClean' /\ Cached' /\ Unopened' /\ Mapped'
  <2>1. FreeIsClean'
    BY <1>1 DEF Settled, FreeIsClean
  <2>2. Cached'
    BY <1>1 DEF Settled, Cached, Agree
  <2>3. Unopened'
    BY <1>1 DEF Settled, Unopened, NoHandle
  <2>4. Mapped'
    BY <1>1 DEF Settled, Mapped, Within
  <2>. QED  BY <2>1, <2>2, <2>3, <2>4
<1>3. Committed'
  BY <1>1 DEF Settled, Committed, Within
<1>. QED  BY <1>1, <1>2, <1>3 DEF Settled

(***************************************************************************)
(* OpenDBI of a name found in MainDBI: the tree it fills a free handle     *)
(* with is the writer's, and the file's if the file has the name; a handle *)
(* added in between is the transaction's from then on, with no tree of it. *)
(***************************************************************************)
LEMMA OpenFoundSettled ==
  ASSUME Typed, Shape, Settled, OpenFound
  PROVE  Settled'
<1>. DEFINE n == w.opening
<1>1. /\ w \in Writer /\ w.trees \in [Handles -> Trees]
      /\ w.handle \in [Handles -> Names \cup {NoName}] /\ dbis \in [Handles -> Infos]
  BY DEF Typed, Writer
<1>2. /\ w.pc = "lookup" /\ n \in DOMAIN w.main /\ n \in Names
      /\ UNCHANGED <<main, view, readers, published>>
  BY <1>1, AfterOpenFound DEF Typed
<1>3. w'.pc = "open" /\ w'.main = w.main /\ w'.dirty = w.dirty /\ w'.made = w.made
  BY <1>1, AfterOpenFound DEF Txn
<1>4. ASSUME NEW h \in HandleOf(n), dbis' = dbis, w'.trees = w.trees,
             w'.handle = [w.handle EXCEPT ![h] = n]
      PROVE  Settled'
  <2>1. h \in Handles /\ dbis[h].name = n
    BY DEF HandleOf
  <2>2. FreeIsClean'
    BY <1>1, <1>2, <1>3, <1>4, <2>1, NamesAssumption DEF Settled, FreeIsClean, NoInfo
  <2>3. Cached' /\ Unopened' /\ Mapped'
    <3>1. Cached'
      BY <1>2, <1>3, <1>4 DEF Settled, Cached, Agree
    <3>2. Unopened'
      BY <1>2, <1>3, <1>4 DEF Settled, Unopened, NoHandle
    <3>3. Mapped'
      BY <1>2, <1>3, <1>4 DEF Settled, Mapped, Within
    <3>. QED  BY <3>1, <3>2, <3>3
  <2>4. Committed'
    BY <1>2, <1>3, <1>4 DEF Settled, Committed, Within
  <2>. QED  BY <1>2, <2>2, <2>3, <2>4 DEF Settled
<1>5. ASSUME HandleOf(n) = {}, FreeHandles # {}, dbis' = Filled(n, w.main[n]),
             w'.trees = [w.trees EXCEPT ![FirstFree] = w.main[n]],
             w'.handle = [w.handle EXCEPT ![FirstFree] = n]
      PROVE  Settled'
  <2>1. PICK f \in Handles : f = FirstFree /\ dbis[f] = NoInfo
    BY <1>5, DbisTyped
  <2>2. /\ dbis'[f].name = n /\ dbis'[f].tree = w.main[n] /\ w'.trees[f] = w.main[n]
        /\ \A h \in Handles : h # f =>
             dbis'[h] = dbis[h] /\ w'.trees[h] = w.trees[h] /\ w'.handle[h] = w.handle[h]
    BY <1>1, <1>5, <2>1 DEF Filled
  <2>3. NoHandle(n) /\ (n \in DOMAIN main => w.main[n] = main[n])
    BY <1>2, <1>5 DEF NoHandle, HandleOf, Settled, Unopened
  <2>4. FreeIsClean'
    BY <1>2, <1>3, <2>2, NamesAssumption DEF Settled, FreeIsClean, NoInfo
  <2>5. Cached'
    BY <1>2, <1>3, <2>2, <2>3 DEF Settled, Cached, Agree
  <2>6. Unopened'
    <3>1. \A m \in Names : NoHandle(m)' => NoHandle(m)
      BY <2>1, <2>2, NamesAssumption DEF NoHandle, NoInfo
    <3>. QED  BY <1>2, <1>3, <3>1 DEF Settled, Unopened
  <2>7. Committed'
    BY <1>2, <1>3, <2>2 DEF Settled, Committed, Within
  <2>8. Mapped'
    BY <1>2 DEF Settled, Mapped, Within
  <2>. QED  BY <1>2, <2>4, <2>5, <2>6, <2>7, <2>8 DEF Settled
<1>6. ASSUME dbis' = dbis, w'.trees = w.trees, w'.handle = w.handle PROVE Settled'
  <2>1. FreeIsClean' /\ Cached' /\ Unopened' /\ Mapped'
    <3>1. FreeIsClean'
      BY <1>2, <1>3, <1>6 DEF Settled, FreeIsClean
    <3>2. Cached'
      BY <1>2, <1>3, <1>6 DEF Settled, Cached, Agree
    <3>3. Unopened'
      BY <1>2, <1>3, <1>6 DEF Settled, Unopened, NoHandle
    <3>4. Mapped'
      BY <1>2, <1>3, <1>6 DEF Settled, Mapped, Within
    <3>. QED  BY <3>1, <3>2, <3>3, <3>4
  <2>2. Committed'
    BY <1>2, <1>3, <1>6 DEF Settled, Committed, Within
  <2>. QED  BY <1>2, <2>1, <2>2 DEF Settled
<1>. QED  BY <1>1, <1>4, <1>5, <1>6, AfterOpenFound DEF Txn

(***************************************************************************)
(* OpenDBI of a name that is not there: a new database is empty, for the   *)
(* writer and in the cache, and not in the file before a commit.           *)
(***************************************************************************)
LEMMA OpenMissingSettled ==
  ASSUME Typed, Shape, Settled, NEW create \in BOOLEAN, OpenMissing(create)
  PROVE  Settled'
<1>. DEFINE n == w.opening
<1>1. /\ w \in Writer /\ w.trees \in [Handles -> Trees]
      /\ w.handle \in [Handles -> Names \cup {NoName}] /\ dbis \in [Handles -> Infos]
  BY DEF Typed, Writer
<1>2. /\ w.pc = "lookup" /\ n \notin DOMAIN w.main /\ n \in Names /\ NoHandle(n)
      /\ n \notin DOMAIN main /\ DOMAIN main \subseteq DOMAIN w.main
      /\ UNCHANGED <<main, view, readers, published>>
  BY <1>1, AfterOpenMissing DEF Typed, Shape, NamesStay, NoHandle
<1>3. w'.pc = "open" /\ w'.dirty = w.dirty /\ w'.made = w.made
  BY <1>1, AfterOpenMissing DEF Txn
<1>4. w'.main = w.main \/ w'.main = Created(w.main, n)
  BY <1>1, AfterOpenMissing DEF Txn
<1>5. /\ \A m \in DOMAIN w.main : m \in DOMAIN w'.main /\ w'.main[m] = w.main[m]
      /\ DOMAIN w'.main \subseteq DOMAIN w.main \cup {n}
      /\ n \in DOMAIN w'.main => w'.main[n] = {}
  BY <1>2, <1>4 DEF Created
<1>6. Mapped'
  BY <1>2 DEF Settled, Mapped, Within
<1>7. ASSUME FreeHandles # {}, dbis' = Filled(n, {}),
             w'.trees = [w.trees EXCEPT ![FirstFree] = {}],
             w'.handle = [w.handle EXCEPT ![FirstFree] = n]
      PROVE  Settled'
  <2>1. PICK f \in Handles : f = FirstFree /\ dbis[f] = NoInfo
    BY <1>7, DbisTyped
  <2>2. /\ dbis'[f].name = n /\ dbis'[f].tree = {} /\ w'.trees[f] = {}
        /\ \A h \in Handles : h # f =>
             dbis'[h] = dbis[h] /\ w'.trees[h] = w.trees[h] /\ w'.handle[h] = w.handle[h]
    BY <1>1, <1>7, <2>1 DEF Filled
  <2>3. FreeIsClean'
    BY <1>2, <1>3, <2>2, NamesAssumption DEF Settled, FreeIsClean, NoInfo
  <2>4. Cached'
    <3>1. Agree(main, f, dbis[f].tree)' /\ Agree(w.main, f, dbis[f].tree)'
      BY <1>2, <1>5, <2>2 DEF Agree
    <3>2. ASSUME NEW h \in Handles, h # f
          PROVE  Agree(main, h, dbis[h].tree)' /\ Agree(w.main, h, dbis[h].tree)'
      BY <1>2, <1>5, <2>2, <3>2 DEF Settled, Cached, Agree, NoHandle
    <3>. QED  BY <1>3, <3>1, <3>2 DEF Cached
  <2>5. Unopened'
    <3>1. \A m \in Names : NoHandle(m)' => NoHandle(m)
      BY <2>1, <2>2, NamesAssumption DEF NoHandle, NoInfo
    <3>. QED  BY <1>2, <1>3, <1>5, <3>1 DEF Settled, Unopened
  <2>6. Committed'
    BY <1>2, <1>3, <1>5, <2>2 DEF Settled, Committed, Within
  <2>. QED  BY <1>2, <1>6, <2>3, <2>4, <2>5, <2>6 DEF Settled
<1>8. ASSUME dbis' = dbis, w'.trees = w.trees, w'.handle = w.handle PROVE Settled'
  <2>1. FreeIsClean' /\ Unopened'
    <3>1. FreeIsClean'
      BY <1>2, <1>3, <1>5, <1>8 DEF Settled, FreeIsClean
    <3>2. Unopened'
      BY <1>2, <1>3, <1>5, <1>8 DEF Settled, Unopened, NoHandle
    <3>. QED  BY <3>1, <3>2
  <2>2. Cached'
    BY <1>2, <1>3, <1>5, <1>8 DEF Settled, Cached, Agree, NoHandle
  <2>3. Committed'
    BY <1>2, <1>3, <1>5, <1>8 DEF Settled, Committed, Within
  <2>. QED  BY <1>2, <1>6, <2>1, <2>2, <2>3 DEF Settled
<1>9. \/ /\ FreeHandles # {} /\ dbis' = Filled(n, {})
         /\ w'.trees = [w.trees EXCEPT ![FirstFree] = {}]
         /\ w'.handle = [w.handle EXCEPT ![FirstFree] = n]
      \/ dbis' = dbis /\ w'.trees = w.trees /\ w'.handle = w.handle
  BY <1>1, AfterOpenMissing DEF Txn
<1>. QED  BY <1>7, <1>8, <1>9

(***************************************************************************)
(* Put, Delete and Drop touch only the transaction's own tree of a handle  *)
(* that is open, and mark it dirty.                                        *)
(***************************************************************************)
LEMMA UpdateSettled ==
  ASSUME Typed, Shape, Settled, NEW h \in Handles, Update(h)
  PROVE  Settled'
<1>1. w \in Writer /\ w.trees \in [Handles -> Trees]
  BY DEF Typed, Writer
<1>2. /\ w.pc = "open" /\ w.handle[h] # NoName
      /\ w' = Txn("open", w.main, [w.trees EXCEPT ![h] = @ \cup {updates'}],
                  w.dirty \cup {h}, w.handle, w.opening, w.slot, w.made \cup {updates'}, w.dropped)
      /\ UNCHANGED <<main, view, dbis, readers, published>>
  BY <1>1, AfterUpdate
<1>3. /\ w'.pc = "open" /\ w'.main = w.main /\ w'.handle = w.handle
      /\ w'.dirty = w.dirty \cup {h} /\ w'.made = w.made \cup {updates'}
      /\ w'.trees[h] = w.trees[h] \cup {updates'}
      /\ \A g \in Handles : g # h => w'.trees[g] = w.trees[g]
  BY <1>1, <1>2 DEF Txn
<1>4. FreeIsClean'
  BY <1>2, <1>3 DEF Settled, FreeIsClean
<1>5. Cached' /\ Unopened' /\ Mapped'
  <2>1. Cached'
    BY <1>2, <1>3 DEF Settled, Cached, Agree
  <2>2. Unopened'
    BY <1>2, <1>3 DEF Settled, Unopened, NoHandle
  <2>3. Mapped'
    BY <1>2, <1>3 DEF Settled, Mapped, Within
  <2>. QED  BY <2>1, <2>2, <2>3
<1>6. Committed'
  BY <1>2, <1>3 DEF Settled, Committed, Within
<1>. QED  BY <1>2, <1>4, <1>5, <1>6 DEF Settled

LEMMA DropSettled ==
  ASSUME Typed, Shape, Settled, NEW h \in Handles, Drop(h, FALSE)
  PROVE  Settled'
<1>1. /\ w \in Writer /\ w.trees \in [Handles -> Trees]
      /\ w.handle \in [Handles -> Names \cup {NoName}]
  BY DEF Typed, Writer
<1>2. /\ w.pc = "open" /\ w.handle[h] # NoName
      /\ w' = Txn("open", w.main, [w.trees EXCEPT ![h] = {}], w.dirty \cup {h},
                  [w.handle EXCEPT ![h] = IF FALSE THEN NoName ELSE @], w.opening, w.slot, w.made,
                  w.dropped \cup {w.handle[h]})
      /\ dbis' = dbis
      /\ UNCHANGED <<main, view, readers, published>>
  BY <1>1, AfterDrop
<1>3. /\ w'.pc = "open" /\ w'.main = w.main /\ w'.dirty = w.dirty \cup {h} /\ w'.made = w.made
      /\ w'.trees[h] = {}
      /\ \A g \in Handles : w'.handle[g] = w.handle[g] /\ (g # h => w'.trees[g] = w.trees[g])
  BY <1>1, <1>2 DEF Txn
<1>4. FreeIsClean'
  BY <1>2, <1>3 DEF Settled, FreeIsClean
<1>5. Cached' /\ Unopened' /\ Mapped'
  <2>1. Cached'
    BY <1>2, <1>3 DEF Settled, Cached, Agree
  <2>2. Unopened'
    BY <1>2, <1>3 DEF Settled, Unopened, NoHandle
  <2>3. Mapped'
    BY <1>2, <1>3 DEF Settled, Mapped, Within
  <2>. QED  BY <2>1, <2>2, <2>3
<1>6. Committed'
  BY <1>2, <1>3 DEF Settled, Committed, Within
<1>. QED  BY <1>2, <1>4, <1>5, <1>6 DEF Settled

(***************************************************************************)
(* Abort leaves its trees only where a handle is open, and those are       *)
(* copied over when the next transaction begins.                           *)
(***************************************************************************)
LEMMA AbortWriteSettled ==
  ASSUME Typed, Shape, Settled, AbortWrite
  PROVE  Settled'
<1>1. /\ w.pc \in {"open", "commit"}
      /\ w'.pc = "idle" /\ w'.trees = w.trees /\ w'.dirty = {} /\ w'.handle = NoNames
      /\ UNCHANGED <<main, view, dbis, readers, published>>
  BY AfterAbortWrite DEF Txn
<1>2. FreeIsClean'
  BY <1>1 DEF Settled, FreeIsClean, NoNames
<1>3. Cached' /\ Unopened' /\ Mapped'
  <2>1. Cached'
    BY <1>1 DEF Settled, Cached, Agree
  <2>2. Unopened'
    BY <1>1 DEF Settled, Unopened, NoHandle
  <2>3. Mapped'
    BY <1>1 DEF Settled, Mapped, Within
  <2>. QED  BY <2>1, <2>2, <2>3
<1>4. Committed'
  BY <1>1 DEF Settled, Committed, Within
<1>. QED  BY <1>1, <1>2, <1>3, <1>4 DEF Settled

(***************************************************************************)
(* persistNamedDBTrees puts the tree of each dirty handle under its name,  *)
(* which no other handle has.                                              *)
(***************************************************************************)
LEMMA PersistSettled ==
  ASSUME Typed, Shape, Settled, PersistNamedTrees
  PROVE  Settled'
<1>1. w \in Writer /\ w.dirty \subseteq Handles /\ dbis \in [Handles -> Infos]
  BY DEF Typed, Writer
<1>2. /\ w.pc = "open" /\ w'.pc = "commit" /\ w'.main = Persisted(w.main)
      /\ w'.trees = w.trees /\ w'.dirty = w.dirty /\ w'.handle = w.handle /\ w'.made = w.made
      /\ UNCHANGED <<main, view, dbis, readers, published>>
  BY <1>1, AfterPersistNamedTrees DEF Txn
<1>3. \A h \in w.dirty : dbis[h] # NoInfo
  BY <1>1 DEF Settled, FreeIsClean
<1>4. Dirty = w.dirty
  BY <1>3 DEF Dirty
<1>5. ASSUME NEW h \in w.dirty
      PROVE  dbis[h].name \in DOMAIN w'.main /\ w'.main[dbis[h].name] = w.trees[h]
  <2>. DEFINE m == dbis[h].name
              g == CHOOSE k \in Dirty : dbis[k].name = m
  <2>1. g \in Dirty /\ dbis[g].name = m
    BY <1>4, <1>5
  <2>2. g = h
    BY <1>1, <1>3, <1>4, <2>1 DEF Shape, OneHandlePerName
  <2>3. m \in DOMAIN Persisted(w.main) /\ Persisted(w.main)[m] = w.trees[g]
    BY <1>4, <1>5 DEF Persisted
  <2>. QED  BY <1>2, <2>2, <2>3
<1>6. ASSUME NEW m \in DOMAIN w'.main, \A h \in w.dirty : dbis[h].name # m
      PROVE  m \in DOMAIN w.main /\ w'.main[m] = w.main[m]
  BY <1>2, <1>4, <1>6 DEF Persisted
<1>7. DOMAIN w.main \subseteq DOMAIN w'.main
  BY <1>2 DEF Persisted
<1>8. FreeIsClean' /\ Mapped'
  <2>1. FreeIsClean'
    BY <1>2 DEF Settled, FreeIsClean
  <2>2. Mapped'
    BY <1>2 DEF Settled, Mapped, Within
  <2>. QED  BY <2>1, <2>2
<1>9. Cached'
  <2>1. ASSUME NEW h \in Handles PROVE Agree(w.main, h, TreeOf(h))'
    <3>1. CASE h \in w.dirty
      BY <1>2, <1>5, <3>1 DEF Agree, TreeOf
    <3>2. CASE h \notin w.dirty
      <4>1. ASSUME dbis[h].name \in DOMAIN w'.main, NEW g \in w.dirty
            PROVE  dbis[g].name # dbis[h].name
        BY <1>1, <1>3, <3>2 DEF Shape, OneHandlePerName
      <4>. QED  BY <1>2, <1>6, <3>2, <4>1 DEF Agree, TreeOf, Settled, Cached
    <3>. QED  BY <3>1, <3>2
  <2>. QED  BY <1>2, <2>1 DEF Cached, Settled, Agree
<1>10. Unopened'
  BY <1>1, <1>2, <1>6, <1>7 DEF Settled, Unopened, NoHandle, Shape, NamesStay
<1>11. Committed'
  <2>1. Within(w'.main, published \cup w.made)
    <3>1. ASSUME NEW m \in DOMAIN w'.main PROVE w'.main[m] \subseteq published \cup w.made
      <4>1. CASE \E h \in w.dirty : dbis[h].name = m
        BY <1>1, <1>2, <1>5, <4>1 DEF Settled, Committed
      <4>2. CASE \A h \in w.dirty : dbis[h].name # m
        BY <1>2, <1>6, <4>2 DEF Settled, Committed, Within
      <4>. QED  BY <4>1, <4>2
    <3>. QED  BY <3>1 DEF Within
  <2>. QED  BY <1>2, <2>1 DEF Settled, Committed, Within
<1>. QED  BY <1>2, <1>8, <1>9, <1>10, <1>11 DEF Settled

(***************************************************************************)
(* The new meta: the file has the writer's trees, and what it made counts  *)
(* as committed; the cache is behind until the transaction ends.           *)
(***************************************************************************)
LEMMA UpdateMetaSettled ==
  ASSUME Typed, Shape, Settled, UpdateMeta
  PROVE  Settled'
<1>1. w \in Writer
  BY DEF Typed
<1>2. /\ w.pc = "commit" /\ w'.pc = "cache" /\ w'.main = w.main /\ w'.trees = w.trees
      /\ w'.dirty = w.dirty /\ w'.handle = w.handle /\ w'.made = w.made
      /\ \A r \in Readers : ~HoldsRLock(r)
      /\ main' = w.main /\ view' = w.main /\ published' = published \cup w.made
      /\ UNCHANGED <<dbis, readers>>
  BY <1>1, AfterUpdateMeta DEF Txn
<1>3. FreeIsClean'
  BY <1>2 DEF Settled, FreeIsClean
<1>4. Cached'
  BY <1>2 DEF Settled, Cached, Agree, TreeOf
<1>5. Unopened'
  BY <1>2 DEF Settled, Unopened, NoHandle, Shape, NamesStay
<1>6. Committed'
  BY <1>2 DEF Settled, Committed, Within
<1>7. Mapped'
  BY <1>2 DEF Settled, Mapped, Within, HoldsRLock
<1>. QED  BY <1>2, <1>3, <1>4, <1>5, <1>6, <1>7 DEF Settled

(***************************************************************************)
(* updateCachedDBITrees brings the cache up to the file.                   *)
(***************************************************************************)
LEMMA UpdateCachedTreesSettled ==
  ASSUME Typed, Shape, Settled, UpdateCachedTrees
  PROVE  Settled'
<1>1. w \in Writer /\ w.dirty \subseteq Handles /\ dbis \in [Handles -> Infos]
  BY DEF Typed, Writer
<1>2. /\ w.pc = "cache" /\ w'.pc = "idle" /\ w'.trees = w.trees
      /\ w'.dirty = {} /\ w'.handle = NoNames /\ dbis' = DbisCached
      /\ UNCHANGED <<main, view, readers, published>>
  BY AfterUpdateCachedTrees DEF Txn
<1>3. \A h \in Handles :
        /\ dbis'[h].name = dbis[h].name /\ dbis'[h].tree = TreeOf(h)
        /\ dbis'[h] = NoInfo => dbis[h] = NoInfo
  <2>1. \A h \in w.dirty : dbis[h] # NoInfo /\ dbis[h].name # NoName
    BY <1>1 DEF Settled, FreeIsClean, Typed
  <2>2. \A h \in Handles : DbisCached[h] =
          IF h \in w.dirty THEN [dbis[h] EXCEPT !.tree = w.trees[h]] ELSE dbis[h]
    BY <2>1 DEF DbisCached, Dirty
  <2>3. ASSUME NEW h \in w.dirty
        PROVE  /\ DbisCached[h].name = dbis[h].name /\ DbisCached[h].tree = w.trees[h]
               /\ DbisCached[h] # NoInfo
    <3>1. PICK x : x = [dbis[h] EXCEPT !.tree = w.trees[h]] /\ DbisCached[h] = x
      BY <1>1, <2>2
    <3>2. x = [name |-> dbis[h].name, tree |-> w.trees[h]]
      BY <1>1, <3>1, Zenon DEF Infos
    <3>. QED  BY <2>1, <3>1, <3>2 DEF NoInfo
  <2>. QED  BY <1>2, <2>2, <2>3 DEF TreeOf
<1>4. FreeIsClean'
  BY <1>2, <1>3 DEF Settled, FreeIsClean, NoNames
<1>5. Cached'
  BY <1>2, <1>3 DEF Settled, Cached, Agree
<1>6. Unopened' /\ Mapped'
  <2>1. Unopened'
    BY <1>2, <1>3 DEF Settled, Unopened, NoHandle
  <2>2. Mapped'
    BY <1>2, <1>3 DEF Settled, Mapped, Within
  <2>. QED  BY <2>1, <2>2
<1>7. Committed'
  BY <1>2, <1>3 DEF Settled, Committed, TreeOf, Within
<1>. QED  BY <1>2, <1>4, <1>5, <1>6, <1>7 DEF Settled

(***************************************************************************)
(* A reader takes MainDBI and the map of the same moment; the named trees  *)
(* it copies later are no newer if it has kept commits away.               *)
(***************************************************************************)
LEMMA ReadSettled ==
  ASSUME Typed, Shape, Settled, NEW r \in Readers, ReaderStep(r)
  PROVE  Settled'
<1>1. readers \in [Readers -> Reader] /\ readers[r] \in Reader
  BY DEF Typed
<1>2. ASSUME NEW how \in {"begin", "renew"}, StartRead(r, how) PROVE Settled'
  <2>1. /\ readers'[r].pc = "copy" /\ readers'[r].main = view
        /\ readers'[r].trees = readers[r].trees /\ readers'[r].mapped = published
        /\ \A q \in Readers : q # r => readers'[q] = readers[q]
        /\ UNCHANGED <<main, view, dbis, w, published>>
    BY <1>1, <1>2, AfterStartRead DEF ReadTxn
  <2>2. FreeIsClean' /\ Cached'
    <3>1. FreeIsClean'
      BY <2>1 DEF Settled, FreeIsClean
    <3>2. Cached'
      BY <2>1 DEF Settled, Cached, Agree, TreeOf
    <3>. QED  BY <3>1, <3>2
  <2>3. Unopened'
    BY <2>1 DEF Settled, Unopened, NoHandle
  <2>4. Committed' /\ Mapped'
    <3>1. Committed'
      BY <2>1 DEF Settled, Committed, Within
    <3>2. Mapped'
      BY <2>1 DEF Settled, Committed, Mapped, Within
    <3>. QED  BY <3>1, <3>2
  <2>. QED  BY <2>1, <2>2, <2>3, <2>4 DEF Settled
<1>3. CASE CopyNamed(r)
  <2>1. /\ readers[r].pc = "copy" /\ readers'[r].pc = "active"
        /\ readers'[r].how = readers[r].how /\ readers'[r].main = readers[r].main
        /\ readers'[r].trees = CopyTrees(readers[r].trees)
        /\ readers'[r].mapped = readers[r].mapped
        /\ \A q \in Readers : q # r => readers'[q] = readers[q]
        /\ UNCHANGED <<main, view, dbis, w, published>>
    BY <1>1, <1>3, AfterCopyNamed DEF ReadTxn
  <2>2. \A h \in Handles :
          readers'[r].trees[h] = IF dbis[h] = NoInfo THEN {} ELSE dbis[h].tree
    BY <2>1 DEF CopyTrees, Settled, FreeIsClean
  <2>3. FreeIsClean' /\ Cached' /\ Unopened'
    <3>1. FreeIsClean'
      BY <2>1, <2>2 DEF Settled, FreeIsClean
    <3>2. Cached'
      BY <2>1, <2>2 DEF Settled, Cached, Agree, TreeOf
    <3>3. Unopened'
      BY <2>1, <2>2 DEF Settled, Unopened, NoHandle
    <3>. QED  BY <3>1, <3>2, <3>3
  <2>4. Committed'
    BY <2>1, <2>2 DEF Settled, Committed, Within
  <2>5. Mapped'
    BY <2>1, <2>2 DEF Settled, Committed, Mapped, Within
  <2>. QED  BY <2>1, <2>3, <2>4, <2>5 DEF Settled
<1>4. ASSUME NEW n \in Names, OpenRead(r, n) PROVE Settled'
  <2>1. /\ n \in DOMAIN readers[r].main /\ NoHandle(n) /\ FreeHandles # {}
        /\ dbis' = Filled(n, readers[r].main[n])
        /\ readers[r].pc = "active" /\ readers'[r].pc = "active"
        /\ readers'[r].how = readers[r].how /\ readers'[r].main = readers[r].main
        /\ readers'[r].trees = [readers[r].trees EXCEPT ![FirstFree] = readers[r].main[n]]
        /\ readers'[r].mapped = readers[r].mapped
        /\ \A q \in Readers : q # r => readers'[q] = readers[q]
        /\ UNCHANGED <<main, view, w, published>>
    BY <1>1, <1>4, AfterOpenRead DEF ReadTxn, HandleOf, NoHandle
  <2>2. PICK f \in Handles : f = FirstFree /\ dbis[f] = NoInfo
    BY <2>1, DbisTyped
  <2>3. readers[r].trees \in [Handles -> Trees] /\ dbis \in [Handles -> Infos]
    BY <1>1 DEF Reader, Typed
  <2>4. /\ dbis'[f].name = n /\ dbis'[f].tree = readers[r].main[n]
        /\ readers'[r].trees[f] = readers[r].main[n]
        /\ \A h \in Handles : h # f =>
             dbis'[h] = dbis[h] /\ readers'[r].trees[h] = readers[r].trees[h]
    BY <2>1, <2>2, <2>3 DEF Filled
  <2>5. /\ n \in DOMAIN main /\ readers[r].main[n] = main[n]
        /\ w.pc \in {"open", "lookup", "commit"} =>
             n \in DOMAIN w.main /\ w.main[n] = main[n]
    BY <2>1 DEF Settled, Unopened, Shape, NamesStay
  <2>6. \A q \in Readers :
          /\ readers'[q].pc = readers[q].pc /\ readers'[q].how = readers[q].how
          /\ readers'[q].main = readers[q].main /\ readers'[q].mapped = readers[q].mapped
          /\ \A h \in Handles : readers'[q].trees[h] =
               IF q = r /\ h = f THEN readers[r].main[n] ELSE readers[q].trees[h]
    BY <2>1, <2>4
  <2>7. FreeIsClean'
    BY <2>1, <2>4, <2>6, NamesAssumption DEF Settled, FreeIsClean, NoInfo
  <2>8. Cached'
    <3>1. f \notin w.dirty
      BY <2>2 DEF Settled, FreeIsClean
    <3>2. /\ Agree(main, f, dbis[f].tree)' /\ TreeOf(f)' = main[n]
          /\ w.pc \in {"open", "lookup", "commit"} => Agree(w.main, f, dbis[f].tree)'
      BY <2>1, <2>4, <2>5, <3>1 DEF Agree, TreeOf
    <3>3. /\ w.pc \in {"open", "lookup"} => Agree(w.main, f, dbis[f].tree)'
          /\ w.pc = "commit" => Agree(w.main, f, TreeOf(f))'
          /\ w.pc = "cache" => Agree(main, f, TreeOf(f))'
      BY <2>1, <2>4, <2>5, <3>1, <3>2 DEF Agree
    <3>4. ASSUME NEW h \in Handles, h # f
          PROVE  /\ w.pc # "cache" => Agree(main, h, dbis[h].tree)'
                 /\ w.pc \in {"open", "lookup"} => Agree(w.main, h, dbis[h].tree)'
                 /\ w.pc = "commit" => Agree(w.main, h, TreeOf(h))'
                 /\ w.pc = "cache" => Agree(main, h, TreeOf(h))'
      BY <2>1, <2>4, <3>4 DEF Settled, Cached, Agree, TreeOf
    <3>. QED  BY <2>1, <3>2, <3>3, <3>4 DEF Cached
  <2>9. Unopened'
    <3>1. \A m \in Names : NoHandle(m)' => NoHandle(m)
      BY <2>2, <2>4, NamesAssumption DEF NoHandle, NoInfo
    <3>. QED  BY <2>1, <3>1 DEF Settled, Unopened
  <2>10. Committed'
    BY <2>1, <2>4, <2>6 DEF Settled, Committed, Within
  <2>11. Mapped'
    BY <2>1, <2>4, <2>6 DEF Settled, Mapped, Within
  <2>. QED  BY <2>1, <2>7, <2>8, <2>9, <2>10, <2>11 DEF Settled
<1>5. ASSUME NEW pc \in {"idle", "reset"}, EndRead(r, pc) PROVE Settled'
  <2>1. /\ readers'[r].pc \notin {"copy", "active"} /\ readers'[r].main = NoRoots
        /\ readers'[r].trees = readers[r].trees
        /\ \A q \in Readers : q # r => readers'[q] = readers[q]
        /\ UNCHANGED <<main, view, dbis, w, published>>
    BY <1>1, <1>5, AfterEndRead DEF ReadTxn
  <2>2. FreeIsClean' /\ Cached' /\ Unopened'
    <3>1. FreeIsClean'
      BY <2>1 DEF Settled, FreeIsClean
    <3>2. Cached'
      BY <2>1 DEF Settled, Cached, Agree, TreeOf
    <3>3. Unopened'
      BY <2>1 DEF Settled, Unopened, NoHandle, NoRoots
    <3>. QED  BY <3>1, <3>2, <3>3
  <2>3. Committed' /\ Mapped'
    <3>1. Committed'
      BY <2>1 DEF Settled, Committed, Within, NoRoots
    <3>2. Mapped'
      BY <2>1 DEF Settled, Mapped, Within, NoRoots
    <3>. QED  BY <3>1, <3>2
  <2>. QED  BY <2>1, <2>2, <2>3 DEF Settled
<1>. QED  BY <1>2, <1>3, <1>4, <1>5 DEF ReaderStep, Reset, AbortRead

(***************************************************************************)
(* Once a handle has been closed, or another process has committed, it     *)
(* stays so: as long as neither has happened, neither happens in a step.   *)
(***************************************************************************)
LEMMA CalmBefore ==
  ASSUME Typed, [Next]_vars, Calm'
  PROVE  /\ Calm
         /\ \/ BeginWrite \/ OpenFound \/ AbortWrite \/ PersistNamedTrees \/ UpdateMeta
            \/ UpdateCachedTrees \/ OpenCached
            \/ \E n \in Names : OpenKnown(n) \/ OpenLookup(n)
            \/ \E create \in BOOLEAN : OpenMissing(create)
            \/ \E h \in Handles : Update(h) \/ Drop(h, FALSE)
            \/ \E r \in Readers : ReaderStep(r)
            \/ UNCHANGED vars
<1>1. w \in Writer /\ readers \in [Readers -> Reader] /\ closes \in Nat /\ closes + 1 # 0
  BY DEF Typed
<1>2. ASSUME NEW h \in Handles, CloseDBI(h) PROVE FALSE
  BY <1>1, <1>2 DEF CloseDBI, Calm
<1>3. ASSUME NEW n \in Names, ForeignCommit(n) PROVE FALSE
  BY <1>3 DEF ForeignCommit, Calm
<1>4. ASSUME NEW h \in Handles, Drop(h, TRUE) PROVE FALSE
  BY <1>1, <1>4 DEF Drop, Calm
<1>5. \/ BeginWrite \/ OpenFound \/ AbortWrite \/ PersistNamedTrees \/ UpdateMeta
      \/ UpdateCachedTrees \/ OpenCached
      \/ \E n \in Names : OpenKnown(n) \/ OpenLookup(n)
      \/ \E create \in BOOLEAN : OpenMissing(create)
      \/ \E h \in Handles : Update(h) \/ Drop(h, FALSE)
      \/ \E r \in Readers : ReaderStep(r)
      \/ UNCHANGED vars
  BY <1>2, <1>3, <1>4 DEF Next, WriterStep
<1>6. Calm
  <2>1. ASSUME UNCHANGED counts PROVE Calm
    BY <2>1 DEF counts, Calm
  <2>2. ASSUME NEW r \in Readers, ReaderStep(r) PROVE UNCHANGED counts
    BY <2>2 DEF ReaderStep, StartRead, CopyNamed, OpenRead, Reset, AbortRead, EndRead
  <2>3. ASSUME NEW h \in Handles, Drop(h, FALSE) PROVE UNCHANGED counts
    BY <2>3 DEF Drop, counts
  <2>. QED
    BY <1>5, <2>1, <2>2, <2>3
       DEF BeginWrite, OpenFound, AbortWrite, PersistNamedTrees, UpdateMeta,
           UpdateCachedTrees, OpenCached, OpenKnown, OpenLookup, OpenMissing, Update, vars
<1>. QED  BY <1>5, <1>6

(***************************************************************************)
(* No handle that is in use changes its name while none is closed.         *)
(***************************************************************************)
LEMMA StaysKnown ==
  ASSUME Typed, Settled, Known, [Next]_vars, Calm'
  PROVE  Known'
<1>1. w \in Writer /\ dbis \in [Handles -> Infos] /\ readers \in [Readers -> Reader]
  BY DEF Typed
<1>2. \A h \in Handles : dbis[h].name \in Names => dbis[h] # NoInfo
  BY NamesAssumption DEF NoInfo
<1>3. ASSUME w'.slot = NoSlot PROVE Known'
  BY <1>3 DEF Known
<1>4. ASSUME w'.slot = w.slot, w'.opening = w.opening,
             \A h \in Handles : dbis[h] # NoInfo => dbis'[h].name = dbis[h].name
      PROVE  Known'
  BY <1>2, <1>4 DEF Known
<1>5. ASSUME NEW n \in Names, NEW tree, FreeHandles # {}, dbis' = Filled(n, tree)
      PROVE  \A h \in Handles : dbis[h] # NoInfo => dbis'[h].name = dbis[h].name
  <2>1. dbis[FirstFree] = NoInfo
    BY <1>5, DbisTyped
  <2>. QED  BY <1>1, <1>5, <2>1 DEF Filled
<1>6. CASE BeginWrite \/ AbortWrite \/ UpdateCachedTrees \/ OpenCached
  <2>1. w'.slot = NoSlot
    BY <1>1, <1>6, AfterBeginWrite, AfterAbortWrite, AfterUpdateCachedTrees, AfterOpenCached
       DEF Txn
  <2>. QED  BY <1>3, <2>1
<1>7. CASE OpenFound \/ \E create \in BOOLEAN : OpenMissing(create)
  <2>1. w.slot = NoSlot /\ w'.slot = w.slot
    BY <1>1, <1>7, AfterOpenFound, AfterOpenMissing DEF Txn
  <2>. QED  BY <1>3, <2>1
<1>8. ASSUME NEW n \in Names, OpenKnown(n) PROVE Known'
  BY <1>1, <1>8, AfterOpenKnown DEF Txn, HandleOf, Known
<1>9. ASSUME NEW n \in Names, OpenLookup(n) PROVE Known'
  <2>1. w.pc = "open" /\ w'.slot = w.slot
    BY <1>1, <1>9, AfterOpenLookup DEF Txn
  <2>2. w.slot = NoSlot
    BY <2>1 DEF Typed
  <2>. QED  BY <1>3, <2>1, <2>2
<1>10. CASE \/ PersistNamedTrees \/ UpdateMeta
            \/ \E h \in Handles : Update(h) \/ Drop(h, FALSE)
  <2>1. CASE PersistNamedTrees \/ UpdateMeta
    <3>1. dbis' = dbis /\ w'.slot = w.slot /\ w'.opening = w.opening
      BY <1>1, <2>1, AfterPersistNamedTrees, AfterUpdateMeta DEF Txn
    <3>. QED  BY <1>4, <3>1
  <2>2. ASSUME NEW h \in Handles, Update(h) PROVE Known'
    <3>1. dbis' = dbis /\ w'.slot = w.slot /\ w'.opening = w.opening
      BY <1>1, <2>2, AfterUpdate DEF Txn
    <3>. QED  BY <1>4, <3>1
  <2>3. ASSUME NEW h \in Handles, Drop(h, FALSE) PROVE Known'
    <3>1. dbis' = dbis /\ w'.slot = w.slot /\ w'.opening = w.opening
      BY <1>1, <2>3 DEF Drop, Writer
    <3>. QED  BY <1>4, <3>1
  <2>. QED  BY <1>10, <2>1, <2>2, <2>3
<1>11. ASSUME NEW r \in Readers, ReaderStep(r) PROVE Known'
  <2>1. readers[r] \in Reader
    BY <1>1
  <2>2. CASE \E n \in Names : OpenRead(r, n)
    <3>1. PICK n \in Names : OpenRead(r, n)
      BY <2>2
    <3>2. FreeHandles # {} /\ dbis' = Filled(n, readers[r].main[n]) /\ w' = w
      BY <2>1, <3>1, AfterOpenRead
    <3>. QED  BY <1>4, <1>5, <3>2
  <2>3. CASE dbis' = dbis /\ w' = w
    BY <1>4, <2>3
  <2>. QED  BY <1>11, <2>2, <2>3
            DEF ReaderStep, StartRead, CopyNamed, Reset, AbortRead, EndRead
<1>12. CASE UNCHANGED vars
  BY <1>4, <1>12 DEF vars
<1>. QED  BY <1>6, <1>7, <1>8, <1>9, <1>10, <1>11, <1>12, CalmBefore

------------------------------------------------------------------------------
(* The theorems *)

Inv == Typed /\ Shape /\ (Calm => Settled /\ Known)

(***************************************************************************)
(* The invariant is inductive.                                             *)
(***************************************************************************)
LEMMA Inductive == Spec => []Inv
<1>1. Init => Inv
  <2>1. Init => Known
    BY DEF Init, WriterIdle, Known
  <2>. QED  BY <2>1, InitTyped, InitShape, InitSettled DEF Inv
<1>2. Inv /\ [Next]_vars => Inv'
  <2>1. SUFFICES ASSUME Inv, [Next]_vars, Calm' PROVE Settled' /\ Known'
    BY StepTyped, StepShape DEF Inv
  <2>2. Typed /\ Shape /\ Settled /\ Known
    BY <2>1, CalmBefore DEF Inv
  <2>3. Known'
    BY <2>1, <2>2, StaysKnown
  <2>4. CASE UNCHANGED vars
    BY <2>2, <2>3, <2>4
       DEF vars, Settled, FreeIsClean, Cached, Agree, TreeOf, Unopened, NoHandle, Committed,
           Mapped, Within
  <2>. QED
    BY <2>1, <2>2, <2>3, <2>4, CalmBefore, BeginWriteSettled, OpenKnownSettled,
       OpenCachedSettled, OpenLookupSettled, OpenFoundSettled, OpenMissingSettled,
       UpdateSettled, DropSettled, AbortWriteSettled, PersistSettled, UpdateMetaSettled,
       UpdateCachedTreesSettled, ReadSettled
<1>. QED  BY <1>1, <1>2, PTL DEF Spec

(***************************************************************************)
(* Types.                                                                  *)
(***************************************************************************)
THEOREM TypeCorrect == Spec => []TypeOK
<1>1. Inv => TypeOK
  BY DEF Inv, Typed, TypeOK, Writer, WriterPCs, Reader, ReaderPCs
<1>. QED  BY <1>1, Inductive, PTL

(***************************************************************************)
(* Whoever opens, closes, drops or aborts, no name gets two handles.       *)
(***************************************************************************)
THEOREM HandlesAreUnique == Spec => []OneHandlePerName
<1>1. Inv => OneHandlePerName
  BY DEF Inv, Shape
<1>. QED  BY <1>1, Inductive, PTL

(***************************************************************************)
(* A write transaction that begins builds on the committed trees.          *)
(***************************************************************************)
THEOREM CacheFollowsCommits == Spec => []CacheIsCommitted
<1>1. Inv => CacheIsCommitted
  BY DEF Inv, Settled, Cached, Agree, CacheIsCommitted
<1>. QED  BY <1>1, Inductive, PTL

(***************************************************************************)
(* Nothing of an aborted or unfinished transaction reaches the cache or a  *)
(* reader.                                                                 *)
(***************************************************************************)
THEOREM AbortsLeaveNothing == Spec => []OnlyCommittedUpdatesVisible
<1>1. Inv => OnlyCommittedUpdatesVisible
  BY DEF Inv, Settled, Committed, OnlyCommittedUpdatesVisible
<1>. QED  BY <1>1, Inductive, PTL

(***************************************************************************)
(* A reader that BeginTxn started finds all it sees in its map.            *)
(***************************************************************************)
THEOREM BegunReadersAreMapped == Spec => []BegunTreesAreMapped
<1>1. Inv => BegunTreesAreMapped
  BY DEF Inv, Settled, Mapped, BegunTreesAreMapped, TreesAreMapped
<1>. QED  BY <1>1, Inductive, PTL
=============================================================================
