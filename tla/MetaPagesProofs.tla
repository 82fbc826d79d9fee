--------------------------- MODULE MetaPagesProofs ---------------------------
(***************************************************************************)
(* Proofs about MetaPages, for any number of processes, readers and        *)
(* commits, in layers, each an inductive invariant that extends the last:  *)
(*                                                                         *)
(*   WellTyped      the types; WriteMap or not                             *)
(*   Ordered        with WriteAt, the valid pages have different numbers,  *)
(*                  none newer than the version shown, and the writer's    *)
(*                  is the next one, for a page other than the newest      *)
(*   Acknowledged   what a process has been told is what its triple has    *)
(*   DurablyLogged  with at most one commit unflushed when the next one    *)
(*                  begins, the page of the last flushed version is not    *)
(*                  touched before another one is flushed                  *)
(*   Begun          in one process, with at most one commit refused, the   *)
(*                  page of the triple is one of the last two versions     *)
(*                                                                         *)
(* The hypotheses are those of the code's weaker modes taken away: TLC     *)
(* finds the properties violated with WriteMap, with two commits unflushed,*)
(* with a second process that commits, with a second refused commit.  Only *)
(* for AcknowledgedIsSeen it finds no violation with WriteMap; the layers  *)
(* it stands on need the standard path.                                    *)
(***************************************************************************)
EXTENDS MetaPages, TLAPS

------------------------------------------------------------------------------
(* Meta pages and triples *)

(***************************************************************************)
(* newMetaTriple finds a page when one is valid: a valid one, with a txnid *)
(* as high as any.                                                         *)
(***************************************************************************)
LEMMA RecentIsNewest ==
  ASSUME NEW pages \in [Slots -> Meta], ValidSlots(pages) # {}
  PROVE  /\ RecentSlot(pages) \in ValidSlots(pages)
         /\ \A t \in ValidSlots(pages) : pages[t].txnidA <= pages[RecentSlot(pages)].txnidA
<1>. DEFINE n(s) == pages[s].txnidA
            V == ValidSlots(pages)
            Best(s) == \A t \in V : n(t) < n(s) \/ (n(t) = n(s) /\ s <= t)
<1>1. V \subseteq {0, 1, 2} /\ \A s \in V : n(s) \in Nat
  BY DEF ValidSlots, Slots, Meta
<1>2. \E s \in V : Best(s)
  <2>. HIDE DEF n, V
  <2>1. CASE 0 \in V /\ Best(0)
    BY <2>1
  <2>2. CASE 1 \in V /\ Best(1)
    BY <2>2
  <2>3. CASE 2 \in V /\ Best(2)
    BY <2>3
  <2>. QED  BY <1>1, <2>1, <2>2, <2>3 DEF V
<1>3. RecentSlot(pages) = CHOOSE s \in V : Best(s)
  BY DEF RecentSlot
<1>. QED  BY <1>1, <1>2, <1>3

(***************************************************************************)
(* If one valid page is newer than every other, newMetaTriple finds it.    *)
(***************************************************************************)
LEMMA NewestIsRecent ==
  ASSUME NEW pages \in [Slots -> Meta], NEW s \in ValidSlots(pages),
         \A t \in ValidSlots(pages) \ {s} : pages[t].txnidA < pages[s].txnidA
  PROVE  RecentSlot(pages) = s
<1>1. ValidSlots(pages) \subseteq Slots /\ \A t \in Slots : pages[t].txnidA \in Nat
  BY DEF ValidSlots, Meta
<1>2. /\ RecentSlot(pages) \in ValidSlots(pages)
      /\ pages[s].txnidA <= pages[RecentSlot(pages)].txnidA
  BY RecentIsNewest
<1>. QED  BY <1>1, <1>2

(***************************************************************************)
(* nextMetaIndex takes a valid page only when all three are valid and none *)
(* is older.                                                               *)
(***************************************************************************)
LEMMA NextIsOldest ==
  ASSUME NEW pages \in [Slots -> Meta], \A s \in Slots : pages[s].txnidA >= 1,
         NEW x, x = nextMetaIndex(NewMetaTriple(pages))
  PROVE  /\ x \in Slots
         /\ x \in ValidSlots(pages) =>
              ValidSlots(pages) = Slots /\ \A u \in Slots : pages[x].txnidA <= pages[u].txnidA
<1>. DEFINE n(s) == NewMetaTriple(pages).txnids[s]
            Best(s) == \A u \in Slots : n(s) < n(u) \/ (n(s) = n(u) /\ s <= u)
<1>1. \A s \in Slots : n(s) = IF isConsistent(pages[s]) THEN pages[s].txnidA ELSE 0
  BY DEF NewMetaTriple
<1>2. Slots = {0, 1, 2} /\ \A s \in Slots : n(s) \in Nat /\ pages[s].txnidA \in Nat
  BY <1>1 DEF Slots, Meta
<1>3. \E s \in Slots : Best(s)
  <2>. HIDE DEF n
  <2>1. CASE Best(0)
    BY <1>2, <2>1
  <2>2. CASE Best(1)
    BY <1>2, <2>2
  <2>3. CASE Best(2)
    BY <1>2, <2>3
  <2>. QED  BY <1>2, <2>1, <2>2, <2>3
<1>4. x = CHOOSE s \in Slots : Best(s)
  BY DEF nextMetaIndex
<1>5. x \in Slots /\ \A u \in Slots : n(x) <= n(u)
  BY <1>2, <1>3, <1>4
<1>. HIDE DEF n
<1>. QED  BY <1>1, <1>2, <1>5 DEF ValidSlots

(***************************************************************************)
(* A process that read the meta pages has the environment open.            *)
(***************************************************************************)
LEMMA ReadingOpens ==
  ASSUME NEW pages \in [Slots -> Meta], \A s \in Slots : pages[s].txnidA >= 1,
         ValidSlots(pages) # {}
  PROVE  /\ NewMetaTriple(pages) # Closed
         /\ NewMetaTriple(pages) \in [txnids : [Slots -> Nat], recent : Slots]
         /\ NewMetaTriple(pages).recent = RecentSlot(pages)
         /\ Recovered(pages) \in Version /\ Recovered(pages).txnid >= 1
<1>1. RecentSlot(pages) \in ValidSlots(pages) /\ ValidSlots(pages) \subseteq Slots
  BY RecentIsNewest DEF ValidSlots
<1>2. NewMetaTriple(pages).txnids[RecentSlot(pages)] = pages[RecentSlot(pages)].txnidA
  BY <1>1 DEF NewMetaTriple, ValidSlots
<1>3. Closed.txnids[RecentSlot(pages)] = 0
  BY <1>1 DEF Closed
<1>4. \A s \in Slots : pages[s].txnidA \in Nat /\ pages[s] \in Meta
  BY DEF Meta
<1>5. NewMetaTriple(pages) \in [txnids : [Slots -> Nat], recent : Slots]
  BY <1>1, <1>4 DEF NewMetaTriple
<1>6. Recovered(pages) \in Version /\ Recovered(pages).txnid >= 1
  BY <1>1, <1>4 DEF Recovered, VersionAt, Version, Meta
<1>. QED  BY <1>1, <1>2, <1>3, <1>4, <1>5, <1>6 DEF NewMetaTriple

------------------------------------------------------------------------------
(* The steps, with the records written out field by field *)

Writer(p, pc, n, tree, slot, step, willSync) ==
  [proc |-> p, pc |-> pc, txnid |-> n, tree |-> tree, slot |-> slot, step |-> step,
   willSync |-> willSync]

Reader(pc, how, slot, n, tree, floor) ==
  [pc |-> pc, how |-> how, slot |-> slot, txnid |-> n, tree |-> tree, floor |-> floor]

WriterRecs == [proc : Procs \cup {NoProc}, pc : WriterPCs, txnid : Nat, tree : Trees,
               slot : Slots, step : 0..6, willSync : BOOLEAN]
ReaderRecs == [pc : ReaderPCs, how : {"begin", "renew"}, slot : Slots, txnid : Nat,
               tree : Trees, floor : Nat]

(***************************************************************************)
(* A write transaction begins.                                             *)
(***************************************************************************)
LEMMA AfterBeginWrite ==
  ASSUME NEW p \in Procs, NEW willSync \in SyncModes, BeginWrite(p, willSync)
  PROVE  w' = Writer(p, "open", Recovered(cache).txnid + 1, 0, 0, 0, willSync)
BY Zenon DEF BeginWrite, Idle, Writer

(***************************************************************************)
(* A commit has written its data pages and chosen a meta page.             *)
(***************************************************************************)
LEMMA AfterWriteDirtyPages ==
  ASSUME w \in WriterRecs, NEW grow \in BOOLEAN, WriteDirtyPages(grow)
  PROVE  w' = Writer(w.proc, "meta", w.txnid, attempts', nextMetaIndex(triple'[w.proc]), 1,
                     w.willSync)
BY Zenon DEF WriteDirtyPages, WriterRecs, Writer

(***************************************************************************)
(* One store into a meta page: the last of a commit, or an earlier one.    *)
(***************************************************************************)
LEMMA AfterStoreMeta ==
  ASSUME w \in WriterRecs, StoreMeta
  PROVE  /\ w.pc = "meta"
         /\ cache' = [cache EXCEPT ![w.slot] = Images[w.step]]
         /\ unsynced' = [unsynced EXCEPT ![w.slot] = @ \cup {Images[w.step]}]
         /\ \/ /\ w.step = Len(Images)
               /\ w' = Writer(w.proc, "sync", w.txnid, w.tree, 0, 0, w.willSync)
               /\ chain' = Append(chain, VersionAt(Images[w.step]))
            \/ /\ w.step # Len(Images)
               /\ w' = Writer(w.proc, w.pc, w.txnid, w.tree, w.slot, w.step + 1, w.willSync)
               /\ chain' = chain
BY Zenon DEF StoreMeta, WriterRecs, Writer

(***************************************************************************)
(* The flush of a commit is over, or left out.                             *)
(***************************************************************************)
LEMMA AfterSyncMeta ==
  ASSUME w \in WriterRecs, SyncMeta
  PROVE  w' = Writer(w.proc, "publish", w.txnid, w.tree, w.slot, w.step, w.willSync)
BY Zenon DEF SyncMeta, WriterRecs, Writer

(***************************************************************************)
(* A reader begins, whether anew or by Renew.                              *)
(***************************************************************************)
LEMMA AfterBeginRead ==
  ASSUME NEW r \in Readers, BeginRead(r) \/ BeginRenew(r)
  PROVE  \E how \in {"begin", "renew"} :
           /\ how = "begin" <=> readers[r].pc = "idle"
           /\ readers' = [readers EXCEPT ![r] = Reader("header", how, triple[Home[r]].recent,
                                                       0, 0, acked[Home[r]])]
<1>2. CASE BeginRead(r)
  <2>1. PICK x : /\ x = [NoTxn EXCEPT !.pc = "header", !.slot = triple[Home[r]].recent,
                                      !.floor = acked[Home[r]]]
                 /\ readers' = [readers EXCEPT ![r] = x]
    BY <1>2 DEF BeginRead, Set
  <2>2. x = Reader("header", "begin", triple[Home[r]].recent, 0, 0, acked[Home[r]])
    BY <2>1, Zenon DEF NoTxn, Reader
  <2>3. readers' = [readers EXCEPT ![r] = x] /\ readers[r].pc = "idle"
    BY <1>2, <2>1 DEF BeginRead
  <2>. QED  BY <2>2, <2>3
<1>3. CASE BeginRenew(r)
  <2>1. PICK x : /\ x = [NoTxn EXCEPT !.pc = "header", !.slot = triple[Home[r]].recent,
                                      !.floor = acked[Home[r]], !.how = "renew"]
                 /\ readers' = [readers EXCEPT ![r] = x]
    BY <1>3 DEF BeginRenew, Set
  <2>2. x = Reader("header", "renew", triple[Home[r]].recent, 0, 0, acked[Home[r]])
    BY <2>1, Zenon DEF NoTxn, Reader
  <2>3. readers' = [readers EXCEPT ![r] = x] /\ readers[r].pc = "reset"
    BY <1>3, <2>1 DEF BeginRenew
  <2>. QED  BY <2>2, <2>3
<1>. QED  BY <1>2, <1>3

(***************************************************************************)
(* A reader copies the txnid, and then the roots.                          *)
(***************************************************************************)
LEMMA AfterReadTxnid ==
  ASSUME NEW r \in Readers, readers[r] \in ReaderRecs, ReadTxnid(r)
  PROVE  readers' = [readers EXCEPT ![r] =
           Reader("trees", readers[r].how, readers[r].slot, cache[readers[r].slot].txnidA,
                  readers[r].tree, readers[r].floor)]
<1>1. PICK x : /\ x = [readers[r] EXCEPT !.pc = "trees",
                                         !.txnid = cache[readers[r].slot].txnidA]
               /\ readers' = [readers EXCEPT ![r] = x]
  BY DEF ReadTxnid, Set
<1>2. x = Reader("trees", readers[r].how, readers[r].slot, cache[readers[r].slot].txnidA,
                 readers[r].tree, readers[r].floor)
  BY <1>1, Zenon DEF ReaderRecs, Reader
<1>. QED  BY <1>1, <1>2

LEMMA AfterReadTrees ==
  ASSUME NEW r \in Readers, readers[r] \in ReaderRecs, ReadTrees(r)
  PROVE  readers' = [readers EXCEPT ![r] =
           Reader("active", readers[r].how, 0, readers[r].txnid,
                  cache[readers[r].slot].MainTree, 0)]
<1>1. PICK x : /\ x = [readers[r] EXCEPT !.pc = "active", !.slot = 0, !.floor = 0,
                                         !.tree = cache[readers[r].slot].MainTree]
               /\ readers' = [readers EXCEPT ![r] = x]
  BY DEF ReadTrees, Set
<1>2. x = Reader("active", readers[r].how, 0, readers[r].txnid,
                 cache[readers[r].slot].MainTree, 0)
  BY <1>1, Zenon DEF ReaderRecs, Reader
<1>. QED  BY <1>1, <1>2

(***************************************************************************)
(* A reader ends.                                                          *)
(***************************************************************************)
LEMMA AfterEndRead ==
  ASSUME NEW r \in Readers, Reset(r) \/ AbortRead(r)
  PROVE  \E pc \in {"idle", "reset"} :
           readers' = [readers EXCEPT ![r] = Reader(pc, "begin", 0, 0, 0, 0)]
<1>1. /\ [NoTxn EXCEPT !.pc = "reset"] = Reader("reset", "begin", 0, 0, 0, 0)
      /\ NoTxn = Reader("idle", "begin", 0, 0, 0, 0)
  BY DEF NoTxn, Reader
<1>. QED  BY <1>1 DEF Reset, AbortRead, Set

------------------------------------------------------------------------------
(* Types *)

\* The images a power failure may leave of one page.
Kept(s) == unsynced[s] \cup {disk[s]}

LastStep == IF useWriteMap THEN 6 ELSE 2

\* No page ever has txnid 0, by which newMetaTriple marks an invalid one.
Positive ==
  \A s \in Slots : cache[s] \in Kept(s) /\ \A m \in Kept(s) : m.txnidA >= 1

\* Where a commit is, and that a page besides the one it writes is valid.
WriterFits ==
  /\ w.pc = "idle" <=> w.proc = NoProc
  /\ w.pc # "idle" => w.proc \in Procs /\ IsOpen(w.proc) /\ w.txnid >= 1
  /\ w.pc = "open" => attempts < MaxAttempts /\ triple[w.proc] = NewMetaTriple(cache)
  /\ w.pc = "meta" =>
       /\ w.step \in 1..LastStep
       /\ \E a \in ValidSlots(cache) : a # w.slot

OpenIsValid == (\E p \in Procs : IsOpen(p)) => ValidSlots(cache) # {}

WellTyped == TypeOK /\ Positive /\ WriterFits /\ OpenIsValid

(***************************************************************************)
(* The types of the parts, by name.                                        *)
(***************************************************************************)
LEMMA Parts ==
  ASSUME WellTyped
  PROVE  /\ cache \in [Slots -> Meta] /\ disk \in [Slots -> Meta]
         /\ unsynced \in [Slots -> SUBSET Meta]
         /\ \A s \in Slots : Kept(s) \subseteq Meta /\ cache[s].txnidA >= 1
         /\ w \in WriterRecs /\ readers \in [Readers -> ReaderRecs]
         /\ triple \in [Procs -> [txnids : [Slots -> Nat], recent : Slots]]
         /\ chain \in Seq(Version) /\ attempts \in Nat
         /\ 0 \in Slots /\ 0 \in Trees
BY BoundsAssumption DEF WellTyped, TypeOK, Positive, Kept, WriterRecs, ReaderRecs, Slots, Trees

(***************************************************************************)
(* What a commit stores is a meta page with the number of its transaction, *)
(* or, the first store of WriteMap, a copy of the page in the triple.      *)
(***************************************************************************)
LEMMA ImagesTyped ==
  ASSUME WellTyped, w.pc = "meta"
  PROVE  /\ Len(Images) = LastStep
         /\ Images[w.step] \in Meta /\ Images[w.step].txnidA >= 1
<1>1. /\ w.proc \in Procs /\ w.txnid >= 1 /\ w.step \in 1..LastStep
      /\ w.txnid \in Nat /\ w.tree \in Trees
  BY Parts DEF WellTyped, WriterFits, WriterRecs
<1>. DEFINE recent == cache[triple[w.proc].recent]
<1>2. recent \in Meta /\ recent.txnidA >= 1
  BY <1>1, Parts
<1>3. /\ recent.MainTree \in Trees /\ recent.Geometry \in Trees
      /\ 0 \in Nat /\ w.txnid \in Nat
  BY <1>1, <1>2 DEF Meta
<1>4. ASSUME NEW b \in Nat, NEW tree \in Trees, NEW geometry \in Trees
      PROVE  Page(w.txnid, b, tree, geometry) \in Meta /\ Page(w.txnid, b, tree, geometry).txnidA >= 1
  BY <1>1, <1>4 DEF Page, Meta
<1>5. CASE useWriteMap
  <2>1. Images = WriteMapImages(w.txnid, w.tree, recent)
    BY <1>5 DEF Images
  <2>. HIDE DEF recent
  <2>2. /\ Len(Images) = 6 /\ Images[1] = recent
        /\ Images[2] = Page(w.txnid, w.txnid, recent.MainTree, recent.Geometry)
        /\ Images[3] = Page(w.txnid, w.txnid, w.tree, recent.Geometry)
        /\ Images[4] = Page(w.txnid, w.txnid, w.tree, w.tree)
        /\ Images[5] = Page(w.txnid, 0, w.tree, w.tree)
        /\ Images[6] = Page(w.txnid, w.txnid, w.tree, w.tree)
    BY <2>1 DEF WriteMapImages
  <2>3. \A i \in {1, 2, 3, 4, 5, 6} : Images[i] \in Meta /\ Images[i].txnidA >= 1
    BY <1>1, <1>2, <1>3, <1>4, <2>2
  <2>4. w.step \in {1, 2, 3, 4, 5, 6}
    BY <1>1, <1>5 DEF LastStep
  <2>. QED  BY <1>5, <2>2, <2>3, <2>4 DEF LastStep
<1>6. CASE ~useWriteMap
  <2>1. Images = WriteAtImages(w.txnid, w.tree)
    BY <1>6 DEF Images
  <2>2. /\ Len(Images) = 2
        /\ Images[1] = Page(w.txnid, 0, w.tree, w.tree)
        /\ Images[2] = Page(w.txnid, w.txnid, w.tree, w.tree)
    BY <2>1 DEF WriteAtImages
  <2>3. w.step \in {1, 2}
    BY <1>1, <1>6 DEF LastStep
  <2>. QED  BY <1>1, <1>3, <1>4, <1>6, <2>2, <2>3 DEF LastStep
<1>. QED  BY <1>5, <1>6

(***************************************************************************)
(* ChainEndsAt leaves a log of versions.                                   *)
(***************************************************************************)
LEMMA Prefix ==
  ASSUME NEW S, NEW s \in Seq(S), NEW k \in 0..Len(s)
  PROVE  /\ SubSeq(s, 1, k) \in Seq(S)
         /\ Len(SubSeq(s, 1, k)) = k
         /\ \A i \in 1..k : SubSeq(s, 1, k)[i] = s[i]
OBVIOUS

LEMMA EndsTyped ==
  ASSUME chain \in Seq(Version), NEW v \in Version, ChainEndsAt(v)
  PROVE  chain' \in Seq(Version)
<1>1. PICK k \in 0..Len(chain) : chain' = Append(SubSeq(chain, 1, k), v)
  BY DEF ChainEndsAt
<1>2. SubSeq(chain, 1, k) \in Seq(Version)
  BY Prefix
<1>. QED  BY <1>1, <1>2

(***************************************************************************)
(* A fresh file is well typed.                                             *)
(***************************************************************************)
LEMMA InitTyped == Init => WellTyped
<1>. SUFFICES ASSUME Init PROVE WellTyped
  OBVIOUS
<1>1. 0 \in Trees /\ Slots = {0, 1, 2} /\ 0 \in 0..MaxAttempts /\ 0 \in 0..MaxIOErrors
  BY BoundsAssumption DEF Trees, Slots
<1>2. /\ cache \in [Slots -> Meta] /\ disk = cache /\ unsynced = [s \in Slots |-> {}]
      /\ \A s \in Slots : cache[s].txnidA >= 1
  BY <1>1 DEF Init, Meta, InitialTxnID
<1>3. chain \in Seq(Version) /\ synced \in Nat
  BY <1>1 DEF Init, Genesis, Version, InitialTxnID
<1>4. w \in WriterRecs /\ w.pc = "idle" /\ w.proc = NoProc
  BY <1>1 DEF Init, Idle, WriterRecs, WriterPCs
<1>5. readers \in [Readers -> ReaderRecs]
  BY <1>1 DEF Init, NoTxn, ReaderRecs, ReaderPCs
<1>6. /\ triple \in [Procs -> [txnids : [Slots -> Nat], recent : Slots]]
      /\ \A p \in Procs : ~IsOpen(p)
  BY <1>1 DEF Init, Closed, IsOpen
<1>7. TypeOK
  BY <1>1, <1>2, <1>3, <1>4, <1>5, <1>6, ModesAssumption
     DEF Init, TypeOK, WriterRecs, ReaderRecs
<1>8. Positive
  BY <1>2 DEF Positive, Kept
<1>. QED
  BY <1>4, <1>6, <1>7, <1>8 DEF WellTyped, WriterFits, OpenIsValid

(***************************************************************************)
(* Steps that leave the pages, the triples and the writer alone need only  *)
(* keep the readers and the log well typed.                                *)
(***************************************************************************)
LEMMA QuietTyped ==
  ASSUME WellTyped, UNCHANGED <<useWriteMap, fileVars, triple, w, counters>>,
         readers' \in [Readers -> ReaderRecs], chain' \in Seq(Version),
         synced' \in Nat, acked' \in [Procs -> Nat]
  PROVE  WellTyped'
<1>1. TypeOK'
  BY DEF WellTyped, TypeOK, fileVars, counters, ReaderRecs
<1>2. Positive' /\ OpenIsValid'
  BY DEF WellTyped, Positive, Kept, OpenIsValid, IsOpen, fileVars
<1>3. WriterFits'
  BY DEF WellTyped, WriterFits, LastStep, IsOpen, fileVars, counters
<1>. QED  BY <1>1, <1>2, <1>3 DEF WellTyped

(***************************************************************************)
(* A process reads the meta pages again: the triple it gets is well typed, *)
(* and open.  The writer's record changes with it or not.                  *)
(***************************************************************************)
LEMMA ReadMetaTyped ==
  ASSUME WellTyped, NEW p \in Procs, ValidSlots(cache) # {},
         triple' = [triple EXCEPT ![p] = NewMetaTriple(cache)],
         UNCHANGED <<useWriteMap, fileVars, counters, readers, chain, synced>>,
         w' \in WriterRecs, WriterFits', acked' \in [Procs -> Nat]
  PROVE  WellTyped'
<1>1. NewMetaTriple(cache) \in [txnids : [Slots -> Nat], recent : Slots]
  BY Parts, ReadingOpens
<1>2. triple' \in [Procs -> [txnids : [Slots -> Nat], recent : Slots]]
  BY <1>1, Parts
<1>3. TypeOK'
  BY <1>2 DEF WellTyped, TypeOK, fileVars, counters, WriterRecs
<1>4. Positive' /\ OpenIsValid'
  BY DEF WellTyped, Positive, Kept, OpenIsValid, fileVars
<1>. QED  BY <1>3, <1>4 DEF WellTyped

(***************************************************************************)
(* Every step of a writer keeps the types, and leaves a valid page besides *)
(* the one it writes.                                                      *)
(***************************************************************************)
LEMMA BeginWriteTyped ==
  ASSUME WellTyped, NEW p \in Procs, NEW willSync \in SyncModes, BeginWrite(p, willSync)
  PROVE  WellTyped'
<1>1. w' = Writer(p, "open", Recovered(cache).txnid + 1, 0, 0, 0, willSync)
  BY AfterBeginWrite
<1>2. /\ ValidSlots(cache) # {} /\ attempts < MaxAttempts
      /\ triple' = [triple EXCEPT ![p] = NewMetaTriple(cache)]
      /\ UNCHANGED <<useWriteMap, fileVars, counters, readers, chain, synced, acked>>
  BY DEF BeginWrite, ghostVars
<1>3. /\ NewMetaTriple(cache) # Closed
      /\ Recovered(cache).txnid \in Nat /\ Recovered(cache).txnid >= 1
  BY <1>2, Parts, ReadingOpens DEF Version
<1>4. w' \in WriterRecs /\ w'.pc = "open" /\ w'.proc = p /\ w'.txnid >= 1
  BY <1>1, <1>3, Parts, ModesAssumption DEF Writer, WriterRecs, WriterPCs
<1>5. triple'[p] = NewMetaTriple(cache)
  BY <1>2, Parts
<1>6. WriterFits'
  <2>1. p # NoProc /\ cache' = cache /\ attempts' = attempts
    BY <1>2, ProcsAssumption DEF fileVars, counters
  <2>. QED  BY <1>2, <1>3, <1>4, <1>5, <2>1 DEF WriterFits, IsOpen
<1>7. acked' \in [Procs -> Nat]
  BY <1>2 DEF WellTyped, TypeOK
<1>. QED  BY <1>2, <1>4, <1>6, <1>7, ReadMetaTyped

LEMMA WriteDirtyPagesTyped ==
  ASSUME WellTyped, NEW grow \in BOOLEAN, WriteDirtyPages(grow)
  PROVE  WellTyped'
<1>1. w' = Writer(w.proc, "meta", w.txnid, attempts', nextMetaIndex(triple'[w.proc]), 1,
                  w.willSync)
  BY Parts, AfterWriteDirtyPages
<1>2. /\ w.pc = "open" /\ attempts' = attempts + 1
      /\ pagesUnsynced' = pagesUnsynced \cup {attempts'}
      /\ triple' = IF grow THEN [triple EXCEPT ![w.proc] = NewMetaTriple(cache)] ELSE triple
      /\ UNCHANGED <<useWriteMap, cache, disk, unsynced, pagesLost, ioErrors, readers,
                     chain, synced, acked>>
  BY DEF WriteDirtyPages, ghostVars
<1>3. /\ w.proc \in Procs /\ w.proc # NoProc /\ attempts < MaxAttempts /\ w.txnid >= 1
      /\ IsOpen(w.proc) /\ triple[w.proc] = NewMetaTriple(cache) /\ ValidSlots(cache) # {}
  BY <1>2, ProcsAssumption DEF WellTyped, WriterFits, OpenIsValid
<1>4. triple'[w.proc] = NewMetaTriple(cache) /\ triple' = triple
  BY <1>2, <1>3, Parts
<1>5. attempts' \in Trees /\ attempts' \in 0..MaxAttempts
  BY <1>2, <1>3, Parts, BoundsAssumption DEF Trees
<1>. DEFINE x == nextMetaIndex(NewMetaTriple(cache))
<1>6. /\ x \in Slots
      /\ x \in ValidSlots(cache) => ValidSlots(cache) = Slots
  BY Parts, NextIsOldest
<1>. HIDE DEF x
<1>7. \E a \in ValidSlots(cache) : a # x
  <2>1. CASE x \in ValidSlots(cache)
    <3>1. 0 \in ValidSlots(cache) /\ 1 \in ValidSlots(cache) /\ 0 # 1
      BY <1>6, <2>1 DEF Slots
    <3>. QED  BY <3>1
  <2>2. CASE x \notin ValidSlots(cache)
    BY <1>3, <2>2
  <2>. QED  BY <2>1, <2>2
<1>8. /\ w' \in WriterRecs /\ w'.pc = "meta" /\ w'.proc = w.proc /\ w'.txnid = w.txnid
      /\ w'.slot = x /\ w'.step = 1
  BY <1>1, <1>3, <1>4, <1>5, <1>6, Parts DEF Writer, WriterRecs, WriterPCs, x
<1>9. WriterFits'
  <2>1. 1 \in 1..LastStep' /\ IsOpen(w.proc)'
    BY <1>3, <1>4, <1>8 DEF LastStep, IsOpen
  <2>2. \E a \in ValidSlots(cache') : a # w'.slot
    BY <1>2, <1>7, <1>8
  <2>3. w'.step \in 1..LastStep' /\ w'.proc \in Procs /\ w'.proc # NoProc /\ w'.txnid >= 1
    BY <1>3, <1>8, <2>1
  <2>. QED  BY <1>8, <2>1, <2>2, <2>3 DEF WriterFits
<1>10. TypeOK'
  <2>1. pagesUnsynced' \subseteq Trees
    BY <1>2, <1>5 DEF WellTyped, TypeOK
  <2>. QED  BY <1>2, <1>4, <1>5, <1>8, <2>1 DEF WellTyped, TypeOK, WriterRecs
<1>11. Positive' /\ OpenIsValid'
  BY <1>2, <1>4 DEF WellTyped, Positive, Kept, OpenIsValid, IsOpen
<1>. QED  BY <1>9, <1>10, <1>11 DEF WellTyped

LEMMA StoreMetaTyped ==
  ASSUME WellTyped, StoreMeta
  PROVE  WellTyped'
<1>. DEFINE img == Images[w.step]
<1>1. /\ w.pc = "meta"
      /\ cache' = [cache EXCEPT ![w.slot] = img]
      /\ unsynced' = [unsynced EXCEPT ![w.slot] = @ \cup {img}]
      /\ \/ /\ w.step = Len(Images)
            /\ w' = Writer(w.proc, "sync", w.txnid, w.tree, 0, 0, w.willSync)
            /\ chain' = Append(chain, VersionAt(img))
         \/ /\ w.step # Len(Images)
            /\ w' = Writer(w.proc, w.pc, w.txnid, w.tree, w.slot, w.step + 1, w.willSync)
            /\ chain' = chain
  BY Parts, AfterStoreMeta
<1>2. UNCHANGED <<useWriteMap, disk, pagesUnsynced, pagesLost, triple, attempts, ioErrors,
                  readers, synced, acked>>
  BY DEF StoreMeta, counters
<1>3. Len(Images) = LastStep /\ img \in Meta /\ img.txnidA >= 1
  BY <1>1, ImagesTyped
<1>. HIDE DEF img
<1>4. /\ w.proc \in Procs /\ w.proc # NoProc /\ IsOpen(w.proc) /\ w.txnid >= 1
      /\ w.step \in 1..LastStep /\ w.slot \in Slots
  BY <1>1, Parts, ProcsAssumption DEF WellTyped, WriterFits, WriterRecs
<1>5. PICK a \in ValidSlots(cache) : a # w.slot
  BY <1>1 DEF WellTyped, WriterFits
<1>6. a \in ValidSlots(cache')
  BY <1>1, <1>4, <1>5, Parts DEF ValidSlots
<1>7. chain' \in Seq(Version)
  <2>1. VersionAt(img) \in Version
    BY <1>3 DEF VersionAt, Version, Meta
  <2>2. Append(chain, VersionAt(img)) \in Seq(Version) /\ chain \in Seq(Version)
    BY <2>1, Parts
  <2>. QED  BY <1>1, <2>2
<1>8. /\ w' \in WriterRecs /\ w'.pc \in {"meta", "sync"} /\ w'.proc = w.proc
      /\ w'.txnid = w.txnid
      /\ w'.pc = "meta" => w'.slot = w.slot /\ w'.step \in 1..LastStep
  <2>1. 0 \in 0..6 /\ LastStep \in 1..6 /\ w.pc \in WriterPCs /\ "sync" \in WriterPCs
    BY <1>1 DEF LastStep, WriterPCs
  <2>2. w.step # Len(Images) => w.step + 1 \in 1..LastStep /\ w.step + 1 \in 0..6
    BY <1>3, <1>4, <2>1
  <2>. QED  BY <1>1, <1>4, <2>1, <2>2, Parts DEF Writer, WriterRecs
<1>9. WriterFits'
  <2>1. LastStep' = LastStep /\ IsOpen(w.proc)'
    BY <1>2, <1>4, <1>8 DEF LastStep, IsOpen
  <2>2. w'.pc = "meta" => w'.step \in 1..LastStep' /\ \E b \in ValidSlots(cache') : b # w'.slot
    BY <1>5, <1>6, <1>8, <2>1
  <2>3. w'.proc \in Procs /\ w'.proc # NoProc /\ w'.txnid >= 1
    BY <1>4, <1>8
  <2>. QED  BY <1>8, <2>1, <2>2, <2>3 DEF WriterFits
<1>10. cache' \in [Slots -> Meta] /\ unsynced' \in [Slots -> SUBSET Meta]
  BY <1>1, <1>3, Parts
<1>11. TypeOK'
  BY <1>2, <1>7, <1>8, <1>10 DEF WellTyped, TypeOK, WriterRecs
<1>12. Positive'
  BY <1>1, <1>2, <1>3, <1>4, Parts DEF WellTyped, Positive, Kept
<1>13. OpenIsValid'
  BY <1>6 DEF OpenIsValid
<1>. QED  BY <1>9, <1>11, <1>12, <1>13 DEF WellTyped

LEMMA IdleTyped ==
  ASSUME WellTyped, w' = Idle, UNCHANGED <<useWriteMap, fileVars, triple, attempts, ghostVars>>,
         ioErrors' \in 0..MaxIOErrors, UNCHANGED readers
  PROVE  WellTyped'
<1>1. w' \in WriterRecs /\ w'.pc = "idle" /\ w'.proc = NoProc
  BY Parts DEF Idle, WriterRecs, WriterPCs
<1>2. TypeOK'
  BY <1>1 DEF WellTyped, TypeOK, WriterRecs, fileVars, ghostVars
<1>3. Positive' /\ OpenIsValid'
  BY DEF WellTyped, Positive, Kept, OpenIsValid, IsOpen, fileVars
<1>. QED  BY <1>1, <1>2, <1>3 DEF WellTyped, WriterFits

(***************************************************************************)
(* A flush, by a commit or by Env.Sync.                                    *)
(***************************************************************************)
LEMMA FlushTyped ==
  ASSUME WellTyped, Flush, UNCHANGED <<useWriteMap, triple, counters, readers, chain, acked>>,
         w' \in WriterRecs, w'.pc = w.pc \/ {w.pc, w'.pc} \subseteq {"sync", "publish"},
         w'.proc = w.proc, w'.txnid = w.txnid, w'.slot = w.slot, w'.step = w.step
  PROVE  WellTyped'
<1>1. /\ cache' = cache /\ disk' = cache /\ unsynced' = [s \in Slots |-> {}]
      /\ pagesUnsynced' = {} /\ synced' = Len(chain) /\ pagesLost' = pagesLost
      /\ Len(chain) \in Nat
  BY Parts DEF Flush
<1>2. TypeOK'
  BY <1>1 DEF WellTyped, TypeOK, WriterRecs, counters
<1>3. Positive' /\ OpenIsValid'
  BY <1>1, Parts DEF WellTyped, Positive, Kept, OpenIsValid, IsOpen
<1>4. WriterFits'
  <2>1. LastStep' = LastStep /\ IsOpen(w.proc)' = IsOpen(w.proc) /\ attempts' = attempts
    BY DEF LastStep, IsOpen, counters
  <2>2. w.pc = "idle" <=> w.proc = NoProc
    BY DEF WellTyped, WriterFits
  <2>3. w.pc # "idle" => w.proc \in Procs /\ IsOpen(w.proc) /\ w.txnid >= 1
    BY DEF WellTyped, WriterFits
  <2>4. w.pc = "open" => attempts < MaxAttempts /\ triple[w.proc] = NewMetaTriple(cache)
    BY DEF WellTyped, WriterFits
  <2>5. w.pc = "meta" => w.step \in 1..LastStep /\ \E a \in ValidSlots(cache) : a # w.slot
    BY DEF WellTyped, WriterFits
  <2>. QED  BY <1>1, <2>1, <2>2, <2>3, <2>4, <2>5 DEF WriterFits
<1>. QED  BY <1>2, <1>3, <1>4 DEF WellTyped

LEMMA SyncMetaTyped ==
  ASSUME WellTyped, SyncMeta
  PROVE  WellTyped'
<1>1. w' = Writer(w.proc, "publish", w.txnid, w.tree, w.slot, w.step, w.willSync)
  BY Parts, AfterSyncMeta
<1>2. /\ w' \in WriterRecs /\ w'.pc = "publish" /\ w.pc = "sync"
      /\ w'.proc = w.proc /\ w'.txnid = w.txnid /\ w'.slot = w.slot /\ w'.step = w.step
  BY <1>1, Parts DEF Writer, WriterRecs, WriterPCs, SyncMeta
<1>3. UNCHANGED <<useWriteMap, triple, counters, readers, chain, acked>>
  BY DEF SyncMeta
<1>4. CASE w.willSync
  BY <1>2, <1>3, <1>4, FlushTyped DEF SyncMeta
<1>5. CASE ~w.willSync
  <2>1. UNCHANGED <<fileVars, synced>>
    BY <1>5 DEF SyncMeta
  <2>2. TypeOK'
    BY <1>2, <1>3, <2>1 DEF WellTyped, TypeOK, WriterRecs, counters, fileVars
  <2>3. Positive' /\ OpenIsValid'
    BY <1>3, <2>1 DEF WellTyped, Positive, Kept, OpenIsValid, IsOpen, fileVars
  <2>4. WriterFits'
    BY <1>2, <1>3 DEF WellTyped, WriterFits, IsOpen
  <2>. QED  BY <2>2, <2>3, <2>4 DEF WellTyped
<1>. QED  BY <1>4, <1>5

LEMMA PublishTyped ==
  ASSUME WellTyped, Publish
  PROVE  WellTyped'
<1>1. /\ w.pc = "publish" /\ ValidSlots(cache) # {} /\ w.proc \in Procs
      /\ triple' = [triple EXCEPT ![w.proc] = NewMetaTriple(cache)]
      /\ acked' = [acked EXCEPT ![w.proc] = w.txnid]
      /\ w' = Idle
      /\ UNCHANGED <<useWriteMap, fileVars, counters, readers, chain, synced>>
  BY DEF WellTyped, WriterFits, Publish
<1>2. acked' \in [Procs -> Nat]
  BY <1>1, Parts DEF WellTyped, TypeOK, WriterRecs
<1>3. w' \in WriterRecs /\ WriterFits'
  BY <1>1, Parts DEF Idle, WriterRecs, WriterPCs, WriterFits
<1>. QED  BY <1>1, <1>2, <1>3, ReadMetaTyped

LEMMA OpenTyped ==
  ASSUME WellTyped, NEW p \in Procs, Open(p)
  PROVE  WellTyped'
<1>1. /\ ~IsOpen(p) /\ ValidSlots(cache) # {}
      /\ triple' = [triple EXCEPT ![p] = NewMetaTriple(cache)]
      /\ acked' = [acked EXCEPT ![p] = Recovered(cache).txnid]
      /\ UNCHANGED <<useWriteMap, fileVars, counters, readers, chain, synced, w>>
  BY DEF Open
<1>2. Recovered(cache).txnid \in Nat
  BY <1>1, Parts, ReadingOpens DEF Version
<1>3. acked' \in [Procs -> Nat] /\ w' \in WriterRecs
  BY <1>1, <1>2, Parts DEF WellTyped, TypeOK
<1>4. WriterFits'
  <2>1. w.pc # "idle" => w.proc \in Procs /\ w.proc # p
    BY <1>1 DEF WellTyped, WriterFits
  <2>2. w.pc # "idle" => triple'[w.proc] = triple[w.proc]
    BY <1>1, <2>1, Parts
  <2>. QED
    BY <1>1, <2>2 DEF WellTyped, WriterFits, IsOpen, LastStep, fileVars, counters
<1>. QED  BY <1>1, <1>3, <1>4, ReadMetaTyped

(***************************************************************************)
(* Every step of a reader keeps the types.                                 *)
(***************************************************************************)
LEMMA ReaderStepTyped ==
  ASSUME WellTyped, NEW r \in Readers, ReaderStep(r)
  PROVE  WellTyped'
<1>1. UNCHANGED <<useWriteMap, fileVars, triple, w, counters, chain, synced, acked>>
  BY DEF ReaderStep, BeginRead, BeginRenew, ReadTxnid, ReadTrees, Reset, AbortRead, ghostVars
<1>2. /\ readers \in [Readers -> ReaderRecs] /\ readers[r] \in ReaderRecs
      /\ Home[r] \in Procs /\ triple[Home[r]].recent \in Slots /\ acked[Home[r]] \in Nat
      /\ 0 \in Trees /\ 0 \in Slots
  BY Parts, HomeAssumption DEF WellTyped, TypeOK
<1>3. /\ readers[r].slot \in Slots /\ readers[r].how \in {"begin", "renew"}
      /\ readers[r].tree \in Trees /\ readers[r].floor \in Nat /\ readers[r].txnid \in Nat
      /\ cache[readers[r].slot] \in Meta
  BY <1>2, Parts DEF ReaderRecs
<1>4. readers' \in [Readers -> ReaderRecs]
  <2>1. CASE BeginRead(r) \/ BeginRenew(r)
    BY <1>2, <2>1, AfterBeginRead DEF Reader, ReaderRecs, ReaderPCs
  <2>2. CASE ReadTxnid(r)
    <3>1. cache[readers[r].slot].txnidA \in Nat
      BY <1>3 DEF Meta
    <3>. QED  BY <1>2, <1>3, <2>2, <3>1, AfterReadTxnid DEF Reader, ReaderRecs, ReaderPCs
  <2>3. CASE ReadTrees(r)
    <3>1. cache[readers[r].slot].MainTree \in Trees
      BY <1>3 DEF Meta
    <3>. QED  BY <1>2, <1>3, <2>3, <3>1, AfterReadTrees DEF Reader, ReaderRecs, ReaderPCs
  <2>4. CASE Reset(r) \/ AbortRead(r)
    BY <1>2, <2>4, AfterEndRead DEF Reader, ReaderRecs, ReaderPCs
  <2>. QED  BY <2>1, <2>2, <2>3, <2>4 DEF ReaderStep
<1>5. chain' \in Seq(Version) /\ synced' \in Nat /\ acked' \in [Procs -> Nat]
  BY <1>1 DEF WellTyped, TypeOK
<1>. QED  BY <1>1, <1>4, <1>5, QuietTyped

(***************************************************************************)
(* A process ends: its triple and its transactions go.                     *)
(***************************************************************************)
LEMMA ProcessEndsTyped ==
  ASSUME WellTyped, NEW p \in Procs, ProcessEnds(p)
  PROVE  WellTyped'
<1>1. /\ IsOpen(p) /\ triple' = [triple EXCEPT ![p] = Closed]
      /\ readers' = [r \in Readers |-> IF Home[r] = p THEN NoTxn ELSE readers[r]]
      /\ acked' = [acked EXCEPT ![p] = 0]
      /\ w' = IF w.proc = p THEN Idle ELSE w
      /\ UNCHANGED <<useWriteMap, cache, disk, unsynced, pagesUnsynced, pagesLost, attempts,
                     ioErrors, synced>>
  BY DEF ProcessEnds, fileVars, counters
<1>2. /\ Idle \in WriterRecs /\ Idle.pc = "idle" /\ Idle.proc = NoProc
      /\ NoTxn \in ReaderRecs /\ Closed \in [txnids : [Slots -> Nat], recent : Slots]
  BY Parts DEF Idle, NoTxn, Closed, WriterRecs, WriterPCs, ReaderRecs, ReaderPCs
<1>3. chain' \in Seq(Version)
  <2>1. Recovered(cache) \in Version
    BY <1>1, Parts, ReadingOpens DEF WellTyped, OpenIsValid
  <2>2. CASE w.proc = p
    BY <2>1, <2>2, Parts, EndsTyped DEF ProcessEnds
  <2>3. CASE w.proc # p
    BY <2>3, Parts DEF ProcessEnds
  <2>. QED  BY <2>2, <2>3
<1>4. /\ triple' \in [Procs -> [txnids : [Slots -> Nat], recent : Slots]]
      /\ readers' \in [Readers -> ReaderRecs] /\ w' \in WriterRecs
      /\ acked' \in [Procs -> Nat]
  BY <1>1, <1>2, Parts DEF WellTyped, TypeOK
<1>5. TypeOK'
  BY <1>1, <1>3, <1>4 DEF WellTyped, TypeOK, WriterRecs, ReaderRecs
<1>6. Positive'
  BY <1>1 DEF WellTyped, Positive, Kept
<1>7. OpenIsValid'
  BY <1>1 DEF WellTyped, OpenIsValid
<1>8. WriterFits'
  <2>1. CASE w.proc = p
    BY <1>1, <1>2, <2>1 DEF WriterFits
  <2>2. CASE w.proc # p
    <3>1. w' = w /\ (w.pc # "idle" => triple'[w.proc] = triple[w.proc])
      BY <1>1, <2>2, Parts DEF WellTyped, WriterFits
    <3>. QED  BY <1>1, <3>1 DEF WellTyped, WriterFits, IsOpen, LastStep
  <2>. QED  BY <2>1, <2>2
<1>. QED  BY <1>5, <1>6, <1>7, <1>8 DEF WellTyped

(***************************************************************************)
(* What a power failure leaves is made of images of each page.             *)
(***************************************************************************)
LEMMA SurvivorsAreKept ==
  ASSUME WellTyped, NEW img \in Survivors
  PROVE  img \in [Slots -> Meta] /\ \A s \in Slots : img[s] \in Kept(s)
<1>1. \A s \in Slots : img[s] \in Kept(s)
  BY DEF Survivors, Kept
<1>2. DOMAIN img = Slots /\ img = [s \in Slots |-> img[s]]
  BY DEF Survivors
<1>. QED  BY <1>1, <1>2, Parts

LEMMA PowerFailsTyped == WellTyped /\ PowerFails => WellTyped'
<1>. SUFFICES ASSUME WellTyped, PowerFails PROVE WellTyped'
  OBVIOUS
<1>1. /\ unsynced' = [s \in Slots |-> {}] /\ pagesUnsynced' = {}
      /\ triple' = [p \in Procs |-> Closed] /\ readers' = [r \in Readers |-> NoTxn]
      /\ acked' = [p \in Procs |-> 0] /\ w' = Idle
      /\ UNCHANGED <<useWriteMap, attempts, ioErrors, synced>>
  BY DEF PowerFails, counters
<1>2. PICK img \in Survivors, gone \in SUBSET pagesUnsynced :
        /\ cache' = img /\ disk' = img
        /\ IF ValidSlots(img) = {} THEN chain' = <<>> ELSE ChainEndsAt(Recovered(img))
        /\ pagesLost' = {v.tree : v \in Range(chain')} \cap (pagesLost \cup gone)
  BY DEF PowerFails
<1>3. /\ img \in [Slots -> Meta]
      /\ \A s \in Slots : img[s] \in Kept(s) /\ img[s].txnidA >= 1
  BY SurvivorsAreKept DEF WellTyped, Positive
<1>4. chain' \in Seq(Version)
  <2>1. CASE ValidSlots(img) = {}
    BY <1>2, <2>1
  <2>2. CASE ValidSlots(img) # {}
    <3>1. Recovered(img) \in Version
      BY <1>3, <2>2, ReadingOpens
    <3>2. ChainEndsAt(Recovered(img))
      BY <1>2, <2>2
    <3>. QED  BY <3>1, <3>2, Parts, EndsTyped
  <2>. QED  BY <2>1, <2>2
<1>5. /\ Idle \in WriterRecs /\ Idle.pc = "idle" /\ Idle.proc = NoProc
      /\ NoTxn \in ReaderRecs /\ Closed \in [txnids : [Slots -> Nat], recent : Slots]
  BY Parts DEF Idle, NoTxn, Closed, WriterRecs, WriterPCs, ReaderRecs, ReaderPCs
<1>6. pagesLost' \subseteq Trees
  BY <1>2 DEF WellTyped, TypeOK
<1>7. TypeOK'
  BY <1>1, <1>2, <1>3, <1>4, <1>5, <1>6 DEF WellTyped, TypeOK, WriterRecs, ReaderRecs
<1>8. Positive'
  BY <1>1, <1>2, <1>3 DEF Positive, Kept
<1>9. OpenIsValid' /\ WriterFits'
  BY <1>1, <1>5 DEF OpenIsValid, IsOpen, WriterFits
<1>. QED  BY <1>7, <1>8, <1>9 DEF WellTyped

(***************************************************************************)
(* Every step keeps the types.                                             *)
(***************************************************************************)
LEMMA StepTyped == WellTyped /\ [Next]_vars => WellTyped'
<1>. SUFFICES ASSUME WellTyped, [Next]_vars PROVE WellTyped'
  OBVIOUS
<1>1. CASE AbortWrite
  <2>1. ioErrors' \in 0..MaxIOErrors
    BY <1>1 DEF AbortWrite, counters, WellTyped, TypeOK
  <2>. QED  BY <1>1, <2>1, IdleTyped DEF AbortWrite, counters
<1>2. CASE CommitFails
  <2>1. ioErrors' \in 0..MaxIOErrors
    BY <1>2, BoundsAssumption DEF CommitFails, WellTyped, TypeOK
  <2>. QED  BY <1>2, <2>1, IdleTyped DEF CommitFails
<1>3. ASSUME NEW p \in Procs, ForceSync(p) PROVE WellTyped'
  BY <1>3, Parts, FlushTyped DEF ForceSync
<1>4. CASE UNCHANGED vars
  <2>1. /\ UNCHANGED <<useWriteMap, fileVars, triple, w, counters>>
        /\ UNCHANGED <<readers, chain, synced, acked>>
    BY <1>4 DEF vars, ghostVars
  <2>2. /\ readers' \in [Readers -> ReaderRecs] /\ chain' \in Seq(Version)
        /\ synced' \in Nat /\ acked' \in [Procs -> Nat]
    BY <2>1, Parts DEF WellTyped, TypeOK
  <2>. QED  BY <2>1, <2>2, QuietTyped
<1>. QED
  BY <1>1, <1>2, <1>3, <1>4, BeginWriteTyped, WriteDirtyPagesTyped, StoreMetaTyped,
     SyncMetaTyped, PublishTyped, OpenTyped, ReaderStepTyped, ProcessEndsTyped,
     PowerFailsTyped
     DEF Next, WriterStep

(***************************************************************************)
(* Types: whatever crashes, fails and is written, by WriteAt or through    *)
(* the map, every variable keeps its type; so nextMetaIndex never leaves   *)
(* the three pages, and a process that has the file open finds a valid one.*)
(***************************************************************************)
THEOREM TypeCorrect == Spec => []TypeOK
<1>1. Spec => []WellTyped
  BY InitTyped, StepTyped, PTL DEF Spec
<1>. QED  BY <1>1, PTL DEF WellTyped

------------------------------------------------------------------------------
(* The meta pages, written with WriteAt *)

ByWriteAt == WriteMapModes \subseteq {FALSE}

Top == Recovered(cache).txnid

\* Commits take the standard path.
Standard == ~useWriteMap

\* No consistent image is newer than the version visible now, ...
Newest ==
  \A s \in Slots : \A m \in Kept(s) :
    isConsistent(m) => ValidSlots(cache) # {} /\ m.txnidA <= Top

\* ... and those of two pages have different numbers.
Distinct ==
  \A s, t \in Slots : s # t =>
    \A m \in Kept(s), n \in Kept(t) :
      isConsistent(m) /\ isConsistent(n) => m.txnidA # n.txnidA

\* The writer's number is the next one, and it spares the newest page.
WriterNumber ==
  /\ w.pc \in {"open", "meta"} => w.txnid = Top + 1
  /\ w.pc \in {"sync", "publish"} => w.txnid = Top
  /\ w.pc = "meta" => w.slot # RecentSlot(cache)

Ordered == WellTyped /\ Standard /\ Newest /\ Distinct /\ WriterNumber

(***************************************************************************)
(* The visible version is that of a valid page, and the newest.            *)
(***************************************************************************)
LEMMA TopIsNewest ==
  ASSUME WellTyped, ValidSlots(cache) # {}
  PROVE  /\ RecentSlot(cache) \in Slots /\ isConsistent(cache[RecentSlot(cache)])
         /\ Recovered(cache) = VersionAt(cache[RecentSlot(cache)])
         /\ Top = cache[RecentSlot(cache)].txnidA /\ Top \in Nat
         /\ \A t \in Slots : isConsistent(cache[t]) => cache[t].txnidA <= Top
<1>1. /\ RecentSlot(cache) \in ValidSlots(cache)
      /\ \A t \in ValidSlots(cache) : cache[t].txnidA <= cache[RecentSlot(cache)].txnidA
  BY Parts, RecentIsNewest
<1>2. Recovered(cache) = VersionAt(cache[RecentSlot(cache)])
  BY DEF Recovered
<1>3. Top = cache[RecentSlot(cache)].txnidA
  BY <1>2 DEF VersionAt, Top
<1>4. cache[RecentSlot(cache)].txnidA \in Nat
  BY <1>1, Parts DEF ValidSlots, Meta
<1>. QED  BY <1>1, <1>2, <1>3, <1>4 DEF ValidSlots

(***************************************************************************)
(* nextMetaIndex spares the newest page, and the one before it when the    *)
(* two have adjacent numbers.                                              *)
(***************************************************************************)
LEMMA NextSparesNewest ==
  ASSUME Ordered, ValidSlots(cache) # {}, NEW x, x = nextMetaIndex(NewMetaTriple(cache))
  PROVE  /\ x # RecentSlot(cache)
         /\ \A a \in ValidSlots(cache) : cache[a].txnidA + 1 >= Top => x # a
<1>. DEFINE n(s) == cache[s].txnidA
<1>1. /\ x \in Slots
      /\ x \in ValidSlots(cache) =>
           ValidSlots(cache) = Slots /\ \A u \in Slots : n(x) <= n(u)
  BY Parts, NextIsOldest DEF Ordered
<1>2. /\ Top \in Nat /\ RecentSlot(cache) \in ValidSlots(cache) /\ n(RecentSlot(cache)) = Top
      /\ \A t \in ValidSlots(cache) : n(t) <= Top
  BY TopIsNewest DEF Ordered, ValidSlots
<1>3. \A s, t \in ValidSlots(cache) : s # t => n(s) # n(t)
  <2>1. \A s \in Slots : cache[s] \in Kept(s)
    BY DEF Ordered, WellTyped, Positive
  <2>. QED  BY <2>1 DEF Ordered, Distinct, ValidSlots
<1>4. Slots = {0, 1, 2} /\ ValidSlots(cache) \subseteq Slots /\ \A s \in Slots : n(s) \in Nat
  BY Parts DEF Ordered, Slots, ValidSlots, Meta
<1>. HIDE DEF n
<1>5. ASSUME NEW a \in ValidSlots(cache), n(a) + 1 >= Top, x = a PROVE FALSE
  <2>1. ValidSlots(cache) = {0, 1, 2} /\ \A u \in {0, 1, 2} : n(a) <= n(u)
    BY <1>1, <1>4, <1>5
  <2>2. \A u \in {0, 1, 2} : n(u) = Top \/ n(u) + 1 = Top
    BY <1>2, <1>4, <1>5, <2>1
  <2>. QED  BY <1>2, <1>3, <1>4, <2>1, <2>2
<1>6. n(RecentSlot(cache)) + 1 >= Top
  BY <1>2
<1>. QED  BY <1>2, <1>5, <1>6 DEF n

(***************************************************************************)
(* The first WriteAt of a commit invalidates a page that is not the newest.*)
(***************************************************************************)
LEMMA HalfStored ==
  ASSUME Ordered, StoreMeta, w.step = 1, NEW img, img = Page(w.txnid, 0, w.tree, w.tree)
  PROVE  /\ img \in Meta /\ ~isConsistent(img) /\ w.slot \in Slots
         /\ cache' = [cache EXCEPT ![w.slot] = img]
         /\ \A s \in Slots : Kept(s)' = IF s = w.slot THEN Kept(s) \cup {img} ELSE Kept(s)
         /\ w' = Writer(w.proc, "meta", w.txnid, w.tree, w.slot, 2, w.willSync)
         /\ chain' = chain
         /\ ValidSlots(cache') # {} /\ RecentSlot(cache') = RecentSlot(cache)
         /\ Recovered(cache') = Recovered(cache)
<1>1. /\ w.pc = "meta" /\ w.txnid \in Nat /\ w.txnid >= 1 /\ w.tree \in Trees
      /\ w.slot \in Slots /\ ValidSlots(cache) # {} /\ w.slot # RecentSlot(cache)
  BY Parts, AfterStoreMeta DEF Ordered, WellTyped, WriterFits, OpenIsValid, WriterRecs, WriterNumber
<1>2. Images = WriteAtImages(w.txnid, w.tree)
  BY DEF Ordered, Standard, Images
<1>3. Len(Images) = 2 /\ Images[w.step] = img
  BY <1>2 DEF WriteAtImages
<1>4. img \in Meta /\ ~isConsistent(img)
  BY <1>1 DEF Page, Meta, isConsistent
<1>5. /\ cache' = [cache EXCEPT ![w.slot] = img]
      /\ unsynced' = [unsynced EXCEPT ![w.slot] = @ \cup {img}]
      /\ w' = Writer(w.proc, "meta", w.txnid, w.tree, w.slot, 2, w.willSync)
      /\ chain' = chain
  <2>1. \/ w.step = Len(Images)
        \/ /\ w' = Writer(w.proc, w.pc, w.txnid, w.tree, w.slot, w.step + 1, w.willSync)
           /\ chain' = chain
    BY Parts, AfterStoreMeta DEF Ordered
  <2>2. w.step # Len(Images) /\ w.step + 1 = 2
    BY <1>3
  <2>3. /\ cache' = [cache EXCEPT ![w.slot] = img]
        /\ unsynced' = [unsynced EXCEPT ![w.slot] = @ \cup {img}]
    BY <1>3, Parts, AfterStoreMeta DEF Ordered
  <2>. QED  BY <1>1, <2>1, <2>2, <2>3
<1>6. disk' = disk
  BY DEF StoreMeta
<1>7. \A s \in Slots : Kept(s)' = IF s = w.slot THEN Kept(s) \cup {img} ELSE Kept(s)
  BY <1>1, <1>5, <1>6, Parts DEF Ordered, Kept
<1>8. /\ cache' \in [Slots -> Meta] /\ RecentSlot(cache) \in ValidSlots(cache')
      /\ ValidSlots(cache') \subseteq ValidSlots(cache)
      /\ \A s \in ValidSlots(cache') : s # w.slot /\ cache'[s] = cache[s]
  BY <1>1, <1>4, <1>5, Parts, TopIsNewest DEF Ordered, ValidSlots
<1>9. RecentSlot(cache') = RecentSlot(cache)
  <2>1. \A t \in ValidSlots(cache') \ {RecentSlot(cache)} :
          cache'[t].txnidA < cache'[RecentSlot(cache)].txnidA
    <3>1. \A s \in Slots : cache[s] \in Kept(s) /\ cache[s].txnidA \in Nat
      BY Parts DEF Ordered, WellTyped, Positive, Meta
    <3>2. \A t \in Slots \ {RecentSlot(cache)} : isConsistent(cache[t]) =>
            cache[t].txnidA <= Top /\ cache[t].txnidA # cache[RecentSlot(cache)].txnidA
      BY <1>1, <3>1, TopIsNewest DEF Ordered, Distinct
    <3>3. Top = cache[RecentSlot(cache)].txnidA /\ Top \in Nat
      BY <1>1, TopIsNewest DEF Ordered
    <3>. QED  BY <1>8, <3>1, <3>2, <3>3 DEF ValidSlots
  <2>. QED  BY <1>8, <2>1, NewestIsRecent
<1>10. Recovered(cache') = Recovered(cache)
  BY <1>8, <1>9 DEF Recovered
<1>. QED  BY <1>1, <1>4, <1>5, <1>7, <1>8, <1>9, <1>10

(***************************************************************************)
(* The second makes the new version visible.                               *)
(***************************************************************************)
LEMMA FullStored ==
  ASSUME Ordered, StoreMeta, w.step = 2, NEW img, img = Page(w.txnid, w.txnid, w.tree, w.tree)
  PROVE  /\ img \in Meta /\ isConsistent(img) /\ img.txnidA = Top + 1 /\ w.slot \in Slots
         /\ cache' = [cache EXCEPT ![w.slot] = img]
         /\ \A s \in Slots : Kept(s)' = IF s = w.slot THEN Kept(s) \cup {img} ELSE Kept(s)
         /\ w' = Writer(w.proc, "sync", w.txnid, w.tree, 0, 0, w.willSync)
         /\ chain' = Append(chain, VersionAt(img))
         /\ ValidSlots(cache') # {} /\ RecentSlot(cache') = w.slot
         /\ Recovered(cache') = VersionAt(img)
<1>1. /\ w.pc = "meta" /\ w.txnid \in Nat /\ w.txnid >= 1 /\ w.tree \in Trees
      /\ w.slot \in Slots /\ ValidSlots(cache) # {} /\ w.txnid = Top + 1
  BY Parts, AfterStoreMeta DEF Ordered, WellTyped, WriterFits, OpenIsValid, WriterRecs, WriterNumber
<1>2. Images = WriteAtImages(w.txnid, w.tree)
  BY DEF Ordered, Standard, Images
<1>3. Len(Images) = 2 /\ Images[w.step] = img
  BY <1>2 DEF WriteAtImages
<1>4. img \in Meta /\ isConsistent(img) /\ img.txnidA = Top + 1
  BY <1>1 DEF Page, Meta, isConsistent
<1>5. /\ cache' = [cache EXCEPT ![w.slot] = img]
      /\ unsynced' = [unsynced EXCEPT ![w.slot] = @ \cup {img}]
      /\ w' = Writer(w.proc, "sync", w.txnid, w.tree, 0, 0, w.willSync)
      /\ chain' = Append(chain, VersionAt(img))
  <2>1. \/ /\ w' = Writer(w.proc, "sync", w.txnid, w.tree, 0, 0, w.willSync)
           /\ chain' = Append(chain, VersionAt(Images[w.step]))
        \/ w.step # Len(Images)
    BY Parts, AfterStoreMeta DEF Ordered
  <2>2. /\ cache' = [cache EXCEPT ![w.slot] = img]
        /\ unsynced' = [unsynced EXCEPT ![w.slot] = @ \cup {img}]
    BY <1>3, Parts, AfterStoreMeta DEF Ordered
  <2>. QED  BY <1>3, <2>1, <2>2
<1>6. disk' = disk
  BY DEF StoreMeta
<1>7. \A s \in Slots : Kept(s)' = IF s = w.slot THEN Kept(s) \cup {img} ELSE Kept(s)
  BY <1>1, <1>5, <1>6, Parts DEF Ordered, Kept
<1>8. /\ cache' \in [Slots -> Meta] /\ w.slot \in ValidSlots(cache') /\ cache'[w.slot] = img
      /\ \A s \in ValidSlots(cache') \ {w.slot} : s \in ValidSlots(cache) /\ cache'[s] = cache[s]
  BY <1>1, <1>4, <1>5, Parts DEF Ordered, ValidSlots
<1>9. \A t \in ValidSlots(cache') \ {w.slot} : cache'[t].txnidA < cache'[w.slot].txnidA
  <2>1. \A t \in ValidSlots(cache) : cache[t].txnidA \in Nat /\ cache[t].txnidA <= Top /\ Top \in Nat
    BY <1>1, Parts, TopIsNewest DEF Ordered, ValidSlots, Meta
  <2>. QED  BY <1>4, <1>8, <2>1
<1>10. RecentSlot(cache') = w.slot
  BY <1>8, <1>9, NewestIsRecent
<1>11. Recovered(cache') = VersionAt(img)
  BY <1>8, <1>10 DEF Recovered
<1>. QED  BY <1>1, <1>4, <1>5, <1>7, <1>8, <1>10, <1>11

(***************************************************************************)
(* Which of the two stores is next.                                        *)
(***************************************************************************)
LEMMA StoreIsHalfOrFull ==
  ASSUME Ordered, StoreMeta
  PROVE  w.step \in {1, 2}
<1>1. w.pc = "meta"
  BY Parts, AfterStoreMeta DEF Ordered
<1>2. w.step \in 1..LastStep /\ LastStep = 2
  BY <1>1 DEF Ordered, WellTyped, WriterFits, Standard, LastStep
<1>. QED  BY <1>2

(***************************************************************************)
(* A fresh file has three valid pages, numbered 1, 2 and 3.                *)
(***************************************************************************)
LEMMA InitOrdered == Init /\ ByWriteAt => Ordered
<1>. SUFFICES ASSUME Init, ByWriteAt PROVE Ordered
  OBVIOUS
<1>1. WellTyped
  BY InitTyped
<1>2. /\ \A s \in Slots : Kept(s) = {cache[s]}
      /\ \A s \in Slots : /\ cache[s].txnidA = s + 1 /\ cache[s].txnidB = s + 1
      /\ w.pc = "idle"
  BY DEF Init, Kept, InitialTxnID, Slots, Idle
<1>3. Standard
  BY <1>2 DEF Init, ByWriteAt, Standard
<1>4. Slots = {0, 1, 2} /\ ValidSlots(cache) = Slots
  BY <1>2 DEF Slots, ValidSlots, isConsistent
<1>5. \A s \in Slots : cache[s].txnidA <= Top
  BY <1>1, <1>4, TopIsNewest DEF ValidSlots
<1>6. Newest
  BY <1>2, <1>4, <1>5 DEF Newest
<1>7. Distinct
  BY <1>2, <1>4 DEF Distinct
<1>. QED  BY <1>1, <1>2, <1>3, <1>6, <1>7 DEF Ordered, WriterNumber

(***************************************************************************)
(* Losing images, and showing the same version, keeps the order.           *)
(***************************************************************************)
LEMMA FewerKept ==
  ASSUME Ordered, useWriteMap' = useWriteMap, \A s \in Slots : Kept(s)' \subseteq Kept(s)
  PROVE  /\ Standard' /\ Distinct'
         /\ cache' = cache => Newest'
<1>1. \A s \in Slots : \A m \in Kept(s)' : m \in Kept(s)
  OBVIOUS
<1>2. Standard'
  BY DEF Ordered, Standard
<1>3. Distinct'
  BY <1>1 DEF Ordered, Distinct
<1>4. ASSUME cache' = cache PROVE Newest'
  BY <1>1, <1>4 DEF Ordered, Newest, Top
<1>. QED  BY <1>2, <1>3, <1>4

(***************************************************************************)
(* Every step but a store and a power failure shows the same version.      *)
(***************************************************************************)
LEMMA PagesAreKept ==
  ASSUME Next, ~StoreMeta, ~PowerFails
  PROVE  /\ useWriteMap' = useWriteMap /\ cache' = cache
         /\ \A s \in Slots : Kept(s)' \subseteq Kept(s) \cup {cache[s]}
         /\ \/ UNCHANGED <<disk, unsynced, synced>>
            \/ /\ disk' = cache /\ unsynced' = [s \in Slots |-> {}] /\ synced' = Len(chain)
               /\ chain' = chain
<1>1. ASSUME UNCHANGED <<cache, disk, unsynced>>
      PROVE  \A s \in Slots : Kept(s)' \subseteq Kept(s) \cup {cache[s]}
  BY <1>1 DEF Kept
<1>2. ASSUME Flush PROVE \A s \in Slots : Kept(s)' \subseteq Kept(s) \cup {cache[s]}
  BY <1>2 DEF Kept, Flush
<1>3. ASSUME NEW p \in Procs, Open(p) \/ ForceSync(p) \/ ProcessEnds(p)
      PROVE  /\ useWriteMap' = useWriteMap /\ cache' = cache
             /\ (Flush /\ chain' = chain) \/ UNCHANGED <<disk, unsynced, synced>>
  BY <1>3 DEF Open, ForceSync, ProcessEnds, Flush, fileVars
<1>4. ASSUME WriterStep
      PROVE  /\ useWriteMap' = useWriteMap /\ cache' = cache
             /\ (Flush /\ chain' = chain) \/ UNCHANGED <<disk, unsynced, synced>>
  BY <1>4 DEF WriterStep, BeginWrite, AbortWrite, WriteDirtyPages, CommitFails, SyncMeta, Publish,
              Flush, fileVars, ghostVars
<1>5. ASSUME NEW r \in Readers, ReaderStep(r)
      PROVE  /\ useWriteMap' = useWriteMap /\ cache' = cache
             /\ UNCHANGED <<disk, unsynced, synced>>
  BY <1>5 DEF ReaderStep, BeginRead, BeginRenew, ReadTxnid, ReadTrees, Reset, AbortRead,
              fileVars, ghostVars
<1>6. /\ useWriteMap' = useWriteMap /\ cache' = cache
      /\ (Flush /\ chain' = chain) \/ UNCHANGED <<disk, unsynced, synced>>
  BY <1>3, <1>4, <1>5 DEF Next
<1>. QED  BY <1>1, <1>2, <1>6 DEF Flush

(***************************************************************************)
(* The order of the pages is kept by both stores of a commit, ...          *)
(***************************************************************************)
LEMMA StoreOrdered ==
  ASSUME Ordered, StoreMeta
  PROVE  Ordered'
<1>1. WellTyped'
  BY StoreMetaTyped DEF Ordered
<1>2. useWriteMap' = useWriteMap
  BY DEF StoreMeta
<1>3. w.pc = "meta" /\ w.txnid = Top + 1 /\ w.slot # RecentSlot(cache) /\ ValidSlots(cache) # {}
  BY DEF StoreMeta, Ordered, WriterNumber, WellTyped, WriterFits
<1>4. Top \in Nat
  BY <1>3, TopIsNewest DEF Ordered
<1>5. ASSUME NEW s \in Slots, NEW m \in Kept(s)
      PROVE  m \in Meta /\ (isConsistent(m) => m.txnidA <= Top)
  BY <1>5, Parts DEF Ordered, Newest
<1>6. CASE w.step = 1
  <2>. DEFINE img == Page(w.txnid, 0, w.tree, w.tree)
  <2>1. /\ ~isConsistent(img) /\ Recovered(cache') = Recovered(cache)
        /\ \A s \in Slots : Kept(s)' = IF s = w.slot THEN Kept(s) \cup {img} ELSE Kept(s)
        /\ w' = Writer(w.proc, "meta", w.txnid, w.tree, w.slot, 2, w.willSync)
        /\ ValidSlots(cache') # {} /\ RecentSlot(cache') = RecentSlot(cache)
    BY <1>6, HalfStored
  <2>. HIDE DEF img
  <2>3. \A s \in Slots : \A m \in Kept(s)' : m \in Kept(s) \/ m = img
    BY <2>1
  <2>4. Top' = Top
    BY <2>1 DEF Top
  <2>5. Standard'
    BY <1>2 DEF Standard, Ordered
  <2>6. Newest'
    BY <1>5, <2>1, <2>3, <2>4 DEF Newest
  <2>7. Distinct'
    BY <2>1, <2>3 DEF Distinct, Ordered
  <2>8. WriterNumber'
    BY <1>3, <2>1, <2>4 DEF WriterNumber, Writer
  <2>. QED  BY <1>1, <2>5, <2>6, <2>7, <2>8 DEF Ordered
<1>7. CASE w.step = 2
  <2>. DEFINE img == Page(w.txnid, w.txnid, w.tree, w.tree)
  <2>1. /\ isConsistent(img) /\ img.txnidA = Top + 1 /\ Recovered(cache') = VersionAt(img)
        /\ \A s \in Slots : Kept(s)' = IF s = w.slot THEN Kept(s) \cup {img} ELSE Kept(s)
        /\ w' = Writer(w.proc, "sync", w.txnid, w.tree, 0, 0, w.willSync)
        /\ ValidSlots(cache') # {}
    BY <1>7, FullStored
  <2>. HIDE DEF img
  <2>3. \A s \in Slots : \A m \in Kept(s)' : m \in Kept(s) \/ (m = img /\ s = w.slot)
    BY <2>1
  <2>4. Top' = Top + 1
    BY <2>1 DEF Top, VersionAt
  <2>5. Standard'
    BY <1>2 DEF Standard, Ordered
  <2>6. Newest'
    <3>1. ASSUME NEW s \in Slots, NEW m \in Kept(s)', isConsistent(m) PROVE m.txnidA <= Top + 1
      <4>1. CASE m \in Kept(s)
        BY <1>4, <1>5, <3>1, <4>1 DEF Meta
      <4>2. CASE m = img
        BY <1>4, <2>1, <4>2
      <4>. QED  BY <2>3, <4>1, <4>2
    <3>. QED  BY <2>1, <2>4, <3>1 DEF Newest
  <2>7. Distinct'
    <3>1. ASSUME NEW s \in Slots, NEW m \in Kept(s), isConsistent(m) PROVE m.txnidA # img.txnidA
      BY <1>4, <1>5, <2>1, <3>1 DEF Meta
    <3>. QED  BY <2>3, <3>1 DEF Distinct, Ordered
  <2>8. WriterNumber'
    BY <1>3, <2>1, <2>4 DEF WriterNumber, Writer
  <2>. QED  BY <1>1, <2>5, <2>6, <2>7, <2>8 DEF Ordered
<1>. QED  BY <1>6, <1>7, StoreIsHalfOrFull

(***************************************************************************)
(* ... and by a power failure, which keeps one image of each page.         *)
(***************************************************************************)
LEMMA PowerFailsOrdered ==
  ASSUME Ordered, PowerFails
  PROVE  Ordered'
<1>1. WellTyped'
  BY PowerFailsTyped DEF Ordered
<1>2. /\ useWriteMap' = useWriteMap /\ unsynced' = [s \in Slots |-> {}] /\ w' = Idle
  BY DEF PowerFails
<1>3. PICK img \in Survivors : cache' = img /\ disk' = img
  BY DEF PowerFails
<1>4. img \in [Slots -> Meta] /\ \A s \in Slots : img[s] \in Kept(s)
  BY SurvivorsAreKept DEF Ordered
<1>5. \A s \in Slots : Kept(s)' = {img[s]}
  BY <1>2, <1>3 DEF Kept
<1>6. Standard' /\ Distinct'
  BY <1>2, <1>4, <1>5, FewerKept
<1>7. Newest'
  <2>1. \A s \in Slots : isConsistent(img[s]) =>
          ValidSlots(cache') # {} /\ cache'[s].txnidA <= cache'[RecentSlot(cache')].txnidA
    BY <1>3, <1>4, RecentIsNewest DEF ValidSlots
  <2>2. Top' = cache'[RecentSlot(cache')].txnidA
    BY DEF Top, Recovered, VersionAt
  <2>. QED  BY <1>3, <1>5, <2>1, <2>2 DEF Newest
<1>8. WriterNumber'
  BY <1>2 DEF WriterNumber, Idle
<1>. QED  BY <1>1, <1>6, <1>7, <1>8 DEF Ordered

(***************************************************************************)
(* Every step keeps it: a commit takes its number and its page from what   *)
(* the file shows, and nobody else writes before it is stored.             *)
(***************************************************************************)
LEMMA StepOrdered == Ordered /\ [Next]_vars => Ordered'
<1>. SUFFICES ASSUME Ordered, [Next]_vars PROVE Ordered'
  OBVIOUS
<1>1. WellTyped'
  BY StepTyped DEF Ordered
<1>2. CASE Next /\ ~StoreMeta /\ ~PowerFails
  <2>1. /\ useWriteMap' = useWriteMap /\ cache' = cache
        /\ \A s \in Slots : Kept(s)' \subseteq Kept(s)
    BY <1>2, PagesAreKept DEF Ordered, WellTyped, Positive
  <2>2. Standard' /\ Distinct' /\ Newest'
    BY <2>1, FewerKept
  <2>3. Top' = Top
    BY <2>1 DEF Top
  <2>4. WriterNumber'
    <3>1. CASE w' = w
      BY <2>1, <2>3, <3>1 DEF Ordered, WriterNumber
    <3>2. CASE w' = Idle
      BY <3>2 DEF WriterNumber, Idle
    <3>3. ASSUME NEW p \in Procs, NEW willSync \in SyncModes, BeginWrite(p, willSync)
          PROVE  WriterNumber'
      BY <2>3, <3>3, AfterBeginWrite DEF WriterNumber, Writer, Top
    <3>4. ASSUME NEW grow \in BOOLEAN, WriteDirtyPages(grow) PROVE WriterNumber'
      <4>1. w' = Writer(w.proc, "meta", w.txnid, attempts', nextMetaIndex(triple'[w.proc]), 1,
                        w.willSync)
        BY <3>4, Parts, AfterWriteDirtyPages DEF Ordered
      <4>2. /\ w.pc = "open" /\ w.txnid = Top + 1 /\ w.proc \in Procs
            /\ triple[w.proc] = NewMetaTriple(cache) /\ ValidSlots(cache) # {}
        BY <3>4 DEF WriteDirtyPages, Ordered, WriterNumber, WellTyped, WriterFits, OpenIsValid
      <4>3. triple'[w.proc] = NewMetaTriple(cache)
        BY <3>4, <4>2, Parts DEF WriteDirtyPages, Ordered
      <4>4. nextMetaIndex(triple'[w.proc]) # RecentSlot(cache)
        BY <4>2, <4>3, NextSparesNewest
      <4>. QED  BY <2>1, <2>3, <4>1, <4>2, <4>4 DEF WriterNumber, Writer
    <3>5. CASE SyncMeta
      <4>1. w' = Writer(w.proc, "publish", w.txnid, w.tree, w.slot, w.step, w.willSync)
        BY <3>5, Parts, AfterSyncMeta DEF Ordered
      <4>2. w.txnid = Top
        BY <3>5 DEF SyncMeta, Ordered, WriterNumber
      <4>. QED  BY <2>3, <4>1, <4>2 DEF WriterNumber, Writer
    <3>6. ASSUME NEW p \in Procs, Open(p) \/ ForceSync(p) \/ ProcessEnds(p)
          PROVE  w' = w \/ w' = Idle
      BY <3>6 DEF Open, ForceSync, ProcessEnds
    <3>7. ASSUME NEW r \in Readers, ReaderStep(r) PROVE w' = w
      BY <3>7 DEF ReaderStep, BeginRead, BeginRenew, ReadTxnid, ReadTrees, Reset, AbortRead
    <3>8. AbortWrite \/ CommitFails \/ Publish => w' = Idle
      BY DEF AbortWrite, CommitFails, Publish
    <3>. QED
      BY <1>2, <3>1, <3>2, <3>3, <3>4, <3>5, <3>6, <3>7, <3>8 DEF Next, WriterStep
  <2>. QED  BY <1>1, <2>2, <2>4 DEF Ordered
<1>3. CASE UNCHANGED vars
  <2>1. UNCHANGED <<useWriteMap, cache, disk, unsynced, w>>
    BY <1>3 DEF vars, fileVars
  <2>2. /\ \A s \in Slots : Kept(s)' \subseteq Kept(s)
        /\ WriterNumber'
    BY <2>1 DEF Kept, Ordered, WriterNumber, Top
  <2>. QED  BY <1>1, <2>1, <2>2, FewerKept DEF Ordered
<1>. QED  BY <1>2, <1>3, StoreOrdered, PowerFailsOrdered

------------------------------------------------------------------------------
(* What a reader sees of the commits acknowledged *)

\* The page in a slot is no older than n, and no newer than the next version.
NoOlder(n, s) == n <= cache[s].txnidA /\ cache[s].txnidA <= Top + 1

Seen ==
  /\ \A p \in Procs : IsOpen(p) => NoOlder(acked[p], triple[p].recent) /\ acked[p] <= Top
  /\ \A r \in Readers :
       /\ readers[r].pc = "header" => NoOlder(readers[r].floor, readers[r].slot)
       /\ readers[r].pc = "trees" => readers[r].txnid >= readers[r].floor

HeadersAreOpen == \A r \in Readers : readers[r].pc = "header" => IsOpen(Home[r])

Acknowledged == Ordered /\ HeadersAreOpen /\ Seen

(***************************************************************************)
(* Whoever has the file open, some page is valid.                          *)
(***************************************************************************)
LEMMA OpenHasTop ==
  ASSUME Ordered, NEW p \in Procs, IsOpen(p)
  PROVE  ValidSlots(cache) # {} /\ Top \in Nat
BY TopIsNewest DEF Ordered, WellTyped, OpenIsValid

(***************************************************************************)
(* No slot goes back: a store puts the next number where an older one, or  *)
(* the half of a failed commit with that number, was.                      *)
(***************************************************************************)
LEMMA SlotsDoNotGoBack ==
  ASSUME Ordered, NEW p \in Procs, IsOpen(p),
         StoreMeta \/ (Next /\ ~StoreMeta /\ ~PowerFails) \/ UNCHANGED vars
  PROVE  /\ Top <= Top' /\ Top' \in Nat
         /\ \A s \in Slots, n \in Nat : NoOlder(n, s) => NoOlder(n, s)'
<1>1. Top \in Nat /\ ValidSlots(cache) # {} /\ \A s \in Slots : cache[s] \in Meta
  BY OpenHasTop, Parts DEF Ordered
<1>2. CASE cache' = cache
  BY <1>1, <1>2 DEF Top, NoOlder
<1>3. CASE StoreMeta
  <2>1. w.txnid = Top + 1 /\ w.slot \in Slots
    BY <1>3, Parts, AfterStoreMeta DEF Ordered, WriterNumber, WriterRecs
  <2>2. CASE w.step = 1
    <3>. DEFINE img == Page(w.txnid, 0, w.tree, w.tree)
    <3>1. cache' = [cache EXCEPT ![w.slot] = img] /\ Recovered(cache') = Recovered(cache)
      BY <1>3, <2>2, HalfStored
    <3>2. img.txnidA = Top + 1
      BY <2>1 DEF Page
    <3>3. Top' = Top
      BY <3>1 DEF Top
    <3>. HIDE DEF img
    <3>4. \A s \in Slots : cache'[s].txnidA = IF s = w.slot THEN Top + 1 ELSE cache[s].txnidA
      BY <3>1, <3>2, Parts DEF Ordered
    <3>. QED  BY <1>1, <3>3, <3>4 DEF NoOlder, Meta
  <2>3. CASE w.step = 2
    <3>. DEFINE img == Page(w.txnid, w.txnid, w.tree, w.tree)
    <3>1. /\ cache' = [cache EXCEPT ![w.slot] = img] /\ Recovered(cache') = VersionAt(img)
          /\ img.txnidA = Top + 1
      BY <1>3, <2>3, FullStored
    <3>. HIDE DEF img
    <3>2. Top' = Top + 1
      BY <3>1 DEF Top, VersionAt
    <3>3. \A s \in Slots : cache'[s].txnidA = IF s = w.slot THEN Top + 1 ELSE cache[s].txnidA
      BY <3>1, Parts DEF Ordered
    <3>. QED  BY <1>1, <3>2, <3>3 DEF NoOlder, Meta
  <2>. QED  BY <1>3, <2>2, <2>3, StoreIsHalfOrFull
<1>4. CASE Next /\ ~StoreMeta /\ ~PowerFails
  BY <1>2, <1>4, PagesAreKept
<1>5. CASE UNCHANGED vars
  BY <1>2, <1>5 DEF vars, fileVars
<1>. QED  BY <1>3, <1>4, <1>5

(***************************************************************************)
(* A process that reads the meta pages points to the newest.               *)
(***************************************************************************)
LEMMA ReadingSees ==
  ASSUME Ordered, ValidSlots(cache) # {}, NEW n \in Nat, n <= Top
  PROVE  NoOlder(n, NewMetaTriple(cache).recent)
<1>1. /\ NewMetaTriple(cache).recent = RecentSlot(cache)
      /\ cache[RecentSlot(cache)].txnidA = Top /\ Top \in Nat
  BY TopIsNewest DEF NewMetaTriple, Ordered
<1>. QED  BY <1>1 DEF NoOlder

(***************************************************************************)
(* What a step may do to the triple of a process: nothing, read the meta   *)
(* pages again, or close.                                                  *)
(***************************************************************************)
LEMMA TripleSteps ==
  ASSUME Acknowledged, Next, ~PowerFails, NEW p \in Procs
  PROVE  \/ triple'[p] = triple[p] /\ acked'[p] = acked[p] /\ ~ProcessEnds(p)
         \/ /\ cache' = cache /\ ValidSlots(cache) # {} /\ triple'[p] = NewMetaTriple(cache)
            /\ acked'[p] \in Nat /\ acked'[p] <= Top
         \/ triple'[p] = Closed /\ ProcessEnds(p)
<1>1. acked \in [Procs -> Nat] /\ triple \in [Procs -> [txnids : [Slots -> Nat], recent : Slots]]
  BY Parts DEF Acknowledged, Ordered, WellTyped, TypeOK
<1>2. ASSUME NEW q \in Procs, IsOpen(q) PROVE acked[q] \in Nat /\ acked[q] <= Top
  BY <1>1, <1>2 DEF Acknowledged, Seen
<1>. DEFINE Kept0 == triple'[p] = triple[p] /\ acked'[p] = acked[p]
            Again == /\ cache' = cache /\ ValidSlots(cache) # {}
                     /\ triple'[p] = NewMetaTriple(cache)
                     /\ acked'[p] \in Nat /\ acked'[p] <= Top
<1>3. ASSUME NEW q \in Procs, ProcessEnds(q)
      PROVE  IF q = p THEN triple'[p] = Closed ELSE Kept0
  BY <1>1, <1>3 DEF ProcessEnds
<1>4. CASE ProcessEnds(p)
  BY <1>3, <1>4
<1>5. ASSUME NEW q \in Procs, Open(q) PROVE Kept0 \/ Again
  <2>1. /\ ValidSlots(cache) # {} /\ triple' = [triple EXCEPT ![q] = NewMetaTriple(cache)]
        /\ acked' = [acked EXCEPT ![q] = Top] /\ cache' = cache
    BY <1>5 DEF Open, fileVars, Top
  <2>2. Top \in Nat
    BY <2>1, TopIsNewest DEF Acknowledged, Ordered
  <2>. QED  BY <1>1, <2>1, <2>2
<1>6. ASSUME NEW q \in Procs, NEW willSync \in SyncModes, BeginWrite(q, willSync)
      PROVE  Kept0 \/ Again
  <2>1. /\ ValidSlots(cache) # {} /\ triple' = [triple EXCEPT ![q] = NewMetaTriple(cache)]
        /\ acked' = acked /\ cache' = cache /\ IsOpen(q)
    BY <1>6 DEF BeginWrite, fileVars, ghostVars
  <2>. QED  BY <1>1, <1>2, <2>1
<1>7. ASSUME NEW grow \in BOOLEAN, WriteDirtyPages(grow) PROVE Kept0
  <2>1. /\ triple' = IF grow THEN [triple EXCEPT ![w.proc] = NewMetaTriple(cache)] ELSE triple
        /\ w.pc = "open" /\ acked' = acked
    BY <1>7 DEF WriteDirtyPages, ghostVars
  <2>2. w.proc \in Procs /\ triple[w.proc] = NewMetaTriple(cache)
    BY <2>1 DEF Acknowledged, Ordered, WellTyped, WriterFits
  <2>. QED  BY <1>1, <2>1, <2>2
<1>8. ASSUME Publish PROVE Kept0 \/ Again
  <2>1. /\ ValidSlots(cache) # {} /\ triple' = [triple EXCEPT ![w.proc] = NewMetaTriple(cache)]
        /\ acked' = [acked EXCEPT ![w.proc] = w.txnid] /\ cache' = cache /\ w.pc = "publish"
    BY <1>8 DEF Publish, fileVars
  <2>2. w.proc \in Procs /\ w.txnid = Top /\ Top \in Nat
    BY <2>1, TopIsNewest
       DEF Acknowledged, Ordered, WriterNumber, WellTyped, WriterFits, OpenIsValid
  <2>. QED  BY <1>1, <2>1, <2>2
<1>9. ASSUME (\E q \in Procs : ForceSync(q)) \/ (\E r \in Readers : ReaderStep(r))
             \/ AbortWrite \/ StoreMeta \/ CommitFails \/ SyncMeta
      PROVE  UNCHANGED <<triple, acked>>
  BY <1>9 DEF ForceSync, ReaderStep, BeginRead, BeginRenew, ReadTxnid, ReadTrees, Reset, AbortRead,
              AbortWrite, StoreMeta, CommitFails, SyncMeta, ghostVars
<1>10. CASE ~ProcessEnds(p)
  BY <1>3, <1>5, <1>6, <1>7, <1>8, <1>9, <1>10 DEF Next, WriterStep
<1>. QED  BY <1>3, <1>4, <1>10

(***************************************************************************)
(* What a step may do to a reader: nothing, take a step of its begin or    *)
(* end, or end with its process.                                           *)
(***************************************************************************)
LEMMA ReaderSteps ==
  ASSUME Acknowledged, Next, ~PowerFails, NEW r \in Readers
  PROVE  \/ /\ readers'[r] = readers[r]
            /\ ProcessEnds(Home[r]) => readers[r] = NoTxn
         \/ /\ UNCHANGED <<cache, triple, w, chain, ioErrors, acked>>
            /\ \/ /\ readers[r].pc \in {"idle", "reset"} /\ IsOpen(Home[r])
                  /\ \E how \in {"begin", "renew"} :
                       /\ readers'[r] = Reader("header", how, triple[Home[r]].recent, 0, 0,
                                               acked[Home[r]])
                       /\ how = "begin" <=> readers[r].pc = "idle"
               \/ /\ readers[r].pc = "header"
                  /\ readers'[r] = Reader("trees", readers[r].how, readers[r].slot,
                                          cache[readers[r].slot].txnidA, readers[r].tree,
                                          readers[r].floor)
               \/ /\ readers[r].pc = "trees"
                  /\ readers'[r] = Reader("active", readers[r].how, 0, readers[r].txnid,
                                          cache[readers[r].slot].MainTree, 0)
               \/ \E pc \in {"idle", "reset"} : readers'[r] = Reader(pc, "begin", 0, 0, 0, 0)
         \/ readers'[r] = NoTxn
<1>1. readers \in [Readers -> ReaderRecs] /\ readers[r] \in ReaderRecs /\ Home[r] \in Procs
  BY Parts, HomeAssumption DEF Acknowledged, Ordered
<1>2. ASSUME NEW p \in Procs, ProcessEnds(p)
      PROVE  readers'[r] = IF Home[r] = p THEN NoTxn ELSE readers[r]
  BY <1>2 DEF ProcessEnds
<1>3. CASE ProcessEnds(Home[r])
  BY <1>1, <1>2, <1>3
<1>4. ASSUME NEW q \in Readers, ReaderStep(q), q # r PROVE readers'[r] = readers[r]
  BY <1>1, <1>4
     DEF ReaderStep, BeginRead, BeginRenew, ReadTxnid, ReadTrees, Reset, AbortRead, Set
<1>5. CASE ReaderStep(r)
  <2>1. UNCHANGED <<cache, triple, w, chain, ioErrors, acked>>
    BY <1>5 DEF ReaderStep, BeginRead, BeginRenew, ReadTxnid, ReadTrees, Reset, AbortRead,
                fileVars, counters, ghostVars
  <2>2. CASE BeginRead(r) \/ BeginRenew(r)
    <3>1. PICK how \in {"begin", "renew"} :
            /\ how = "begin" <=> readers[r].pc = "idle"
            /\ readers' = [readers EXCEPT ![r] = Reader("header", how, triple[Home[r]].recent,
                                                        0, 0, acked[Home[r]])]
      BY <2>2, AfterBeginRead
    <3>2. readers'[r] = Reader("header", how, triple[Home[r]].recent, 0, 0, acked[Home[r]])
      BY <1>1, <3>1
    <3>3. readers[r].pc \in {"idle", "reset"} /\ IsOpen(Home[r])
      BY <2>2 DEF BeginRead, BeginRenew
    <3>. QED  BY <2>1, <3>1, <3>2, <3>3
  <2>3. CASE ReadTxnid(r)
    <3>1. readers'[r] = Reader("trees", readers[r].how, readers[r].slot,
                               cache[readers[r].slot].txnidA, readers[r].tree, readers[r].floor)
      BY <1>1, <2>3, AfterReadTxnid
    <3>. QED  BY <2>1, <2>3, <3>1 DEF ReadTxnid
  <2>4. CASE ReadTrees(r)
    <3>1. readers'[r] = Reader("active", readers[r].how, 0, readers[r].txnid,
                               cache[readers[r].slot].MainTree, 0)
      BY <1>1, <2>4, AfterReadTrees
    <3>. QED  BY <2>1, <2>4, <3>1 DEF ReadTrees
  <2>5. CASE Reset(r) \/ AbortRead(r)
    <3>1. \E pc \in {"idle", "reset"} : readers'[r] = Reader(pc, "begin", 0, 0, 0, 0)
      BY <1>1, <2>5, AfterEndRead
    <3>. QED  BY <2>1, <3>1
  <2>. QED  BY <1>5, <2>2, <2>3, <2>4, <2>5 DEF ReaderStep
<1>6. ASSUME (\E q \in Procs : ForceSync(q) \/ Open(q)) \/ WriterStep
      PROVE  readers' = readers
  BY <1>6 DEF ForceSync, Open, WriterStep, BeginWrite, AbortWrite, WriteDirtyPages, StoreMeta,
              CommitFails, SyncMeta, Publish
<1>7. CASE ~ProcessEnds(Home[r])
  BY <1>1, <1>2, <1>4, <1>5, <1>6, <1>7 DEF Next
<1>. QED  BY <1>3, <1>7

(***************************************************************************)
(* Of these, the ones after which a reader is beginning.                   *)
(***************************************************************************)
LEMMA BeginningSteps ==
  ASSUME Acknowledged, Next, ~PowerFails, NEW r \in Readers, readers'[r].pc \in {"header", "trees"}
  PROVE  \/ readers'[r] = readers[r] /\ ~ProcessEnds(Home[r])
         \/ /\ UNCHANGED <<cache, triple, w, chain, ioErrors, acked>>
            /\ IsOpen(Home[r]) /\ readers'[r].pc = "header"
            /\ readers'[r].slot = triple[Home[r]].recent
            /\ readers'[r].floor = acked[Home[r]]
         \/ /\ UNCHANGED <<cache, triple, w, chain, ioErrors, acked>>
            /\ readers[r].pc = "header" /\ readers'[r].pc = "trees"
            /\ readers'[r].how = readers[r].how /\ readers'[r].slot = readers[r].slot
            /\ readers'[r].txnid = cache[readers[r].slot].txnidA
            /\ readers'[r].floor = readers[r].floor
<1>1. \A pc, how, s, n, t, f :
        LET x == Reader(pc, how, s, n, t, f)
        IN  x.pc = pc /\ x.how = how /\ x.slot = s /\ x.txnid = n /\ x.floor = f
  BY DEF Reader
<1>2. NoTxn.pc = "idle"
  BY DEF NoTxn
<1>3. \/ /\ readers'[r] = readers[r]
         /\ ProcessEnds(Home[r]) => readers[r] = NoTxn
      \/ /\ UNCHANGED <<cache, triple, w, chain, ioErrors, acked>>
         /\ \/ /\ readers[r].pc \in {"idle", "reset"} /\ IsOpen(Home[r])
               /\ \E how \in {"begin", "renew"} :
                    readers'[r] = Reader("header", how, triple[Home[r]].recent, 0, 0,
                                         acked[Home[r]])
            \/ /\ readers[r].pc = "header"
               /\ readers'[r] = Reader("trees", readers[r].how, readers[r].slot,
                                       cache[readers[r].slot].txnidA, readers[r].tree,
                                       readers[r].floor)
      \/ readers'[r].pc \notin {"header", "trees"}
  BY <1>1, <1>2, ReaderSteps
<1>. QED  BY <1>1, <1>2, <1>3

(***************************************************************************)
(* Every step keeps it.                                                    *)
(***************************************************************************)
LEMMA StepAcknowledged == Acknowledged /\ [Next]_vars => Acknowledged'
<1>. SUFFICES ASSUME Acknowledged, [Next]_vars PROVE Acknowledged'
  OBVIOUS
<1>1. Ordered /\ Ordered'
  BY StepOrdered DEF Acknowledged
<1>2. /\ acked \in [Procs -> Nat] /\ readers \in [Readers -> ReaderRecs]
      /\ \A p \in Procs : triple[p].recent \in Slots
      /\ \A r \in Readers : readers[r].slot \in Slots /\ readers[r].floor \in Nat
                            /\ readers[r].txnid \in Nat
  BY <1>1, Parts DEF Ordered, WellTyped, TypeOK, ReaderRecs
<1>3. CASE PowerFails
  BY <1>1, <1>3 DEF PowerFails, Acknowledged, HeadersAreOpen, Seen, IsOpen, NoTxn
<1>4. CASE Next /\ ~PowerFails
  <2>1. ASSUME NEW p \in Procs, IsOpen(p)
        PROVE  /\ Top <= Top' /\ Top' \in Nat
               /\ \A s \in Slots, n \in Nat : NoOlder(n, s) => NoOlder(n, s)'
    BY <1>1, <1>4, <2>1, SlotsDoNotGoBack
  <2>2. ASSUME NEW p \in Procs, IsOpen(p)'
        PROVE  NoOlder(acked[p], triple[p].recent)' /\ acked'[p] <= Top'
    <3>1. CASE triple'[p] = triple[p] /\ acked'[p] = acked[p]
      <4>1. IsOpen(p)
        BY <2>2, <3>1 DEF IsOpen
      <4>2. NoOlder(acked[p], triple[p].recent) /\ acked[p] <= Top /\ acked[p] \in Nat
        BY <1>2, <4>1 DEF Acknowledged, Seen
      <4>3. Top \in Nat /\ Top <= Top' /\ Top' \in Nat
        BY <1>1, <2>1, <4>1, OpenHasTop
      <4>4. cache'[triple[p].recent].txnidA >= acked[p]
            /\ cache'[triple[p].recent].txnidA <= Top' + 1
        BY <1>2, <2>1, <4>1, <4>2 DEF NoOlder
      <4>. QED  BY <3>1, <4>2, <4>3, <4>4 DEF NoOlder
    <3>2. CASE /\ cache' = cache /\ ValidSlots(cache) # {}
               /\ triple'[p] = NewMetaTriple(cache)
               /\ acked'[p] \in Nat /\ acked'[p] <= Top
      <4>1. NoOlder(acked'[p], NewMetaTriple(cache).recent) /\ Top' = Top
        BY <1>1, <3>2, ReadingSees DEF Top
      <4>. QED  BY <3>2, <4>1 DEF NoOlder
    <3>3. triple'[p] # Closed
      BY <2>2 DEF IsOpen
    <3>. QED  BY <1>4, <3>1, <3>2, <3>3, TripleSteps
  <2>3. ASSUME NEW r \in Readers, readers'[r].pc = "header"
        PROVE  IsOpen(Home[r])' /\ NoOlder(readers[r].floor, readers[r].slot)'
    <3>1. Home[r] \in Procs
      BY HomeAssumption
    <3>2. CASE readers'[r] = readers[r] /\ ~ProcessEnds(Home[r])
      <4>1. IsOpen(Home[r]) /\ NoOlder(readers[r].floor, readers[r].slot)
        BY <2>3, <3>2 DEF Acknowledged, HeadersAreOpen, Seen
      <4>2. NoOlder(readers[r].floor, readers[r].slot)'
        <5>1. cache'[readers[r].slot].txnidA >= readers[r].floor
              /\ cache'[readers[r].slot].txnidA <= Top' + 1
          BY <1>2, <2>1, <3>1, <4>1 DEF NoOlder
        <5>. QED  BY <3>2, <5>1 DEF NoOlder
      <4>3. NewMetaTriple(cache) # Closed
        BY <1>1, <3>1, <4>1, OpenHasTop, Parts, ReadingOpens DEF Ordered
      <4>4. triple'[Home[r]] # Closed
        BY <1>4, <3>1, <3>2, <4>1, <4>3, TripleSteps DEF IsOpen
      <4>. QED  BY <4>2, <4>4 DEF IsOpen
    <3>3. CASE /\ UNCHANGED <<cache, triple, acked>> /\ IsOpen(Home[r])
               /\ readers'[r].slot = triple[Home[r]].recent
               /\ readers'[r].floor = acked[Home[r]]
      <4>1. NoOlder(acked[Home[r]], triple[Home[r]].recent) /\ Top' = Top
        BY <3>1, <3>3 DEF Acknowledged, Seen, Top
      <4>. QED  BY <3>3, <4>1 DEF NoOlder, IsOpen
    <3>. QED  BY <1>4, <2>3, <3>2, <3>3, BeginningSteps
  <2>4. ASSUME NEW r \in Readers, readers'[r].pc = "trees"
        PROVE  readers'[r].txnid >= readers'[r].floor
    <3>1. CASE readers'[r] = readers[r]
      BY <2>4, <3>1 DEF Acknowledged, Seen
    <3>2. CASE /\ readers[r].pc = "header" /\ readers'[r].floor = readers[r].floor
               /\ readers'[r].txnid = cache[readers[r].slot].txnidA
      BY <3>2 DEF Acknowledged, Seen, NoOlder
    <3>. QED  BY <1>4, <2>4, <3>1, <3>2, BeginningSteps
  <2>. QED
    BY <1>1, <2>2, <2>3, <2>4 DEF Acknowledged, HeadersAreOpen, Seen
<1>5. CASE UNCHANGED vars
  <2>1. UNCHANGED <<cache, triple, readers, acked>> /\ Top' = Top
    BY <1>5 DEF vars, fileVars, ghostVars, Top
  <2>. QED  BY <1>1, <2>1 DEF Acknowledged, HeadersAreOpen, Seen, NoOlder, IsOpen
<1>. QED  BY <1>3, <1>4, <1>5

(***************************************************************************)
(* A reader begun after Commit returned in its process takes that commit's *)
(* txnid or a later one, with any number of processes, failed commits and  *)
(* commits not flushed.                                                    *)
(***************************************************************************)
THEOREM AcknowledgedIsSeen == ByWriteAt => (Spec => []ReaderSeesAcknowledged)
<1>. SUFFICES ASSUME ByWriteAt PROVE Spec => []ReaderSeesAcknowledged
  OBVIOUS
<1>1. Init => Acknowledged
  <2>. SUFFICES ASSUME Init PROVE Acknowledged
    OBVIOUS
  <2>. QED
    BY InitOrdered DEF Init, Acknowledged, HeadersAreOpen, Seen, IsOpen, NoTxn
<1>2. Acknowledged => ReaderSeesAcknowledged
  BY DEF Acknowledged, Seen, ReaderSeesAcknowledged
<1>. QED  BY <1>1, <1>2, StepAcknowledged, PTL DEF Spec

------------------------------------------------------------------------------
(* The log of versions *)

\* No write transaction begins with more than one commit unflushed.
Durable == ByWriteAt /\ MaxUnsynced <= 1

\* A page whose version is in the log: versions are numbered from InitialTxnID.
Logged(m) == m.txnidA \in 3..Len(chain) + 2 /\ VersionAt(m) = chain[m.txnidA - 2]

Numbered ==
  /\ synced \in 1..Len(chain)
  /\ \A i \in 1..Len(chain) : chain[i].txnid = i + 2
  /\ ValidSlots(cache) # {} /\ Recovered(cache) = chain[Len(chain)]

\* An image as new as the flushed version is of a committed one.
KeptAreLogged ==
  \A s \in Slots : \A m \in Kept(s) :
    isConsistent(m) /\ m.txnidA >= synced + 2 => Logged(m)

\* The page of the last flushed version has not been touched since, and is not
\* the writer's target.
Anchor(a) ==
  /\ unsynced[a] = {} /\ isConsistent(disk[a]) /\ VersionAt(disk[a]) = chain[synced]
  /\ w.pc = "meta" => w.slot # a

FewUnsynced == w.pc = "open" => Len(chain) - synced <= 1

LogFits == Numbered /\ KeptAreLogged /\ (\E a \in Slots : Anchor(a)) /\ FewUnsynced

DurablyLogged == Ordered /\ LogFits

(***************************************************************************)
(* Sequences with the same length and entries are the same.                *)
(***************************************************************************)
LEMMA SameSequence ==
  ASSUME NEW S, NEW s \in Seq(S), NEW t \in Seq(S), Len(s) = Len(t),
         \A i \in 1..Len(s) : s[i] = t[i]
  PROVE  s = t
OBVIOUS

(***************************************************************************)
(* A log that ends at its k-th version is its prefix of that length.       *)
(***************************************************************************)
LEMMA EndsAtPrefix ==
  ASSUME chain \in Seq(Version), \A i \in 1..Len(chain) : chain[i].txnid = i + 2,
         NEW k \in 1..Len(chain), ChainEndsAt(chain[k])
  PROVE  /\ chain' = SubSeq(chain, 1, k) /\ chain' \in Seq(Version) /\ Len(chain') = k
         /\ \A i \in 1..k : chain'[i] = chain[i]
<1>1. PICK j \in 0..Len(chain) :
        /\ \A i \in 1..j : chain[i].txnid < chain[k].txnid
        /\ j < Len(chain) => chain[j + 1].txnid >= chain[k].txnid
        /\ chain' = Append(SubSeq(chain, 1, j), chain[k])
  BY DEF ChainEndsAt
<1>2. Len(chain) \in Nat /\ k \in Nat /\ chain[k] \in Version
  OBVIOUS
<1>3. j + 1 = k
  <2>1. j < k
    <3>1. SUFFICES ASSUME j >= k PROVE FALSE
      BY <1>2
    <3>2. k \in 1..j
      BY <1>2, <3>1
    <3>3. chain[k].txnid < chain[k].txnid /\ chain[k].txnid = k + 2
      BY <1>1, <3>2
    <3>. QED  BY <1>2, <3>3
  <2>2. j + 1 \in 1..Len(chain) /\ j < Len(chain)
    BY <1>2, <2>1
  <2>3. chain[j + 1].txnid = j + 3 /\ chain[k].txnid = k + 2
    BY <2>2
  <2>. QED  BY <1>1, <1>2, <2>1, <2>2, <2>3
<1>. DEFINE p == SubSeq(chain, 1, j)
<1>4. p \in Seq(Version) /\ Len(p) = j /\ \A i \in 1..j : p[i] = chain[i]
  BY Prefix
<1>. HIDE DEF p
<1>5. chain' = Append(p, chain[k])
  BY <1>1 DEF p
<1>6. chain' \in Seq(Version) /\ Len(chain') = k /\ \A i \in 1..k : chain'[i] = chain[i]
  BY <1>2, <1>3, <1>4, <1>5
<1>. DEFINE q == SubSeq(chain, 1, k)
<1>7. q \in Seq(Version) /\ Len(q) = k /\ \A i \in 1..k : q[i] = chain[i]
  <2>1. k \in 0..Len(chain)
    BY <1>2
  <2>. QED  BY <2>1, Prefix
<1>. HIDE DEF q
<1>8. chain' = q
  BY <1>6, <1>7, SameSequence
<1>. QED  BY <1>6, <1>8 DEF q

(***************************************************************************)
(* What a power failure leaves of the meta pages opens at a version of the *)
(* log no older than the last one flushed.                                 *)
(***************************************************************************)
LEMMA FlushedSurvives ==
  ASSUME DurablyLogged, NEW img \in Survivors
  PROVE  /\ ValidSlots(img) # {}
         /\ \E k \in synced..Len(chain) :
              Recovered(img) = chain[k] /\ img[RecentSlot(img)].txnidA = k + 2
<1>1. img \in [Slots -> Meta] /\ \A s \in Slots : img[s] \in Kept(s)
  BY SurvivorsAreKept DEF DurablyLogged, Ordered
<1>2. PICK a \in Slots : Anchor(a)
  BY DEF DurablyLogged, LogFits
<1>3. img[a] = disk[a] /\ isConsistent(img[a]) /\ img[a].txnidA = synced + 2
  BY <1>1, <1>2 DEF Anchor, Kept, VersionAt, DurablyLogged, LogFits, Numbered
<1>. DEFINE r == RecentSlot(img)
<1>4. /\ ValidSlots(img) # {} /\ r \in Slots /\ isConsistent(img[r])
      /\ img[r].txnidA >= synced + 2 /\ Recovered(img) = VersionAt(img[r])
  BY <1>1, <1>3, RecentIsNewest DEF ValidSlots, Recovered
<1>5. img[r].txnidA \in 3..Len(chain) + 2 /\ VersionAt(img[r]) = chain[img[r].txnidA - 2]
  BY <1>1, <1>4 DEF DurablyLogged, LogFits, KeptAreLogged, Logged
<1>. DEFINE k == img[r].txnidA - 2
<1>6. k \in synced..Len(chain) /\ img[r].txnidA = k + 2
  BY <1>4, <1>5, Parts DEF DurablyLogged, LogFits, Numbered
<1>. QED  BY <1>4, <1>5, <1>6

(***************************************************************************)
(* A fresh file: its newest page is the anchor.                            *)
(***************************************************************************)
LEMMA InitLogged == Init /\ ByWriteAt => DurablyLogged
<1>. SUFFICES ASSUME Init, ByWriteAt PROVE DurablyLogged
  OBVIOUS
<1>1. Ordered
  BY InitOrdered
<1>2. /\ \A s \in Slots : Kept(s) = {cache[s]} /\ unsynced[s] = {} /\ disk[s] = cache[s]
      /\ \A s \in Slots : /\ cache[s].txnidA = s + 1 /\ cache[s].txnidB = s + 1
                          /\ cache[s].MainTree = 0
      /\ w.pc = "idle" /\ chain = <<Genesis>> /\ synced = 1
  BY DEF Init, Kept, InitialTxnID, Slots, Idle
<1>3. Slots = {0, 1, 2} /\ ValidSlots(cache) = Slots
  BY <1>2 DEF Slots, ValidSlots, isConsistent
<1>4. RecentSlot(cache) = 2
  <2>1. RecentSlot(cache) \in Slots /\ \A t \in Slots : cache[t].txnidA <= cache[RecentSlot(cache)].txnidA
    BY <1>1, <1>3, Parts, RecentIsNewest DEF Ordered
  <2>. QED  BY <1>2, <1>3, <2>1
<1>5. Recovered(cache) = Genesis /\ VersionAt(cache[2]) = Genesis /\ Genesis.txnid = 3
  BY <1>2, <1>3, <1>4 DEF Recovered, VersionAt, Genesis, InitialTxnID
<1>6. Numbered
  BY <1>2, <1>3, <1>5 DEF Numbered
<1>7. KeptAreLogged
  <2>1. ASSUME NEW s \in Slots, cache[s].txnidA >= 3 PROVE Logged(cache[s])
    <3>1. s = 2 /\ cache[s].txnidA = 3
      BY <1>2, <1>3, <2>1
    <3>. QED  BY <1>2, <1>5, <3>1 DEF Logged
  <2>. QED  BY <1>2, <2>1 DEF KeptAreLogged
<1>8. Anchor(2)
  BY <1>2, <1>3, <1>5 DEF Anchor, isConsistent
<1>9. FewUnsynced
  BY <1>2 DEF FewUnsynced
<1>. QED  BY <1>1, <1>3, <1>6, <1>7, <1>8, <1>9 DEF DurablyLogged, LogFits
(***************************************************************************)
(* A process that ends, in the middle of a commit or not, leaves the log   *)
(* as it is: what the file shows is its last version.                      *)
(***************************************************************************)
LEMMA ChainIsKept ==
  ASSUME DurablyLogged, Next, ~StoreMeta, ~PowerFails
  PROVE  chain' = chain
<1>1. chain \in Seq(Version) /\ Numbered
  BY Parts DEF DurablyLogged, Ordered, LogFits
<1>2. Len(chain) \in 1..Len(chain)
  BY <1>1 DEF Numbered
<1>3. ASSUME NEW p \in Procs, ProcessEnds(p) PROVE chain' = chain
  <2>1. CASE chain' = chain
    BY <2>1
  <2>2. CASE ChainEndsAt(Recovered(cache))
    <3>1. ChainEndsAt(chain[Len(chain)])
      BY <1>1, <2>2 DEF Numbered
    <3>2. /\ chain' \in Seq(Version) /\ Len(chain') = Len(chain)
          /\ \A i \in 1..Len(chain) : chain'[i] = chain[i]
      BY <1>1, <1>2, <3>1, EndsAtPrefix DEF Numbered
    <3>. QED  BY <1>1, <3>2, SameSequence
  <2>. QED  BY <1>3, <2>1, <2>2 DEF ProcessEnds
<1>4. ASSUME NEW p \in Procs, Open(p) \/ ForceSync(p) PROVE chain' = chain
  BY <1>4 DEF Open, ForceSync
<1>5. ASSUME WriterStep PROVE chain' = chain
  BY <1>5 DEF WriterStep, BeginWrite, AbortWrite, WriteDirtyPages, CommitFails, SyncMeta, Publish,
              ghostVars
<1>6. ASSUME NEW r \in Readers, ReaderStep(r) PROVE chain' = chain
  BY <1>6 DEF ReaderStep, BeginRead, BeginRenew, ReadTxnid, ReadTrees, Reset, AbortRead, ghostVars
<1>. QED  BY <1>3, <1>4, <1>5, <1>6 DEF Next

(***************************************************************************)
(* The steps that bring a writer to its pages or to its meta page.         *)
(***************************************************************************)
LEMMA WriterKept ==
  ASSUME WellTyped, Next, ~StoreMeta
  PROVE  \/ w' = w
         \/ w'.pc \notin {"open", "meta"}
         \/ \E p \in Procs, willSync \in SyncModes : BeginWrite(p, willSync)
         \/ \E grow \in BOOLEAN : WriteDirtyPages(grow)
<1>1. Idle.pc = "idle"
  BY DEF Idle
<1>2. SyncMeta => w'.pc = "publish"
  BY Parts, AfterSyncMeta DEF Writer
<1>3. ASSUME NEW p \in Procs, Open(p) \/ ForceSync(p) \/ ProcessEnds(p)
      PROVE  w' = w \/ w' = Idle
  BY <1>3 DEF Open, ForceSync, ProcessEnds
<1>4. ASSUME NEW r \in Readers, ReaderStep(r) PROVE w' = w
  BY <1>4 DEF ReaderStep, BeginRead, BeginRenew, ReadTxnid, ReadTrees, Reset, AbortRead
<1>5. AbortWrite \/ CommitFails \/ Publish \/ PowerFails => w' = Idle
  BY DEF AbortWrite, CommitFails, Publish, PowerFails
<1>. QED  BY <1>1, <1>2, <1>3, <1>4, <1>5 DEF Next, WriterStep

(***************************************************************************)
(* updateMeta spares the page of the last flushed version, which is the    *)
(* newest or the one before it.                                            *)
(***************************************************************************)
LEMMA AnchorIsSpared ==
  ASSUME DurablyLogged, NEW grow \in BOOLEAN, WriteDirtyPages(grow), NEW a \in Slots, Anchor(a)
  PROVE  w'.slot # a
<1>1. w'.slot = nextMetaIndex(triple'[w.proc])
  BY Parts, AfterWriteDirtyPages DEF DurablyLogged, Ordered, Writer
<1>2. /\ w.pc = "open" /\ w.proc \in Procs
      /\ triple[w.proc] = NewMetaTriple(cache) /\ ValidSlots(cache) # {}
  BY DEF WriteDirtyPages, DurablyLogged, Ordered, WellTyped, WriterFits, OpenIsValid
<1>3. triple'[w.proc] = NewMetaTriple(cache)
  BY <1>2, Parts DEF WriteDirtyPages, DurablyLogged, Ordered
<1>4. /\ synced \in 1..Len(chain) /\ Len(chain) - synced <= 1
      /\ Recovered(cache) = chain[Len(chain)]
      /\ \A i \in 1..Len(chain) : chain[i].txnid = i + 2
  BY <1>2 DEF DurablyLogged, LogFits, Numbered, FewUnsynced
<1>5. cache[a] = disk[a] /\ isConsistent(disk[a]) /\ VersionAt(disk[a]) = chain[synced]
  BY DEF Anchor, DurablyLogged, Ordered, WellTyped, Positive, Kept
<1>6. cache[a].txnidA = synced + 2
  BY <1>4, <1>5 DEF VersionAt
<1>7. Top = Len(chain) + 2
  BY <1>4 DEF Top
<1>8. a \in ValidSlots(cache) /\ cache[a].txnidA + 1 >= Top
  BY <1>4, <1>5, <1>6, <1>7 DEF ValidSlots
<1>. QED  BY <1>1, <1>2, <1>3, <1>8, NextSparesNewest DEF DurablyLogged

(***************************************************************************)
(* Every step but a store and a power failure keeps the log and its pages. *)
(***************************************************************************)
LEMMA QuietLogged ==
  ASSUME Durable, DurablyLogged, Next, ~StoreMeta, ~PowerFails
  PROVE  DurablyLogged'
<1>1. Ordered'
  BY StepOrdered DEF DurablyLogged
<1>2. chain' = chain
  BY ChainIsKept
<1>3. cache' = cache /\ (UNCHANGED <<disk, unsynced, synced>> \/
                         (/\ disk' = cache /\ unsynced' = [s \in Slots |-> {}]
                          /\ synced' = Len(chain)))
  BY PagesAreKept
<1>4. /\ synced \in 1..Len(chain) /\ ValidSlots(cache) # {} /\ Len(chain) \in Nat
      /\ Recovered(cache) = chain[Len(chain)]
      /\ \A i \in 1..Len(chain) : chain[i].txnid = i + 2
  BY Parts DEF DurablyLogged, Ordered, LogFits, Numbered
<1>5. Numbered'
  <2>1. synced' \in 1..Len(chain)
    BY <1>3, <1>4
  <2>. QED  BY <1>2, <1>3, <1>4, <2>1 DEF Numbered
<1>6. KeptAreLogged'
  <2>1. CASE UNCHANGED <<disk, unsynced, synced>>
    BY <1>2, <2>1 DEF DurablyLogged, LogFits, KeptAreLogged, Kept, Logged
  <2>2. CASE disk' = cache /\ unsynced' = [s \in Slots |-> {}] /\ synced' = Len(chain)
    <3>1. \A s \in Slots : Kept(s)' = {cache[s]} /\ cache[s] \in Kept(s) /\ cache[s].txnidA \in Nat
      BY <2>2, Parts DEF Kept, DurablyLogged, Ordered, WellTyped, Positive, Meta
    <3>2. ASSUME NEW s \in Slots, isConsistent(cache[s]), cache[s].txnidA >= Len(chain) + 2
          PROVE  Logged(cache[s])
      <4>1. cache[s].txnidA >= synced + 2
        BY <1>4, <3>1, <3>2
      <4>. QED  BY <3>1, <3>2, <4>1 DEF DurablyLogged, LogFits, KeptAreLogged
    <3>3. \A m : Logged(m)' <=> Logged(m)
      BY <1>2 DEF Logged
    <3>. QED  BY <2>2, <3>1, <3>2, <3>3 DEF KeptAreLogged
  <2>. QED  BY <1>3, <2>1, <2>2
<1>7. \E a \in Slots : Anchor(a)'
  <2>1. CASE UNCHANGED <<disk, unsynced, synced>>
    <3>1. PICK a \in Slots : Anchor(a)
      BY DEF DurablyLogged, LogFits
    <3>2. w'.pc = "meta" => w'.slot # a
      <4>1. CASE w' = w
        BY <3>1, <4>1 DEF Anchor
      <4>2. CASE w'.pc \notin {"open", "meta"}
        BY <4>2
      <4>3. ASSUME NEW p \in Procs, NEW willSync \in SyncModes, BeginWrite(p, willSync)
            PROVE  w'.pc = "open"
        BY <4>3, AfterBeginWrite DEF Writer
      <4>4. ASSUME NEW grow \in BOOLEAN, WriteDirtyPages(grow) PROVE w'.slot # a
        BY <3>1, <4>4, AnchorIsSpared
      <4>. QED  BY <4>1, <4>2, <4>3, <4>4, WriterKept DEF DurablyLogged, Ordered
    <3>. QED  BY <1>2, <2>1, <3>1, <3>2 DEF Anchor
  <2>2. CASE disk' = cache /\ unsynced' = [s \in Slots |-> {}] /\ synced' = Len(chain)
    <3>. DEFINE a == RecentSlot(cache)
    <3>1. a \in Slots /\ isConsistent(cache[a]) /\ VersionAt(cache[a]) = chain[Len(chain)]
      BY <1>4, TopIsNewest DEF DurablyLogged, Ordered
    <3>2. w'.pc = "meta" => w'.slot # a
      BY <1>1, <1>3 DEF Ordered, WriterNumber
    <3>. QED  BY <1>2, <2>2, <3>1, <3>2 DEF Anchor
  <2>. QED  BY <1>3, <2>1, <2>2
<1>8. FewUnsynced'
  <2>1. synced' >= synced /\ synced' \in Nat
    BY <1>3, <1>4
  <2>2. CASE w' = w
    BY <1>2, <1>4, <2>1, <2>2 DEF DurablyLogged, LogFits, FewUnsynced
  <2>3. CASE w'.pc \notin {"open", "meta"}
    BY <2>3 DEF FewUnsynced
  <2>4. ASSUME NEW p \in Procs, NEW willSync \in SyncModes, BeginWrite(p, willSync)
        PROVE  Len(chain) - synced' <= 1
    <3>1. Len(chain) - synced <= MaxUnsynced /\ MaxUnsynced <= 1 /\ MaxUnsynced \in Nat
      BY <2>4, BoundsAssumption DEF BeginWrite, Durable
    <3>. QED  BY <1>4, <2>1, <3>1
  <2>5. ASSUME NEW grow \in BOOLEAN, WriteDirtyPages(grow) PROVE w'.pc = "meta"
    BY <2>5, Parts, AfterWriteDirtyPages DEF DurablyLogged, Ordered, Writer
  <2>. QED
    BY <1>2, <2>2, <2>3, <2>4, <2>5, WriterKept DEF DurablyLogged, Ordered, FewUnsynced
<1>. QED  BY <1>1, <1>5, <1>6, <1>7, <1>8 DEF DurablyLogged, LogFits
(***************************************************************************)
(* A store leaves the page of the flushed version alone, and the last one  *)
(* of a commit adds its version to the log.                                *)
(***************************************************************************)
LEMMA StoreLogged ==
  ASSUME DurablyLogged, StoreMeta
  PROVE  /\ DurablyLogged'
         /\ \/ chain' = chain /\ Recovered(cache') = Recovered(cache)
            \/ \E v \in Version : chain' = Append(chain, v) /\ Recovered(cache') = v
<1>1. Ordered'
  BY StoreOrdered DEF DurablyLogged
<1>2. /\ synced \in 1..Len(chain) /\ ValidSlots(cache) # {} /\ Len(chain) \in Nat
      /\ Recovered(cache) = chain[Len(chain)] /\ chain \in Seq(Version)
      /\ \A i \in 1..Len(chain) : chain[i].txnid = i + 2
  BY Parts DEF DurablyLogged, Ordered, LogFits, Numbered
<1>3. PICK a \in Slots : Anchor(a)
  BY DEF DurablyLogged, LogFits
<1>4. /\ synced' = synced /\ disk' = disk /\ w.pc = "meta" /\ w.slot # a
      /\ unsynced'[a] = unsynced[a]
  <2>1. synced' = synced /\ disk' = disk /\ w.pc = "meta"
        /\ unsynced' = [unsynced EXCEPT ![w.slot] = @ \cup {Images[w.step]}]
    BY Parts, AfterStoreMeta DEF StoreMeta, DurablyLogged, Ordered
  <2>2. w.slot # a
    BY <1>3, <2>1 DEF Anchor
  <2>. QED  BY <2>1, <2>2, Parts DEF DurablyLogged, Ordered
<1>5. CASE w.step = 1
  <2>. DEFINE img == Page(w.txnid, 0, w.tree, w.tree)
  <2>1. /\ ~isConsistent(img) /\ chain' = chain
        /\ \A s \in Slots : Kept(s)' = IF s = w.slot THEN Kept(s) \cup {img} ELSE Kept(s)
        /\ w' = Writer(w.proc, "meta", w.txnid, w.tree, w.slot, 2, w.willSync)
        /\ ValidSlots(cache') # {} /\ Recovered(cache') = Recovered(cache)
    BY <1>5, HalfStored DEF DurablyLogged
  <2>. HIDE DEF img
  <2>2. \A s \in Slots : \A m \in Kept(s)' : m \in Kept(s) \/ m = img
    BY <2>1
  <2>3. Numbered'
    BY <1>2, <1>4, <2>1 DEF Numbered
  <2>4. KeptAreLogged'
    BY <1>4, <2>1, <2>2 DEF DurablyLogged, LogFits, KeptAreLogged, Logged
  <2>5. Anchor(a)'
    <3>1. w'.slot = w.slot
      BY <2>1 DEF Writer
    <3>. QED  BY <1>3, <1>4, <2>1, <3>1 DEF Anchor
  <2>6. FewUnsynced'
    BY <2>1 DEF FewUnsynced, Writer
  <2>. QED  BY <1>1, <1>3, <2>1, <2>3, <2>4, <2>5, <2>6 DEF DurablyLogged, LogFits
<1>6. CASE w.step = 2
  <2>0. PICK img : img = Page(w.txnid, w.txnid, w.tree, w.tree)
    OBVIOUS
  <2>. DEFINE v == VersionAt(img)
  <2>1. /\ img \in Meta /\ img.txnidA = Top + 1 /\ chain' = Append(chain, v)
        /\ \A s \in Slots : Kept(s)' = IF s = w.slot THEN Kept(s) \cup {img} ELSE Kept(s)
        /\ w' = Writer(w.proc, "sync", w.txnid, w.tree, 0, 0, w.willSync)
        /\ ValidSlots(cache') # {} /\ Recovered(cache') = v
    BY <1>6, <2>0, FullStored DEF DurablyLogged
  <2>2. \A s \in Slots : \A m \in Kept(s)' : m \in Kept(s) \/ m = img
    BY <2>1
  <2>3. Top = Len(chain) + 2
    BY <1>2 DEF Top
  <2>4. v \in Version /\ v.txnid = Len(chain) + 3 /\ img.txnidA = Len(chain) + 3
    BY <1>2, <2>1, <2>3 DEF VersionAt, Version, Meta
  <2>5. /\ Len(chain') = Len(chain) + 1 /\ chain'[Len(chain) + 1] = v
        /\ \A i \in 1..Len(chain) : chain'[i] = chain[i]
    <3>. HIDE DEF v
    <3>. QED  BY <1>2, <2>1, <2>4
  <2>6. Numbered'
    <3>1. \A i \in 1..Len(chain) + 1 : chain'[i].txnid = i + 2
      BY <1>2, <2>4, <2>5
    <3>2. synced \in 1..Len(chain) + 1
      BY <1>2
    <3>. QED  BY <1>4, <2>1, <2>5, <3>1, <3>2 DEF Numbered
  <2>7. KeptAreLogged'
    <3>1. ASSUME NEW m, Logged(m) PROVE Logged(m)'
      <4>1. m.txnidA \in 3..Len(chain) + 2 /\ VersionAt(m) = chain[m.txnidA - 2]
        BY <3>1 DEF Logged
      <4>2. m.txnidA - 2 \in 1..Len(chain) /\ m.txnidA \in 3..Len(chain) + 3
        BY <1>2, <4>1
      <4>. QED  BY <1>2, <2>5, <4>1, <4>2 DEF Logged
    <3>2. Logged(img)'
      BY <1>2, <2>4, <2>5 DEF Logged
    <3>3. \A s \in Slots : \A m \in Kept(s)' :
            isConsistent(m) /\ m.txnidA >= synced + 2 => Logged(m)'
      BY <2>2, <3>1, <3>2 DEF DurablyLogged, LogFits, KeptAreLogged
    <3>. QED  BY <1>4, <3>3 DEF KeptAreLogged
  <2>8. Anchor(a)' /\ FewUnsynced'
    BY <1>2, <1>3, <1>4, <2>1, <2>5 DEF Anchor, FewUnsynced, Writer
  <2>. QED  BY <1>1, <1>3, <2>1, <2>4, <2>6, <2>7, <2>8 DEF DurablyLogged, LogFits
<1>. QED  BY <1>5, <1>6, StoreIsHalfOrFull DEF DurablyLogged

(***************************************************************************)
(* A power failure cuts the log back to a version no older than the last   *)
(* flushed one; that one's page is as it was.                              *)
(***************************************************************************)
LEMMA PowerFailsLogged ==
  ASSUME DurablyLogged, PowerFails
  PROVE  /\ DurablyLogged'
         /\ \E k \in synced..Len(chain) :
              chain' = SubSeq(chain, 1, k) /\ Recovered(cache') = chain[k]
<1>1. Ordered'
  BY PowerFailsOrdered DEF DurablyLogged
<1>2. PICK img \in Survivors :
        /\ cache' = img /\ disk' = img
        /\ IF ValidSlots(img) = {} THEN chain' = <<>> ELSE ChainEndsAt(Recovered(img))
  BY DEF PowerFails
<1>3. /\ synced' = synced /\ w' = Idle /\ unsynced' = [s \in Slots |-> {}]
  BY DEF PowerFails
<1>4. /\ synced \in 1..Len(chain) /\ Len(chain) \in Nat /\ chain \in Seq(Version)
      /\ \A i \in 1..Len(chain) : chain[i].txnid = i + 2
  BY Parts DEF DurablyLogged, Ordered, LogFits, Numbered
<1>5. PICK k \in synced..Len(chain) :
        Recovered(img) = chain[k] /\ img[RecentSlot(img)].txnidA = k + 2
  BY FlushedSurvives
<1>6. ValidSlots(img) # {}
  BY FlushedSurvives
<1>7. k \in 1..Len(chain) /\ ChainEndsAt(chain[k])
  BY <1>2, <1>4, <1>5, <1>6
<1>8. /\ chain' = SubSeq(chain, 1, k) /\ Len(chain') = k
      /\ \A i \in 1..k : chain'[i] = chain[i]
  BY <1>4, <1>7, EndsAtPrefix
<1>9. Numbered'
  <2>1. synced \in 1..k /\ k \in 1..k
    BY <1>4, <1>5
  <2>2. \A i \in 1..k : chain'[i].txnid = i + 2
    BY <1>4, <1>7, <1>8
  <2>. QED  BY <1>2, <1>3, <1>5, <1>6, <1>8, <2>1, <2>2 DEF Numbered
<1>10. img \in [Slots -> Meta] /\ \A s \in Slots : img[s] \in Kept(s) /\ Kept(s)' = {img[s]}
  BY <1>2, <1>3, SurvivorsAreKept DEF DurablyLogged, Ordered, Kept
<1>11. KeptAreLogged'
  <2>1. ASSUME NEW s \in Slots, isConsistent(img[s]), img[s].txnidA >= synced + 2
        PROVE  Logged(img[s])'
    <3>1. img[s].txnidA <= k + 2
      BY <1>5, <1>6, <1>10, <2>1, RecentIsNewest DEF ValidSlots
    <3>2. img[s].txnidA \in 3..Len(chain) + 2 /\ VersionAt(img[s]) = chain[img[s].txnidA - 2]
      BY <1>10, <2>1 DEF DurablyLogged, LogFits, KeptAreLogged, Logged
    <3>3. img[s].txnidA - 2 \in 1..k /\ img[s].txnidA \in 3..k + 2
      BY <1>7, <3>1, <3>2
    <3>. QED  BY <1>8, <3>2, <3>3 DEF Logged
  <2>. QED  BY <1>3, <1>10, <2>1 DEF KeptAreLogged
<1>12. PICK a \in Slots : Anchor(a)
  BY DEF DurablyLogged, LogFits
<1>13. Anchor(a)'
  <2>1. img[a] = disk[a]
    BY <1>10, <1>12 DEF Anchor, Kept
  <2>2. synced \in 1..k
    BY <1>4, <1>5
  <2>. QED  BY <1>2, <1>3, <1>8, <1>12, <2>1, <2>2 DEF Anchor, Idle
<1>14. FewUnsynced'
  BY <1>3 DEF FewUnsynced, Idle
<1>. QED  BY <1>1, <1>2, <1>5, <1>8, <1>9, <1>11, <1>12, <1>13, <1>14 DEF DurablyLogged, LogFits

(***************************************************************************)
(* A step that changes nothing keeps it, and so does every other.          *)
(***************************************************************************)
LEMMA StepLogged == Durable /\ DurablyLogged /\ [Next]_vars => DurablyLogged'
<1>. SUFFICES ASSUME Durable, DurablyLogged, [Next]_vars PROVE DurablyLogged'
  OBVIOUS
<1>1. CASE UNCHANGED vars
  <2>1. UNCHANGED <<cache, disk, unsynced, w, chain, synced>>
    BY <1>1 DEF vars, fileVars, ghostVars
  <2>2. Ordered'
    BY StepOrdered DEF DurablyLogged
  <2>3. Numbered' /\ FewUnsynced'
    BY <2>1 DEF DurablyLogged, LogFits, Numbered, FewUnsynced
  <2>4. KeptAreLogged' /\ \E a \in Slots : Anchor(a)'
    BY <2>1 DEF DurablyLogged, LogFits, KeptAreLogged, Kept, Logged, Anchor
  <2>. QED  BY <2>2, <2>3, <2>4 DEF DurablyLogged, LogFits
<1>. QED  BY <1>1, QuietLogged, StoreLogged, PowerFailsLogged

(***************************************************************************)
(* Whatever a power failure leaves of the three pages, the file opens at a *)
(* version no older than the last flushed one, when no write transaction   *)
(* begins with more than one commit unflushed.                             *)
(***************************************************************************)
THEOREM FlushedSurvive == Durable => (Spec => []FlushedCommitsSurvive)
<1>. SUFFICES ASSUME Durable PROVE Spec => []FlushedCommitsSurvive
  OBVIOUS
<1>1. Init => DurablyLogged
  BY InitLogged DEF Durable
<1>2. DurablyLogged /\ [Next]_vars => DurablyLogged'
  BY StepLogged
<1>3. DurablyLogged => FlushedCommitsSurvive
  <2>. SUFFICES ASSUME DurablyLogged, NEW img \in Survivors
                PROVE  ValidSlots(img) # {} /\ Recovered(img).txnid >= chain[synced].txnid
    BY DEF FlushedCommitsSurvive
  <2>1. PICK k \in synced..Len(chain) : Recovered(img) = chain[k]
    BY FlushedSurvives
  <2>2. /\ synced \in 1..Len(chain) /\ Len(chain) \in Nat
        /\ \A i \in 1..Len(chain) : chain[i].txnid = i + 2
    BY Parts DEF DurablyLogged, Ordered, LogFits, Numbered
  <2>3. ValidSlots(img) # {}
    BY FlushedSurvives
  <2>4. chain[k].txnid = k + 2 /\ chain[synced].txnid = synced + 2
    BY <2>1, <2>2
  <2>. QED  BY <2>1, <2>2, <2>3, <2>4
<1>. QED  BY <1>1, <1>2, <1>3, PTL DEF Spec

(***************************************************************************)
(* Under the same hypotheses the pages implement the commit log: the last  *)
(* store of a commit appends a version, a flush pins the log, a power      *)
(* failure cuts it back to a prefix that holds all that was pinned, and    *)
(* nothing else changes what an opening process would find.                *)
(***************************************************************************)
THEOREM ImplementsLog == Durable => (Spec => ImplementsCommitLog)
<1>. SUFFICES ASSUME Durable PROVE Spec => ImplementsCommitLog
  OBVIOUS
<1>1. Init => DurablyLogged
  BY InitLogged DEF Durable
<1>2. DurablyLogged /\ [Next]_vars => DurablyLogged'
  BY StepLogged
<1>3. Init => Log!Init
  <2>. SUFFICES ASSUME Init PROVE Log!Init
    OBVIOUS
  <2>1. DurablyLogged
    BY <1>1
  <2>2. chain = <<Genesis>> /\ synced = 1 /\ Recovered(cache) = chain[Len(chain)]
    BY <2>1 DEF Init, DurablyLogged, LogFits, Numbered
  <2>3. Recovered(cache) = Genesis
    BY <2>2
  <2>. QED  BY <2>2, <2>3 DEF Log!Init
<1>4. DurablyLogged /\ [Next]_vars => [Log!Next]_(Log!vars)
  <2>. SUFFICES ASSUME DurablyLogged, [Next]_vars PROVE [Log!Next]_(Log!vars)
    OBVIOUS
  <2>1. CASE UNCHANGED vars
    BY <2>1 DEF vars, fileVars, ghostVars, Log!vars
  <2>2. CASE StoreMeta
    <3>1. synced' = synced
      BY <2>2 DEF StoreMeta
    <3>2. \/ chain' = chain /\ Recovered(cache') = Recovered(cache)
          \/ \E v \in Version : chain' = Append(chain, v) /\ Recovered(cache') = v
      BY <2>2, StoreLogged
    <3>3. CASE chain' = chain /\ Recovered(cache') = Recovered(cache)
      BY <3>1, <3>3 DEF Log!vars
    <3>4. CASE \E v \in Version : chain' = Append(chain, v) /\ Recovered(cache') = v
      <4>1. Log!Commit
        BY <3>1, <3>4 DEF Log!Commit
      <4>. QED  BY <4>1 DEF Log!Next
    <3>. QED  BY <3>2, <3>3, <3>4
  <2>3. CASE PowerFails
    <3>1. synced' = synced
      BY <2>3 DEF PowerFails
    <3>2. \E k \in synced..Len(chain) :
            chain' = SubSeq(chain, 1, k) /\ Recovered(cache') = chain[k]
      BY <2>3, PowerFailsLogged
    <3>3. Log!Fail
      BY <3>1, <3>2 DEF Log!Fail
    <3>. QED  BY <3>3 DEF Log!Next
  <2>4. CASE Next /\ ~StoreMeta /\ ~PowerFails
    <3>1. chain' = chain
      BY <2>4, ChainIsKept
    <3>2. cache' = cache /\ (synced' = synced \/ synced' = Len(chain))
      BY <2>4, PagesAreKept
    <3>3. CASE synced' = synced
      BY <3>1, <3>2, <3>3 DEF Log!vars
    <3>4. CASE synced' = Len(chain)
      <4>1. Log!Sync
        BY <3>1, <3>2, <3>4 DEF Log!Sync
      <4>. QED  BY <4>1 DEF Log!Next
    <3>. QED  BY <3>2, <3>3, <3>4
  <2>. QED  BY <2>1, <2>2, <2>3, <2>4
<1>. QED  BY <1>1, <1>2, <1>3, <1>4, PTL DEF Spec, ImplementsCommitLog, Log!Spec
LogProofs == INSTANCE CommitLogProofs WITH log <- chain, visible <- Recovered(cache)

(***************************************************************************)
(* What CommitLogProofs shows of the log is so of the file: no commit and  *)
(* no crash changes a version that was flushed, or takes it away.          *)
(***************************************************************************)
THEOREM FlushedVersionsStay == Durable => (Spec => Log!PinnedStays)
<1>. SUFFICES ASSUME Durable PROVE Spec => Log!PinnedStays
  OBVIOUS
<1>1. Genesis \in Version
  BY BoundsAssumption DEF Genesis, Version, InitialTxnID, Trees
<1>2. Spec => Log!Spec
  BY ImplementsLog DEF ImplementsCommitLog
<1>3. Log!Spec => LogProofs!Spec
  BY DEF Log!Spec, Log!Init, Log!Next, Log!vars, Log!Commit, Log!Sync, Log!Fail,
         LogProofs!Spec, LogProofs!Init, LogProofs!Next, LogProofs!vars, LogProofs!Commit,
         LogProofs!Sync, LogProofs!Fail
<1>4. LogProofs!Spec => LogProofs!PinnedStays
  BY <1>1, LogProofs!PinnedStaysPinned
<1>5. LogProofs!PinnedStays => Log!PinnedStays
  BY DEF LogProofs!PinnedStays, LogProofs!vars, Log!PinnedStays, Log!vars
<1>. QED  BY <1>2, <1>3, <1>4, <1>5

------------------------------------------------------------------------------
(* The page a reader begins on *)

\* One process, and at most one commit that the file refuses.
Prompt == Durable /\ (\A p, q \in Procs : p = q) /\ MaxIOErrors <= 1

\* How many versions the triple may be behind the file.
Lag == IF w.pc \in {"sync", "publish"} THEN ioErrors + 1 ELSE ioErrors

\* A page that holds a version of the log, and that no commit is writing or can
\* choose before the triple is read again.
Fresh(s) ==
  /\ isConsistent(cache[s]) /\ Logged(cache[s])
  /\ Len(chain) + 2 <= cache[s].txnidA + Lag
  /\ w.pc = "meta" => w.slot # s

Beginning(r) == readers[r].how = "begin" /\ readers[r].pc \in {"header", "trees"}

\* A reader keeps a fresh page until it has its version, which is then in the log.
ReaderFresh(r) ==
  /\ Beginning(r) => IsOpen(Home[r]) /\ Fresh(readers[r].slot)
  /\ Beginning(r) /\ readers[r].pc = "trees" =>
       readers[r].txnid = cache[readers[r].slot].txnidA
  /\ readers[r].how = "begin" /\ readers[r].pc = "active" =>
       /\ readers[r].txnid \in 3..Len(chain) + 2
       /\ chain[readers[r].txnid - 2] = [txnid |-> readers[r].txnid, tree |-> readers[r].tree]

BeginsFresh ==
  /\ \A p \in Procs : IsOpen(p) => Fresh(triple[p].recent)
  /\ \A r \in Readers : ReaderFresh(r)

SeenAndLogged == Acknowledged /\ DurablyLogged

Begun == SeenAndLogged /\ BeginsFresh

(***************************************************************************)
(* The lag is that of the failed commits, or one more.                     *)
(***************************************************************************)
LEMMA LagIs ==
  /\ Lag = ioErrors \/ Lag = ioErrors + 1
  /\ Lag' = ioErrors' \/ Lag' = ioErrors' + 1
BY Zenon DEF Lag

(***************************************************************************)
(* Until a power failure the log only grows.                               *)
(***************************************************************************)
LEMMA LogGrows ==
  ASSUME DurablyLogged, Next, ~PowerFails
  PROVE  /\ Len(chain) \in Nat /\ Len(chain') \in Nat /\ Len(chain) <= Len(chain')
         /\ \A i \in 1..Len(chain) : chain'[i] = chain[i]
<1>1. chain \in Seq(Version)
  BY Parts DEF DurablyLogged, Ordered
<1>2. CASE chain' = chain
  BY <1>1, <1>2
<1>3. CASE \E v \in Version : chain' = Append(chain, v)
  BY <1>1, <1>3
<1>. QED  BY <1>2, <1>3, ChainIsKept, StoreLogged

(***************************************************************************)
(* A version of the log stays in it.                                       *)
(***************************************************************************)
LEMMA StaysLogged ==
  ASSUME DurablyLogged, Next, ~PowerFails, NEW m, Logged(m)
  PROVE  Logged(m)'
<1>1. m.txnidA \in 3..Len(chain) + 2 /\ VersionAt(m) = chain[m.txnidA - 2]
  BY DEF Logged
<1>2. /\ Len(chain) \in Nat /\ Len(chain') \in Nat /\ Len(chain) <= Len(chain')
      /\ \A i \in 1..Len(chain) : chain'[i] = chain[i]
  BY LogGrows
<1>3. m.txnidA - 2 \in 1..Len(chain) /\ m.txnidA \in 3..Len(chain') + 2
  BY <1>1, <1>2
<1>. QED  BY <1>1, <1>2, <1>3 DEF Logged

(***************************************************************************)
(* A process that reads the meta pages gets a fresh one.                   *)
(***************************************************************************)
LEMMA ReadingIsFresh ==
  ASSUME DurablyLogged, DurablyLogged', cache' = cache, chain' = chain
  PROVE  Fresh(NewMetaTriple(cache).recent)'
<1>. DEFINE s == RecentSlot(cache)
<1>1. NewMetaTriple(cache').recent = s
  BY DEF NewMetaTriple
<1>2. /\ Len(chain) \in Nat /\ Len(chain) >= 1 /\ ValidSlots(cache) # {}
      /\ Recovered(cache) = chain[Len(chain)] /\ chain[Len(chain)].txnid = Len(chain) + 2
  BY Parts DEF DurablyLogged, Ordered, LogFits, Numbered
<1>3. s \in Slots /\ isConsistent(cache[s]) /\ VersionAt(cache[s]) = chain[Len(chain)]
  BY <1>2, TopIsNewest DEF DurablyLogged, Ordered
<1>4. cache[s].txnidA = Len(chain) + 2
  BY <1>2, <1>3 DEF VersionAt
<1>5. Logged(cache[s])
  <2>1. cache[s].txnidA \in 3..Len(chain) + 2 /\ cache[s].txnidA - 2 = Len(chain)
    BY <1>2, <1>4
  <2>. QED  BY <1>3, <2>1 DEF Logged
<1>6. w'.pc = "meta" => w'.slot # s
  BY DEF DurablyLogged, Ordered, WriterNumber
<1>7. Lag' \in Nat
  <2>1. ioErrors' \in Nat
    BY BoundsAssumption DEF DurablyLogged, Ordered, WellTyped, TypeOK
  <2>. QED  BY <2>1, LagIs
<1>. HIDE DEF s
<1>. QED  BY <1>1, <1>2, <1>3, <1>4, <1>5, <1>6, <1>7 DEF Fresh, Logged

(***************************************************************************)
(* A commit that chooses its page spares the fresh ones.                   *)
(***************************************************************************)
LEMMA FreshIsSpared ==
  ASSUME Prompt, DurablyLogged, NEW grow \in BOOLEAN, WriteDirtyPages(grow),
         NEW s \in Slots, Fresh(s)
  PROVE  w'.slot # s
<1>1. w'.slot = nextMetaIndex(triple'[w.proc])
  BY Parts, AfterWriteDirtyPages DEF DurablyLogged, Ordered, Writer
<1>2. /\ w.pc = "open" /\ w.proc \in Procs
      /\ triple[w.proc] = NewMetaTriple(cache) /\ ValidSlots(cache) # {}
  BY DEF WriteDirtyPages, DurablyLogged, Ordered, WellTyped, WriterFits, OpenIsValid
<1>3. triple'[w.proc] = NewMetaTriple(cache)
  BY <1>2, Parts DEF WriteDirtyPages, DurablyLogged, Ordered
<1>4. Lag \in {0, 1}
  <2>1. ioErrors \in 0..MaxIOErrors /\ MaxIOErrors \in Nat /\ MaxIOErrors <= 1
    BY BoundsAssumption DEF Prompt, DurablyLogged, Ordered, WellTyped, TypeOK
  <2>. QED  BY <1>2, <2>1 DEF Lag
<1>5. Top = Len(chain) + 2 /\ Len(chain) \in Nat
  BY Parts DEF DurablyLogged, Ordered, LogFits, Numbered, Top
<1>6. s \in ValidSlots(cache) /\ cache[s].txnidA \in Nat
  BY Parts DEF Fresh, ValidSlots, DurablyLogged, Ordered, Meta
<1>7. cache[s].txnidA + 1 >= Top
  BY <1>4, <1>5, <1>6 DEF Fresh
<1>. QED  BY <1>1, <1>2, <1>3, <1>6, <1>7, NextSparesNewest DEF DurablyLogged

(***************************************************************************)
(* The triple never falls behind by more than it is allowed to, ...        *)
(***************************************************************************)
LEMMA LagCovers ==
  ASSUME WellTyped, Next, ~StoreMeta, ~PowerFails, ~Publish, \A p \in Procs : ~ProcessEnds(p)
  PROVE  Lag \in Nat /\ Lag' \in Nat /\ Lag <= Lag'
<1>1. ioErrors \in Nat /\ ioErrors' \in Nat
  BY StepTyped DEF WellTyped, TypeOK
<1>2. CASE w' = w /\ ioErrors' = ioErrors
  BY <1>1, <1>2 DEF Lag
<1>3. ASSUME NEW p \in Procs, Open(p) \/ ForceSync(p) PROVE w' = w /\ ioErrors' = ioErrors
  BY <1>3 DEF Open, ForceSync, counters
<1>4. ASSUME NEW r \in Readers, ReaderStep(r) PROVE w' = w /\ ioErrors' = ioErrors
  BY <1>4 DEF ReaderStep, BeginRead, BeginRenew, ReadTxnid, ReadTrees, Reset, AbortRead, counters
<1>5. CASE CommitFails
  <2>1. ioErrors' = ioErrors + 1
    BY <1>5 DEF CommitFails
  <2>. QED  BY <1>1, <2>1 DEF Lag
<1>6. CASE SyncMeta
  <2>1. w.pc = "sync" /\ w'.pc = "publish" /\ ioErrors' = ioErrors
    BY <1>6, Parts, AfterSyncMeta DEF SyncMeta, counters, Writer
  <2>. QED  BY <1>1, <2>1 DEF Lag
<1>7. ASSUME AbortWrite \/ (\E grow \in BOOLEAN : WriteDirtyPages(grow))
             \/ (\E p \in Procs, willSync \in SyncModes : BeginWrite(p, willSync))
      PROVE  w.pc \in {"idle", "open"} /\ ioErrors' = ioErrors
  BY <1>7 DEF AbortWrite, WriteDirtyPages, BeginWrite, counters
<1>8. ASSUME w.pc \in {"idle", "open"}, ioErrors' = ioErrors PROVE Lag <= Lag' /\ Lag \in Nat
  BY <1>1, <1>8 DEF Lag
<1>9. Lag \in Nat /\ Lag' \in Nat
  BY <1>1, LagIs
<1>. QED  BY <1>2, <1>3, <1>4, <1>5, <1>6, <1>7, <1>8, <1>9 DEF Next, WriterStep

(***************************************************************************)
(* ... so a fresh page stays as it is, and fresh, until its process reads  *)
(* the meta pages again.                                                   *)
(***************************************************************************)
LEMMA StaysFresh ==
  ASSUME Prompt, DurablyLogged, Next, ~PowerFails, ~Publish, \A p \in Procs : ~ProcessEnds(p),
         NEW s \in Slots, Fresh(s)
  PROVE  cache'[s] = cache[s] /\ Fresh(s)'
<1>1. /\ isConsistent(cache[s]) /\ Len(chain) + 2 <= cache[s].txnidA + Lag
      /\ cache[s].txnidA \in Nat /\ Len(chain) \in Nat
      /\ w.pc = "meta" => w.slot # s
  BY Parts DEF Fresh, DurablyLogged, Ordered, Meta
<1>2. Logged(cache[s])'
  <2>1. PICK m : m = cache[s]
    OBVIOUS
  <2>2. Logged(m)'
    BY <2>1, StaysLogged DEF Fresh
  <2>3. cache'[s] = cache[s]
    <3>1. CASE StoreMeta
      BY <1>1, <3>1, Parts, AfterStoreMeta DEF DurablyLogged, Ordered
    <3>. QED  BY <3>1, PagesAreKept
  <2>. QED  BY <2>1, <2>2, <2>3 DEF Logged
<1>3. CASE StoreMeta
  <2>1. /\ cache'[s] = cache[s] /\ w.pc = "meta" /\ ioErrors' = ioErrors
    BY <1>1, <1>3, Parts, AfterStoreMeta DEF DurablyLogged, Ordered, StoreMeta, counters
  <2>2. ioErrors \in Nat
    BY DEF DurablyLogged, Ordered, WellTyped, TypeOK
  <2>3. CASE w.step = 1
    <3>1. chain' = chain /\ w'.pc = "meta" /\ w'.slot = w.slot
      BY <1>3, <2>3, HalfStored DEF DurablyLogged, Writer
    <3>2. Lag' = Lag
      BY <2>1, <3>1 DEF Lag
    <3>. QED  BY <1>1, <1>2, <2>1, <3>1, <3>2 DEF Fresh
  <2>4. CASE w.step = 2
    <3>1. \E v \in Version : chain' = Append(chain, v)
      <4>1. PICK img : img = Page(w.txnid, w.txnid, w.tree, w.tree)
        OBVIOUS
      <4>2. img \in Meta /\ chain' = Append(chain, VersionAt(img))
        BY <1>3, <2>4, <4>1, FullStored DEF DurablyLogged
      <4>3. VersionAt(img) \in Version
        BY <4>2 DEF VersionAt, Version, Meta
      <4>. QED  BY <4>2, <4>3
    <3>2. Len(chain') = Len(chain) + 1
      BY <3>1, Parts DEF DurablyLogged, Ordered
    <3>3. w'.pc = "sync"
      BY <1>3, <2>4, FullStored DEF DurablyLogged, Writer
    <3>4. Lag' = Lag + 1 /\ Lag \in Nat
      BY <2>1, <2>2, <3>3 DEF Lag
    <3>5. Len(chain') + 2 <= cache'[s].txnidA + Lag'
      BY <1>1, <2>1, <3>2, <3>4
    <3>. QED  BY <1>1, <1>2, <2>1, <3>3, <3>5 DEF Fresh
  <2>. QED  BY <1>3, <2>3, <2>4, StoreIsHalfOrFull DEF DurablyLogged
<1>4. CASE ~StoreMeta
  <2>1. cache' = cache /\ chain' = chain
    BY <1>4, ChainIsKept, PagesAreKept
  <2>2. Lag \in Nat /\ Lag' \in Nat /\ Lag <= Lag'
    BY <1>4, LagCovers DEF DurablyLogged, Ordered
  <2>3. w'.pc = "meta" => w'.slot # s
    <3>1. ASSUME NEW p \in Procs, NEW willSync \in SyncModes, BeginWrite(p, willSync)
          PROVE  w'.pc = "open"
      BY <3>1, AfterBeginWrite DEF Writer
    <3>2. ASSUME NEW grow \in BOOLEAN, WriteDirtyPages(grow) PROVE w'.slot # s
      BY <3>2, FreshIsSpared
    <3>. QED  BY <1>1, <1>4, <3>1, <3>2, WriterKept DEF DurablyLogged, Ordered
  <2>4. Len(chain') + 2 <= cache'[s].txnidA + Lag'
    BY <1>1, <2>1, <2>2
  <2>. QED  BY <1>1, <1>2, <2>1, <2>3, <2>4 DEF Fresh
<1>. QED  BY <1>3, <1>4
(***************************************************************************)
(* A triple that is open after a step is as it was, or was read in it.     *)
(***************************************************************************)
LEMMA TriplesFresh ==
  ASSUME Prompt, Begun, SeenAndLogged', Next, ~PowerFails, ~Publish, \A p \in Procs : ~ProcessEnds(p),
         NEW p \in Procs
  PROVE  /\ IsOpen(p) => IsOpen(p)'
         /\ IsOpen(p)' => Fresh(triple[p].recent)'
<1>1. /\ triple[p].recent \in Slots /\ Acknowledged /\ DurablyLogged /\ DurablyLogged'
      /\ cache \in [Slots -> Meta] /\ \A s \in Slots : cache[s].txnidA >= 1
  BY Parts DEF Begun, SeenAndLogged, Acknowledged, Ordered
<1>2. CASE triple'[p] = triple[p]
  <2>1. IsOpen(p)' <=> IsOpen(p)
    BY <1>2 DEF IsOpen
  <2>2. ASSUME IsOpen(p) PROVE Fresh(triple[p].recent)'
    <3>1. PICK s \in Slots : s = triple[p].recent /\ Fresh(s)
      BY <1>1, <2>2 DEF Begun, BeginsFresh, ReaderFresh
    <3>2. Fresh(s)'
      BY <1>1, <3>1, StaysFresh
    <3>. QED  BY <1>2, <3>1, <3>2 DEF Fresh
  <2>. QED  BY <2>1, <2>2
<1>3. CASE triple'[p] # triple[p]
  <2>1. ~StoreMeta
    BY <1>3 DEF StoreMeta
  <2>2. cache' = cache /\ ValidSlots(cache) # {} /\ triple'[p] = NewMetaTriple(cache)
    BY <1>1, <1>3, TripleSteps
  <2>3. NewMetaTriple(cache) # Closed
    BY <1>1, <2>2, ReadingOpens
  <2>4. chain' = chain
    BY <1>1, <2>1, ChainIsKept
  <2>5. Fresh(NewMetaTriple(cache).recent)'
    BY <1>1, <2>2, <2>4, ReadingIsFresh
  <2>6. NewMetaTriple(cache)' = NewMetaTriple(cache)
    BY <2>2
  <2>. QED  BY <2>2, <2>3, <2>5, <2>6 DEF Fresh, IsOpen
<1>. QED  BY <1>2, <1>3

(***************************************************************************)
(* A reader keeps its page from BeginRead to ReadTrees, and then its       *)
(* version.                                                                *)
(***************************************************************************)
LEMMA ReadersFresh ==
  ASSUME Prompt, Begun, SeenAndLogged', Next, ~PowerFails, ~Publish, \A p \in Procs : ~ProcessEnds(p),
         NEW r \in Readers
  PROVE  ReaderFresh(r)'
<1>1. /\ Acknowledged /\ DurablyLogged /\ DurablyLogged' /\ ReaderFresh(r)
      /\ readers[r] \in ReaderRecs /\ readers[r].slot \in Slots /\ Home[r] \in Procs
      /\ IsOpen(Home[r]) => IsOpen(Home[r])' /\ Fresh(triple[Home[r]].recent)
      /\ triple[Home[r]].recent \in Slots
  BY Parts, TriplesFresh, HomeAssumption
     DEF Begun, SeenAndLogged, Acknowledged, Ordered, BeginsFresh, ReaderFresh, ReaderRecs
<1>2. \A pc, how, s, n, t, f :
        LET x == Reader(pc, how, s, n, t, f)
        IN  x.pc = pc /\ x.how = how /\ x.slot = s /\ x.txnid = n /\ x.tree = t /\ x.floor = f
  BY DEF Reader
<1>3. \A s \in Slots : Fresh(s) => cache'[s] = cache[s] /\ Fresh(s)'
  BY <1>1, StaysFresh
<1>4. CASE readers'[r] = readers[r]
  <2>1. ASSUME Beginning(r)'
        PROVE  /\ IsOpen(Home[r])' /\ Fresh(readers[r].slot)'
               /\ readers'[r].pc = "trees" => readers'[r].txnid = cache'[readers'[r].slot].txnidA
    <3>1. Beginning(r)
      BY <1>4, <2>1 DEF Beginning
    <3>2. PICK s \in Slots : s = readers[r].slot /\ Fresh(s)
      BY <1>1, <3>1 DEF ReaderFresh
    <3>3. cache'[s] = cache[s] /\ Fresh(s)'
      BY <1>3, <3>2
    <3>4. Fresh(readers[r].slot)'
      BY <1>4, <3>2, <3>3 DEF Fresh
    <3>. QED  BY <1>1, <1>4, <3>1, <3>2, <3>3, <3>4 DEF ReaderFresh
  <2>2. ASSUME readers[r].how = "begin" /\ readers[r].pc = "active"
        PROVE  /\ readers[r].txnid \in 3..Len(chain') + 2
               /\ chain'[readers[r].txnid - 2] =
                    [txnid |-> readers[r].txnid, tree |-> readers[r].tree]
    <3>1. /\ readers[r].txnid \in 3..Len(chain) + 2
          /\ chain[readers[r].txnid - 2] =
               [txnid |-> readers[r].txnid, tree |-> readers[r].tree]
      BY <1>1, <2>2 DEF ReaderFresh
    <3>2. /\ Len(chain) \in Nat /\ Len(chain') \in Nat /\ Len(chain) <= Len(chain')
          /\ \A i \in 1..Len(chain) : chain'[i] = chain[i]
      BY <1>1, LogGrows
    <3>3. readers[r].txnid - 2 \in 1..Len(chain) /\ readers[r].txnid \in 3..Len(chain') + 2
      BY <3>1, <3>2
    <3>. QED  BY <3>1, <3>2, <3>3
  <2>. QED  BY <1>4, <2>1, <2>2 DEF ReaderFresh
<1>5. CASE /\ readers[r].pc \in {"idle", "reset"} /\ IsOpen(Home[r])
           /\ \E how \in {"begin", "renew"} :
                readers'[r] = Reader("header", how, triple[Home[r]].recent, 0, 0, acked[Home[r]])
  <2>1. PICK s \in Slots : s = triple[Home[r]].recent /\ Fresh(s)
    BY <1>1, <1>5
  <2>2. Fresh(s)' /\ readers'[r].slot = s /\ readers'[r].pc = "header"
    BY <1>2, <1>3, <1>5, <2>1
  <2>3. Fresh(readers[r].slot)'
    BY <2>2 DEF Fresh
  <2>. QED  BY <1>1, <1>5, <2>2, <2>3 DEF ReaderFresh
<1>6. CASE /\ UNCHANGED cache /\ readers[r].pc = "header"
           /\ readers'[r] = Reader("trees", readers[r].how, readers[r].slot,
                                   cache[readers[r].slot].txnidA, readers[r].tree,
                                   readers[r].floor)
  <2>1. CASE readers[r].how = "begin"
    <3>1. PICK s \in Slots : s = readers[r].slot /\ Fresh(s)
      BY <1>1, <1>6, <2>1 DEF ReaderFresh, Beginning
    <3>2. /\ Fresh(s)' /\ readers'[r].slot = s /\ readers'[r].pc = "trees"
          /\ readers'[r].txnid = cache[s].txnidA
      BY <1>2, <1>3, <1>6, <3>1
    <3>3. Fresh(readers[r].slot)'
      BY <3>2 DEF Fresh
    <3>4. IsOpen(Home[r])'
      BY <1>1, <1>6, <2>1 DEF ReaderFresh, Beginning
    <3>. QED  BY <1>6, <3>2, <3>3, <3>4 DEF ReaderFresh
  <2>2. CASE readers[r].how # "begin"
    <3>1. readers'[r].how = readers[r].how
      BY <1>2, <1>6
    <3>. QED  BY <2>2, <3>1 DEF ReaderFresh, Beginning
  <2>. QED  BY <2>1, <2>2
<1>7. CASE /\ UNCHANGED <<cache, chain>> /\ readers[r].pc = "trees"
           /\ readers'[r] = Reader("active", readers[r].how, 0, readers[r].txnid,
                                   cache[readers[r].slot].MainTree, 0)
  <2>1. /\ readers'[r].how = readers[r].how /\ readers'[r].txnid = readers[r].txnid
        /\ readers'[r].tree = cache[readers[r].slot].MainTree /\ readers'[r].pc = "active"
    BY <1>2, <1>7
  <2>2. ASSUME readers[r].how = "begin"
        PROVE  /\ readers'[r].txnid \in 3..Len(chain') + 2
               /\ chain'[readers'[r].txnid - 2] =
                    [txnid |-> readers'[r].txnid, tree |-> readers'[r].tree]
    <3>1. /\ Logged(cache[readers[r].slot])
          /\ readers[r].txnid = cache[readers[r].slot].txnidA
      BY <1>1, <1>7, <2>2 DEF ReaderFresh, Beginning, Fresh
    <3>. QED  BY <1>7, <2>1, <3>1 DEF Logged, VersionAt
  <2>3. ~Beginning(r)'
    BY <2>1 DEF Beginning
  <2>. QED  BY <2>1, <2>2, <2>3 DEF ReaderFresh
<1>8. CASE readers'[r].pc \in {"idle", "reset"}
  BY <1>8 DEF ReaderFresh, Beginning
<1>9. NoTxn.pc = "idle"
  BY DEF NoTxn
<1>10. \/ readers'[r] = readers[r]
       \/ /\ UNCHANGED <<cache, triple, w, chain, ioErrors, acked>>
          /\ \/ /\ readers[r].pc \in {"idle", "reset"} /\ IsOpen(Home[r])
                /\ \E how \in {"begin", "renew"} :
                     readers'[r] = Reader("header", how, triple[Home[r]].recent, 0, 0,
                                          acked[Home[r]])
             \/ /\ readers[r].pc = "header"
                /\ readers'[r] = Reader("trees", readers[r].how, readers[r].slot,
                                        cache[readers[r].slot].txnidA, readers[r].tree,
                                        readers[r].floor)
             \/ /\ readers[r].pc = "trees"
                /\ readers'[r] = Reader("active", readers[r].how, 0, readers[r].txnid,
                                        cache[readers[r].slot].MainTree, 0)
             \/ \E pc \in {"idle", "reset"} : readers'[r] = Reader(pc, "begin", 0, 0, 0, 0)
       \/ readers'[r] = NoTxn
  BY <1>1, ReaderSteps
<1>11. (\E pc \in {"idle", "reset"} : readers'[r] = Reader(pc, "begin", 0, 0, 0, 0))
       \/ readers'[r] = NoTxn => readers'[r].pc \in {"idle", "reset"}
  BY <1>2, <1>9
<1>. QED  BY <1>4, <1>5, <1>6, <1>7, <1>8, <1>10, <1>11

(***************************************************************************)
(* Publish reads the meta pages again while nobody in the process is       *)
(* beginning: the triple catches up with the file.                         *)
(***************************************************************************)
LEMMA PublishFresh ==
  ASSUME Prompt, Begun, SeenAndLogged', Publish
  PROVE  BeginsFresh'
<1>1. /\ w.pc = "publish" /\ NobodyReadLocks(w.proc) /\ ValidSlots(cache) # {}
      /\ triple' = [triple EXCEPT ![w.proc] = NewMetaTriple(cache)]
      /\ cache' = cache /\ readers' = readers /\ chain' = chain
  BY DEF Publish, fileVars
<1>2. w.proc \in Procs /\ (\A p \in Procs : p = w.proc) /\ DurablyLogged /\ DurablyLogged'
  BY <1>1 DEF Prompt, Begun, SeenAndLogged, DurablyLogged, Ordered, WellTyped, WriterFits
<1>3. \A r \in Readers : ~Beginning(r)
  BY <1>1, <1>2, HomeAssumption DEF NobodyReadLocks, HoldsRLock, Beginning
<1>4. \A r \in Readers : ~Beginning(r)'
  BY <1>1, <1>3 DEF Beginning
<1>5. Fresh(NewMetaTriple(cache).recent)'
  BY <1>1, <1>2, ReadingIsFresh
<1>6. ASSUME NEW p \in Procs PROVE Fresh(triple[p].recent)'
  <2>1. triple'[p] = NewMetaTriple(cache) /\ NewMetaTriple(cache)' = NewMetaTriple(cache)
    BY <1>1, <1>2, Parts DEF DurablyLogged, Ordered
  <2>. QED  BY <1>5, <2>1 DEF Fresh
<1>. QED  BY <1>1, <1>4, <1>6 DEF BeginsFresh, ReaderFresh, Begun

(***************************************************************************)
(* Every step keeps it.                                                    *)
(***************************************************************************)
LEMMA StepBegun == Prompt /\ Begun /\ [Next]_vars => Begun'
<1>. SUFFICES ASSUME Prompt, Begun, [Next]_vars PROVE Begun'
  OBVIOUS
<1>1. SeenAndLogged'
  BY StepAcknowledged, StepLogged DEF Begun, SeenAndLogged, Prompt
<1>2. CASE PowerFails
  <2>1. /\ \A p \in Procs : ~IsOpen(p)'
        /\ \A r \in Readers : readers'[r].pc = "idle"
    BY <1>2 DEF PowerFails, IsOpen, NoTxn
  <2>. QED  BY <1>1, <2>1 DEF Begun, SeenAndLogged, BeginsFresh, ReaderFresh, Beginning
<1>3. ASSUME NEW p \in Procs, ProcessEnds(p) PROVE Begun'
  <2>1. /\ \A q \in Procs : ~IsOpen(q)'
        /\ \A r \in Readers : readers'[r].pc = "idle"
    BY <1>3, Parts, HomeAssumption
       DEF ProcessEnds, IsOpen, NoTxn, Prompt, Begun, SeenAndLogged, Acknowledged, Ordered
  <2>. QED  BY <1>1, <2>1 DEF Begun, SeenAndLogged, BeginsFresh, ReaderFresh, Beginning
<1>4. CASE Publish
  BY <1>1, <1>4, PublishFresh DEF Begun, SeenAndLogged
<1>5. CASE Next /\ ~PowerFails /\ ~Publish /\ \A p \in Procs : ~ProcessEnds(p)
  <2>1. \A p \in Procs : IsOpen(p)' => Fresh(triple[p].recent)'
    BY <1>1, <1>5, TriplesFresh
  <2>2. \A r \in Readers : ReaderFresh(r)'
    BY <1>1, <1>5, ReadersFresh
  <2>. QED  BY <1>1, <2>1, <2>2 DEF Begun, SeenAndLogged, BeginsFresh, ReaderFresh
<1>6. CASE UNCHANGED vars
  <2>1. UNCHANGED <<cache, triple, w, ioErrors, readers, chain>>
    BY <1>6 DEF vars, fileVars, counters, ghostVars
  <2>3. \A p \in Procs : IsOpen(p)' => Fresh(triple[p].recent)'
    BY <2>1 DEF Begun, BeginsFresh, ReaderFresh, Fresh, Logged, Lag, IsOpen
  <2>4. \A r \in Readers : ReaderFresh(r)
    BY DEF Begun, BeginsFresh, ReaderFresh
  <2>5. \A r \in Readers : ReaderFresh(r)'
    BY <2>1, <2>4 DEF ReaderFresh, Beginning, Fresh, Logged, Lag, IsOpen
  <2>. QED  BY <1>1, <2>3, <2>5 DEF Begun, SeenAndLogged, BeginsFresh, ReaderFresh
<1>. QED  BY <1>2, <1>3, <1>4, <1>5, <1>6

(***************************************************************************)
(* A reader begun by beginReadTxn has one committed version, although its  *)
(* page is reused two commits later: with one process, and at most one     *)
(* commit that failed after it stored its page.  TLC finds it violated     *)
(* when two fail.                                                          *)
(***************************************************************************)
THEOREM BegunSnapshots == Prompt => (Spec => []BegunSnapshotIsCommitted)
<1>. SUFFICES ASSUME Prompt PROVE Spec => []BegunSnapshotIsCommitted
  OBVIOUS
<1>1. Init => Begun
  <2>. SUFFICES ASSUME Init PROVE Begun
    OBVIOUS
  <2>1. DurablyLogged
    BY InitLogged DEF Prompt, Durable
  <2>2. /\ \A p \in Procs : ~IsOpen(p)
        /\ \A r \in Readers : readers[r].pc = "idle"
    BY DEF Init, IsOpen, NoTxn
  <2>3. Acknowledged
    BY <2>1, <2>2 DEF DurablyLogged, Acknowledged, HeadersAreOpen, Seen
  <2>. QED  BY <2>1, <2>2, <2>3 DEF Begun, SeenAndLogged, BeginsFresh, ReaderFresh, Beginning
<1>2. Begun /\ [Next]_vars => Begun'
  BY StepBegun
<1>3. Begun => BegunSnapshotIsCommitted
  <2>. SUFFICES ASSUME Begun, NEW r \in Readers, readers[r].pc = "active",
                       readers[r].how = "begin"
                PROVE  [txnid |-> readers[r].txnid, tree |-> readers[r].tree] \in Range(chain)
    BY DEF BegunSnapshotIsCommitted, SnapshotIsCommitted
  <2>1. /\ readers[r].txnid \in 3..Len(chain) + 2
        /\ chain[readers[r].txnid - 2] = [txnid |-> readers[r].txnid, tree |-> readers[r].tree]
    BY DEF Begun, BeginsFresh, ReaderFresh
  <2>2. chain \in Seq(Version)
    BY Parts DEF Begun, SeenAndLogged, DurablyLogged, Ordered
  <2>3. readers[r].txnid - 2 \in DOMAIN chain
    BY <2>1, <2>2
  <2>. QED  BY <2>1, <2>3 DEF Range
<1>. QED  BY <1>1, <1>2, <1>3, PTL DEF Spec
=============================================================================
