----------------------------- MODULE DirtyPages ------------------------------
(***************************************************************************)
(* Where the pages a write transaction changes live until it commits: in   *)
(* the map (WriteMap), in slots of the environment's spill buffer or on    *)
(* the heap, found by page number through dirtyTracker; and how the slots  *)
(* go back.  The transaction gives its slots back after it let the next    *)
(* writer in, so several transactions use the buffer.                      *)
(***************************************************************************)
EXTENDS FastMap, SpillBuffer

CONSTANTS
  Txns,        \* transaction objects (the cache of write transactions)
  FirstPages,  \* pages of the new database
  MaxMapped,   \* bound on the pages PreExtendMmap maps
  MaxTxns,     \* bound on transactions
  MaxCalls     \* bound on the calls of all transactions

Places == [in : {"map", "heap", "spill"}, seg : Nat, idx : Nat]

ASSUME DirtyAssumption ==
  /\ FirstPages \in Nat /\ MaxMapped \in Nat /\ MaxTxns \in Nat
  /\ MaxCalls \in Nat
  /\ Unused \notin [key : Nat, val : Places \cup [seg : Nat, idx : Nat]]

VARIABLES
  writeMap,  \* env flag WriteMap
  mapped,    \* pages below this are in the current map
  next,      \* Geometry.Now of the last commit
  buf,       \* the spill buffer
  tx,        \* the transaction objects
  latest,    \* where the writer last wrote each page it changed
  txns,      \* transactions begun
  calls      \* calls made

vars == <<writeMap, mapped, next, buf, tx, latest, txns, calls>>

\* A function with one more or one changed value.
Placed(f, p, place) == [q \in {p} \cup DOMAIN f |-> IF q = p THEN place ELSE f[q]]

InMap(p)   == [in |-> "map", seg |-> 0, idx |-> p]
OnHeap(p)  == [in |-> "heap", seg |-> 0, idx |-> p]
InSpill(d) == [in |-> "spill", seg |-> d.seg, idx |-> d.idx]

IdleTxn == [phase |-> "idle", dirty |-> NoBuckets, slots |-> NoBuckets,
            free |-> <<>>, alloc |-> 0, big |-> {}, heap |-> FALSE]

Working(t) == tx[t].phase = "working"
Calls(t)   == Working(t) /\ calls < MaxCalls
Dirty(t)   == {e.key : e \in ToSet(Entries(tx[t].dirty))}
BigPages(t) == UNION {{p, p + 1} : p \in tx[t].big}

Init ==
  /\ writeMap \in BOOLEAN
  /\ mapped = FirstPages /\ next = FirstPages
  /\ buf = NewBuffer
  /\ tx = [t \in Txns |-> IdleTxn]
  /\ latest = <<>>
  /\ txns = 0 /\ calls = 0

\* beginWriteTxn with an object of the cache, whose tables keep their size.
Begin(t) ==
  /\ tx[t].phase = "idle"
  /\ \A u \in Txns : ~Working(u)
  /\ txns < MaxTxns
  /\ txns' = txns + 1
  /\ tx' = [tx EXCEPT ![t] = [tx[t] EXCEPT
       !.phase = "working", !.dirty = Clear(tx[t].dirty), !.free = <<>>, !.big = {},
       !.alloc = next, !.heap = FALSE]]
  /\ latest' = <<>>
  /\ UNCHANGED <<writeMap, mapped, next, buf, calls>>

\* Env.PreExtendMmap, which is for times without transactions.
PreExtendMmap ==
  /\ \A t \in Txns : tx[t].phase = "idle"
  /\ mapped < MaxMapped
  /\ mapped' = mapped + 1
  /\ UNCHANGED <<writeMap, next, buf, tx, latest, txns, calls>>

------------------------------------------------------------------------------
(* Data for a page, on a pair of the buffer and the transaction.           *)

\* getMmapPageData and, behind the map, spillBuf.Allocate and spillSlots.Set;
\* then dirtyTracker.set.
PlaceOf(s, p) == IF writeMap /\ p < mapped THEN InMap(p) ELSE InSpill(AllocatedAt(s.buf))
NewPage(s, p) ==
  LET place == PlaceOf(s, p)
      t == [s.t EXCEPT !.dirty = Set(@, p, place)]
  IN IF place.in = "map" THEN [s EXCEPT !.t = t, !.latest = Placed(@, p, place)]
     ELSE [buf |-> Allocate(s.buf),
           t |-> [t EXCEPT !.slots = Set(@, p, SlotOf(place))],
           latest |-> Placed(s.latest, p, place)]

Becomes(t, s) ==
  /\ buf' = s.buf
  /\ tx' = [tx EXCEPT ![t] = s.t]
  /\ latest' = s.latest
  /\ calls' = calls + 1
  /\ UNCHANGED <<writeMap, mapped, next, txns>>

Now(t) == [buf |-> buf, t |-> tx[t], latest |-> latest]
AtEnd(s, n) == [s EXCEPT !.t.alloc = @ + n]

\* touchPageAt, drCowPage: a committed page is copied to the end of the file.
TouchPage(t) ==
  /\ Calls(t)
  /\ Becomes(t, AtEnd(NewPage(Now(t), tx[t].alloc), 1))

\* touchSubTreePath: behind the map the copy is on the heap.
TouchSubTreePage(t) ==
  LET p == tx[t].alloc
      place == IF writeMap /\ p < mapped THEN InMap(p) ELSE OnHeap(p)
  IN /\ Calls(t)
     /\ Becomes(t, [buf |-> buf,
                    t |-> [tx[t] EXCEPT !.alloc = p + 1, !.dirty = Set(@, p, place),
                                        !.heap = @ \/ place.in = "heap"],
                    latest |-> Placed(latest, p, place)])

\* allocatePage: the page freed last, or one at the end of the file.
AllocatePage(t) ==
  /\ Calls(t)
  /\ Becomes(t, IF tx[t].free = <<>> THEN AtEnd(NewPage(Now(t), tx[t].alloc), 1)
                ELSE [NewPage(Now(t), Last(tx[t].free)) EXCEPT !.t.free = Front(@)])

\* allocateOverflow, of a value of two pages.
AllocateOverflow(t) ==
  LET p == tx[t].alloc
  IN /\ Calls(t)
     /\ Becomes(t, [AtEnd(NewPage(NewPage(Now(t), p), p + 1), 2) EXCEPT !.t.big = @ \cup {p}])

\* freeEmptyPage, and the other places that put a page of the tree they
\* changed on the free list.
FreePage(t, p) ==
  /\ Calls(t)
  /\ p \in Dirty(t) \ (ToSet(tx[t].free) \cup BigPages(t))
  /\ Becomes(t, [Now(t) EXCEPT !.t.free = Append(@, p)])

CommittedValue == 1  \* the first page of a committed value of two pages
HasValue(t, p) ==
  \/ p \in tx[t].big
  \/ p = CommittedValue /\ {p, p + 1} \cap (Dirty(t) \cup ToSet(tx[t].free)) = {}

\* A value of two pages shortened to n (not at all, a page freed, or both).
Shorten(s, p, n) ==
  [s EXCEPT !.t.free = @ \o [i \in 1 .. 2 - n |-> p + n + i - 1],
            !.t.big = IF n < 2 THEN @ \ {p} ELSE @]

\* freeOverflow.
FreeOverflow(t, p) ==
  /\ Calls(t) /\ HasValue(t, p)
  /\ Becomes(t, Shorten(Now(t), p, 0))

\* updateOverflowInPlace without WriteMap: pages of a committed value are
\* copied to the heap, pages the value no longer needs are freed.
CopyToHeap(s, q) ==
  [s EXCEPT !.t.dirty = Set(@, q, OnHeap(q)), !.latest = Placed(@, q, OnHeap(q))]
UpdateOverflowInPlace(t, p, n) ==
  LET first  == CopyToHeap(Now(t), p)
      copied == IF p \in tx[t].big THEN Now(t)
                ELSE IF n = 1 THEN first ELSE CopyToHeap(first, p + 1)
  IN /\ Calls(t) /\ ~writeMap /\ HasValue(t, p)
     /\ Becomes(t, Shorten(copied, p, n))

\* With WriteMap the new value is written from its first page on, which must
\* be in the map.  A value that stays long is written, and one that shrinks
\* is cleared, into the second page: if the map ends before that one, the
\* slice of the map is out of range and the caller panics.
UpdateOverflowInMap(t, p, n) ==
  LET first == Placed(latest, p, InMap(p))
      over  == IF n = 1 THEN first ELSE Placed(first, p + 1, InMap(p + 1))
  IN /\ Calls(t) /\ writeMap /\ HasValue(t, p)
     /\ p < mapped
     /\ Becomes(t, IF p + 1 < mapped
                   THEN Shorten([Now(t) EXCEPT !.latest = over], p, n)
                   ELSE [Now(t) EXCEPT !.t.phase = "panicked"])

------------------------------------------------------------------------------
(* The end of a transaction.                                               *)

\* Mutant: pages on the heap do not keep the shortcut from being taken.
WrittenUnlessSpilled(t) ==
  IF writeMap /\ tx[t].slots.count = 0 THEN <<>> ELSE Entries(tx[t].dirty)
\* writeDirtyPages: what is written, from where; nothing if all pages are
\* in the map.
Written(t) ==
  IF writeMap /\ ~tx[t].heap /\ tx[t].slots.count = 0 THEN <<>>
  ELSE Entries(tx[t].dirty)

\* What a transaction leaves in its object; all but the slots and the sizes
\* of the tables is set anew by beginWriteTxn before it is read.
Ended(t) ==
  [IdleTxn EXCEPT !.phase = "ended", !.dirty = Clear(tx[t].dirty), !.slots = tx[t].slots]

\* Commit up to the release of the writer: a map that is too small is
\* replaced before the pages are written.
Commit(t) ==
  /\ Working(t)
  /\ tx' = [tx EXCEPT ![t] = Ended(t)]
  /\ next' = tx[t].alloc
  /\ mapped' = IF next' > mapped THEN next' ELSE mapped
  /\ latest' = <<>>
  /\ UNCHANGED <<writeMap, buf, txns, calls>>

\* abortInternal up to the release of the writer.
Abort(t) ==
  /\ Working(t)
  /\ tx' = [tx EXCEPT ![t] = Ended(t)]
  /\ latest' = <<>>
  /\ UNCHANGED <<writeMap, mapped, next, buf, txns, calls>>

\* Mutant: the transaction object keeps the slots it gave back.
ReleaseAndKeepSlots(t) ==
  /\ tx[t].phase = "ended"
  /\ buf' = ReleaseBulk(buf, [i \in DOMAIN Entries(tx[t].slots) |-> Entries(tx[t].slots)[i].val])
  /\ tx' = [tx EXCEPT ![t].phase = "idle"]
  /\ UNCHANGED <<writeMap, mapped, next, latest, txns, calls>>
\* ReleaseBulk, spillSlots.Clear and the return to the cache.
ReleaseSlots(t) ==
  /\ tx[t].phase = "ended"
  /\ buf' = ReleaseBulk(buf, [i \in DOMAIN Entries(tx[t].slots) |-> Entries(tx[t].slots)[i].val])
  /\ tx' = [tx EXCEPT ![t].phase = "idle", ![t].slots = Clear(@)]
  /\ UNCHANGED <<writeMap, mapped, next, latest, txns, calls>>

Next ==
  \/ PreExtendMmap
  \/ \E t \in Txns :
       \/ Begin(t) \/ TouchPage(t) \/ TouchSubTreePage(t)
       \/ AllocatePage(t) \/ AllocateOverflow(t)
       \/ \E p \in Dirty(t) : FreePage(t, p)
       \/ \E p \in tx[t].big \cup {CommittedValue} :
            \/ FreeOverflow(t, p)
            \/ \E n \in 1 .. 2 : UpdateOverflowInPlace(t, p, n) \/ UpdateOverflowInMap(t, p, n)
       \/ Commit(t) \/ Abort(t) \/ ReleaseSlots(t)

Spec == Init /\ [][Next]_vars

------------------------------------------------------------------------------
(* Properties.                                                             *)

\* The buffer's bitmaps hold slots, curSegment is one of its segments and
\* AllocatedCount, which every call changes by one, is the number of bits.
TypeOK ==
  /\ \A s \in DOMAIN buf.segs : buf.segs[s].used \subseteq Slots
  /\ buf.cur \in DOMAIN buf.segs
  /\ buf.total = Cardinality(Taken(buf))
  /\ \A t \in Txns : /\ tx[t].phase \in {"idle", "working", "ended", "panicked"}
                     /\ tx[t].alloc \in Nat

\* The data of the pages a transaction works on never overlap, and lie in
\* slots that are taken and that no transaction before it gives back later,
\* whatever was freed, allocated again or released in between (Allocate,
\* ReleaseBulk after the writer lock is gone).
PagesOwnTheirData ==
  \A t \in Txns : Working(t) =>
    LET data(p) == Get(tx[t].dirty, p)
        used == Dirty(t) \ ToSet(tx[t].free)
        spilled == {data(p) : p \in {q \in used : data(q).in = "spill"}}
    IN /\ \A p, q \in used : data(p) = data(q) => p = q
       /\ \A d \in spilled :
            /\ IsAllocated(buf, d)
            /\ \A u \in Txns \ {t} : \A e \in ToSet(Entries(tx[u].slots)) : e.val # SlotOf(d)

\* dirtyTracker.get finds every page where the transaction last put its data,
\* through growing tables and page numbers used twice; a page not in the
\* tracker was written in the map.
LookupIsLatest ==
  \A t \in Txns : Working(t) =>
    /\ Dirty(t) \subseteq DOMAIN latest
    /\ \A p \in DOMAIN latest :
         Get(tx[t].dirty, p) = latest[p] \/ (p \notin Dirty(t) /\ latest[p] = InMap(p))

\* writeDirtyPages writes every page changed outside the map, from its last
\* place: the shortcut for WriteMap never skips one (hasNonMmapPages,
\* spillSlots.Len).
CommitWritesEveryPage ==
  \A t \in Txns : Working(t) =>
    \A p \in DOMAIN latest : latest[p] # InMap(p) =>
      [key |-> p, val |-> latest[p]] \in ToSet(Written(t))

\* No segment before curSegment has a free slot: Allocate, which looks from
\* there on, adds a segment only when every slot is taken, after any order
\* of bulk releases by one transaction and allocations by the next.
FreeSlotsAreFound == \A s \in 1 .. buf.cur - 1 : buf.segs[s].used = Slots

\* When no transaction is left all slots are free again: each was tracked
\* for release after commit or abort (spillSlots).
SlotsAreReleased == (\A t \in Txns : tx[t].phase = "idle") => buf.total = 0

\* The pages of an overflow value are contiguous in the map, so that one
\* copy can overwrite them (updateOverflowInPlace).
OverflowStaysInMap == \A t \in Txns : tx[t].phase # "panicked"
==============================================================================
