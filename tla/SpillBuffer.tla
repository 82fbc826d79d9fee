----------------------------- MODULE SpillBuffer -----------------------------
(***************************************************************************)
(* spill.Buffer: slots for the dirty pages of write transactions, in       *)
(* segments that are added when all slots are taken and never given up,    *)
(* each with a bitmap scanned word by word from a hint (spill/bitmap.go).  *)
(* Every call holds the buffer's mutex and is one step.                    *)
(***************************************************************************)
EXTENDS Integers, Sequences, FiniteSets, SequencesExt, FiniteSetsExt

CONSTANTS
  WordBits,    \* bits of a bitmap word (64)
  SegmentCap,  \* slots of one segment (DefaultInitialCap)
  IndexMod     \* a Slot's two indices are stored modulo this (2^16)

ASSUME SpillAssumption ==
  /\ WordBits \in Nat \ {0} /\ SegmentCap \in Nat \ {0}
  /\ IndexMod \in Nat /\ SegmentCap < IndexMod

Slots == 0 .. SegmentCap - 1
NumWords == (SegmentCap + WordBits - 1) \div WordBits
NoSlot == SegmentCap

\* A bitmap: the slots whose bits are set, and freeHint.
NewBitmap == [used |-> {}, hint |-> 0]
NewBuffer == [segs |-> <<NewBitmap>>, cur |-> 1, total |-> 0]

\* Bitmap.Allocate: in the first word with a clear bit that stands for a
\* slot, the first such bit; the words are scanned from the hint, in a circle.
FreeSlot(bm) ==
  LET start == bm.hint \div WordBits
      word(i) == (start + i) % NumWords
      Clear(v) == (WordBits * v .. WordBits * (v + 1) - 1) \ bm.used
      open == {i \in 0 .. NumWords - 1 : Clear(word(i)) # {} /\ Min(Clear(word(i))) \in Slots}
  IN IF open = {} THEN NoSlot ELSE Min(Clear(word(Min(open))))

AllocateBit(bm) == [used |-> bm.used \cup {FreeSlot(bm)}, hint |-> FreeSlot(bm) + 1]

\* Bitmap.Free.
FreeBit(bm, slot) ==
  IF slot \in Slots
  THEN [used |-> bm.used \ {slot}, hint |-> Min({slot, bm.hint})]
  ELSE bm

IsFull(bm) == FreeSlot(bm) = NoSlot

\* The loop of Allocate: the first segment from curSegment on with a free
\* slot, behind the last one if there is none.
Current(b) == Min({s \in b.cur .. Len(b.segs) : ~IsFull(b.segs[s])} \cup {Len(b.segs) + 1})

AddSegment(b) == [b EXCEPT !.segs = Append(@, NewBitmap)]
Room(b) == IF Current(b) > Len(b.segs) THEN AddSegment(b) ELSE b

\* Mutant: the slot is not counted.
AllocateUncounted(b) ==
  [Room(b) EXCEPT !.segs[Current(b)] = AllocateBit(@), !.cur = Current(b)]
\* Buffer.Allocate: the buffer behind it, where the page's data lie and the
\* Slot for Release.  DefaultMaxSegments is out of reach.
Allocate(b) ==
  [Room(b) EXCEPT !.segs[Current(b)] = AllocateBit(@), !.cur = Current(b), !.total = @ + 1]
AllocatedAt(b) == [seg |-> Current(b), idx |-> FreeSlot(Room(b).segs[Current(b)])]

\* Segments count from 0 in the code.
SlotOf(data) == [seg |-> (data.seg - 1) % IndexMod, idx |-> data.idx % IndexMod]

\* Mutant: curSegment is left where it is.
ReleaseAhead(b, slot) ==
  LET s == slot.seg + 1
  IN IF s > Len(b.segs) THEN b
     ELSE [b EXCEPT !.segs[s] = FreeBit(@, slot.idx), !.total = @ - 1]
\* Release; allocation goes on in the lowest segment with a released slot.
Release(b, slot) ==
  LET s == slot.seg + 1
  IN IF s > Len(b.segs) THEN b
     ELSE [b EXCEPT !.segs[s] = FreeBit(@, slot.idx), !.total = @ - 1,
                    !.cur = Min({s, @})]

\* ReleaseBulk of all the slots a transaction allocated.
ReleaseBulk(b, slots) ==
  LET freed[n \in 0 .. Len(slots)] == IF n = 0 THEN b ELSE Release(freed[n - 1], slots[n])
  IN freed[Len(slots)]

\* What is taken, and whether a page's data still are.
Taken(b) == UNION {{[seg |-> s, idx |-> i] : i \in b.segs[s].used} : s \in DOMAIN b.segs}
IsAllocated(b, data) == data.seg \in DOMAIN b.segs /\ data.idx \in b.segs[data.seg].used
==============================================================================
