-------------------------- MODULE BTreeShapeProofs ---------------------------
(***************************************************************************)
(* What the decisions of BTreePage on one page come to, for pages of every *)
(* length: where a search lands, what the two halves of a split hold, and  *)
(* that a split that fits is taken when there is one.  Then what BTree's   *)
(* operators do to a tree, for every set of keys and values: what a sound  *)
(* tree is, and that the ascent of an insertion, the descent of a search   *)
(* and the copying of a path lead from one to another.                     *)
(***************************************************************************)
EXTENDS BTree, FiniteSetTheorems, TLAPS

Slots(es) == 1 .. Len(es)

\* The entries of a page as searchPage needs them: keys that grow.
Ordered(es) ==
  /\ \A i \in Slots(es) : es[i].k \in Nat
  /\ \A i, j \in Slots(es) : i < j => es[i].k < es[j].k

(***************************************************************************)
(* Least and greatest elements                                             *)
(***************************************************************************)

\* A non-empty set of numbers has a least one.
LEMMA LeastOf ==
  ASSUME NEW T \in SUBSET Nat, T # {}
  PROVE  \E x \in T : \A y \in T : x <= y
<1>1. PICK x \in T : \A y \in T : <<y, x>> \notin OpToRel(<, Nat)
  BY NatLessThanWellFounded, WFMin
<1>2. \A y \in T : <<y, x>> \in Nat \X Nat
  OBVIOUS
<1>3. \A y \in T : ~(y < x)
  BY <1>1, <1>2 DEF OpToRel
<1>. QED  BY <1>3

\* What holds of 0 and of each number's successor holds up to N.
LEMMA UpTo ==
  ASSUME NEW N \in Nat, NEW S, 0 \in S, \A n \in 0 .. (N - 1) : n \in S => n + 1 \in S
  PROVE  \A n \in 0 .. N : n \in S
<1>. DEFINE Bad == {n \in 0 .. N : n \notin S}
<1>. SUFFICES ASSUME Bad # {} PROVE FALSE
  OBVIOUS
<1>1. PICK m \in Bad : \A n \in Bad : m <= n
  <2>1. Bad \in SUBSET Nat
    OBVIOUS
  <2>. QED  BY <2>1, LeastOf
<1>2. m - 1 \in 0 .. (N - 1) /\ m - 1 \in S
  BY <1>1
<1>3. m - 1 + 1 = m
  OBVIOUS
<1>. QED  BY <1>2, <1>3

(***************************************************************************)
(* Cursor.searchPage                                                       *)
(***************************************************************************)

\* The rounds of the loop, as a function of how many were made.
Rounds(es, k, first, m, f) ==
  f = [n \in 0 .. m |-> IF n = 0 THEN [low |-> first, high |-> Len(es) - 1, hit |-> 0]
                        ELSE Round(es, k, f[n - 1])]

\* That function exists.
LEMMA RoundsExist ==
  ASSUME NEW es, NEW k, NEW first, NEW N \in Nat
  PROVE  \E f : Rounds(es, k, first, N, f)
<1>. DEFINE Start == [low |-> first, high |-> Len(es) - 1, hit |-> 0]
            On(b) == Round(es, k, b)
            Is(m, f) == f = [n \in 0 .. m |-> IF n = 0 THEN Start ELSE On(f[n - 1])]
            Done == {m \in Nat : \E f : Is(m, f)}
<1>0. \A m, f : Is(m, f) <=> Rounds(es, k, first, m, f)
  BY Zenon DEF Rounds
<1>. HIDE DEF Start, On
<1>1. 0 \in Done
  <2>1. PICK f : f = [n \in 0 .. 0 |-> Start]
    OBVIOUS
  <2>2. Is(0, f)
    BY <2>1
  <2>. QED  BY <2>2
<1>2. ASSUME NEW m \in 0 .. (N - 1), m \in Done PROVE m + 1 \in Done
  <2>1. PICK f : Is(m, f)
    BY <1>2
  <2>2. PICK g : g = [n \in 0 .. (m + 1) |-> IF n = m + 1 THEN On(f[m]) ELSE f[n]]
    OBVIOUS
  <2>3. \A n \in 0 .. m : f[n] = IF n = 0 THEN Start ELSE On(f[n - 1])
    BY <2>1
  <2>4. ASSUME NEW n \in 0 .. (m + 1)
        PROVE  g[n] = IF n = 0 THEN Start ELSE On(g[n - 1])
    <3>1. CASE n = m + 1
      BY <2>2, <3>1
    <3>2. CASE n # m + 1
      <4>1. n \in 0 .. m /\ g[n] = f[n]
        BY <2>2, <3>2
      <4>2. n # 0 => g[n - 1] = f[n - 1]
        BY <2>2, <4>1
      <4>. QED  BY <2>3, <4>1, <4>2
    <3>. QED  BY <3>1, <3>2
  <2>5. Is(m + 1, g)
    BY <2>2, <2>4
  <2>. QED  BY <2>5
<1>. HIDE DEF Done
<1>3. N \in Done
  BY <1>1, <1>2, UpTo
<1>4. \E f : Is(N, f)
  BY <1>3 DEF Done
<1>. QED  BY <1>0, <1>4, Zenon

\* Searched takes the last of them.
LEMMA SearchedIsTheLast ==
  ASSUME NEW es, NEW k, NEW first, Len(es) \in Nat
  PROVE  \E f : Rounds(es, k, first, Len(es), f) /\ Searched(es, k, first) = f[Len(es)]
<1>. DEFINE after[n \in 0 .. Len(es)] ==
              IF n = 0 THEN [low |-> first, high |-> Len(es) - 1, hit |-> 0]
              ELSE Round(es, k, after[n - 1])
<1>1. \E f : f = [n \in 0 .. Len(es) |->
                    IF n = 0 THEN [low |-> first, high |-> Len(es) - 1, hit |-> 0]
                    ELSE Round(es, k, f[n - 1])]
  <2>1. \E f : Rounds(es, k, first, Len(es), f)
    BY RoundsExist
  <2>. QED  BY <2>1, Zenon DEF Rounds
<1>2. after = [n \in 0 .. Len(es) |->
                 IF n = 0 THEN [low |-> first, high |-> Len(es) - 1, hit |-> 0]
                 ELSE Round(es, k, after[n - 1])]
  BY <1>1, Zenon
<1>3. Searched(es, k, first) = after[Len(es)]
  BY Zenon DEF Searched
<1>4. Rounds(es, k, first, Len(es), after)
  BY <1>2, Zenon DEF Rounds
<1>. QED  BY <1>3, <1>4, Zenon

\* After m rounds: the bounds stay among the entries, and the entries between
\* them are fewer with every round.
Narrowed(es, first, m, b) ==
  /\ b = [low |-> b.low, high |-> b.high, hit |-> b.hit]
  /\ b.low \in Int /\ b.high \in Int /\ b.hit \in Int
  /\ first <= b.low /\ b.low <= b.high + 1 /\ b.high < Len(es)
  /\ b.hit = 0 \/ (first <= b.hit /\ b.hit < Len(es))
  /\ b.hit # 0 \/ b.high + 1 - b.low <= Len(es) - m

\* What the comparisons have shown: the entries below the bounds are before
\* the key, those above them, but for the last, behind it.
RuledOut(es, k, first, b) ==
  /\ b.hit # 0 => es[b.hit].k = k
  /\ \A i \in Slots(es) : first <= i /\ i < b.low => es[i].k < k
  /\ \A i \in Slots(es) : b.high < i /\ i < Len(es) => k < es[i].k

\* A round goes one way or another.
LEMMA RoundGoes ==
  ASSUME NEW es, NEW k, NEW m, NEW first, NEW b, Narrowed(es, first, m, b), NEW c, c = Round(es, k, b),
         NEW mid, mid = (b.low + b.high) \div 2
  PROVE  /\ c = [low |-> c.low, high |-> c.high, hit |-> c.hit]
         /\ \/ (b.low > b.high \/ b.hit # 0) /\ c = b
            \/ /\ b.low <= b.high /\ b.hit = 0
               /\ \/ k < es[mid].k /\ c.low = b.low /\ c.high = mid - 1 /\ c.hit = 0
                  \/ k > es[mid].k /\ c.low = mid + 1 /\ c.high = b.high /\ c.hit = 0
                  \/ ~(k < es[mid].k) /\ ~(k > es[mid].k)
                     /\ c.low = b.low /\ c.high = b.high /\ c.hit = mid
<1>1. b = [low |-> b.low, high |-> b.high, hit |-> b.hit] /\ b.low \in Int /\ b.high \in Int
  BY DEF Narrowed
<1>2. c = IF b.low > b.high \/ b.hit # 0 THEN b
          ELSE IF k < es[mid].k THEN [b EXCEPT !.high = mid - 1]
          ELSE IF k > es[mid].k THEN [b EXCEPT !.low = mid + 1]
          ELSE [b EXCEPT !.hit = mid]
  BY Zenon DEF Round
<1>3. CASE b.low > b.high \/ b.hit # 0
  BY <1>1, <1>2, <1>3
<1>4. CASE b.low <= b.high /\ b.hit = 0
  <2>0. ~(b.low > b.high \/ b.hit # 0)
    BY <1>1, <1>4
  <2>1. CASE k < es[mid].k
    BY <1>1, <1>2, <1>4, <2>0, <2>1
  <2>2. CASE ~(k < es[mid].k) /\ k > es[mid].k
    BY <1>1, <1>2, <1>4, <2>0, <2>2
  <2>3. CASE ~(k < es[mid].k) /\ ~(k > es[mid].k)
    BY <1>1, <1>2, <1>4, <2>0, <2>3
  <2>. QED  BY <2>1, <2>2, <2>3
<1>. QED  BY <1>1, <1>3, <1>4

\* A round keeps the bounds and what is known of the entries outside them.
LEMMA RoundNarrows ==
  ASSUME NEW es, NEW k, NEW first, Len(es) \in Nat, first \in 1 .. Len(es),
         NEW m \in 0 .. (Len(es) - 1), NEW b, Narrowed(es, first, m, b),
         NEW c, c = Round(es, k, b)
  PROVE  /\ Narrowed(es, first, m + 1, c)
         /\ Ordered(es) /\ k \in Nat /\ RuledOut(es, k, first, b) => RuledOut(es, k, first, c)
<1>1. PICK mid : mid = (b.low + b.high) \div 2
  OBVIOUS
<1>2. PICK n \in Nat : n = Len(es)
  OBVIOUS
<1>3. PICK low \in Int, high \in Int, hit \in Int : low = b.low /\ high = b.high /\ hit = b.hit
  BY DEF Narrowed
<1>4. /\ first <= low /\ low <= high + 1 /\ high < n
      /\ hit = 0 \/ (first <= hit /\ hit < n)
      /\ hit # 0 \/ high + 1 - low <= n - m
  BY <1>2, <1>3 DEF Narrowed
<1>5. mid \in Int /\ (low <= high => low <= mid /\ mid <= high)
  <2>1. mid = (low + high) \div 2
    BY <1>1, <1>3
  <2>2. low + high \in Int
    OBVIOUS
  <2>. QED  BY <2>1, <2>2
<1>6. /\ c = [low |-> c.low, high |-> c.high, hit |-> c.hit]
      /\ \/ (low > high \/ hit # 0) /\ c = b
         \/ /\ low <= high /\ hit = 0
            /\ \/ k < es[mid].k /\ c.low = low /\ c.high = mid - 1 /\ c.hit = 0
               \/ k > es[mid].k /\ c.low = mid + 1 /\ c.high = high /\ c.hit = 0
               \/ ~(k < es[mid].k) /\ ~(k > es[mid].k)
                  /\ c.low = low /\ c.high = high /\ c.hit = mid
  BY <1>1, <1>3, RoundGoes
<1>7. /\ c.low \in Int /\ c.high \in Int /\ c.hit \in Int
      /\ first <= c.low /\ c.low <= c.high + 1 /\ c.high < n
      /\ c.hit = 0 \/ (first <= c.hit /\ c.hit < n)
      /\ c.hit # 0 \/ c.high + 1 - c.low <= n - (m + 1)
  <2>0. first \in Nat /\ m \in Nat /\ m < n /\ 1 <= first
    BY <1>2
  <2>1. CASE c = b /\ (low > high \/ hit # 0)
    BY <1>3, <1>4, <2>0, <2>1
  <2>2. CASE low <= high /\ hit = 0 /\ c.low = low /\ c.high = mid - 1 /\ c.hit = 0
    BY <1>4, <1>5, <2>0, <2>2
  <2>3. CASE low <= high /\ hit = 0 /\ c.low = mid + 1 /\ c.high = high /\ c.hit = 0
    BY <1>4, <1>5, <2>0, <2>3
  <2>4. CASE low <= high /\ hit = 0 /\ c.low = low /\ c.high = high /\ c.hit = mid
    BY <1>4, <1>5, <2>0, <2>4
  <2>. QED  BY <1>6, <2>1, <2>2, <2>3, <2>4
<1>8. Narrowed(es, first, m + 1, c)
  BY <1>2, <1>6, <1>7 DEF Narrowed
<1>9. ASSUME Ordered(es), k \in Nat, RuledOut(es, k, first, b) PROVE RuledOut(es, k, first, c)
  <2>1. /\ \A i \in 1 .. n : es[i].k \in Nat
        /\ \A i, j \in 1 .. n : i < j => es[i].k < es[j].k
    BY <1>2, <1>9 DEF Ordered, Slots
  <2>2. /\ hit # 0 => es[hit].k = k
        /\ \A i \in 1 .. n : first <= i /\ i < low => es[i].k < k
        /\ \A i \in 1 .. n : high < i /\ i < n => k < es[i].k
    BY <1>2, <1>3, <1>9 DEF RuledOut, Slots
  <2>3. low <= high => mid \in 1 .. n /\ es[mid].k \in Nat
    BY <1>2, <1>4, <1>5, <2>1
  <2>4. /\ c.hit # 0 => es[c.hit].k = k
        /\ \A i \in 1 .. n : first <= i /\ i < c.low => es[i].k < k
        /\ \A i \in 1 .. n : c.high < i /\ i < n => k < es[i].k
    <3>1. CASE c = b
      BY <1>3, <2>2, <3>1
    <3>2. CASE low <= high /\ k < es[mid].k /\ c.low = low /\ c.high = mid - 1 /\ c.hit = 0
      <4>1. \A i \in 1 .. n : mid - 1 < i => i = mid \/ mid < i
        BY <1>5
      <4>2. ASSUME NEW i \in 1 .. n, mid < i PROVE k < es[i].k
        <5>1. es[mid].k < es[i].k /\ es[i].k \in Nat /\ es[mid].k \in Nat
          BY <2>1, <2>3, <3>2, <4>2
        <5>2. k < es[mid].k /\ k \in Nat
          BY <1>9, <3>2
        <5>3. \A x, y, z \in Nat : x < y /\ y < z => x < z
          OBVIOUS
        <5>. QED  BY <5>1, <5>2, <5>3
      <4>. QED  BY <2>2, <3>2, <4>1, <4>2
    <3>3. CASE low <= high /\ k > es[mid].k /\ c.low = mid + 1 /\ c.high = high /\ c.hit = 0
      <4>1. \A i \in 1 .. n : i < mid + 1 => i = mid \/ i < mid
        BY <1>5
      <4>2. ASSUME NEW i \in 1 .. n, i < mid PROVE es[i].k < k
        <5>1. es[i].k < es[mid].k /\ es[i].k \in Nat /\ es[mid].k \in Nat
          BY <2>1, <2>3, <3>3, <4>2
        <5>2. es[mid].k < k /\ k \in Nat
          BY <1>9, <3>3, <5>1
        <5>3. \A x, y, z \in Nat : x < y /\ y < z => x < z
          OBVIOUS
        <5>. QED  BY <5>1, <5>2, <5>3
      <4>. QED  BY <1>9, <2>2, <2>3, <3>3, <4>1, <4>2
    <3>4. CASE low <= high /\ ~(k < es[mid].k) /\ ~(k > es[mid].k)
               /\ c.low = low /\ c.high = high /\ c.hit = mid
      <4>1. es[mid].k = k
        BY <1>9, <2>3, <3>4
      <4>. QED  BY <2>2, <3>4, <4>1
    <3>. QED  BY <1>6, <3>1, <3>2, <3>3, <3>4
  <2>. QED  BY <1>2, <2>4 DEF RuledOut, Slots
<1>. QED  BY <1>8, <1>9

\* The loop has ended, at a key equal to the one sought or with every entry
\* compared or ruled out.
Ended(es, k, first, b) ==
  /\ b.hit = 0 => b.low \in first .. Len(es)
  /\ b.hit # 0 => b.hit \in first .. (Len(es) - 1)
  /\ Ordered(es) /\ k \in Nat =>
       /\ b.hit # 0 => es[b.hit].k = k
       /\ b.hit = 0 => \A i \in Slots(es) : /\ first <= i /\ i < b.low => es[i].k < k
                                            /\ b.low <= i /\ i < Len(es) => k < es[i].k

\* The loop ends within as many rounds as the page has entries.
LEMMA SearchEnds ==
  ASSUME NEW es, NEW k, NEW first, Len(es) \in Nat, first \in 1 .. Len(es)
  PROVE  Ended(es, k, first, Searched(es, k, first))
<1>1. PICK n \in Nat : n = Len(es)
  OBVIOUS
<1>2. PICK f : Rounds(es, k, first, Len(es), f) /\ Searched(es, k, first) = f[Len(es)]
  BY SearchedIsTheLast
<1>3. /\ f[0] = [low |-> first, high |-> n - 1, hit |-> 0]
      /\ \A m \in 0 .. n : m # 0 => f[m] = Round(es, k, f[m - 1])
  BY <1>1, <1>2 DEF Rounds
<1>4. PICK S : S = {m \in 0 .. n : /\ Narrowed(es, first, m, f[m])
                                   /\ Ordered(es) /\ k \in Nat => RuledOut(es, k, first, f[m])}
  OBVIOUS
<1>5. 0 \in S
  <2>1. PICK b : b = f[0]
    OBVIOUS
  <2>2. b = [low |-> first, high |-> n - 1, hit |-> 0]
    BY <1>3, <2>1
  <2>3. b.low = first /\ b.high = n - 1 /\ b.hit = 0
    BY <2>2
  <2>4. Narrowed(es, first, 0, b)
    BY <1>1, <2>2, <2>3 DEF Narrowed
  <2>5. RuledOut(es, k, first, b)
    BY <1>1, <2>3 DEF RuledOut, Slots
  <2>. QED  BY <1>4, <2>1, <2>4, <2>5
<1>6. ASSUME NEW m \in 0 .. (n - 1), m \in S PROVE m + 1 \in S
  <2>1. PICK b : b = f[m]
    OBVIOUS
  <2>2. PICK c : c = f[m + 1]
    OBVIOUS
  <2>3. /\ Narrowed(es, first, m, b)
        /\ Ordered(es) /\ k \in Nat => RuledOut(es, k, first, b)
    BY <1>4, <1>6, <2>1
  <2>4. c = Round(es, k, b)
    <3>1. m + 1 \in 0 .. n /\ m + 1 # 0 /\ (m + 1) - 1 = m
      OBVIOUS
    <3>. QED  BY <1>3, <2>1, <2>2, <3>1
  <2>5. /\ Narrowed(es, first, m + 1, c)
        /\ Ordered(es) /\ k \in Nat /\ RuledOut(es, k, first, b) => RuledOut(es, k, first, c)
    BY <1>1, <2>3, <2>4, RoundNarrows
  <2>6. m + 1 \in 0 .. n
    OBVIOUS
  <2>. QED  BY <1>4, <2>2, <2>3, <2>5, <2>6
<1>7. n \in S
  <2>1. n \in 0 .. n
    OBVIOUS
  <2>. QED  BY <1>5, <1>6, <2>1, UpTo
<1>8. PICK b : b = f[n]
  OBVIOUS
<1>9. /\ Narrowed(es, first, n, b)
      /\ Ordered(es) /\ k \in Nat => RuledOut(es, k, first, b)
  BY <1>4, <1>7, <1>8
<1>10. /\ b.low \in Int /\ b.high \in Int /\ b.hit \in Int
       /\ first <= b.low /\ b.low <= b.high + 1 /\ b.high < n
       /\ b.hit = 0 \/ (first <= b.hit /\ b.hit < n)
       /\ b.hit # 0 \/ b.high + 1 - b.low <= n - n
  BY <1>1, <1>9 DEF Narrowed
<1>11. b.hit = 0 => b.low = b.high + 1
  BY <1>10
<1>12. /\ b.hit = 0 => b.low \in first .. n
       /\ b.hit # 0 => b.hit \in first .. (n - 1)
  BY <1>1, <1>10, <1>11
<1>13. ASSUME Ordered(es), k \in Nat
       PROVE  /\ b.hit # 0 => es[b.hit].k = k
              /\ b.hit = 0 => \A i \in Slots(es) : /\ first <= i /\ i < b.low => es[i].k < k
                                                   /\ b.low <= i /\ i < Len(es) => k < es[i].k
  <2>1. RuledOut(es, k, first, b)
    BY <1>9, <1>13
  <2>2. \A i \in Slots(es) : i \in Int
    BY <1>1 DEF Slots
  <2>. QED  BY <1>10, <1>11, <2>1, <2>2 DEF RuledOut
<1>14. Ended(es, k, first, b)
  BY <1>1, <1>12, <1>13 DEF Ended
<1>. QED  BY <1>1, <1>2, <1>8, <1>14

\* The answers of searchPage on a page of n entries.
Answers(es, n, leaf, k, x) ==
  \/ (n = 0 \/ (n = 1 /\ ~leaf)) /\ x = 1
  \/ n # 0 /\ k > es[n].k /\ x = IF leaf THEN n + 1 ELSE n
  \/ n # 0 /\ k = es[n].k /\ x = n
  \/ /\ n # 0 /\ (leaf \/ n # 1) /\ ~(k > es[n].k) /\ k # es[n].k
     /\ \E b : /\ Ended(es, k, IF leaf THEN 1 ELSE 2, b)
               /\ x = IF b.hit # 0 THEN b.hit ELSE IF leaf THEN b.low ELSE b.low - 1

\* It gives no other.
LEMMA SearchPageCases ==
  ASSUME NEW page, NEW k, NEW es, es = page.ents, NEW n \in Nat, n = Len(es),
         NEW leaf \in BOOLEAN, leaf <=> page.type = "leaf",
         NEW x, x = SearchPage(page, k)
  PROVE  Answers(es, n, leaf, k, x)
<1>1. PICK first : first = IF leaf THEN 1 ELSE 2
  OBVIOUS
<1>2. PICK b : b = Searched(es, k, first)
  OBVIOUS
<1>3. PICK isLeaf : isLeaf = (page.type = "leaf")
  OBVIOUS
<1>4. x = IF n = 0 \/ (n = 1 /\ page.type # "leaf") THEN 1
          ELSE IF k > es[n].k THEN (IF page.type = "leaf" THEN n + 1 ELSE n)
          ELSE IF k = es[n].k THEN n
          ELSE IF b.hit # 0 THEN b.hit
          ELSE IF page.type = "leaf" THEN b.low ELSE b.low - 1
  <2>1. first = IF page.type = "leaf" THEN 1 ELSE 2
    BY <1>1
  <2>. QED  BY <1>2, <2>1 DEF SearchPage
<1>5. (n = 0 \/ (n = 1 /\ ~leaf)) \/ Ended(es, k, first, b)
  <2>. SUFFICES ASSUME ~(n = 0 \/ (n = 1 /\ ~leaf)) PROVE Ended(es, k, first, b)
    OBVIOUS
  <2>1. first \in 1 .. Len(es) /\ Len(es) \in Nat
    <3>1. CASE leaf
      BY <1>1, <3>1
    <3>2. CASE ~leaf
      <4>1. first = 2 /\ n # 0 /\ n # 1
        BY <1>1, <3>2, Zenon
      <4>2. \A j, m \in Nat : j = 2 /\ m # 0 /\ m # 1 => j \in 1 .. m
        OBVIOUS
      <4>3. 2 \in Nat
        OBVIOUS
      <4>. QED  BY <4>1, <4>2, <4>3, Zenon
    <3>. QED  BY <3>1, <3>2
  <2>. QED  BY <1>2, <2>1, SearchEnds
<1>6. PICK y : y = IF b.hit # 0 THEN b.hit ELSE IF leaf THEN b.low ELSE b.low - 1
  OBVIOUS
<1>7. x = IF n = 0 \/ (n = 1 /\ ~leaf) THEN 1
          ELSE IF k > es[n].k THEN (IF leaf THEN n + 1 ELSE n)
          ELSE IF k = es[n].k THEN n
          ELSE y
  BY <1>4, <1>6
<1>. QED  BY <1>1, <1>5, <1>6, <1>7, Zenon DEF Answers

(***************************************************************************)
(* On a leaf whose keys grow, searchPage's halving stops at the first      *)
(* entry that is not before the key, or behind the last: every key before  *)
(* it is smaller, every other one is not.  A Get that compares that one    *)
(* entry is right.                                                         *)
(***************************************************************************)
THEOREM LeafSearch ==
  ASSUME NEW E, NEW page, page.type = "leaf", page.ents \in Seq(E),
         Ordered(page.ents), NEW k \in Nat
  PROVE  LET x == SearchPage(page, k)
         IN  /\ x \in 1 .. Len(page.ents) + 1
             /\ \A i \in Slots(page.ents) : page.ents[i].k < k <=> i < x
<1>1. PICK es : es = page.ents
  OBVIOUS
<1>2. PICK n \in Nat : n = Len(es)
  BY <1>1
<1>3. PICK x : x = SearchPage(page, k)
  OBVIOUS
<1>4. /\ \A i \in 1 .. n : es[i].k \in Nat
      /\ \A i, j \in 1 .. n : i < j => es[i].k < es[j].k
  BY <1>1, <1>2 DEF Ordered, Slots
<1>5. \/ n = 0 /\ x = 1
      \/ n # 0 /\ k > es[n].k /\ x = n + 1
      \/ n # 0 /\ k = es[n].k /\ x = n
      \/ /\ n # 0 /\ ~(k > es[n].k) /\ k # es[n].k
         /\ \E b : Ended(es, k, 1, b) /\ x = IF b.hit # 0 THEN b.hit ELSE b.low
  <2>1. PICK leaf \in BOOLEAN : leaf = TRUE
    OBVIOUS
  <2>2. leaf <=> page.type = "leaf"
    BY <2>1
  <2>3. Answers(es, n, leaf, k, x)
    BY <1>1, <1>2, <1>3, <2>2, SearchPageCases
  <2>. QED  BY <2>1, <2>3, Zenon DEF Answers
<1>6. x \in 1 .. n + 1 /\ \A i \in 1 .. n : es[i].k < k <=> i < x
  <2>1. CASE n = 0 /\ x = 1
    BY <2>1
  <2>2. CASE n # 0 /\ k > es[n].k /\ x = n + 1
    <3>1. \A i \in 1 .. n : i = n \/ es[i].k < es[n].k
      BY <1>4, <2>2
    <3>. QED  BY <1>4, <2>2, <3>1
  <2>3. CASE n # 0 /\ k = es[n].k /\ x = n
    BY <1>4, <2>3
  <2>4. CASE /\ n # 0 /\ ~(k > es[n].k) /\ k # es[n].k
             /\ \E b : Ended(es, k, 1, b) /\ x = IF b.hit # 0 THEN b.hit ELSE b.low
    <3>1. PICK b : Ended(es, k, 1, b) /\ x = IF b.hit # 0 THEN b.hit ELSE b.low
      BY <2>4
    <3>2. k < es[n].k
      BY <1>4, <2>4
    <3>3. /\ b.hit = 0 => b.low \in 1 .. n
          /\ b.hit # 0 => b.hit \in 1 .. (n - 1)
          /\ b.hit # 0 => es[b.hit].k = k
          /\ b.hit = 0 => \A i \in 1 .. n : /\ i < b.low => es[i].k < k
                                            /\ b.low <= i /\ i < n => k < es[i].k
      BY <1>1, <1>2, <3>1 DEF Ended, Slots
    <3>4. CASE b.hit = 0
      <4>1. x \in 1 .. n
        BY <3>1, <3>3, <3>4
      <4>2. \A i \in 1 .. n : i < x => es[i].k < k
        BY <3>1, <3>3, <3>4
      <4>3. \A i \in 1 .. n : x <= i => k < es[i].k
        BY <3>1, <3>2, <3>3, <3>4
      <4>4. ASSUME NEW i \in 1 .. n PROVE es[i].k < k <=> i < x
        <5>1. es[i].k \in Nat /\ i \in Nat /\ x \in Nat
          BY <1>4, <4>1
        <5>. QED  BY <4>2, <4>3, <5>1
      <4>. QED  BY <4>1, <4>4
    <3>5. CASE b.hit # 0
      <4>1. x \in 1 .. (n - 1) /\ es[x].k = k
        BY <3>1, <3>3, <3>5
      <4>2. ASSUME NEW i \in 1 .. n PROVE es[i].k < k <=> i < x
        <5>1. i < x => es[i].k < es[x].k
          BY <1>4, <4>1
        <5>2. x < i => es[x].k < es[i].k
          BY <1>4, <4>1
        <5>3. i = x \/ i < x \/ x < i
          BY <4>1
        <5>4. es[i].k \in Nat
          BY <1>4
        <5>. QED  BY <4>1, <5>1, <5>2, <5>3, <5>4
      <4>. QED  BY <4>1, <4>2
    <3>. QED  BY <3>4, <3>5
  <2>. QED  BY <1>5, <2>1, <2>2, <2>3, <2>4
<1>. QED  BY <1>1, <1>2, <1>3, <1>6 DEF Slots

(***************************************************************************)
(* On a branch page, whose first entry stands for every key, the halving   *)
(* stops at the one entry whose range holds the key: the separator there   *)
(* is not after it, and every later one is.                                *)
(***************************************************************************)
THEOREM BranchSearch ==
  ASSUME NEW E, NEW page, page.type = "branch", page.ents \in Seq(E),
         page.ents # <<>>, Ordered(page.ents), NEW k \in Nat
  PROVE  LET x == SearchPage(page, k)
         IN  /\ x \in Slots(page.ents)
             /\ \A i \in Slots(page.ents) \ {1} : page.ents[i].k <= k <=> i <= x
<1>1. PICK es : es = page.ents
  OBVIOUS
<1>2. PICK n \in Nat : n = Len(es) /\ n # 0
  BY <1>1
<1>3. PICK x : x = SearchPage(page, k)
  OBVIOUS
<1>4. /\ \A i \in 1 .. n : es[i].k \in Nat
      /\ \A i, j \in 1 .. n : i < j => es[i].k < es[j].k
  BY <1>1, <1>2 DEF Ordered, Slots
<1>5. \/ n = 1 /\ x = 1
      \/ n # 0 /\ k > es[n].k /\ x = n
      \/ n # 0 /\ k = es[n].k /\ x = n
      \/ /\ n # 0 /\ n # 1 /\ ~(k > es[n].k) /\ k # es[n].k
         /\ \E b : Ended(es, k, 2, b) /\ x = IF b.hit # 0 THEN b.hit ELSE b.low - 1
  <2>1. PICK leaf \in BOOLEAN : leaf = FALSE
    OBVIOUS
  <2>2. leaf <=> page.type = "leaf"
    BY <2>1
  <2>3. Answers(es, n, leaf, k, x)
    BY <1>1, <1>2, <1>3, <2>2, SearchPageCases
  <2>. QED  BY <1>2, <2>1, <2>3, Zenon DEF Answers
<1>6. x \in 1 .. n /\ \A i \in 2 .. n : es[i].k <= k <=> i <= x
  <2>1. CASE n = 1 /\ x = 1
    BY <2>1
  <2>2. CASE (k > es[n].k \/ k = es[n].k) /\ x = n
    <3>1. \A i \in 1 .. n : i = n \/ es[i].k < es[n].k
      BY <1>2, <1>4
    <3>. QED  BY <1>2, <1>4, <2>2, <3>1
  <2>3. CASE /\ n # 1 /\ ~(k > es[n].k) /\ k # es[n].k
             /\ \E b : Ended(es, k, 2, b) /\ x = IF b.hit # 0 THEN b.hit ELSE b.low - 1
    <3>1. PICK b : Ended(es, k, 2, b) /\ x = IF b.hit # 0 THEN b.hit ELSE b.low - 1
      BY <2>3
    <3>2. k < es[n].k
      BY <1>2, <1>4, <2>3
    <3>3. /\ b.hit = 0 => b.low \in 2 .. n
          /\ b.hit # 0 => b.hit \in 2 .. (n - 1)
          /\ b.hit # 0 => es[b.hit].k = k
          /\ b.hit = 0 => \A i \in 2 .. n : /\ i < b.low => es[i].k < k
                                            /\ b.low <= i /\ i < n => k < es[i].k
      BY <1>1, <1>2, <3>1 DEF Ended, Slots
    <3>4. CASE b.hit = 0
      <4>1. x \in 1 .. n /\ b.low \in Nat /\ x = b.low - 1
        BY <3>1, <3>3, <3>4
      <4>2. \A i \in 2 .. n : i <= x => es[i].k < k
        BY <3>3, <3>4, <4>1
      <4>3. \A i \in 2 .. n : x < i => k < es[i].k
        BY <3>2, <3>3, <3>4, <4>1
      <4>4. ASSUME NEW i \in 2 .. n PROVE es[i].k <= k <=> i <= x
        <5>1. es[i].k \in Nat /\ i \in Nat /\ x \in Nat
          BY <1>4, <4>1
        <5>. QED  BY <4>2, <4>3, <5>1
      <4>. QED  BY <4>1, <4>4
    <3>5. CASE b.hit # 0
      <4>1. x \in 2 .. (n - 1) /\ es[x].k = k
        BY <3>1, <3>3, <3>5
      <4>2. ASSUME NEW i \in 2 .. n PROVE es[i].k <= k <=> i <= x
        <5>1. i < x => es[i].k < es[x].k
          BY <1>4, <4>1
        <5>2. x < i => es[x].k < es[i].k
          BY <1>4, <4>1
        <5>3. i = x \/ i < x \/ x < i
          BY <4>1
        <5>4. es[i].k \in Nat
          BY <1>4
        <5>. QED  BY <4>1, <5>1, <5>2, <5>3, <5>4
      <4>. QED  BY <4>1, <4>2
    <3>. QED  BY <3>4, <3>5
  <2>. QED  BY <1>5, <2>1, <2>2, <2>3
<1>. QED  BY <1>1, <1>2, <1>3, <1>6 DEF Slots

(***************************************************************************)
(* page.splitPoint and the two pages a split makes                         *)
(***************************************************************************)

\* A sequence all that is es with node at p.
IsInserted(all, E, es, node, p) ==
  /\ all \in Seq(E)
  /\ Len(all) = Len(es) + 1
  /\ \A j \in 1 .. Len(es) + 1 :
       all[j] = IF j < p THEN es[j] ELSE IF j = p THEN node ELSE es[j - 1]

\* That is what InsertAt makes.
LEMMA Inserted ==
  ASSUME NEW E, NEW es \in Seq(E), NEW node \in E, NEW p \in 1 .. Len(es) + 1,
         NEW all, all = InsertAt(es, p, node)
  PROVE  IsInserted(all, E, es, node, p)
<1>0. PICK front, back : front = SubSeq(es, 1, p - 1) /\ back = SubSeq(es, p, Len(es))
  OBVIOUS
<1>1. front \in Seq(E) /\ Len(front) = p - 1 /\ \A j \in 1 .. p - 1 : front[j] = es[j]
  BY <1>0
<1>2. /\ back \in Seq(E) /\ Len(back) = Len(es) - p + 1
      /\ \A j \in 1 .. Len(es) - p + 1 : back[j] = es[p + j - 1]
  BY <1>0
<1>3. InsertAt(es, p, node) = front \o <<node>> \o back
  BY <1>0 DEF InsertAt
<1>4. PICK first : first = front \o <<node>>
  OBVIOUS
<1>5. /\ first \in Seq(E) /\ Len(first) = p
      /\ \A j \in 1 .. p : first[j] = IF j < p THEN es[j] ELSE node
  BY <1>1, <1>4
<1>6. all = first \o back
  BY <1>3, <1>4
<1>7. all \in Seq(E) /\ Len(all) = Len(es) + 1
  <2>1. first \in Seq(E) /\ back \in Seq(E)
    BY <1>2, <1>5
  <2>2. first \o back \in Seq(E)
    BY <2>1
  <2>3. Len(first \o back) = Len(first) + Len(back)
    BY <2>1
  <2>. QED  BY <1>2, <1>5, <1>6, <2>2, <2>3
<1>8. ASSUME NEW j \in 1 .. Len(es) + 1
      PROVE  all[j] = IF j < p THEN es[j] ELSE IF j = p THEN node ELSE es[j - 1]
  <2>1. CASE j <= p
    <3>1. all[j] = first[j]
      BY <1>2, <1>5, <1>6, <2>1
    <3>. QED  BY <1>5, <2>1, <3>1
  <2>2. CASE j > p
    <3>1. all[j] = back[j - p]
      BY <1>2, <1>5, <1>6, <2>2
    <3>2. j - p \in 1 .. Len(es) - p + 1 /\ p + (j - p) - 1 = j - 1
      BY <2>2
    <3>. QED  BY <1>2, <2>2, <3>1, <3>2
  <2>. QED  BY <2>1, <2>2
<1>. QED  BY <1>7, <1>8 DEF IsInserted

(***************************************************************************)
(* The two pages of a split hold the entries of the page with the new one  *)
(* in its place, in that order and nothing else.  The one exception is a   *)
(* split before the first entry of a node that does not belong there:      *)
(* splitAndInsert then leaves the new node alone on the left page.         *)
(***************************************************************************)
THEOREM SplitKeepsEntries ==
  ASSUME NEW E, NEW es \in Seq(E), NEW node \in E, NEW i \in 0 .. Len(es),
         NEW x \in 0 .. Len(es), x > 0 \/ i = 0
  PROVE  SplitLeft(es, node, i, x) \o SplitRight(es, node, i, x) = InsertAt(es, i + 1, node)
<1>. DEFINE n     == Len(es)
            At(j) == IF j < i + 1 THEN es[j] ELSE IF j = i + 1 THEN node ELSE es[j - 1]
<1>0. PICK left, right : left = SplitLeft(es, node, i, x) /\ right = SplitRight(es, node, i, x)
  OBVIOUS
<1>b. PICK stay, moved : stay = SubSeq(es, 1, x) /\ moved = SubSeq(es, x + 1, n)
  OBVIOUS
<1>. DEFINE Halves(m) == /\ left \in Seq(E) /\ Len(left) = m
                         /\ right \in Seq(E) /\ Len(right) = n + 1 - m
                         /\ \A j \in 1 .. m : left[j] = At(j)
                         /\ \A j \in 1 .. n + 1 - m : right[j] = At(m + j)
<1>1. stay \in Seq(E) /\ Len(stay) = x /\ \A j \in 1 .. x : stay[j] = es[j]
  BY <1>b
<1>2. /\ moved \in Seq(E) /\ Len(moved) = n - x
      /\ \A j \in 1 .. n - x : moved[j] = es[x + j]
  BY <1>b
<1>3. PICK m \in 0 .. n + 1 : Halves(m)
  <2>1. CASE x = 0
    <3>1. i = 0 /\ left = <<node>> /\ right = moved
      BY <1>0, <1>b, <2>1 DEF SplitLeft, SplitRight
    <3>2. /\ left \in Seq(E) /\ Len(left) = 1 /\ \A j \in 1 .. 1 : left[j] = At(j)
      BY <3>1
    <3>3. /\ right \in Seq(E) /\ Len(right) = n + 1 - 1
          /\ \A j \in 1 .. n + 1 - 1 : right[j] = At(1 + j)
      BY <1>2, <2>1, <3>1
    <3>4. 1 \in 0 .. n + 1
      OBVIOUS
    <3>5. Halves(1)
      BY <3>2, <3>3
    <3>. HIDE DEF Halves
    <3>. QED  BY <3>4, <3>5
  <2>2. CASE x > 0 /\ i < x
    <3>1. left = InsertAt(stay, i + 1, node) /\ right = moved
      BY <1>0, <1>b, <2>2 DEF SplitLeft, SplitRight
    <3>2. /\ left \in Seq(E) /\ Len(left) = x + 1
          /\ \A j \in 1 .. x + 1 :
               left[j] = IF j < i + 1 THEN stay[j] ELSE IF j = i + 1 THEN node ELSE stay[j - 1]
      <4>1. i + 1 \in 1 .. Len(stay) + 1
        BY <1>1, <2>2
      <4>2. IsInserted(left, E, stay, node, i + 1)
        BY <1>1, <3>1, <4>1, Inserted
      <4>. QED  BY <1>1, <4>2 DEF IsInserted
    <3>3. \A j \in 1 .. x + 1 : left[j] = At(j)
      BY <1>1, <2>2, <3>2
    <3>4. /\ right \in Seq(E) /\ Len(right) = n + 1 - (x + 1)
          /\ \A j \in 1 .. n + 1 - (x + 1) : right[j] = At((x + 1) + j)
      BY <1>2, <2>2, <3>1
    <3>5. x + 1 \in 0 .. n + 1
      OBVIOUS
    <3>6. Halves(x + 1)
      BY <3>2, <3>3, <3>4
    <3>. HIDE DEF Halves
    <3>. QED  BY <3>5, <3>6
  <2>3. CASE x > 0 /\ i >= x
    <3>1. left = stay /\ right = InsertAt(moved, i - x + 1, node)
      BY <1>0, <1>b, <2>3 DEF SplitLeft, SplitRight
    <3>2. /\ right \in Seq(E) /\ Len(right) = n - x + 1
          /\ \A j \in 1 .. n - x + 1 :
               right[j] = IF j < i - x + 1 THEN moved[j]
                          ELSE IF j = i - x + 1 THEN node ELSE moved[j - 1]
      <4>1. i - x + 1 \in 1 .. Len(moved) + 1
        BY <1>2, <2>3
      <4>2. IsInserted(right, E, moved, node, i - x + 1)
        BY <1>2, <3>1, <4>1, Inserted
      <4>. QED  BY <1>2, <4>2 DEF IsInserted
    <3>3. ASSUME NEW j \in 1 .. n + 1 - x PROVE right[j] = At(x + j)
      <4>. j \in 1 .. n - x + 1
        BY <1>2
      <4>0. right[j] = IF j < i - x + 1 THEN moved[j]
                       ELSE IF j = i - x + 1 THEN node ELSE moved[j - 1]
        BY <3>2, Zenon
      <4>1. CASE j < i - x + 1
        <5>1. right[j] = moved[j] /\ moved[j] = es[x + j] /\ x + j < i + 1
          BY <1>2, <2>3, <4>0, <4>1
        <5>. QED  BY <5>1
      <4>2. CASE j = i - x + 1
        <5>1. right[j] = node /\ x + j = i + 1
          BY <2>3, <4>0, <4>2
        <5>. QED  BY <5>1
      <4>3. CASE j > i - x + 1
        <5>1. right[j] = moved[j - 1]
          BY <2>3, <4>0, <4>3
        <5>2. j - 1 \in 1 .. n - x /\ x + (j - 1) = x + j - 1 /\ x + j > i + 1
          BY <2>3, <4>3
        <5>. QED  BY <1>2, <5>1, <5>2
      <4>. QED  BY <4>1, <4>2, <4>3
    <3>4. left \in Seq(E) /\ Len(left) = x /\ \A j \in 1 .. x : left[j] = At(j)
      BY <1>1, <2>3, <3>1
    <3>5. x \in 0 .. n + 1 /\ Len(right) = n + 1 - x
      BY <3>2
    <3>6. Halves(x)
      BY <3>2, <3>3, <3>4, <3>5
    <3>. HIDE DEF Halves
    <3>. QED  BY <3>5, <3>6
  <2>. HIDE DEF Halves
  <2>. QED  BY <2>1, <2>2, <2>3
<1>4. PICK all : all = InsertAt(es, i + 1, node)
  OBVIOUS
<1>5. all \in Seq(E) /\ Len(all) = n + 1 /\ \A j \in 1 .. n + 1 : all[j] = At(j)
  <2>1. i + 1 \in 1 .. n + 1
    OBVIOUS
  <2>2. IsInserted(all, E, es, node, i + 1)
    BY <1>4, <2>1, Inserted
  <2>. QED  BY <2>2 DEF IsInserted
<1>. HIDE DEF At
<1>6. PICK both : both = left \o right
  OBVIOUS
<1>7. both \in Seq(E) /\ Len(both) = n + 1
  <2>1. both \in Seq(E) /\ Len(both) = Len(left) + Len(right)
    BY <1>3, <1>6
  <2>. QED  BY <1>3, <2>1
<1>8. ASSUME NEW j \in 1 .. n + 1 PROVE both[j] = At(j)
  <2>1. CASE j <= m
    BY <1>3, <1>6, <2>1
  <2>2. CASE j > m
    <3>1. both[j] = right[j - m]
      BY <1>3, <1>6, <2>2
    <3>2. j - m \in 1 .. n + 1 - m /\ m + (j - m) = j
      BY <2>2
    <3>. QED  BY <1>3, <3>1, <3>2
  <2>. QED  BY <2>1, <2>2
<1>9. both = all
  BY <1>5, <1>7, <1>8
<1>. QED  BY <1>0, <1>4, <1>6, <1>9

(***************************************************************************)
(* Put where searchPage lands on a leaf, a key the leaf lacks leaves the   *)
(* keys in order, and whichever index the leaf is split at, every key of   *)
(* the left page is before every key of the right one: the separator that  *)
(* splitAndInsert gives the parent divides them.                           *)
(***************************************************************************)
THEOREM SplitKeepsOrder ==
  ASSUME NEW E, NEW page, page.type = "leaf", page.ents \in Seq(E), Ordered(page.ents),
         NEW node \in E, node.k \in Nat,
         \A j \in Slots(page.ents) : page.ents[j].k # node.k,
         NEW i, i = SearchPage(page, node.k) - 1,
         NEW x \in 0 .. Len(page.ents), x > 0 \/ i = 0
  PROVE  Ordered(SplitLeft(page.ents, node, i, x) \o SplitRight(page.ents, node, i, x))
<1>1. PICK es : es = page.ents
  OBVIOUS
<1>2. /\ i \in 0 .. Len(es)
      /\ \A j \in 1 .. Len(es) : es[j].k < node.k <=> j < i + 1
  <2>1. PICK at : at = SearchPage(page, node.k)
    OBVIOUS
  <2>2. /\ at \in 1 .. Len(es) + 1
        /\ \A j \in 1 .. Len(es) : es[j].k < node.k <=> j < at
    BY <1>1, <2>1, LeafSearch DEF Slots
  <2>. QED  BY <2>1, <2>2
<1>3. PICK all : all = InsertAt(es, i + 1, node)
  OBVIOUS
<1>4. IsInserted(all, E, es, node, i + 1)
  <2>1. i + 1 \in 1 .. Len(es) + 1
    BY <1>2
  <2>. QED  BY <1>1, <1>3, <2>1, Inserted
<1>5. SplitLeft(es, node, i, x) \o SplitRight(es, node, i, x) = all
  BY <1>1, <1>2, <1>3, SplitKeepsEntries
<1>6. /\ \A j \in 1 .. Len(es) : es[j].k \in Nat /\ es[j].k # node.k
      /\ \A j, l \in 1 .. Len(es) : j < l => es[j].k < es[l].k
  BY <1>1 DEF Ordered, Slots
<1>7. /\ Len(es) \in Nat /\ Len(all) = Len(es) + 1
      /\ \A j \in 1 .. Len(es) + 1 :
           /\ j < i + 1 => all[j] = es[j]
           /\ j = i + 1 => all[j] = node
           /\ j > i + 1 => all[j] = es[j - 1]
  BY <1>1, <1>2, <1>4 DEF IsInserted
<1>8. \A j \in 1 .. Len(es) : j >= i + 1 => node.k < es[j].k
  BY <1>2, <1>6
<1>9. \A j \in 1 .. Len(es) + 1 : all[j].k \in Nat
  <2>. TAKE j \in 1 .. Len(es) + 1
  <2>1. CASE j < i + 1
    BY <1>2, <1>6, <1>7, <2>1
  <2>2. CASE j = i + 1
    BY <1>7, <2>2
  <2>3. CASE j > i + 1
    <3>1. j - 1 \in 1 .. Len(es)
      BY <1>2, <2>3
    <3>. QED  BY <1>6, <1>7, <2>3, <3>1
  <2>. QED  BY <1>2, <2>1, <2>2, <2>3
<1>10. ASSUME NEW j \in 1 .. Len(es) + 1, NEW l \in 1 .. Len(es) + 1, j < l
       PROVE  all[j].k < all[l].k
  <2>1. CASE l < i + 1
    <3>1. all[j] = es[j] /\ all[l] = es[l] /\ j \in 1 .. Len(es) /\ l \in 1 .. Len(es)
      BY <1>2, <1>7, <1>10, <2>1
    <3>. QED  BY <1>6, <1>10, <3>1
  <2>2. CASE l = i + 1
    <3>1. all[j] = es[j] /\ all[l] = node /\ j \in 1 .. Len(es) /\ j < i + 1
      BY <1>2, <1>7, <1>10, <2>2
    <3>. QED  BY <1>2, <3>1
  <2>3. CASE l > i + 1
    <3>1. all[l] = es[l - 1] /\ l - 1 \in 1 .. Len(es) /\ l - 1 >= i + 1
      BY <1>2, <1>7, <2>3
    <3>2. CASE j < i + 1
      <4>1. all[j] = es[j] /\ j \in 1 .. Len(es) /\ j < l - 1
        BY <1>2, <1>7, <2>3, <3>2
      <4>. QED  BY <1>6, <3>1, <4>1
    <3>3. CASE j = i + 1
      <4>1. all[j] = node
        BY <1>7, <3>3
      <4>. QED  BY <1>8, <3>1, <4>1
    <3>4. CASE j > i + 1
      <4>1. all[j] = es[j - 1] /\ j - 1 \in 1 .. Len(es) /\ j - 1 < l - 1
        BY <1>2, <1>7, <1>10, <3>4
      <4>. QED  BY <1>6, <3>1, <4>1
    <3>. QED  BY <1>2, <3>2, <3>3, <3>4
  <2>. QED  BY <1>2, <2>1, <2>2, <2>3
<1>. QED  BY <1>1, <1>5, <1>7, <1>9, <1>10 DEF Ordered, Slots

(***************************************************************************)
(* A split that fits is found: when the entries of a page and a new node   *)
(* can be divided at some index into two pages that hold something and     *)
(* fit, splitPoint divides them at one, whether it takes the page for an   *)
(* append, the middle, or the valid index nearest to it.                   *)
(***************************************************************************)
THEOREM SplitPointFits ==
  ASSUME NEW E, NEW es \in Seq(E), es # <<>>, NEW node \in E, NEW i \in 0 .. Len(es),
         NEW y \in 0 .. Len(es),
         \A half \in {SplitLeft(es, node, i, y), SplitRight(es, node, i, y)} :
           half # <<>> /\ Fits(half)
  PROVE  LET x == SplitPoint(es, node, i)
         IN  /\ x \in 0 .. Len(es)
             /\ \A half \in {SplitLeft(es, node, i, x), SplitRight(es, node, i, x)} :
                  half # <<>> /\ Fits(half)
<1>. DEFINE n   == Len(es)
            mid == IF n = 1 THEN 1 ELSE n \div 2
            Valid(x) == \A half \in {SplitLeft(es, node, i, x), SplitRight(es, node, i, x)} :
                          half # <<>> /\ Fits(half)
            Distance(x) == IF x < mid THEN 2 * (mid - x) + (IF i < mid THEN 0 ELSE 1)
                                      ELSE 2 * (x - mid) + (IF i < mid THEN 1 ELSE 0)
            valid == {x \in 0 .. n : Valid(x)}
            nearest == CHOOSE x \in valid : \A z \in valid : Distance(x) <= Distance(z)
<1>1. n \in Nat /\ n # 0
  OBVIOUS
<1>2. y \in valid
  OBVIOUS
<1>3. SplitPoint(es, node, i) = IF i >= n /\ Fits(es) /\ Fits(<<node>>) THEN n
                                ELSE IF valid = {} \/ mid \in valid THEN mid
                                ELSE nearest
  BY <1>1, Zenon DEF SplitPoint
<1>4. CASE i >= n /\ Fits(es) /\ Fits(<<node>>)
  <2>1. SplitPoint(es, node, i) = n
    BY <1>3, <1>4
  <2>2. SplitLeft(es, node, i, n) = es
    BY <1>1, <1>4 DEF SplitLeft
  <2>3. SplitRight(es, node, i, n) = <<node>>
    <3>1. i = n
      BY <1>4
    <3>2. SplitRight(es, node, i, n) = InsertAt(SubSeq(es, n + 1, Len(es)), 1, node)
      BY <1>1, <3>1 DEF SplitRight
    <3>3. SubSeq(es, n + 1, Len(es)) = <<>>
      OBVIOUS
    <3>4. InsertAt(<<>>, 1, node) = <<node>>
      <4>1. PICK all : all = InsertAt(<<>>, 1, node)
        OBVIOUS
      <4>2. <<>> \in Seq(E) /\ Len(<<>>) = 0 /\ 1 \in 1 .. Len(<<>>) + 1
        OBVIOUS
      <4>3. all \in Seq(E) /\ Len(all) = 1 /\ all[1] = node
        <5>1. IsInserted(all, E, <<>>, node, 1)
          BY <4>1, <4>2, Inserted
        <5>. QED  BY <4>2, <5>1 DEF IsInserted
      <4>. QED  BY <4>1, <4>3
    <3>. QED  BY <3>2, <3>3, <3>4
  <2>4. es # <<>> /\ <<node>> # <<>>
    OBVIOUS
  <2>5. n \in 0 .. n
    BY <1>1
  <2>6. Valid(n)
    BY <1>4, <2>2, <2>3, <2>4
  <2>. QED  BY <2>1, <2>5, <2>6
<1>5. CASE ~(i >= n /\ Fits(es) /\ Fits(<<node>>))
  <2>1. SplitPoint(es, node, i) \in valid
    <3>1. CASE mid \in valid
      BY <1>3, <1>5, <3>1, Zenon
    <3>2. CASE mid \notin valid
      <4>1. SplitPoint(es, node, i) = nearest
        BY <1>2, <1>3, <1>5, <3>2, Zenon
      <4>2. \E x \in valid : \A z \in valid : Distance(x) <= Distance(z)
        <5>. DEFINE far == {Distance(x) : x \in valid}
        <5>1. mid \in Nat
          BY <1>1
        <5>2. \A x \in 0 .. n : Distance(x) \in Nat
          <6>. HIDE DEF mid
          <6>. QED  BY <5>1
        <5>3. valid \subseteq 0 .. n
          BY Zenon
        <5>. HIDE DEF valid, Distance
        <5>4. far \in SUBSET Nat
          BY <5>2, <5>3
        <5>5. far # {}
          BY <1>2
        <5>6. PICK least \in far : \A d \in far : least <= d
          BY <5>4, <5>5, LeastOf
        <5>7. PICK x \in valid : least = Distance(x)
          OBVIOUS
        <5>8. \A z \in valid : Distance(x) <= Distance(z)
          BY <5>6, <5>7
        <5>. QED  BY <5>8
      <4>3. nearest \in valid
        BY <4>2, Zenon
      <4>. QED  BY <4>1, <4>3
    <3>. QED  BY <3>1, <3>2
  <2>. QED  BY <2>1, Zenon
<1>. QED  BY <1>4, <1>5

------------------------------------------------------------------------------
(* Trees                                                                   *)

LeafNode   == [k : Nat, v : Vals \cup {NoVal}, ovf : Nat, n : Nat]
BranchNode == [k : Nat, child : Nat]
Kind(l)    == IF l = 1 THEN LeafNode ELSE BranchNode

\* The pages a node on level l stands for: leaves are on level 1.
Claims(l, node) == IF l = 1 THEN node.ovf .. (node.ovf + node.n - 1) ELSE {node.child}

IsPage(page, l) ==
  /\ page = [type |-> page.type, ents |-> page.ents, stale |-> page.stale]
  /\ page.type = IF l = 1 THEN "leaf" ELSE "branch"
  /\ page.ents \in Seq(Kind(l))

\* A node leads one level down, to a page of the tree or to overflow pages.
Leads(pg, lv, l, node) ==
  /\ node \in Kind(l)
  /\ IF l = 1 THEN \A c \in Claims(l, node) : pg[c].type = "large"
              ELSE node.child \in DOMAIN lv /\ lv[node.child] = l - 1

Bounds(pg, alloc, lv, F, R) ==
  /\ alloc \in Nat \ {0}
  /\ lv \in [DOMAIN lv -> Nat \ {0}]
  /\ DOMAIN lv \subseteq 1 .. (alloc - 1)
  /\ F \subseteq 1 .. (alloc - 1)
  /\ R \subseteq 1 .. (alloc - 1)
  /\ F \cap (DOMAIN lv \cup R) = {}
  /\ 1 .. (alloc - 1) \subseteq DOMAIN pg

Nodes(pg, alloc, lv, F, R) ==
  \A p \in DOMAIN lv : \A i \in Slots(pg[p].ents) :
    /\ Leads(pg, lv, lv[p], pg[p].ents[i])
    /\ Claims(lv[p], pg[p].ents[i]) \subseteq (1 .. (alloc - 1)) \ (F \cup R)

Apart(pg, lv) ==
  \A p, q \in DOMAIN lv : \A i \in Slots(pg[p].ents), j \in Slots(pg[q].ents) :
    (p = q /\ i = j) \/ Claims(lv[p], pg[p].ents[i]) \cap Claims(lv[q], pg[q].ents[j]) = {}

\* The pages lv gives a level make up trees: each is of its level's kind, its
\* nodes lead down, and no two of them to the same page, to a free page of F
\* or to one of R, which are reserved: the root, and what a new node claims.
Tree(pg, alloc, lv, F, R) ==
  /\ Bounds(pg, alloc, lv, F, R)
  /\ \A p \in DOMAIN lv : IsPage(pg[p], lv[p])
  /\ Nodes(pg, alloc, lv, F, R)
  /\ Apart(pg, lv)

\* pg2 is pg with other entries in page p.
Rewritten(pg, pg2, p, es) ==
  /\ DOMAIN pg2 = DOMAIN pg
  /\ pg2[p] = [type |-> pg2[p].type, ents |-> pg2[p].ents, stale |-> pg2[p].stale]
  /\ pg2[p].type = pg[p].type
  /\ pg2[p].ents = es
  /\ \A q \in DOMAIN pg \ {p} : pg2[q] = pg[q]

\* Two sequences behind one another.
LEMMA Joined ==
  ASSUME NEW E, NEW a \in Seq(E), NEW b \in Seq(E), NEW all, all = a \o b
  PROVE  /\ all \in Seq(E)
         /\ Len(all) = Len(a) + Len(b)
         /\ \A j \in 1 .. Len(a) : all[j] = a[j]
         /\ \A j \in 1 .. Len(b) : all[Len(a) + j] = b[j]
<1>1. all \in Seq(E)
  OBVIOUS
<1>2. Len(a \o b) = Len(a) + Len(b)
  OBVIOUS
<1>3. ASSUME NEW j \in 1 .. Len(a) PROVE (a \o b)[j] = a[j]
  OBVIOUS
<1>4. ASSUME NEW j \in 1 .. Len(b) PROVE (a \o b)[Len(a) + j] = b[j]
  OBVIOUS
<1>. QED  BY <1>1, <1>2, <1>3, <1>4

IsRemoved(all, E, es, i) ==
  /\ all \in Seq(E) /\ Len(all) = Len(es) - 1
  /\ \A j \in 1 .. (Len(es) - 1) : all[j] = IF j < i THEN es[j] ELSE es[j + 1]

\* RemoveAt drops one entry: every other one is found in the result, one to one.
LEMMA Removed ==
  ASSUME NEW E, NEW es \in Seq(E), NEW i \in 1 .. Len(es),
         NEW all, all = RemoveAt(es, i)
  PROVE  IsRemoved(all, E, es, i)
<1>0. PICK front, back : front = SubSeq(es, 1, i - 1) /\ back = SubSeq(es, i + 1, Len(es))
  OBVIOUS
<1>1. front \in Seq(E) /\ Len(front) = i - 1 /\ \A j \in 1 .. (i - 1) : front[j] = es[j]
  BY <1>0
<1>2. /\ back \in Seq(E) /\ Len(back) = Len(es) - i
      /\ \A j \in 1 .. (Len(es) - i) : back[j] = es[i + j]
  <2>1. back \in Seq(E) /\ Len(back) = Len(es) - i
    BY <1>0
  <2>2. ASSUME NEW j \in 1 .. (Len(es) - i) PROVE back[j] = es[i + j]
    <3>1. back[j] = es[(i + 1) + j - 1]
      BY <1>0
    <3>. QED  BY <3>1
  <2>. QED  BY <2>1, <2>2
<1>3. all = front \o back
  BY <1>0 DEF RemoveAt
<1>4. /\ all \in Seq(E)
      /\ Len(all) = Len(front) + Len(back)
      /\ \A j \in 1 .. Len(front) : all[j] = front[j]
      /\ \A j \in 1 .. Len(back) : all[Len(front) + j] = back[j]
  <2>1. front \in Seq(E) /\ back \in Seq(E)
    BY <1>1, <1>2
  <2>. QED  BY <1>3, <2>1, Joined
<1>5. ASSUME NEW j \in 1 .. (Len(es) - 1) PROVE all[j] = IF j < i THEN es[j] ELSE es[j + 1]
  <2>1. CASE j < i
    BY <1>1, <1>2, <1>4, <2>1
  <2>2. CASE j >= i
    <3>1. PICK m \in 1 .. Len(back) : j = Len(front) + m
      <4>1. j - i + 1 \in 1 .. Len(back) /\ j = Len(front) + (j - i + 1)
        BY <1>1, <1>2, <2>2
      <4>. QED  BY <4>1
    <3>2. all[j] = back[m] /\ back[m] = es[i + m]
      BY <1>2, <1>4, <3>1
    <3>. QED  BY <1>1, <2>2, <3>1, <3>2
  <2>. QED  BY <2>1, <2>2
<1>. QED  BY <1>1, <1>2, <1>4, <1>5 DEF IsRemoved

\* Two nodes of a tree lead to different pages.
LEMMA NodesAreApart ==
  ASSUME NEW pg, NEW alloc, NEW lv, NEW F, NEW R, Tree(pg, alloc, lv, F, R),
         NEW p \in DOMAIN lv, NEW q \in DOMAIN lv,
         NEW i \in Slots(pg[p].ents), NEW j \in Slots(pg[q].ents), ~(p = q /\ i = j)
  PROVE  Claims(lv[p], pg[p].ents[i]) \cap Claims(lv[q], pg[q].ents[j]) = {}
BY Zenon DEF Tree, Apart

\* A node taken from its page leaves a tree and its pages reserved.
LEMMA NodeRemoved ==
  ASSUME NEW pg, NEW alloc, NEW lv, NEW F, NEW R, Tree(pg, alloc, lv, F, R),
         NEW p \in DOMAIN lv, NEW i \in Slots(pg[p].ents),
         NEW pg2, Rewritten(pg, pg2, p, RemoveAt(pg[p].ents, i))
  PROVE  Tree(pg2, alloc, lv, F, R \cup Claims(lv[p], pg[p].ents[i]))
<1>. DEFINE T   == DOMAIN lv
            gone == Claims(lv[p], pg[p].ents[i])
            Old(q, j) == IF q = p /\ j >= i THEN j + 1 ELSE j
<1>1. T \subseteq DOMAIN pg /\ DOMAIN pg2 = DOMAIN pg
  BY Zenon DEF Tree, Bounds, Rewritten
<1>2. PICK es2 : es2 = RemoveAt(pg[p].ents, i)
  OBVIOUS
<1>3. IsPage(pg[p], lv[p])
  BY DEF Tree
<1>4. IsRemoved(es2, Kind(lv[p]), pg[p].ents, i)
  BY <1>2, <1>3, Removed, Zenon DEF IsPage, Slots
<1>5. pg2[p].ents = es2
  BY <1>2, Zenon DEF Rewritten
<1>6. \A q \in T : IsPage(pg2[q], lv[q])
  <2>. TAKE q \in T
  <2>1. CASE q = p
    BY <1>3, <1>4, <1>5, <2>1 DEF IsPage, Rewritten, IsRemoved
  <2>2. CASE q # p
    BY <1>1, <2>2 DEF Tree, Rewritten
  <2>. QED  BY <2>1, <2>2
<1>7. ASSUME NEW q \in T, NEW j \in Slots(pg2[q].ents)
      PROVE  /\ Old(q, j) \in Slots(pg[q].ents)
             /\ pg2[q].ents[j] = pg[q].ents[Old(q, j)]
             /\ ~(q = p /\ Old(q, j) = i)
  <2>1. CASE q = p
    <3>1. Len(pg[p].ents) \in Nat
      BY <1>3 DEF IsPage
    <3>2. j \in 1 .. (Len(pg[p].ents) - 1)
      BY <1>4, <1>5, <2>1, <3>1 DEF Slots, IsRemoved
    <3>. QED  BY <1>4, <1>5, <2>1, <3>1, <3>2 DEF Slots, IsRemoved
  <2>2. CASE q # p
    BY <1>1, <2>2 DEF Rewritten
  <2>. QED  BY <2>1, <2>2
<1>8. ASSUME NEW q \in T, NEW j \in Slots(pg2[q].ents)
      PROVE  /\ Leads(pg2, lv, lv[q], pg2[q].ents[j])
             /\ Claims(lv[q], pg2[q].ents[j]) \subseteq (1 .. (alloc - 1)) \ (F \cup R \cup gone)
  <2>1. PICK x \in Slots(pg[q].ents) : /\ pg2[q].ents[j] = pg[q].ents[x]
                                      /\ ~(q = p /\ x = i)
    BY <1>7
  <2>2. /\ Leads(pg, lv, lv[q], pg[q].ents[x])
        /\ Claims(lv[q], pg[q].ents[x]) \subseteq (1 .. (alloc - 1)) \ (F \cup R)
    BY DEF Tree, Nodes
  <2>3. Claims(lv[q], pg[q].ents[x]) \cap gone = {}
    BY <2>1 DEF Tree, Apart
  <2>4. \A c \in Claims(lv[q], pg[q].ents[x]) : pg[c].type = "large" => pg2[c].type = "large"
    BY <2>2, <1>1 DEF Rewritten, Tree, Bounds
  <2>5. Leads(pg2, lv, lv[q], pg[q].ents[x])
    BY <2>2, <2>4, Zenon DEF Leads
  <2>. QED  BY <2>1, <2>2, <2>3, <2>5
<1>9. ASSUME NEW q \in T, NEW r \in T, NEW j \in Slots(pg2[q].ents), NEW m \in Slots(pg2[r].ents)
      PROVE  (q = r /\ j = m) \/ Claims(lv[q], pg2[q].ents[j]) \cap Claims(lv[r], pg2[r].ents[m]) = {}
  <2>1. q = r => j = m \/ Old(q, j) # Old(r, m)
    BY DEF Slots
  <2>2. /\ Old(q, j) \in Slots(pg[q].ents) /\ pg2[q].ents[j] = pg[q].ents[Old(q, j)]
        /\ Old(r, m) \in Slots(pg[r].ents) /\ pg2[r].ents[m] = pg[r].ents[Old(r, m)]
    BY <1>7
  <2>. HIDE DEF Old
  <2>. QED  BY <2>1, <2>2 DEF Tree, Apart
<1>10. gone \subseteq (1 .. (alloc - 1)) \ (F \cup R)
  BY DEF Tree, Nodes
<1>11. Bounds(pg2, alloc, lv, F, R \cup gone)
  <2>. HIDE DEF gone
  <2>. QED  BY <1>1, <1>10 DEF Tree, Bounds
<1>. QED  BY <1>6, <1>8, <1>9, <1>11 DEF Tree, Nodes, Apart
\* A node whose pages are reserved may go into a page of its level.
LEMMA NodeInserted ==
  ASSUME NEW pg, NEW alloc, NEW lv, NEW F, NEW R, Tree(pg, alloc, lv, F, R),
         NEW p \in DOMAIN lv, NEW i \in 1 .. Len(pg[p].ents) + 1,
         NEW node, Leads(pg, lv, lv[p], node), Claims(lv[p], node) \subseteq R,
         NEW pg2, Rewritten(pg, pg2, p, InsertAt(pg[p].ents, i, node))
  PROVE  Tree(pg2, alloc, lv, F, R \ Claims(lv[p], node))
<1>. DEFINE T   == DOMAIN lv
            new == Claims(lv[p], node)
            Old(q, j) == IF q = p /\ j > i THEN j - 1 ELSE j
            New(q, j) == q = p /\ j = i
<1>1. T \subseteq DOMAIN pg /\ DOMAIN pg2 = DOMAIN pg
  BY Zenon DEF Tree, Bounds, Rewritten
<1>2. PICK es2 : es2 = InsertAt(pg[p].ents, i, node)
  OBVIOUS
<1>3. IsPage(pg[p], lv[p]) /\ node \in Kind(lv[p])
  BY DEF Tree, Leads
<1>4. IsInserted(es2, Kind(lv[p]), pg[p].ents, node, i)
  BY <1>2, <1>3, Inserted, Zenon DEF IsPage
<1>5. pg2[p].ents = es2
  BY <1>2, Zenon DEF Rewritten
<1>6. \A q \in T : IsPage(pg2[q], lv[q])
  <2>. TAKE q \in T
  <2>1. CASE q = p
    BY <1>3, <1>4, <1>5, <2>1 DEF IsPage, Rewritten, IsInserted
  <2>2. CASE q # p
    BY <1>1, <2>2 DEF Tree, Rewritten
  <2>. QED  BY <2>1, <2>2
<1>7. ASSUME NEW q \in T, NEW j \in Slots(pg2[q].ents)
      PROVE  \/ New(q, j) /\ pg2[q].ents[j] = node
             \/ ~New(q, j) /\ Old(q, j) \in Slots(pg[q].ents) /\ pg2[q].ents[j] = pg[q].ents[Old(q, j)]
  <2>1. CASE q = p
    <3>1. Len(pg[p].ents) \in Nat
      BY <1>3 DEF IsPage
    <3>2. j \in 1 .. (Len(pg[p].ents) + 1)
      BY <1>4, <1>5, <2>1, <3>1 DEF Slots, IsInserted
    <3>. QED  BY <1>4, <1>5, <2>1, <3>1, <3>2 DEF Slots, IsInserted
  <2>2. CASE q # p
    BY <1>1, <2>2 DEF Rewritten
  <2>. QED  BY <2>1, <2>2
<1>a. \A c : pg[c].type = "large" /\ c \in DOMAIN pg => pg2[c].type = "large"
  BY DEF Rewritten
<1>b. ASSUME NEW l, NEW m, Leads(pg, lv, l, m), Claims(l, m) \subseteq 1 .. (alloc - 1)
      PROVE  Leads(pg2, lv, l, m)
  BY <1>a, <1>b DEF Leads, Tree, Bounds
<1>8. ASSUME NEW q \in T, NEW j \in Slots(pg2[q].ents)
      PROVE  /\ Leads(pg2, lv, lv[q], pg2[q].ents[j])
             /\ Claims(lv[q], pg2[q].ents[j]) \subseteq (1 .. (alloc - 1)) \ (F \cup (R \ new))
  <2>1. CASE New(q, j)
    <3>1. pg2[q].ents[j] = node /\ q = p
      BY <1>7, <2>1
    <3>2. new \subseteq (1 .. (alloc - 1)) \ F
      BY DEF Tree, Bounds
    <3>. QED  BY <1>b, <3>1, <3>2
  <2>2. CASE ~New(q, j)
    <3>1. PICK x \in Slots(pg[q].ents) : pg2[q].ents[j] = pg[q].ents[x]
      BY <1>7, <2>2
    <3>2. /\ Leads(pg, lv, lv[q], pg[q].ents[x])
          /\ Claims(lv[q], pg[q].ents[x]) \subseteq (1 .. (alloc - 1)) \ (F \cup R)
      BY DEF Tree, Nodes
    <3>. QED  BY <1>b, <3>1, <3>2
  <2>. QED  BY <2>1, <2>2
<1>9. ASSUME NEW q \in T, NEW r \in T, NEW j \in Slots(pg2[q].ents), NEW m \in Slots(pg2[r].ents)
      PROVE  (q = r /\ j = m) \/ Claims(lv[q], pg2[q].ents[j]) \cap Claims(lv[r], pg2[r].ents[m]) = {}
  <2>1. ASSUME NEW a \in T, NEW x \in Slots(pg[a].ents) PROVE Claims(lv[a], pg[a].ents[x]) \cap new = {}
    BY DEF Tree, Nodes
  <2>2. CASE New(q, j) /\ New(r, m)
    BY <2>2
  <2>3. CASE New(q, j) /\ ~New(r, m)
    BY <1>7, <2>1, <2>3
  <2>4. CASE ~New(q, j) /\ New(r, m)
    BY <1>7, <2>1, <2>4
  <2>5. CASE ~New(q, j) /\ ~New(r, m)
    <3>1. q = r => j = m \/ Old(q, j) # Old(r, m)
      BY <2>5 DEF Slots
    <3>2. /\ Old(q, j) \in Slots(pg[q].ents) /\ pg2[q].ents[j] = pg[q].ents[Old(q, j)]
          /\ Old(r, m) \in Slots(pg[r].ents) /\ pg2[r].ents[m] = pg[r].ents[Old(r, m)]
      BY <1>7, <2>5
    <3>3. PICK x, y : x = Old(q, j) /\ y = Old(r, m)
      OBVIOUS
    <3>. HIDE DEF Old, New
    <3>4. CASE q = r /\ j = m
      BY <3>4
    <3>5. CASE ~(q = r /\ x = y)
      <4>1. Claims(lv[q], pg[q].ents[x]) \cap Claims(lv[r], pg[r].ents[y]) = {}
        BY <3>2, <3>3, <3>5, NodesAreApart, Zenon
      <4>. QED  BY <3>2, <3>3, <4>1
    <3>. QED  BY <3>1, <3>3, <3>4, <3>5
  <2>. QED  BY <2>2, <2>3, <2>4, <2>5
<1>10. Bounds(pg2, alloc, lv, F, R \ new)
  <2>. HIDE DEF new
  <2>. QED  BY <1>1 DEF Tree, Bounds
<1>. QED  BY <1>6, <1>8, <1>9, <1>10 DEF Tree, Nodes, Apart

\* Pages no node leads to may be written, reserved and freed.
LEMMA PagesChanged ==
  ASSUME NEW pg, NEW alloc, NEW lv, NEW F, NEW R, Tree(pg, alloc, lv, F, R),
         NEW pg2, NEW alloc2, NEW F2, NEW R2, Bounds(pg2, alloc2, lv, F2, R2),
         alloc2 >= alloc,
         F2 \cup R2 \subseteq F \cup R \cup (alloc .. (alloc2 - 1)),
         \A p \in DOMAIN lv : pg2[p] = pg[p],
         \A c \in (1 .. (alloc - 1)) \ (F \cup R) : pg[c].type = "large" => pg2[c].type = "large"
  PROVE  Tree(pg2, alloc2, lv, F2, R2)
<1>1. ASSUME NEW p \in DOMAIN lv, NEW i \in Slots(pg2[p].ents)
      PROVE  /\ Leads(pg2, lv, lv[p], pg2[p].ents[i])
             /\ Claims(lv[p], pg2[p].ents[i]) \subseteq (1 .. (alloc2 - 1)) \ (F2 \cup R2)
  <2>1. i \in Slots(pg[p].ents) /\ pg2[p].ents[i] = pg[p].ents[i]
    OBVIOUS
  <2>2. /\ Leads(pg, lv, lv[p], pg[p].ents[i])
        /\ Claims(lv[p], pg[p].ents[i]) \subseteq (1 .. (alloc - 1)) \ (F \cup R)
    BY <2>1 DEF Tree, Nodes
  <2>3. Leads(pg2, lv, lv[p], pg[p].ents[i])
    BY <2>2 DEF Leads
  <2>4. (1 .. (alloc - 1)) \ (F \cup R) \subseteq (1 .. (alloc2 - 1)) \ (F2 \cup R2)
    BY DEF Tree, Bounds
  <2>. QED  BY <2>1, <2>2, <2>3, <2>4
<1>2. Apart(pg2, lv)
  BY DEF Tree, Apart
<1>3. \A p \in DOMAIN lv : IsPage(pg2[p], lv[p])
  BY DEF Tree
<1>. QED  BY <1>1, <1>2, <1>3 DEF Tree, Nodes

\* A page more on level l; p's place taken by n; only some of the pages.
With(lv, q, l)   == [p \in DOMAIN lv \cup {q} |-> IF p = q THEN l ELSE lv[p]]
Moved(lv, p, n)  == [q \in (DOMAIN lv \ {p}) \cup {n} |-> IF q = n THEN lv[p] ELSE lv[q]]
Only(lv, T)      == [p \in T |-> lv[p]]

\* An empty page joins.
LEMMA PageAdded ==
  ASSUME NEW pg, NEW alloc, NEW lv, NEW F, NEW R, Tree(pg, alloc, lv, F, R),
         NEW q \in R, q \notin DOMAIN lv, NEW l \in Nat \ {0}, IsPage(pg[q], l), pg[q].ents = <<>>
  PROVE  Tree(pg, alloc, With(lv, q, l), F, R)
<1>0. PICK lv2 : lv2 = With(lv, q, l)
  OBVIOUS
<1>1. Slots(pg[q].ents) = {}
  BY DEF Slots
<1>2. /\ DOMAIN lv2 = DOMAIN lv \cup {q} /\ lv2[q] = l /\ lv2 \in [DOMAIN lv2 -> Nat \ {0}]
      /\ \A p \in DOMAIN lv : lv2[p] = lv[p] /\ p # q
  BY <1>0 DEF With, Tree, Bounds
<1>3. Bounds(pg, alloc, lv2, F, R)
  BY <1>2 DEF Tree, Bounds
<1>4. ASSUME NEW p \in DOMAIN lv2, NEW i \in Slots(pg[p].ents)
      PROVE  /\ Leads(pg, lv2, lv2[p], pg[p].ents[i])
             /\ Claims(lv2[p], pg[p].ents[i]) \subseteq (1 .. (alloc - 1)) \ (F \cup R)
  <2>1. p \in DOMAIN lv /\ lv2[p] = lv[p]
    BY <1>1, <1>2
  <2>2. /\ Leads(pg, lv, lv[p], pg[p].ents[i])
        /\ Claims(lv[p], pg[p].ents[i]) \subseteq (1 .. (alloc - 1)) \ (F \cup R)
    BY <2>1 DEF Tree, Nodes
  <2>3. Leads(pg, lv2, lv[p], pg[p].ents[i])
    BY <1>2, <2>2 DEF Leads
  <2>. QED  BY <2>1, <2>2, <2>3
<1>5. Apart(pg, lv2)
  BY <1>1, <1>2 DEF Tree, Apart
<1>6. \A p \in DOMAIN lv2 : IsPage(pg[p], lv2[p])
  BY <1>2 DEF Tree
<1>. QED  BY <1>0, <1>3, <1>4, <1>5, <1>6 DEF Tree, Nodes

\* Some pages leave, if no node of one that stays leads to one that goes.
LEMMA PagesDropped ==
  ASSUME NEW pg, NEW alloc, NEW lv, NEW F, NEW R, Tree(pg, alloc, lv, F, R),
         NEW T \in SUBSET DOMAIN lv,
         \A p \in T : \A i \in Slots(pg[p].ents) : lv[p] = 1 \/ pg[p].ents[i].child \in T
  PROVE  Tree(pg, alloc, Only(lv, T), F, R)
<1>0. PICK lv2 : lv2 = Only(lv, T)
  OBVIOUS
<1>1. DOMAIN lv2 = T /\ \A p \in T : p \in DOMAIN lv /\ lv2[p] = lv[p]
  BY <1>0 DEF Only
<1>2. Bounds(pg, alloc, lv2, F, R)
  <2>1. lv2 \in [DOMAIN lv2 -> Nat \ {0}]
    BY <1>0 DEF Only, Tree, Bounds
  <2>. QED  BY <1>1, <2>1 DEF Tree, Bounds
<1>3. ASSUME NEW p \in T, NEW i \in Slots(pg[p].ents)
      PROVE  /\ Leads(pg, lv2, lv2[p], pg[p].ents[i])
             /\ Claims(lv2[p], pg[p].ents[i]) \subseteq (1 .. (alloc - 1)) \ (F \cup R)
  <2>1. /\ Leads(pg, lv, lv[p], pg[p].ents[i])
        /\ Claims(lv[p], pg[p].ents[i]) \subseteq (1 .. (alloc - 1)) \ (F \cup R)
    BY <1>1 DEF Tree, Nodes
  <2>2. Leads(pg, lv2, lv[p], pg[p].ents[i])
    BY <1>1, <2>1 DEF Leads
  <2>. QED  BY <1>1, <2>1, <2>2
<1>4. Apart(pg, lv2)
  BY <1>1 DEF Tree, Apart
<1>5. \A p \in T : IsPage(pg[p], lv2[p])
  BY <1>1 DEF Tree
<1>. QED  BY <1>0, <1>1, <1>2, <1>3, <1>4, <1>5 DEF Tree, Nodes

\* A page no node leads to gives its place to its copy.
LEMMA PageMoved ==
  ASSUME NEW pg, NEW alloc, NEW lv, NEW F, NEW R, Tree(pg, alloc, lv, F, R),
         NEW p \in DOMAIN lv \cap R, NEW n \in R \ DOMAIN lv, pg[n] = pg[p]
  PROVE  Tree(pg, alloc, Moved(lv, p, n), F, R)
<1>. DEFINE From(q) == IF q = n THEN p ELSE q
<1>0. PICK lv2 : lv2 = Moved(lv, p, n)
  OBVIOUS
<1>1. /\ DOMAIN lv2 = (DOMAIN lv \ {p}) \cup {n}
      /\ \A q \in DOMAIN lv2 : From(q) \in DOMAIN lv /\ lv2[q] = lv[From(q)] /\ pg[q] = pg[From(q)]
      /\ \A q, r \in DOMAIN lv2 : From(q) = From(r) => q = r
  BY <1>0 DEF Moved
<1>2. Bounds(pg, alloc, lv2, F, R)
  <2>1. lv2 \in [DOMAIN lv2 -> Nat \ {0}]
    BY <1>0 DEF Moved, Tree, Bounds
  <2>2. DOMAIN lv2 \subseteq DOMAIN lv \cup R
    BY <1>1
  <2>. QED  BY <2>1, <2>2 DEF Tree, Bounds
<1>. HIDE DEF From
<1>3. ASSUME NEW q \in DOMAIN lv2, NEW i \in Slots(pg[q].ents)
      PROVE  /\ Leads(pg, lv2, lv2[q], pg[q].ents[i])
             /\ Claims(lv2[q], pg[q].ents[i]) \subseteq (1 .. (alloc - 1)) \ (F \cup R)
  <2>1. PICK r \in DOMAIN lv : lv2[q] = lv[r] /\ pg[q] = pg[r]
    BY <1>1
  <2>2. /\ Leads(pg, lv, lv[r], pg[r].ents[i])
        /\ Claims(lv[r], pg[r].ents[i]) \subseteq (1 .. (alloc - 1)) \ (F \cup R)
    BY <2>1 DEF Tree, Nodes
  <2>3. ASSUME lv[r] # 1
        PROVE  pg[r].ents[i].child \in DOMAIN lv2 /\ lv2[pg[r].ents[i].child] = lv[r] - 1
    <3>1. pg[r].ents[i].child \in DOMAIN lv /\ lv[pg[r].ents[i].child] = lv[r] - 1
      BY <2>2, <2>3 DEF Leads
    <3>2. pg[r].ents[i].child \notin R
      BY <2>2, <2>3 DEF Claims
    <3>3. pg[r].ents[i].child # n /\ pg[r].ents[i].child # p
      BY <3>2
    <3>. QED  BY <1>0, <3>1, <3>3 DEF Moved
  <2>4. Leads(pg, lv2, lv[r], pg[r].ents[i])
    BY <2>2, <2>3 DEF Leads
  <2>. QED  BY <2>1, <2>2, <2>4
<1>4. ASSUME NEW q \in DOMAIN lv2, NEW r \in DOMAIN lv2,
             NEW i \in Slots(pg[q].ents), NEW j \in Slots(pg[r].ents)
      PROVE  (q = r /\ i = j) \/ Claims(lv2[q], pg[q].ents[i]) \cap Claims(lv2[r], pg[r].ents[j]) = {}
  <2>. SUFFICES ASSUME ~(q = r /\ i = j)
                PROVE  Claims(lv2[q], pg[q].ents[i]) \cap Claims(lv2[r], pg[r].ents[j]) = {}
    OBVIOUS
  <2>1. PICK x, y : x = From(q) /\ y = From(r)
    OBVIOUS
  <2>2. /\ x \in DOMAIN lv /\ lv2[q] = lv[x] /\ pg[q] = pg[x]
        /\ y \in DOMAIN lv /\ lv2[r] = lv[y] /\ pg[r] = pg[y]
        /\ ~(x = y /\ i = j)
    BY <1>1, <2>1
  <2>3. i \in Slots(pg[x].ents) /\ j \in Slots(pg[y].ents)
    BY <2>2, Zenon
  <2>4. Claims(lv[x], pg[x].ents[i]) \cap Claims(lv[y], pg[y].ents[j]) = {}
    BY <2>2, <2>3, NodesAreApart, Zenon
  <2>. QED  BY <2>2, <2>4
<1>5. \A q \in DOMAIN lv2 : IsPage(pg[q], lv2[q])
  BY <1>1 DEF Tree
<1>6. Nodes(pg, alloc, lv2, F, R)
  BY <1>3 DEF Nodes
<1>7. Apart(pg, lv2)
  BY <1>4, Zenon DEF Apart
<1>. QED  BY <1>0, <1>2, <1>5, <1>6, <1>7 DEF Tree

\* A page's nodes from some one on move to a reserved page.
LEMMA PageDivided ==
  ASSUME NEW pg, NEW alloc, NEW lv, NEW F, NEW R, Tree(pg, alloc, lv, F, R),
         NEW p \in DOMAIN lv, NEW q \in R \ DOMAIN lv,
         NEW left \in Seq(Kind(lv[p])), NEW right \in Seq(Kind(lv[p])), pg[p].ents = left \o right,
         NEW pg2, DOMAIN pg2 = DOMAIN pg,
         IsPage(pg2[p], lv[p]), pg2[p].ents = left, IsPage(pg2[q], lv[p]), pg2[q].ents = right,
         \A r \in DOMAIN pg \ {p, q} : pg2[r] = pg[r]
  PROVE  Tree(pg2, alloc, With(lv, q, lv[p]), F, R)
<1>. DEFINE T == DOMAIN lv
            At(r) == IF r = q THEN p ELSE r
            Old(r, j) == IF r = q THEN Len(left) + j ELSE j
<1>a. PICK lv2 : lv2 = With(lv, q, lv[p])
  OBVIOUS
<1>0. T \subseteq DOMAIN pg /\ q \in DOMAIN pg
  BY DEF Tree, Bounds
<1>1. /\ DOMAIN lv2 = T \cup {q} /\ p # q
      /\ \A r \in T \cup {q} : At(r) \in T /\ lv2[r] = lv[At(r)]
      /\ \A r \in T : lv2[r] = lv[r]
  BY <1>a DEF With
<1>2. Bounds(pg2, alloc, lv2, F, R)
  <2>1. lv2 \in [DOMAIN lv2 -> Nat \ {0}]
    BY <1>a DEF With, Tree, Bounds
  <2>. QED  BY <1>1, <2>1 DEF Tree, Bounds
<1>3. /\ Len(left) \in Nat /\ Len(right) \in Nat
      /\ Len(pg[p].ents) = Len(left) + Len(right)
      /\ \A j \in 1 .. Len(left) : pg[p].ents[j] = left[j]
      /\ \A j \in 1 .. Len(right) : pg[p].ents[Len(left) + j] = right[j]
  <2>1. Len(left) \in Nat /\ Len(right) \in Nat
    OBVIOUS
  <2>. QED  BY <2>1, Joined
<1>4. ASSUME NEW r \in T \cup {q}, NEW j \in Slots(pg2[r].ents)
      PROVE  /\ Old(r, j) \in Slots(pg[At(r)].ents)
             /\ pg2[r].ents[j] = pg[At(r)].ents[Old(r, j)]
             /\ j \in Nat
             /\ r = p => j <= Len(left)
             /\ r = q => j >= 1
  <2>1. CASE r = q
    BY <1>1, <1>3, <2>1 DEF Slots
  <2>2. CASE r = p
    BY <1>1, <1>3, <2>2 DEF Slots
  <2>3. CASE r # p /\ r # q
    BY <1>0, <2>3 DEF Slots
  <2>. QED  BY <2>1, <2>2, <2>3
<1>5. ASSUME NEW r \in T \cup {q}, NEW j \in Slots(pg2[r].ents)
      PROVE  /\ Leads(pg2, lv2, lv2[r], pg2[r].ents[j])
             /\ Claims(lv2[r], pg2[r].ents[j]) \subseteq (1 .. (alloc - 1)) \ (F \cup R)
  <2>1. PICK a, x : /\ a \in T /\ x \in Slots(pg[a].ents) /\ pg2[r].ents[j] = pg[a].ents[x]
                          /\ lv2[r] = lv[a]
    BY <1>1, <1>4
  <2>2. /\ Leads(pg, lv, lv[a], pg[a].ents[x])
        /\ Claims(lv[a], pg[a].ents[x]) \subseteq (1 .. (alloc - 1)) \ (F \cup R)
    BY <2>1 DEF Tree, Nodes
  <2>3. \A c \in Claims(lv[a], pg[a].ents[x]) : pg[c].type = "large" => pg2[c].type = "large"
    <3>. TAKE c \in Claims(lv[a], pg[a].ents[x])
    <3>1. c # q /\ c \in DOMAIN pg
      BY <2>2 DEF Tree, Bounds
    <3>2. pg[p].type # "large"
      BY DEF Tree, IsPage
    <3>. QED  BY <3>1, <3>2
  <2>4. Leads(pg2, lv2, lv[a], pg[a].ents[x])
    BY <1>1, <2>2, <2>3 DEF Leads
  <2>. QED  BY <2>1, <2>2, <2>4
<1>6. ASSUME NEW a \in T \cup {q}, NEW b \in T \cup {q},
             NEW i \in Slots(pg2[a].ents), NEW j \in Slots(pg2[b].ents)
      PROVE  (a = b /\ i = j) \/ Claims(lv2[a], pg2[a].ents[i]) \cap Claims(lv2[b], pg2[b].ents[j]) = {}
  <2>. SUFFICES ASSUME ~(a = b /\ i = j)
                PROVE  Claims(lv2[a], pg2[a].ents[i]) \cap Claims(lv2[b], pg2[b].ents[j]) = {}
    OBVIOUS
  <2>1. PICK c, d, x, y : c = At(a) /\ d = At(b) /\ x = Old(a, i) /\ y = Old(b, j)
    OBVIOUS
  <2>2. /\ x \in Slots(pg[c].ents) /\ pg2[a].ents[i] = pg[c].ents[x]
        /\ y \in Slots(pg[d].ents) /\ pg2[b].ents[j] = pg[d].ents[y]
    BY <1>4, <2>1
  <2>3. ~(c = d /\ x = y)
    <3>1. i \in Nat /\ j \in Nat /\ Len(left) \in Nat
      BY <1>3, <1>4
    <3>2. /\ a = p => i <= Len(left)
          /\ b = p => j <= Len(left)
          /\ a = q => i >= 1
          /\ b = q => j >= 1
      BY <1>4
    <3>3. CASE a = q
      BY <1>1, <2>1, <3>1, <3>2, <3>3
    <3>4. CASE b = q
      BY <1>1, <2>1, <3>1, <3>2, <3>4
    <3>5. CASE a # q /\ b # q
      BY <2>1, <3>5
    <3>. QED  BY <3>3, <3>4, <3>5
  <2>4. c \in T /\ d \in T /\ lv2[a] = lv[c] /\ lv2[b] = lv[d]
    BY <1>1, <2>1
  <2>5. Claims(lv[c], pg[c].ents[x]) \cap Claims(lv[d], pg[d].ents[y]) = {}
    BY <2>2, <2>3, <2>4, NodesAreApart, Zenon
  <2>. QED  BY <2>2, <2>4, <2>5
<1>7. ASSUME NEW r \in T \cup {q} PROVE IsPage(pg2[r], lv2[r])
  <2>1. CASE r \notin {p, q}
    <3>1. r \in T /\ lv2[r] = lv[r] /\ pg2[r] = pg[r]
      BY <1>0, <1>1, <2>1
    <3>. QED  BY <3>1 DEF Tree
  <2>2. CASE r \in {p, q}
    BY <1>1, <2>2
  <2>. QED  BY <2>1, <2>2
<1>8. Nodes(pg2, alloc, lv2, F, R)
  BY <1>1, <1>5 DEF Nodes
<1>9. Apart(pg2, lv2)
  BY <1>1, <1>6, Zenon DEF Apart
<1>. QED  BY <1>a, <1>1, <1>2, <1>7, <1>8, <1>9 DEF Tree

------------------------------------------------------------------------------
(* What the steps of a call do to the writer's state                       *)

IsTree(t) == t = [root |-> t.root, height |-> t.height, items |-> t.items, leaves |-> t.leaves]

IsState(s) ==
  /\ s = [pg |-> s.pg, dirty |-> s.dirty, free |-> s.free, alloc |-> s.alloc,
          tree |-> s.tree, failed |-> s.failed]
  /\ IsTree(s.tree)

\* The pages of H are as in base, the map, and none of them is written.
Spares(s, H, base) ==
  /\ H \subseteq 1 .. (s.alloc - 1)
  /\ s.dirty \cap H = {}
  /\ \A p \in H : s.pg[p] = base[p] /\ base[p].type # "large"

\* The free list holds the pages of F, each once, and none of H.
FreeList(s, F, H) ==
  /\ s.free \in Seq(Nat)
  /\ IsInjective(s.free)
  /\ ToSet(s.free) = F
  /\ F \cap H = {}

\* The tree's root is one of lv's pages, as many levels up as the tree is
\* high, and no node leads to it.
Rooted(s, lv, R) ==
  /\ s.tree.root \in DOMAIN lv
  /\ s.tree.root \in R
  /\ lv[s.tree.root] = s.tree.height

\* A branch page has entries.
Filled(pg, lv) == \A p \in DOMAIN lv : lv[p] # 1 => pg[p].ents # <<>>

\* What Over makes of one page.
OnePage(pg, p, page, pg2) ==
  /\ DOMAIN pg2 = DOMAIN pg \cup {p}
  /\ pg2[p] = page
  /\ \A q \in DOMAIN pg \ {p} : pg2[q] = pg[q]

\* Over at a single page number writes that page only.
LEMMA OnePageOver ==
  ASSUME NEW pg, NEW p, NEW page, NEW pg2, pg2 = Over(pg, {p}, page)
  PROVE  OnePage(pg, p, page, pg2)
BY DEF Over, OnePage

\* Only pages, and which are dirty, change.
SameBut(s, t) ==
  /\ IsState(t)
  /\ t.free = s.free /\ t.alloc = s.alloc /\ t.tree = s.tree /\ t.failed = s.failed

IsWritten(s, p, page, t) ==
  /\ SameBut(s, t)
  /\ t.pg = Over(s.pg, {p}, page)
  /\ t.dirty = s.dirty \cup {p}

\* Write puts one page in the map and in the dirty set, and nothing else.
LEMMA Written ==
  ASSUME NEW s, IsState(s), NEW p, NEW page, NEW t, t = Write(s, p, page)
  PROVE  IsWritten(s, p, page, t)
BY Zenon DEF Write, IsState, IsWritten, SameBut

AreEntsSet(s, p, es, t) ==
  /\ SameBut(s, t)
  /\ Rewritten(s.pg, t.pg, p, es)
  /\ t.pg[p].stale = s.pg[p].stale
  /\ t.dirty = s.dirty \cup {p}

\* SetEnts gives a page other nodes and marks it dirty.
LEMMA EntsSet ==
  ASSUME NEW s, IsState(s), NEW p \in DOMAIN s.pg, NEW l, IsPage(s.pg[p], l), NEW es,
         NEW t, t = SetEnts(s, p, es)
  PROVE  AreEntsSet(s, p, es, t)
<1>1. PICK page : page = [s.pg[p] EXCEPT !.ents = es]
  OBVIOUS
<1>2. /\ page = [type |-> page.type, ents |-> page.ents, stale |-> page.stale]
      /\ page.type = s.pg[p].type /\ page.ents = es /\ page.stale = s.pg[p].stale
  BY <1>1, Zenon DEF IsPage
<1>3. t = Write(s, p, page)
  BY <1>1, Zenon DEF SetEnts
<1>4. IsWritten(s, p, page, t)
  BY <1>3, Written, Zenon
<1>5. OnePage(s.pg, p, page, t.pg)
  <2>1. t.pg = Over(s.pg, {p}, page)
    BY <1>4, Zenon DEF IsWritten
  <2>. QED  BY <2>1, OnePageOver, Zenon
<1>6. Rewritten(s.pg, t.pg, p, es)
  BY <1>2, <1>5 DEF Rewritten, OnePage
<1>. QED  BY <1>2, <1>4, <1>5, <1>6 DEF AreEntsSet, IsWritten, OnePage

\* The last of a sequence without repetition, and the rest.
LEMMA LastOff ==
  ASSUME NEW f \in Seq(Nat), IsInjective(f), f # <<>>
  PROVE  /\ Last(f) \in ToSet(f)
         /\ Front(f) \in Seq(Nat) /\ IsInjective(Front(f))
         /\ ToSet(Front(f)) = ToSet(f) \ {Last(f)}
<1>1. PICK n \in Nat \ {0} : n = Len(f) /\ DOMAIN f = 1 .. n
  OBVIOUS
<1>2. PICK g : g = Front(f)
  OBVIOUS
<1>3. g \in Seq(Nat) /\ Len(g) = n - 1 /\ \A j \in 1 .. (n - 1) : g[j] = f[j]
  BY <1>1, <1>2 DEF Front
<1>4. DOMAIN g = 1 .. (n - 1)
  BY <1>3
<1>5. Last(f) = f[n]
  BY <1>1 DEF Last
<1>6. ASSUME NEW i \in 1 .. n, NEW j \in 1 .. n, f[i] = f[j] PROVE i = j
  BY <1>1, <1>6, Zenon DEF IsInjective
<1>7. ToSet(g) = ToSet(f) \ {f[n]}
  <2>1. ASSUME NEW x \in ToSet(g) PROVE x \in ToSet(f) /\ x # f[n]
    <3>1. PICK j \in 1 .. (n - 1) : x = f[j]
      BY <1>3, <1>4 DEF ToSet
    <3>2. j \in 1 .. n /\ n \in 1 .. n /\ j # n
      BY <1>1, <3>1
    <3>. QED  BY <1>1, <1>6, <3>1, <3>2 DEF ToSet
  <2>2. ASSUME NEW x \in ToSet(f), x # f[n] PROVE x \in ToSet(g)
    <3>1. PICK j \in 1 .. n : x = f[j]
      BY <1>1 DEF ToSet
    <3>2. j \in 1 .. (n - 1) /\ g[j] = x
      BY <1>1, <1>3, <2>2, <3>1
    <3>. QED  BY <1>4, <3>2 DEF ToSet
  <2>. QED  BY <2>1, <2>2
<1>8. IsInjective(g)
  <2>1. ASSUME NEW i \in DOMAIN g, NEW j \in DOMAIN g, g[i] = g[j] PROVE i = j
    <3>1. i \in 1 .. (n - 1) /\ j \in 1 .. (n - 1)
      BY <1>4
    <3>2. g[i] = f[i] /\ g[j] = f[j]
      BY <1>3, <3>1
    <3>3. i \in 1 .. n /\ j \in 1 .. n
      BY <3>1
    <3>. QED  BY <1>6, <2>1, <3>2, <3>3
  <2>. QED  BY <2>1, Zenon DEF IsInjective
<1>9. Last(f) \in ToSet(f)
  <2>1. n \in 1 .. n
    OBVIOUS
  <2>. QED  BY <1>1, <1>5, <2>1 DEF ToSet
<1>. QED  BY <1>2, <1>3, <1>5, <1>7, <1>8, <1>9

\* t has a new page q, and F2 of its pages are free.
IsAllocated(s, lv, R, H, base, page, q, t, F2) ==
  /\ IsState(t) /\ t.tree = s.tree /\ t.failed = s.failed
  /\ q \in Nat \ {0} /\ q \notin DOMAIN lv /\ q \notin R
  /\ OnePage(s.pg, q, page, t.pg)
  /\ t.dirty = s.dirty \cup {q}
  /\ Spares(t, H, base)
  /\ FreeList(t, F2, H)
  /\ Tree(t.pg, t.alloc, lv, F2, R \cup {q})

\* allocatePage finds a page that is free or new, and reserves it.
LEMMA PageAllocated ==
  ASSUME NEW s, IsState(s), NEW lv, NEW F, NEW R, Tree(s.pg, s.alloc, lv, F, R),
         NEW H, NEW base, Spares(s, H, base), FreeList(s, F, H),
         NEW page, NEW q, q = NewPageNo(s), NEW t, t = AllocatePage(s, page)
  PROVE  \E F2 : IsAllocated(s, lv, R, H, base, page, q, t, F2)
<1>1. PICK taken : taken = IF s.free = <<>> THEN [s EXCEPT !.alloc = @ + 1]
                                            ELSE [s EXCEPT !.free = Front(@)]
  OBVIOUS
<1>2. t = Write(taken, q, page)
  BY <1>1, Zenon DEF AllocatePage
<1>3. /\ IsState(taken) /\ taken.pg = s.pg /\ taken.dirty = s.dirty
      /\ taken.tree = s.tree /\ taken.failed = s.failed
      /\ IF s.free = <<>> THEN taken.alloc = s.alloc + 1 /\ taken.free = s.free
                          ELSE taken.alloc = s.alloc /\ taken.free = Front(s.free)
  BY <1>1, Zenon DEF IsState
<1>4. /\ IsState(t) /\ t.pg = Over(s.pg, {q}, page) /\ t.dirty = s.dirty \cup {q}
      /\ t.tree = s.tree /\ t.failed = s.failed
      /\ t.alloc = taken.alloc /\ t.free = taken.free
  <2>1. IsWritten(taken, q, page, t)
    BY <1>2, <1>3, Written, Zenon
  <2>. QED  BY <1>3, <2>1, Zenon DEF IsWritten, SameBut
<1>5. s.alloc \in Nat \ {0} /\ Bounds(s.pg, s.alloc, lv, F, R)
  BY DEF Tree, Bounds
<1>6. PICK F2 : F2 = F \ {q}
  OBVIOUS
<1>7. /\ t.alloc \in Nat /\ t.alloc >= s.alloc /\ q \in 1 .. (t.alloc - 1)
      /\ q \in F \/ q = s.alloc
      /\ FreeList(t, F2, H)
  <2>1. CASE s.free = <<>>
    <3>1. q = s.alloc /\ t.alloc = s.alloc + 1 /\ t.free = s.free
      BY <1>3, <1>4, <2>1 DEF NewPageNo
    <3>2. F = {}
      BY <2>1 DEF FreeList, ToSet
    <3>. QED  BY <1>5, <1>6, <3>1, <3>2 DEF FreeList
  <2>2. CASE s.free # <<>>
    <3>1. q = Last(s.free) /\ t.alloc = s.alloc /\ t.free = Front(s.free)
      BY <1>3, <1>4, <2>2 DEF NewPageNo
    <3>2. /\ Last(s.free) \in F /\ Front(s.free) \in Seq(Nat) /\ IsInjective(Front(s.free))
          /\ ToSet(Front(s.free)) = F \ {Last(s.free)}
      BY <2>2, LastOff DEF FreeList
    <3>3. FreeList(t, F2, H)
      BY <1>6, <3>1, <3>2 DEF FreeList
    <3>. QED  BY <1>5, <3>1, <3>2, <3>3 DEF Bounds
  <2>. QED  BY <2>1, <2>2
<1>8. DOMAIN t.pg = DOMAIN s.pg \cup {q} /\ \A p \in DOMAIN s.pg \ {q} : t.pg[p] = s.pg[p]
  <2>1. OnePage(s.pg, q, page, t.pg)
    BY <1>4, OnePageOver, Zenon
  <2>. QED  BY <2>1 DEF OnePage
<1>9. q \notin DOMAIN lv /\ q \notin R /\ q \notin H
  BY <1>5, <1>7 DEF Bounds, Spares, FreeList
<1>10. Bounds(t.pg, t.alloc, lv, F2, R \cup {q})
  <2>1. /\ DOMAIN lv \subseteq 1 .. (t.alloc - 1) /\ F2 \subseteq 1 .. (t.alloc - 1)
        /\ R \cup {q} \subseteq 1 .. (t.alloc - 1)
    BY <1>5, <1>6, <1>7 DEF Bounds
  <2>2. 1 .. (t.alloc - 1) \subseteq DOMAIN t.pg
    <3>1. t.alloc = s.alloc \/ (t.alloc = s.alloc + 1 /\ q = s.alloc)
      BY <1>3, <1>4, Zenon DEF NewPageNo
    <3>. QED  BY <1>5, <1>8, <3>1 DEF Bounds
  <2>. QED  BY <1>5, <1>6, <1>7, <1>9, <2>1, <2>2 DEF Bounds
<1>11. Tree(t.pg, t.alloc, lv, F2, R \cup {q})
  <2>1. F2 \cup (R \cup {q}) \subseteq F \cup R \cup (s.alloc .. (t.alloc - 1))
    BY <1>5, <1>6, <1>7
  <2>2. \A p \in DOMAIN lv : t.pg[p] = s.pg[p]
    BY <1>5, <1>8, <1>9 DEF Bounds
  <2>3. \A c \in (1 .. (s.alloc - 1)) \ (F \cup R) : s.pg[c].type = "large" => t.pg[c].type = "large"
    BY <1>5, <1>7, <1>8 DEF Bounds
  <2>. QED  BY <1>7, <1>10, <2>1, <2>2, <2>3, PagesChanged
<1>12. Spares(t, H, base)
  <2>1. \A p \in H : t.pg[p] = s.pg[p]
    BY <1>5, <1>8, <1>9 DEF Spares, Bounds
  <2>2. H \subseteq 1 .. (t.alloc - 1)
    BY <1>5, <1>7 DEF Spares
  <2>3. t.dirty \cap H = {}
    BY <1>4, <1>9 DEF Spares
  <2>. QED  BY <2>1, <2>2, <2>3 DEF Spares
<1>13. q \in Nat \ {0}
  BY <1>7
<1>14. OnePage(s.pg, q, page, t.pg)
  BY <1>4, OnePageOver, Zenon
<1>. QED  BY <1>4, <1>7, <1>9, <1>11, <1>12, <1>13, <1>14, Zenon DEF IsAllocated

------------------------------------------------------------------------------
(* Insertion                                                               *)

\* The split point of a full page lies within its nodes.
LEMMA SplitPointInRange ==
  ASSUME NEW E, NEW es \in Seq(E), NEW node, NEW i \in 0 .. Len(es)
  PROVE  SplitPoint(es, node, i) \in 0 .. Len(es)
<1>. DEFINE n   == Len(es)
            mid == IF n = 1 THEN 1 ELSE n \div 2
            Valid(x) == \A half \in {SplitLeft(es, node, i, x), SplitRight(es, node, i, x)} :
                          half # <<>> /\ Fits(half)
            Distance(x) == IF x < mid THEN 2 * (mid - x) + (IF i < mid THEN 0 ELSE 1)
                                      ELSE 2 * (x - mid) + (IF i < mid THEN 1 ELSE 0)
            valid == {x \in 0 .. n : Valid(x)}
            Nearest(x) == \A y \in valid : Distance(x) <= Distance(y)
<1>1. n \in Nat
  OBVIOUS
<1>2. SplitPoint(es, node, i) = IF n = 0 THEN 0
                                ELSE IF i >= n /\ Fits(es) /\ Fits(<<node>>) THEN n
                                ELSE IF valid = {} \/ mid \in valid THEN mid
                                ELSE CHOOSE x \in valid : Nearest(x)
  BY Zenon DEF SplitPoint
<1>3. mid \in 0 .. n \/ n = 0
  BY <1>1
<1>4. n = 0 => 0 \in 0 .. n
  BY <1>1
<1>5. n \in 0 .. n
  BY <1>1
<1>6. valid # {} => (CHOOSE x \in valid : Nearest(x)) \in 0 .. n
  <2>. SUFFICES ASSUME valid # {} PROVE (CHOOSE x \in valid : Nearest(x)) \in 0 .. n
    OBVIOUS
  <2>1. valid \subseteq 0 .. n
    OBVIOUS
  <2>. HIDE DEF Valid, valid
  <2>2. \A x \in valid : Distance(x) \in Nat
    <3>1. mid \in Nat
      BY <1>1
    <3>. HIDE DEF mid
    <3>. QED  BY <1>1, <2>1, <3>1
  <2>. HIDE DEF Distance
  <2>3. PICK D : D = {Distance(x) : x \in valid}
    OBVIOUS
  <2>4. D \in SUBSET Nat /\ D # {}
    BY <2>2, <2>3
  <2>5. PICK d \in D : \A e \in D : d <= e
    BY <2>4, LeastOf
  <2>6. \E x \in valid : Nearest(x)
    BY <2>3, <2>5
  <2>. HIDE DEF Nearest
  <2>7. (CHOOSE x \in valid : Nearest(x)) \in valid
    BY <2>6, Zenon
  <2>. QED  BY <2>1, <2>7
<1>. HIDE DEF n, mid, Valid, Distance, valid, Nearest
<1>7. SplitPoint(es, node, i) \in 0 .. n
  BY <1>2, <1>3, <1>4, <1>5, <1>6, Zenon
<1>. QED  BY <1>7 DEF n

\* left and right are es with the node in it, cut in two.
AreHalves(E, es, node, left, right) ==
  /\ left \in Seq(E) /\ left # <<>> /\ right \in Seq(E)
  /\ \E j \in 1 .. Len(es) + 1 : left \o right = InsertAt(es, j, node)

\* The two halves of a split hold the page's nodes and the new one, each
\* in one place.
LEMMA Halved ==
  ASSUME NEW E, NEW es \in Seq(E), NEW node \in E, NEW i \in 0 .. Len(es),
         NEW x \in 0 .. Len(es),
         NEW left, left = SplitLeft(es, node, i, x),
         NEW right, right = SplitRight(es, node, i, x)
  PROVE  AreHalves(E, es, node, left, right)
<1>1. PICK n \in Nat : n = Len(es)
  OBVIOUS
<1>2. PICK stay, moved : stay = SubSeq(es, 1, x) /\ moved = SubSeq(es, x + 1, Len(es))
  OBVIOUS
<1>3. stay \in Seq(E) /\ Len(stay) = x
  BY <1>2
<1>4. moved \in Seq(E) /\ Len(moved) = n - x
  BY <1>1, <1>2
<1>5. CASE x = 0
  <2>1. left = <<node>> /\ right = moved
    BY <1>2, <1>5, Zenon DEF SplitLeft, SplitRight
  <2>2. left = SplitLeft(es, node, 0, x) /\ right = SplitRight(es, node, 0, x)
    BY <1>2, <1>5, <2>1, Zenon DEF SplitLeft, SplitRight
  <2>3. 0 \in 0 .. Len(es)
    BY <1>1
  <2>4. left \o right = InsertAt(es, 0 + 1, node)
    BY <2>2, <2>3, SplitKeepsEntries
  <2>5. 0 + 1 \in 1 .. Len(es) + 1
    BY <1>1
  <2>6. left \in Seq(E) /\ left # <<>>
    BY <2>1
  <2>. QED  BY <1>4, <2>1, <2>4, <2>5, <2>6 DEF AreHalves
<1>6. CASE x > 0 /\ i < x
  <2>1. left = InsertAt(stay, i + 1, node) /\ right = moved
    BY <1>2, <1>6 DEF SplitLeft, SplitRight
  <2>2. i + 1 \in 1 .. Len(stay) + 1
    BY <1>3, <1>6
  <2>3. IsInserted(left, E, stay, node, i + 1)
    BY <1>3, <2>1, <2>2, Inserted, Zenon
  <2>4. left \in Seq(E) /\ left # <<>>
    BY <1>3, <2>3 DEF IsInserted
  <2>5. left \o right = InsertAt(es, i + 1, node)
    BY <1>6, SplitKeepsEntries
  <2>6. i + 1 \in 1 .. Len(es) + 1
    BY <1>1
  <2>. QED  BY <1>4, <2>1, <2>4, <2>5, <2>6 DEF AreHalves
<1>7. CASE x > 0 /\ ~(i < x)
  <2>1. left = stay /\ right = InsertAt(moved, i - x + 1, node)
    BY <1>2, <1>7 DEF SplitLeft, SplitRight
  <2>2. i - x + 1 \in 1 .. Len(moved) + 1
    BY <1>1, <1>4, <1>7
  <2>3. IsInserted(right, E, moved, node, i - x + 1)
    BY <1>4, <2>1, <2>2, Inserted, Zenon
  <2>4. right \in Seq(E)
    BY <2>3 DEF IsInserted
  <2>5. left \o right = InsertAt(es, i + 1, node)
    BY <1>7, SplitKeepsEntries
  <2>6. i + 1 \in 1 .. Len(es) + 1
    BY <1>1
  <2>7. left \in Seq(E) /\ left # <<>>
    BY <1>3, <1>7, <2>1
  <2>. QED  BY <2>4, <2>5, <2>6, <2>7 DEF AreHalves
<1>. QED  BY <1>5, <1>6, <1>7

\* The writer's state, its tree and what it must not touch.
Sound(s, H, base, lv, F, R) ==
  /\ IsState(s)
  /\ Tree(s.pg, s.alloc, lv, F, R)
  /\ Filled(s.pg, lv)
  /\ Spares(s, H, base)

\* A node that may go into any page of level l; what it claims is reserved.
Pending(s, lv, R, l, node) ==
  /\ Leads(s.pg, lv, l, node)
  /\ Claims(l, node) \subseteq R
  /\ s.tree.root \notin Claims(l, node)

\* What inserting on page p of level l comes to: a failure, or a tree with
\* p's nodes and the new one in p and perhaps one page more, and perhaps a
\* node for it to go into the level above.
Raised(s, H, base, lv, p, l, r) ==
  \/ r.s.failed /\ r.node = NoNode
  \/ \E lv2, F2, R2 :
       /\ Sound(r.s, H, base, lv2, F2, R2) /\ FreeList(r.s, F2, H)
       /\ r.s.tree.root = s.tree.root /\ r.s.tree.height = s.tree.height
       /\ s.tree.root \in R2
       /\ \A q \in DOMAIN lv : q \in DOMAIN lv2 /\ lv2[q] = lv[q]
       /\ \A q \in DOMAIN lv \ {p} : r.s.pg[q] = s.pg[q]
       /\ s.dirty \subseteq r.s.dirty
       /\ r.node = NoNode \/ Pending(r.s, lv2, R2, l + 1, r.node)

\* t has a node more, in page p, and that node's pages are no longer reserved.
HasInserted(s, H, base, lv, F, R, p, es, t) ==
  /\ Sound(t, H, base, lv, F, R) /\ FreeList(t, F, H)
  /\ SameBut(s, t) /\ Rewritten(s.pg, t.pg, p, es) /\ s.dirty \subseteq t.dirty

\* An entry that fits its page.
LEMMA InsertFits ==
  ASSUME NEW s, NEW H, NEW base, NEW lv, NEW F, NEW R,
         Sound(s, H, base, lv, F, R), FreeList(s, F, H),
         NEW p \in DOMAIN lv \cap s.dirty, NEW l, l = lv[p], s.tree.root \in R,
         NEW node, Pending(s, lv, R, l, node), NEW i \in 1 .. Len(s.pg[p].ents) + 1,
         NEW es, es = InsertAt(s.pg[p].ents, i, node), NEW t, t = SetEnts(s, p, es)
  PROVE  HasInserted(s, H, base, lv, F, R \ Claims(l, node), p, es, t)
<1>1. p \in DOMAIN s.pg /\ IsPage(s.pg[p], l) /\ p \notin H
  BY DEF Sound, Tree, Bounds, Spares
<1>2. AreEntsSet(s, p, es, t)
  BY <1>1, EntsSet, Zenon DEF Sound
<1>3. Rewritten(s.pg, t.pg, p, es) /\ SameBut(s, t) /\ t.dirty = s.dirty \cup {p}
  BY <1>2, Zenon DEF AreEntsSet
<1>4. Tree(t.pg, t.alloc, lv, F, R \ Claims(l, node))
  <2>1. Tree(t.pg, s.alloc, lv, F, R \ Claims(l, node))
    BY <1>3, NodeInserted, Zenon DEF Sound, Pending
  <2>. QED  BY <1>3, <2>1, Zenon DEF SameBut
<1>5. Filled(t.pg, lv)
  <2>1. es # <<>>
    <3>1. s.pg[p].ents \in Seq(Kind(l)) /\ node \in Kind(l)
      BY <1>1 DEF IsPage, Pending, Leads
    <3>2. IsInserted(es, Kind(l), s.pg[p].ents, node, i)
      BY <3>1, Inserted, Zenon
    <3>. QED  BY <3>1, <3>2 DEF IsInserted
  <2>. QED  BY <1>3, <2>1 DEF Filled, Rewritten, Sound, Tree, Bounds
<1>6. Spares(t, H, base)
  <2>1. \A q \in H : q \in DOMAIN s.pg /\ q # p
    BY <1>1 DEF Sound, Tree, Bounds, Spares
  <2>. QED  BY <1>1, <1>3, <2>1 DEF Spares, SameBut, Rewritten, Sound
<1>7. FreeList(t, F, H)
  BY <1>3 DEF FreeList, SameBut
<1>8. IsState(t)
  BY <1>3, Zenon DEF SameBut
<1>. QED  BY <1>3, <1>4, <1>5, <1>6, <1>7, <1>8 DEF HasInserted, Sound

\* A page that splits.
LEMMA SplitRaises ==
  ASSUME NEW s, NEW H, NEW base, NEW lv, NEW F, NEW R,
         Sound(s, H, base, lv, F, R), FreeList(s, F, H),
         NEW at, NEW p \in DOMAIN lv \cap s.dirty, at.p = p, NEW l, l = lv[p], s.tree.root \in R,
         NEW node, Pending(s, lv, R, l, node), at.i \in 1 .. Len(s.pg[p].ents) + 1,
         NEW r, r = Split(s, at, node)
  PROVE  Raised(s, H, base, lv, p, l, r)
<1>1. PICK page, x : page = s.pg[p] /\ x = SplitPoint(page.ents, node, at.i - 1)
  OBVIOUS
<1>2. PICK left, right : /\ left = SplitLeft(page.ents, node, at.i - 1, x)
                         /\ right = SplitRight(page.ents, node, at.i - 1, x)
  OBVIOUS
<1>3. PICK q, half : q = NewPageNo(s) /\ half = [page EXCEPT !.ents = right]
  OBVIOUS
<1>4. PICK moved : moved = AllocatePage(s, half)
  OBVIOUS
<1>5. PICK done : done = SetEnts(moved, p, left)
  OBVIOUS
<1>6. PICK count : count = [done EXCEPT
        !.tree.leaves = IF page.type = "leaf" THEN @ + 1 ELSE @,
        !.tree.items  = IF page.type = "leaf" THEN @ ELSE @ + 1]
  OBVIOUS
<1>7. r = IF right # <<>> /\ Fits(left) /\ Fits(right)
          THEN [s |-> count, node |-> Entry(Head(right).k, q)]
          ELSE [s |-> Failed(done), node |-> NoNode]
  BY <1>1, <1>2, <1>3, <1>4, <1>5, <1>6, Zenon DEF Split
<1>8. IsPage(page, l) /\ p \in DOMAIN s.pg /\ node \in Kind(l)
  BY <1>1 DEF Sound, Tree, Bounds, Pending, Leads
<1>9. AreHalves(Kind(l), page.ents, node, left, right)
  <2>1. at.i - 1 \in 0 .. Len(page.ents) /\ page.ents \in Seq(Kind(l))
    BY <1>1, <1>8 DEF IsPage
  <2>2. x \in 0 .. Len(page.ents)
    BY <1>1, <2>1, SplitPointInRange, Zenon
  <2>. QED  BY <1>2, <1>8, <2>1, <2>2, Halved, Zenon
<1>10. PICK F2 : IsAllocated(s, lv, R, H, base, half, q, moved, F2)
  BY <1>3, <1>4, PageAllocated, Zenon DEF Sound
<1>11. PICK j \in 1 .. Len(page.ents) + 1 : left \o right = InsertAt(page.ents, j, node)
  BY <1>9 DEF AreHalves
<1>12. /\ half = [type |-> half.type, ents |-> half.ents, stale |-> half.stale]
       /\ half.type = page.type /\ half.ents = right
  BY <1>3, <1>8, Zenon DEF IsPage
<1>13. IsPage(half, l)
  BY <1>8, <1>9, <1>12 DEF IsPage, AreHalves
<1>14. /\ DOMAIN moved.pg = DOMAIN s.pg \cup {q} /\ moved.pg[q] = half
       /\ q # p /\ \A y \in DOMAIN s.pg \ {q} : moved.pg[y] = s.pg[y]
  BY <1>10 DEF IsAllocated, OnePage
<1>15. moved.pg[p] = page
  BY <1>1, <1>8, <1>14
<1>16. AreEntsSet(moved, p, left, done)
  BY <1>5, <1>8, <1>14, <1>15, <1>10, EntsSet DEF IsAllocated
<1>17. /\ IsState(done) /\ done.tree = s.tree /\ done.alloc = moved.alloc /\ done.free = moved.free
       /\ done.dirty = s.dirty \cup {p, q}
       /\ Rewritten(moved.pg, done.pg, p, left)
  BY <1>10, <1>16 DEF AreEntsSet, SameBut, IsAllocated
<1>18. CASE ~(right # <<>> /\ Fits(left) /\ Fits(right))
  <2>1. r.s = Failed(done) /\ r.node = NoNode
    BY <1>7, <1>18
  <2>2. r.s.failed = TRUE
    BY <1>17, <2>1, Zenon DEF Failed, IsState
  <2>. QED  BY <2>1, <2>2 DEF Raised
<1>19. CASE right # <<>> /\ Fits(left) /\ Fits(right)
  <2>1. r.s = count /\ r.node = Entry(Head(right).k, q)
    BY <1>7, <1>19
  <2>2. /\ IsState(count) /\ count.pg = done.pg /\ count.dirty = done.dirty
        /\ count.alloc = done.alloc /\ count.free = done.free
        /\ count.tree.root = done.tree.root /\ count.tree.height = done.tree.height
    BY <1>6, <1>17, Zenon DEF IsState, IsTree
  <2>3. PICK lv2 : lv2 = With(lv, q, l)
    OBVIOUS
  <2>4. PICK R2 : R2 = (R \cup {q}) \ Claims(l, node)
    OBVIOUS
  <2>5. Tree(done.pg, moved.alloc, lv2, F2, R2)
    <3>1. PICK whole : whole = [page EXCEPT !.ents = left \o right]
      OBVIOUS
    <3>2. /\ whole = [type |-> whole.type, ents |-> whole.ents, stale |-> whole.stale]
          /\ whole.type = page.type /\ whole.ents = left \o right
      BY <1>8, <3>1, Zenon DEF IsPage
    <3>3. PICK full : full = Over(moved.pg, {p}, whole)
      OBVIOUS
    <3>4. OnePage(moved.pg, p, whole, full)
      BY <3>3, OnePageOver, Zenon
    <3>5. DOMAIN full = DOMAIN moved.pg /\ full[p] = whole
          /\ \A y \in DOMAIN moved.pg \ {p} : full[y] = moved.pg[y]
      BY <1>8, <1>14, <3>4 DEF OnePage
    <3>6. Rewritten(moved.pg, full, p, InsertAt(moved.pg[p].ents, j, node))
      BY <1>11, <1>15, <3>2, <3>5 DEF Rewritten
    <3>7. Leads(moved.pg, lv, l, node)
      <4>1. Leads(s.pg, lv, l, node) /\ Claims(l, node) \subseteq R
        BY DEF Pending
      <4>2. \A c \in Claims(l, node) : moved.pg[c] = s.pg[c]
        BY <1>10, <1>14, <4>1 DEF IsAllocated, Sound, Tree, Bounds
      <4>. QED  BY <4>1, <4>2 DEF Leads
    <3>8. Tree(full, moved.alloc, lv, F2, R2)
      <4>1. Claims(l, node) \subseteq R \cup {q}
        BY DEF Pending
      <4>2. Tree(moved.pg, moved.alloc, lv, F2, R \cup {q})
        BY <1>10 DEF IsAllocated
      <4>3. j \in 1 .. Len(moved.pg[p].ents) + 1
        BY <1>15
      <4>. QED  BY <2>4, <3>6, <3>7, <4>1, <4>2, <4>3, NodeInserted
    <3>9. q \in R2 \ DOMAIN lv
      <4>1. Claims(l, node) \subseteq R /\ q \notin R /\ q \notin DOMAIN lv
        BY <1>10 DEF Pending, IsAllocated
      <4>. QED  BY <2>4, <4>1
    <3>10. /\ DOMAIN done.pg = DOMAIN full
           /\ done.pg[q] = half
           /\ \A y \in DOMAIN full \ {p, q} : done.pg[y] = full[y]
      BY <1>14, <1>17, <3>5 DEF Rewritten
    <3>11. IsPage(done.pg[p], l) /\ done.pg[p].ents = left
      BY <1>8, <1>9, <1>15, <1>17 DEF Rewritten, IsPage, AreHalves
    <3>12. left \in Seq(Kind(l)) /\ right \in Seq(Kind(l)) /\ full[p].ents = left \o right
      BY <1>9, <3>2, <3>5 DEF AreHalves
    <3>13. /\ left \in Seq(Kind(lv[p])) /\ right \in Seq(Kind(lv[p]))
           /\ IsPage(done.pg[p], lv[p]) /\ IsPage(done.pg[q], lv[p])
           /\ done.pg[q].ents = right /\ p \in DOMAIN lv
      BY <1>12, <1>13, <3>10, <3>11, <3>12
    <3>14. lv2 = With(lv, q, lv[p])
      BY <2>3, Zenon
    <3>. QED  BY <3>8, <3>9, <3>10, <3>11, <3>12, <3>13, <3>14, PageDivided, Zenon
  <2>6. Filled(done.pg, lv2)
    <3>. SUFFICES ASSUME NEW y \in DOMAIN lv2, lv2[y] # 1 PROVE done.pg[y].ents # <<>>
      BY DEF Filled
    <3>1. CASE y = q
      BY <1>12, <1>14, <1>17, <1>19, <3>1 DEF Rewritten
    <3>2. CASE y = p
      BY <1>9, <1>17, <3>2 DEF Rewritten, AreHalves
    <3>3. CASE y # p /\ y # q
      <4>1. y \in DOMAIN lv /\ lv[y] # 1 /\ y \in DOMAIN s.pg
        BY <2>3, <3>3 DEF Sound, Tree, Bounds, With
      <4>2. done.pg[y] = s.pg[y]
        BY <1>14, <1>17, <3>3, <4>1 DEF Rewritten
      <4>. QED  BY <4>1, <4>2 DEF Sound, Filled
    <3>. QED  BY <3>1, <3>2, <3>3
  <2>7. Spares(done, H, base)
    <3>1. Spares(moved, H, base) /\ moved.dirty = s.dirty \cup {q}
      BY <1>10 DEF IsAllocated
    <3>2. p \notin H /\ \A y \in H : y \in DOMAIN moved.pg
      BY <1>14 DEF Sound, Spares, Tree, Bounds
    <3>. QED  BY <1>17, <3>1, <3>2 DEF Spares, Rewritten
  <2>8. Sound(count, H, base, lv2, F2, R2)
    <3>1. Spares(count, H, base)
      BY <2>2, <2>7 DEF Spares
    <3>. QED  BY <1>17, <2>2, <2>5, <2>6, <3>1 DEF Sound
  <2>9. FreeList(count, F2, H)
    BY <1>10, <1>17, <2>2 DEF FreeList, IsAllocated
  <2>10. s.tree.root \in R2 /\ s.tree.root # q
    BY <2>4, <1>10 DEF Pending, IsAllocated
  <2>11. \A y \in DOMAIN lv : y \in DOMAIN lv2 /\ lv2[y] = lv[y]
    BY <1>10, <2>3 DEF IsAllocated, With
  <2>12. \A y \in DOMAIN lv \ {p} : count.pg[y] = s.pg[y]
    <3>1. \A y \in DOMAIN lv : y # q /\ y \in DOMAIN s.pg
      BY <1>10 DEF IsAllocated, Sound, Tree, Bounds
    <3>. QED  BY <1>14, <1>17, <2>2, <3>1 DEF Rewritten
  <2>13. Pending(count, lv2, R2, l + 1, r.node)
    <3>1. l \in Nat \ {0}
      BY DEF Sound, Tree, Bounds
    <3>2. Head(right).k \in Nat
      <4>1. right \in Seq(Kind(l)) /\ right # <<>>
        BY <1>9, <1>19 DEF AreHalves
      <4>2. Head(right) \in Kind(l)
        BY <4>1
      <4>. QED  BY <4>2 DEF Kind, LeafNode, BranchNode
    <3>3. r.node \in BranchNode /\ r.node.child = q
      BY <1>10, <2>1, <3>2 DEF BranchNode, Entry, IsAllocated
    <3>4. q \in DOMAIN lv2 /\ lv2[q] = l
      BY <2>3 DEF With
    <3>5. l + 1 # 1 /\ (l + 1) - 1 = l
      BY <3>1
    <3>6. q \in R2
      BY <2>4, <1>10 DEF Pending, IsAllocated
    <3>7. count.tree.root = s.tree.root
      BY <1>17, <2>2
    <3>. QED  BY <2>10, <3>3, <3>4, <3>5, <3>6, <3>7 DEF Pending, Leads, Claims, Kind
  <2>14. s.dirty \subseteq count.dirty
    BY <1>17, <2>2
  <2>15. count.tree.root = s.tree.root /\ count.tree.height = s.tree.height
    BY <1>17, <2>2
  <2>. QED  BY <2>1, <2>8, <2>9, <2>10, <2>11, <2>12, <2>13, <2>14, <2>15, Zenon DEF Raised
<1>. QED  BY <1>18, <1>19

\* One level of insertNodeAt and insertIntoParent.
LEMMA LevelRaises ==
  ASSUME NEW s, NEW H, NEW base, NEW lv, NEW F, NEW R,
         Sound(s, H, base, lv, F, R), FreeList(s, F, H),
         NEW at, NEW p \in DOMAIN lv \cap s.dirty, at.p = p, NEW l, l = lv[p], s.tree.root \in R,
         NEW node, node # NoNode => Pending(s, lv, R, l, node),
         at.i \in 1 .. Len(s.pg[p].ents) + 1,
         NEW a, a.s = s, a.node = node, NEW r, r = InsertLevel(a, at)
  PROVE  Raised(s, H, base, lv, p, l, r)
<1>1. a.s = s /\ a.node = node
  OBVIOUS
<1>2. CASE node = NoNode
  <2>1. r = a
    BY <1>1, <1>2, Zenon DEF InsertLevel
  <2>2. r.s = s /\ r.node = NoNode
    BY <1>1, <1>2, <2>1
  <2>. QED  BY <2>2, Zenon DEF Raised
<1>3. CASE node # NoNode
  <2>1. Pending(s, lv, R, l, node)
    BY <1>3
  <2>2. PICK es : es = InsertAt(s.pg[p].ents, at.i, node)
    OBVIOUS
  <2>3. r = IF at.i <= Len(s.pg[p].ents) + 1 /\ Fits(es)
            THEN [s |-> SetEnts(s, p, es), node |-> NoNode] ELSE Split(s, at, node)
    BY <1>1, <1>3, <2>2, Zenon DEF InsertLevel
  <2>4. CASE Fits(es)
    <3>1. PICK t : t = SetEnts(s, p, es)
      OBVIOUS
    <3>2. r.s = t /\ r.node = NoNode
      BY <2>3, <2>4, <3>1
    <3>3. /\ Sound(t, H, base, lv, F, R \ Claims(l, node)) /\ FreeList(t, F, H)
          /\ SameBut(s, t) /\ Rewritten(s.pg, t.pg, p, es) /\ s.dirty \subseteq t.dirty
      <4>1. HasInserted(s, H, base, lv, F, R \ Claims(l, node), p, es, t)
        BY <2>1, <2>2, <3>1, InsertFits, Zenon
      <4>. QED  BY <4>1, Zenon DEF HasInserted
    <3>4. t.tree = s.tree /\ \A q \in DOMAIN lv \ {p} : t.pg[q] = s.pg[q]
      BY <3>3 DEF SameBut, Rewritten, Sound, Tree, Bounds
    <3>5. s.tree.root \in R \ Claims(l, node)
      BY <2>1 DEF Pending
    <3>. QED  BY <3>2, <3>3, <3>4, <3>5, Zenon DEF Raised
  <2>5. CASE ~Fits(es)
    <3>1. r = Split(s, at, node)
      BY <2>3, <2>5
    <3>. QED  BY <2>1, <3>1, SplitRaises, Zenon
  <2>. QED  BY <2>4, <2>5
<1>. QED  BY <1>2, <1>3

\* A reserved page with one node joins.
LEMMA PageBegun ==
  ASSUME NEW pg, NEW alloc, NEW lv, NEW F, NEW R, Tree(pg, alloc, lv, F, R),
         NEW q \in R \ DOMAIN lv, NEW l \in Nat \ {0}, NEW e, IsPage(pg[q], l), pg[q].ents = <<e>>,
         Leads(pg, lv, l, e), Claims(l, e) \subseteq R
  PROVE  Tree(pg, alloc, With(lv, q, l), F, R \ Claims(l, e))
<1>1. PICK empty : empty = [pg[q] EXCEPT !.ents = <<>>]
  OBVIOUS
<1>2. IsPage(empty, l) /\ empty.ents = <<>>
  <2>1. /\ empty = [type |-> empty.type, ents |-> empty.ents, stale |-> empty.stale]
        /\ empty.type = pg[q].type /\ empty.ents = <<>>
    BY <1>1, Zenon DEF IsPage
  <2>. QED  BY <2>1 DEF IsPage
<1>3. PICK pg0 : pg0 = Over(pg, {q}, empty)
  OBVIOUS
<1>4. OnePage(pg, q, empty, pg0)
  BY <1>3, OnePageOver, Zenon
<1>5. q \in DOMAIN pg /\ DOMAIN lv \subseteq DOMAIN pg
  BY DEF Tree, Bounds
<1>6. DOMAIN pg0 = DOMAIN pg /\ pg0[q] = empty /\ \A p \in DOMAIN pg \ {q} : pg0[p] = pg[p]
  BY <1>4, <1>5 DEF OnePage
<1>7. Tree(pg0, alloc, lv, F, R)
  <2>1. Bounds(pg0, alloc, lv, F, R) /\ alloc >= alloc
    BY <1>6 DEF Tree, Bounds
  <2>2. \A p \in DOMAIN lv : pg0[p] = pg[p]
    BY <1>5, <1>6
  <2>3. \A c \in (1 .. (alloc - 1)) \ (F \cup R) : pg[c].type = "large" => pg0[c].type = "large"
    BY <1>6 DEF Tree, Bounds
  <2>4. F \cup R \subseteq F \cup R \cup (alloc .. (alloc - 1))
    OBVIOUS
  <2>. QED  BY <2>1, <2>2, <2>3, <2>4, PagesChanged
<1>8. Tree(pg0, alloc, With(lv, q, l), F, R)
  BY <1>2, <1>6, <1>7, PageAdded, Zenon
<1>9. PICK lv2 : lv2 = With(lv, q, l)
  OBVIOUS
<1>10. q \in DOMAIN lv2 /\ lv2[q] = l /\ \A p \in DOMAIN lv : p \in DOMAIN lv2 /\ lv2[p] = lv[p]
  BY <1>9 DEF With
<1>11. Leads(pg0, lv2, lv2[q], e)
  <2>1. \A c \in Claims(l, e) : pg[c].type = "large" => pg0[c].type = "large"
    <3>. TAKE c \in Claims(l, e)
    <3>1. c = q => pg[c].type # "large"
      BY DEF IsPage
    <3>2. c \in DOMAIN pg
      BY DEF Tree, Bounds
    <3>. QED  BY <1>6, <3>1, <3>2
  <2>. QED  BY <1>10, <2>1 DEF Leads
<1>12. InsertAt(<<>>, 1, e) = <<e>>
  <2>1. e \in Kind(l) /\ <<>> \in Seq(Kind(l)) /\ Len(<<>>) = 0 /\ 1 \in 1 .. Len(<<>>) + 1
    BY DEF Leads
  <2>2. PICK all : all = InsertAt(<<>>, 1, e)
    OBVIOUS
  <2>3. IsInserted(all, Kind(l), <<>>, e, 1)
    BY <2>1, <2>2, Inserted
  <2>4. all \in Seq(Kind(l)) /\ Len(all) = 1 /\ all[1] = e
    BY <2>1, <2>3 DEF IsInserted
  <2>. QED  BY <2>2, <2>4
<1>13. Rewritten(pg0, pg, q, InsertAt(pg0[q].ents, 1, e))
  <2>1. pg0[q].ents = <<>>
    BY <1>2, <1>6
  <2>2. pg[q].type = pg0[q].type
    BY <1>2, <1>6 DEF IsPage
  <2>3. pg[q].ents = InsertAt(pg0[q].ents, 1, e)
    BY <1>12, <2>1
  <2>4. pg[q] = [type |-> pg[q].type, ents |-> pg[q].ents, stale |-> pg[q].stale]
    BY Zenon DEF IsPage
  <2>. QED  BY <1>6, <2>2, <2>3, <2>4, Zenon DEF Rewritten
<1>14. 1 \in 1 .. Len(pg0[q].ents) + 1
  BY <1>2, <1>6
<1>. QED  BY <1>8, <1>9, <1>10, <1>11, <1>13, <1>14, NodeInserted

\* A state between two calls.
Stands(s, H, base) ==
  \E lv, F, R :
    /\ Sound(s, H, base, lv, F, R) /\ FreeList(s, F, H)
    /\ s.tree.root = NoPage \/ Rooted(s, lv, R)
    /\ s.tree.root = NoPage => s.tree.height = 0

\* The first leaf.
LEMMA RootCreated ==
  ASSUME NEW s, NEW H, NEW base, NEW lv, NEW F, NEW R,
         Sound(s, H, base, lv, F, R), FreeList(s, F, H),
         NEW node, Pending(s, lv, R, 1, node), NEW t, t = CreateRoot(s, node)
  PROVE  Stands(t, H, base)
<1>1. PICK page, q : page = LeafPage(<<node>>) /\ q = NewPageNo(s)
  OBVIOUS
<1>2. PICK moved : moved = AllocatePage(s, page)
  OBVIOUS
<1>3. t = [moved EXCEPT !.tree = [root |-> q, height |-> 1, items |-> 1, leaves |-> 1]]
  BY <1>1, <1>2, Zenon DEF CreateRoot
<1>4. PICK F2 : IsAllocated(s, lv, R, H, base, page, q, moved, F2)
  BY <1>1, <1>2, PageAllocated, Zenon DEF Sound
<1>5. /\ IsState(t) /\ t.pg = moved.pg /\ t.dirty = moved.dirty /\ t.free = moved.free
      /\ t.alloc = moved.alloc /\ t.tree.root = q /\ t.tree.height = 1
  <2>1. IsState(moved)
    BY <1>4, Zenon DEF IsAllocated
  <2>2. PICK tree : tree = [root |-> q, height |-> 1, items |-> 1, leaves |-> 1]
    OBVIOUS
  <2>3. IsTree(tree) /\ tree.root = q /\ tree.height = 1
    BY <2>2, Zenon DEF IsTree
  <2>4. t = [moved EXCEPT !.tree = tree]
    BY <1>3, <2>2, Zenon
  <2>. HIDE <1>3
  <2>5. t = [pg |-> t.pg, dirty |-> t.dirty, free |-> t.free, alloc |-> t.alloc,
             tree |-> t.tree, failed |-> t.failed]
    BY <2>1, <2>4, Zenon DEF IsState
  <2>6. /\ t.pg = moved.pg /\ t.dirty = moved.dirty /\ t.free = moved.free
        /\ t.alloc = moved.alloc /\ t.tree = tree
    BY <2>1, <2>4, Zenon DEF IsState
  <2>. QED  BY <2>3, <2>5, <2>6, Zenon DEF IsState
<1>6. /\ Tree(moved.pg, moved.alloc, lv, F2, R \cup {q}) /\ FreeList(moved, F2, H)
      /\ Spares(moved, H, base)
      /\ q \notin DOMAIN lv /\ q \notin R /\ q # NoPage /\ moved.pg[q] = page
      /\ \A p \in DOMAIN s.pg \ {q} : moved.pg[p] = s.pg[p]
  BY <1>4 DEF IsAllocated, OnePage, NoPage
<1>7. IsPage(page, 1) /\ page.ents = <<node>>
  BY <1>1 DEF LeafPage, IsPage, Pending, Leads, Kind
<1>8. Leads(moved.pg, lv, 1, node)
  <2>1. Leads(s.pg, lv, 1, node) /\ Claims(1, node) \subseteq R
    BY DEF Pending
  <2>2. \A c \in Claims(1, node) : moved.pg[c] = s.pg[c]
    BY <1>6, <2>1 DEF Sound, Tree, Bounds
  <2>. QED  BY <2>1, <2>2 DEF Leads
<1>9. PICK lv2, R2 : lv2 = With(lv, q, 1) /\ R2 = (R \cup {q}) \ Claims(1, node)
  OBVIOUS
<1>10. Tree(moved.pg, moved.alloc, lv2, F2, R2)
  <2>1. q \in (R \cup {q}) \ DOMAIN lv /\ Claims(1, node) \subseteq R \cup {q} /\ 1 \in Nat \ {0}
    BY <1>6 DEF Pending
  <2>2. IsPage(moved.pg[q], 1) /\ moved.pg[q].ents = <<node>>
    BY <1>6, <1>7
  <2>. QED  BY <1>6, <1>8, <1>9, <2>1, <2>2, PageBegun
<1>11. Filled(moved.pg, lv2)
  <2>1. DOMAIN lv \subseteq DOMAIN s.pg
    BY DEF Sound, Tree, Bounds
  <2>. QED  BY <1>6, <1>9, <2>1 DEF Filled, Sound, With
<1>12. Sound(t, H, base, lv2, F2, R2) /\ FreeList(t, F2, H)
  BY <1>5, <1>6, <1>10, <1>11 DEF Sound, Spares, FreeList
<1>13. Rooted(t, lv2, R2)
  BY <1>5, <1>6, <1>9 DEF Rooted, With, Pending
<1>. QED  BY <1>5, <1>6, <1>12, <1>13 DEF Stands

\* Nothing but the tree's record differs, in the root and the height.
Reroots(s, t, root, height) ==
  /\ IsState(t)
  /\ t.pg = s.pg /\ t.dirty = s.dirty /\ t.free = s.free
  /\ t.alloc = s.alloc /\ t.failed = s.failed
  /\ t.tree.root = root /\ t.tree.height = height

\* A new root one level higher.
LEMMA RootRaised ==
  ASSUME NEW s, IsState(s), NEW q, NEW t,
         t = [s EXCEPT !.tree.root = q, !.tree.height = @ + 1]
  PROVE  Reroots(s, t, q, s.tree.height + 1)
<1>1. IsState(t) /\ t.tree.root = q /\ t.tree.height = s.tree.height + 1
  BY Zenon DEF IsState, IsTree
<1>2. /\ t.pg = s.pg /\ t.dirty = s.dirty /\ t.free = s.free
      /\ t.alloc = s.alloc /\ t.failed = s.failed
  BY Zenon DEF IsState
<1>. QED  BY <1>1, <1>2 DEF Reroots

\* A root above the two halves of the old one.
LEMMA NewRootCreated ==
  ASSUME NEW s, NEW H, NEW base, NEW lv, NEW F, NEW R,
         Sound(s, H, base, lv, F, R), FreeList(s, F, H), Rooted(s, lv, R),
         NEW node, Pending(s, lv, R, s.tree.height + 1, node), NEW t, t = CreateNewRoot(s, node)
  PROVE  Stands(t, H, base)
<1>1. PICK first, q : first = Entry(NoKey, s.tree.root) /\ q = NewPageNo(s)
  OBVIOUS
<1>2. PICK page, l : page = BranchPage(<<first, node>>) /\ l = s.tree.height + 1
  OBVIOUS
<1>3. PICK moved : moved = AllocatePage(s, page)
  OBVIOUS
<1>4. t = [moved EXCEPT !.tree.root = q, !.tree.height = @ + 1]
  BY <1>1, <1>2, <1>3, Zenon DEF CreateNewRoot
<1>5. PICK F2 : IsAllocated(s, lv, R, H, base, page, q, moved, F2)
  BY <1>1, <1>3, PageAllocated, Zenon DEF Sound
<1>6. /\ IsState(t) /\ t.pg = moved.pg /\ t.dirty = moved.dirty /\ t.free = moved.free
      /\ t.alloc = moved.alloc /\ t.tree.root = q /\ t.tree.height = l
  <2>1. IsState(moved)
    BY <1>5, Zenon DEF IsAllocated
  <2>2. Reroots(moved, t, q, moved.tree.height + 1)
    BY <1>4, <2>1, RootRaised, Zenon
  <2>3. moved.tree = s.tree
    BY <1>5, Zenon DEF IsAllocated
  <2>. QED  BY <1>2, <2>2, <2>3, Zenon DEF Reroots
<1>7. /\ Tree(moved.pg, moved.alloc, lv, F2, R \cup {q}) /\ FreeList(moved, F2, H)
      /\ Spares(moved, H, base)
      /\ q \notin DOMAIN lv /\ q \notin R /\ q # NoPage /\ moved.pg[q] = page
      /\ DOMAIN moved.pg = DOMAIN s.pg \cup {q}
      /\ \A p \in DOMAIN s.pg \ {q} : moved.pg[p] = s.pg[p]
  BY <1>5 DEF IsAllocated, OnePage, NoPage
<1>8. /\ s.tree.root \in DOMAIN lv /\ s.tree.root \in R /\ lv[s.tree.root] = l - 1
      /\ l \in Nat /\ l > 1
  BY <1>2 DEF Rooted, Sound, Tree, Bounds
<1>9. /\ node \in BranchNode /\ node.child \in DOMAIN lv /\ lv[node.child] = l - 1
      /\ node.child \in R /\ node.child # s.tree.root
  BY <1>2, <1>8 DEF Pending, Leads, Claims, Kind
<1>10. first \in BranchNode /\ first.child = s.tree.root
  BY <1>1, <1>8 DEF BranchNode, Entry, NoKey, Sound, Tree, Bounds
<1>11. PICK pg0 : pg0 = Over(moved.pg, {q}, BranchPage(<<first>>))
  OBVIOUS
<1>12. OnePage(moved.pg, q, BranchPage(<<first>>), pg0)
  BY <1>11, OnePageOver, Zenon
<1>13. /\ DOMAIN pg0 = DOMAIN moved.pg /\ pg0[q] = BranchPage(<<first>>)
       /\ \A p \in DOMAIN moved.pg \ {q} : pg0[p] = moved.pg[p]
  BY <1>7, <1>12 DEF OnePage
<1>14. PICK lv2, R1 : lv2 = With(lv, q, l) /\ R1 = R \cup {q}
  OBVIOUS
<1>15. Tree(pg0, moved.alloc, lv, F2, R1)
  <2>1. Tree(moved.pg, moved.alloc, lv, F2, R1)
    BY <1>7, <1>14
  <2>2. Bounds(pg0, moved.alloc, lv, F2, R1) /\ moved.alloc >= moved.alloc
    BY <1>13, <2>1 DEF Tree, Bounds
  <2>3. \A p \in DOMAIN lv : pg0[p] = moved.pg[p]
    BY <1>7, <1>13, <2>1 DEF Tree, Bounds
  <2>4. \A c \in (1 .. (moved.alloc - 1)) \ (F2 \cup R1) :
          moved.pg[c].type = "large" => pg0[c].type = "large"
    BY <1>13, <1>14, <2>1 DEF Tree, Bounds
  <2>5. F2 \cup R1 \subseteq F2 \cup R1 \cup (moved.alloc .. (moved.alloc - 1))
    OBVIOUS
  <2>. QED  BY <2>1, <2>2, <2>3, <2>4, <2>5, PagesChanged
<1>16. Tree(pg0, moved.alloc, lv2, F2, R1 \ Claims(l, first))
  <2>1. IsPage(pg0[q], l) /\ pg0[q].ents = <<first>>
    <3>1. PICK page1 : page1 = [type |-> "branch", ents |-> <<first>>, stale |-> NoPage]
      OBVIOUS
    <3>2. /\ page1 = [type |-> page1.type, ents |-> page1.ents, stale |-> page1.stale]
          /\ page1.type = "branch" /\ page1.ents = <<first>>
      BY <3>1, Zenon
    <3>3. pg0[q] = page1
      BY <1>13, <3>1, Zenon DEF BranchPage
    <3>4. l # 1 /\ <<first>> \in Seq(BranchNode)
      BY <1>8, <1>10
    <3>5. IsPage(page1, l)
      BY <3>2, <3>4 DEF IsPage, Kind
    <3>. QED  BY <3>2, <3>3, <3>5, Zenon
  <2>2. Leads(pg0, lv, l, first) /\ Claims(l, first) \subseteq R1
    BY <1>8, <1>10, <1>14 DEF Leads, Claims, Kind
  <2>3. q \in R1 \ DOMAIN lv /\ l \in Nat \ {0}
    BY <1>7, <1>8, <1>14
  <2>. QED  BY <1>14, <1>15, <2>1, <2>2, <2>3, PageBegun
<1>17. InsertAt(<<first>>, 2, node) = <<first, node>>
  <2>1. node \in BranchNode /\ <<first>> \in Seq(BranchNode) /\ 2 \in 1 .. Len(<<first>>) + 1
    BY <1>9, <1>10
  <2>2. PICK all : all = InsertAt(<<first>>, 2, node)
    OBVIOUS
  <2>3. IsInserted(all, BranchNode, <<first>>, node, 2)
    BY <2>1, <2>2, Inserted
  <2>4. Len(<<first>>) = 1
    OBVIOUS
  <2>5. all \in Seq(BranchNode) /\ Len(all) = 2 /\ all[1] = first /\ all[2] = node
    BY <2>3, <2>4 DEF IsInserted
  <2>. QED  BY <2>2, <2>5
<1>18. PICK R2 : R2 = (R1 \ Claims(l, first)) \ Claims(l, node)
  OBVIOUS
<1>19. Tree(moved.pg, moved.alloc, lv2, F2, R2)
  <2>1. Rewritten(pg0, moved.pg, q, InsertAt(pg0[q].ents, 2, node))
    BY <1>2, <1>7, <1>13, <1>17 DEF Rewritten, BranchPage
  <2>2. q \in DOMAIN lv2 /\ lv2[q] = l /\ \A p \in DOMAIN lv : p \in DOMAIN lv2 /\ lv2[p] = lv[p]
    BY <1>7, <1>14 DEF With
  <2>3. Leads(pg0, lv2, lv2[q], node) /\ Claims(lv2[q], node) \subseteq R1 \ Claims(l, first)
    BY <1>8, <1>9, <1>10, <1>14, <2>2 DEF Leads, Claims, Kind
  <2>4. 2 \in 1 .. Len(pg0[q].ents) + 1
    BY <1>13 DEF BranchPage
  <2>. QED  BY <1>16, <1>18, <2>1, <2>2, <2>3, <2>4, NodeInserted
<1>20. Filled(moved.pg, lv2)
  <2>1. DOMAIN lv \subseteq DOMAIN s.pg
    BY DEF Sound, Tree, Bounds
  <2>2. page.ents # <<>>
    BY <1>2 DEF BranchPage
  <2>. QED  BY <1>7, <1>14, <2>1, <2>2 DEF Filled, Sound, With
<1>21. Sound(t, H, base, lv2, F2, R2) /\ FreeList(t, F2, H)
  BY <1>6, <1>7, <1>19, <1>20 DEF Sound, Spares, FreeList
<1>22. Rooted(t, lv2, R2)
  <2>1. q \in R2
    BY <1>7, <1>8, <1>9, <1>10, <1>14, <1>18 DEF Claims
  <2>. QED  BY <1>6, <1>7, <1>14, <2>1 DEF Rooted, With
<1>. QED  BY <1>6, <1>7, <1>21, <1>22 DEF Stands

------------------------------------------------------------------------------
(* The ascent of an insertion                                              *)

Spot(path, l) == IF l = Len(path) THEN path[l] ELSE [path[l] EXCEPT !.i = @ + 1]

\* up holds the results of the levels from the leaf.
IsAscent(s, path, node, m, up) ==
  up = [n \in 0 .. m |-> IF n = 0 THEN [s |-> s, node |-> node]
                         ELSE InsertLevel(up[n - 1], Spot(path, Len(path) - n + 1))]

\* The way up of an insert exists as a function of the levels left.
LEMMA AscentExists ==
  ASSUME NEW s, NEW path, NEW node, NEW N \in Nat
  PROVE  \E up : IsAscent(s, path, node, N, up)
<1>. DEFINE Done == {m \in Nat : \E up : IsAscent(s, path, node, m, up)}
<1>1. 0 \in Done
  <2>1. PICK up : up = [n \in 0 .. 0 |-> [s |-> s, node |-> node]]
    OBVIOUS
  <2>2. IsAscent(s, path, node, 0, up)
    BY <2>1 DEF IsAscent
  <2>. QED  BY <2>2
<1>2. ASSUME NEW m \in 0 .. (N - 1), m \in Done PROVE m + 1 \in Done
  <2>1. PICK f : IsAscent(s, path, node, m, f)
    BY <1>2
  <2>2. PICK next : next = InsertLevel(f[m], Spot(path, Len(path) - (m + 1) + 1))
    OBVIOUS
  <2>3. PICK g : g = [n \in 0 .. (m + 1) |-> IF n = m + 1 THEN next ELSE f[n]]
    OBVIOUS
  <2>4. \A n \in 0 .. m : f[n] = IF n = 0 THEN [s |-> s, node |-> node]
                          ELSE InsertLevel(f[n - 1], Spot(path, Len(path) - n + 1))
    BY <2>1 DEF IsAscent
  <2>5. ASSUME NEW n \in 0 .. (m + 1)
        PROVE  g[n] = IF n = 0 THEN [s |-> s, node |-> node]
                      ELSE InsertLevel(g[n - 1], Spot(path, Len(path) - n + 1))
    <3>1. CASE n = m + 1
      <4>1. g[n] = next /\ g[n - 1] = f[m] /\ n # 0
        BY <2>3, <3>1
      <4>. QED  BY <2>2, <3>1, <4>1
    <3>2. CASE n # m + 1
      <4>1. n \in 0 .. m /\ g[n] = f[n]
        BY <2>3, <3>2
      <4>2. n # 0 => g[n - 1] = f[n - 1]
        BY <2>3, <4>1
      <4>. QED  BY <2>4, <4>1, <4>2
    <3>. QED  BY <3>1, <3>2
  <2>6. IsAscent(s, path, node, m + 1, g)
    BY <2>3, <2>5 DEF IsAscent
  <2>. QED  BY <2>6
<1>. HIDE DEF Done
<1>3. N \in Done
  BY <1>1, <1>2, UpTo
<1>. QED  BY <1>3 DEF Done

\* InsertNode takes the last of them.
Ascent(s, path, node, N, up, t) ==
  /\ IsAscent(s, path, node, N, up)
  /\ t = IF up[N].node = NoNode THEN up[N].s ELSE CreateNewRoot(up[N].s, up[N].node)

\* InsertNode is that function's last value: the insert on the leaf, then
\* the separators of the splits, page by page up to the root.
LEMMA InsertNodeAscends ==
  ASSUME NEW s, NEW path, NEW node, Len(path) \in Nat, NEW t, t = InsertNode(s, path, node)
  PROVE  \E up : Ascent(s, path, node, Len(path), up, t)
<1>. DEFINE N == Len(path)
            up[n \in 0 .. N] ==
              IF n = 0 THEN [s |-> s, node |-> node]
              ELSE InsertLevel(up[n - 1], Spot(path, N - n + 1))
<1>1. \E f : f = [n \in 0 .. N |-> IF n = 0 THEN [s |-> s, node |-> node]
                                   ELSE InsertLevel(f[n - 1], Spot(path, N - n + 1))]
  <2>1. \E f : IsAscent(s, path, node, N, f)
    BY AscentExists
  <2>. QED  BY <2>1, Zenon DEF IsAscent
<1>2. up = [n \in 0 .. N |-> IF n = 0 THEN [s |-> s, node |-> node]
                             ELSE InsertLevel(up[n - 1], Spot(path, N - n + 1))]
  BY <1>1, Zenon
<1>3. t = IF up[N].node = NoNode THEN up[N].s ELSE CreateNewRoot(up[N].s, up[N].node)
  BY Zenon DEF InsertNode, Spot
<1>4. IsAscent(s, path, node, N, up)
  BY <1>2, Zenon DEF IsAscent
<1>5. PICK f : f = up
  OBVIOUS
<1>. HIDE DEF up
<1>6. Ascent(s, path, node, N, f, t)
  BY <1>3, <1>4, <1>5, Zenon DEF Ascent
<1>. QED  BY <1>6

Position == [p : Nat, i : Nat]

\* A path leads from the root to a leaf, one level down with each step, and
\* its last index is that of an entry or behind the last.
OnPath(pg, lv, root, path) ==
  /\ path \in Seq(Position)
  /\ root \in DOMAIN lv /\ Len(path) = lv[root] /\ Len(path) # 0 /\ path[1].p = root
  /\ \A l \in 1 .. Len(path) : path[l].p \in DOMAIN lv /\ lv[path[l].p] = Len(path) - l + 1
  /\ \A l \in 1 .. (Len(path) - 1) :
       /\ path[l].i \in Slots(pg[path[l].p].ents)
       /\ pg[path[l].p].ents[path[l].i].child = path[l + 1].p
  /\ path[Len(path)].i \in 1 .. Len(pg[path[Len(path)].p].ents) + 1

\* A path is a sequence of positions.
LEMMA PathIsSeq ==
  ASSUME NEW pg, NEW lv, NEW root, NEW path, OnPath(pg, lv, root, path)
  PROVE  path \in Seq(Position) /\ Len(path) \in Nat
<1>1. path \in Seq(Position)
  BY Zenon DEF OnPath
<1>. QED  BY <1>1

\* n levels up: a failure, or a tree whose path is above as it was, and
\* perhaps a node for the next level.
Risen(s, H, base, lv, path, n, a) ==
  \/ a.s.failed /\ a.node = NoNode
  \/ \E lv2, F2, R2 :
       /\ Sound(a.s, H, base, lv2, F2, R2) /\ FreeList(a.s, F2, H)
       /\ a.s.tree.root = s.tree.root /\ a.s.tree.height = s.tree.height
       /\ s.tree.root \in R2
       /\ \A q \in DOMAIN lv : q \in DOMAIN lv2 /\ lv2[q] = lv[q]
       /\ \A l \in 1 .. (Len(path) - n) : a.s.pg[path[l].p] = s.pg[path[l].p]
       /\ s.dirty \subseteq a.s.dirty
       /\ a.node = NoNode \/ Pending(a.s, lv2, R2, n + 1, a.node)

\* One level more.
LEMMA RisesOn ==
  ASSUME NEW s, NEW H, NEW base, NEW lv, NEW path, OnPath(s.pg, lv, s.tree.root, path),
         \A l \in 1 .. Len(path) : path[l].p \in s.dirty,
         NEW n \in 0 .. (Len(path) - 1), NEW a, Risen(s, H, base, lv, path, n, a),
         NEW r, r = InsertLevel(a, Spot(path, Len(path) - n))
  PROVE  Risen(s, H, base, lv, path, n + 1, r)
<1>1. CASE a.s.failed /\ a.node = NoNode
  <2>1. r = a
    BY <1>1, Zenon DEF InsertLevel
  <2>. QED  BY <1>1, <2>1, Zenon DEF Risen
<1>2. CASE ~(a.s.failed /\ a.node = NoNode)
  <2>1. PICK lv2, F2, R2 :
       /\ Sound(a.s, H, base, lv2, F2, R2) /\ FreeList(a.s, F2, H)
       /\ a.s.tree.root = s.tree.root /\ a.s.tree.height = s.tree.height
       /\ s.tree.root \in R2
       /\ \A q \in DOMAIN lv : q \in DOMAIN lv2 /\ lv2[q] = lv[q]
       /\ \A l \in 1 .. (Len(path) - n) : a.s.pg[path[l].p] = s.pg[path[l].p]
       /\ s.dirty \subseteq a.s.dirty
       /\ a.node = NoNode \/ Pending(a.s, lv2, R2, n + 1, a.node)
    BY <1>2, Zenon DEF Risen
  <2>2. PICK N \in Nat : N = Len(path) /\ n \in 0 .. (N - 1)
    <3>1. Len(path) \in Nat
      BY PathIsSeq, Zenon
    <3>. QED  BY <3>1
  <2>3. PICK at, p : at = Spot(path, N - n) /\ p = path[N - n].p
    OBVIOUS
  <2>4. N - n \in 1 .. N /\ path[N - n] \in Position
    <3>1. path \in Seq(Position)
      BY Zenon DEF OnPath
    <3>2. N - n \in 1 .. N
      BY <2>2
    <3>. QED  BY <2>2, <3>1, <3>2
  <2>5. /\ at.p = p
        /\ at.i = IF N - n = N THEN path[N - n].i ELSE path[N - n].i + 1
    <3>1. PICK x \in Position : x = path[N - n]
      BY <2>4
    <3>2. at = IF N - n = N THEN x ELSE [x EXCEPT !.i = @ + 1]
      BY <2>2, <2>3, <3>1, Zenon DEF Spot
    <3>3. x = [p |-> x.p, i |-> x.i]
      BY DEF Position
    <3>4. at.p = x.p /\ at.i = IF N - n = N THEN x.i ELSE x.i + 1
      BY <3>2, <3>3, Zenon
    <3>. QED  BY <2>3, <3>1, <3>4
  <2>6. p \in DOMAIN lv /\ lv[p] = n + 1
    <3>1. PICK l \in 1 .. N : l = N - n
      BY <2>4
    <3>2. path[l].p \in DOMAIN lv /\ lv[path[l].p] = N - l + 1
      BY <2>2, Zenon DEF OnPath
    <3>. QED  BY <2>2, <2>3, <3>1, <3>2
  <2>7. p \in DOMAIN lv2 \cap a.s.dirty /\ lv2[p] = n + 1
    <3>1. p \in s.dirty
      BY <2>2, <2>3, <2>4
    <3>. QED  BY <2>1, <2>6, <3>1
  <2>8. a.s.pg[p] = s.pg[p]
    BY <2>1, <2>2, <2>3, <2>4
  <2>9. at.i \in 1 .. Len(a.s.pg[p].ents) + 1
    <3>1. CASE n = 0
      <4>1. N - n = N
        BY <3>1
      <4>2. at.i = path[N].i /\ p = path[N].p
        BY <2>3, <2>5, <4>1
      <4>3. path[N].i \in 1 .. Len(s.pg[path[N].p].ents) + 1
        BY <2>2, Zenon DEF OnPath
      <4>. QED  BY <2>8, <4>2, <4>3
    <3>2. CASE n # 0
      <4>1. N - n \in 1 .. (N - 1)
        BY <2>2, <3>2
      <4>2. path[N - n].i \in 1 .. Len(s.pg[p].ents)
        <5>1. PICK l \in 1 .. (N - 1) : l = N - n
          BY <4>1
        <5>2. path[l].i \in Slots(s.pg[path[l].p].ents)
          BY <2>2, Zenon DEF OnPath
        <5>. QED  BY <2>3, <5>1, <5>2 DEF Slots
      <4>3. Len(s.pg[p].ents) \in Nat
        <5>1. IsPage(a.s.pg[p], n + 1)
          BY <2>1, <2>7 DEF Sound, Tree
        <5>. QED  BY <2>8, <5>1 DEF IsPage
      <4>4. at.i = path[N - n].i + 1
        BY <2>5, <4>1
      <4>5. PICK m, j : m = Len(s.pg[p].ents) /\ j = path[N - n].i
        OBVIOUS
      <4>6. m \in Nat /\ j \in 1 .. m /\ at.i = j + 1
        BY <4>2, <4>3, <4>4, <4>5
      <4>7. at.i \in 1 .. m + 1
        BY <4>6
      <4>. QED  BY <2>8, <4>5, <4>7
    <3>. QED  BY <3>1, <3>2
  <2>10. PICK cur, node : cur = a.s /\ node = a.node
    OBVIOUS
  <2>11. Raised(cur, H, base, lv2, p, n + 1, r)
    <3>1. r = InsertLevel(a, at)
      BY <2>2, <2>3
    <3>2. Sound(cur, H, base, lv2, F2, R2) /\ FreeList(cur, F2, H) /\ cur.tree.root \in R2
      BY <2>1, <2>10
    <3>3. p \in DOMAIN lv2 \cap cur.dirty /\ n + 1 = lv2[p] /\ at.i \in 1 .. Len(cur.pg[p].ents) + 1
      BY <2>7, <2>9, <2>10
    <3>4. node # NoNode => Pending(cur, lv2, R2, n + 1, node)
      BY <2>1, <2>10
    <3>5. a.s = cur /\ a.node = node
      BY <2>10
    <3>. HIDE <2>10
    <3>. QED  BY <2>5, <3>1, <3>2, <3>3, <3>4, <3>5, LevelRaises, Zenon
  <2>12. CASE r.s.failed /\ r.node = NoNode
    BY <2>12, Zenon DEF Risen
  <2>13. CASE ~(r.s.failed /\ r.node = NoNode)
    <3>1. PICK lv3, F3, R3 :
         /\ Sound(r.s, H, base, lv3, F3, R3) /\ FreeList(r.s, F3, H)
         /\ r.s.tree.root = cur.tree.root /\ r.s.tree.height = cur.tree.height
         /\ cur.tree.root \in R3
         /\ \A q \in DOMAIN lv2 : q \in DOMAIN lv3 /\ lv3[q] = lv2[q]
         /\ \A q \in DOMAIN lv2 \ {p} : r.s.pg[q] = cur.pg[q]
         /\ cur.dirty \subseteq r.s.dirty
         /\ r.node = NoNode \/ Pending(r.s, lv3, R3, (n + 1) + 1, r.node)
      BY <2>11, <2>13, Zenon DEF Raised
    <3>2. r.s.tree.root = s.tree.root /\ r.s.tree.height = s.tree.height /\ s.tree.root \in R3
      BY <2>1, <2>10, <3>1
    <3>3. \A q \in DOMAIN lv : q \in DOMAIN lv3 /\ lv3[q] = lv[q]
      BY <2>1, <3>1
    <3>4. \A l \in 1 .. (Len(path) - (n + 1)) : r.s.pg[path[l].p] = s.pg[path[l].p]
      <4>. TAKE l \in 1 .. (Len(path) - (n + 1))
      <4>1. l \in 1 .. (N - n) /\ l \in 1 .. N /\ l # N - n
        BY <2>2
      <4>2. path[l].p \in DOMAIN lv /\ lv[path[l].p] = N - l + 1
        BY <2>2, <4>1, Zenon DEF OnPath
      <4>3. path[l].p # p
        BY <2>2, <2>6, <4>1, <4>2
      <4>4. path[l].p \in DOMAIN lv2 \ {p}
        BY <2>1, <4>2, <4>3
      <4>5. a.s.pg[path[l].p] = s.pg[path[l].p]
        BY <2>1, <2>2, <4>1
      <4>. QED  BY <2>10, <3>1, <4>4, <4>5
    <3>5. s.dirty \subseteq r.s.dirty
      BY <2>1, <2>10, <3>1
    <3>. QED  BY <3>1, <3>2, <3>3, <3>4, <3>5, Zenon DEF Risen
  <2>. QED  BY <2>12, <2>13
<1>. QED  BY <1>1, <1>2

\* A call that failed, or a state between two calls.
Settled(s, H, base) == s.failed \/ Stands(s, H, base)

\* insertNodeAt, insertIntoParent and createNewRoot.
LEMMA InsertNodeSettles ==
  ASSUME NEW s, NEW H, NEW base, NEW lv, NEW F, NEW R,
         Sound(s, H, base, lv, F, R), FreeList(s, F, H), Rooted(s, lv, R),
         NEW path, OnPath(s.pg, lv, s.tree.root, path),
         \A l \in 1 .. Len(path) : path[l].p \in s.dirty,
         NEW node, Pending(s, lv, R, 1, node), NEW t, t = InsertNode(s, path, node)
  PROVE  Settled(t, H, base)
<1>1. PICK N \in Nat \ {0} : N = Len(path)
  <2>1. Len(path) \in Nat
    BY PathIsSeq, Zenon
  <2>2. Len(path) # 0
    BY Zenon DEF OnPath
  <2>. QED  BY <2>1, <2>2
<1>2. PICK up : Ascent(s, path, node, Len(path), up, t)
  <2>1. Len(path) \in Nat
    BY <1>1
  <2>. QED  BY <2>1, InsertNodeAscends, Zenon
<1>3. \A n \in 0 .. N : up[n] = IF n = 0 THEN [s |-> s, node |-> node]
                                ELSE InsertLevel(up[n - 1], Spot(path, N - n + 1))
  BY <1>1, <1>2 DEF Ascent, IsAscent
<1>4. PICK S : S = {m \in 0 .. N : Risen(s, H, base, lv, path, m, up[m])}
  OBVIOUS
<1>5. 0 \in S
  <2>1. up[0].s = s /\ up[0].node = node
    BY <1>3
  <2>2. s.tree.root \in R /\ Pending(up[0].s, lv, R, 0 + 1, up[0].node)
    BY <2>1 DEF Rooted
  <2>3. Risen(s, H, base, lv, path, 0, up[0])
    BY <2>1, <2>2, Zenon DEF Risen
  <2>. QED  BY <1>4, <2>3
<1>6. ASSUME NEW n \in 0 .. (N - 1), n \in S PROVE n + 1 \in S
  <2>1. Risen(s, H, base, lv, path, n, up[n])
    BY <1>4, <1>6
  <2>2. n + 1 \in 0 .. N /\ n + 1 # 0 /\ (n + 1) - 1 = n /\ N - (n + 1) + 1 = N - n
    OBVIOUS
  <2>3. up[n + 1] = InsertLevel(up[n], Spot(path, N - n))
    BY <1>3, <2>2
  <2>4. PICK a, r : a = up[n] /\ r = up[n + 1]
    OBVIOUS
  <2>5. r = InsertLevel(a, Spot(path, Len(path) - n)) /\ n \in 0 .. (Len(path) - 1)
    BY <1>1, <2>3, <2>4
  <2>6. Risen(s, H, base, lv, path, n + 1, r)
    BY <2>1, <2>4, <2>5, RisesOn, Zenon
  <2>7. Risen(s, H, base, lv, path, n + 1, up[n + 1])
    BY <2>4, <2>6
  <2>8. PICK m : m = n + 1
    OBVIOUS
  <2>9. m \in 0 .. N /\ Risen(s, H, base, lv, path, m, up[m])
    BY <2>2, <2>7, <2>8
  <2>10. m \in S
    BY <1>4, <2>9
  <2>. QED  BY <2>8, <2>10
<1>7. N \in S
  <2>1. N \in Nat /\ N \in 0 .. N
    OBVIOUS
  <2>2. \A n \in 0 .. (N - 1) : n \in S => n + 1 \in S
    BY <1>6
  <2>. QED  BY <1>5, <2>1, <2>2, UpTo, Zenon
<1>8. PICK top : top = up[N]
  OBVIOUS
<1>9. Risen(s, H, base, lv, path, N, top)
  BY <1>4, <1>7, <1>8
<1>10. t = IF top.node = NoNode THEN top.s ELSE CreateNewRoot(top.s, top.node)
  BY <1>1, <1>2, <1>8, Zenon DEF Ascent
<1>11. CASE top.s.failed /\ top.node = NoNode
  BY <1>10, <1>11 DEF Settled
<1>12. CASE ~(top.s.failed /\ top.node = NoNode)
  <2>1. PICK lv2, F2, R2 :
       /\ Sound(top.s, H, base, lv2, F2, R2) /\ FreeList(top.s, F2, H)
       /\ top.s.tree.root = s.tree.root /\ top.s.tree.height = s.tree.height
       /\ s.tree.root \in R2
       /\ \A q \in DOMAIN lv : q \in DOMAIN lv2 /\ lv2[q] = lv[q]
       /\ top.node = NoNode \/ Pending(top.s, lv2, R2, N + 1, top.node)
    BY <1>9, <1>12, Zenon DEF Risen
  <2>2. Rooted(top.s, lv2, R2) /\ N = top.s.tree.height
    <3>1. s.tree.root \in DOMAIN lv /\ Len(path) = lv[s.tree.root]
      BY Zenon DEF OnPath
    <3>. QED  BY <1>1, <2>1, <3>1 DEF Rooted
  <2>3. CASE top.node = NoNode
    <3>1. t = top.s
      BY <1>10, <2>3
    <3>2. t.tree.root # NoPage
      BY <2>1, <2>2, <3>1 DEF Rooted, Sound, Tree, Bounds, NoPage
    <3>. QED  BY <2>1, <2>2, <3>1, <3>2 DEF Stands, Settled
  <2>4. CASE top.node # NoNode
    <3>1. PICK cur, next : cur = top.s /\ next = top.node
      OBVIOUS
    <3>2. t = CreateNewRoot(cur, next) /\ Pending(cur, lv2, R2, cur.tree.height + 1, next)
      BY <1>10, <2>1, <2>2, <2>4, <3>1
    <3>3. Sound(cur, H, base, lv2, F2, R2) /\ FreeList(cur, F2, H) /\ Rooted(cur, lv2, R2)
      BY <2>1, <2>2, <3>1
    <3>4. Stands(t, H, base)
      BY <3>2, <3>3, NewRootCreated, Zenon
    <3>. QED  BY <3>4 DEF Settled
  <2>. QED  BY <2>3, <2>4
<1>. QED  BY <1>11, <1>12

------------------------------------------------------------------------------
(* The descent                                                             *)

\* In each page of the tree an entry to go down by, in a leaf a place to be.
Spots(pg, lv, spot, ends) ==
  /\ \A p \in DOMAIN lv : p \in ends <=> lv[p] = 1
  /\ \A p \in DOMAIN lv : spot[p] \in IF lv[p] = 1 THEN 1 .. Len(pg[p].ents) + 1
                                     ELSE Slots(pg[p].ents)

IsDescent(s, spot, ends, m, down) ==
  down = [n \in 0 .. m |->
            IF n = 0 THEN <<[p |-> s.tree.root, i |-> spot[s.tree.root]]>>
            ELSE IF Last(down[n - 1]).p \in ends THEN down[n - 1]
            ELSE LET end  == Last(down[n - 1])
                     next == ChildAt(s.pg[end.p], end.i)
                 IN Append(down[n - 1], [p |-> next, i |-> spot[next]])]

\* The way down of a search exists as a function of the levels gone.
LEMMA DescentExists ==
  ASSUME NEW s, NEW spot, NEW ends, NEW N \in Nat
  PROVE  \E down : IsDescent(s, spot, ends, N, down)
<1>. DEFINE First == <<[p |-> s.tree.root, i |-> spot[s.tree.root]]>>
            On(path) == IF Last(path).p \in ends THEN path
                        ELSE LET end  == Last(path)
                                 next == ChildAt(s.pg[end.p], end.i)
                             IN Append(path, [p |-> next, i |-> spot[next]])
            Is(m, f) == f = [n \in 0 .. m |-> IF n = 0 THEN First ELSE On(f[n - 1])]
            Done == {m \in Nat : \E f : Is(m, f)}
<1>0. \A m, f : Is(m, f) <=> IsDescent(s, spot, ends, m, f)
  BY Zenon DEF IsDescent
<1>. HIDE DEF First, On
<1>1. 0 \in Done
  <2>1. PICK f : f = [n \in 0 .. 0 |-> First]
    OBVIOUS
  <2>2. Is(0, f)
    BY <2>1
  <2>. QED  BY <2>2
<1>2. ASSUME NEW m \in 0 .. (N - 1), m \in Done PROVE m + 1 \in Done
  <2>1. PICK f : Is(m, f)
    BY <1>2
  <2>2. PICK g : g = [n \in 0 .. (m + 1) |-> IF n = m + 1 THEN On(f[m]) ELSE f[n]]
    OBVIOUS
  <2>3. \A n \in 0 .. m : f[n] = IF n = 0 THEN First ELSE On(f[n - 1])
    BY <2>1
  <2>4. ASSUME NEW n \in 0 .. (m + 1)
        PROVE  g[n] = IF n = 0 THEN First ELSE On(g[n - 1])
    <3>1. CASE n = m + 1
      BY <2>2, <3>1
    <3>2. CASE n # m + 1
      <4>1. n \in 0 .. m /\ g[n] = f[n]
        BY <2>2, <3>2
      <4>2. n # 0 => g[n - 1] = f[n - 1]
        BY <2>2, <4>1
      <4>. QED  BY <2>3, <4>1, <4>2
    <3>. QED  BY <3>1, <3>2
  <2>5. Is(m + 1, g)
    BY <2>2, <2>4
  <2>. QED  BY <2>5
<1>. HIDE DEF Done
<1>3. N \in Done
  <2>1. N \in 0 .. N
    OBVIOUS
  <2>2. \A m \in 0 .. (N - 1) : m \in Done => m + 1 \in Done
    BY <1>2
  <2>. QED  BY <1>1, <2>1, <2>2, UpTo, Zenon
<1>4. \E f : Is(N, f)
  BY <1>3 DEF Done
<1>. QED  BY <1>0, <1>4, Zenon

\* Descent takes the last of them.
Descended(s, spot, ends, down, path) ==
  /\ IsDescent(s, spot, ends, s.tree.height, down)
  /\ path = down[s.tree.height]

\* Descent is that function at the tree's height.
LEMMA DescentDescends ==
  ASSUME NEW s, NEW spot, NEW ends, s.tree.height \in Nat, s.tree.root # NoPage,
         NEW path, path = Descent(s, spot, ends)
  PROVE  \E down : Descended(s, spot, ends, down, path)
<1>. DEFINE N == s.tree.height
            down[n \in 0 .. N] ==
              IF n = 0 THEN <<[p |-> s.tree.root, i |-> spot[s.tree.root]]>>
              ELSE IF Last(down[n - 1]).p \in ends THEN down[n - 1]
              ELSE LET end  == Last(down[n - 1])
                       next == ChildAt(s.pg[end.p], end.i)
                   IN Append(down[n - 1], [p |-> next, i |-> spot[next]])
<1>1. \E f : f = [n \in 0 .. N |->
              IF n = 0 THEN <<[p |-> s.tree.root, i |-> spot[s.tree.root]]>>
              ELSE IF Last(f[n - 1]).p \in ends THEN f[n - 1]
              ELSE LET end  == Last(f[n - 1])
                       next == ChildAt(s.pg[end.p], end.i)
                   IN Append(f[n - 1], [p |-> next, i |-> spot[next]])]
  <2>1. \E f : IsDescent(s, spot, ends, N, f)
    BY DescentExists
  <2>. QED  BY <2>1, Zenon DEF IsDescent
<1>2. down = [n \in 0 .. N |->
              IF n = 0 THEN <<[p |-> s.tree.root, i |-> spot[s.tree.root]]>>
              ELSE IF Last(down[n - 1]).p \in ends THEN down[n - 1]
              ELSE LET end  == Last(down[n - 1])
                       next == ChildAt(s.pg[end.p], end.i)
                   IN Append(down[n - 1], [p |-> next, i |-> spot[next]])]
  BY <1>1, Zenon
<1>3. path = down[N]
  BY Zenon DEF Descent
<1>4. IsDescent(s, spot, ends, N, down)
  BY <1>2, Zenon DEF IsDescent
<1>5. PICK f : f = down
  OBVIOUS
<1>. HIDE DEF down
<1>6. Descended(s, spot, ends, f, path)
  BY <1>3, <1>4, <1>5, Zenon DEF Descended
<1>. QED  BY <1>6

\* The first N pages of a path.
Descending(s, lv, spot, h, N, path) ==
  /\ path \in Seq(Position)
  /\ Len(path) = N
  /\ path[1].p = s.tree.root
  /\ \A l \in 1 .. N : /\ path[l].p \in DOMAIN lv /\ lv[path[l].p] = h - l + 1
                       /\ path[l].i = spot[path[l].p]
  /\ \A l \in 1 .. (N - 1) : s.pg[path[l].p].ents[path[l].i].child = path[l + 1].p

\* A search of a page answers with an index.
LEMMA SpotsAreNumbers ==
  ASSUME NEW pg, NEW alloc, NEW lv, NEW F, NEW R, Tree(pg, alloc, lv, F, R),
         NEW spot, NEW ends, Spots(pg, lv, spot, ends), NEW p \in DOMAIN lv
  PROVE  spot[p] \in Nat
<1>1. IsPage(pg[p], lv[p])
  BY DEF Tree
<1>2. PICK n : n = Len(pg[p].ents)
  OBVIOUS
<1>3. n \in Nat
  BY <1>1, <1>2 DEF IsPage
<1>4. spot[p] \in 1 .. n + 1 \/ spot[p] \in 1 .. n
  BY <1>2, Zenon DEF Spots, Slots
<1>. QED  BY <1>3, <1>4

\* One page more, before the last.
LEMMA DescendsOn ==
  ASSUME NEW s, NEW lv, NEW F, NEW R, Tree(s.pg, s.alloc, lv, F, R),
         NEW spot, NEW ends, Spots(s.pg, lv, spot, ends),
         NEW h \in Nat, NEW N \in 1 .. h, NEW path, Descending(s, lv, spot, h, N, path),
         NEW end, end = Last(path), NEW next, next = ChildAt(s.pg[end.p], end.i),
         NEW longer, longer = IF end.p \in ends THEN path
                              ELSE Append(path, [p |-> next, i |-> spot[next]])
  PROVE  Descending(s, lv, spot, h, IF N = h THEN h ELSE N + 1, longer)
<1>0. path \in Seq(Position) /\ Len(path) = N /\ path[1].p = s.tree.root
  BY Zenon DEF Descending
<1>1. \A l \in 1 .. N : /\ path[l].p \in DOMAIN lv /\ lv[path[l].p] = h - l + 1
                        /\ path[l].i = spot[path[l].p]
  BY Zenon DEF Descending
<1>2. \A l \in 1 .. (N - 1) : s.pg[path[l].p].ents[path[l].i].child = path[l + 1].p
  BY Zenon DEF Descending
<1>3. end = path[N] /\ N \in 1 .. N
  BY <1>0 DEF Last
<1>4. end.p \in DOMAIN lv /\ lv[end.p] = h - N + 1 /\ end.i = spot[end.p]
  BY <1>1, <1>3
<1>5. CASE end.p \in ends
  <2>1. lv[end.p] = 1
    BY <1>4, <1>5 DEF Spots
  <2>2. N = h
    BY <1>4, <2>1
  <2>3. longer = path
    BY <1>5
  <2>. QED  BY <2>2, <2>3
<1>6. CASE end.p \notin ends
  <2>1. lv[end.p] # 1 /\ h - N + 1 # 1 /\ N < h
    BY <1>4, <1>6 DEF Spots
  <2>2. end.i \in Slots(s.pg[end.p].ents)
    BY <1>4, <2>1 DEF Spots
  <2>3. next = s.pg[end.p].ents[end.i].child
    BY <2>2 DEF ChildAt, Slots
  <2>4. next \in DOMAIN lv /\ lv[next] = h - N
    <3>1. Leads(s.pg, lv, lv[end.p], s.pg[end.p].ents[end.i])
      BY <1>4, <2>2 DEF Tree, Nodes
    <3>. QED  BY <1>4, <2>1, <2>3, <3>1 DEF Leads
  <2>5. next \in Nat /\ spot[next] \in Nat
    <3>1. next \in Nat
      BY <2>4 DEF Tree, Bounds
    <3>. QED  BY <2>4, <3>1, SpotsAreNumbers, Zenon
  <2>6. PICK at : at = [p |-> next, i |-> spot[next]]
    OBVIOUS
  <2>7. at \in Position /\ at.p = next /\ at.i = spot[next]
    BY <2>5, <2>6 DEF Position
  <2>8. longer = Append(path, at)
    BY <1>6, <2>6
  <2>9. PICK M \in Nat : M = N + 1
    OBVIOUS
  <2>10. /\ longer \in Seq(Position) /\ Len(longer) = M /\ longer[M] = at
         /\ \A l \in 1 .. N : longer[l] = path[l]
    BY <1>0, <2>7, <2>8, <2>9
  <2>11. ASSUME NEW l \in 1 .. M
         PROVE  /\ longer[l].p \in DOMAIN lv /\ lv[longer[l].p] = h - l + 1
                /\ longer[l].i = spot[longer[l].p]
    <3>1. CASE l = M
      <4>1. longer[l].p = next /\ longer[l].i = spot[next] /\ h - l + 1 = h - N
        BY <2>7, <2>9, <2>10, <3>1
      <4>. QED  BY <2>4, <4>1
    <3>2. CASE l \in 1 .. N
      BY <1>1, <2>10, <3>2
    <3>3. l = M \/ l \in 1 .. N
      BY <2>9
    <3>. QED  BY <3>1, <3>2, <3>3, Zenon
  <2>12. ASSUME NEW l \in 1 .. (M - 1)
         PROVE  s.pg[longer[l].p].ents[longer[l].i].child = longer[l + 1].p
    <3>0. l \in 1 .. N /\ longer[l] = path[l]
      BY <2>9, <2>10
    <3>1. CASE l = N
      <4>1. longer[l] = end /\ longer[l + 1] = at
        BY <1>3, <2>9, <2>10, <3>0, <3>1
      <4>. QED  BY <2>3, <2>7, <4>1
    <3>2. CASE l \in 1 .. (N - 1)
      <4>1. l + 1 \in 1 .. N /\ longer[l + 1] = path[l + 1]
        BY <2>10, <3>2
      <4>2. s.pg[path[l].p].ents[path[l].i].child = path[l + 1].p
        BY <1>2, <3>2
      <4>. QED  BY <3>0, <4>1, <4>2
    <3>3. l = N \/ l \in 1 .. (N - 1)
      BY <2>9
    <3>. QED  BY <3>1, <3>2, <3>3, Zenon
  <2>13. longer[1].p = s.tree.root
    <3>1. 1 \in 1 .. N
      OBVIOUS
    <3>. QED  BY <1>0, <2>10, <3>1
  <2>14. Descending(s, lv, spot, h, M, longer)
    BY <2>10, <2>11, <2>12, <2>13, Zenon DEF Descending
  <2>. QED  BY <2>1, <2>9, <2>14
<1>. QED  BY <1>5, <1>6

\* The descent ends in a leaf, after as many pages as the tree is high.
LEMMA DescentFindsLeaf ==
  ASSUME NEW s, NEW lv, NEW F, NEW R, Tree(s.pg, s.alloc, lv, F, R), Rooted(s, lv, R),
         NEW spot, NEW ends, Spots(s.pg, lv, spot, ends),
         NEW path, path = Descent(s, spot, ends)
  PROVE  OnPath(s.pg, lv, s.tree.root, path)
<1>1. PICK h \in Nat \ {0} : h = s.tree.height /\ h = lv[s.tree.root]
  BY DEF Rooted, Tree, Bounds
<1>2. s.tree.root # NoPage /\ s.tree.root \in DOMAIN lv /\ s.tree.root \in Nat
  BY DEF Rooted, Tree, Bounds, NoPage
<1>3. PICK down : Descended(s, spot, ends, down, path)
  <2>1. s.tree.height \in Nat
    BY <1>1
  <2>. QED  BY <1>2, <2>1, DescentDescends, Zenon
<1>. DEFINE Pages(m) == IF m < h THEN m + 1 ELSE h
<1>4. PICK S : S = {m \in 0 .. h : Descending(s, lv, spot, h, Pages(m), down[m])}
  OBVIOUS
<1>a. PICK at : at = [p |-> s.tree.root, i |-> spot[s.tree.root]]
  OBVIOUS
<1>b. down[0] = <<at>>
  <2>1. IsDescent(s, spot, ends, h, down) /\ 0 \in 0 .. h
    BY <1>1, <1>3 DEF Descended
  <2>2. down[0] = <<[p |-> s.tree.root, i |-> spot[s.tree.root]]>>
    BY <2>1 DEF IsDescent
  <2>. QED  BY <1>a, <2>2
<1>5. 0 \in S
  <2>1. spot[s.tree.root] \in Nat
    BY <1>2, SpotsAreNumbers, Zenon
  <2>2. at \in Position /\ at.p = s.tree.root /\ at.i = spot[s.tree.root]
    BY <1>2, <1>a, <2>1 DEF Position
  <2>3. PICK cur : cur = <<at>>
    OBVIOUS
  <2>4. cur \in Seq(Position) /\ Len(cur) = 1 /\ cur[1] = at
    BY <2>2, <2>3
  <2>5. \A l \in 1 .. 1 : /\ cur[l].p \in DOMAIN lv /\ lv[cur[l].p] = h - l + 1
                          /\ cur[l].i = spot[cur[l].p]
    BY <1>1, <1>2, <2>2, <2>4
  <2>6. Descending(s, lv, spot, h, 1, cur)
    BY <2>2, <2>4, <2>5 DEF Descending
  <2>7. Pages(0) = 1
    OBVIOUS
  <2>. HIDE DEF Pages
  <2>. QED  BY <1>4, <1>b, <2>3, <2>6, <2>7
<1>6. ASSUME NEW n \in 0 .. (h - 1), n \in S PROVE n + 1 \in S
  <2>1. PICK cur : cur = down[n]
    OBVIOUS
  <2>2. PICK N \in 1 .. h : N = n + 1
    OBVIOUS
  <2>3. Descending(s, lv, spot, h, N, cur)
    <3>1. Pages(n) = N
      BY <2>2
    <3>. HIDE DEF Pages
    <3>. QED  BY <1>4, <1>6, <2>1, <3>1
  <2>4. PICK end, next : end = Last(cur) /\ next = ChildAt(s.pg[end.p], end.i)
    OBVIOUS
  <2>5. PICK longer : longer = down[N]
    OBVIOUS
  <2>6. longer = IF end.p \in ends THEN cur
                 ELSE Append(cur, [p |-> next, i |-> spot[next]])
    <3>1. \A i \in 0 .. h : down[i] =
            IF i = 0 THEN <<[p |-> s.tree.root, i |-> spot[s.tree.root]]>>
            ELSE IF Last(down[i - 1]).p \in ends THEN down[i - 1]
            ELSE Append(down[i - 1],
                   [p |-> ChildAt(s.pg[Last(down[i - 1]).p], Last(down[i - 1]).i),
                    i |-> spot[ChildAt(s.pg[Last(down[i - 1]).p], Last(down[i - 1]).i)]])
      BY <1>1, <1>3 DEF Descended, IsDescent
    <3>2. N \in 0 .. h /\ N # 0 /\ N - 1 = n
      BY <2>2
    <3>. QED  BY <2>1, <2>4, <2>5, <3>1, <3>2
  <2>7. Descending(s, lv, spot, h, IF N = h THEN h ELSE N + 1, longer)
    <3>1. h \in Nat
      OBVIOUS
    <3>. QED  BY <2>3, <2>4, <2>6, <3>1, DescendsOn, Zenon
  <2>8. Pages(N) = IF N = h THEN h ELSE N + 1
    OBVIOUS
  <2>. HIDE DEF Pages
  <2>9. N \in 0 .. h
    OBVIOUS
  <2>10. N \in S
    BY <1>4, <2>5, <2>7, <2>8, <2>9
  <2>. QED  BY <2>2, <2>10
<1>7. h \in S
  <2>1. h \in Nat /\ h \in 0 .. h
    OBVIOUS
  <2>2. \A n \in 0 .. (h - 1) : n \in S => n + 1 \in S
    BY <1>6
  <2>. QED  BY <1>5, <2>1, <2>2, UpTo, Zenon
<1>8. Descending(s, lv, spot, h, h, path)
  <2>1. path = down[h]
    BY <1>1, <1>3 DEF Descended
  <2>2. Pages(h) = h
    OBVIOUS
  <2>. HIDE DEF Pages
  <2>. QED  BY <1>4, <1>7, <2>1, <2>2
<1>9. path \in Seq(Position) /\ Len(path) = h /\ path[1].p = s.tree.root
  BY <1>8, Zenon DEF Descending
<1>10. \A l \in 1 .. h : /\ path[l].p \in DOMAIN lv /\ lv[path[l].p] = h - l + 1
                         /\ path[l].i = spot[path[l].p]
  BY <1>8, Zenon DEF Descending
<1>11. \A l \in 1 .. (h - 1) : s.pg[path[l].p].ents[path[l].i].child = path[l + 1].p
  BY <1>8, Zenon DEF Descending
<1>12. \A l \in 1 .. (h - 1) : path[l].i \in Slots(s.pg[path[l].p].ents)
  <2>. TAKE l \in 1 .. (h - 1)
  <2>1. l \in 1 .. h /\ h - l + 1 # 1
    OBVIOUS
  <2>2. path[l].p \in DOMAIN lv /\ lv[path[l].p] # 1 /\ path[l].i = spot[path[l].p]
    BY <1>10, <2>1
  <2>. QED  BY <2>2 DEF Spots
<1>13. path[h].i \in 1 .. Len(s.pg[path[h].p].ents) + 1
  <2>1. h \in 1 .. h /\ h - h + 1 = 1
    OBVIOUS
  <2>2. path[h].p \in DOMAIN lv /\ lv[path[h].p] = 1 /\ path[h].i = spot[path[h].p]
    BY <1>10, <2>1
  <2>. QED  BY <2>2 DEF Spots
<1>. QED  BY <1>1, <1>2, <1>9, <1>10, <1>11, <1>12, <1>13, Zenon DEF OnPath

\* SearchPage answers with a node of a branch page, and on a leaf with a
\* node or the place after the last one, whatever the keys.
LEMMA SearchInRange ==
  ASSUME NEW page, NEW l, IsPage(page, l), l = 1 \/ page.ents # <<>>, NEW k \in Nat
  PROVE  SearchPage(page, k) \in IF l = 1 THEN 1 .. Len(page.ents) + 1 ELSE Slots(page.ents)
<1>1. PICK n \in Nat : n = Len(page.ents) /\ (l # 1 => n # 0)
  BY DEF IsPage
<1>2. PICK leaf \in BOOLEAN : leaf <=> l = 1
  OBVIOUS
<1>3. leaf <=> page.type = "leaf"
  BY <1>2 DEF IsPage
<1>4. PICK es, x : es = page.ents /\ x = SearchPage(page, k)
  OBVIOUS
<1>5. Answers(es, n, leaf, k, x)
  BY <1>1, <1>3, <1>4, SearchPageCases
<1>6. (x = 1 /\ (n = 0 => leaf)) \/ (n # 0 /\ x \in 1 .. (IF leaf THEN n + 1 ELSE n))
  <2>1. CASE (n = 0 \/ (n = 1 /\ ~leaf)) /\ x = 1
    BY <1>1, <1>2, <2>1
  <2>2. CASE n # 0 /\ (x = n \/ x = IF leaf THEN n + 1 ELSE n)
    BY <2>2
  <2>3. ASSUME n # 0, NEW b, Ended(es, k, IF leaf THEN 1 ELSE 2, b),
               x = IF b.hit # 0 THEN b.hit ELSE IF leaf THEN b.low ELSE b.low - 1
        PROVE  x \in 1 .. n
    <3>1. PICK first : first = IF leaf THEN 1 ELSE 2
      OBVIOUS
    <3>2. Ended(es, k, first, b)
      BY <2>3, <3>1
    <3>3. /\ b.hit = 0 => b.low \in first .. n
          /\ b.hit # 0 => b.hit \in first .. (n - 1)
      BY <1>1, <1>4, <3>2 DEF Ended
    <3>. QED  BY <2>3, <3>1, <3>3
  <2>. QED  BY <1>5, <2>1, <2>2, <2>3 DEF Answers
<1>. QED  BY <1>1, <1>2, <1>4, <1>6 DEF Slots

(***************************************************************************)
(* Theorem.  In a sound tree a search for any key goes from the root to a  *)
(* leaf, one page on each level, each the child of the node chosen in the  *)
(* one before (searchForInsert): it never leaves the tree's pages, nor     *)
(* stops before a leaf.                                                    *)
(***************************************************************************)
THEOREM PathFindsLeaf ==
  ASSUME NEW s, NEW lv, NEW F, NEW R, Tree(s.pg, s.alloc, lv, F, R), Rooted(s, lv, R),
         Filled(s.pg, lv), NEW k \in Nat, NEW path, path = Path(s, k)
  PROVE  OnPath(s.pg, lv, s.tree.root, path)
<1>1. PICK spot : spot = [p \in DOMAIN s.pg |-> SearchPage(s.pg[p], k)]
  OBVIOUS
<1>2. PICK ends : ends = {p \in DOMAIN s.pg : IsLeaf(s, p)}
  OBVIOUS
<1>3. path = Descent(s, spot, ends)
  BY <1>1, <1>2, Zenon DEF Path
<1>4. ASSUME NEW p \in DOMAIN lv
      PROVE  /\ p \in ends <=> lv[p] = 1
             /\ spot[p] \in IF lv[p] = 1 THEN 1 .. Len(s.pg[p].ents) + 1 ELSE Slots(s.pg[p].ents)
  <2>1. IsPage(s.pg[p], lv[p]) /\ p \in DOMAIN s.pg
    BY DEF Tree, Bounds
  <2>2. lv[p] = 1 \/ s.pg[p].ents # <<>>
    BY DEF Filled
  <2>3. p \in ends <=> lv[p] = 1
    BY <1>2, <2>1 DEF IsPage, IsLeaf
  <2>4. PICK page, l : page = s.pg[p] /\ l = lv[p]
    OBVIOUS
  <2>5. spot[p] = SearchPage(page, k)
    BY <1>1, <2>1, <2>4
  <2>6. SearchPage(page, k) \in IF l = 1 THEN 1 .. Len(page.ents) + 1 ELSE Slots(page.ents)
    BY <2>1, <2>2, <2>4, SearchInRange
  <2>. QED  BY <2>3, <2>4, <2>5, <2>6
<1>5. Spots(s.pg, lv, spot, ends)
  BY <1>4, Zenon DEF Spots
<1>. QED  BY <1>3, <1>5, DescentFindsLeaf, Zenon

\* The rightmost path.
LEMMA AppendPathFindsLeaf ==
  ASSUME NEW s, NEW lv, NEW F, NEW R, Tree(s.pg, s.alloc, lv, F, R), Rooted(s, lv, R),
         Filled(s.pg, lv), NEW k, NEW path, path = AppendPath(s, k)
  PROVE  OnPath(s.pg, lv, s.tree.root, path)
<1>. DEFINE Behind(p) == IsLeaf(s, p) /\ Last(s.pg[p].ents).k # k
<1>1. PICK spot : spot = [p \in DOMAIN s.pg |->
                 IF s.pg[p].ents = <<>> THEN 1
                 ELSE Len(s.pg[p].ents) + (IF Behind(p) THEN 1 ELSE 0)]
  OBVIOUS
<1>2. PICK ends :
        ends = {p \in DOMAIN s.pg : IsLeaf(s, p) \/ (s.pg[p].type = "branch" /\ s.pg[p].ents = <<>>)}
  OBVIOUS
<1>3. path = Descent(s, spot, ends)
  BY <1>1, <1>2, Zenon DEF AppendPath
<1>4. ASSUME NEW p \in DOMAIN lv
      PROVE  /\ p \in ends <=> lv[p] = 1
             /\ spot[p] \in IF lv[p] = 1 THEN 1 .. Len(s.pg[p].ents) + 1 ELSE Slots(s.pg[p].ents)
  <2>1. IsPage(s.pg[p], lv[p]) /\ p \in DOMAIN s.pg
    BY DEF Tree, Bounds
  <2>2. lv[p] = 1 \/ s.pg[p].ents # <<>>
    BY DEF Filled
  <2>3. p \in ends <=> lv[p] = 1
    BY <1>2, <2>1, <2>2 DEF IsPage, IsLeaf
  <2>4. PICK es, n : es = s.pg[p].ents /\ n = Len(es)
    OBVIOUS
  <2>5. n \in Nat /\ (es # <<>> => n # 0)
    BY <2>1, <2>4 DEF IsPage
  <2>6. lv[p] # 1 => ~Behind(p) /\ es # <<>>
    BY <2>1, <2>2, <2>4 DEF IsPage, IsLeaf
  <2>7. spot[p] = IF es = <<>> THEN 1 ELSE n + (IF Behind(p) THEN 1 ELSE 0)
    BY <1>1, <2>1, <2>4
  <2>. HIDE DEF Behind
  <2>8. CASE lv[p] = 1
    <3>1. spot[p] \in 1 .. n + 1
      BY <2>5, <2>7
    <3>. QED  BY <2>3, <2>4, <2>8, <3>1
  <2>9. CASE lv[p] # 1
    <3>1. spot[p] \in 1 .. n
      BY <2>5, <2>6, <2>7, <2>9
    <3>. QED  BY <2>3, <2>4, <2>9, <3>1 DEF Slots
  <2>. QED  BY <2>8, <2>9
<1>5. Spots(s.pg, lv, spot, ends)
  BY <1>4, Zenon DEF Spots
<1>. QED  BY <1>3, <1>5, DescentFindsLeaf, Zenon

------------------------------------------------------------------------------
(* Copy-on-write                                                           *)

\* An entry replaced is one removed and one inserted.
IsReplaced(all, E, es, i, e) ==
  /\ all \in Seq(E) /\ Len(all) = Len(es)
  /\ \A j \in 1 .. Len(es) : all[j] = IF j = i THEN e ELSE es[j]
  /\ RemoveAt(es, i) \in Seq(E) /\ i \in 1 .. Len(RemoveAt(es, i)) + 1
  /\ all = InsertAt(RemoveAt(es, i), i, e)

\* ReplaceAt changes one entry and no other.
LEMMA Replaced ==
  ASSUME NEW E, NEW es \in Seq(E), NEW i \in 1 .. Len(es), NEW e \in E,
         NEW all, all = ReplaceAt(es, i, e)
  PROVE  IsReplaced(all, E, es, i, e)
<1>1. PICK n \in Nat : n = Len(es) /\ i \in 1 .. n
  OBVIOUS
<1>2. all \in Seq(E) /\ Len(all) = n /\ \A j \in 1 .. n : all[j] = IF j = i THEN e ELSE es[j]
  <2>1. es \in [1 .. n -> E]
    BY <1>1
  <2>2. all \in [1 .. n -> E] /\ \A j \in 1 .. n : all[j] = IF j = i THEN e ELSE es[j]
    BY <1>1, <2>1 DEF ReplaceAt
  <2>3. all \in Seq(E)
    BY <2>2
  <2>. QED  BY <1>1, <2>2, <2>3
<1>3. PICK rest : rest = RemoveAt(es, i)
  OBVIOUS
<1>4. IsRemoved(rest, E, es, i)
  BY <1>3, Removed, Zenon
<1>5. /\ rest \in Seq(E) /\ Len(rest) = n - 1
      /\ \A j \in 1 .. (n - 1) : rest[j] = IF j < i THEN es[j] ELSE es[j + 1]
  BY <1>1, <1>4 DEF IsRemoved
<1>6. i \in 1 .. Len(rest) + 1
  BY <1>1, <1>5
<1>7. PICK full : full = InsertAt(rest, i, e)
  OBVIOUS
<1>8. IsInserted(full, E, rest, e, i)
  BY <1>5, <1>6, <1>7, Inserted, Zenon
<1>9. full \in Seq(E) /\ Len(full) = n
  BY <1>1, <1>5, <1>8 DEF IsInserted
<1>10. \A j \in 1 .. n : full[j] = all[j]
  <2>. TAKE j \in 1 .. n
  <2>1. CASE j < i
    <3>1. j \in 1 .. (n - 1) /\ j \in 1 .. Len(rest) + 1
      BY <1>1, <1>5, <2>1
    <3>2. rest[j] = es[j] /\ full[j] = rest[j]
      BY <1>5, <1>8, <2>1, <3>1 DEF IsInserted
    <3>. QED  BY <1>1, <1>2, <2>1, <3>2
  <2>2. CASE j = i
    <3>1. j \in 1 .. Len(rest) + 1
      BY <1>6, <2>2
    <3>2. full[j] = e
      BY <1>8, <2>2, <3>1 DEF IsInserted
    <3>. QED  BY <1>2, <2>2, <3>2
  <2>3. CASE j > i
    <3>1. j \in 1 .. Len(rest) + 1 /\ j - 1 \in 1 .. (n - 1)
      BY <1>1, <1>5, <2>3
    <3>2. rest[j - 1] = es[j] /\ full[j] = rest[j - 1]
      BY <1>1, <1>5, <1>8, <2>3, <3>1 DEF IsInserted
    <3>. QED  BY <1>2, <2>3, <3>2
  <2>. QED  BY <1>1, <2>1, <2>2, <2>3
<1>11. full = all
  <2>1. full \in Seq(E) /\ all \in Seq(E) /\ Len(full) = Len(all)
        /\ \A j \in 1 .. Len(full) : full[j] = all[j]
    BY <1>2, <1>9, <1>10
  <2>. QED  BY <2>1
<1>. QED  BY <1>1, <1>2, <1>3, <1>5, <1>6, <1>7, <1>11 DEF IsReplaced

\* A page of the tree rewritten, whatever the entries.
LEMMA RewrittenExists ==
  ASSUME NEW pg, NEW p \in DOMAIN pg, NEW l, IsPage(pg[p], l), NEW es
  PROVE  \E pg2 : Rewritten(pg, pg2, p, es)
<1>1. PICK page : page = [pg[p] EXCEPT !.ents = es]
  OBVIOUS
<1>2. /\ page = [type |-> page.type, ents |-> page.ents, stale |-> page.stale]
      /\ page.type = pg[p].type /\ page.ents = es
  BY <1>1, Zenon DEF IsPage
<1>3. PICK pg2 : pg2 = Over(pg, {p}, page)
  OBVIOUS
<1>4. OnePage(pg, p, page, pg2)
  BY <1>3, OnePageOver, Zenon
<1>5. Rewritten(pg, pg2, p, es)
  BY <1>2, <1>4 DEF Rewritten, OnePage
<1>. QED  BY <1>5

\* Two ways to rewrite a page.
LEMMA RewrittenTwice ==
  ASSUME NEW pg, NEW pg1, NEW pg2, NEW p \in DOMAIN pg, NEW es1, NEW es2,
         Rewritten(pg, pg1, p, es1), Rewritten(pg, pg2, p, es2)
  PROVE  Rewritten(pg1, pg2, p, es2)
BY DEF Rewritten

\* A node that takes another's place gives up that one's pages.
LEMMA NodeReplaced ==
  ASSUME NEW pg, NEW alloc, NEW lv, NEW F, NEW R, Tree(pg, alloc, lv, F, R),
         NEW p \in DOMAIN lv, NEW i \in Slots(pg[p].ents), NEW old, old = pg[p].ents[i],
         NEW node, Leads(pg, lv, lv[p], node),
         Claims(lv[p], node) \subseteq R \cup Claims(lv[p], old),
         NEW pg2, Rewritten(pg, pg2, p, ReplaceAt(pg[p].ents, i, node))
  PROVE  Tree(pg2, alloc, lv, F, (R \cup Claims(lv[p], old)) \ Claims(lv[p], node))
<1>1. PICK es, l : es = pg[p].ents /\ l = lv[p]
  OBVIOUS
<1>2. es \in Seq(Kind(l)) /\ i \in 1 .. Len(es) /\ node \in Kind(l) /\ p \in DOMAIN pg
      /\ IsPage(pg[p], l)
  BY <1>1 DEF Tree, IsPage, Leads, Slots, Bounds
<1>3. PICK rest, all : rest = RemoveAt(es, i) /\ all = ReplaceAt(es, i, node)
  OBVIOUS
<1>4. IsReplaced(all, Kind(l), es, i, node)
  BY <1>2, <1>3, Replaced, Zenon
<1>5. rest \in Seq(Kind(l)) /\ i \in 1 .. Len(rest) + 1 /\ all = InsertAt(rest, i, node)
  BY <1>3, <1>4, Zenon DEF IsReplaced
<1>6. PICK pg1 : Rewritten(pg, pg1, p, rest)
  BY <1>2, RewrittenExists, Zenon
<1>7. Tree(pg1, alloc, lv, F, R \cup Claims(lv[p], old))
  <2>1. Rewritten(pg, pg1, p, RemoveAt(pg[p].ents, i))
    BY <1>1, <1>3, <1>6
  <2>. QED  BY <2>1, NodeRemoved, Zenon
<1>8. Rewritten(pg1, pg2, p, all)
  <2>1. Rewritten(pg, pg2, p, all)
    BY <1>1, <1>3
  <2>. QED  BY <1>2, <1>6, <2>1, RewrittenTwice, Zenon
<1>9. pg1[p].ents = rest
  BY <1>6 DEF Rewritten
<1>10. Rewritten(pg1, pg2, p, InsertAt(pg1[p].ents, i, node))
  BY <1>5, <1>8, <1>9
<1>11. Leads(pg1, lv, lv[p], node)
  <2>1. \A c : c \in DOMAIN pg /\ pg[c].type = "large" => pg1[c].type = "large"
    BY <1>6 DEF Rewritten
  <2>2. \A c \in Claims(lv[p], node) : c \in DOMAIN pg
    BY DEF Tree, Bounds, Nodes
  <2>. QED  BY <2>1, <2>2 DEF Leads
<1>12. i \in 1 .. Len(pg1[p].ents) + 1
  BY <1>5, <1>9
<1>. QED  BY <1>7, <1>10, <1>11, <1>12, NodeInserted

\* updateChildPointer: a page's place is taken by its copy.
LEMMA ChildMoved ==
  ASSUME NEW pg, NEW alloc, NEW lv, NEW F, NEW R, Tree(pg, alloc, lv, F, R),
         NEW q \in DOMAIN lv, lv[q] # 1, NEW i \in Slots(pg[q].ents),
         NEW p, p = pg[q].ents[i].child, NEW n \in R \ DOMAIN lv, pg[n] = pg[p],
         NEW k \in Nat,
         NEW pg2, Rewritten(pg, pg2, q, ReplaceAt(pg[q].ents, i, Entry(k, n)))
  PROVE  Tree(pg2, alloc, Moved(lv, p, n), F, (R \cup {p}) \ {n})
<1>1. PICK es, l, node : es = pg[q].ents /\ l = lv[q] /\ node = Entry(k, n)
  OBVIOUS
<1>2. /\ es \in Seq(Kind(l)) /\ i \in 1 .. Len(es) /\ q \in DOMAIN pg /\ IsPage(pg[q], l)
      /\ l \in Nat /\ l # 1
  BY <1>1 DEF Tree, IsPage, Slots, Bounds
<1>3. p \in DOMAIN lv /\ lv[p] = l - 1 /\ p # q /\ p # n /\ n # q /\ n \in Nat
  <2>1. Leads(pg, lv, lv[q], pg[q].ents[i])
    BY DEF Tree, Nodes
  <2>2. p \in DOMAIN lv /\ lv[p] = l - 1
    BY <1>1, <2>1 DEF Leads
  <2>. QED  BY <1>1, <1>2, <2>2 DEF Tree, Bounds
<1>4. node \in Kind(l) /\ node.child = n /\ Claims(l, node) = {n}
  BY <1>1, <1>2, <1>3 DEF Kind, BranchNode, Entry, Claims
<1>5. PICK rest, all : rest = RemoveAt(es, i) /\ all = ReplaceAt(es, i, node)
  OBVIOUS
<1>6. IsReplaced(all, Kind(l), es, i, node)
  BY <1>2, <1>4, <1>5, Replaced, Zenon
<1>7. rest \in Seq(Kind(l)) /\ i \in 1 .. Len(rest) + 1 /\ all = InsertAt(rest, i, node)
  BY <1>5, <1>6, Zenon DEF IsReplaced
<1>8. PICK pg1 : Rewritten(pg, pg1, q, rest)
  BY <1>2, RewrittenExists, Zenon
<1>9. Claims(lv[q], pg[q].ents[i]) = {p}
  BY DEF Claims
<1>10. Tree(pg1, alloc, lv, F, R \cup {p})
  <2>1. Rewritten(pg, pg1, q, RemoveAt(pg[q].ents, i))
    BY <1>1, <1>5, <1>8
  <2>2. Tree(pg1, alloc, lv, F, R \cup Claims(lv[q], pg[q].ents[i]))
    BY <2>1, NodeRemoved, Zenon
  <2>. QED  BY <1>9, <2>2
<1>11. PICK lv2 : lv2 = Moved(lv, p, n)
  OBVIOUS
<1>12. /\ q \in DOMAIN lv2 /\ lv2[q] = l /\ n \in DOMAIN lv2 /\ lv2[n] = l - 1
  BY <1>1, <1>3, <1>11 DEF Moved
<1>13. Tree(pg1, alloc, lv2, F, R \cup {p})
  <2>1. p \in DOMAIN pg /\ n \in DOMAIN pg
    BY <1>3 DEF Tree, Bounds
  <2>2. pg1[n] = pg1[p]
    BY <1>3, <1>8, <2>1 DEF Rewritten
  <2>3. p \in DOMAIN lv \cap (R \cup {p}) /\ n \in (R \cup {p}) \ DOMAIN lv
    BY <1>3
  <2>. QED  BY <1>10, <1>11, <2>2, <2>3, PageMoved, Zenon
<1>14. pg1[q].ents = rest
  BY <1>8 DEF Rewritten
<1>15. Rewritten(pg1, pg2, q, InsertAt(pg1[q].ents, i, node))
  <2>1. Rewritten(pg, pg2, q, all)
    BY <1>1, <1>5
  <2>2. Rewritten(pg1, pg2, q, all)
    BY <1>2, <1>8, <2>1, RewrittenTwice, Zenon
  <2>. QED  BY <1>7, <1>14, <2>2
<1>16. Leads(pg1, lv2, lv2[q], node)
  BY <1>2, <1>4, <1>12 DEF Leads
<1>17. i \in 1 .. Len(pg1[q].ents) + 1
  BY <1>7, <1>14
<1>18. Claims(lv2[q], node) = {n} /\ {n} \subseteq R \cup {p}
  BY <1>4, <1>12
<1>19. Tree(pg2, alloc, lv2, F, (R \cup {p}) \ Claims(lv2[q], node))
  <2>1. Claims(lv2[q], node) \subseteq R \cup {p}
    BY <1>18
  <2>. QED  BY <1>12, <1>13, <1>15, <1>16, <1>17, <2>1, NodeInserted
<1>. QED  BY <1>11, <1>18, <1>19

\* OnPath, for a path of N pages.
PathTo(pg, lv, root, N, path) ==
  /\ path \in Seq(Position)
  /\ Len(path) = N
  /\ root \in DOMAIN lv /\ N = lv[root] /\ N # 0 /\ path[1].p = root
  /\ \A l \in 1 .. N : path[l].p \in DOMAIN lv /\ lv[path[l].p] = N - l + 1
  /\ \A l \in 1 .. (N - 1) :
       /\ path[l].i \in Slots(pg[path[l].p].ents)
       /\ pg[path[l].p].ents[path[l].i].child = path[l + 1].p
  /\ path[N].i \in 1 .. Len(pg[path[N].p].ents) + 1

\* A path as long as the tree is high reaches a leaf.
LEMMA PathToLeaf ==
  ASSUME NEW pg, NEW lv, NEW root, NEW path, NEW N, N = Len(path)
  PROVE  PathTo(pg, lv, root, N, path) <=> OnPath(pg, lv, root, path)
<1>1. PathTo(pg, lv, root, Len(path), path) <=> OnPath(pg, lv, root, path)
  BY Zenon DEF PathTo, OnPath
<1>. QED  BY <1>1

\* A path on which a page's place is taken by its copy.
AtCopy(path, l, n) == [path EXCEPT ![l] = [p |-> n, i |-> path[l].i]]

\* pg2 is pg with page n for the page at l, which the page before names.
Replaces(pg, N, path, l, p, n, pg2) ==
  /\ l \in 1 .. N /\ p = path[l].p
  /\ pg2[n].ents = pg[p].ents
  /\ \A j \in 1 .. N : j # l /\ j # l - 1 => pg2[path[j].p].ents = pg[path[j].p].ents
  /\ l # 1 => /\ Len(pg2[path[l - 1].p].ents) = Len(pg[path[l - 1].p].ents)
               /\ pg2[path[l - 1].p].ents[path[l - 1].i].child = n

\* When the page on level l of a path is copied to page n and its parent
\* (or the root pointer) redirected, the path with n in it is the path of
\* the new tree.
LEMMA PathMoved ==
  ASSUME NEW pg, NEW lv, lv \in [DOMAIN lv -> Nat \ {0}], NEW root, NEW N \in Nat, NEW path,
         PathTo(pg, lv, root, N, path),
         NEW l, NEW p, NEW n \in Nat \ DOMAIN lv, NEW pg2, Replaces(pg, N, path, l, p, n, pg2),
         NEW next, next = AtCopy(path, l, n), NEW lv2, lv2 = Moved(lv, p, n),
         NEW root2, root2 = IF l = 1 THEN n ELSE root
  PROVE  PathTo(pg2, lv2, root2, N, next)
<1>1. /\ l \in 1 .. N /\ p = path[l].p
      /\ pg2[n].ents = pg[p].ents
      /\ \A j \in 1 .. N : j # l /\ j # l - 1 => pg2[path[j].p].ents = pg[path[j].p].ents
      /\ l # 1 => /\ Len(pg2[path[l - 1].p].ents) = Len(pg[path[l - 1].p].ents)
                   /\ pg2[path[l - 1].p].ents[path[l - 1].i].child = n
  BY Zenon DEF Replaces
<1>. USE <1>1
<1>2. path \in Seq(Position) /\ Len(path) = N
  BY Zenon DEF PathTo
<1>3. root \in DOMAIN lv /\ N = lv[root] /\ N # 0 /\ path[1].p = root
  BY Zenon DEF PathTo
<1>4. \A j \in 1 .. N : path[j].p \in DOMAIN lv /\ lv[path[j].p] = N - j + 1
  BY Zenon DEF PathTo
<1>5. \A j \in 1 .. (N - 1) : path[j].i \in Slots(pg[path[j].p].ents)
                              /\ pg[path[j].p].ents[path[j].i].child = path[j + 1].p
  BY Zenon DEF PathTo
<1>6. path[N].i \in 1 .. Len(pg[path[N].p].ents) + 1
  BY Zenon DEF PathTo
<1>7. path \in [1 .. N -> Position]
  BY <1>2
<1>8. PICK at : at = [p |-> n, i |-> path[l].i]
  OBVIOUS
<1>9. at \in Position /\ at.p = n /\ at.i = path[l].i
  <2>1. path[l] \in Position
    BY <1>7
  <2>. QED  BY <1>8, <2>1 DEF Position
<1>10. /\ next \in [1 .. N -> Position] /\ next[l] = at
       /\ \A j \in 1 .. N : j # l => next[j] = path[j]
  <2>1. next = [path EXCEPT ![l] = at]
    BY <1>8, Zenon DEF AtCopy
  <2>. QED  BY <1>7, <1>9, <2>1
<1>11. next \in Seq(Position) /\ Len(next) = N
  BY <1>10
<1>12. DOMAIN lv2 = (DOMAIN lv \ {p}) \cup {n} /\ lv2[n] = lv[p]
       /\ \A q \in DOMAIN lv \ {p} : lv2[q] = lv[q]
  BY DEF Moved
<1>13. \A j \in 1 .. N : j # l => path[j].p \in DOMAIN lv \ {p}
  <2>. TAKE j \in 1 .. N
  <2>1. lv[path[j].p] = N - j + 1 /\ lv[p] = N - l + 1 /\ path[j].p \in DOMAIN lv
    BY <1>4
  <2>. QED  BY <2>1
<1>14. \A j \in 1 .. N : next[j].p \in DOMAIN lv2 /\ lv2[next[j].p] = N - j + 1
  <2>. TAKE j \in 1 .. N
  <2>1. CASE j = l
    <3>1. next[j].p = n /\ lv[p] = N - j + 1
      BY <1>4, <1>9, <1>10, <2>1
    <3>. QED  BY <1>12, <3>1
  <2>2. CASE j # l
    <3>1. next[j].p = path[j].p /\ path[j].p \in DOMAIN lv \ {p} /\ lv[path[j].p] = N - j + 1
      BY <1>4, <1>10, <1>13, <2>2
    <3>. QED  BY <1>12, <3>1
  <2>. QED  BY <2>1, <2>2
<1>15. \A j \in 1 .. (N - 1) : /\ next[j].i \in Slots(pg2[next[j].p].ents)
                               /\ pg2[next[j].p].ents[next[j].i].child = next[j + 1].p
  <2>. TAKE j \in 1 .. (N - 1)
  <2>0. /\ j \in 1 .. N /\ j + 1 \in 1 .. N
        /\ path[j].i \in Slots(pg[path[j].p].ents)
        /\ pg[path[j].p].ents[path[j].i].child = path[j + 1].p
    BY <1>5
  <2>1. CASE j = l
    <3>1. next[j] = at /\ next[j + 1] = path[j + 1]
      BY <1>10, <2>0, <2>1
    <3>. QED  BY <1>9, <2>0, <2>1, <3>1
  <2>2. CASE j = l - 1
    <3>1. next[j] = path[j] /\ next[j + 1] = at /\ l # 1
      BY <1>10, <2>0, <2>2
    <3>2. Len(pg2[path[j].p].ents) = Len(pg[path[j].p].ents)
          /\ pg2[path[j].p].ents[path[j].i].child = n
      BY <2>2, <3>1
    <3>. QED  BY <1>9, <2>0, <3>1, <3>2 DEF Slots
  <2>3. CASE j # l /\ j # l - 1
    <3>1. j + 1 # l
      BY <2>3
    <3>2. next[j] = path[j] /\ next[j + 1] = path[j + 1]
      BY <1>10, <2>0, <2>3, <3>1
    <3>3. pg2[path[j].p].ents = pg[path[j].p].ents
      BY <2>0, <2>3, Zenon
    <3>. QED  BY <2>0, <3>2, <3>3
  <2>. QED  BY <2>1, <2>2, <2>3
<1>16. next[N].i \in 1 .. Len(pg2[next[N].p].ents) + 1
  <2>1. CASE l = N
    BY <1>6, <1>9, <1>10, <2>1
  <2>2. CASE l # N
    <3>1. N \in 1 .. N /\ N # l /\ N # l - 1
      BY <2>2
    <3>2. next[N] = path[N] /\ pg2[path[N].p].ents = pg[path[N].p].ents
      BY <1>10, <3>1
    <3>. QED  BY <1>6, <3>2
  <2>. QED  BY <2>1, <2>2
<1>18. root2 \in DOMAIN lv2 /\ N = lv2[root2] /\ next[1].p = root2
  <2>1. 1 \in 1 .. N
    BY <1>3
  <2>2. CASE l = 1
    BY <1>3, <1>9, <1>10, <1>12, <2>2
  <2>3. CASE l # 1
    <3>1. next[1] = path[1] /\ path[1].p \in DOMAIN lv \ {p}
      BY <1>10, <1>13, <2>1, <2>3
    <3>. QED  BY <1>3, <1>12, <2>3, <3>1
  <2>. QED  BY <2>2, <2>3
<1>. QED  BY <1>3, <1>11, <1>14, <1>15, <1>16, <1>18, Zenon DEF PathTo

\* The same of the root and of a page below it.
LEMMA RootPathMoved ==
  ASSUME NEW pg, NEW lv, lv \in [DOMAIN lv -> Nat \ {0}], NEW root, NEW N \in Nat, NEW path,
         PathTo(pg, lv, root, N, path),
         NEW p, NEW n \in Nat \ DOMAIN lv, NEW pg2, Replaces(pg, N, path, 1, p, n, pg2),
         NEW next, next = AtCopy(path, 1, n), NEW lv2, lv2 = Moved(lv, p, n)
  PROVE  PathTo(pg2, lv2, n, N, next)
<1>1. PICK l : l = 1
  OBVIOUS
<1>2. PICK root2 : root2 = IF l = 1 THEN n ELSE root
  OBVIOUS
<1>3. Replaces(pg, N, path, l, p, n, pg2) /\ next = AtCopy(path, l, n) /\ root2 = n
  BY <1>1, <1>2
<1>4. PathTo(pg2, lv2, root2, N, next)
  BY <1>2, <1>3, PathMoved, Zenon
<1>. QED  BY <1>3, <1>4, Zenon

\* The same, for a copy below the root.
LEMMA LowerPathMoved ==
  ASSUME NEW pg, NEW lv, lv \in [DOMAIN lv -> Nat \ {0}], NEW root, NEW N \in Nat, NEW path,
         PathTo(pg, lv, root, N, path),
         NEW l, l # 1, NEW p, NEW n \in Nat \ DOMAIN lv, NEW pg2, Replaces(pg, N, path, l, p, n, pg2),
         NEW next, next = AtCopy(path, l, n), NEW lv2, lv2 = Moved(lv, p, n)
  PROVE  PathTo(pg2, lv2, root, N, next)
<1>2. PICK root2 : root2 = IF l = 1 THEN n ELSE root
  OBVIOUS
<1>3. root2 = root
  BY <1>2
<1>4. PathTo(pg2, lv2, root2, N, next)
  BY <1>2, PathMoved, Zenon
<1>. QED  BY <1>3, <1>4, Zenon

\* What copying pages leaves as it was: the free list, the height, whether a
\* call failed; dirty pages stay dirty and overflow pages overflow pages.
Carried(s, t) ==
  /\ t.free = s.free /\ t.failed = s.failed /\ t.tree.height = s.tree.height
  /\ s.dirty \subseteq t.dirty
  /\ t.alloc \in Nat /\ s.alloc <= t.alloc
  /\ \A c \in 1 .. (s.alloc - 1) : s.pg[c].type = "large" => t.pg[c].type = "large"

AllocIs(s, n, t) ==
  /\ IsState(t)
  /\ t.pg = s.pg /\ t.dirty = s.dirty /\ t.free = s.free /\ t.tree = s.tree /\ t.failed = s.failed
  /\ t.alloc = n

\* A higher allocation mark changes nothing else.
LEMMA AllocSet ==
  ASSUME NEW s, IsState(s), NEW n, NEW t, t = [s EXCEPT !.alloc = n]
  PROVE  AllocIs(s, n, t)
<1>1. /\ t.pg = s.pg /\ t.dirty = s.dirty /\ t.free = s.free /\ t.tree = s.tree
      /\ t.failed = s.failed /\ t.alloc = n
  BY Zenon DEF IsState
<1>2. t = [pg |-> t.pg, dirty |-> t.dirty, free |-> t.free, alloc |-> t.alloc,
           tree |-> t.tree, failed |-> t.failed]
  BY Zenon DEF IsState
<1>3. IsTree(t.tree)
  <2>1. IsTree(s.tree)
    BY Zenon DEF IsState
  <2>. QED  BY <1>1, <2>1
<1>. QED  BY <1>1, <1>2, <1>3, Zenon DEF AllocIs, IsState

IsCopied(s, H, base, lv, F, R, p, n, t) ==
  /\ Sound(t, H, base, lv, F, R \cup {n})
  /\ t.free = s.free /\ t.tree = s.tree /\ t.failed = s.failed /\ t.alloc = s.alloc + 1
  /\ t.dirty = s.dirty \cup {n}
  /\ n \in Nat \ {0} /\ n \notin DOMAIN lv /\ n \notin R /\ n \notin H
  /\ t.pg[n] = s.pg[p]
  /\ \A q \in 1 .. (s.alloc - 1) : t.pg[q] = s.pg[q]

CopyOf(s, n, p) == [Write(s, n, s.pg[p]) EXCEPT !.alloc = n + 1]
RootSet(s, n)   == [s EXCEPT !.tree.root = n]

\* A copy of a page at the end of the file, reserved.
LEMMA CopyMade ==
  ASSUME NEW s, NEW H, NEW base, NEW lv, NEW F, NEW R, Sound(s, H, base, lv, F, R),
         NEW p, NEW n, n = s.alloc,
         NEW t, t = CopyOf(s, n, p)
  PROVE  IsCopied(s, H, base, lv, F, R, p, n, t)
<1>1. PICK put : put = Write(s, n, s.pg[p])
  OBVIOUS
<1>2. IsWritten(s, n, s.pg[p], put)
  BY <1>1, Written, Zenon DEF Sound
<1>3. IsState(put) /\ put.pg = Over(s.pg, {n}, s.pg[p]) /\ put.dirty = s.dirty \cup {n}
      /\ put.free = s.free /\ put.alloc = s.alloc /\ put.tree = s.tree /\ put.failed = s.failed
  BY <1>2, Zenon DEF IsWritten, SameBut
<1>4. t = [put EXCEPT !.alloc = n + 1]
  BY <1>1, Zenon DEF CopyOf
<1>5. IsState(t) /\ t.pg = put.pg /\ t.dirty = put.dirty /\ t.free = put.free
      /\ t.tree = put.tree /\ t.failed = put.failed /\ t.alloc = n + 1
  <2>1. AllocIs(put, n + 1, t)
    BY <1>3, <1>4, AllocSet, Zenon
  <2>. QED  BY <2>1, Zenon DEF AllocIs
<1>6. OnePage(s.pg, n, s.pg[p], t.pg)
  BY <1>3, <1>5, OnePageOver, Zenon
<1>7. /\ s.alloc \in Nat \ {0} /\ Bounds(s.pg, s.alloc, lv, F, R) /\ H \subseteq 1 .. (s.alloc - 1)
  BY DEF Sound, Spares, Tree, Bounds
<1>8. n \in Nat \ {0} /\ n \notin DOMAIN lv /\ n \notin R /\ n \notin H /\ n \notin F
  BY <1>7 DEF Bounds
<1>9. \A q \in 1 .. (s.alloc - 1) : t.pg[q] = s.pg[q] /\ q # n
  BY <1>6, <1>7 DEF Bounds, OnePage
<1>10. t.pg[n] = s.pg[p] /\ DOMAIN t.pg = DOMAIN s.pg \cup {n}
  BY <1>6 DEF OnePage
<1>11. t.alloc = s.alloc + 1
  BY <1>5
<1>12. Tree(t.pg, t.alloc, lv, F, R \cup {n})
  <2>1. Bounds(t.pg, t.alloc, lv, F, R \cup {n})
    BY <1>7, <1>8, <1>10, <1>11 DEF Bounds
  <2>2. t.alloc >= s.alloc /\ F \cup (R \cup {n}) \subseteq F \cup R \cup (s.alloc .. (t.alloc - 1))
    BY <1>7, <1>11
  <2>3. \A q \in DOMAIN lv : t.pg[q] = s.pg[q]
    BY <1>7, <1>9 DEF Bounds
  <2>4. \A c \in (1 .. (s.alloc - 1)) \ (F \cup R) : s.pg[c].type = "large" => t.pg[c].type = "large"
    BY <1>9
  <2>5. Tree(s.pg, s.alloc, lv, F, R)
    BY DEF Sound
  <2>. QED  BY <2>1, <2>2, <2>3, <2>4, <2>5, PagesChanged
<1>13. Filled(t.pg, lv)
  <2>1. \A q \in DOMAIN lv : t.pg[q] = s.pg[q]
    BY <1>7, <1>9 DEF Bounds
  <2>. QED  BY <2>1 DEF Filled, Sound
<1>14. Spares(t, H, base)
  <2>1. H \subseteq 1 .. (t.alloc - 1)
    BY <1>7, <1>11
  <2>2. t.dirty \cap H = {}
    BY <1>3, <1>5, <1>8 DEF Sound, Spares
  <2>3. \A q \in H : t.pg[q] = s.pg[q]
    BY <1>7, <1>9
  <2>. QED  BY <2>1, <2>2, <2>3 DEF Sound, Spares
<1>15. Sound(t, H, base, lv, F, R \cup {n})
  BY <1>5, <1>12, <1>13, <1>14 DEF Sound
<1>. QED  BY <1>3, <1>5, <1>8, <1>9, <1>10, <1>11, <1>15 DEF IsCopied

\* A root pointer moved changes nothing else.
LEMMA RootMoved ==
  ASSUME NEW s, IsState(s), NEW q, NEW t, t = [s EXCEPT !.tree.root = q]
  PROVE  Reroots(s, t, q, s.tree.height)
<1>1. IsState(t) /\ t.tree.root = q /\ t.tree.height = s.tree.height
  BY Zenon DEF IsState, IsTree
<1>2. /\ t.pg = s.pg /\ t.dirty = s.dirty /\ t.free = s.free
      /\ t.alloc = s.alloc /\ t.failed = s.failed
  BY Zenon DEF IsState
<1>. QED  BY <1>1, <1>2 DEF Reroots

\* The tree with page l of the path copied: what the writer then holds.
LevelCopied(s, H, base, F, R, N, path, l, t, next) ==
  \E lv2, R2 :
    /\ Sound(t, H, base, lv2, F, R2) /\ Rooted(t, lv2, R2) /\ R \subseteq R2
    /\ PathTo(t.pg, lv2, t.tree.root, N, next)
    /\ Carried(s, t) /\ next[l].p \in t.dirty
    /\ t.pg[next[N].p].ents = s.pg[path[N].p].ents

\* The root.
LEMMA RootTouched ==
  ASSUME NEW s, NEW H, NEW base, NEW lv, NEW F, NEW R, Sound(s, H, base, lv, F, R),
         Rooted(s, lv, R), NEW N \in Nat, NEW path, PathTo(s.pg, lv, s.tree.root, N, path),
         NEW n, n = s.alloc, NEW copy, copy = CopyOf(s, n, path[1].p),
         NEW t, t = RootSet(copy, n), NEW next, next = AtCopy(path, 1, n)
  PROVE  LevelCopied(s, H, base, F, R, N, path, 1, t, next)
<1>1. PICK p : p = path[1].p
  OBVIOUS
<1>2. IsCopied(s, H, base, lv, F, R, p, n, copy)
  BY <1>1, CopyMade, Zenon
<1>3. p = s.tree.root /\ p \in DOMAIN lv /\ p \in R /\ lv[p] = s.tree.height /\ N = lv[p] /\ N # 0
  BY <1>1, Zenon DEF PathTo, Rooted
<1>4. /\ Sound(copy, H, base, lv, F, R \cup {n}) /\ copy.tree = s.tree
      /\ copy.free = s.free /\ copy.failed = s.failed /\ copy.alloc = s.alloc + 1
      /\ copy.dirty = s.dirty \cup {n}
      /\ n \in Nat \ {0} /\ n \notin DOMAIN lv /\ copy.pg[n] = s.pg[p]
      /\ \A q \in 1 .. (s.alloc - 1) : copy.pg[q] = s.pg[q]
  BY <1>2, Zenon DEF IsCopied
<1>5. Reroots(copy, t, n, copy.tree.height)
  <2>1. IsState(copy)
    BY <1>4, Zenon DEF Sound
  <2>2. t = [copy EXCEPT !.tree.root = n]
    BY Zenon DEF RootSet
  <2>. QED  BY <2>1, <2>2, RootMoved, Zenon
<1>6. /\ IsState(t) /\ t.pg = copy.pg /\ t.dirty = copy.dirty /\ t.free = copy.free
      /\ t.alloc = copy.alloc /\ t.failed = copy.failed
      /\ t.tree.root = n /\ t.tree.height = s.tree.height
  BY <1>4, <1>5, Zenon DEF Reroots
<1>7. PICK lv2 : lv2 = Moved(lv, p, n)
  OBVIOUS
<1>8. DOMAIN lv2 = (DOMAIN lv \ {p}) \cup {n} /\ lv2[n] = lv[p]
      /\ \A q \in DOMAIN lv \ {p} : lv2[q] = lv[q]
  BY <1>4, <1>7 DEF Moved
<1>9. /\ s.alloc \in Nat \ {0} /\ DOMAIN lv \subseteq 1 .. (s.alloc - 1)
      /\ lv \in [DOMAIN lv -> Nat \ {0}]
  BY DEF Sound, Tree, Bounds
<1>10. copy.pg[p] = s.pg[p]
  BY <1>3, <1>4, <1>9
<1>11. Tree(t.pg, t.alloc, lv2, F, R \cup {n})
  <2>1. Tree(copy.pg, copy.alloc, lv, F, R \cup {n})
    BY <1>4, Zenon DEF Sound
  <2>2. p \in DOMAIN lv \cap (R \cup {n}) /\ n \in (R \cup {n}) \ DOMAIN lv
    BY <1>3, <1>4
  <2>a. copy.pg[n] = copy.pg[p]
    BY <1>4, <1>10
  <2>3. Tree(copy.pg, copy.alloc, lv2, F, R \cup {n})
    BY <1>7, <2>1, <2>2, <2>a, PageMoved
  <2>. QED  BY <1>6, <2>3, Zenon
<1>12. Filled(t.pg, lv2)
  <2>1. Filled(copy.pg, lv)
    BY <1>4, Zenon DEF Sound
  <2>. SUFFICES ASSUME NEW q \in DOMAIN lv2, lv2[q] # 1 PROVE t.pg[q].ents # <<>>
    BY DEF Filled
  <2>2. PICK r \in DOMAIN lv : lv[r] = lv2[q] /\ copy.pg[r] = copy.pg[q]
    <3>1. CASE q = n
      BY <1>3, <1>4, <1>8, <1>10, <3>1
    <3>2. CASE q # n
      BY <1>8, <3>2
    <3>. QED  BY <3>1, <3>2
  <2>. QED  BY <1>6, <2>1, <2>2 DEF Filled
<1>13. Spares(t, H, base)
  BY <1>4, <1>6 DEF Sound, Spares
<1>14. Sound(t, H, base, lv2, F, R \cup {n})
  BY <1>6, <1>11, <1>12, <1>13, Zenon DEF Sound
<1>15. Rooted(t, lv2, R \cup {n})
  BY <1>3, <1>6, <1>8 DEF Rooted
<1>16. PathTo(t.pg, lv2, n, N, next)
  <2>1. t.pg[n].ents = s.pg[p].ents
    BY <1>4, <1>6
  <2>2. \A j \in 1 .. N : j # 1 /\ j # 1 - 1 => t.pg[path[j].p].ents = s.pg[path[j].p].ents
    <3>. TAKE j \in 1 .. N
    <3>1. path[j].p \in DOMAIN lv
      BY Zenon DEF PathTo
    <3>. QED  BY <1>4, <1>6, <1>9, <3>1
  <2>3. 1 \in 1 .. N
    BY <1>3
  <2>4. Replaces(s.pg, N, path, 1, p, n, t.pg)
    BY <1>1, <2>1, <2>2, <2>3 DEF Replaces
  <2>5. n \in Nat \ DOMAIN lv
    BY <1>4
  <2>6. lv \in [DOMAIN lv -> Nat \ {0}]
    BY <1>9
  <2>7. PICK pg, root, pg2, m : pg = s.pg /\ root = s.tree.root /\ pg2 = t.pg /\ m = n
    OBVIOUS
  <2>8. PathTo(pg, lv, root, N, path)
    BY <2>7, Zenon
  <2>9. Replaces(pg, N, path, 1, p, m, pg2)
    BY <2>4, <2>7, Zenon
  <2>10. m \in Nat \ DOMAIN lv /\ next = AtCopy(path, 1, m) /\ lv2 = Moved(lv, p, m)
    BY <1>7, <2>5, <2>7
  <2>11. PathTo(pg2, lv2, m, N, next)
    BY <2>8, <2>9, <2>10, <2>6, RootPathMoved, Zenon
  <2>. QED  BY <2>7, <2>11, Zenon
<1>17. Carried(s, t)
  BY <1>4, <1>6, <1>9 DEF Carried
<1>18. next[1].p = n /\ t.pg[next[N].p].ents = s.pg[path[N].p].ents
  <2>1. path \in Seq(Position) /\ Len(path) = N
    BY Zenon DEF PathTo
  <2>2. N \in 1 .. N /\ 1 \in 1 .. N
    BY <1>3
  <2>3. next[1].p = n /\ (N # 1 => next[N] = path[N])
    BY <2>1, <2>2 DEF AtCopy
  <2>4. CASE N = 1
    BY <1>1, <1>4, <1>6, <2>3, <2>4
  <2>5. CASE N # 1
    <3>1. path[N].p \in DOMAIN lv
      BY <2>2, Zenon DEF PathTo
    <3>. QED  BY <1>4, <1>6, <1>9, <2>3, <2>5, <3>1
  <2>. QED  BY <2>3, <2>4, <2>5
<1>19. next[1].p \in t.dirty
  BY <1>4, <1>6, <1>18
<1>20. R \subseteq R \cup {n}
  OBVIOUS
<1>. QED  BY <1>6, <1>14, <1>15, <1>16, <1>17, <1>18, <1>19, <1>20, Zenon DEF LevelCopied

\* A page below the root: updateChildPointer changes its parent, a copy
\* already.
LEMMA ChildTouched ==
  ASSUME NEW s, NEW H, NEW base, NEW lv, NEW F, NEW R, Sound(s, H, base, lv, F, R),
         Rooted(s, lv, R), NEW N \in Nat, NEW path, PathTo(s.pg, lv, s.tree.root, N, path),
         NEW l \in 2 .. N, path[l - 1].p \in s.dirty,
         NEW n, n = s.alloc, NEW copy, copy = CopyOf(s, n, path[l].p),
         NEW t, t = UpdateChild(copy, path[l - 1], n), NEW next, next = AtCopy(path, l, n)
  PROVE  LevelCopied(s, H, base, F, R, N, path, l, t, next)
<1>1. PICK p, q, i : p = path[l].p /\ q = path[l - 1].p /\ i = path[l - 1].i
  OBVIOUS
<1>2. IsCopied(s, H, base, lv, F, R, p, n, copy)
  BY <1>1, CopyMade, Zenon
<1>3. /\ Sound(copy, H, base, lv, F, R \cup {n}) /\ copy.tree = s.tree
      /\ copy.free = s.free /\ copy.failed = s.failed /\ copy.alloc = s.alloc + 1
      /\ copy.dirty = s.dirty \cup {n}
      /\ n \in Nat \ {0} /\ n \notin DOMAIN lv /\ n \notin R /\ n \notin H /\ copy.pg[n] = s.pg[p]
      /\ \A r \in 1 .. (s.alloc - 1) : copy.pg[r] = s.pg[r]
  BY <1>2, Zenon DEF IsCopied
<1>4. /\ path \in Seq(Position) /\ Len(path) = N
      /\ \A j \in 1 .. N : path[j].p \in DOMAIN lv /\ lv[path[j].p] = N - j + 1
      /\ \A j \in 1 .. (N - 1) : /\ path[j].i \in Slots(s.pg[path[j].p].ents)
                                 /\ s.pg[path[j].p].ents[path[j].i].child = path[j + 1].p
  BY Zenon DEF PathTo
<1>5. l - 1 \in 1 .. N /\ l \in 1 .. N /\ l - 1 \in 1 .. (N - 1) /\ (l - 1) + 1 = l /\ N \in 1 .. N
  OBVIOUS
<1>6. /\ p \in DOMAIN lv /\ lv[p] = N - l + 1 /\ q \in DOMAIN lv /\ lv[q] = N - l + 2
      /\ i \in Slots(s.pg[q].ents) /\ s.pg[q].ents[i].child = p
  <2>1. p \in DOMAIN lv /\ lv[p] = N - l + 1
    BY <1>1, <1>4, <1>5
  <2>2. q \in DOMAIN lv /\ lv[q] = N - (l - 1) + 1
    BY <1>1, <1>4, <1>5
  <2>3. i \in Slots(s.pg[q].ents) /\ s.pg[q].ents[i].child = path[(l - 1) + 1].p
    BY <1>1, <1>4, <1>5, Zenon
  <2>. QED  BY <1>1, <1>5, <2>1, <2>2, <2>3
<1>7. p # q /\ lv[q] # 1 /\ n # q /\ n # p
  BY <1>3, <1>6
<1>8. /\ s.alloc \in Nat \ {0} /\ DOMAIN lv \subseteq 1 .. (s.alloc - 1)
      /\ lv \in [DOMAIN lv -> Nat \ {0}] /\ \A r \in DOMAIN lv : IsPage(s.pg[r], lv[r])
      /\ H \subseteq 1 .. (s.alloc - 1)
  BY DEF Sound, Tree, Bounds, Spares
<1>9. copy.pg[q] = s.pg[q] /\ copy.pg[p] = s.pg[p]
  BY <1>3, <1>6, <1>8
<1>10. PICK es : es = copy.pg[q].ents
  OBVIOUS
<1>11. PICK k : k = es[i].k
  OBVIOUS
<1>12. PICK es2 : es2 = ReplaceAt(es, i, Entry(k, n))
  OBVIOUS
<1>13. IsPage(copy.pg[q], lv[q]) /\ es \in Seq(BranchNode) /\ i \in 1 .. Len(es) /\ k \in Nat
  <2>1. IsPage(copy.pg[q], lv[q])
    BY <1>6, <1>8, <1>9
  <2>2. es \in Seq(BranchNode)
    BY <1>7, <1>10, <2>1 DEF IsPage, Kind
  <2>3. i \in 1 .. Len(es)
    BY <1>6, <1>9, <1>10 DEF Slots
  <2>4. k \in Nat
    <3>1. es[i] \in BranchNode
      BY <2>2, <2>3
    <3>. QED  BY <1>11, <3>1 DEF BranchNode
  <2>. QED  BY <2>1, <2>2, <2>3, <2>4
<1>14. t = SetEnts(copy, q, es2)
  <2>1. path[l - 1].i \in DOMAIN copy.pg[path[l - 1].p].ents
    BY <1>1, <1>10, <1>13
  <2>. QED  BY <1>1, <1>10, <1>11, <1>12, <2>1, Zenon DEF UpdateChild
<1>15. AreEntsSet(copy, q, es2, t)
  <2>1. IsState(copy) /\ q \in DOMAIN copy.pg
    BY <1>3, <1>6, <1>8 DEF Sound, Tree, Bounds
  <2>. QED  BY <1>13, <1>14, <2>1, EntsSet, Zenon
<1>16. /\ IsState(t) /\ t.free = s.free /\ t.alloc = s.alloc + 1 /\ t.tree = s.tree
       /\ t.failed = s.failed
       /\ Rewritten(copy.pg, t.pg, q, es2) /\ t.dirty = copy.dirty \cup {q}
  BY <1>3, <1>15, Zenon DEF AreEntsSet, SameBut
<1>17. /\ DOMAIN t.pg = DOMAIN copy.pg /\ t.pg[q].ents = es2
       /\ t.pg[q].type = copy.pg[q].type /\ \A r \in DOMAIN copy.pg \ {q} : t.pg[r] = copy.pg[r]
  BY <1>16, Zenon DEF Rewritten
<1>18. Len(es2) = Len(es) /\ es2[i].child = n
  <2>1. Entry(k, n) \in BranchNode
    BY <1>3, <1>13 DEF Entry, BranchNode
  <2>2. IsReplaced(es2, BranchNode, es, i, Entry(k, n))
    BY <1>12, <1>13, <2>1, Replaced, Zenon
  <2>3. Len(es2) = Len(es) /\ es2[i] = Entry(k, n)
    BY <1>13, <2>2 DEF IsReplaced
  <2>. QED  BY <2>3 DEF Entry
<1>19. 1 .. (copy.alloc - 1) \subseteq DOMAIN copy.pg
  BY <1>3 DEF Sound, Tree, Bounds
<1>20. \A r \in 1 .. (s.alloc - 1) : r # q => t.pg[r] = s.pg[r]
  BY <1>3, <1>8, <1>17, <1>19
<1>21. t.pg[n] = s.pg[p]
  BY <1>3, <1>7, <1>8, <1>17, <1>19
<1>22. PICK lv2 : lv2 = Moved(lv, p, n)
  OBVIOUS
<1>23. PICK R2 : R2 = ((R \cup {n}) \cup {p}) \ {n}
  OBVIOUS
<1>24. /\ DOMAIN lv2 = (DOMAIN lv \ {p}) \cup {n} /\ lv2[n] = lv[p]
       /\ \A r \in DOMAIN lv \ {p} : lv2[r] = lv[r]
  BY <1>3, <1>22 DEF Moved
<1>25. Tree(t.pg, t.alloc, lv2, F, R2)
  <2>1. Tree(copy.pg, copy.alloc, lv, F, R \cup {n})
    BY <1>3, Zenon DEF Sound
  <2>2. n \in (R \cup {n}) \ DOMAIN lv /\ copy.pg[n] = copy.pg[p] /\ i \in Slots(copy.pg[q].ents)
        /\ p = copy.pg[q].ents[i].child
    BY <1>3, <1>6, <1>9
  <2>3. Rewritten(copy.pg, t.pg, q, ReplaceAt(copy.pg[q].ents, i, Entry(k, n)))
    BY <1>10, <1>12, <1>16, Zenon
  <2>4. Tree(t.pg, copy.alloc, Moved(lv, p, n), F, ((R \cup {n}) \cup {p}) \ {n})
    BY <1>6, <1>7, <1>13, <2>1, <2>2, <2>3, ChildMoved
  <2>. QED  BY <1>3, <1>16, <1>22, <1>23, <2>4
<1>26. Filled(t.pg, lv2)
  <2>1. Filled(s.pg, lv)
    BY Zenon DEF Sound
  <2>. SUFFICES ASSUME NEW r \in DOMAIN lv2, lv2[r] # 1 PROVE t.pg[r].ents # <<>>
    BY DEF Filled
  <2>2. CASE r = n
    BY <1>6, <1>21, <1>24, <2>1, <2>2 DEF Filled
  <2>3. CASE r = q
    <3>1. Len(t.pg[r].ents) = Len(es) /\ i \in 1 .. Len(es)
      BY <1>13, <1>17, <1>18, <2>3
    <3>. QED  BY <3>1
  <2>4. CASE r # n /\ r # q
    <3>1. r \in DOMAIN lv /\ lv[r] # 1 /\ t.pg[r] = s.pg[r]
      BY <1>8, <1>20, <1>24, <2>4
    <3>. QED  BY <2>1, <3>1 DEF Filled
  <2>. QED  BY <2>2, <2>3, <2>4
<1>27. Spares(t, H, base)
  <2>1. q \notin H /\ s.dirty \cap H = {} /\ \A r \in H : s.pg[r] = base[r] /\ base[r].type # "large"
    BY <1>1 DEF Sound, Spares
  <2>2. H \subseteq 1 .. (t.alloc - 1)
    BY <1>8, <1>16
  <2>3. t.dirty \cap H = {}
    BY <1>3, <1>16, <2>1
  <2>4. \A r \in H : t.pg[r] = s.pg[r]
    BY <1>8, <1>20, <2>1
  <2>. QED  BY <2>1, <2>2, <2>3, <2>4 DEF Spares
<1>28. Sound(t, H, base, lv2, F, R2)
  BY <1>16, <1>25, <1>26, <1>27, Zenon DEF Sound
<1>29. Rooted(t, lv2, R2) /\ R \subseteq R2
  <2>1. s.tree.root \in DOMAIN lv /\ s.tree.root \in R /\ lv[s.tree.root] = s.tree.height
        /\ lv[s.tree.root] = N
    BY Zenon DEF Rooted, PathTo
  <2>2. s.tree.root # p
    BY <1>6, <2>1
  <2>. QED  BY <1>3, <1>16, <1>23, <1>24, <2>1, <2>2 DEF Rooted
<1>30. Replaces(s.pg, N, path, l, p, n, t.pg)
  <2>1. t.pg[n].ents = s.pg[p].ents
    BY <1>21
  <2>2. \A j \in 1 .. N : j # l /\ j # l - 1 => t.pg[path[j].p].ents = s.pg[path[j].p].ents
    <3>. SUFFICES ASSUME NEW j \in 1 .. N, j # l, j # l - 1
                  PROVE  t.pg[path[j].p].ents = s.pg[path[j].p].ents
      OBVIOUS
    <3>1. path[j].p \in DOMAIN lv /\ lv[path[j].p] = N - j + 1
      BY <1>4
    <3>2. path[j].p # q
      BY <1>6, <3>1
    <3>. QED  BY <1>8, <1>20, <3>1, <3>2
  <2>3. Len(t.pg[path[l - 1].p].ents) = Len(s.pg[path[l - 1].p].ents)
        /\ t.pg[path[l - 1].p].ents[path[l - 1].i].child = n
    BY <1>1, <1>9, <1>10, <1>17, <1>18
  <2>. QED  BY <1>1, <1>5, <2>1, <2>2, <2>3, Zenon DEF Replaces
<1>31. PathTo(t.pg, lv2, t.tree.root, N, next)
  <2>1. PICK pg, root, pg2, m : pg = s.pg /\ root = s.tree.root /\ pg2 = t.pg /\ m = n
    OBVIOUS
  <2>2. PathTo(pg, lv, root, N, path)
    BY <2>1, Zenon
  <2>3. Replaces(pg, N, path, l, p, m, pg2)
    BY <1>30, <2>1, Zenon
  <2>4. m \in Nat \ DOMAIN lv /\ next = AtCopy(path, l, m) /\ lv2 = Moved(lv, p, m) /\ l # 1
    BY <1>3, <1>22, <2>1
  <2>5. lv \in [DOMAIN lv -> Nat \ {0}]
    BY <1>8
  <2>6. PathTo(pg2, lv2, root, N, next)
    BY <2>2, <2>3, <2>4, <2>5, LowerPathMoved, Zenon
  <2>. QED  BY <1>16, <2>1, <2>6, Zenon
<1>32. Carried(s, t)
  <2>1. \A c \in 1 .. (s.alloc - 1) : s.pg[c].type = "large" => t.pg[c].type = "large"
    BY <1>9, <1>17, <1>20
  <2>2. s.dirty \subseteq t.dirty
    BY <1>3, <1>16
  <2>3. t.alloc \in Nat /\ s.alloc <= t.alloc
    BY <1>8, <1>16
  <2>. QED  BY <1>16, <2>1, <2>2, <2>3, Zenon DEF Carried
<1>33. next[l].p = n /\ (N # l => next[N] = path[N])
  BY <1>4, <1>5 DEF AtCopy
<1>34. next[l].p \in t.dirty
  BY <1>3, <1>16, <1>33
<1>35. t.pg[next[N].p].ents = s.pg[path[N].p].ents
  <2>1. CASE N = l
    BY <1>1, <1>21, <1>33, <2>1
  <2>2. CASE N # l
    <3>1. path[N].p \in DOMAIN lv /\ lv[path[N].p] = 1
      BY <1>4, <1>5
    <3>. QED  BY <1>7, <1>8, <1>20, <1>33, <2>2, <3>1
  <2>. QED  BY <2>1, <2>2
<1>. QED  BY <1>28, <1>29, <1>31, <1>32, <1>34, <1>35, Zenon DEF LevelCopied

\* Dirty pages stay dirty, and the allocation mark only rises: over two
\* steps as over one.
LEMMA CarriedOn ==
  ASSUME NEW s, NEW t, NEW u, s.alloc \in Nat, Carried(s, t), Carried(t, u)
  PROVE  Carried(s, u)
<1>1. s.alloc \in Nat /\ t.alloc \in Nat /\ u.alloc \in Nat /\ s.alloc <= t.alloc /\ t.alloc <= u.alloc
  BY DEF Carried
<1>2. \A c \in 1 .. (s.alloc - 1) : c \in 1 .. (t.alloc - 1)
  BY <1>1
<1>3. \A c \in 1 .. (s.alloc - 1) : s.pg[c].type = "large" => u.pg[c].type = "large"
  BY <1>2, Zenon DEF Carried
<1>4. s.alloc <= u.alloc
  BY <1>1
<1>. QED  BY <1>1, <1>3, <1>4 DEF Carried

\* The first n pages of the path are dirty; cur is the path as it is now.
IsTouched(s, H, base, F, R, N, path, n, a, lv2, R2, cur) ==
  /\ Sound(a.s, H, base, lv2, F, R2) /\ Rooted(a.s, lv2, R2) /\ R \subseteq R2
  /\ PathTo(a.s.pg, lv2, a.s.tree.root, N, cur)
  /\ Carried(s, a.s)
  /\ a = [s |-> a.s, path |-> a.path]
  /\ a.path \in Seq(Position) /\ Len(a.path) = n
  /\ \A j \in 1 .. n : a.path[j] = cur[j] /\ cur[j].p \in a.s.dirty
  /\ \A j \in 1 .. N : cur[j].i = path[j].i /\ (j > n => cur[j] = path[j])
  /\ a.s.pg[cur[N].p].ents = s.pg[path[N].p].ents

Touched(s, H, base, F, R, N, path, n, a) ==
  \E lv2, R2, cur : IsTouched(s, H, base, F, R, N, path, n, a, lv2, R2, cur)

\* What a level makes of the path.
LEMMA PathExtended ==
  ASSUME NEW f \in Seq(Position), NEW n \in Nat, Len(f) = n, NEW e \in Position,
         NEW g, g = Append(f, e)
  PROVE  /\ g \in Seq(Position) /\ Len(g) = n + 1 /\ g[n + 1] = e
         /\ \A j \in 1 .. n : g[j] = f[j]
OBVIOUS

\* A page that is dirty stays.
LEMMA DirtyTouched ==
  ASSUME NEW s, NEW H, NEW base, NEW F, NEW R, NEW N \in Nat, NEW path, path \in Seq(Position),
         Len(path) = N, NEW n \in 0 .. (N - 1), NEW a, Touched(s, H, base, F, R, N, path, n, a),
         path[n + 1].p \in a.s.dirty, NEW r, r = TouchLevel(a, path[n + 1])
  PROVE  Touched(s, H, base, F, R, N, path, n + 1, r)
<1>1. PICK lv2, R2, cur : IsTouched(s, H, base, F, R, N, path, n, a, lv2, R2, cur)
  BY Zenon DEF Touched
<1>2. PICK at : at = path[n + 1]
  OBVIOUS
<1>3. r = [a EXCEPT !.path = Append(a.path, at)]
  BY <1>2, Zenon DEF TouchLevel
<1>4. a = [s |-> a.s, path |-> a.path] /\ a.path \in Seq(Position) /\ Len(a.path) = n
  BY <1>1, Zenon DEF IsTouched
<1>5. r.s = a.s /\ r.path = Append(a.path, at) /\ r = [s |-> r.s, path |-> r.path]
  BY <1>3, <1>4
<1>6. at \in Position
  BY <1>2
<1>7. /\ r.path \in Seq(Position) /\ Len(r.path) = n + 1 /\ r.path[n + 1] = at
      /\ \A j \in 1 .. n : r.path[j] = a.path[j]
  BY <1>4, <1>5, <1>6, PathExtended
<1>8. /\ \A j \in 1 .. n : a.path[j] = cur[j] /\ cur[j].p \in a.s.dirty
      /\ \A j \in 1 .. N : cur[j].i = path[j].i /\ (j > n => cur[j] = path[j])
  BY <1>1, Zenon DEF IsTouched
<1>9. cur[n + 1] = at
  BY <1>2, <1>8
<1>10. \A j \in 1 .. (n + 1) : r.path[j] = cur[j] /\ cur[j].p \in r.s.dirty
  BY <1>2, <1>5, <1>7, <1>8, <1>9
<1>11. \A j \in 1 .. N : cur[j].i = path[j].i /\ (j > n + 1 => cur[j] = path[j])
  BY <1>8
<1>12. IsTouched(s, H, base, F, R, N, path, n + 1, r, lv2, R2, cur)
  BY <1>1, <1>5, <1>7, <1>10, <1>11, Zenon DEF IsTouched
<1>. QED  BY <1>12, Zenon DEF Touched

\* A page that is not is copied, and the copy takes its place in the path.
LEMMA CopyTouched ==
  ASSUME NEW s, s.alloc \in Nat, NEW H, NEW base, NEW F, NEW R, NEW N \in Nat,
         NEW path, path \in Seq(Position),
         Len(path) = N, NEW n \in 0 .. (N - 1), NEW a, Touched(s, H, base, F, R, N, path, n, a),
         path[n + 1].p \notin a.s.dirty, NEW r, r = TouchLevel(a, path[n + 1])
  PROVE  Touched(s, H, base, F, R, N, path, n + 1, r)
<1>1. PICK lv2, R2, cur : IsTouched(s, H, base, F, R, N, path, n, a, lv2, R2, cur)
  BY Zenon DEF Touched
<1>2. /\ Sound(a.s, H, base, lv2, F, R2) /\ Rooted(a.s, lv2, R2) /\ R \subseteq R2
      /\ PathTo(a.s.pg, lv2, a.s.tree.root, N, cur)
      /\ Carried(s, a.s)
      /\ a.path \in Seq(Position) /\ Len(a.path) = n
      /\ a.s.pg[cur[N].p].ents = s.pg[path[N].p].ents
  BY <1>1, Zenon DEF IsTouched
<1>3. /\ \A j \in 1 .. n : a.path[j] = cur[j] /\ cur[j].p \in a.s.dirty
      /\ \A j \in 1 .. N : cur[j].i = path[j].i /\ (j > n => cur[j] = path[j])
  BY <1>1, Zenon DEF IsTouched
<1>4. PICK u, l, at, new : u = a.s /\ l = n + 1 /\ at = path[l] /\ new = u.alloc
  OBVIOUS
<1>5. l \in 1 .. N /\ cur[l] = at /\ at \in Position
  BY <1>3, <1>4
<1>6. PICK copy : copy = CopyOf(u, new, at.p)
  OBVIOUS
<1>7. PICK t : t = IF a.path = <<>> THEN RootSet(copy, new) ELSE UpdateChild(copy, Last(a.path), new)
  OBVIOUS
<1>8. PICK e : e = [at EXCEPT !.p = a.s.alloc]
  OBVIOUS
<1>9. r.s = t /\ r.path = Append(a.path, e) /\ r = [s |-> r.s, path |-> r.path]
  <2>1. r = TouchLevel(a, at) /\ at.p \notin a.s.dirty
    BY <1>4
  <2>2. PICK both, longer :
          /\ longer = Append(a.path, e)
          /\ both = IF a.path = <<>>
                    THEN RootSet(CopyOf(a.s, a.s.alloc, at.p), a.s.alloc)
                    ELSE UpdateChild(CopyOf(a.s, a.s.alloc, at.p), Last(a.path), a.s.alloc)
    OBVIOUS
  <2>3. r = [s |-> both, path |-> longer]
    BY <1>8, <2>1, <2>2, Zenon DEF TouchLevel, CopyOf, RootSet
  <2>4. new = a.s.alloc
    BY <1>4, Zenon
  <2>5. copy = CopyOf(a.s, a.s.alloc, at.p)
    BY <1>4, <1>6, <2>4, Zenon
  <2>6. t = both
    BY <1>7, <2>2, <2>4, <2>5, Zenon
  <2>. QED  BY <2>2, <2>3, <2>6
<1>10. PICK next : next = AtCopy(cur, l, new)
  OBVIOUS
<1>11. LevelCopied(u, H, base, F, R2, N, cur, l, t, next)
  <2>1. Sound(u, H, base, lv2, F, R2) /\ Rooted(u, lv2, R2) /\ PathTo(u.pg, lv2, u.tree.root, N, cur)
    BY <1>2, <1>4, Zenon
  <2>2. CASE n = 0
    <3>1. t = RootSet(copy, new) /\ l = 1 /\ copy = CopyOf(u, new, cur[1].p) /\ next = AtCopy(cur, 1, new)
      BY <1>2, <1>4, <1>5, <1>6, <1>7, <1>10, <2>2
    <3>. QED  BY <1>4, <2>1, <3>1, RootTouched, Zenon
  <2>3. CASE n # 0
    <3>1. a.path # <<>> /\ Last(a.path) = a.path[n] /\ n \in 1 .. n /\ n = l - 1 /\ l \in 2 .. N
      <4>1. a.path \in Seq(Position) /\ Len(a.path) = n
        BY <1>2
      <4>2. a.path # <<>> /\ Last(a.path) = a.path[n]
        BY <2>3, <4>1 DEF Last
      <4>. QED  BY <1>4, <1>5, <2>3, <4>2
    <3>2. Last(a.path) = cur[l - 1] /\ cur[l - 1].p \in u.dirty
      BY <1>3, <1>4, <3>1
    <3>3. t = UpdateChild(copy, cur[l - 1], new) /\ copy = CopyOf(u, new, cur[l].p)
      BY <1>5, <1>6, <1>7, <3>1, <3>2, Zenon
    <3>. QED  BY <1>4, <1>10, <2>1, <3>1, <3>2, <3>3, ChildTouched, Zenon
  <2>. QED  BY <2>2, <2>3
<1>12. PICK lv3, R3 :
         /\ Sound(t, H, base, lv3, F, R3) /\ Rooted(t, lv3, R3) /\ R2 \subseteq R3
         /\ PathTo(t.pg, lv3, t.tree.root, N, next)
         /\ Carried(u, t) /\ next[l].p \in t.dirty
         /\ t.pg[next[N].p].ents = u.pg[cur[N].p].ents
  BY <1>11, Zenon DEF LevelCopied
<1>13. cur \in Seq(Position) /\ Len(cur) = N
  BY <1>2, Zenon DEF PathTo
<1>14. new \in Nat
  BY <1>2, <1>4 DEF Sound, Tree, Bounds
<1>16. e = [p |-> new, i |-> at.i] /\ e \in Position /\ e.i = at.i
  <2>1. e = [p |-> new, i |-> at.i]
    BY <1>4, <1>5, <1>8 DEF Position
  <2>. QED  BY <1>5, <1>14, <2>1 DEF Position
<1>17. next[l] = e /\ \A j \in 1 .. N : j # l => next[j] = cur[j]
  BY <1>5, <1>10, <1>13, <1>16 DEF AtCopy
<1>19. /\ r.path \in Seq(Position) /\ Len(r.path) = n + 1 /\ r.path[n + 1] = e
       /\ \A j \in 1 .. n : r.path[j] = a.path[j]
  BY <1>2, <1>16, <1>9, PathExtended
<1>20. \A j \in 1 .. (n + 1) : r.path[j] = next[j] /\ next[j].p \in r.s.dirty
  <2>. TAKE j \in 1 .. (n + 1)
  <2>1. CASE j = n + 1
    BY <1>4, <1>12, <1>17, <1>9, <1>19, <2>1
  <2>2. CASE j # n + 1
    <3>1. j \in 1 .. n /\ j \in 1 .. N /\ j # l
      BY <1>4, <2>2
    <3>2. r.path[j] = next[j] /\ next[j].p \in u.dirty
      BY <1>3, <1>4, <1>17, <1>19, <3>1
    <3>3. u.dirty \subseteq t.dirty
      BY <1>12 DEF Carried
    <3>. QED  BY <1>9, <3>2, <3>3
  <2>. QED  BY <2>1, <2>2
<1>21. \A j \in 1 .. N : next[j].i = path[j].i /\ (j > n + 1 => next[j] = path[j])
  <2>. TAKE j \in 1 .. N
  <2>1. CASE j = l
    BY <1>4, <1>16, <1>17, <2>1
  <2>2. CASE j # l
    BY <1>3, <1>17, <2>2
  <2>. QED  BY <2>1, <2>2
<1>22. Carried(s, t)
  BY <1>2, <1>4, <1>12, CarriedOn, Zenon
<1>23. R \subseteq R3 /\ t.pg[next[N].p].ents = s.pg[path[N].p].ents
  BY <1>2, <1>4, <1>12
<1>24. IsTouched(s, H, base, F, R, N, path, n + 1, r, lv3, R3, next)
  BY <1>12, <1>9, <1>19, <1>20, <1>21, <1>22, <1>23, Zenon DEF IsTouched
<1>. QED  BY <1>24, Zenon DEF Touched

\* upTo holds the results of the levels from the root.
IsTouching(s, path, m, upTo) ==
  upTo = [l \in 0 .. m |-> IF l = 0 THEN [s |-> s, path |-> <<>>]
                           ELSE TouchLevel(upTo[l - 1], path[l])]

\* The copying of a path's pages exists as a function of the levels done.
LEMMA TouchingExists ==
  ASSUME NEW s, NEW path, NEW N \in Nat
  PROVE  \E upTo : IsTouching(s, path, N, upTo)
<1>. DEFINE Done == {m \in Nat : \E upTo : IsTouching(s, path, m, upTo)}
<1>1. 0 \in Done
  <2>1. PICK upTo : upTo = [n \in 0 .. 0 |-> [s |-> s, path |-> <<>>]]
    OBVIOUS
  <2>2. IsTouching(s, path, 0, upTo)
    BY <2>1 DEF IsTouching
  <2>. QED  BY <2>2
<1>2. ASSUME NEW m \in 0 .. (N - 1), m \in Done PROVE m + 1 \in Done
  <2>1. PICK f : IsTouching(s, path, m, f)
    BY <1>2
  <2>2. PICK next : next = TouchLevel(f[m], path[m + 1])
    OBVIOUS
  <2>3. PICK g : g = [n \in 0 .. (m + 1) |-> IF n = m + 1 THEN next ELSE f[n]]
    OBVIOUS
  <2>4. \A n \in 0 .. m : f[n] = IF n = 0 THEN [s |-> s, path |-> <<>>]
                                 ELSE TouchLevel(f[n - 1], path[n])
    BY <2>1 DEF IsTouching
  <2>5. ASSUME NEW n \in 0 .. (m + 1)
        PROVE  g[n] = IF n = 0 THEN [s |-> s, path |-> <<>>] ELSE TouchLevel(g[n - 1], path[n])
    <3>1. CASE n = m + 1
      <4>1. g[n] = next /\ g[n - 1] = f[m] /\ n # 0
        BY <2>3, <3>1
      <4>. QED  BY <2>2, <3>1, <4>1
    <3>2. CASE n # m + 1
      <4>1. n \in 0 .. m /\ g[n] = f[n]
        BY <2>3, <3>2
      <4>2. n # 0 => g[n - 1] = f[n - 1]
        BY <2>3, <4>1
      <4>. QED  BY <2>4, <4>1, <4>2
    <3>. QED  BY <3>1, <3>2
  <2>6. IsTouching(s, path, m + 1, g)
    BY <2>3, <2>5 DEF IsTouching
  <2>. QED  BY <2>6
<1>. HIDE DEF Done
<1>3. N \in Done
  BY <1>1, <1>2, UpTo
<1>. QED  BY <1>3 DEF Done

\* Touch takes the last of them.
Touching(s, path, N, upTo, t) == IsTouching(s, path, N, upTo) /\ t = upTo[N]

\* Touch is that function's last value.
LEMMA TouchTouches ==
  ASSUME NEW s, NEW path, Len(path) \in Nat, NEW t, t = Touch(s, path)
  PROVE  \E upTo : Touching(s, path, Len(path), upTo, t)
<1>. DEFINE N == Len(path)
            upTo[l \in 0 .. N] ==
              IF l = 0 THEN [s |-> s, path |-> <<>>] ELSE TouchLevel(upTo[l - 1], path[l])
<1>1. \E f : f = [l \in 0 .. N |-> IF l = 0 THEN [s |-> s, path |-> <<>>]
                                   ELSE TouchLevel(f[l - 1], path[l])]
  <2>1. \E f : IsTouching(s, path, N, f)
    BY TouchingExists
  <2>. QED  BY <2>1, Zenon DEF IsTouching
<1>2. upTo = [l \in 0 .. N |-> IF l = 0 THEN [s |-> s, path |-> <<>>]
                               ELSE TouchLevel(upTo[l - 1], path[l])]
  BY <1>1, Zenon
<1>3. t = upTo[N]
  BY Zenon DEF Touch
<1>4. IsTouching(s, path, N, upTo)
  BY <1>2, Zenon DEF IsTouching
<1>5. PICK f : f = upTo
  OBVIOUS
<1>. HIDE DEF upTo
<1>6. Touching(s, path, N, f, t)
  BY <1>3, <1>4, <1>5, Zenon DEF Touching
<1>. QED  BY <1>6

\* What touchPageAt for all the pages of a path leaves: all of them dirty,
\* and the leaf's entries and the place in it as they were.
IsCopyOf(s, H, base, F, R, path, u, upath, lv, R2) ==
  /\ Sound(u, H, base, lv, F, R2) /\ Rooted(u, lv, R2) /\ R \subseteq R2
  /\ OnPath(u.pg, lv, u.tree.root, upath)
  /\ \A l \in 1 .. Len(upath) : upath[l].p \in u.dirty
  /\ Carried(s, u)
  /\ Len(upath) = Len(path)
  /\ Last(upath).i = Last(path).i /\ u.pg[Last(upath).p].ents = s.pg[Last(path).p].ents

(***************************************************************************)
(* Theorem.  touchPage copies each page of the path that is not dirty yet  *)
(* and points its parent to the copy.  What comes out is a sound tree of   *)
(* the same height and a path in it of dirty pages only, with the same     *)
(* nodes in the leaf; no page to be spared (H) was written.                *)
(***************************************************************************)
THEOREM PathTouched ==
  ASSUME NEW s, NEW H, NEW base, NEW lv, NEW F, NEW R, Sound(s, H, base, lv, F, R),
         Rooted(s, lv, R), NEW path, OnPath(s.pg, lv, s.tree.root, path),
         NEW t, t = Touch(s, path)
  PROVE  \E lv2, R2 : IsCopyOf(s, H, base, F, R, path, t.s, t.path, lv2, R2)
<1>1. PICK N : N = Len(path)
  OBVIOUS
<1>2. path \in Seq(Position) /\ N \in Nat
  BY <1>1, PathIsSeq, Zenon
<1>3. PathTo(s.pg, lv, s.tree.root, N, path)
  <2>1. PICK pg, root : pg = s.pg /\ root = s.tree.root
    OBVIOUS
  <2>2. OnPath(pg, lv, root, path)
    BY <2>1, Zenon
  <2>3. PathTo(pg, lv, root, N, path)
    BY <1>1, <2>2, PathToLeaf, Zenon
  <2>. QED  BY <2>1, <2>3, Zenon
<1>4. PICK upTo : IsTouching(s, path, N, upTo) /\ t = upTo[N]
  <2>1. Len(path) \in Nat
    BY <1>1, <1>2
  <2>2. \E upTo : Touching(s, path, Len(path), upTo, t)
    BY <2>1, TouchTouches, Zenon
  <2>3. \E upTo : Touching(s, path, N, upTo, t)
    BY <1>1, <2>2
  <2>. QED  BY <2>3, Zenon DEF Touching
<1>5. s.alloc \in Nat
  BY DEF Sound, Tree, Bounds
<1>. DEFINE Done == {m \in 0 .. N : Touched(s, H, base, F, R, N, path, m, upTo[m])}
<1>6. 0 \in Done
  <2>1. PICK a : a = upTo[0]
    OBVIOUS
  <2>2. a = [s |-> s, path |-> <<>>]
    BY <1>2, <1>4, <2>1 DEF IsTouching
  <2>3. a.s = s /\ a.path = <<>> /\ a = [s |-> a.s, path |-> a.path]
    BY <2>2
  <2>4. a.path \in Seq(Position) /\ Len(a.path) = 0
    BY <2>3
  <2>5. Carried(s, s)
    BY <1>5 DEF Carried
  <2>6. \A j \in 1 .. 0 : a.path[j] = path[j] /\ path[j].p \in a.s.dirty
    OBVIOUS
  <2>7. \A j \in 1 .. N : path[j].i = path[j].i /\ (j > 0 => path[j] = path[j])
    OBVIOUS
  <2>8. a.s.pg[path[N].p].ents = s.pg[path[N].p].ents /\ R \subseteq R
    BY <2>3
  <2>9. IsTouched(s, H, base, F, R, N, path, 0, a, lv, R, path)
    BY <1>3, <2>3, <2>4, <2>5, <2>6, <2>7, <2>8, Zenon DEF IsTouched
  <2>10. Touched(s, H, base, F, R, N, path, 0, a)
    BY <2>9, Zenon DEF Touched
  <2>. QED  BY <1>2, <2>1, <2>10
<1>7. ASSUME NEW n \in 0 .. (N - 1), n \in Done PROVE n + 1 \in Done
  <2>1. PICK a, r, m : a = upTo[n] /\ r = upTo[m] /\ m = n + 1
    OBVIOUS
  <2>2. Touched(s, H, base, F, R, N, path, n, a)
    BY <1>7, <2>1
  <2>3. m \in 0 .. N /\ m # 0 /\ m - 1 = n
    BY <1>2, <2>1
  <2>4. r = TouchLevel(a, path[m])
    BY <1>4, <2>1, <2>3 DEF IsTouching
  <2>5. Touched(s, H, base, F, R, N, path, n + 1, r)
    <3>1. r = TouchLevel(a, path[n + 1]) /\ Len(path) = N
      BY <1>1, <2>1, <2>4
    <3>2. CASE path[n + 1].p \in a.s.dirty
      BY <1>2, <2>2, <3>1, <3>2, DirtyTouched, Zenon
    <3>3. CASE path[n + 1].p \notin a.s.dirty
      BY <1>2, <1>5, <2>2, <3>1, <3>3, CopyTouched, Zenon
    <3>. QED  BY <3>2, <3>3
  <2>. QED  BY <2>1, <2>3, <2>5
<1>8. N \in Done
  <2>. HIDE DEF Done
  <2>1. N \in 0 .. N
    BY <1>2
  <2>2. \A n \in 0 .. (N - 1) : n \in Done => n + 1 \in Done
    BY <1>7
  <2>. QED  BY <1>2, <1>6, <2>1, <2>2, UpTo, Zenon
<1>9. Touched(s, H, base, F, R, N, path, N, t)
  BY <1>4, <1>8
<1>10. PICK lv2, R2, cur : IsTouched(s, H, base, F, R, N, path, N, t, lv2, R2, cur)
  BY <1>9, Zenon DEF Touched
<1>11. /\ Sound(t.s, H, base, lv2, F, R2) /\ Rooted(t.s, lv2, R2) /\ R \subseteq R2
       /\ PathTo(t.s.pg, lv2, t.s.tree.root, N, cur)
       /\ Carried(s, t.s)
       /\ t.path \in Seq(Position) /\ Len(t.path) = N
       /\ \A j \in 1 .. N : t.path[j] = cur[j] /\ cur[j].p \in t.s.dirty
       /\ \A j \in 1 .. N : cur[j].i = path[j].i /\ (j > N => cur[j] = path[j])
       /\ t.s.pg[cur[N].p].ents = s.pg[path[N].p].ents
  BY <1>10, Zenon DEF IsTouched
<1>12. cur \in Seq(Position) /\ Len(cur) = N /\ N # 0
  BY <1>11, Zenon DEF PathTo
<1>13. t.path = cur
  BY <1>11, <1>12
<1>14. OnPath(t.s.pg, lv2, t.s.tree.root, t.path)
  BY <1>11, <1>12, <1>13, PathToLeaf, Zenon
<1>15. N \in 1 .. N /\ Last(t.path) = cur[N] /\ Last(path) = path[N]
  BY <1>1, <1>2, <1>12, <1>13 DEF Last
<1>16. /\ Last(t.path).i = Last(path).i
       /\ t.s.pg[Last(t.path).p].ents = s.pg[Last(path).p].ents
  BY <1>11, <1>15
<1>17. Len(t.path) = Len(path) /\ \A l \in 1 .. Len(t.path) : t.path[l].p \in t.s.dirty
  BY <1>1, <1>11
<1>. QED  BY <1>11, <1>14, <1>16, <1>17, Zenon DEF IsCopyOf
==============================================================================
