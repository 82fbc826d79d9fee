-------------------------- MODULE DirtyPagesProofs --------------------------
(***************************************************************************)
(* Proofs about DirtyPages, for any number of transactions and calls and   *)
(* any sizes of tables, bitmaps and segments.  From the bottom up: what    *)
(* the hash table and the spill buffer do to their content, what a new     *)
(* place does to one page and to the others, what each call does, and two  *)
(* invariants:                                                             *)
(*                                                                         *)
(*   Tracked  the tracker has the last place of every page, and commit     *)
(*            can tell from the transaction object that it must be written *)
(*   Owned    the slots transactions have are taken, and have one owner    *)
(*                                                                         *)
(* Tracked holds always, Owned as long as the buffer has no more segments  *)
(* than the two indices of a Slot can name.                                *)
(***************************************************************************)
EXTENDS DirtyPages, FiniteSetTheorems, WellFoundedInduction, NaturalsInduction, TLAPS

------------------------------------------------------------------------------
(* Numbers                                                                 *)

\* A non-empty set of numbers has a least one.
LEMMA LeastOf ==
  ASSUME NEW T \in SUBSET Nat, T # {}
  PROVE  \E x \in T : \A y \in T : x <= y
<1>1. PICK x \in T : \A y \in T : <<y, x>> \notin OpToRel(<, Nat)
  BY NatLessThanWellFounded, WFMin
<1>2. \A y \in T : <<y, x>> \in Nat \X Nat
  OBVIOUS
<1>3. \A y \in T : ~(y < x)
  BY <1>1, <1>2 DEF OpToRel
<1>. QED  BY <1>3

\* Min is that one.
LEMMA MinOf ==
  ASSUME NEW T \in SUBSET Nat, T # {}
  PROVE  Min(T) \in T /\ \A y \in T : Min(T) <= y
<1>1. \E x \in T : \A y \in T : x <= y
  BY LeastOf
<1>. QED  BY <1>1 DEF Min

\* What holds of 0 and of each number's successor holds up to N.
LEMMA UpTo ==
  ASSUME NEW N \in Nat, NEW S, 0 \in S, \A n \in 0 .. (N - 1) : n \in S => n + 1 \in S
  PROVE  \A n \in 0 .. N : n \in S
<1>. DEFINE Bad == {n \in 0 .. N : n \notin S}
<1>. SUFFICES ASSUME Bad # {} PROVE FALSE
  OBVIOUS
<1>1. PICK m \in Bad : \A n \in Bad : m <= n
  <2>1. Bad \in SUBSET Nat
    OBVIOUS
  <2>. QED  BY <2>1, LeastOf
<1>2. m - 1 \in 0 .. (N - 1) /\ m - 1 \in S
  BY <1>1
<1>3. m - 1 + 1 = m
  OBVIOUS
<1>. QED  BY <1>2, <1>3

\* Once round a circle of n places.
LEMMA Round ==
  ASSUME NEW n \in Nat \ {0}, NEW x \in 0 .. (n - 1)
  PROVE  x % n = x /\ (x + n) % n = x
  OBVIOUS

\* From any place on a circle every other one is reached.
LEMMA RoundTo ==
  ASSUME NEW n \in Nat \ {0}, NEW h \in 0 .. (n - 1), NEW i \in 0 .. (n - 1)
  PROVE  \E d \in 0 .. (n - 1) : (h + d) % n = i
<1>1. CASE i >= h
  <2>1. i - h \in 0 .. (n - 1) /\ h + (i - h) = i
    BY <1>1
  <2>. QED  BY <2>1, Round
<1>2. CASE i < h
  <2>1. i - h + n \in 0 .. (n - 1) /\ h + (i - h + n) = i + n
    BY <1>2
  <2>. QED  BY <2>1, Round
<1>. QED  BY <1>1, <1>2

------------------------------------------------------------------------------
(* The hash table                                                          *)

Bucket(m, key, d) == (Hash(m, key) + d) % m.size

\* A probe for the key stops at bucket i.
Stops(m, key, i) == m.at[i] = Unused \/ m.at[i].key = key

\* Bucket i is the first one a probe for the key stops at.
IsStop(m, key, i) ==
  \E d \in 0 .. (m.size - 1) :
    /\ i = Bucket(m, key, d) /\ Stops(m, key, i)
    /\ \A c \in 0 .. (d - 1) : ~Stops(m, key, Bucket(m, key, c))

\* There are buckets, and one of them is unused.
HasRoom(m) == m.size \in Nat \ {0} /\ \E i \in 0 .. (m.size - 1) : m.at[i] = Unused

\* A key's hash is a bucket of the table (Uint32Map.hash and its mask).
LEMMA HashInRange ==
  ASSUME NEW m, m.size \in Nat \ {0}, NEW key \in Nat
  PROVE  Hash(m, key) \in 0 .. (m.size - 1)
<1>1. PICK n \in Nat \ {0} : n = m.size
  OBVIOUS
<1>2. PICK x \in Nat : x = key * FibHashLow
  BY DEF FibHashLow
<1>3. x % n \in 0 .. (n - 1)
  OBVIOUS
<1>. QED  BY <1>1, <1>2, <1>3 DEF Hash

\* A probe goes through the buckets only.
LEMMA BucketInRange ==
  ASSUME NEW m, m.size \in Nat \ {0}, NEW key \in Nat, NEW d \in Nat
  PROVE  Bucket(m, key, d) \in 0 .. (m.size - 1)
<1>1. PICK n \in Nat \ {0} : n = m.size
  OBVIOUS
<1>2. PICK h \in 0 .. (n - 1) : h = Hash(m, key)
  BY <1>1, HashInRange
<1>3. (h + d) % n \in 0 .. (n - 1)
  OBVIOUS
<1>. QED  BY <1>1, <1>2, <1>3 DEF Bucket

\* And through all of them.
LEMMA BucketReached ==
  ASSUME NEW m, m.size \in Nat \ {0}, NEW key \in Nat, NEW i \in 0 .. (m.size - 1)
  PROVE  \E d \in 0 .. (m.size - 1) : Bucket(m, key, d) = i
<1>1. PICK n \in Nat \ {0} : n = m.size
  OBVIOUS
<1>2. PICK h \in 0 .. (n - 1) : h = Hash(m, key)
  BY <1>1, HashInRange
<1>3. i \in 0 .. (n - 1)
  BY <1>1
<1>4. \E d \in 0 .. (n - 1) : (h + d) % n = i
  BY <1>3, RoundTo, Zenon
<1>. QED  BY <1>1, <1>2, <1>4, Zenon DEF Bucket

\* With an unused bucket a probe stops, at ProbeStop.
LEMMA ProbeStops ==
  ASSUME NEW m, HasRoom(m), NEW key \in Nat
  PROVE  /\ IsStop(m, key, ProbeStop(m, key))
         /\ ProbeStop(m, key) \in 0 .. (m.size - 1)
<1>1. PICK free \in 0 .. (m.size - 1) : m.at[free] = Unused
  BY DEF HasRoom
<1>2. m.size \in Nat \ {0}
  BY DEF HasRoom
<1>3. PICK e \in 0 .. (m.size - 1) : Bucket(m, key, e) = free
  BY <1>2, BucketReached
<1>4. PICK T : T = {d \in 0 .. (m.size - 1) : Stops(m, key, Bucket(m, key, d))}
  OBVIOUS
<1>5. e \in T
  BY <1>1, <1>3, <1>4, Zenon DEF Stops
<1>6. T \in SUBSET Nat
  BY <1>2, <1>4
<1>7. PICK d : d = Min(T)
  OBVIOUS
<1>8. d \in T /\ \A c \in T : d <= c
  BY <1>5, <1>6, <1>7, MinOf
<1>9. ProbeStop(m, key) = Bucket(m, key, d)
  BY <1>4, <1>7, Zenon DEF ProbeStop, Stops, Bucket
<1>10. d \in 0 .. (m.size - 1) /\ Stops(m, key, Bucket(m, key, d))
  BY <1>4, <1>8
<1>11. \A c \in 0 .. (d - 1) : ~Stops(m, key, Bucket(m, key, c))
  <2>. TAKE c \in 0 .. (d - 1)
  <2>1. c \in 0 .. (m.size - 1) /\ c \notin T
    BY <1>2, <1>8, <1>10
  <2>. QED  BY <1>4, <2>1
<1>12. Bucket(m, key, d) \in 0 .. (m.size - 1)
  BY <1>2, <1>10, BucketInRange
<1>13. IsStop(m, key, ProbeStop(m, key))
  BY <1>9, <1>10, <1>11 DEF IsStop
<1>. QED  BY <1>9, <1>12, <1>13

\* There is one such bucket.
LEMMA OneStop ==
  ASSUME NEW m, m.size \in Nat, NEW key, NEW i, NEW j, IsStop(m, key, i), IsStop(m, key, j)
  PROVE  i = j
<1>1. PICK d \in 0 .. (m.size - 1) :
        /\ i = Bucket(m, key, d) /\ Stops(m, key, i)
        /\ \A c \in 0 .. (d - 1) : ~Stops(m, key, Bucket(m, key, c))
  BY Zenon DEF IsStop
<1>2. PICK e \in 0 .. (m.size - 1) :
        /\ j = Bucket(m, key, e) /\ Stops(m, key, j)
        /\ \A c \in 0 .. (e - 1) : ~Stops(m, key, Bucket(m, key, c))
  BY Zenon DEF IsStop
<1>3. ~(d < e)
  BY <1>1, <1>2
<1>4. ~(e < d)
  BY <1>1, <1>2
<1>5. d = e
  BY <1>3, <1>4
<1>. QED  BY <1>1, <1>2, <1>5

UsedIn(m) == {i \in 0 .. (m.size - 1) : m.at[i] # Unused}

\* What Set keeps: a probe for a key that is in the table stops at it, the
\* count is right, and there is always an unused bucket.
IsTable(m) ==
  /\ m = [size |-> m.size, count |-> m.count, at |-> m.at]
  /\ m.size \in Nat /\ m.size # 1 /\ DOMAIN m.at = 0 .. (m.size - 1)
  /\ \A i \in UsedIn(m) : /\ m.at[i] = [key |-> m.at[i].key, val |-> m.at[i].val]
                          /\ m.at[i].key \in Nat
                          /\ IsStop(m, m.at[i].key, i)
  /\ m.count = Cardinality(UsedIn(m))
  /\ m.size # 0 => m.count < m.size

Keys(m)    == {m.at[i].key : i \in UsedIn(m)}
Content(m) == [k \in Keys(m) |-> Get(m, k)]

\* The used buckets can be counted.
LEMMA UsedIsFinite ==
  ASSUME NEW m, m.size \in Nat
  PROVE  /\ IsFiniteSet(UsedIn(m))
         /\ Cardinality(UsedIn(m)) \in Nat
<1>1. IsFiniteSet(0 .. (m.size - 1)) /\ UsedIn(m) \in SUBSET (0 .. (m.size - 1))
  BY FS_Interval DEF UsedIn
<1>2. IsFiniteSet(UsedIn(m))
  BY <1>1, FS_Subset
<1>. QED  BY <1>2, FS_CardinalityType

\* A table with a right count below its size has room.
LEMMA TableHasRoom ==
  ASSUME NEW m, IsTable(m), m.size # 0
  PROVE  HasRoom(m)
<1>1. PICK n \in Nat \ {0} : n = m.size
  BY DEF IsTable
<1>2. SUFFICES ASSUME \A i \in 0 .. (n - 1) : m.at[i] # Unused PROVE FALSE
  BY <1>1 DEF HasRoom
<1>3. UsedIn(m) = 0 .. (n - 1)
  BY <1>1, <1>2 DEF UsedIn
<1>4. Cardinality(0 .. (n - 1)) = n
  BY FS_Interval
<1>. QED  BY <1>1, <1>3, <1>4 DEF IsTable

\* In a table Get finds a key's bucket, and nothing for another key.
LEMMA GetFinds ==
  ASSUME NEW m, IsTable(m)
  PROVE  /\ \A i \in UsedIn(m) : Get(m, m.at[i].key) = m.at[i].val
         /\ \A k \in Nat \ Keys(m) : Get(m, k) = Unused
         /\ \A i, j \in UsedIn(m) : m.at[i].key = m.at[j].key => i = j
<1>1. m.size \in Nat
  BY DEF IsTable
<1>2. ASSUME NEW i \in UsedIn(m) PROVE Get(m, m.at[i].key) = m.at[i].val
  <2>1. i \in 0 .. (m.size - 1) /\ m.at[i] # Unused
    BY DEF UsedIn
  <2>2. PICK k \in Nat : k = m.at[i].key /\ IsStop(m, k, i)
    BY DEF IsTable
  <2>3. m.size # 0
    BY <1>1, <2>1
  <2>4. ProbeStop(m, k) = i
    BY <1>1, <2>2, <2>3, TableHasRoom, ProbeStops, OneStop
  <2>. QED  BY <2>1, <2>2, <2>3, <2>4 DEF Get
<1>3. ASSUME NEW k \in Nat \ Keys(m) PROVE Get(m, k) = Unused
  <2>1. CASE m.size = 0
    BY <2>1 DEF Get
  <2>2. CASE m.size # 0
    <3>1. PICK i : i = ProbeStop(m, k)
      OBVIOUS
    <3>2. IsStop(m, k, i) /\ i \in 0 .. (m.size - 1)
      BY <2>2, <3>1, TableHasRoom, ProbeStops
    <3>3. m.at[i] = Unused \/ m.at[i].key = k
      BY <3>2, Zenon DEF IsStop, Stops
    <3>4. m.at[i] = Unused
      BY <3>2, <3>3 DEF Keys, UsedIn
    <3>. QED  BY <2>2, <3>1, <3>4 DEF Get
  <2>. QED  BY <2>1, <2>2
<1>4. ASSUME NEW i \in UsedIn(m), NEW j \in UsedIn(m), m.at[i].key = m.at[j].key PROVE i = j
  <2>1. IsStop(m, m.at[i].key, i) /\ IsStop(m, m.at[i].key, j)
    BY <1>4, Zenon DEF IsTable
  <2>. QED  BY <1>1, <2>1, OneStop
<1>. QED  BY <1>2, <1>3, <1>4

\* One key has another value in t than in m, or is new.
IsPut(m, key, val, t) ==
  /\ IsTable(t)
  /\ Keys(t) = Keys(m) \cup {key}
  /\ Get(t, key) = val
  /\ \A k \in Keys(m) \ {key} : Get(t, k) = Get(m, k)

IsInserted(m, key, val, t) ==
  IsPut(m, key, val, t) /\ t.size = m.size /\ t.count <= m.count + 1

\* Set's last part, in a table that has room: one bucket is written, and
\* the probes for the other keys end where they did.
LEMMA Inserts ==
  ASSUME NEW m, IsTable(m), m.size # 0, m.count + 1 < m.size, NEW key \in Nat, NEW val,
         [key |-> key, val |-> val] # Unused, NEW t, t = Insert(m, key, val)
  PROVE  IsInserted(m, key, val, t)
<1>1. PICK n \in Nat \ {0, 1} : n = m.size
  BY DEF IsTable
<1>2. PICK i : i = ProbeStop(m, key)
  OBVIOUS
<1>3. IsStop(m, key, i) /\ i \in 0 .. (n - 1)
  BY <1>1, <1>2, TableHasRoom, ProbeStops
<1>4. PICK entry : entry = [key |-> key, val |-> val]
  OBVIOUS
<1>5. PICK at : at = [m.at EXCEPT ![i] = entry]
  OBVIOUS
<1>6. /\ DOMAIN at = 0 .. (n - 1) /\ at[i] = entry
      /\ \A j \in 0 .. (n - 1) : j # i => at[j] = m.at[j]
  BY <1>1, <1>3, <1>5 DEF IsTable
<1>7. PICK count : count = IF m.at[i] = Unused THEN m.count + 1 ELSE m.count
  OBVIOUS
<1>8. t = [size |-> n, count |-> count, at |-> at]
  <2>1. m = [size |-> m.size, count |-> m.count, at |-> m.at]
    BY DEF IsTable
  <2>2. t = [m EXCEPT !.count = IF m.at[i] = Unused THEN @ + 1 ELSE @, !.at[i] = entry]
    BY <1>2, <1>4, Zenon DEF Insert
  <2>3. t = [m EXCEPT !.count = count, !.at = at]
    BY <1>5, <1>7, <2>2
  <2>. QED  BY <1>1, <2>1, <2>3
<1>9. t.size = n /\ t.count = count /\ t.at = at
  BY <1>8
<1>10. UsedIn(t) = UsedIn(m) \cup {i}
  <2>1. entry # Unused
    BY <1>4
  <2>. QED  BY <1>1, <1>3, <1>6, <1>9, <2>1 DEF UsedIn
<1>11. /\ IsFiniteSet(UsedIn(m)) /\ m.count = Cardinality(UsedIn(m)) /\ m.count \in Nat
  BY <1>1, UsedIsFinite DEF IsTable
<1>12. count = Cardinality(UsedIn(t)) /\ count \in Nat /\ count <= m.count + 1
  <2>1. i \in UsedIn(m) <=> m.at[i] # Unused
    BY <1>1, <1>3 DEF UsedIn
  <2>2. Cardinality(UsedIn(m) \cup {i}) = IF i \in UsedIn(m) THEN m.count ELSE m.count + 1
    BY <1>11, FS_AddElement
  <2>. QED  BY <1>7, <1>10, <1>11, <2>1, <2>2
<1>13. \A k, d : Bucket(t, k, d) = Bucket(m, k, d)
  BY <1>1, <1>9, Zenon DEF Bucket, Hash
<1>14. m.at[i] = Unused \/ m.at[i].key = key
  BY <1>3, Zenon DEF IsStop, Stops
<1>15. ASSUME NEW j \in UsedIn(m), j # i
       PROVE  /\ t.at[j] = m.at[j] /\ t.at[j] = [key |-> t.at[j].key, val |-> t.at[j].val]
              /\ t.at[j].key \in Nat /\ t.at[j].key # key /\ IsStop(t, t.at[j].key, j)
  <2>1. j \in 0 .. (n - 1) /\ m.at[j] # Unused
    BY <1>1 DEF UsedIn
  <2>2. t.at[j] = m.at[j]
    BY <1>6, <1>9, <1>15, <2>1
  <2>3. PICK k : k = m.at[j].key
    OBVIOUS
  <2>4. m.at[j] = [key |-> k, val |-> m.at[j].val] /\ k \in Nat /\ IsStop(m, k, j)
    BY <2>3 DEF IsTable
  <2>5. k # key
    <3>1. SUFFICES ASSUME k = key PROVE FALSE
      OBVIOUS
    <3>. QED  BY <1>1, <1>3, <1>15, <2>4, <3>1, OneStop
  <2>6. PICK d \in 0 .. (n - 1) : /\ j = Bucket(m, k, d)
                                  /\ \A c \in 0 .. (d - 1) : ~Stops(m, k, Bucket(m, k, c))
    BY <1>1, <2>4, Zenon DEF IsStop
  <2>7. ASSUME NEW c \in 0 .. (d - 1) PROVE ~Stops(t, k, Bucket(t, k, c))
    <3>1. PICK b : b = Bucket(m, k, c)
      OBVIOUS
    <3>2. c \in Nat
      BY <2>6
    <3>3. b \in 0 .. (n - 1)
      BY <1>1, <2>4, <3>1, <3>2, BucketInRange
    <3>4. m.at[b] # Unused /\ m.at[b].key # k
      BY <2>6, <3>1, Zenon DEF Stops
    <3>5. CASE b = i
      <4>1. t.at[b] = entry
        BY <1>6, <1>9, <3>5
      <4>2. entry # Unused /\ entry.key # k
        BY <1>4, <2>5
      <4>. QED  BY <1>13, <3>1, <4>1, <4>2, Zenon DEF Stops
    <3>6. CASE b # i
      <4>1. t.at[b] = m.at[b]
        BY <1>6, <1>9, <3>3, <3>6
      <4>. QED  BY <1>13, <3>1, <3>4, <4>1, Zenon DEF Stops
    <3>. QED  BY <3>5, <3>6
  <2>8. Stops(t, k, j)
    BY <2>2, <2>3, Zenon DEF Stops
  <2>9. IsStop(t, k, j)
    BY <1>1, <1>9, <1>13, <2>6, <2>7, <2>8, Zenon DEF IsStop
  <2>. QED  BY <2>2, <2>3, <2>4, <2>5, <2>9
<1>16. /\ t.at[i] = [key |-> t.at[i].key, val |-> t.at[i].val]
       /\ t.at[i].key = key /\ t.at[i].val = val /\ IsStop(t, key, i)
  <2>1. t.at[i] = entry
    BY <1>6, <1>9
  <2>2. entry.key = key /\ entry.val = val /\ entry = [key |-> entry.key, val |-> entry.val]
    BY <1>4
  <2>3. PICK d \in 0 .. (n - 1) : /\ i = Bucket(m, key, d)
                                  /\ \A c \in 0 .. (d - 1) : ~Stops(m, key, Bucket(m, key, c))
    BY <1>1, <1>3, Zenon DEF IsStop
  <2>4. ASSUME NEW c \in 0 .. (d - 1) PROVE ~Stops(t, key, Bucket(t, key, c))
    <3>1. PICK b : b = Bucket(m, key, c)
      OBVIOUS
    <3>2. c \in Nat
      BY <2>3
    <3>3. b \in 0 .. (n - 1)
      BY <1>1, <3>1, <3>2, BucketInRange
    <3>4. m.at[b] # Unused /\ m.at[b].key # key
      BY <2>3, <3>1, Zenon DEF Stops
    <3>5. b # i
      BY <1>14, <3>4
    <3>6. t.at[b] = m.at[b]
      BY <1>6, <1>9, <3>3, <3>5
    <3>. QED  BY <1>13, <3>1, <3>4, <3>6, Zenon DEF Stops
  <2>5. Stops(t, key, i)
    BY <2>1, <2>2, Zenon DEF Stops
  <2>6. IsStop(t, key, i)
    BY <1>1, <1>9, <1>13, <2>3, <2>4, <2>5, Zenon DEF IsStop
  <2>. QED  BY <2>1, <2>2, <2>6
<1>17. IsTable(t)
  <2>1. t = [size |-> t.size, count |-> t.count, at |-> t.at]
    BY <1>8, <1>9
  <2>2. \A j \in UsedIn(t) : /\ t.at[j] = [key |-> t.at[j].key, val |-> t.at[j].val]
                             /\ t.at[j].key \in Nat
                             /\ IsStop(t, t.at[j].key, j)
    BY <1>10, <1>15, <1>16
  <2>3. t.count < t.size
    BY <1>1, <1>9, <1>11, <1>12
  <2>. QED  BY <1>1, <1>6, <1>9, <1>12, <2>1, <2>2, <2>3 DEF IsTable
<1>18. Keys(t) = Keys(m) \cup {key}
  <2>1. \A j \in UsedIn(m) : j # i => t.at[j].key = m.at[j].key
    BY <1>15
  <2>2. i \in UsedIn(m) => m.at[i].key = key
    BY <1>14 DEF UsedIn
  <2>. QED  BY <1>10, <1>16, <2>1, <2>2 DEF Keys
<1>19. Get(t, key) = val
  BY <1>10, <1>16, <1>17, GetFinds
<1>20. ASSUME NEW k \in Keys(m) \ {key} PROVE Get(t, k) = Get(m, k)
  <2>1. PICK j \in UsedIn(m) : k = m.at[j].key
    BY DEF Keys
  <2>2. j # i
    BY <1>14, <2>1 DEF UsedIn
  <2>3. t.at[j] = m.at[j] /\ j \in UsedIn(t)
    BY <1>10, <1>15, <2>2
  <2>. QED  BY <1>17, <2>1, <2>3, GetFinds
<1>. QED  BY <1>1, <1>9, <1>12, <1>17, <1>18, <1>19, <1>20 DEF IsInserted, IsPut

IsEmptyTable(m) == IsTable(m) /\ m.count = 0 /\ Keys(m) = {}

\* The tables of grow, Clear and the first Set.
LEMMA EmptyTables ==
  ASSUME NEW n \in Nat, n # 1, NEW m, m = Buckets(n)
  PROVE  IsEmptyTable(m) /\ m.size = n
<1>1. m = [size |-> n, count |-> 0, at |-> [i \in 0 .. n - 1 |-> Unused]]
  BY DEF Buckets
<1>2. m.size = n /\ m.count = 0 /\ m.at = [i \in 0 .. n - 1 |-> Unused]
  BY <1>1
<1>3. UsedIn(m) = {}
  BY <1>2 DEF UsedIn
<1>4. Keys(m) = {}
  BY <1>3 DEF Keys
<1>5. m = [size |-> m.size, count |-> m.count, at |-> m.at]
  BY <1>1, <1>2
<1>6. IsTable(m)
  BY <1>2, <1>3, <1>5, FS_EmptySet DEF IsTable
<1>. QED  BY <1>2, <1>4, <1>6 DEF IsEmptyTable

\* The table of a new map, before the first Set.
LEMMA NoBucketsIsEmpty == IsEmptyTable(NoBuckets)
<1>1. PICK m : m = NoBuckets
  OBVIOUS
<1>2. m.size = 0 /\ m.count = 0 /\ m.at = <<>> /\ DOMAIN m.at = {}
  BY <1>1 DEF NoBuckets
<1>3. UsedIn(m) = {}
  BY <1>2 DEF UsedIn
<1>4. m = [size |-> m.size, count |-> m.count, at |-> m.at]
  BY <1>1, <1>2 DEF NoBuckets
<1>5. IsTable(m)
  BY <1>2, <1>3, <1>4, FS_EmptySet DEF IsTable
<1>6. Keys(m) = {}
  BY <1>3 DEF Keys
<1>. QED  BY <1>1, <1>2, <1>5, <1>6 DEF IsEmptyTable

\* Uint32Map.Clear leaves no key, in a table of the same size.
LEMMA Clears ==
  ASSUME NEW m, IsTable(m), NEW t, t = Clear(m)
  PROVE  IsEmptyTable(t)
<1>1. m.size \in Nat /\ m.size # 1
  BY DEF IsTable
<1>2. CASE m.size # 0
  BY <1>1, <1>2, EmptyTables DEF Clear
<1>3. CASE m.size = 0
  <2>1. UsedIn(m) = {}
    BY <1>3 DEF UsedIn
  <2>2. m.count = 0
    BY <2>1, FS_EmptySet DEF IsTable
  <2>3. Keys(m) = {}
    BY <2>1 DEF Keys
  <2>. QED  BY <1>3, <2>2, <2>3 DEF Clear, IsEmptyTable
<1>. QED  BY <1>2, <1>3

\* An empty table is one whose count is zero.
LEMMA CountsKeys ==
  ASSUME NEW m, IsTable(m), m.count = 0
  PROVE  Keys(m) = {}
<1>1. UsedIn(m) = {}
  BY UsedIsFinite, FS_EmptySet DEF IsTable
<1>. QED  BY <1>1 DEF Keys

\* The first n buckets have been inserted in a table of twice the size.
IsGrown(m, n, f) ==
  f = [j \in 0 .. n |->
         IF j = 0 THEN Buckets(2 * m.size)
         ELSE IF m.at[j - 1] = Unused THEN f[j - 1]
         ELSE Insert(f[j - 1], m.at[j - 1].key, m.at[j - 1].val)]

\* The loop of grow gives a table for each number of buckets it has done.
LEMMA GrownExists ==
  ASSUME NEW m, NEW N \in Nat
  PROVE  \E f : IsGrown(m, N, f)
<1>. DEFINE Done == {n \in Nat : \E f : IsGrown(m, n, f)}
<1>1. 0 \in Done
  <2>1. PICK f : f = [j \in 0 .. 0 |-> Buckets(2 * m.size)]
    OBVIOUS
  <2>2. IsGrown(m, 0, f)
    BY <2>1 DEF IsGrown
  <2>. QED  BY <2>2
<1>2. ASSUME NEW n \in 0 .. (N - 1), n \in Done PROVE n + 1 \in Done
  <2>1. PICK f : IsGrown(m, n, f)
    BY <1>2
  <2>2. PICK new : new = IF m.at[n] = Unused THEN f[n]
                           ELSE Insert(f[n], m.at[n].key, m.at[n].val)
    OBVIOUS
  <2>3. PICK g : g = [j \in 0 .. (n + 1) |-> IF j = n + 1 THEN new ELSE f[j]]
    OBVIOUS
  <2>4. \A j \in 0 .. n : f[j] = IF j = 0 THEN Buckets(2 * m.size)
                                 ELSE IF m.at[j - 1] = Unused THEN f[j - 1]
                                 ELSE Insert(f[j - 1], m.at[j - 1].key, m.at[j - 1].val)
    BY <2>1 DEF IsGrown
  <2>5. ASSUME NEW j \in 0 .. (n + 1)
        PROVE  g[j] = IF j = 0 THEN Buckets(2 * m.size)
                      ELSE IF m.at[j - 1] = Unused THEN g[j - 1]
                      ELSE Insert(g[j - 1], m.at[j - 1].key, m.at[j - 1].val)
    <3>1. CASE j = n + 1
      <4>1. g[j] = new /\ g[j - 1] = f[n] /\ j # 0 /\ j - 1 = n
        BY <2>3, <3>1
      <4>. QED  BY <2>2, <4>1, Zenon
    <3>2. CASE j # n + 1
      <4>1. j \in 0 .. n /\ g[j] = f[j]
        BY <2>3, <3>2
      <4>2. j # 0 => g[j - 1] = f[j - 1]
        BY <2>3, <4>1
      <4>. QED  BY <2>4, <4>1, <4>2, Zenon
    <3>. QED  BY <3>1, <3>2
  <2>6. IsGrown(m, n + 1, g)
    BY <2>3, <2>5 DEF IsGrown
  <2>. QED  BY <2>6
<1>. HIDE DEF Done
<1>3. N \in Done
  BY <1>1, <1>2, UpTo
<1>. QED  BY <1>3 DEF Done

\* Grow takes the last of them.
LEMMA GrowIsGrown ==
  ASSUME NEW m, m.size \in Nat
  PROVE  \E f : IsGrown(m, m.size, f) /\ Grow(m) = f[m.size]
<1>. DEFINE grown[n \in 0 .. m.size] ==
              IF n = 0 THEN Buckets(2 * m.size)
              ELSE IF m.at[n - 1] = Unused THEN grown[n - 1]
              ELSE Insert(grown[n - 1], m.at[n - 1].key, m.at[n - 1].val)
<1>1. \E f : f = [n \in 0 .. m.size |->
                    IF n = 0 THEN Buckets(2 * m.size)
                    ELSE IF m.at[n - 1] = Unused THEN f[n - 1]
                    ELSE Insert(f[n - 1], m.at[n - 1].key, m.at[n - 1].val)]
  <2>1. \E f : IsGrown(m, m.size, f)
    BY GrownExists
  <2>. QED  BY <2>1, Zenon DEF IsGrown
<1>2. grown = [n \in 0 .. m.size |->
                 IF n = 0 THEN Buckets(2 * m.size)
                 ELSE IF m.at[n - 1] = Unused THEN grown[n - 1]
                 ELSE Insert(grown[n - 1], m.at[n - 1].key, m.at[n - 1].val)]
  BY <1>1, Zenon
<1>3. Grow(m) = grown[m.size]
  BY Zenon DEF Grow
<1>4. IsGrown(m, m.size, grown)
  BY <1>2, Zenon DEF IsGrown
<1>. QED  BY <1>3, <1>4, Zenon

\* The entries of the first n buckets, in a table of twice the size.
HasMoved(m, n, t) ==
  /\ IsTable(t) /\ t.size = 2 * m.size /\ t.count <= n
  /\ Keys(t) = {m.at[i].key : i \in {j \in UsedIn(m) : j < n}}
  /\ \A i \in UsedIn(m) : i < n => Get(t, m.at[i].key) = m.at[i].val

\* The same keys and values.
SameContent(m, t) ==
  Keys(t) = Keys(m) /\ \A k \in Keys(m) : Get(t, k) = Get(m, k)

\* Moving one more bucket.
LEMMA MovesOn ==
  ASSUME NEW m, IsTable(m), NEW n \in 0 .. (m.size - 1), NEW a, HasMoved(m, n, a), NEW t,
         t = IF m.at[n] = Unused THEN a ELSE Insert(a, m.at[n].key, m.at[n].val)
  PROVE  HasMoved(m, n + 1, t)
<1>1. PICK N \in Nat : N = m.size /\ n < N /\ n \in Nat
  BY DEF IsTable
<1>2. /\ IsTable(a) /\ a.size = 2 * N /\ a.count <= n /\ a.count \in Nat
      /\ Keys(a) = {m.at[i].key : i \in {j \in UsedIn(m) : j < n}}
      /\ \A i \in UsedIn(m) : i < n => Get(a, m.at[i].key) = m.at[i].val
  <2>1. IsTable(a)
    BY DEF HasMoved
  <2>2. a.count \in Nat
    BY <2>1, UsedIsFinite DEF IsTable
  <2>. QED  BY <1>1, <2>1, <2>2 DEF HasMoved
<1>3. UsedIn(m) \subseteq 0 .. (N - 1)
  BY <1>1 DEF UsedIn
<1>4. CASE m.at[n] = Unused
  <2>1. n \notin UsedIn(m)
    BY <1>4 DEF UsedIn
  <2>2. \A j \in UsedIn(m) : j < n + 1 <=> j < n
    BY <1>1, <1>3, <2>1
  <2>3. {j \in UsedIn(m) : j < n + 1} = {j \in UsedIn(m) : j < n}
    BY <2>2
  <2>4. t = a
    BY <1>4
  <2>5. t.count <= n + 1
    BY <1>1, <1>2, <2>4
  <2>. QED  BY <1>1, <1>2, <2>2, <2>3, <2>4, <2>5 DEF HasMoved
<1>5. CASE m.at[n] # Unused
  <2>1. n \in UsedIn(m)
    BY <1>1, <1>5 DEF UsedIn
  <2>2. PICK k, v : k = m.at[n].key /\ v = m.at[n].val /\ k \in Nat
    BY <2>1 DEF IsTable
  <2>3. [key |-> k, val |-> v] # Unused
    BY <1>5, <2>1, <2>2 DEF IsTable
  <2>4. t = Insert(a, k, v)
    BY <1>5, <2>2
  <2>5. a.size # 0 /\ a.count + 1 < a.size
    <3>1. N # 1
      BY <1>1 DEF IsTable
    <3>. QED  BY <1>1, <1>2, <3>1
  <2>6. IsInserted(a, k, v, t)
    <3>1. IsTable(a) /\ k \in Nat
      BY <1>2, <2>2
    <3>. QED  BY <2>3, <2>4, <2>5, <3>1, Inserts, Zenon
  <2>7. /\ IsTable(t) /\ Keys(t) = Keys(a) \cup {k} /\ Get(t, k) = v
        /\ \A j \in Keys(a) \ {k} : Get(t, j) = Get(a, j)
        /\ t.size = a.size /\ t.count <= a.count + 1
    BY <2>6, Zenon DEF IsInserted, IsPut
  <2>8. {j \in UsedIn(m) : j < n + 1} = {j \in UsedIn(m) : j < n} \cup {n}
    BY <1>1, <1>3, <2>1
  <2>9. Keys(t) = {m.at[i].key : i \in {j \in UsedIn(m) : j < n + 1}}
    BY <1>2, <2>2, <2>7, <2>8
  <2>10. ASSUME NEW i \in UsedIn(m), i < n + 1 PROVE Get(t, m.at[i].key) = m.at[i].val
    <3>1. CASE i = n
      BY <2>2, <2>7, <3>1
    <3>2. CASE i # n
      <4>1. i < n
        BY <1>1, <1>3, <2>10, <3>2
      <4>2. m.at[i].key # k
        BY <2>1, <2>2, <3>2, GetFinds
      <4>3. m.at[i].key \in Keys(a)
        BY <1>2, <4>1
      <4>. QED  BY <1>2, <2>7, <4>1, <4>2, <4>3
    <3>. QED  BY <3>1, <3>2
  <2>11. t.count \in Nat
    BY <2>7, UsedIsFinite DEF IsTable
  <2>12. t.count <= n + 1 /\ t.size = 2 * m.size
    BY <1>1, <1>2, <2>7, <2>11
  <2>. QED  BY <2>7, <2>9, <2>10, <2>12 DEF HasMoved
<1>. QED  BY <1>4, <1>5

\* A grown table holds the same and is at most half full.
LEMMA Grows ==
  ASSUME NEW m, IsTable(m), m.size # 0, NEW t, t = Grow(m)
  PROVE  /\ IsTable(t) /\ SameContent(m, t)
         /\ t.size = 2 * m.size /\ t.count <= m.size
<1>1. PICK N \in Nat \ {0, 1} : N = m.size
  BY DEF IsTable
<1>2. PICK f : IsGrown(m, N, f) /\ t = f[N]
  BY <1>1, GrowIsGrown
<1>3. \A j \in 0 .. N : f[j] = IF j = 0 THEN Buckets(2 * m.size)
                               ELSE IF m.at[j - 1] = Unused THEN f[j - 1]
                               ELSE Insert(f[j - 1], m.at[j - 1].key, m.at[j - 1].val)
  BY <1>2 DEF IsGrown
<1>4. PICK S : S = {n \in 0 .. N : HasMoved(m, n, f[n])}
  OBVIOUS
<1>5. 0 \in S
  <2>1. f[0] = Buckets(2 * N)
    BY <1>1, <1>3
  <2>2. 2 * N \in Nat /\ 2 * N # 1
    OBVIOUS
  <2>3. IsEmptyTable(f[0]) /\ f[0].size = 2 * N
    BY <2>1, <2>2, EmptyTables, Zenon
  <2>4. \A i \in UsedIn(m) : ~(i < 0)
    BY <1>1 DEF UsedIn
  <2>5. IsTable(f[0]) /\ f[0].count = 0 /\ Keys(f[0]) = {}
    BY <2>3, Zenon DEF IsEmptyTable
  <2>6. {m.at[i].key : i \in {j \in UsedIn(m) : j < 0}} = {}
    BY <2>4
  <2>7. f[0].count <= 0
    BY <2>5
  <2>8. HasMoved(m, 0, f[0])
    BY <1>1, <2>3, <2>4, <2>5, <2>6, <2>7, Zenon DEF HasMoved
  <2>. QED  BY <1>4, <2>8
<1>6. ASSUME NEW n \in 0 .. (N - 1), n \in S PROVE n + 1 \in S
  <2>1. HasMoved(m, n, f[n])
    BY <1>4, <1>6
  <2>2. n + 1 \in 0 .. N /\ n + 1 # 0 /\ (n + 1) - 1 = n
    OBVIOUS
  <2>3. f[n + 1] = IF m.at[n] = Unused THEN f[n] ELSE Insert(f[n], m.at[n].key, m.at[n].val)
    BY <1>3, <2>2
  <2>4. n \in 0 .. (m.size - 1)
    BY <1>1
  <2>5. HasMoved(m, n + 1, f[n + 1])
    BY <2>1, <2>3, <2>4, MovesOn, Zenon
  <2>6. PICK k : k = n + 1
    OBVIOUS
  <2>7. k \in 0 .. N /\ HasMoved(m, k, f[k])
    BY <2>2, <2>5, <2>6
  <2>8. k \in S
    BY <1>4, <2>7
  <2>. QED  BY <2>6, <2>8
<1>7. N \in S
  BY <1>5, <1>6, UpTo
<1>8. HasMoved(m, N, t)
  BY <1>2, <1>4, <1>7
<1>9. \A i \in UsedIn(m) : i < N
  BY <1>1 DEF UsedIn
<1>10. /\ IsTable(t) /\ t.size = 2 * m.size /\ t.count <= N
       /\ Keys(t) = {m.at[i].key : i \in {j \in UsedIn(m) : j < N}}
       /\ \A i \in UsedIn(m) : i < N => Get(t, m.at[i].key) = m.at[i].val
  BY <1>8, Zenon DEF HasMoved
<1>11. Keys(t) = Keys(m)
  BY <1>9, <1>10 DEF Keys
<1>12. ASSUME NEW k \in Keys(m) PROVE Get(t, k) = Get(m, k)
  <2>1. PICK i \in UsedIn(m) : k = m.at[i].key
    BY DEF Keys
  <2>. QED  BY <1>9, <1>10, <2>1, GetFinds
<1>. QED  BY <1>1, <1>10, <1>11, <1>12 DEF SameContent

\* Set on any table, growing or not.
LEMMA Sets ==
  ASSUME NEW m, IsTable(m), NEW key \in Nat, NEW val,
         [key |-> key, val |-> val] # Unused, NEW t, t = Set(m, key, val)
  PROVE  IsPut(m, key, val, t)
<1>1. m.size \in Nat /\ m.size # 1
  BY DEF IsTable
<1>2. PICK g : g = IF m.size = 0 THEN Buckets(InitBuckets)
                   ELSE IF m.count >= (m.size * 3) \div 4 THEN Grow(m) ELSE m
  OBVIOUS
<1>3. t = Insert(g, key, val)
  BY <1>2, Zenon DEF Set
<1>4. IsTable(g) /\ SameContent(m, g) /\ g.size # 0 /\ g.count + 1 < g.size
  <2>1. CASE m.size = 0
    <3>1. g = Buckets(InitBuckets) /\ InitBuckets \in Nat /\ InitBuckets > 1 /\ InitBuckets # 1
      BY <1>2, <2>1, BucketsAssumption
    <3>2. IsEmptyTable(g) /\ g.size = InitBuckets
      BY <3>1, EmptyTables, Zenon
    <3>3. IsTable(g) /\ g.count = 0 /\ Keys(g) = {}
      BY <3>2, Zenon DEF IsEmptyTable
    <3>4. Keys(m) = {}
      BY <2>1 DEF Keys, UsedIn
    <3>. QED  BY <3>1, <3>2, <3>3, <3>4 DEF SameContent
  <2>2. CASE m.size # 0 /\ m.count >= (m.size * 3) \div 4
    <3>1. g = Grow(m)
      BY <1>2, <2>2
    <3>2. IsTable(g) /\ SameContent(m, g) /\ g.size = 2 * m.size /\ g.count <= m.size
      BY <2>2, <3>1, Grows, Zenon
    <3>3. g.count \in Nat
      BY <3>2, UsedIsFinite DEF IsTable
    <3>. QED  BY <1>1, <2>2, <3>2, <3>3
  <2>3. CASE m.size # 0 /\ ~(m.count >= (m.size * 3) \div 4)
    <3>1. g = m
      BY <1>2, <2>3
    <3>2. m.count \in Nat
      BY <1>1, UsedIsFinite DEF IsTable
    <3>3. m.count + 1 < m.size
      BY <1>1, <2>3, <3>2
    <3>4. SameContent(m, m)
      BY DEF SameContent
    <3>. QED  BY <2>3, <3>1, <3>3, <3>4
  <2>. QED  BY <2>1, <2>2, <2>3
<1>5. IsInserted(g, key, val, t)
  BY <1>3, <1>4, Inserts, Zenon
<1>. QED  BY <1>4, <1>5 DEF IsInserted, IsPut, SameContent

(***************************************************************************)
(* ForEach.                                                                *)
(***************************************************************************)

\* The entries of the first n buckets in order.
IsListed(m, n, f) ==
  f = [j \in 0 .. n |->
         IF j = 0 THEN <<>>
         ELSE IF m.at[j - 1] = Unused THEN f[j - 1] ELSE Append(f[j - 1], m.at[j - 1])]

\* So does the loop of ForEach give a list.
LEMMA ListedExists ==
  ASSUME NEW m, NEW N \in Nat
  PROVE  \E f : IsListed(m, N, f)
<1>. DEFINE Done == {n \in Nat : \E f : IsListed(m, n, f)}
<1>1. 0 \in Done
  <2>1. PICK f : f = [j \in 0 .. 0 |-> <<>>]
    OBVIOUS
  <2>2. IsListed(m, 0, f)
    BY <2>1 DEF IsListed
  <2>. QED  BY <2>2
<1>2. ASSUME NEW n \in 0 .. (N - 1), n \in Done PROVE n + 1 \in Done
  <2>1. PICK f : IsListed(m, n, f)
    BY <1>2
  <2>2. PICK new : new = IF m.at[n] = Unused THEN f[n] ELSE Append(f[n], m.at[n])
    OBVIOUS
  <2>3. PICK g : g = [j \in 0 .. (n + 1) |-> IF j = n + 1 THEN new ELSE f[j]]
    OBVIOUS
  <2>4. \A j \in 0 .. n : f[j] = IF j = 0 THEN <<>>
                                 ELSE IF m.at[j - 1] = Unused THEN f[j - 1]
                                 ELSE Append(f[j - 1], m.at[j - 1])
    BY <2>1, Zenon DEF IsListed
  <2>5. ASSUME NEW j \in 0 .. (n + 1)
        PROVE  g[j] = IF j = 0 THEN <<>>
                      ELSE IF m.at[j - 1] = Unused THEN g[j - 1]
                      ELSE Append(g[j - 1], m.at[j - 1])
    <3>1. CASE j = n + 1
      <4>1. g[j] = new /\ g[j - 1] = f[n] /\ j # 0 /\ j - 1 = n
        BY <2>3, <3>1
      <4>. QED  BY <2>2, <4>1, Zenon
    <3>2. CASE j # n + 1
      <4>1. j \in 0 .. n /\ g[j] = f[j]
        BY <2>3, <3>2
      <4>2. j # 0 => g[j - 1] = f[j - 1]
        BY <2>3, <4>1
      <4>. QED  BY <2>4, <4>1, <4>2, Zenon
    <3>. QED  BY <3>1, <3>2
  <2>6. IsListed(m, n + 1, g)
    BY <2>3, <2>5, Zenon DEF IsListed
  <2>. QED  BY <2>6
<1>. HIDE DEF Done
<1>3. N \in Done
  BY <1>1, <1>2, UpTo
<1>. QED  BY <1>3 DEF Done

\* Entries takes the last of them.
LEMMA EntriesAreListed ==
  ASSUME NEW m, m.size \in Nat
  PROVE  \E f : IsListed(m, m.size, f) /\ Entries(m) = f[m.size]
<1>. DEFINE upTo[n \in 0 .. m.size] ==
              IF n = 0 THEN <<>>
              ELSE IF m.at[n - 1] = Unused THEN upTo[n - 1] ELSE Append(upTo[n - 1], m.at[n - 1])
<1>1. \E f : f = [n \in 0 .. m.size |->
                    IF n = 0 THEN <<>>
                    ELSE IF m.at[n - 1] = Unused THEN f[n - 1]
                    ELSE Append(f[n - 1], m.at[n - 1])]
  <2>1. \E f : IsListed(m, m.size, f)
    BY ListedExists
  <2>. QED  BY <2>1, Zenon DEF IsListed
<1>2. upTo = [n \in 0 .. m.size |->
                IF n = 0 THEN <<>>
                ELSE IF m.at[n - 1] = Unused THEN upTo[n - 1]
                ELSE Append(upTo[n - 1], m.at[n - 1])]
  BY <1>1, Zenon
<1>3. Entries(m) = upTo[m.size]
  BY Zenon DEF Entries
<1>4. IsListed(m, m.size, upTo)
  BY <1>2, Zenon DEF IsListed
<1>. QED  BY <1>3, <1>4, Zenon

\* A list of the used buckets before n, each once.
Lists(m, n, es) ==
  /\ es \in Seq({m.at[i] : i \in UsedIn(m)})
  /\ {es[j] : j \in 1 .. Len(es)} = {m.at[i] : i \in {j \in UsedIn(m) : j < n}}
  /\ \A j, l \in 1 .. Len(es) : es[j].key = es[l].key => j = l

\* One more bucket is visited by ForEach.
LEMMA ListsOn ==
  ASSUME NEW m, IsTable(m), NEW n \in 0 .. (m.size - 1), NEW a, Lists(m, n, a), NEW t,
         t = IF m.at[n] = Unused THEN a ELSE Append(a, m.at[n])
  PROVE  Lists(m, n + 1, t)
<1>1. PICK N \in Nat : N = m.size /\ n < N /\ n \in Nat
  BY DEF IsTable
<1>2. UsedIn(m) \subseteq 0 .. (N - 1)
  BY <1>1 DEF UsedIn
<1>3. /\ a \in Seq({m.at[i] : i \in UsedIn(m)})
      /\ {a[j] : j \in 1 .. Len(a)} = {m.at[i] : i \in {j \in UsedIn(m) : j < n}}
      /\ \A j, l \in 1 .. Len(a) : a[j].key = a[l].key => j = l
  BY Zenon DEF Lists
<1>4. CASE m.at[n] = Unused
  <2>1. n \notin UsedIn(m)
    BY <1>4 DEF UsedIn
  <2>2. {j \in UsedIn(m) : j < n + 1} = {j \in UsedIn(m) : j < n}
    BY <1>1, <1>2, <2>1
  <2>3. t = a
    BY <1>4
  <2>. QED  BY <1>3, <2>2, <2>3, Zenon DEF Lists
<1>5. CASE m.at[n] # Unused
  <2>1. n \in UsedIn(m)
    BY <1>1, <1>5 DEF UsedIn
  <2>2. PICK e : e = m.at[n]
    OBVIOUS
  <2>3. PICK T : T = {m.at[i] : i \in UsedIn(m)}
    OBVIOUS
  <2>4. a \in Seq(T) /\ e \in T /\ t = Append(a, e)
    BY <1>3, <1>5, <2>1, <2>2, <2>3
  <2>5. /\ t \in Seq(T) /\ Len(t) = Len(a) + 1 /\ Len(a) \in Nat
        /\ \A j \in 1 .. Len(a) : t[j] = a[j]
        /\ t[Len(a) + 1] = e
    BY <2>4
  <2>6. {j \in UsedIn(m) : j < n + 1} = {j \in UsedIn(m) : j < n} \cup {n}
    BY <1>1, <1>2, <2>1
  <2>7. {t[j] : j \in 1 .. Len(t)} = {a[j] : j \in 1 .. Len(a)} \cup {e}
    BY <2>5
  <2>8. {t[j] : j \in 1 .. Len(t)} = {m.at[i] : i \in {j \in UsedIn(m) : j < n + 1}}
    BY <1>3, <2>2, <2>6, <2>7
  <2>9. ASSUME NEW j \in 1 .. Len(a) PROVE a[j].key # e.key
    <3>1. PICK i \in UsedIn(m) : i < n /\ a[j] = m.at[i]
      BY <1>3
    <3>2. i # n
      BY <1>1, <3>1
    <3>. QED  BY <2>1, <2>2, <3>1, <3>2, GetFinds
  <2>10. \A j, l \in 1 .. Len(t) : t[j].key = t[l].key => j = l
    <3>. TAKE j, l \in 1 .. Len(t)
    <3>. HAVE t[j].key = t[l].key
    <3>1. j \in 1 .. Len(a) \/ j = Len(a) + 1
      BY <2>5
    <3>2. l \in 1 .. Len(a) \/ l = Len(a) + 1
      BY <2>5
    <3>. QED  BY <1>3, <2>5, <2>9, <3>1, <3>2
  <2>. QED  BY <2>3, <2>5, <2>8, <2>10, Zenon DEF Lists
<1>. QED  BY <1>4, <1>5

Entry(k, v) == [key |-> k, val |-> v]
EntrySet(m) == {Entry(k, Get(m, k)) : k \in Keys(m)}

\* A list of entries, no key twice.
IsEntryList(m, es) ==
  /\ es \in Seq(EntrySet(m))
  /\ ToSet(es) = EntrySet(m)
  /\ \A j, l \in 1 .. Len(es) : es[j].key = es[l].key => j = l

\* ForEach visits each entry once.
LEMMA EntriesListAll ==
  ASSUME NEW m, IsTable(m), NEW es, es = Entries(m)
  PROVE  IsEntryList(m, es)
<1>1. PICK N \in Nat : N = m.size
  BY DEF IsTable
<1>2. PICK f : IsListed(m, N, f) /\ es = f[N]
  BY <1>1, EntriesAreListed
<1>3. \A j \in 0 .. N : f[j] = IF j = 0 THEN <<>>
                               ELSE IF m.at[j - 1] = Unused THEN f[j - 1]
                               ELSE Append(f[j - 1], m.at[j - 1])
  BY <1>2, Zenon DEF IsListed
<1>4. PICK S : S = {n \in 0 .. N : Lists(m, n, f[n])}
  OBVIOUS
<1>5. 0 \in S
  <2>1. f[0] = <<>>
    BY <1>3
  <2>2. \A i \in UsedIn(m) : ~(i < 0)
    BY <1>1 DEF UsedIn
  <2>3. {m.at[i] : i \in {j \in UsedIn(m) : j < 0}} = {}
    BY <2>2
  <2>4. f[0] \in Seq({m.at[i] : i \in UsedIn(m)}) /\ Len(f[0]) = 0
    BY <2>1
  <2>5. 1 .. Len(f[0]) = {}
    BY <2>4
  <2>6. {f[0][j] : j \in 1 .. Len(f[0])} = {}
    BY <2>5
  <2>7. Lists(m, 0, f[0])
    BY <2>3, <2>4, <2>5, <2>6, Zenon DEF Lists
  <2>. QED  BY <1>4, <2>7
<1>6. ASSUME NEW n \in 0 .. (N - 1), n \in S PROVE n + 1 \in S
  <2>1. Lists(m, n, f[n])
    BY <1>4, <1>6
  <2>2. n + 1 \in 0 .. N /\ n + 1 # 0 /\ (n + 1) - 1 = n
    OBVIOUS
  <2>3. f[n + 1] = IF m.at[n] = Unused THEN f[n] ELSE Append(f[n], m.at[n])
    BY <1>3, <2>2
  <2>4. n \in 0 .. (m.size - 1)
    BY <1>1
  <2>5. Lists(m, n + 1, f[n + 1])
    BY <2>1, <2>3, <2>4, ListsOn, Zenon
  <2>6. PICK k : k = n + 1
    OBVIOUS
  <2>7. k \in 0 .. N /\ Lists(m, k, f[k])
    BY <2>2, <2>5, <2>6
  <2>8. k \in S
    BY <1>4, <2>7
  <2>. QED  BY <2>6, <2>8
<1>7. N \in S
  BY <1>5, <1>6, UpTo
<1>8. Lists(m, N, es)
  BY <1>2, <1>4, <1>7
<1>9. \A i \in UsedIn(m) : i < N
  BY <1>1 DEF UsedIn
<1>10. {j \in UsedIn(m) : j < N} = UsedIn(m)
  BY <1>9
<1>11. /\ es \in Seq({m.at[i] : i \in UsedIn(m)})
       /\ {es[j] : j \in 1 .. Len(es)} = {m.at[i] : i \in UsedIn(m)}
       /\ \A j, l \in 1 .. Len(es) : es[j].key = es[l].key => j = l
  BY <1>8, <1>10, Zenon DEF Lists
<1>12. \A i \in UsedIn(m) : m.at[i] = Entry(m.at[i].key, Get(m, m.at[i].key))
  <2>. TAKE i \in UsedIn(m)
  <2>1. m.at[i] = [key |-> m.at[i].key, val |-> m.at[i].val]
    BY DEF IsTable
  <2>2. Get(m, m.at[i].key) = m.at[i].val
    BY GetFinds
  <2>. QED  BY <2>1, <2>2 DEF Entry
<1>13. {m.at[i] : i \in UsedIn(m)} = EntrySet(m)
  BY <1>12 DEF EntrySet, Keys
<1>14. DOMAIN es = 1 .. Len(es)
  BY <1>11
<1>15. ToSet(es) = EntrySet(m)
  BY <1>11, <1>13, <1>14 DEF ToSet
<1>. QED  BY <1>11, <1>13, <1>15 DEF IsEntryList

\* What is written under a key is the value Get finds.
LEMMA EntryIsFound ==
  ASSUME NEW m, NEW e \in EntrySet(m)
  PROVE  e.key \in Keys(m) /\ e.val = Get(m, e.key) /\ e = Entry(e.key, e.val)
<1>1. PICK k \in Keys(m) : e = Entry(k, Get(m, k))
  BY DEF EntrySet
<1>. QED  BY <1>1 DEF Entry

------------------------------------------------------------------------------
(* The spill buffer                                                        *)

\* Dividing by the bits of a word.
LEMMA Division ==
  ASSUME NEW w \in Nat \ {0}, NEW x \in Nat
  PROVE  /\ x \div w \in Nat
         /\ w * (x \div w) <= x
         /\ x < w * (x \div w) + w
  OBVIOUS

\* More words hold more bits.
LEMMA Times ==
  ASSUME NEW w \in Nat, NEW a \in Nat, NEW b \in Nat, a <= b
  PROVE  w * a <= w * b
<1>1. PICK c \in Nat : c = b - a
  OBVIOUS
<1>2. w * c \in Nat /\ w * b = w * a + w * c
  BY <1>1
<1>. QED  BY <1>2

\* A larger bit is not in an earlier word.
LEMMA Quotients ==
  ASSUME NEW w \in Nat \ {0}, NEW x \in Nat, NEW y \in Nat, x <= y
  PROVE  x \div w <= y \div w
<1>1. PICK a, b : a = x \div w /\ b = y \div w
  OBVIOUS
<1>2. a \in Nat /\ b \in Nat /\ w * a <= x /\ y < w * b + w
  BY <1>1, Division
<1>3. SUFFICES ASSUME b + 1 <= a PROVE FALSE
  BY <1>1, <1>2
<1>4. w * (b + 1) <= w * a
  BY <1>2, <1>3, Times
<1>5. w * (b + 1) = w * b + w
  BY <1>2
<1>6. w * a \in Nat /\ w * b \in Nat
  BY <1>2
<1>. QED  BY <1>2, <1>4, <1>5, <1>6

WordAt(bm, i)    == (bm.hint \div WordBits + i) % NumWords
ClearBits(bm, v) == (WordBits * v .. WordBits * (v + 1) - 1) \ bm.used

\* The words cover the slots.
LEMMA WordOfSlot ==
  ASSUME NEW x \in Slots
  PROVE  \E v \in 0 .. (NumWords - 1) : x \in WordBits * v .. WordBits * (v + 1) - 1
<1>1. PICK w \in Nat \ {0} : w = WordBits
  BY SpillAssumption
<1>2. PICK c \in Nat \ {0} : c = SegmentCap
  BY SpillAssumption
<1>3. x \in 0 .. (c - 1)
  BY <1>2 DEF Slots
<1>4. PICK v \in Nat : v = x \div w
  BY <1>3, Division
<1>5. w * v <= x /\ x < w * v + w
  BY <1>3, <1>4, Division
<1>6. w * (v + 1) = w * v + w /\ w * v \in Nat
  BY <1>4
<1>7. x \in w * v .. w * (v + 1) - 1
  BY <1>3, <1>5, <1>6
<1>8. (x + w) \div w <= (c + w - 1) \div w
  BY <1>3, Quotients
<1>9. v + 1 <= (x + w) \div w
  <2>1. PICK q \in Nat : q = (x + w) \div w /\ x + w < w * q + w
    BY <1>3, Division
  <2>2. SUFFICES ASSUME q <= v PROVE FALSE
    BY <2>1
  <2>3. w * q <= w * v
    BY <2>2, Times
  <2>4. w * q \in Nat
    BY <2>1
  <2>. QED  BY <1>3, <1>5, <1>6, <2>1, <2>3, <2>4
<1>10. (c + w - 1) \div w \in Nat /\ (x + w) \div w \in Nat
  BY <1>3, Division
<1>11. NumWords = (c + w - 1) \div w
  BY <1>1, <1>2 DEF NumWords
<1>12. v \in 0 .. (NumWords - 1)
  BY <1>8, <1>9, <1>10, <1>11
<1>. QED  BY <1>1, <1>7, <1>12

\* A bitmap's hint is a slot or the one behind the last.
Bitmaps == [used : SUBSET Slots, hint : 0 .. SegmentCap]

\* The word of the hint is in the bitmap, or the one behind it.
LEMMA StartInRange ==
  ASSUME NEW bm \in Bitmaps
  PROVE  bm.hint \div WordBits \in 0 .. NumWords /\ NumWords \in Nat \ {0}
<1>1. PICK w \in Nat \ {0} : w = WordBits
  BY SpillAssumption
<1>2. PICK c \in Nat \ {0} : c = SegmentCap
  BY SpillAssumption
<1>3. PICK h \in 0 .. c : h = bm.hint
  BY <1>2 DEF Bitmaps
<1>4. h \div w <= (c + w - 1) \div w
  <2>1. h \in Nat /\ c + w - 1 \in Nat /\ h <= c + w - 1
    BY <1>3
  <2>. QED  BY <2>1, Quotients
<1>5. h \div w \in Nat /\ (c + w - 1) \div w \in Nat
  BY <1>3, Division
<1>6. NumWords = (c + w - 1) \div w
  BY <1>1, <1>2 DEF NumWords
<1>7. NumWords # 0
  <2>1. 0 \in Slots
    BY SpillAssumption DEF Slots
  <2>2. \E v \in 0 .. (NumWords - 1) : TRUE
    BY <2>1, WordOfSlot
  <2>. QED  BY <1>5, <1>6, <2>2
<1>. QED  BY <1>1, <1>3, <1>4, <1>5, <1>6, <1>7

\* The scan from the hint comes to every word.
LEMMA WordReached ==
  ASSUME NEW bm \in Bitmaps, NEW v \in 0 .. (NumWords - 1)
  PROVE  \E i \in 0 .. (NumWords - 1) : WordAt(bm, i) = v
<1>1. PICK n \in Nat \ {0} : n = NumWords
  BY StartInRange
<1>2. PICK h \in 0 .. n : h = bm.hint \div WordBits
  BY <1>1, StartInRange
<1>3. v \in 0 .. (n - 1)
  BY <1>1
<1>4. \E i \in 0 .. (n - 1) : (h + i) % n = v
  <2>1. CASE h = n
    <3>1. h + v = v + n
      BY <1>3, <2>1
    <3>. QED  BY <1>3, <3>1, Round
  <2>2. CASE h # n
    <3>1. h \in 0 .. (n - 1)
      BY <2>2
    <3>. QED  BY <1>3, <3>1, RoundTo, Zenon
  <2>. QED  BY <2>1, <2>2
<1>. QED  BY <1>1, <1>2, <1>4, Zenon DEF WordAt

\* The scan finds a free slot, or none is free.
LEMMA ScanFinds ==
  ASSUME NEW bm \in Bitmaps
  PROVE  /\ ~IsFull(bm) => FreeSlot(bm) \in Slots \ bm.used
         /\ IsFull(bm) => bm.used = Slots
<1>1. PICK open : open = {i \in 0 .. NumWords - 1 :
                            /\ ClearBits(bm, WordAt(bm, i)) # {}
                            /\ Min(ClearBits(bm, WordAt(bm, i))) \in Slots}
  OBVIOUS
<1>2. FreeSlot(bm) = IF open = {} THEN NoSlot ELSE Min(ClearBits(bm, WordAt(bm, Min(open))))
  BY <1>1, Zenon DEF FreeSlot, ClearBits, WordAt
<1>3. NoSlot \notin Slots
  BY SpillAssumption DEF NoSlot, Slots
<1>4. ASSUME NEW i \in Nat
      PROVE  ClearBits(bm, WordAt(bm, i)) \in SUBSET Nat
  <2>1. WordAt(bm, i) \in Nat
    <3>1. PICK n \in Nat \ {0} : n = NumWords
      BY StartInRange
    <3>2. PICK h \in Nat : h = bm.hint \div WordBits
      BY StartInRange
    <3>3. (h + i) % n \in Nat
      OBVIOUS
    <3>. QED  BY <3>1, <3>2, <3>3 DEF WordAt
  <2>2. PICK w \in Nat, v \in Nat : w = WordBits /\ v = WordAt(bm, i)
    BY <2>1, SpillAssumption
  <2>3. w * v \in Nat
    OBVIOUS
  <2>4. PICK a, b : a \in Nat /\ b \in Int /\ a = w * v /\ b = w * (v + 1) - 1
    BY <2>3
  <2>5. (a .. b) \in SUBSET Nat
    BY <2>4
  <2>6. ClearBits(bm, v) = (a .. b) \ bm.used
    BY <2>2, <2>4, Zenon DEF ClearBits
  <2>. QED  BY <2>2, <2>5, <2>6
<1>5. CASE open # {}
  <2>1. open \in SUBSET Nat
    <3>1. NumWords \in Nat
      BY StartInRange
    <3>. QED  BY <1>1, <3>1
  <2>2. PICK i : i = Min(open) /\ i \in open
    BY <1>5, <2>1, MinOf
  <2>3. PICK T : T = ClearBits(bm, WordAt(bm, i)) /\ T # {} /\ Min(T) \in Slots
    BY <1>1, <2>2
  <2>4. Min(T) \in T
    BY <1>4, <2>1, <2>2, <2>3, MinOf
  <2>5. FreeSlot(bm) = Min(T)
    BY <1>2, <1>5, <2>2, <2>3
  <2>6. FreeSlot(bm) \in Slots \ bm.used
    BY <2>3, <2>4, <2>5 DEF ClearBits
  <2>. QED  BY <1>3, <2>6 DEF IsFull
<1>6. CASE open = {}
  <2>1. FreeSlot(bm) = NoSlot
    BY <1>2, <1>6
  <2>2. ASSUME NEW x \in Slots \ bm.used PROVE FALSE
    <3>1. PICK v \in 0 .. (NumWords - 1) : x \in WordBits * v .. WordBits * (v + 1) - 1
      BY WordOfSlot
    <3>2. PICK i \in 0 .. (NumWords - 1) : WordAt(bm, i) = v
      BY WordReached
    <3>3. PICK T : T = ClearBits(bm, WordAt(bm, i))
      OBVIOUS
    <3>4. x \in T
      BY <3>1, <3>2, <3>3, Zenon DEF ClearBits
    <3>5. i \in Nat
      BY StartInRange
    <3>6. T \in SUBSET Nat
      BY <1>4, <3>3, <3>5
    <3>7. Min(T) \in Nat /\ Min(T) <= x
      BY <3>4, <3>6, MinOf
    <3>8. Min(T) \in Slots
      BY <3>7, SpillAssumption DEF Slots
    <3>9. i \in open
      BY <1>1, <3>3, <3>4, <3>8
    <3>. QED  BY <1>6, <3>9
  <2>3. bm.used \subseteq Slots
    BY DEF Bitmaps
  <2>. QED  BY <2>1, <2>2, <2>3 DEF IsFull
<1>. QED  BY <1>5, <1>6

\* Segments of bitmaps, those before curSegment full.
IsBuffer(b) ==
  /\ b = [segs |-> b.segs, cur |-> b.cur, total |-> b.total]
  /\ b.segs \in Seq(Bitmaps) /\ b.cur \in 1 .. Len(b.segs) /\ b.total \in Int
  /\ \A s \in 1 .. (b.cur - 1) : b.segs[s].used = Slots

\* AllocatedCount is the number of slots taken.
IsCounted(b) == IsFiniteSet(Taken(b)) /\ b.total = Cardinality(Taken(b))

\* What is taken, slot by slot.
LEMMA TakenIs ==
  ASSUME NEW b, IsBuffer(b), NEW d
  PROVE  d \in Taken(b) <=> \E s \in 1 .. Len(b.segs) : \E i \in b.segs[s].used :
                              d = [seg |-> s, idx |-> i]
<1>1. DOMAIN b.segs = 1 .. Len(b.segs)
  BY DEF IsBuffer
<1>. QED  BY <1>1 DEF Taken

\* A taken slot is a bit set in a segment's bitmap.
LEMMA TakenIsPlace ==
  ASSUME NEW b, IsBuffer(b), NEW d \in Taken(b)
  PROVE  /\ d = [seg |-> d.seg, idx |-> d.idx]
         /\ d.seg \in 1 .. Len(b.segs) /\ d.idx \in Slots /\ d.idx \in b.segs[d.seg].used
<1>1. PICK s \in 1 .. Len(b.segs) : \E j \in b.segs[s].used : d = [seg |-> s, idx |-> j]
  BY TakenIs
<1>2. PICK i \in b.segs[s].used : d = [seg |-> s, idx |-> i]
  BY <1>1
<1>3. d.seg = s /\ d.idx = i
  BY <1>2
<1>4. i \in Slots
  <2>1. b.segs[s] \in Bitmaps
    BY <1>1 DEF IsBuffer
  <2>. QED  BY <1>2, <2>1 DEF Bitmaps
<1>. QED  BY <1>1, <1>2, <1>3, <1>4

\* The new buffer: one segment, nothing taken.
LEMMA NewBufferIsBuffer == IsBuffer(NewBuffer) /\ IsCounted(NewBuffer) /\ Taken(NewBuffer) = {}
<1>1. PICK b : b = NewBuffer
  OBVIOUS
<1>2. NewBitmap \in Bitmaps /\ NewBitmap.used = {}
  BY SpillAssumption DEF NewBitmap, Bitmaps
<1>3. b = [segs |-> <<NewBitmap>>, cur |-> 1, total |-> 0]
  BY <1>1 DEF NewBuffer
<1>4. b.segs = <<NewBitmap>> /\ b.cur = 1 /\ b.total = 0
  BY <1>3
<1>5. b.segs \in Seq(Bitmaps) /\ Len(b.segs) = 1 /\ b.segs[1] = NewBitmap
  BY <1>2, <1>4
<1>6. IsBuffer(b)
  BY <1>3, <1>4, <1>5 DEF IsBuffer
<1>7. Taken(b) = {}
  <2>1. \A d : d \notin Taken(b)
    BY <1>2, <1>5, <1>6, TakenIs
  <2>. QED  BY <2>1
<1>. QED  BY <1>1, <1>4, <1>6, <1>7, FS_EmptySet DEF IsCounted

\* Allocate looks from curSegment on, and passes over full segments only.
LEMMA CurrentHasRoom ==
  ASSUME NEW b, IsBuffer(b)
  PROVE  /\ Current(b) \in b.cur .. (Len(b.segs) + 1)
         /\ Current(b) # Len(b.segs) + 1 => ~IsFull(b.segs[Current(b)])
         /\ \A s \in 1 .. (Current(b) - 1) : b.segs[s].used = Slots
<1>1. PICK L, k : L = Len(b.segs) /\ k = b.cur /\ L \in Nat /\ k \in 1 .. L
  BY DEF IsBuffer
<1>2. PICK T : T = {s \in k .. L : ~IsFull(b.segs[s])} \cup {L + 1}
  OBVIOUS
<1>3. T \in SUBSET Nat /\ T # {}
  BY <1>1, <1>2
<1>4. PICK c : c = Min(T)
  OBVIOUS
<1>5. c \in T /\ \A s \in T : c <= s
  BY <1>3, <1>4, MinOf
<1>6. Current(b) = c
  BY <1>1, <1>2, <1>4, Zenon DEF Current
<1>7. c \in k .. (L + 1) /\ (c # L + 1 => ~IsFull(b.segs[c]))
  BY <1>1, <1>2, <1>5
<1>8. ASSUME NEW s \in 1 .. (c - 1) PROVE b.segs[s].used = Slots
  <2>1. CASE s < k
    <3>1. s \in 1 .. (b.cur - 1)
      BY <1>1, <2>1
    <3>. QED  BY <3>1 DEF IsBuffer
  <2>2. CASE ~(s < k)
    <3>1. s \in k .. L /\ ~(c <= s)
      BY <1>1, <1>7, <2>2
    <3>2. s \notin T
      BY <1>5, <3>1
    <3>3. IsFull(b.segs[s])
      BY <1>2, <3>1, <3>2
    <3>4. b.segs[s] \in Bitmaps
      BY <1>1, <3>1 DEF IsBuffer
    <3>. QED  BY <3>3, <3>4, ScanFinds
  <2>. QED  BY <2>1, <2>2
<1>. QED  BY <1>1, <1>6, <1>7, <1>8

\* Room adds a segment if it must; the slots taken are the same.
HasRoomAt(b, c, r) ==
  /\ IsBuffer(r) /\ Taken(r) = Taken(b) /\ r.total = b.total
  /\ Len(b.segs) <= Len(r.segs)
  /\ c \in 1 .. Len(r.segs) /\ ~IsFull(r.segs[c])
  /\ \A s \in 1 .. (c - 1) : r.segs[s].used = Slots

\* With addSegment there is a segment with a free slot.
LEMMA MakesRoom ==
  ASSUME NEW b, IsBuffer(b), NEW c, c = Current(b), NEW r, r = Room(b)
  PROVE  HasRoomAt(b, c, r)
<1>1. PICK L, k : L = Len(b.segs) /\ k = b.cur /\ L \in Nat /\ k \in 1 .. L
  BY DEF IsBuffer
<1>2. /\ c \in k .. (L + 1) /\ (c # L + 1 => ~IsFull(b.segs[c]))
      /\ \A s \in 1 .. (c - 1) : b.segs[s].used = Slots
  BY <1>1, CurrentHasRoom
<1>3. CASE c # L + 1
  <2>1. ~(c > L) /\ c \in 1 .. L
    BY <1>1, <1>2, <1>3
  <2>2. r = b
    BY <1>1, <2>1 DEF Room
  <2>. QED  BY <1>1, <1>2, <1>3, <2>1, <2>2 DEF HasRoomAt
<1>4. CASE c = L + 1
  <2>1. c > L
    BY <1>1, <1>4
  <2>2. r = [b EXCEPT !.segs = Append(b.segs, NewBitmap)]
    BY <1>1, <2>1 DEF Room, AddSegment
  <2>3. NewBitmap \in Bitmaps /\ NewBitmap.used = {}
    BY SpillAssumption DEF NewBitmap, Bitmaps
  <2>4. PICK segs : segs = Append(b.segs, NewBitmap)
    OBVIOUS
  <2>5. b.segs \in Seq(Bitmaps)
    BY DEF IsBuffer
  <2>6. /\ segs \in Seq(Bitmaps) /\ Len(segs) = L + 1 /\ segs[L + 1] = NewBitmap
        /\ \A s \in 1 .. L : segs[s] = b.segs[s]
    BY <1>1, <2>3, <2>4, <2>5
  <2>7. r = [segs |-> segs, cur |-> b.cur, total |-> b.total]
    <3>1. b = [segs |-> b.segs, cur |-> b.cur, total |-> b.total]
      BY DEF IsBuffer
    <3>. QED  BY <2>2, <2>4, <3>1
  <2>8. r.segs = segs /\ r.cur = b.cur /\ r.total = b.total
    BY <2>7
  <2>9. \A s \in 1 .. (c - 1) : r.segs[s].used = Slots
    BY <1>1, <1>2, <1>4, <2>6, <2>8
  <2>10. IsBuffer(r)
    <3>1. r = [segs |-> r.segs, cur |-> r.cur, total |-> r.total]
      BY <2>7, <2>8
    <3>2. r.segs \in Seq(Bitmaps) /\ r.cur \in 1 .. Len(r.segs) /\ r.total \in Int
      BY <1>1, <2>6, <2>8 DEF IsBuffer
    <3>3. \A s \in 1 .. (r.cur - 1) : s \in 1 .. (c - 1)
      BY <1>1, <1>4, <2>8
    <3>. QED  BY <2>9, <3>1, <3>2, <3>3 DEF IsBuffer
  <2>11. ~IsFull(NewBitmap)
    <3>1. 0 \in Slots
      BY SpillAssumption DEF Slots
    <3>. QED  BY <2>3, <3>1, ScanFinds
  <2>12. ASSUME NEW d PROVE d \in Taken(r) <=> d \in Taken(b)
    <3>1. d \in Taken(r) <=> \E s \in 1 .. (L + 1) : \E i \in segs[s].used :
                               d = [seg |-> s, idx |-> i]
      BY <2>6, <2>8, <2>10, TakenIs
    <3>2. d \in Taken(b) <=> \E s \in 1 .. L : \E i \in b.segs[s].used :
                               d = [seg |-> s, idx |-> i]
      BY <1>1, TakenIs
    <3>3. \A s \in 1 .. (L + 1) : s \in 1 .. L \/ s = L + 1
      BY <1>1
    <3>4. \A s \in 1 .. L : s \in 1 .. (L + 1)
      BY <1>1
    <3>. QED  BY <2>3, <2>6, <3>1, <3>2, <3>3, <3>4
  <2>13. Taken(r) \subseteq Taken(b) /\ Taken(b) \subseteq Taken(r)
    BY <2>12, Zenon
  <2>14. Taken(r) = Taken(b)
    BY <2>13
  <2>15. c \in 1 .. Len(r.segs) /\ ~IsFull(r.segs[c]) /\ Len(b.segs) <= Len(r.segs)
    BY <1>1, <1>4, <2>6, <2>8, <2>11
  <2>. QED  BY <2>8, <2>9, <2>10, <2>14, <2>15, Zenon DEF HasRoomAt
<1>. QED  BY <1>3, <1>4

\* One more slot is taken, and that it was not before.
IsAllocation(b, d, c) ==
  /\ IsBuffer(c) /\ Len(b.segs) <= Len(c.segs)
  /\ d \notin Taken(b) /\ Taken(c) = Taken(b) \cup {d} /\ c.total = b.total + 1
  /\ d = [seg |-> d.seg, idx |-> d.idx] /\ d.seg \in 1 .. Len(c.segs) /\ d.idx \in Slots

\* spill.Buffer.Allocate takes a slot nobody had, and no other.
LEMMA Allocates ==
  ASSUME NEW b, IsBuffer(b), NEW d, d = AllocatedAt(b), NEW a, a = Allocate(b)
  PROVE  IsAllocation(b, d, a)
<1>1. PICK c, r : c = Current(b) /\ r = Room(b)
  OBVIOUS
<1>2. HasRoomAt(b, c, r)
  BY <1>1, MakesRoom, Zenon
<1>3. /\ IsBuffer(r) /\ Taken(r) = Taken(b) /\ r.total = b.total
      /\ Len(b.segs) <= Len(r.segs)
      /\ c \in 1 .. Len(r.segs) /\ ~IsFull(r.segs[c])
      /\ \A s \in 1 .. (c - 1) : r.segs[s].used = Slots
  BY <1>2, Zenon DEF HasRoomAt
<1>4. PICK L \in Nat : L = Len(r.segs)
  BY <1>3 DEF IsBuffer
<1>5. r.segs \in Seq(Bitmaps) /\ r.segs[c] \in Bitmaps /\ c \in 1 .. L
  BY <1>3, <1>4 DEF IsBuffer
<1>6. PICK i : i = FreeSlot(r.segs[c])
  OBVIOUS
<1>7. i \in Slots \ r.segs[c].used
  BY <1>3, <1>5, <1>6, ScanFinds
<1>8. d = [seg |-> c, idx |-> i]
  BY <1>1, <1>6 DEF AllocatedAt
<1>9. PICK bit : bit = AllocateBit(r.segs[c])
  OBVIOUS
<1>10. bit = [used |-> r.segs[c].used \cup {i}, hint |-> i + 1]
  BY <1>6, <1>9 DEF AllocateBit
<1>11. bit \in Bitmaps /\ bit.used = r.segs[c].used \cup {i}
  <2>1. i + 1 \in 0 .. SegmentCap
    BY <1>7, SpillAssumption DEF Slots
  <2>2. r.segs[c].used \cup {i} \in SUBSET Slots
    BY <1>5, <1>7 DEF Bitmaps
  <2>. QED  BY <1>10, <2>1, <2>2 DEF Bitmaps
<1>12. PICK segs : segs = [r.segs EXCEPT ![c] = bit]
  OBVIOUS
<1>13. /\ segs \in Seq(Bitmaps) /\ Len(segs) = L /\ segs[c] = bit
       /\ \A s \in 1 .. L : s # c => segs[s] = r.segs[s]
  BY <1>4, <1>5, <1>11, <1>12
<1>14. a = [segs |-> segs, cur |-> c, total |-> b.total + 1]
  <2>1. r = [segs |-> r.segs, cur |-> r.cur, total |-> r.total]
    BY <1>3 DEF IsBuffer
  <2>2. a = [r EXCEPT !.segs[c] = AllocateBit(@), !.cur = c, !.total = @ + 1]
    BY <1>1, Zenon DEF Allocate
  <2>3. a = [r EXCEPT !.segs = segs, !.cur = c, !.total = r.total + 1]
    BY <1>9, <1>12, <2>2
  <2>. QED  BY <1>3, <2>1, <2>3
<1>15. a.segs = segs /\ a.cur = c /\ a.total = b.total + 1
  BY <1>14
<1>16. IsBuffer(a)
  <2>1. a = [segs |-> a.segs, cur |-> a.cur, total |-> a.total]
    BY <1>14, <1>15
  <2>2. a.segs \in Seq(Bitmaps) /\ a.cur \in 1 .. Len(a.segs)
    BY <1>5, <1>13, <1>15
  <2>3. b.total + 1 \in Int
    BY DEF IsBuffer
  <2>4. \A s \in 1 .. (c - 1) : s \in 1 .. L /\ s # c
    BY <1>5
  <2>5. \A s \in 1 .. (c - 1) : segs[s].used = Slots
    BY <1>3, <1>13, <2>4
  <2>. QED  BY <1>15, <2>1, <2>2, <2>3, <2>5 DEF IsBuffer
<1>17. ASSUME NEW x PROVE x \in Taken(a) <=> (x \in Taken(b) \/ x = d)
  <2>1. x \in Taken(a) <=> \E s \in 1 .. L : \E j \in segs[s].used : x = [seg |-> s, idx |-> j]
    BY <1>13, <1>15, <1>16, TakenIs
  <2>2. x \in Taken(b) <=> \E s \in 1 .. L : \E j \in r.segs[s].used : x = [seg |-> s, idx |-> j]
    BY <1>3, <1>4, TakenIs
  <2>. QED  BY <1>5, <1>8, <1>11, <1>13, <2>1, <2>2
<1>18. Taken(a) = Taken(b) \cup {d}
  BY <1>17
<1>19. d \notin Taken(b)
  <2>1. SUFFICES ASSUME d \in Taken(r) PROVE FALSE
    BY <1>3
  <2>2. d.idx \in r.segs[d.seg].used
    BY <1>3, <2>1, TakenIsPlace
  <2>3. d.seg = c /\ d.idx = i
    BY <1>8
  <2>. QED  BY <1>7, <2>2, <2>3
<1>20. d = [seg |-> d.seg, idx |-> d.idx] /\ d.seg \in 1 .. Len(a.segs) /\ d.idx \in Slots
  BY <1>5, <1>7, <1>8, <1>13, <1>15
<1>21. Len(b.segs) <= Len(a.segs)
  BY <1>3, <1>4, <1>13, <1>15
<1>. QED  BY <1>15, <1>16, <1>18, <1>19, <1>20, <1>21, Zenon DEF IsAllocation

\* The count stays right.
LEMMA AllocationIsCounted ==
  ASSUME NEW b, IsCounted(b), NEW d, NEW c, IsAllocation(b, d, c)
  PROVE  IsCounted(c)
<1>1. d \notin Taken(b) /\ Taken(c) = Taken(b) \cup {d} /\ c.total = b.total + 1
  BY Zenon DEF IsAllocation
<1>2. IsFiniteSet(Taken(b)) /\ b.total = Cardinality(Taken(b))
  BY Zenon DEF IsCounted
<1>3. IsFiniteSet(Taken(c)) /\ Cardinality(Taken(c)) = Cardinality(Taken(b)) + 1
  BY <1>1, <1>2, FS_AddElement
<1>. QED  BY <1>1, <1>2, <1>3 DEF IsCounted

\* Where a Slot's page lies.
PlaceIn(slot) == [seg |-> slot.seg + 1, idx |-> slot.idx]
SlotRecords == [seg : Nat, idx : Nat]

\* A bit is cleared.
LEMMA Frees ==
  ASSUME NEW bm \in Bitmaps, NEW i \in Nat
  PROVE  FreeBit(bm, i) \in Bitmaps /\ FreeBit(bm, i).used = bm.used \ {i}
<1>1. PICK c \in Nat : c = SegmentCap
  BY SpillAssumption
<1>2. bm.used \in SUBSET Slots /\ bm.hint \in 0 .. c
  BY <1>1 DEF Bitmaps
<1>3. CASE i \in Slots
  <2>1. Min({i, bm.hint}) \in {i, bm.hint}
    <3>1. {i, bm.hint} \in SUBSET Nat /\ {i, bm.hint} # {}
      BY <1>2
    <3>. QED  BY <3>1, MinOf
  <2>2. Min({i, bm.hint}) \in 0 .. c
    BY <1>1, <1>2, <1>3, <2>1 DEF Slots
  <2>3. FreeBit(bm, i) = [used |-> bm.used \ {i}, hint |-> Min({i, bm.hint})]
    BY <1>3 DEF FreeBit
  <2>. QED  BY <1>1, <1>2, <2>2, <2>3 DEF Bitmaps
<1>4. CASE i \notin Slots
  BY <1>2, <1>4 DEF FreeBit
<1>. QED  BY <1>3, <1>4

\* A slot that is taken is free afterwards, and no other changes.
IsReleased(b, slot, c) ==
  /\ IsBuffer(c) /\ Len(c.segs) = Len(b.segs)
  /\ PlaceIn(slot) \in Taken(b) => /\ Taken(c) = Taken(b) \ {PlaceIn(slot)}
                                   /\ c.total = b.total - 1

\* Buffer.Release gives one slot back; none before curSegment is free then.
LEMMA Releases ==
  ASSUME NEW b, IsBuffer(b), NEW slot \in SlotRecords, NEW c, c = Release(b, slot)
  PROVE  IsReleased(b, slot, c)
<1>1. PICK s \in Nat, i \in Nat : s = slot.seg + 1 /\ i = slot.idx /\ s # 0
  BY DEF SlotRecords
<1>2. PICK d : d = PlaceIn(slot) /\ d = [seg |-> s, idx |-> i] /\ d.seg = s /\ d.idx = i
  <2>1. PlaceIn(slot) = [seg |-> s, idx |-> i]
    BY <1>1 DEF PlaceIn
  <2>. QED  BY <2>1
<1>3. PICK L \in Nat : L = Len(b.segs)
  BY DEF IsBuffer
<1>4. CASE s > L
  <2>1. c = b
    BY <1>1, <1>3, <1>4 DEF Release
  <2>2. d \notin Taken(b)
    <3>1. SUFFICES ASSUME d \in Taken(b) PROVE FALSE
      OBVIOUS
    <3>2. d.seg \in 1 .. L
      BY <1>3, <3>1, TakenIsPlace
    <3>. QED  BY <1>2, <1>4, <3>2
  <2>. QED  BY <1>2, <2>1, <2>2 DEF IsReleased
<1>5. CASE ~(s > L)
  <2>1. s \in 1 .. L
    BY <1>1, <1>5
  <2>2. b.segs \in Seq(Bitmaps) /\ b.segs[s] \in Bitmaps /\ b.cur \in 1 .. L
    BY <1>3, <2>1 DEF IsBuffer
  <2>3. PICK bm : bm = FreeBit(b.segs[s], i)
    OBVIOUS
  <2>4. bm \in Bitmaps /\ bm.used = b.segs[s].used \ {i}
    BY <2>2, <2>3, Frees
  <2>5. PICK segs : segs = [b.segs EXCEPT ![s] = bm]
    OBVIOUS
  <2>6. /\ segs \in Seq(Bitmaps) /\ Len(segs) = L /\ segs[s] = bm
        /\ \A x \in 1 .. L : x # s => segs[x] = b.segs[x]
    BY <1>3, <2>1, <2>2, <2>4, <2>5
  <2>7. PICK cur : cur = Min({s, b.cur})
    OBVIOUS
  <2>8. cur \in {s, b.cur} /\ cur <= s /\ cur <= b.cur
    <3>1. {s, b.cur} \in SUBSET Nat /\ {s, b.cur} # {}
      BY <2>1, <2>2
    <3>2. cur \in {s, b.cur} /\ \A y \in {s, b.cur} : cur <= y
      BY <2>7, <3>1, MinOf
    <3>. QED  BY <3>2
  <2>9. c = [segs |-> segs, cur |-> cur, total |-> b.total - 1]
    <3>1. b = [segs |-> b.segs, cur |-> b.cur, total |-> b.total]
      BY DEF IsBuffer
    <3>2. c = [b EXCEPT !.segs[s] = FreeBit(@, i), !.total = @ - 1, !.cur = Min({s, @})]
      BY <1>1, <1>3, <1>5 DEF Release
    <3>3. c = [b EXCEPT !.segs = segs, !.total = b.total - 1, !.cur = cur]
      BY <2>3, <2>5, <2>7, <3>2
    <3>. QED  BY <3>1, <3>3
  <2>10. c.segs = segs /\ c.cur = cur /\ c.total = b.total - 1
    BY <2>9
  <2>11. IsBuffer(c)
    <3>1. c = [segs |-> c.segs, cur |-> c.cur, total |-> c.total]
      BY <2>9, <2>10
    <3>2. c.segs \in Seq(Bitmaps) /\ c.cur \in 1 .. Len(c.segs)
      BY <2>1, <2>2, <2>6, <2>8, <2>10
    <3>3. c.total \in Int
      BY <2>10 DEF IsBuffer
    <3>4. \A x \in 1 .. (cur - 1) : x \in 1 .. L /\ x # s /\ x \in 1 .. (b.cur - 1)
      BY <2>1, <2>2, <2>8
    <3>5. \A x \in 1 .. (cur - 1) : segs[x].used = Slots
      BY <2>6, <3>4 DEF IsBuffer
    <3>. QED  BY <2>10, <3>1, <3>2, <3>3, <3>5 DEF IsBuffer
  <2>12. ASSUME NEW x PROVE x \in Taken(c) <=> (x \in Taken(b) /\ x # d)
    <3>1. x \in Taken(c) <=> \E y \in 1 .. L : \E j \in segs[y].used : x = [seg |-> y, idx |-> j]
      BY <2>6, <2>10, <2>11, TakenIs
    <3>2. x \in Taken(b) <=> \E y \in 1 .. L : \E j \in b.segs[y].used : x = [seg |-> y, idx |-> j]
      BY <1>3, TakenIs
    <3>3. ASSUME x \in Taken(c) PROVE x \in Taken(b) /\ x # d
      <4>1. PICK y \in 1 .. L : \E j \in segs[y].used : x = [seg |-> y, idx |-> j]
        BY <3>1, <3>3
      <4>2. PICK j \in segs[y].used : x = [seg |-> y, idx |-> j]
        BY <4>1
      <4>3. j \in b.segs[y].used /\ (y # s \/ j # i)
        BY <2>4, <2>6, <4>2
      <4>4. x.seg = y /\ x.idx = j
        BY <4>2
      <4>. QED  BY <1>2, <3>2, <4>2, <4>3, <4>4
    <3>4. ASSUME x \in Taken(b), x # d PROVE x \in Taken(c)
      <4>1. PICK y \in 1 .. L : \E j \in b.segs[y].used : x = [seg |-> y, idx |-> j]
        BY <3>2, <3>4
      <4>2. PICK j \in b.segs[y].used : x = [seg |-> y, idx |-> j]
        BY <4>1
      <4>3. y # s \/ j # i
        BY <1>2, <3>4, <4>2
      <4>4. j \in segs[y].used
        BY <2>4, <2>6, <4>2, <4>3
      <4>. QED  BY <3>1, <4>2, <4>4
    <3>. QED  BY <3>3, <3>4
  <2>13. Taken(c) = Taken(b) \ {d}
    BY <2>12
  <2>. QED  BY <1>2, <1>3, <2>6, <2>10, <2>11, <2>13 DEF IsReleased
<1>. QED  BY <1>4, <1>5

\* The first n slots have been given back.
IsReleasing(b, slots, n, f) ==
  f = [j \in 0 .. n |-> IF j = 0 THEN b ELSE Release(f[j - 1], slots[j])]

\* The loop of ReleaseBulk gives a buffer for each number of slots done.
LEMMA ReleasingExists ==
  ASSUME NEW b, NEW slots, NEW N \in Nat
  PROVE  \E f : IsReleasing(b, slots, N, f)
<1>. DEFINE Done == {n \in Nat : \E f : IsReleasing(b, slots, n, f)}
<1>1. 0 \in Done
  <2>1. PICK f : f = [j \in 0 .. 0 |-> b]
    OBVIOUS
  <2>2. IsReleasing(b, slots, 0, f)
    BY <2>1 DEF IsReleasing
  <2>. QED  BY <2>2
<1>2. ASSUME NEW n \in 0 .. (N - 1), n \in Done PROVE n + 1 \in Done
  <2>1. PICK f : IsReleasing(b, slots, n, f)
    BY <1>2
  <2>2. PICK new : new = Release(f[n], slots[n + 1])
    OBVIOUS
  <2>3. PICK g : g = [j \in 0 .. (n + 1) |-> IF j = n + 1 THEN new ELSE f[j]]
    OBVIOUS
  <2>4. \A j \in 0 .. n : f[j] = IF j = 0 THEN b ELSE Release(f[j - 1], slots[j])
    BY <2>1, Zenon DEF IsReleasing
  <2>5. ASSUME NEW j \in 0 .. (n + 1)
        PROVE  g[j] = IF j = 0 THEN b ELSE Release(g[j - 1], slots[j])
    <3>1. CASE j = n + 1
      <4>1. g[j] = new /\ g[j - 1] = f[n] /\ j # 0
        BY <2>3, <3>1
      <4>. QED  BY <2>2, <3>1, <4>1, Zenon
    <3>2. CASE j # n + 1
      <4>1. j \in 0 .. n /\ g[j] = f[j]
        BY <2>3, <3>2
      <4>2. j # 0 => g[j - 1] = f[j - 1]
        BY <2>3, <4>1
      <4>. QED  BY <2>4, <4>1, <4>2, Zenon
    <3>. QED  BY <3>1, <3>2
  <2>6. IsReleasing(b, slots, n + 1, g)
    BY <2>3, <2>5, Zenon DEF IsReleasing
  <2>. QED  BY <2>6
<1>. HIDE DEF Done
<1>3. N \in Done
  BY <1>1, <1>2, UpTo
<1>. QED  BY <1>3 DEF Done

\* ReleaseBulk takes the last of them.
LEMMA BulkIsReleasing ==
  ASSUME NEW b, NEW slots, Len(slots) \in Nat
  PROVE  \E f : IsReleasing(b, slots, Len(slots), f) /\ ReleaseBulk(b, slots) = f[Len(slots)]
<1>. DEFINE freed[n \in 0 .. Len(slots)] == IF n = 0 THEN b ELSE Release(freed[n - 1], slots[n])
<1>1. \E f : f = [n \in 0 .. Len(slots) |-> IF n = 0 THEN b ELSE Release(f[n - 1], slots[n])]
  <2>1. \E f : IsReleasing(b, slots, Len(slots), f)
    BY ReleasingExists
  <2>. QED  BY <2>1, Zenon DEF IsReleasing
<1>2. freed = [n \in 0 .. Len(slots) |-> IF n = 0 THEN b ELSE Release(freed[n - 1], slots[n])]
  BY <1>1, Zenon
<1>3. ReleaseBulk(b, slots) = freed[Len(slots)]
  BY Zenon DEF ReleaseBulk
<1>4. IsReleasing(b, slots, Len(slots), freed)
  BY <1>2, Zenon DEF IsReleasing
<1>. QED  BY <1>3, <1>4, Zenon

\* Slots that are taken, none of them twice.
AreTaken(b, slots) ==
  /\ \A j \in 1 .. Len(slots) : PlaceIn(slots[j]) \in Taken(b)
  /\ \A j, l \in 1 .. Len(slots) : slots[j] = slots[l] => j = l

GivenBack(slots, n) == {PlaceIn(slots[j]) : j \in 1 .. n}

AreReleased(b, slots, n, c) ==
  /\ IsBuffer(c) /\ Len(c.segs) = Len(b.segs)
  /\ AreTaken(b, slots) => /\ Taken(c) = Taken(b) \ GivenBack(slots, n)
                           /\ IsCounted(b) => IsCounted(c)

\* One more slot of the list is released.
LEMMA ReleasesOn ==
  ASSUME NEW b, NEW slots \in Seq(SlotRecords), NEW n \in 0 .. (Len(slots) - 1),
         NEW a, AreReleased(b, slots, n, a), NEW c, c = Release(a, slots[n + 1])
  PROVE  AreReleased(b, slots, n + 1, c)
<1>1. PICK m \in 1 .. Len(slots) : m = n + 1
  OBVIOUS
<1>2. PICK slot \in SlotRecords : slot = slots[m]
  OBVIOUS
<1>3. IsBuffer(a) /\ Len(a.segs) = Len(b.segs)
  BY Zenon DEF AreReleased
<1>4. IsReleased(a, slot, c)
  <2>1. c = Release(a, slot)
    BY <1>1, <1>2
  <2>. QED  BY <1>3, <2>1, Releases, Zenon
<1>5. IsBuffer(c) /\ Len(c.segs) = Len(b.segs)
  BY <1>3, <1>4, Zenon DEF IsReleased
<1>6. ASSUME AreTaken(b, slots)
      PROVE  /\ Taken(c) = Taken(b) \ GivenBack(slots, n + 1)
             /\ IsCounted(b) => IsCounted(c)
  <2>1. Taken(a) = Taken(b) \ GivenBack(slots, n) /\ (IsCounted(b) => IsCounted(a))
    BY <1>6, Zenon DEF AreReleased
  <2>2. PlaceIn(slot) \in Taken(b)
    BY <1>2, <1>6, Zenon DEF AreTaken
  <2>3. ASSUME NEW j \in 1 .. n PROVE PlaceIn(slots[j]) # PlaceIn(slot)
    <3>1. j \in 1 .. Len(slots) /\ j # m
      BY <1>1
    <3>2. slots[j] # slot
      BY <1>2, <1>6, <3>1, Zenon DEF AreTaken
    <3>3. PICK x \in SlotRecords : x = slots[j]
      BY <3>1
    <3>4. x.seg # slot.seg \/ x.idx # slot.idx
      <4>1. x = [seg |-> x.seg, idx |-> x.idx] /\ slot = [seg |-> slot.seg, idx |-> slot.idx]
        BY DEF SlotRecords
      <4>. QED  BY <3>2, <3>3, <4>1
    <3>5. x.seg \in Nat /\ slot.seg \in Nat
      BY DEF SlotRecords
    <3>. QED  BY <3>3, <3>4, <3>5 DEF PlaceIn
  <2>4. PlaceIn(slot) \in Taken(a)
    BY <2>1, <2>2, <2>3 DEF GivenBack
  <2>5. Taken(c) = Taken(a) \ {PlaceIn(slot)} /\ c.total = a.total - 1
    BY <1>4, <2>4, Zenon DEF IsReleased
  <2>6. 1 .. (n + 1) = (1 .. n) \cup {m}
    BY <1>1
  <2>7. GivenBack(slots, n + 1) = GivenBack(slots, n) \cup {PlaceIn(slot)}
    BY <1>2, <2>6 DEF GivenBack
  <2>8. Taken(c) = Taken(b) \ GivenBack(slots, n + 1)
    BY <2>1, <2>5, <2>7
  <2>9. ASSUME IsCounted(b) PROVE IsCounted(c)
    <3>1. IsFiniteSet(Taken(a)) /\ a.total = Cardinality(Taken(a))
      BY <2>1, <2>9, Zenon DEF IsCounted
    <3>2. /\ IsFiniteSet(Taken(c))
          /\ Cardinality(Taken(c)) = Cardinality(Taken(a)) - 1
      BY <2>4, <2>5, <3>1, FS_RemoveElement
    <3>. QED  BY <2>5, <3>1, <3>2 DEF IsCounted
  <2>. QED  BY <2>8, <2>9
<1>. QED  BY <1>5, <1>6, Zenon DEF AreReleased

\* Buffer.ReleaseBulk gives back the slots of the list and no others.
LEMMA BulkReleases ==
  ASSUME NEW b, IsBuffer(b), NEW slots \in Seq(SlotRecords), NEW c, c = ReleaseBulk(b, slots)
  PROVE  AreReleased(b, slots, Len(slots), c)
<1>1. PICK N \in Nat : N = Len(slots)
  OBVIOUS
<1>2. PICK f : IsReleasing(b, slots, N, f) /\ c = f[N]
  BY <1>1, BulkIsReleasing
<1>3. \A j \in 0 .. N : f[j] = IF j = 0 THEN b ELSE Release(f[j - 1], slots[j])
  BY <1>2, Zenon DEF IsReleasing
<1>4. PICK S : S = {n \in 0 .. N : AreReleased(b, slots, n, f[n])}
  OBVIOUS
<1>5. 0 \in S
  <2>1. f[0] = b
    BY <1>3
  <2>2. GivenBack(slots, 0) = {}
    BY DEF GivenBack
  <2>3. Taken(b) = Taken(b) \ GivenBack(slots, 0)
    BY <2>2
  <2>4. AreReleased(b, slots, 0, f[0])
    BY <2>1, <2>3, Zenon DEF AreReleased
  <2>. QED  BY <1>4, <2>4
<1>6. ASSUME NEW n \in 0 .. (N - 1), n \in S PROVE n + 1 \in S
  <2>1. AreReleased(b, slots, n, f[n])
    BY <1>4, <1>6
  <2>2. n + 1 \in 0 .. N /\ n + 1 # 0 /\ (n + 1) - 1 = n
    OBVIOUS
  <2>3. f[n + 1] = Release(f[n], slots[n + 1])
    BY <1>3, <2>2
  <2>4. n \in 0 .. (Len(slots) - 1)
    BY <1>1
  <2>5. AreReleased(b, slots, n + 1, f[n + 1])
    BY <2>1, <2>3, <2>4, ReleasesOn, Zenon
  <2>6. PICK k : k = n + 1
    OBVIOUS
  <2>7. k \in 0 .. N /\ AreReleased(b, slots, k, f[k])
    BY <2>2, <2>5, <2>6
  <2>8. k \in S
    BY <1>4, <2>7
  <2>. QED  BY <2>6, <2>8
<1>7. N \in S
  <2>1. \A n \in 0 .. (N - 1) : n \in S => n + 1 \in S
    BY <1>6
  <2>2. \A n \in 0 .. N : n \in S
    BY <1>5, <2>1, UpTo, Zenon
  <2>. QED  BY <2>2
<1>. QED  BY <1>1, <1>2, <1>4, <1>7

------------------------------------------------------------------------------
(* Pages and their places                                                  *)

PhaseNames == {"idle", "working", "ended", "panicked"}

\* A transaction object: two tables, the slots' values are Slots.
IsTxn(x) ==
  /\ x = [phase |-> x.phase, dirty |-> x.dirty, slots |-> x.slots, free |-> x.free,
          alloc |-> x.alloc, big |-> x.big, heap |-> x.heap]
  /\ x.phase \in PhaseNames
  /\ IsTable(x.dirty) /\ IsTable(x.slots)
  /\ \A k \in Keys(x.slots) : Get(x.slots, k) \in SlotRecords
  /\ x.free \in Seq(Nat) /\ x.alloc \in Nat /\ x.big \in SUBSET Nat /\ x.heap \in BOOLEAN

\* A page's place is right for its number, and what commit and release go by
\* tells of it: the flag, or the slot under the page's number.  What is in
\* the map's range is in the map.
Home(x, p, place) ==
  /\ \/ place = InMap(p)
     \/ place = OnHeap(p) /\ (writeMap => x.heap)
     \/ place.in = "spill" /\ p \in Keys(x.slots) /\ Get(x.slots, p) = SlotOf(place)
  /\ writeMap /\ p < mapped => place = InMap(p)

\* The tracker agrees with where the pages were last written.
Tracks(x, l) ==
  /\ DOMAIN l \subseteq Nat /\ Keys(x.dirty) \subseteq DOMAIN l
  /\ \A p \in Keys(x.dirty) : Get(x.dirty, p) = l[p] /\ Home(x, p, l[p])
  /\ \A p \in DOMAIN l \ Keys(x.dirty) : l[p] = InMap(p)

\* The state of a call at work, as a triple.
IsState(s) ==
  /\ s = [buf |-> s.buf, t |-> s.t, latest |-> s.latest]
  /\ IsBuffer(s.buf) /\ IsTxn(s.t) /\ Tracks(s.t, s.latest)

\* A Slot is made of two numbers.
LEMMA SlotIsRecord ==
  ASSUME NEW d, d.seg \in Nat \ {0}, d.idx \in Nat
  PROVE  SlotOf(d) \in SlotRecords
<1>1. PICK n \in Nat \ {0} : n = IndexMod
  BY SpillAssumption
<1>2. PICK a, c : a = d.seg - 1 /\ c = d.idx /\ a \in Nat /\ c \in Nat
  OBVIOUS
<1>3. a % n \in Nat /\ c % n \in Nat
  BY <1>2
<1>. QED  BY <1>1, <1>2, <1>3 DEF SlotOf, SlotRecords

\* The tracker's table after dirtyTracker.set, the slots' after spillSlots.Set.
LEMMA PlaceIsPut ==
  ASSUME NEW m, IsTable(m), NEW p \in Nat, NEW place \in Places, NEW t, t = Set(m, p, place)
  PROVE  IsPut(m, p, place, t)
<1>1. [key |-> p, val |-> place] # Unused
  BY DirtyAssumption
<1>. QED  BY <1>1, Sets, Zenon

\* The same of the slots' table.
LEMMA SlotIsPut ==
  ASSUME NEW m, IsTable(m), NEW p \in Nat, NEW slot \in SlotRecords, NEW t, t = Set(m, p, slot)
  PROVE  IsPut(m, p, slot, t)
<1>1. [key |-> p, val |-> slot] # Unused
  BY DirtyAssumption DEF SlotRecords
<1>. QED  BY <1>1, Sets, Zenon

\* The slots of other pages are as they were.
OtherSlotsStay(x, p, y) ==
  \A q \in Keys(x.slots) \ {p} : q \in Keys(y.slots) /\ Get(y.slots, q) = Get(x.slots, q)

\* A page's place stays right when another page gets one.
LEMMA HomesStay ==
  ASSUME NEW x, NEW p, NEW y, OtherSlotsStay(x, p, y), x.heap => y.heap,
         NEW q, q # p, NEW place, Home(x, q, place)
  PROVE  Home(y, q, place)
BY Zenon DEF Home, OtherSlotsStay

\* One page has a new place, and all agree on it.
LEMMA TracksOn ==
  ASSUME NEW x, NEW l, Tracks(x, l), NEW p \in Nat, NEW place, NEW y,
         IsPut(x.dirty, p, place, y.dirty), OtherSlotsStay(x, p, y), x.heap => y.heap,
         Home(y, p, place), NEW k, k = Placed(l, p, place)
  PROVE  Tracks(y, k)
<1>1. /\ DOMAIN l \subseteq Nat /\ Keys(x.dirty) \subseteq DOMAIN l
      /\ \A q \in Keys(x.dirty) : Get(x.dirty, q) = l[q] /\ Home(x, q, l[q])
      /\ \A q \in DOMAIN l \ Keys(x.dirty) : l[q] = InMap(q)
  BY Zenon DEF Tracks
<1>2. /\ Keys(y.dirty) = Keys(x.dirty) \cup {p} /\ Get(y.dirty, p) = place
      /\ \A q \in Keys(x.dirty) \ {p} : Get(y.dirty, q) = Get(x.dirty, q)
  BY Zenon DEF IsPut
<1>3. /\ DOMAIN k = {p} \cup DOMAIN l /\ k[p] = place
      /\ \A q \in DOMAIN l \ {p} : k[q] = l[q]
  BY DEF Placed
<1>4. DOMAIN k \subseteq Nat /\ Keys(y.dirty) \subseteq DOMAIN k
  BY <1>1, <1>2, <1>3
<1>5. ASSUME NEW q \in Keys(y.dirty) PROVE Get(y.dirty, q) = k[q] /\ Home(y, q, k[q])
  <2>1. CASE q = p
    BY <1>2, <1>3, <2>1
  <2>2. CASE q # p
    <3>1. q \in Keys(x.dirty) /\ q \in DOMAIN l
      BY <1>1, <1>2, <2>2
    <3>2. k[q] = l[q] /\ Get(y.dirty, q) = Get(x.dirty, q)
      BY <1>2, <1>3, <2>2, <3>1
    <3>3. Home(y, q, l[q])
      BY <1>1, <2>2, <3>1, HomesStay, Zenon
    <3>. QED  BY <1>1, <3>1, <3>2, <3>3
  <2>. QED  BY <2>1, <2>2
<1>6. ASSUME NEW q \in DOMAIN k \ Keys(y.dirty) PROVE k[q] = InMap(q)
  BY <1>1, <1>2, <1>3
<1>. QED  BY <1>4, <1>5, <1>6, Zenon DEF Tracks

\* The Slot of a page still tells where the page lies.
Unwrapped(place) == PlaceIn(SlotOf(place)) = [seg |-> place.seg, idx |-> place.idx]

\* It does while the segments' numbers fit a Slot.
LEMMA FitsSlot ==
  ASSUME NEW place, place.seg \in 1 .. IndexMod, place.idx \in Slots
  PROVE  Unwrapped(place)
<1>1. PICK n \in Nat \ {0} : n = IndexMod
  BY SpillAssumption
<1>2. PICK a \in 1 .. n, c \in 0 .. (n - 1) : a = place.seg /\ c = place.idx
  BY <1>1, SpillAssumption DEF Slots
<1>3. (a - 1) % n = a - 1 /\ c % n = c
  <2>1. a - 1 \in 0 .. (n - 1)
    OBVIOUS
  <2>. QED  BY <2>1, Round
<1>4. SlotOf(place) = [seg |-> a - 1, idx |-> c]
  BY <1>1, <1>2, <1>3 DEF SlotOf
<1>. QED  BY <1>2, <1>4 DEF Unwrapped, PlaceIn

SlotValues(m) == {Get(m, k) : k \in Keys(m)}
OneKeyEach(m) == \A k, l \in Keys(m) : Get(m, k) = Get(m, l) => k = l

\* The transaction's slots are taken, none twice and none of U, which other
\* transactions have; its spilled pages lie in them.
Owns(s, U) ==
  /\ IsCounted(s.buf)
  /\ \A v \in U \cup SlotValues(s.t.slots) : PlaceIn(v) \in Taken(s.buf)
  /\ U \cap SlotValues(s.t.slots) = {}
  /\ OneKeyEach(s.t.slots)
  /\ \A p \in Keys(s.t.dirty) : s.latest[p].in = "spill" => Unwrapped(s.latest[p])

Few(b) == Len(b.segs) <= IndexMod

\* A call's way from one triple to another.
LeadsTo(s, r) ==
  /\ IsState(r) /\ Len(s.buf.segs) <= Len(r.buf.segs)
  /\ \A U : Owns(s, U) /\ Few(r.buf) => Owns(r, U)

\* What a call changes after the pages have their places.
SameRest(s, r) ==
  r.t.alloc = s.t.alloc /\ r.t.phase = s.t.phase /\ r.t.free = s.t.free /\ r.t.big = s.t.big

\* Calls one after the other.
LEMMA LeadsOn ==
  ASSUME NEW s, IsState(s), NEW r, NEW q, LeadsTo(s, r), LeadsTo(r, q)
  PROVE  LeadsTo(s, q)
<1>1. /\ IsState(r) /\ Len(s.buf.segs) <= Len(r.buf.segs)
      /\ \A U : Owns(s, U) /\ Few(r.buf) => Owns(r, U)
  BY Zenon DEF LeadsTo
<1>2. /\ IsState(q) /\ Len(r.buf.segs) <= Len(q.buf.segs)
      /\ \A U : Owns(r, U) /\ Few(q.buf) => Owns(q, U)
  BY Zenon DEF LeadsTo
<1>3. Len(s.buf.segs) \in Nat /\ Len(r.buf.segs) \in Nat /\ Len(q.buf.segs) \in Nat
  BY <1>1, <1>2 DEF IsState, IsBuffer
<1>4. Len(s.buf.segs) <= Len(q.buf.segs)
  BY <1>1, <1>2, <1>3
<1>5. Few(q.buf) => Few(r.buf)
  BY <1>2, <1>3, SpillAssumption DEF Few
<1>6. \A U : Owns(s, U) /\ Few(q.buf) => Owns(q, U)
  BY <1>1, <1>2, <1>5, Zenon
<1>. QED  BY <1>1, <1>2, <1>4, <1>6, Zenon DEF LeadsTo

\* What lies in the buffer now, by table t, has lain there before, by table m.
NoneSpilled(m, l, t, k) ==
  \A q \in Keys(t) : k[q].in = "spill" => q \in Keys(m) /\ k[q] = l[q]

\* A call that leaves the buffer and the slots alone.
LEMMA KeepsSlots ==
  ASSUME NEW s, IsState(s), NEW r, r = [buf |-> s.buf, t |-> r.t, latest |-> r.latest],
         IsTxn(r.t), Tracks(r.t, r.latest), r.t.slots = s.t.slots,
         NoneSpilled(s.t.dirty, s.latest, r.t.dirty, r.latest)
  PROVE  LeadsTo(s, r)
<1>1. r.buf = s.buf /\ IsBuffer(s.buf)
  <2>1. r.buf = s.buf
    OBVIOUS
  <2>. QED  BY <2>1, Zenon DEF IsState
<1>2. IsState(r)
  BY <1>1 DEF IsState
<1>3. ASSUME NEW U, Owns(s, U) PROVE Owns(r, U)
  <2>1. \A q \in Keys(s.t.dirty) : s.latest[q].in = "spill" => Unwrapped(s.latest[q])
    BY <1>3, Zenon DEF Owns
  <2>2. \A q \in Keys(r.t.dirty) : r.latest[q].in = "spill" => Unwrapped(r.latest[q])
    BY <2>1, Zenon DEF NoneSpilled
  <2>. QED  BY <1>1, <1>3, <2>2, Zenon DEF Owns
<1>4. Len(s.buf.segs) <= Len(r.buf.segs)
  <2>1. Len(s.buf.segs) \in Nat
    BY <1>1 DEF IsBuffer
  <2>. QED  BY <1>1, <2>1
<1>. QED  BY <1>2, <1>3, <1>4, Zenon DEF LeadsTo

\* A page has a new place outside the buffer.
LEMMA KeepsOthers ==
  ASSUME NEW m, NEW l, Keys(m) \subseteq DOMAIN l, NEW p, NEW place, place.in # "spill",
         NEW t, IsPut(m, p, place, t), NEW k, k = Placed(l, p, place)
  PROVE  NoneSpilled(m, l, t, k)
<1>1. Keys(t) = Keys(m) \cup {p}
  BY Zenon DEF IsPut
<1>2. k[p] = place /\ \A q \in DOMAIN l \ {p} : k[q] = l[q]
  BY DEF Placed
<1>. QED  BY <1>1, <1>2 DEF NoneSpilled

\* A new page in the map or the buffer.
LEMMA MakesPage ==
  ASSUME NEW s, IsState(s), NEW p \in Nat, NEW r, r = NewPage(s, p)
  PROVE  LeadsTo(s, r) /\ SameRest(s, r)
<1>1. PICK x, l, b : x = s.t /\ l = s.latest /\ b = s.buf
  OBVIOUS
<1>2. s = [buf |-> b, t |-> x, latest |-> l] /\ IsBuffer(b) /\ IsTxn(x) /\ Tracks(x, l)
  BY <1>1, Zenon DEF IsState
<1>3. /\ x = [phase |-> x.phase, dirty |-> x.dirty, slots |-> x.slots, free |-> x.free,
              alloc |-> x.alloc, big |-> x.big, heap |-> x.heap]
      /\ IsTable(x.dirty) /\ IsTable(x.slots)
  BY <1>2, Zenon DEF IsTxn
<1>4. PICK place : place = PlaceOf(s, p)
  OBVIOUS
<1>5. PICK dirty : dirty = Set(x.dirty, p, place)
  OBVIOUS
<1>6. PICK k : k = Placed(l, p, place)
  OBVIOUS
<1>7. CASE writeMap /\ p < mapped
  <2>1. place = InMap(p) /\ place \in Places /\ place.in = "map"
    BY <1>4, <1>7 DEF PlaceOf, InMap, Places
  <2>2. IsPut(x.dirty, p, place, dirty)
    BY <1>3, <1>5, <2>1, PlaceIsPut, Zenon
  <2>3. PICK y : y = [phase |-> x.phase, dirty |-> dirty, slots |-> x.slots, free |-> x.free,
                      alloc |-> x.alloc, big |-> x.big, heap |-> x.heap]
    OBVIOUS
  <2>4. y = [x EXCEPT !.dirty = dirty]
    BY <1>3, <2>3
  <2>5. r = [s EXCEPT !.t = y, !.latest = k]
    BY <1>1, <1>4, <1>5, <1>6, <2>1, <2>4 DEF NewPage
  <2>6. r = [buf |-> b, t |-> y, latest |-> k]
    BY <1>2, <2>5
  <2>7. r.buf = b /\ r.t = y /\ r.latest = k
    BY <2>6
  <2>8. /\ y.phase = x.phase /\ y.dirty = dirty /\ y.slots = x.slots /\ y.free = x.free
        /\ y.alloc = x.alloc /\ y.big = x.big /\ y.heap = x.heap
    BY <2>3
  <2>9. IsTxn(y)
    <3>1. IsTable(dirty)
      BY <2>2, Zenon DEF IsPut
    <3>2. y = [phase |-> y.phase, dirty |-> y.dirty, slots |-> y.slots, free |-> y.free,
               alloc |-> y.alloc, big |-> y.big, heap |-> y.heap]
      BY <2>3, <2>8
    <3>. QED  BY <1>2, <2>8, <3>1, <3>2, Zenon DEF IsTxn
  <2>10. Tracks(y, k)
    <3>1. Home(y, p, place)
      BY <2>1, Zenon DEF Home
    <3>2. OtherSlotsStay(x, p, y)
      BY <2>8 DEF OtherSlotsStay
    <3>3. IsPut(x.dirty, p, place, y.dirty) /\ (x.heap => y.heap)
      BY <2>2, <2>8
    <3>. QED  BY <1>2, <1>6, <3>1, <3>2, <3>3, TracksOn, Zenon
  <2>11. NoneSpilled(x.dirty, l, y.dirty, k)
    <3>1. Keys(x.dirty) \subseteq DOMAIN l
      BY <1>2, Zenon DEF Tracks
    <3>2. place.in # "spill"
      BY <2>1
    <3>3. NoneSpilled(x.dirty, l, dirty, k)
      BY <1>6, <2>2, <3>1, <3>2, KeepsOthers, Zenon
    <3>. QED  BY <2>8, <3>3
  <2>12. r = [buf |-> s.buf, t |-> r.t, latest |-> r.latest] /\ r.t.slots = s.t.slots
    BY <1>1, <2>6, <2>7, <2>8
  <2>13. LeadsTo(s, r)
    BY <1>1, <2>7, <2>9, <2>10, <2>11, <2>12, KeepsSlots, Zenon
  <2>. QED  BY <1>1, <2>7, <2>8, <2>13, Zenon DEF SameRest
<1>8. CASE ~(writeMap /\ p < mapped)
  <2>1. PICK d, c : d = AllocatedAt(b) /\ c = Allocate(b)
    OBVIOUS
  <2>2. IsAllocation(b, d, c)
    BY <1>2, <2>1, Allocates, Zenon
  <2>3. /\ IsBuffer(c) /\ Len(b.segs) <= Len(c.segs)
        /\ d \notin Taken(b) /\ Taken(c) = Taken(b) \cup {d}
        /\ d = [seg |-> d.seg, idx |-> d.idx] /\ d.seg \in 1 .. Len(c.segs) /\ d.idx \in Slots
    BY <2>2, Zenon DEF IsAllocation
  <2>4. d.seg \in Nat \ {0} /\ d.idx \in Nat
    BY <2>3, SpillAssumption DEF Slots
  <2>5. /\ place = InSpill(d) /\ place \in Places /\ place.in = "spill"
        /\ place.seg = d.seg /\ place.idx = d.idx
    <3>1. place = InSpill(d)
      BY <1>1, <1>4, <1>8, <2>1, Zenon DEF PlaceOf
    <3>. QED  BY <2>4, <3>1 DEF InSpill, Places
  <2>6. IsPut(x.dirty, p, place, dirty)
    BY <1>3, <1>5, <2>5, PlaceIsPut, Zenon
  <2>7. PICK v : v = SlotOf(place)
    OBVIOUS
  <2>8. v \in SlotRecords
    BY <2>4, <2>5, <2>7, SlotIsRecord
  <2>9. PICK slots : slots = Set(x.slots, p, v)
    OBVIOUS
  <2>10. IsPut(x.slots, p, v, slots)
    BY <1>3, <2>8, <2>9, SlotIsPut, Zenon
  <2>11. /\ IsTable(slots) /\ Keys(slots) = Keys(x.slots) \cup {p} /\ Get(slots, p) = v
         /\ \A q \in Keys(x.slots) \ {p} : Get(slots, q) = Get(x.slots, q)
    BY <2>10, Zenon DEF IsPut
  <2>12. PICK y : y = [phase |-> x.phase, dirty |-> dirty, slots |-> slots, free |-> x.free,
                       alloc |-> x.alloc, big |-> x.big, heap |-> x.heap]
    OBVIOUS
  <2>13. PICK z : /\ z = [x EXCEPT !.dirty = dirty]
                  /\ z = [phase |-> x.phase, dirty |-> dirty, slots |-> x.slots, free |-> x.free,
                          alloc |-> x.alloc, big |-> x.big, heap |-> x.heap]
    <3>1. PICK z : z = [x EXCEPT !.dirty = dirty]
      OBVIOUS
    <3>2. z = [phase |-> x.phase, dirty |-> dirty, slots |-> x.slots, free |-> x.free,
               alloc |-> x.alloc, big |-> x.big, heap |-> x.heap]
      BY <1>3, <3>1
    <3>. QED  BY <3>1, <3>2
  <2>14. r = [buf |-> c, t |-> y, latest |-> k]
    <3>1. place.in # "map"
      BY <2>5
    <3>3. z.slots = x.slots
      BY <2>13
    <3>2. z = [phase |-> x.phase, dirty |-> dirty, slots |-> x.slots, free |-> x.free,
               alloc |-> x.alloc, big |-> x.big, heap |-> x.heap]
      BY <2>13
    <3>4. y = [z EXCEPT !.slots = slots]
      BY <2>12, <3>2
    <3>7. y = [z EXCEPT !.slots = Set(@, p, SlotOf(place))]
      BY <2>7, <2>9, <3>3, <3>4
    <3>5. z = [s.t EXCEPT !.dirty = Set(@, p, place)]
      BY <1>1, <1>5, <2>13
    <3>6. NewPage(s, p) = [buf |-> Allocate(s.buf),
                           t |-> [z EXCEPT !.slots = Set(@, p, SlotOf(place))],
                           latest |-> Placed(s.latest, p, place)]
      BY <1>4, <3>1, <3>5, Zenon DEF NewPage
    <3>. QED  BY <1>1, <1>6, <2>1, <3>6, <3>7
  <2>15. r.buf = c /\ r.t = y /\ r.latest = k
    BY <2>14
  <2>16. /\ y.phase = x.phase /\ y.dirty = dirty /\ y.slots = slots /\ y.free = x.free
         /\ y.alloc = x.alloc /\ y.big = x.big /\ y.heap = x.heap
    BY <2>12
  <2>17. \A q \in Keys(slots) : Get(slots, q) \in SlotRecords
    BY <1>2, <2>8, <2>11 DEF IsTxn
  <2>18. IsTxn(y)
    <3>1. IsTable(dirty)
      BY <2>6, Zenon DEF IsPut
    <3>2. y = [phase |-> y.phase, dirty |-> y.dirty, slots |-> y.slots, free |-> y.free,
               alloc |-> y.alloc, big |-> y.big, heap |-> y.heap]
      BY <2>12, <2>16
    <3>. QED  BY <1>2, <2>11, <2>16, <2>17, <3>1, <3>2, Zenon DEF IsTxn
  <2>19. Tracks(y, k)
    <3>1. Home(y, p, place)
      <4>1. p \in Keys(y.slots) /\ Get(y.slots, p) = SlotOf(place)
        BY <2>7, <2>11, <2>16
      <4>. QED  BY <1>8, <2>5, <4>1, Zenon DEF Home
    <3>2. OtherSlotsStay(x, p, y)
      BY <2>11, <2>16 DEF OtherSlotsStay
    <3>3. IsPut(x.dirty, p, place, y.dirty) /\ (x.heap => y.heap)
      BY <2>6, <2>16
    <3>. QED  BY <1>2, <1>6, <3>1, <3>2, <3>3, TracksOn, Zenon
  <2>20. IsState(r)
    BY <2>3, <2>14, <2>15, <2>18, <2>19, Zenon DEF IsState
  <2>21. ASSUME NEW U, Owns(s, U), Few(c) PROVE Owns(r, U)
    <3>1. /\ IsCounted(b)
          /\ \A w \in U \cup SlotValues(x.slots) : PlaceIn(w) \in Taken(b)
          /\ U \cap SlotValues(x.slots) = {}
          /\ OneKeyEach(x.slots)
          /\ \A q \in Keys(x.dirty) : l[q].in = "spill" => Unwrapped(l[q])
      BY <1>1, <2>21, Zenon DEF Owns
    <3>2. IsCounted(c)
      BY <2>2, <3>1, AllocationIsCounted, Zenon
    <3>3. PlaceIn(v) = d
      <4>1. place.seg \in 1 .. IndexMod
        <5>1. Len(c.segs) \in Nat /\ Len(c.segs) <= IndexMod
          BY <2>3, <2>21 DEF IsBuffer, Few
        <5>. QED  BY <2>3, <2>5, <5>1, SpillAssumption
      <4>2. Unwrapped(place)
        BY <2>3, <2>5, <4>1, FitsSlot
      <4>. QED  BY <2>3, <2>5, <2>7, <4>2, Zenon DEF Unwrapped
    <3>4. Unwrapped(place)
      BY <2>3, <2>5, <2>7, <3>3, Zenon DEF Unwrapped
    <3>5. \A w \in U \cup SlotValues(x.slots) : w # v
      BY <2>3, <3>1, <3>3, Zenon
    <3>6. SlotValues(slots) \subseteq SlotValues(x.slots) \cup {v}
      BY <2>11 DEF SlotValues
    <3>7. \A w \in U \cup SlotValues(slots) : PlaceIn(w) \in Taken(c)
      <4>1. d \in Taken(c) /\ Taken(b) \subseteq Taken(c)
        BY <2>3
      <4>. QED  BY <3>1, <3>3, <3>6, <4>1
    <3>8. U \cap SlotValues(slots) = {}
      BY <3>1, <3>5, <3>6
    <3>9. \A q \in Keys(x.slots) : Get(x.slots, q) # v
      BY <3>5 DEF SlotValues
    <3>10. OneKeyEach(slots)
      BY <2>11, <3>1, <3>9 DEF OneKeyEach
    <3>11. \A q \in Keys(dirty) : k[q].in = "spill" => Unwrapped(k[q])
      <4>1. Keys(dirty) = Keys(x.dirty) \cup {p}
        BY <2>6, Zenon DEF IsPut
      <4>2. Keys(x.dirty) \subseteq DOMAIN l
        BY <1>2, Zenon DEF Tracks
      <4>3. k[p] = place /\ \A q \in DOMAIN l \ {p} : k[q] = l[q]
        BY <1>6 DEF Placed
      <4>. QED  BY <3>1, <3>4, <4>1, <4>2, <4>3
    <3>. QED  BY <2>15, <2>16, <3>2, <3>7, <3>8, <3>10, <3>11, Zenon DEF Owns
  <2>. QED  BY <1>1, <2>3, <2>15, <2>16, <2>20, <2>21, Zenon DEF LeadsTo, SameRest
<1>. QED  BY <1>7, <1>8

\* Without WriteMap a page may have its data on the heap.
LEMMA Copies ==
  ASSUME NEW s, IsState(s), NEW p \in Nat, ~writeMap, NEW r, r = CopyToHeap(s, p)
  PROVE  LeadsTo(s, r) /\ SameRest(s, r)
<1>1. PICK x, l, b : x = s.t /\ l = s.latest /\ b = s.buf
  OBVIOUS
<1>2. s = [buf |-> b, t |-> x, latest |-> l] /\ IsTxn(x) /\ Tracks(x, l)
  BY <1>1, Zenon DEF IsState
<1>3. /\ x = [phase |-> x.phase, dirty |-> x.dirty, slots |-> x.slots, free |-> x.free,
              alloc |-> x.alloc, big |-> x.big, heap |-> x.heap]
      /\ IsTable(x.dirty)
  BY <1>2, Zenon DEF IsTxn
<1>4. PICK place : place = OnHeap(p)
  OBVIOUS
<1>5. place \in Places /\ place.in = "heap"
  BY <1>4 DEF OnHeap, Places
<1>6. PICK dirty : dirty = Set(x.dirty, p, place)
  OBVIOUS
<1>7. PICK k : k = Placed(l, p, place)
  OBVIOUS
<1>8. IsPut(x.dirty, p, place, dirty)
  BY <1>3, <1>5, <1>6, PlaceIsPut, Zenon
<1>9. PICK y : y = [phase |-> x.phase, dirty |-> dirty, slots |-> x.slots, free |-> x.free,
                    alloc |-> x.alloc, big |-> x.big, heap |-> x.heap]
  OBVIOUS
<1>10. r = [buf |-> b, t |-> y, latest |-> k]
  <2>1. y = [x EXCEPT !.dirty = dirty]
    BY <1>3, <1>9
  <2>2. y = [x EXCEPT !.dirty = Set(@, p, place)]
    BY <1>6, <2>1
  <2>3. r = [s EXCEPT !.t.dirty = Set(@, p, place), !.latest = Placed(@, p, place)]
    BY <1>4, Zenon DEF CopyToHeap
  <2>4. r = [s EXCEPT !.t = y, !.latest = k]
    BY <1>1, <1>7, <2>2, <2>3
  <2>. QED  BY <1>2, <2>4
<1>11. r.buf = b /\ r.t = y /\ r.latest = k
  BY <1>10
<1>12. /\ y.phase = x.phase /\ y.dirty = dirty /\ y.slots = x.slots /\ y.free = x.free
       /\ y.alloc = x.alloc /\ y.big = x.big /\ y.heap = x.heap
  BY <1>9
<1>13. IsTxn(y)
  <2>1. IsTable(dirty)
    BY <1>8, Zenon DEF IsPut
  <2>2. y = [phase |-> y.phase, dirty |-> y.dirty, slots |-> y.slots, free |-> y.free,
             alloc |-> y.alloc, big |-> y.big, heap |-> y.heap]
    BY <1>9, <1>12
  <2>. QED  BY <1>2, <1>12, <2>1, <2>2, Zenon DEF IsTxn
<1>14. Tracks(y, k)
  <2>1. Home(y, p, place)
    BY <1>4, Zenon DEF Home
  <2>2. OtherSlotsStay(x, p, y)
    BY <1>12 DEF OtherSlotsStay
  <2>3. IsPut(x.dirty, p, place, y.dirty) /\ (x.heap => y.heap)
    BY <1>8, <1>12
  <2>. QED  BY <1>2, <1>7, <2>1, <2>2, <2>3, TracksOn, Zenon
<1>15. NoneSpilled(x.dirty, l, y.dirty, k)
  <2>1. Keys(x.dirty) \subseteq DOMAIN l
    BY <1>2, Zenon DEF Tracks
  <2>2. place.in # "spill"
    BY <1>5
  <2>3. NoneSpilled(x.dirty, l, dirty, k)
    BY <1>7, <1>8, <2>1, <2>2, KeepsOthers, Zenon
  <2>. QED  BY <1>12, <2>3
<1>16. r = [buf |-> s.buf, t |-> r.t, latest |-> r.latest] /\ r.t.slots = s.t.slots
  BY <1>1, <1>10, <1>11, <1>12
<1>17. LeadsTo(s, r)
  BY <1>1, <1>11, <1>13, <1>14, <1>15, <1>16, KeepsSlots, Zenon
<1>. QED  BY <1>1, <1>11, <1>12, <1>17, Zenon DEF SameRest

\* All but the tables and the flag may be set as one likes.
SameTables(x, y) == y.dirty = x.dirty /\ y.slots = x.slots /\ y.heap = x.heap

\* A call may also change the free list, the end of the file and the phase.
LEMMA Adjusts ==
  ASSUME NEW s, IsState(s), NEW r, r = [buf |-> s.buf, t |-> r.t, latest |-> s.latest],
         IsTxn(r.t), SameTables(s.t, r.t)
  PROVE  LeadsTo(s, r)
<1>1. PICK x, y, l : x = s.t /\ y = r.t /\ l = s.latest /\ l = r.latest
  OBVIOUS
<1>2. y.dirty = x.dirty /\ y.slots = x.slots /\ y.heap = x.heap
  BY <1>1, Zenon DEF SameTables
<1>3. Tracks(x, l)
  BY <1>1, Zenon DEF IsState
<1>4. \A p, place : Home(x, p, place) => Home(y, p, place)
  BY <1>2 DEF Home
<1>5. Tracks(y, l)
  BY <1>2, <1>3, <1>4 DEF Tracks
<1>6. Keys(x.dirty) \subseteq DOMAIN l
  BY <1>3, Zenon DEF Tracks
<1>7. NoneSpilled(x.dirty, l, y.dirty, l)
  BY <1>2 DEF NoneSpilled
<1>8. r = [buf |-> s.buf, t |-> r.t, latest |-> r.latest] /\ r.t.slots = s.t.slots
  BY <1>1, <1>2
<1>. QED  BY <1>1, <1>5, <1>7, <1>8, KeepsSlots, Zenon

\* What is written in the map is what the tracker has of its range.
LEMMA WritesInMap ==
  ASSUME NEW x, NEW l, Tracks(x, l), NEW p \in Nat, writeMap, p < mapped,
         NEW k, k = Placed(l, p, InMap(p))
  PROVE  Tracks(x, k) /\ NoneSpilled(x.dirty, l, x.dirty, k)
<1>1. /\ DOMAIN l \subseteq Nat /\ Keys(x.dirty) \subseteq DOMAIN l
      /\ \A q \in Keys(x.dirty) : Get(x.dirty, q) = l[q] /\ Home(x, q, l[q])
      /\ \A q \in DOMAIN l \ Keys(x.dirty) : l[q] = InMap(q)
  BY Zenon DEF Tracks
<1>2. /\ DOMAIN k = {p} \cup DOMAIN l /\ k[p] = InMap(p)
      /\ \A q \in DOMAIN l \ {p} : k[q] = l[q]
  BY DEF Placed
<1>3. p \in Keys(x.dirty) => l[p] = InMap(p)
  BY <1>1, Zenon DEF Home
<1>4. \A q \in Keys(x.dirty) : k[q] = l[q]
  BY <1>1, <1>2, <1>3
<1>5. DOMAIN k \subseteq Nat /\ Keys(x.dirty) \subseteq DOMAIN k
  BY <1>1, <1>2
<1>6. \A q \in DOMAIN k \ Keys(x.dirty) : k[q] = InMap(q)
  BY <1>1, <1>2
<1>7. \A q \in Keys(x.dirty) : Get(x.dirty, q) = k[q] /\ Home(x, q, k[q])
  BY <1>1, <1>4
<1>. QED  BY <1>4, <1>5, <1>6, <1>7, Zenon DEF Tracks, NoneSpilled

------------------------------------------------------------------------------
(* The calls                                                               *)

\* The record of a transaction with one field set anew.
LEMMA TxnFields ==
  ASSUME NEW x, IsTxn(x), NEW v
  PROVE  /\ v \in Nat => IsTxn([x EXCEPT !.alloc = v]) /\ SameTables(x, [x EXCEPT !.alloc = v])
         /\ v \in Seq(Nat) => IsTxn([x EXCEPT !.free = v]) /\ SameTables(x, [x EXCEPT !.free = v])
         /\ v \in SUBSET Nat => IsTxn([x EXCEPT !.big = v]) /\ SameTables(x, [x EXCEPT !.big = v])
         /\ v \in PhaseNames =>
              IsTxn([x EXCEPT !.phase = v]) /\ SameTables(x, [x EXCEPT !.phase = v])
<1>1. x = [phase |-> x.phase, dirty |-> x.dirty, slots |-> x.slots, free |-> x.free,
           alloc |-> x.alloc, big |-> x.big, heap |-> x.heap]
  BY Zenon DEF IsTxn
<1>2. ASSUME NEW y,
             y.dirty = x.dirty /\ y.slots = x.slots /\ y.heap = x.heap,
             y.phase \in PhaseNames /\ y.free \in Seq(Nat) /\ y.alloc \in Nat /\ y.big \in SUBSET Nat,
             y = [phase |-> y.phase, dirty |-> y.dirty, slots |-> y.slots, free |-> y.free,
                  alloc |-> y.alloc, big |-> y.big, heap |-> y.heap]
      PROVE  IsTxn(y) /\ SameTables(x, y)
  <2>1. SameTables(x, y)
    BY <1>2, Zenon DEF SameTables
  <2>2. /\ IsTable(x.dirty) /\ IsTable(x.slots) /\ x.heap \in BOOLEAN
        /\ \A k \in Keys(x.slots) : Get(x.slots, k) \in SlotRecords
    BY Zenon DEF IsTxn
  <2>3. IsTxn(y)
    BY <1>2, <2>2 DEF IsTxn
  <2>. QED  BY <2>1, <2>3
<1>3. /\ x.phase \in PhaseNames /\ x.free \in Seq(Nat) /\ x.alloc \in Nat /\ x.big \in SUBSET Nat
  BY Zenon DEF IsTxn
<1>4. ASSUME v \in Nat
      PROVE  IsTxn([x EXCEPT !.alloc = v]) /\ SameTables(x, [x EXCEPT !.alloc = v])
  <2>1. PICK y : y = [x EXCEPT !.alloc = v]
    OBVIOUS
  <2>2. y = [phase |-> x.phase, dirty |-> x.dirty, slots |-> x.slots, free |-> x.free,
             alloc |-> v, big |-> x.big, heap |-> x.heap]
    BY <1>1, <2>1
  <2>3. IsTxn(y) /\ SameTables(x, y)
    BY <1>2, <1>3, <1>4, <2>2
  <2>. QED  BY <2>1, <2>3
<1>5. ASSUME v \in Seq(Nat)
      PROVE  IsTxn([x EXCEPT !.free = v]) /\ SameTables(x, [x EXCEPT !.free = v])
  <2>1. PICK y : y = [x EXCEPT !.free = v]
    OBVIOUS
  <2>2. y = [phase |-> x.phase, dirty |-> x.dirty, slots |-> x.slots, free |-> v,
             alloc |-> x.alloc, big |-> x.big, heap |-> x.heap]
    BY <1>1, <2>1
  <2>3. IsTxn(y) /\ SameTables(x, y)
    BY <1>2, <1>3, <1>5, <2>2
  <2>. QED  BY <2>1, <2>3
<1>6. ASSUME v \in SUBSET Nat
      PROVE  IsTxn([x EXCEPT !.big = v]) /\ SameTables(x, [x EXCEPT !.big = v])
  <2>1. PICK y : y = [x EXCEPT !.big = v]
    OBVIOUS
  <2>2. y = [phase |-> x.phase, dirty |-> x.dirty, slots |-> x.slots, free |-> x.free,
             alloc |-> x.alloc, big |-> v, heap |-> x.heap]
    BY <1>1, <2>1
  <2>3. IsTxn(y) /\ SameTables(x, y)
    BY <1>2, <1>3, <1>6, <2>2
  <2>. QED  BY <2>1, <2>3
<1>7. ASSUME v \in PhaseNames
      PROVE  IsTxn([x EXCEPT !.phase = v]) /\ SameTables(x, [x EXCEPT !.phase = v])
  <2>1. PICK y : y = [x EXCEPT !.phase = v]
    OBVIOUS
  <2>2. y = [phase |-> v, dirty |-> x.dirty, slots |-> x.slots, free |-> x.free,
             alloc |-> x.alloc, big |-> x.big, heap |-> x.heap]
    BY <1>1, <2>1
  <2>3. IsTxn(y) /\ SameTables(x, y)
    BY <1>2, <1>3, <1>7, <2>2
  <2>. QED  BY <2>1, <2>3
<1>. QED  BY <1>4, <1>5, <1>6, <1>7

\* Setting the transaction of a triple.
LEMMA SetsTxn ==
  ASSUME NEW s, IsState(s), NEW y, IsTxn(y), SameTables(s.t, y), NEW r, r = [s EXCEPT !.t = y]
  PROVE  LeadsTo(s, r) /\ r.t = y
<1>1. s = [buf |-> s.buf, t |-> s.t, latest |-> s.latest]
  BY Zenon DEF IsState
<1>2. r = [buf |-> s.buf, t |-> y, latest |-> s.latest]
  BY <1>1
<1>3. r.t = y
  BY <1>2
<1>4. LeadsTo(s, r)
  BY <1>2, <1>3, Adjusts
<1>. QED  BY <1>3, <1>4

\* A page is taken from the end of the file (allocatePage, touchPageAt).
LEMMA GoesOnAtEnd ==
  ASSUME NEW s, IsState(s), NEW n \in Nat, NEW r, r = AtEnd(s, n)
  PROVE  LeadsTo(s, r) /\ r.t.big = s.t.big
<1>1. IsTxn(s.t) /\ s.t.alloc \in Nat
  BY Zenon DEF IsState, IsTxn
<1>2. PICK v \in Nat : v = s.t.alloc + n
  BY <1>1
<1>3. PICK y : y = [s.t EXCEPT !.alloc = v]
  OBVIOUS
<1>4. IsTxn(y) /\ SameTables(s.t, y)
  BY <1>1, <1>3, TxnFields
<1>5. r = [s EXCEPT !.t = y]
  BY <1>2, <1>3 DEF AtEnd
<1>6. y.big = s.t.big
  <2>1. s.t = [phase |-> s.t.phase, dirty |-> s.t.dirty, slots |-> s.t.slots, free |-> s.t.free,
               alloc |-> s.t.alloc, big |-> s.t.big, heap |-> s.t.heap]
    BY <1>1, Zenon DEF IsTxn
  <2>. QED  BY <1>3, <2>1
<1>. QED  BY <1>4, <1>5, <1>6, SetsTxn

\* A page is taken from the free list or put on it.
LEMMA SetsFree ==
  ASSUME NEW s, IsState(s), NEW v \in Seq(Nat), NEW r, r = [s EXCEPT !.t.free = v]
  PROVE  LeadsTo(s, r)
<1>1. IsTxn(s.t)
  BY Zenon DEF IsState
<1>2. PICK y : y = [s.t EXCEPT !.free = v]
  OBVIOUS
<1>3. IsTxn(y) /\ SameTables(s.t, y)
  BY <1>1, <1>2, TxnFields
<1>4. r = [s EXCEPT !.t = y]
  BY <1>2
<1>. QED  BY <1>3, <1>4, SetsTxn

\* A big value begins or ends.
LEMMA SetsBig ==
  ASSUME NEW s, IsState(s), NEW v \in SUBSET Nat, NEW r, r = [s EXCEPT !.t.big = v]
  PROVE  LeadsTo(s, r)
<1>1. IsTxn(s.t)
  BY Zenon DEF IsState
<1>2. PICK y : y = [s.t EXCEPT !.big = v]
  OBVIOUS
<1>3. IsTxn(y) /\ SameTables(s.t, y)
  BY <1>1, <1>2, TxnFields
<1>4. r = [s EXCEPT !.t = y]
  BY <1>2
<1>. QED  BY <1>3, <1>4, SetsTxn

\* updateOverflowInPlace and freeOverflow free pages at a value's end.
LEMMA Shortens ==
  ASSUME NEW s, IsState(s), NEW p \in Nat, NEW n \in 0 .. 2, NEW r, r = Shorten(s, p, n)
  PROVE  LeadsTo(s, r)
<1>1. PICK x : x = s.t
  OBVIOUS
<1>2. /\ x = [phase |-> x.phase, dirty |-> x.dirty, slots |-> x.slots, free |-> x.free,
              alloc |-> x.alloc, big |-> x.big, heap |-> x.heap]
      /\ x.free \in Seq(Nat) /\ x.big \in SUBSET Nat /\ IsTxn(x)
  BY <1>1, Zenon DEF IsState, IsTxn
<1>3. PICK tail : tail = [i \in 1 .. 2 - n |-> p + n + i - 1]
  OBVIOUS
<1>4. tail \in Seq(Nat)
  <2>1. 2 - n \in Nat /\ \A i \in 1 .. 2 - n : p + n + i - 1 \in Nat
    OBVIOUS
  <2>. QED  BY <1>3, <2>1
<1>5. PICK free : free = x.free \o tail
  OBVIOUS
<1>6. free \in Seq(Nat)
  BY <1>2, <1>4, <1>5
<1>7. PICK big : big = IF n < 2 THEN x.big \ {p} ELSE x.big
  OBVIOUS
<1>8. big \in SUBSET Nat
  BY <1>2, <1>7
<1>9. PICK y : y = [x EXCEPT !.free = free]
  OBVIOUS
<1>10. IsTxn(y) /\ SameTables(x, y)
  BY <1>2, <1>6, <1>9, TxnFields
<1>11. PICK z : z = [y EXCEPT !.big = big]
  OBVIOUS
<1>12. IsTxn(z) /\ SameTables(y, z)
  BY <1>8, <1>10, <1>11, TxnFields
<1>13. SameTables(x, z)
  BY <1>10, <1>12, Zenon DEF SameTables
<1>14. r = [s EXCEPT !.t = z]
  <2>1. y.big = x.big
    BY <1>2, <1>9
  <2>2. z = [x EXCEPT !.free = free, !.big = big]
    BY <1>2, <1>9, <1>11
  <2>3. r = [s EXCEPT !.t.free = @ \o tail, !.t.big = IF n < 2 THEN @ \ {p} ELSE @]
    BY <1>3, Zenon DEF Shorten
  <2>. QED  BY <1>1, <1>2, <1>5, <1>7, <2>2, <2>3
<1>. QED  BY <1>1, <1>12, <1>13, <1>14, SetsTxn

(***************************************************************************)
(* What always holds: the tables are tables, the working transaction's     *)
(* tracker agrees with latest, and only one works.                         *)
(***************************************************************************)
Tracked ==
  /\ mapped \in Nat /\ next \in Nat
  /\ IsBuffer(buf)
  /\ tx = [t \in Txns |-> tx[t]]
  /\ \A t \in Txns : IsTxn(tx[t])
  /\ \A t, u \in Txns : Working(t) /\ Working(u) => t = u
  /\ \A t \in Txns : Working(t) => Tracks(tx[t], latest)

\* A call of the transaction, seen as a way between triples.
Goes(t) == Working(t) /\ \E r : LeadsTo(Now(t), r) /\ Becomes(t, r)

\* What a call begins with.
LEMMA NowIsState ==
  ASSUME Tracked, NEW t \in Txns, Working(t)
  PROVE  IsState(Now(t)) /\ Now(t).t = tx[t] /\ Now(t).buf = buf /\ Now(t).latest = latest
<1>1. PICK s : s = Now(t)
  OBVIOUS
<1>2. s = [buf |-> buf, t |-> tx[t], latest |-> latest]
  BY <1>1 DEF Now
<1>3. s.buf = buf /\ s.t = tx[t] /\ s.latest = latest
  BY <1>2
<1>4. IsBuffer(buf) /\ IsTxn(tx[t]) /\ Tracks(tx[t], latest)
  BY Zenon DEF Tracked
<1>. QED  BY <1>1, <1>2, <1>3, <1>4, Zenon DEF IsState

\* The pages of the tracker.
LEMMA DirtyIsKeys ==
  ASSUME Tracked, NEW t \in Txns
  PROVE  Dirty(t) = Keys(tx[t].dirty) /\ Dirty(t) \subseteq Nat
<1>1. PICK m : m = tx[t].dirty /\ IsTable(m)
  BY DEF Tracked, IsTxn
<1>2. PICK es : es = Entries(m)
  OBVIOUS
<1>3. IsEntryList(m, es)
  BY <1>1, <1>2, EntriesListAll, Zenon
<1>4. ToSet(es) = EntrySet(m)
  BY <1>3, Zenon DEF IsEntryList
<1>5. Dirty(t) = {e.key : e \in EntrySet(m)}
  BY <1>1, <1>2, <1>4, Zenon DEF Dirty
<1>6. Dirty(t) = Keys(m)
  <2>1. \A e \in EntrySet(m) : e.key \in Keys(m)
    BY EntryIsFound, Zenon
  <2>2. \A k \in Keys(m) : Entry(k, Get(m, k)) \in EntrySet(m)
    BY DEF EntrySet
  <2>3. \A k, v : Entry(k, v).key = k
    BY DEF Entry
  <2>4. \A k \in Keys(m) : \E e \in EntrySet(m) : e.key = k
    BY <2>2, <2>3, Zenon
  <2>. QED  BY <1>5, <2>1, <2>4
<1>7. Keys(m) \subseteq Nat
  BY <1>1 DEF IsTable, Keys
<1>. QED  BY <1>1, <1>6, <1>7

\* touchPageAt.
LEMMA TouchPageGoes ==
  ASSUME Tracked, NEW t \in Txns, TouchPage(t)
  PROVE  Goes(t)
<1>1. PICK s, p, a, r : s = Now(t) /\ p = tx[t].alloc /\ a = NewPage(s, p) /\ r = AtEnd(a, 1)
  OBVIOUS
<1>2. Working(t) /\ Becomes(t, r)
  BY <1>1, Zenon DEF TouchPage, Calls
<1>3. IsState(s) /\ p \in Nat
  BY <1>1, <1>2, NowIsState DEF Tracked, IsTxn
<1>4. LeadsTo(s, a)
  BY <1>1, <1>3, MakesPage, Zenon
<1>5. IsState(a)
  BY <1>4, Zenon DEF LeadsTo
<1>6. LeadsTo(a, r)
  BY <1>1, <1>5, GoesOnAtEnd
<1>7. LeadsTo(s, r)
  BY <1>3, <1>4, <1>6, LeadsOn, Zenon
<1>. QED  BY <1>1, <1>2, <1>7, Zenon DEF Goes

\* A place set, with the flag, at the end of the file.
AtEndWith(x, v, dirty, heap) ==
  [phase |-> x.phase, dirty |-> dirty, slots |-> x.slots, free |-> x.free,
   alloc |-> v, big |-> x.big, heap |-> heap]
IsAtEndWith(x, v, dirty, heap, y) ==
  y = [x EXCEPT !.alloc = v, !.dirty = dirty, !.heap = heap]

\* The fields of a transaction after touchSubTreePath.
LEMMA TxnWithPlace ==
  ASSUME NEW x, IsTxn(x), NEW v, NEW dirty, NEW heap
  PROVE  IsAtEndWith(x, v, dirty, heap, AtEndWith(x, v, dirty, heap))
<1>1. x = [phase |-> x.phase, dirty |-> x.dirty, slots |-> x.slots, free |-> x.free,
           alloc |-> x.alloc, big |-> x.big, heap |-> x.heap]
  BY Zenon DEF IsTxn
<1>2. PICK a : a = [x EXCEPT !.alloc = v]
  OBVIOUS
<1>3. a = [phase |-> x.phase, dirty |-> x.dirty, slots |-> x.slots, free |-> x.free,
           alloc |-> v, big |-> x.big, heap |-> x.heap]
  BY <1>1, <1>2
<1>4. PICK b : b = [a EXCEPT !.dirty = dirty]
  OBVIOUS
<1>5. b = [phase |-> x.phase, dirty |-> dirty, slots |-> x.slots, free |-> x.free,
           alloc |-> v, big |-> x.big, heap |-> x.heap]
  BY <1>3, <1>4
<1>6. PICK c : c = [b EXCEPT !.heap = heap]
  OBVIOUS
<1>7. c = [phase |-> x.phase, dirty |-> dirty, slots |-> x.slots, free |-> x.free,
           alloc |-> v, big |-> x.big, heap |-> heap]
  BY <1>5, <1>6
<1>8. c = [x EXCEPT !.alloc = v, !.dirty = dirty, !.heap = heap]
  BY <1>2, <1>4, <1>6
<1>. QED  BY <1>7, <1>8 DEF AtEndWith, IsAtEndWith

\* touchSubTreePath, where a page behind the map goes to the heap.
LEMMA TouchSubTreePageGoes ==
  ASSUME Tracked, NEW t \in Txns, TouchSubTreePage(t)
  PROVE  Goes(t)
<1>1. PICK s, x, l, p : s = Now(t) /\ x = tx[t] /\ l = latest /\ p = x.alloc
  OBVIOUS
<1>2. Working(t)
  BY Zenon DEF TouchSubTreePage, Calls
<1>3. /\ IsState(s) /\ s.t = x /\ s.buf = buf /\ s.latest = l
      /\ IsTxn(x) /\ Tracks(x, l)
  BY <1>1, <1>2, NowIsState, Zenon DEF IsState
<1>4. /\ x = [phase |-> x.phase, dirty |-> x.dirty, slots |-> x.slots, free |-> x.free,
              alloc |-> x.alloc, big |-> x.big, heap |-> x.heap]
      /\ IsTable(x.dirty) /\ p \in Nat /\ x.heap \in BOOLEAN
  BY <1>1, <1>3, Zenon DEF IsTxn
<1>5. PICK place : place = IF writeMap /\ p < mapped THEN InMap(p) ELSE OnHeap(p)
  OBVIOUS
<1>6. place \in Places /\ place.in # "spill"
  BY <1>4, <1>5 DEF InMap, OnHeap, Places
<1>7. PICK dirty, k, heap : /\ dirty = Set(x.dirty, p, place) /\ k = Placed(l, p, place)
                            /\ heap = (x.heap \/ place.in = "heap")
  OBVIOUS
<1>8. IsPut(x.dirty, p, place, dirty)
  BY <1>4, <1>6, <1>7, PlaceIsPut, Zenon
<1>9. PICK y : y = [phase |-> x.phase, dirty |-> dirty, slots |-> x.slots, free |-> x.free,
                    alloc |-> p + 1, big |-> x.big, heap |-> heap]
  OBVIOUS
<1>10. /\ y.phase = x.phase /\ y.dirty = dirty /\ y.slots = x.slots /\ y.free = x.free
       /\ y.alloc = p + 1 /\ y.big = x.big /\ y.heap = heap
  BY <1>9
<1>11. PICK r : r = [buf |-> buf, t |-> y, latest |-> k]
  OBVIOUS
<1>12. Becomes(t, r)
  <2>1. y = [x EXCEPT !.alloc = p + 1, !.dirty = dirty, !.heap = heap]
    <3>1. y = AtEndWith(x, p + 1, dirty, heap)
      BY <1>9, Zenon DEF AtEndWith
    <3>2. IsTxn(x)
      BY <1>3
    <3>3. IsAtEndWith(x, p + 1, dirty, heap, y)
      BY <3>1, <3>2, TxnWithPlace, Zenon
    <3>. QED  BY <3>3, Zenon DEF IsAtEndWith
  <2>2. y = [tx[t] EXCEPT !.alloc = p + 1, !.dirty = Set(@, p, place),
                          !.heap = @ \/ place.in = "heap"]
    BY <1>1, <1>7, <2>1
  <2>3. Becomes(t, [buf |-> buf,
                    t |-> [tx[t] EXCEPT !.alloc = p + 1, !.dirty = Set(@, p, place),
                                        !.heap = @ \/ place.in = "heap"],
                    latest |-> Placed(latest, p, place)])
    BY <1>1, <1>5, Zenon DEF TouchSubTreePage
  <2>. QED  BY <1>1, <1>7, <1>11, <2>2, <2>3
<1>13. r.buf = buf /\ r.t = y /\ r.latest = k
  BY <1>11
<1>14. IsTxn(y)
  <2>1. IsTable(dirty)
    BY <1>8, Zenon DEF IsPut
  <2>2. y = [phase |-> y.phase, dirty |-> y.dirty, slots |-> y.slots, free |-> y.free,
             alloc |-> y.alloc, big |-> y.big, heap |-> y.heap]
    BY <1>9, <1>10
  <2>3. p + 1 \in Nat /\ heap \in BOOLEAN
    BY <1>4, <1>7
  <2>. QED  BY <1>3, <1>10, <2>1, <2>2, <2>3, Zenon DEF IsTxn
<1>15. Tracks(y, k)
  <2>1. Home(y, p, place)
    <3>2. OnHeap(p).in = "heap"
      BY DEF OnHeap
    <3>1. place = OnHeap(p) => y.heap
      BY <1>7, <1>10, <3>2, Zenon
    <3>. QED  BY <1>5, <3>1, Zenon DEF Home
  <2>2. OtherSlotsStay(x, p, y)
    BY <1>10 DEF OtherSlotsStay
  <2>3. IsPut(x.dirty, p, place, y.dirty) /\ (x.heap => y.heap)
    BY <1>7, <1>8, <1>10
  <2>. QED  BY <1>3, <1>4, <1>7, <2>1, <2>2, <2>3, TracksOn, Zenon
<1>16. NoneSpilled(x.dirty, l, y.dirty, k)
  <2>1. Keys(x.dirty) \subseteq DOMAIN l
    BY <1>3, Zenon DEF Tracks
  <2>2. NoneSpilled(x.dirty, l, dirty, k)
    BY <1>6, <1>7, <1>8, <2>1, KeepsOthers, Zenon
  <2>. QED  BY <1>10, <2>2
<1>17. r = [buf |-> s.buf, t |-> r.t, latest |-> r.latest] /\ r.t.slots = s.t.slots
  BY <1>3, <1>10, <1>11, <1>13
<1>18. LeadsTo(s, r)
  BY <1>3, <1>13, <1>14, <1>15, <1>16, <1>17, KeepsSlots, Zenon
<1>. QED  BY <1>1, <1>2, <1>12, <1>18, Zenon DEF Goes

\* allocatePage, from the free list or the end of the file.
LEMMA AllocatePageGoes ==
  ASSUME Tracked, NEW t \in Txns, AllocatePage(t)
  PROVE  Goes(t)
<1>1. PICK s : s = Now(t)
  OBVIOUS
<1>2. Working(t)
  BY Zenon DEF AllocatePage, Calls
<1>3. IsState(s) /\ s.t = tx[t] /\ tx[t].alloc \in Nat /\ tx[t].free \in Seq(Nat)
  BY <1>1, <1>2, NowIsState, Zenon DEF Tracked, IsTxn
<1>4. CASE tx[t].free = <<>>
  <2>1. PICK p, a, r : p = tx[t].alloc /\ a = NewPage(s, p) /\ r = AtEnd(a, 1)
    OBVIOUS
  <2>2. Becomes(t, r)
    BY <1>1, <1>4, <2>1, Zenon DEF AllocatePage
  <2>3. LeadsTo(s, a)
    BY <1>3, <2>1, MakesPage, Zenon
  <2>4. IsState(a)
    BY <2>3, Zenon DEF LeadsTo
  <2>5. LeadsTo(a, r)
    BY <2>1, <2>4, GoesOnAtEnd
  <2>6. LeadsTo(s, r)
    BY <1>3, <2>3, <2>5, LeadsOn, Zenon
  <2>. QED  BY <1>1, <1>2, <2>2, <2>6, Zenon DEF Goes
<1>5. CASE tx[t].free # <<>>
  <2>1. PICK p, a : p = Last(tx[t].free) /\ a = NewPage(s, p)
    OBVIOUS
  <2>2. p \in Nat
    BY <1>3, <1>5, <2>1 DEF Last
  <2>3. LeadsTo(s, a) /\ SameRest(s, a)
    BY <1>3, <2>1, <2>2, MakesPage, Zenon
  <2>4. IsState(a) /\ a.t.free = tx[t].free
    BY <1>3, <2>3, Zenon DEF LeadsTo, SameRest
  <2>5. PICK v : v = Front(a.t.free)
    OBVIOUS
  <2>6. v \in Seq(Nat)
    <3>1. Len(tx[t].free) \in Nat \ {0}
      BY <1>3, <1>5
    <3>. QED  BY <1>3, <2>4, <2>5, <3>1 DEF Front
  <2>7. PICK r : r = [a EXCEPT !.t.free = v]
    OBVIOUS
  <2>8. Becomes(t, r)
    <3>1. r = [a EXCEPT !.t.free = Front(@)]
      BY <2>5, <2>7
    <3>2. Becomes(t, [NewPage(Now(t), Last(tx[t].free)) EXCEPT !.t.free = Front(@)])
      BY <1>5, Zenon DEF AllocatePage
    <3>. QED  BY <1>1, <2>1, <3>1, <3>2, Zenon
  <2>9. LeadsTo(a, r)
    BY <2>4, <2>6, <2>7, SetsFree
  <2>10. LeadsTo(s, r)
    BY <1>3, <2>3, <2>9, LeadsOn, Zenon
  <2>. QED  BY <1>1, <1>2, <2>8, <2>10, Zenon DEF Goes
<1>. QED  BY <1>4, <1>5

\* allocateOverflow, two pages.
LEMMA AllocateOverflowGoes ==
  ASSUME Tracked, NEW t \in Txns, AllocateOverflow(t)
  PROVE  Goes(t)
<1>1. PICK s, p : s = Now(t) /\ p = tx[t].alloc
  OBVIOUS
<1>2. Working(t)
  BY Zenon DEF AllocateOverflow, Calls
<1>3. IsState(s) /\ s.t = tx[t] /\ p \in Nat /\ tx[t].big \in SUBSET Nat
  BY <1>1, <1>2, NowIsState, Zenon DEF Tracked, IsTxn
<1>4. PICK a, b, c : a = NewPage(s, p) /\ b = NewPage(a, p + 1) /\ c = AtEnd(b, 2)
  OBVIOUS
<1>5. LeadsTo(s, a) /\ SameRest(s, a)
  BY <1>3, <1>4, MakesPage, Zenon
<1>6. IsState(a)
  BY <1>5, Zenon DEF LeadsTo
<1>7. p + 1 \in Nat
  BY <1>3
<1>8. LeadsTo(a, b) /\ SameRest(a, b)
  BY <1>4, <1>6, <1>7, MakesPage, Zenon
<1>9. IsState(b)
  BY <1>8, Zenon DEF LeadsTo
<1>10. LeadsTo(b, c) /\ c.t.big = b.t.big
  BY <1>4, <1>9, GoesOnAtEnd
<1>11. IsState(c)
  BY <1>10, Zenon DEF LeadsTo
<1>12. c.t.big = tx[t].big
  BY <1>3, <1>5, <1>8, <1>10, Zenon DEF SameRest
<1>13. PICK v, r : v = c.t.big \cup {p} /\ r = [c EXCEPT !.t.big = v]
  OBVIOUS
<1>14. v \in SUBSET Nat
  BY <1>3, <1>12, <1>13
<1>15. LeadsTo(c, r)
  BY <1>11, <1>13, <1>14, SetsBig
<1>16. Becomes(t, r)
  <2>1. r = [c EXCEPT !.t.big = @ \cup {p}]
    BY <1>13
  <2>2. Becomes(t, [AtEnd(NewPage(NewPage(Now(t), p), p + 1), 2) EXCEPT !.t.big = @ \cup {p}])
    BY <1>1, Zenon DEF AllocateOverflow
  <2>. QED  BY <1>1, <1>4, <2>1, <2>2, Zenon
<1>17. LeadsTo(s, b)
  BY <1>3, <1>5, <1>8, LeadsOn, Zenon
<1>18. LeadsTo(s, c)
  BY <1>3, <1>10, <1>17, LeadsOn, Zenon
<1>19. LeadsTo(s, r)
  BY <1>3, <1>15, <1>18, LeadsOn, Zenon
<1>. QED  BY <1>1, <1>2, <1>16, <1>19, Zenon DEF Goes

\* freeEmptyPage.
LEMMA FreePageGoes ==
  ASSUME Tracked, NEW t \in Txns, NEW p, FreePage(t, p)
  PROVE  Goes(t)
<1>1. PICK s : s = Now(t)
  OBVIOUS
<1>2. Working(t) /\ p \in Dirty(t)
  BY Zenon DEF FreePage, Calls
<1>3. IsState(s) /\ s.t = tx[t] /\ tx[t].free \in Seq(Nat)
  BY <1>1, <1>2, NowIsState, Zenon DEF Tracked, IsTxn
<1>4. p \in Nat
  BY <1>2, DirtyIsKeys
<1>5. PICK v, r : v = Append(s.t.free, p) /\ r = [s EXCEPT !.t.free = v]
  OBVIOUS
<1>6. v \in Seq(Nat)
  BY <1>3, <1>4, <1>5
<1>7. LeadsTo(s, r)
  BY <1>3, <1>5, <1>6, SetsFree
<1>8. Becomes(t, r)
  <2>1. r = [s EXCEPT !.t.free = Append(@, p)]
    BY <1>5
  <2>2. Becomes(t, [Now(t) EXCEPT !.t.free = Append(@, p)])
    BY Zenon DEF FreePage
  <2>. QED  BY <1>1, <2>1, <2>2, Zenon
<1>. QED  BY <1>1, <1>2, <1>7, <1>8, Zenon DEF Goes

\* A value's first page is a page.
LEMMA ValueIsPage ==
  ASSUME Tracked, NEW t \in Txns, NEW p, HasValue(t, p)
  PROVE  p \in Nat
<1>1. tx[t].big \in SUBSET Nat
  BY Zenon DEF Tracked, IsTxn
<1>2. p \in tx[t].big \/ p = CommittedValue
  BY Zenon DEF HasValue
<1>. QED  BY <1>1, <1>2 DEF CommittedValue

\* freeOverflow.
LEMMA FreeOverflowGoes ==
  ASSUME Tracked, NEW t \in Txns, NEW p, FreeOverflow(t, p)
  PROVE  Goes(t)
<1>1. PICK s, r : s = Now(t) /\ r = Shorten(s, p, 0)
  OBVIOUS
<1>2. Working(t) /\ HasValue(t, p) /\ Becomes(t, r)
  BY <1>1, Zenon DEF FreeOverflow, Calls
<1>3. IsState(s) /\ p \in Nat
  BY <1>1, <1>2, NowIsState, ValueIsPage, Zenon
<1>4. LeadsTo(s, r)
  BY <1>1, <1>3, Shortens
<1>. QED  BY <1>1, <1>2, <1>4, Zenon DEF Goes

\* updateOverflowInPlace with copies on the heap.
LEMMA UpdateOverflowInPlaceGoes ==
  ASSUME Tracked, NEW t \in Txns, NEW p, NEW n \in 1 .. 2, UpdateOverflowInPlace(t, p, n)
  PROVE  Goes(t)
<1>1. PICK s, first : s = Now(t) /\ first = CopyToHeap(s, p)
  OBVIOUS
<1>2. PICK copied : copied = IF p \in tx[t].big THEN s
                             ELSE IF n = 1 THEN first ELSE CopyToHeap(first, p + 1)
  OBVIOUS
<1>3. PICK r : r = Shorten(copied, p, n)
  OBVIOUS
<1>4. Working(t) /\ HasValue(t, p) /\ ~writeMap
  BY Zenon DEF UpdateOverflowInPlace, Calls
<1>5. Becomes(t, r)
  BY <1>1, <1>2, <1>3, Zenon DEF UpdateOverflowInPlace
<1>6. IsState(s) /\ p \in Nat
  BY <1>1, <1>4, NowIsState, ValueIsPage, Zenon
<1>7. LeadsTo(s, first)
  BY <1>1, <1>4, <1>6, Copies, Zenon
<1>8. IsState(first)
  BY <1>7, Zenon DEF LeadsTo
<1>9. IsState(copied) /\ (copied = s \/ LeadsTo(s, copied))
  <2>1. CASE p \in tx[t].big
    BY <1>2, <1>6, <2>1
  <2>2. CASE p \notin tx[t].big /\ n = 1
    BY <1>2, <1>7, <1>8, <2>2
  <2>3. CASE p \notin tx[t].big /\ n # 1
    <3>1. copied = CopyToHeap(first, p + 1)
      BY <1>2, <2>3
    <3>2. p + 1 \in Nat
      BY <1>6
    <3>3. LeadsTo(first, copied)
      BY <1>4, <1>8, <3>1, <3>2, Copies, Zenon
    <3>4. LeadsTo(s, copied)
      BY <1>6, <1>7, <3>3, LeadsOn, Zenon
    <3>5. IsState(copied)
      BY <3>4, Zenon DEF LeadsTo
    <3>. QED  BY <3>4, <3>5
  <2>. QED  BY <2>1, <2>2, <2>3
<1>10. LeadsTo(copied, r)
  <2>1. n \in 0 .. 2
    OBVIOUS
  <2>. QED  BY <1>3, <1>6, <1>9, <2>1, Shortens
<1>11. LeadsTo(s, r)
  <2>1. CASE copied = s
    BY <1>10, <2>1
  <2>2. CASE LeadsTo(s, copied)
    BY <1>6, <1>10, <2>2, LeadsOn, Zenon
  <2>. QED  BY <1>9, <2>1, <2>2
<1>. QED  BY <1>1, <1>4, <1>5, <1>11, Zenon DEF Goes

\* updateOverflowInPlace in the map, or the panic at its end.
LEMMA UpdateOverflowInMapGoes ==
  ASSUME Tracked, NEW t \in Txns, NEW p, NEW n \in 1 .. 2, UpdateOverflowInMap(t, p, n)
  PROVE  Goes(t)
<1>1. PICK s, x, l : s = Now(t) /\ x = tx[t] /\ l = latest
  OBVIOUS
<1>2. PICK first, over : /\ first = Placed(l, p, InMap(p))
                         /\ over = IF n = 1 THEN first ELSE Placed(first, p + 1, InMap(p + 1))
  OBVIOUS
<1>3. Working(t) /\ HasValue(t, p) /\ writeMap /\ p < mapped
  BY Zenon DEF UpdateOverflowInMap, Calls
<1>4. Becomes(t, IF p + 1 < mapped THEN Shorten([s EXCEPT !.latest = over], p, n)
                 ELSE [s EXCEPT !.t.phase = "panicked"])
  BY <1>1, <1>2, Zenon DEF UpdateOverflowInMap
<1>5. IsState(s) /\ s.t = x /\ s.latest = l /\ p \in Nat
  BY <1>1, <1>3, NowIsState, ValueIsPage, Zenon
<1>6. IsTxn(x) /\ Tracks(x, l) /\ s = [buf |-> s.buf, t |-> x, latest |-> l]
  BY <1>5, Zenon DEF IsState
<1>7. CASE p + 1 < mapped
  <2>1. PICK a, r : a = [s EXCEPT !.latest = over] /\ r = Shorten(a, p, n)
    OBVIOUS
  <2>2. Becomes(t, r)
    BY <1>4, <1>7, <2>1, Zenon
  <2>3. Tracks(x, first) /\ NoneSpilled(x.dirty, l, x.dirty, first)
    BY <1>2, <1>3, <1>5, <1>6, WritesInMap, Zenon
  <2>4. Tracks(x, over) /\ NoneSpilled(x.dirty, l, x.dirty, over)
    <3>1. CASE n = 1
      BY <1>2, <2>3, <3>1
    <3>2. CASE n # 1
      <4>1. p + 1 \in Nat /\ p + 1 < mapped
        BY <1>5, <1>7
      <4>2. over = Placed(first, p + 1, InMap(p + 1))
        BY <1>2, <3>2
      <4>3. Tracks(x, over) /\ NoneSpilled(x.dirty, first, x.dirty, over)
        BY <1>3, <2>3, <4>1, <4>2, WritesInMap, Zenon
      <4>4. \A q \in Keys(x.dirty) : over[q].in = "spill" => over[q] = first[q] /\ first[q].in = "spill"
        BY <4>3 DEF NoneSpilled
      <4>5. \A q \in Keys(x.dirty) : first[q].in = "spill" => first[q] = l[q]
        BY <2>3 DEF NoneSpilled
      <4>6. NoneSpilled(x.dirty, l, x.dirty, over)
        BY <4>4, <4>5 DEF NoneSpilled
      <4>. QED  BY <4>3, <4>6
    <3>. QED  BY <3>1, <3>2
  <2>5. a = [buf |-> s.buf, t |-> x, latest |-> over]
    BY <1>6, <2>1
  <2>6. a.t = x /\ a.latest = over
    BY <2>5
  <2>7. a = [buf |-> s.buf, t |-> a.t, latest |-> a.latest] /\ a.t.slots = s.t.slots
    BY <1>5, <2>5, <2>6
  <2>8. LeadsTo(s, a)
    BY <1>5, <1>6, <2>4, <2>6, <2>7, KeepsSlots, Zenon
  <2>9. IsState(a)
    BY <2>8, Zenon DEF LeadsTo
  <2>10. LeadsTo(a, r)
    <3>1. n \in 0 .. 2
      OBVIOUS
    <3>. QED  BY <1>5, <2>1, <2>9, <3>1, Shortens
  <2>11. LeadsTo(s, r)
    BY <1>5, <2>8, <2>10, LeadsOn, Zenon
  <2>. QED  BY <1>1, <1>3, <2>2, <2>11, Zenon DEF Goes
<1>8. CASE ~(p + 1 < mapped)
  <2>1. PICK y : y = [x EXCEPT !.phase = "panicked"]
    OBVIOUS
  <2>2. PICK r : r = [s EXCEPT !.t = y]
    OBVIOUS
  <2>3. IsTxn(y) /\ SameTables(x, y)
    <3>1. "panicked" \in PhaseNames
      BY DEF PhaseNames
    <3>. QED  BY <1>6, <2>1, <3>1, TxnFields
  <2>4. LeadsTo(s, r)
    BY <1>5, <2>2, <2>3, SetsTxn
  <2>5. r = [s EXCEPT !.t.phase = "panicked"]
    BY <1>5, <2>1, <2>2
  <2>6. Becomes(t, r)
    BY <1>4, <1>8, <2>5, Zenon
  <2>. QED  BY <1>1, <1>3, <2>4, <2>6, Zenon DEF Goes
<1>. QED  BY <1>7, <1>8

(***************************************************************************)
(* What holds while the segments' numbers fit a Slot: every slot a         *)
(* transaction is to give back is taken, and it is nobody else's.          *)
(***************************************************************************)
Owned ==
  /\ IsCounted(buf)
  /\ \A t \in Txns : \A v \in SlotValues(tx[t].slots) : PlaceIn(v) \in Taken(buf)
  /\ \A t, u \in Txns : t # u => SlotValues(tx[t].slots) \cap SlotValues(tx[u].slots) = {}
  /\ \A t \in Txns : OneKeyEach(tx[t].slots)
  /\ \A t \in Txns : Working(t) =>
       \A p \in Keys(tx[t].dirty) : latest[p].in = "spill" => Unwrapped(latest[p])

Others(t) == UNION {SlotValues(tx[u].slots) : u \in Txns \ {t}}

\* Owned, seen by the transaction that works.
LEMMA OwnsItsSlots ==
  ASSUME Tracked, Owned, NEW t \in Txns, Working(t)
  PROVE  Owns(Now(t), Others(t))
<1>1. PICK s : s = Now(t) /\ s.t = tx[t] /\ s.buf = buf /\ s.latest = latest
  BY NowIsState
<1>2. \A v \in Others(t) \cup SlotValues(tx[t].slots) : PlaceIn(v) \in Taken(buf)
  BY DEF Owned, Others
<1>3. Others(t) \cap SlotValues(tx[t].slots) = {}
  BY DEF Owned, Others
<1>4. /\ IsCounted(buf) /\ OneKeyEach(tx[t].slots)
      /\ \A p \in Keys(tx[t].dirty) : latest[p].in = "spill" => Unwrapped(latest[p])
  BY Zenon DEF Owned
<1>. QED  BY <1>1, <1>2, <1>3, <1>4, Zenon DEF Owns

\* A call keeps both.
LEMMA CallKeepsTracked ==
  ASSUME Tracked, NEW t \in Txns, Goes(t)
  PROVE  Tracked'
<1>1. PICK s : s = Now(t)
  OBVIOUS
<1>2. PICK r : LeadsTo(s, r) /\ Becomes(t, r)
  BY <1>1, Zenon DEF Goes
<1>3. Working(t)
  BY Zenon DEF Goes
<1>4. IsBuffer(r.buf) /\ IsTxn(r.t) /\ Tracks(r.t, r.latest)
  BY <1>2, Zenon DEF LeadsTo, IsState
<1>5. /\ buf' = r.buf /\ tx' = [tx EXCEPT ![t] = r.t] /\ latest' = r.latest
      /\ writeMap' = writeMap /\ mapped' = mapped /\ next' = next
  BY <1>2 DEF Becomes
<1>6. tx = [u \in Txns |-> tx[u]]
  BY Zenon DEF Tracked
<1>7. /\ tx' = [u \in Txns |-> tx'[u]] /\ tx'[t] = r.t
      /\ \A u \in Txns : u # t => tx'[u] = tx[u]
  BY <1>5, <1>6
<1>8. \A u \in Txns : IsTxn(tx'[u])
  BY <1>4, <1>7, Zenon DEF Tracked
<1>9. \A u \in Txns : tx'[u].phase = "working" => u = t
  BY <1>3, <1>7, Zenon DEF Tracked, Working
<1>10. Tracks(tx[t], latest)'
  BY <1>4, <1>5, <1>7, Zenon DEF Tracks, Home
<1>11. \A u \in Txns : tx'[u].phase = "working" => Tracks(tx[u], latest)'
  BY <1>9, <1>10
<1>. QED  BY <1>4, <1>5, <1>7, <1>8, <1>9, <1>11, Zenon DEF Tracked, Working

\* A call keeps Owned, unless the segments become too many for a Slot.
LEMMA CallKeepsOwned ==
  ASSUME Tracked, Owned, NEW t \in Txns, Goes(t), Few(buf')
  PROVE  Owned'
<1>1. PICK s : s = Now(t)
  OBVIOUS
<1>2. PICK r : LeadsTo(s, r) /\ Becomes(t, r)
  BY <1>1, Zenon DEF Goes
<1>3. Working(t)
  BY Zenon DEF Goes
<1>4. /\ buf' = r.buf /\ tx' = [tx EXCEPT ![t] = r.t] /\ latest' = r.latest
  BY <1>2 DEF Becomes
<1>5. Owns(s, Others(t))
  BY <1>1, <1>3, OwnsItsSlots
<1>6. Owns(r, Others(t))
  BY <1>2, <1>4, <1>5, Zenon DEF LeadsTo
<1>7. /\ IsCounted(r.buf)
      /\ \A v \in Others(t) \cup SlotValues(r.t.slots) : PlaceIn(v) \in Taken(r.buf)
      /\ Others(t) \cap SlotValues(r.t.slots) = {}
      /\ OneKeyEach(r.t.slots)
      /\ \A p \in Keys(r.t.dirty) : r.latest[p].in = "spill" => Unwrapped(r.latest[p])
  BY <1>6, Zenon DEF Owns
<1>8. tx = [u \in Txns |-> tx[u]]
  BY Zenon DEF Tracked
<1>9. tx'[t] = r.t /\ \A u \in Txns : u # t => tx'[u] = tx[u]
  BY <1>4, <1>8
<1>10. \A u \in Txns : tx'[u].phase = "working" => u = t
  BY <1>3, <1>9, Zenon DEF Tracked, Working
<1>11. \A u \in Txns : u # t => SlotValues(tx[u].slots) \subseteq Others(t)
  BY DEF Others
<1>12. \A u \in Txns : \A v \in SlotValues(tx'[u].slots) : PlaceIn(v) \in Taken(buf')
  BY <1>4, <1>7, <1>9, <1>11
<1>13. \A u, w \in Txns : u # w => SlotValues(tx'[u].slots) \cap SlotValues(tx'[w].slots) = {}
  <2>. TAKE u, w \in Txns
  <2>. HAVE u # w
  <2>1. CASE u = t
    BY <1>7, <1>9, <1>11, <2>1
  <2>2. CASE w = t
    BY <1>7, <1>9, <1>11, <2>2
  <2>3. CASE u # t /\ w # t
    <3>1. SlotValues(tx[u].slots) \cap SlotValues(tx[w].slots) = {}
      BY Zenon DEF Owned
    <3>. QED  BY <1>9, <2>3, <3>1
  <2>. QED  BY <2>1, <2>2, <2>3
<1>14. \A u \in Txns : OneKeyEach(tx'[u].slots)
  BY <1>7, <1>9, Zenon DEF Owned
<1>15. \A u \in Txns : tx'[u].phase = "working" =>
         \A p \in Keys(tx'[u].dirty) : latest'[p].in = "spill" => Unwrapped(latest'[p])
  BY <1>4, <1>7, <1>9, <1>10
<1>16. IsCounted(buf')
  BY <1>4, <1>7
<1>. QED  BY <1>12, <1>13, <1>14, <1>15, <1>16, Zenon DEF Owned, Working

------------------------------------------------------------------------------
(* Beginning and ending                                                    *)

\* The fields of a transaction that begins, and of one that has ended.
Begun(x, v) ==
  [phase |-> "working", dirty |-> Clear(x.dirty), slots |-> x.slots, free |-> <<>>,
   alloc |-> v, big |-> {}, heap |-> FALSE]
Over(x) ==
  [phase |-> "ended", dirty |-> Clear(x.dirty), slots |-> x.slots, free |-> <<>>,
   alloc |-> 0, big |-> {}, heap |-> FALSE]
GivenUp(x) ==
  [phase |-> "idle", dirty |-> x.dirty, slots |-> Clear(x.slots), free |-> x.free,
   alloc |-> x.alloc, big |-> x.big, heap |-> x.heap]

IsBegun(x, v, y) ==
  y = [x EXCEPT !.phase = "working", !.dirty = Clear(x.dirty), !.free = <<>>, !.big = {},
                !.alloc = v, !.heap = FALSE]

\* beginWriteTxn's assignments, one by one.
LEMMA BegunIs ==
  ASSUME NEW x, IsTxn(x), NEW v
  PROVE  IsBegun(x, v, Begun(x, v))
<1>1. x = [phase |-> x.phase, dirty |-> x.dirty, slots |-> x.slots, free |-> x.free,
           alloc |-> x.alloc, big |-> x.big, heap |-> x.heap]
  BY Zenon DEF IsTxn
<1>2. PICK d : d = Clear(x.dirty)
  OBVIOUS
<1>3. PICK a : a = [x EXCEPT !.phase = "working"]
  OBVIOUS
<1>4. a = [phase |-> "working", dirty |-> x.dirty, slots |-> x.slots, free |-> x.free,
           alloc |-> x.alloc, big |-> x.big, heap |-> x.heap]
  BY <1>1, <1>3
<1>5. PICK b : b = [a EXCEPT !.dirty = d]
  OBVIOUS
<1>6. b = [phase |-> "working", dirty |-> d, slots |-> x.slots, free |-> x.free,
           alloc |-> x.alloc, big |-> x.big, heap |-> x.heap]
  BY <1>4, <1>5
<1>7. PICK c : c = [b EXCEPT !.free = <<>>]
  OBVIOUS
<1>8. c = [phase |-> "working", dirty |-> d, slots |-> x.slots, free |-> <<>>,
           alloc |-> x.alloc, big |-> x.big, heap |-> x.heap]
  BY <1>6, <1>7
<1>9. PICK e : e = [c EXCEPT !.big = {}]
  OBVIOUS
<1>10. e = [phase |-> "working", dirty |-> d, slots |-> x.slots, free |-> <<>>,
            alloc |-> x.alloc, big |-> {}, heap |-> x.heap]
  BY <1>8, <1>9
<1>11. PICK f : f = [e EXCEPT !.alloc = v]
  OBVIOUS
<1>12. f = [phase |-> "working", dirty |-> d, slots |-> x.slots, free |-> <<>>,
            alloc |-> v, big |-> {}, heap |-> x.heap]
  BY <1>10, <1>11
<1>13. PICK g : g = [f EXCEPT !.heap = FALSE]
  OBVIOUS
<1>14. g = [phase |-> "working", dirty |-> d, slots |-> x.slots, free |-> <<>>,
            alloc |-> v, big |-> {}, heap |-> FALSE]
  BY <1>12, <1>13
<1>15. b = [a EXCEPT !.dirty = Clear(x.dirty)]
  BY <1>2, <1>5
<1>16. g = [x EXCEPT !.phase = "working", !.dirty = Clear(x.dirty), !.free = <<>>, !.big = {},
                     !.alloc = v, !.heap = FALSE]
  BY <1>3, <1>7, <1>9, <1>11, <1>13, <1>15, Zenon
<1>. QED  BY <1>2, <1>14, <1>16 DEF IsBegun, Begun

\* A transaction begins with an empty tracker and its old slots table.
LEMMA BegunIsTxn ==
  ASSUME NEW x, IsTxn(x), NEW v \in Nat
  PROVE  /\ IsTxn(Begun(x, v)) /\ Begun(x, v).slots = x.slots
         /\ Keys(Begun(x, v).dirty) = {}
<1>1. PICK y, d : y = Begun(x, v) /\ d = Clear(x.dirty)
  OBVIOUS
<1>2. y = [phase |-> "working", dirty |-> d, slots |-> x.slots, free |-> <<>>,
           alloc |-> v, big |-> {}, heap |-> FALSE]
  BY <1>1, Zenon DEF Begun
<1>3. /\ y.phase = "working" /\ y.dirty = d /\ y.slots = x.slots /\ y.free = <<>>
      /\ y.alloc = v /\ y.big = {} /\ y.heap = FALSE
  BY <1>2
<1>4. IsTable(x.dirty)
  BY Zenon DEF IsTxn
<1>5. IsEmptyTable(d)
  BY <1>1, <1>4, Clears, Zenon
<1>6. IsTable(d) /\ Keys(d) = {}
  BY <1>5, Zenon DEF IsEmptyTable
<1>7. IsTable(x.slots) /\ \A k \in Keys(x.slots) : Get(x.slots, k) \in SlotRecords
  BY Zenon DEF IsTxn
<1>8. y = [phase |-> y.phase, dirty |-> y.dirty, slots |-> y.slots, free |-> y.free,
           alloc |-> y.alloc, big |-> y.big, heap |-> y.heap]
  BY <1>2, <1>3
<1>9. y.phase \in PhaseNames /\ y.free \in Seq(Nat) /\ y.alloc \in Nat /\ y.big \in SUBSET Nat
  BY <1>3 DEF PhaseNames
<1>10. y.heap \in BOOLEAN
  BY <1>3
<1>11. IsTxn(y)
  BY <1>3, <1>6, <1>7, <1>8, <1>9, <1>10, Zenon DEF IsTxn
<1>. QED  BY <1>1, <1>3, <1>6, <1>11

\* A transaction that ended keeps its slots, and works no more.
LEMMA OverIsTxn ==
  ASSUME NEW t \in Txns, IsTxn(tx[t])
  PROVE  /\ Ended(t) = Over(tx[t])
         /\ IsTxn(Over(tx[t])) /\ Over(tx[t]).slots = tx[t].slots
         /\ Over(tx[t]).phase # "working"
<1>1. PICK x, y, d : x = tx[t] /\ y = Over(x) /\ d = Clear(x.dirty)
  OBVIOUS
<1>2. y = [phase |-> "ended", dirty |-> d, slots |-> x.slots, free |-> <<>>,
           alloc |-> 0, big |-> {}, heap |-> FALSE]
  BY <1>1, Zenon DEF Over
<1>3. /\ y.phase = "ended" /\ y.dirty = d /\ y.slots = x.slots /\ y.free = <<>>
      /\ y.alloc = 0 /\ y.big = {} /\ y.heap = FALSE
  BY <1>2
<1>4. IsTable(x.dirty)
  BY <1>1, Zenon DEF IsTxn
<1>5. IsEmptyTable(d)
  BY <1>1, <1>4, Clears, Zenon
<1>6. IsTable(d)
  BY <1>5, Zenon DEF IsEmptyTable
<1>7. IsTable(x.slots) /\ \A k \in Keys(x.slots) : Get(x.slots, k) \in SlotRecords
  BY <1>1, Zenon DEF IsTxn
<1>8. y = [phase |-> y.phase, dirty |-> y.dirty, slots |-> y.slots, free |-> y.free,
           alloc |-> y.alloc, big |-> y.big, heap |-> y.heap]
  BY <1>2, <1>3
<1>9. y.phase \in PhaseNames /\ y.free \in Seq(Nat) /\ y.alloc \in Nat /\ y.big \in SUBSET Nat
  BY <1>3 DEF PhaseNames
<1>10. y.heap \in BOOLEAN
  BY <1>3
<1>11. IsTxn(y)
  BY <1>3, <1>6, <1>7, <1>8, <1>9, <1>10, Zenon DEF IsTxn
<1>12. Ended(t) = y
  <2>1. PICK a : a = [IdleTxn EXCEPT !.phase = "ended"]
    OBVIOUS
  <2>2. a = [phase |-> "ended", dirty |-> NoBuckets, slots |-> NoBuckets,
             free |-> <<>>, alloc |-> 0, big |-> {}, heap |-> FALSE]
    BY <2>1 DEF IdleTxn
  <2>3. PICK b : b = [a EXCEPT !.dirty = d]
    OBVIOUS
  <2>4. b = [phase |-> "ended", dirty |-> d, slots |-> NoBuckets,
             free |-> <<>>, alloc |-> 0, big |-> {}, heap |-> FALSE]
    BY <2>2, <2>3
  <2>5. PICK c : c = [b EXCEPT !.slots = x.slots]
    OBVIOUS
  <2>6. c = [phase |-> "ended", dirty |-> d, slots |-> x.slots,
             free |-> <<>>, alloc |-> 0, big |-> {}, heap |-> FALSE]
    BY <2>4, <2>5
  <2>7. Ended(t) = c
    BY <1>1, <2>1, <2>3, <2>5, Zenon DEF Ended
  <2>. QED  BY <1>2, <2>6, <2>7, Zenon
<1>. QED  BY <1>1, <1>3, <1>11, <1>12

\* The slots have their owners when only pages and phases change.
LEMMA SlotsStay ==
  ASSUME Owned, buf' = buf, \A u \in Txns : tx'[u].slots = tx[u].slots,
         \A u \in Txns : tx'[u].phase = "working" => Keys(tx'[u].dirty) = {}
  PROVE  Owned'
<1>1. \A t \in Txns : \A v \in SlotValues(tx'[t].slots) : PlaceIn(v) \in Taken(buf')
  BY Zenon DEF Owned
<1>2. \A t, u \in Txns : t # u => SlotValues(tx'[t].slots) \cap SlotValues(tx'[u].slots) = {}
  <2>. TAKE t, u \in Txns
  <2>. HAVE t # u
  <2>1. SlotValues(tx[t].slots) \cap SlotValues(tx[u].slots) = {}
    BY Zenon DEF Owned
  <2>2. tx'[t].slots = tx[t].slots /\ tx'[u].slots = tx[u].slots
    OBVIOUS
  <2>. QED  BY <2>1, <2>2
<1>3. \A t \in Txns : OneKeyEach(tx'[t].slots)
  BY Zenon DEF Owned
<1>4. \A t \in Txns : tx'[t].phase = "working" =>
        \A p \in Keys(tx'[t].dirty) : latest'[p].in = "spill" => Unwrapped(latest'[p])
  OBVIOUS
<1>5. IsCounted(buf')
  BY Zenon DEF Owned
<1>. QED  BY <1>1, <1>2, <1>3, <1>4, <1>5, Zenon DEF Owned, Working

\* No page is written yet.
LEMMA TracksNothing ==
  ASSUME NEW x, NEW l, Keys(x.dirty) = {}, l = <<>>
  PROVE  Tracks(x, l)
<1>1. DOMAIN l = {}
  OBVIOUS
<1>. QED  BY <1>1 DEF Tracks

\* beginWriteTxn: nobody else works, the slots of those who ended stay theirs.
LEMMA BeginKeeps ==
  ASSUME Tracked, NEW t \in Txns, Begin(t)
  PROVE  Tracked' /\ (Owned => Owned')
<1>1. PICK x, y : x = tx[t] /\ y = Begun(x, next)
  OBVIOUS
<1>2. IsTxn(x) /\ next \in Nat
  BY <1>1 DEF Tracked
<1>3. IsTxn(y) /\ y.slots = x.slots /\ Keys(y.dirty) = {}
  BY <1>1, <1>2, BegunIsTxn
<1>4. /\ \A u \in Txns : ~Working(u)
      /\ buf' = buf /\ latest' = <<>> /\ mapped' = mapped /\ next' = next /\ writeMap' = writeMap
  BY DEF Begin
<1>5. tx' = [tx EXCEPT ![t] = y]
  <2>1. IsBegun(x, next, y)
    BY <1>1, <1>2, BegunIs, Zenon
  <2>2. y = [x EXCEPT !.phase = "working", !.dirty = Clear(x.dirty), !.free = <<>>, !.big = {},
                      !.alloc = next, !.heap = FALSE]
    BY <2>1, Zenon DEF IsBegun
  <2>3. tx' = [tx EXCEPT ![t] = [tx[t] EXCEPT !.phase = "working", !.dirty = Clear(tx[t].dirty),
                                   !.free = <<>>, !.big = {}, !.alloc = next, !.heap = FALSE]]
    BY Zenon DEF Begin
  <2>. QED  BY <1>1, <2>2, <2>3, Zenon
<1>6. tx = [u \in Txns |-> tx[u]]
  BY Zenon DEF Tracked
<1>7. /\ tx' = [u \in Txns |-> tx'[u]] /\ tx'[t] = y
      /\ \A u \in Txns : u # t => tx'[u] = tx[u]
  BY <1>5, <1>6
<1>8. \A u \in Txns : IsTxn(tx'[u])
  BY <1>3, <1>7, Zenon DEF Tracked
<1>9. \A u \in Txns : tx'[u].phase = "working" => u = t
  BY <1>4, <1>7, Zenon DEF Working
<1>10. \A u \in Txns : tx'[u].phase = "working" => Keys(tx'[u].dirty) = {}
  BY <1>3, <1>7, <1>9
<1>11. \A u \in Txns : tx'[u].phase = "working" => Tracks(tx[u], latest)'
  <2>1. \A a, l : Keys(a.dirty) = {} /\ l = <<>> => Tracks(a, l)
    BY TracksNothing
  <2>2. DOMAIN latest' = {}
    BY <1>4
  <2>. QED  BY <1>10, <2>2 DEF Tracks
<1>12. Tracked'
  <2>1. IsBuffer(buf') /\ mapped' \in Nat /\ next' \in Nat
    BY <1>4, Zenon DEF Tracked
  <2>. QED  BY <1>7, <1>8, <1>9, <1>11, <2>1, Zenon DEF Tracked, Working
<1>13. Owned => Owned'
  <2>1. \A u \in Txns : tx'[u].slots = tx[u].slots
    BY <1>1, <1>3, <1>7
  <2>. QED  BY <1>4, <1>10, <2>1, SlotsStay, Zenon
<1>. QED  BY <1>12, <1>13

\* PreExtendMmap, for times without transactions.
LEMMA PreExtendMmapKeeps ==
  ASSUME Tracked, PreExtendMmap
  PROVE  Tracked' /\ (Owned => Owned')
<1>1. /\ \A u \in Txns : tx[u].phase = "idle"
      /\ buf' = buf /\ tx' = tx /\ next' = next /\ mapped' = mapped + 1
  BY DEF PreExtendMmap
<1>2. "idle" # "working"
  OBVIOUS
<1>3. \A u \in Txns : tx'[u].phase # "working"
  BY <1>1
<1>4. mapped' \in Nat
  BY <1>1 DEF Tracked
<1>5. /\ next' \in Nat /\ IsBuffer(buf') /\ tx' = [u \in Txns |-> tx'[u]]
      /\ \A u \in Txns : IsTxn(tx'[u])
  BY <1>1, Zenon DEF Tracked
<1>6. Tracked'
  BY <1>3, <1>4, <1>5, Zenon DEF Tracked, Working
<1>7. Owned => Owned'
  <2>1. \A u \in Txns : tx'[u].slots = tx[u].slots
    BY <1>1
  <2>2. \A u \in Txns : tx'[u].phase = "working" => Keys(tx'[u].dirty) = {}
    BY <1>3
  <2>. QED  BY <1>1, <2>1, <2>2, SlotsStay, Zenon
<1>. QED  BY <1>6, <1>7

\* Commit and abort keep the slots for later.
LEMMA EndKeeps ==
  ASSUME Tracked, NEW t \in Txns, Commit(t) \/ Abort(t)
  PROVE  Tracked' /\ (Owned => Owned')
<1>1. Working(t) /\ buf' = buf /\ tx' = [tx EXCEPT ![t] = Ended(t)]
  BY DEF Commit, Abort
<1>2. IsTxn(tx[t])
  BY Zenon DEF Tracked
<1>3. PICK y : y = Over(tx[t])
  OBVIOUS
<1>4. Ended(t) = y /\ IsTxn(y) /\ y.slots = tx[t].slots /\ y.phase # "working"
  BY <1>2, <1>3, OverIsTxn
<1>5. tx = [u \in Txns |-> tx[u]]
  BY Zenon DEF Tracked
<1>6. /\ tx' = [u \in Txns |-> tx'[u]] /\ tx'[t] = y
      /\ \A u \in Txns : u # t => tx'[u] = tx[u]
  BY <1>1, <1>4, <1>5
<1>7. \A u \in Txns : tx'[u].phase # "working"
  BY <1>1, <1>4, <1>6, Zenon DEF Tracked, Working
<1>8. \A u \in Txns : IsTxn(tx'[u])
  BY <1>4, <1>6, Zenon DEF Tracked
<1>9. mapped' \in Nat /\ next' \in Nat
  <2>1. tx[t].alloc \in Nat /\ mapped \in Nat /\ next \in Nat
    BY <1>2, Zenon DEF Tracked, IsTxn
  <2>2. CASE Commit(t)
    <3>1. next' = tx[t].alloc /\ mapped' = IF next' > mapped THEN next' ELSE mapped
      BY <2>2 DEF Commit
    <3>. QED  BY <2>1, <3>1
  <2>3. CASE Abort(t)
    BY <2>1, <2>3 DEF Abort
  <2>. QED  BY <2>2, <2>3
<1>10. IsBuffer(buf')
  BY <1>1, Zenon DEF Tracked
<1>11. Tracked'
  BY <1>6, <1>7, <1>8, <1>9, <1>10, Zenon DEF Tracked, Working
<1>12. Owned => Owned'
  <2>1. \A u \in Txns : tx'[u].slots = tx[u].slots
    BY <1>4, <1>6
  <2>2. \A u \in Txns : tx'[u].phase = "working" => Keys(tx'[u].dirty) = {}
    BY <1>7
  <2>. QED  BY <1>1, <2>1, <2>2, SlotsStay, Zenon
<1>. QED  BY <1>11, <1>12

\* The list for ReleaseBulk: the values, none twice.
IsSlotList(m, ls) ==
  /\ ls \in Seq(SlotRecords)
  /\ {ls[i] : i \in 1 .. Len(ls)} = SlotValues(m)
  /\ OneKeyEach(m) => \A i, j \in 1 .. Len(ls) : ls[i] = ls[j] => i = j

\* spillSlots.ForEach lists each slot once.
LEMMA ListsSlots ==
  ASSUME NEW m, IsTable(m), \A k \in Keys(m) : Get(m, k) \in SlotRecords,
         NEW ls, ls = [i \in DOMAIN Entries(m) |-> Entries(m)[i].val]
  PROVE  IsSlotList(m, ls)
<1>1. PICK es : es = Entries(m)
  OBVIOUS
<1>2. IsEntryList(m, es)
  BY <1>1, EntriesListAll, Zenon
<1>3. /\ es \in Seq(EntrySet(m)) /\ ToSet(es) = EntrySet(m)
      /\ \A i, j \in 1 .. Len(es) : es[i].key = es[j].key => i = j
  BY <1>2, Zenon DEF IsEntryList
<1>4. PICK N \in Nat : N = Len(es)
  BY <1>3
<1>5. DOMAIN es = 1 .. N /\ \A i \in 1 .. N : es[i] \in EntrySet(m)
  BY <1>3, <1>4
<1>6. ls = [i \in 1 .. N |-> es[i].val]
  BY <1>1, <1>5
<1>7. \A i \in 1 .. N : ls[i] = es[i].val
  BY <1>6
<1>8. \A i \in 1 .. N : es[i].key \in Keys(m) /\ es[i].val = Get(m, es[i].key)
  BY <1>5, EntryIsFound, Zenon
<1>9. ls \in Seq(SlotRecords) /\ Len(ls) = N
  <2>1. \A i \in 1 .. N : es[i].val \in SlotRecords
    BY <1>8
  <2>. QED  BY <1>6, <2>1
<1>10. {ls[i] : i \in 1 .. N} = SlotValues(m)
  <2>1. \A i \in 1 .. N : ls[i] \in SlotValues(m)
    BY <1>7, <1>8 DEF SlotValues
  <2>2. ASSUME NEW v \in SlotValues(m) PROVE \E i \in 1 .. N : ls[i] = v
    <3>1. PICK k \in Keys(m) : v = Get(m, k)
      BY DEF SlotValues
    <3>2. Entry(k, v) \in EntrySet(m) /\ Entry(k, v).val = v
      BY <3>1 DEF EntrySet, Entry
    <3>3. Entry(k, v) \in {es[i] : i \in 1 .. N}
      BY <1>3, <1>5, <3>2 DEF ToSet
    <3>4. PICK i \in 1 .. N : es[i] = Entry(k, v)
      BY <3>3
    <3>. QED  BY <1>7, <3>2, <3>4
  <2>. QED  BY <2>1, <2>2
<1>11. ASSUME OneKeyEach(m), NEW i \in 1 .. N, NEW j \in 1 .. N, ls[i] = ls[j] PROVE i = j
  <2>1. Get(m, es[i].key) = Get(m, es[j].key) /\ es[i].key \in Keys(m) /\ es[j].key \in Keys(m)
    BY <1>7, <1>8, <1>11
  <2>2. es[i].key = es[j].key
    BY <1>11, <2>1, Zenon DEF OneKeyEach
  <2>. QED  BY <1>3, <1>4, <2>2
<1>. QED  BY <1>9, <1>10, <1>11 DEF IsSlotList

\* Slots that differ tell of places that differ.
LEMMA PlacesDiffer ==
  ASSUME NEW v, NEW w, v \in SlotRecords, w \in SlotRecords, v # w
  PROVE  PlaceIn(v) # PlaceIn(w)
<1>1. v = [seg |-> v.seg, idx |-> v.idx] /\ w = [seg |-> w.seg, idx |-> w.idx]
  BY DEF SlotRecords
<1>2. v.seg # w.seg \/ v.idx # w.idx
  BY <1>1
<1>3. v.seg \in Nat /\ w.seg \in Nat
  BY DEF SlotRecords
<1>. QED  BY <1>2, <1>3 DEF PlaceIn

\* The late release takes nothing from the transaction that works.
LEMMA ReleaseSlotsKeeps ==
  ASSUME Tracked, NEW t \in Txns, ReleaseSlots(t)
  PROVE  Tracked' /\ (Owned => Owned')
<1>1. PICK x, m : x = tx[t] /\ m = x.slots
  OBVIOUS
<1>2. PICK ls : ls = [i \in DOMAIN Entries(m) |-> Entries(m)[i].val]
  OBVIOUS
<1>3. /\ x.phase = "ended" /\ buf' = ReleaseBulk(buf, ls)
      /\ tx' = [tx EXCEPT ![t].phase = "idle", ![t].slots = Clear(@)]
      /\ mapped' = mapped /\ next' = next /\ latest' = latest /\ writeMap' = writeMap
  BY <1>1, <1>2, Zenon DEF ReleaseSlots
<1>4. IsTxn(x) /\ IsTable(m) /\ \A k \in Keys(m) : Get(m, k) \in SlotRecords
  BY <1>1, Zenon DEF Tracked, IsTxn
<1>5. IsSlotList(m, ls)
  BY <1>2, <1>4, ListsSlots, Zenon
<1>6. ls \in Seq(SlotRecords) /\ {ls[i] : i \in 1 .. Len(ls)} = SlotValues(m)
  BY <1>5, Zenon DEF IsSlotList
<1>7. IsBuffer(buf)
  BY Zenon DEF Tracked
<1>8. AreReleased(buf, ls, Len(ls), buf')
  BY <1>3, <1>6, <1>7, BulkReleases, Zenon
<1>9. PICK y, e : y = GivenUp(x) /\ e = Clear(m)
  OBVIOUS
<1>10. y = [phase |-> "idle", dirty |-> x.dirty, slots |-> e, free |-> x.free,
            alloc |-> x.alloc, big |-> x.big, heap |-> x.heap]
  BY <1>1, <1>9, Zenon DEF GivenUp
<1>11. /\ y.phase = "idle" /\ y.dirty = x.dirty /\ y.slots = e /\ y.free = x.free
       /\ y.alloc = x.alloc /\ y.big = x.big /\ y.heap = x.heap
  BY <1>10
<1>12. IsEmptyTable(e)
  BY <1>4, <1>9, Clears, Zenon
<1>13. IsTable(e) /\ Keys(e) = {}
  BY <1>12, Zenon DEF IsEmptyTable
<1>14. IsTxn(y)
  <2>1. y = [phase |-> y.phase, dirty |-> y.dirty, slots |-> y.slots, free |-> y.free,
             alloc |-> y.alloc, big |-> y.big, heap |-> y.heap]
    BY <1>10, <1>11
  <2>2. y.phase \in PhaseNames
    BY <1>11 DEF PhaseNames
  <2>3. \A k \in Keys(e) : Get(e, k) \in SlotRecords
    BY <1>13
  <2>. QED  BY <1>4, <1>11, <1>13, <2>1, <2>2, <2>3, Zenon DEF IsTxn
<1>15. tx = [u \in Txns |-> tx[u]]
  BY Zenon DEF Tracked
<1>16. /\ tx' = [u \in Txns |-> tx'[u]] /\ tx'[t] = y
       /\ \A u \in Txns : u # t => tx'[u] = tx[u]
  <2>1. x = [phase |-> x.phase, dirty |-> x.dirty, slots |-> x.slots, free |-> x.free,
             alloc |-> x.alloc, big |-> x.big, heap |-> x.heap]
    BY <1>4, Zenon DEF IsTxn
  <2>2. PICK a : a = [x EXCEPT !.phase = "idle"]
    OBVIOUS
  <2>3. a = [phase |-> "idle", dirty |-> x.dirty, slots |-> x.slots, free |-> x.free,
             alloc |-> x.alloc, big |-> x.big, heap |-> x.heap]
    BY <2>1, <2>2
  <2>4. [a EXCEPT !.slots = e] = y
    BY <1>10, <2>3
  <2>5. a.slots = m
    BY <1>1, <2>3
  <2>6. PICK f : f = [tx EXCEPT ![t].phase = "idle"]
    OBVIOUS
  <2>7. f = [u \in Txns |-> f[u]] /\ f[t] = a /\ \A u \in Txns : u # t => f[u] = tx[u]
    BY <1>1, <1>15, <2>2, <2>6
  <2>8. tx' = [f EXCEPT ![t].slots = Clear(@)]
    BY <1>3, <2>6, Zenon
  <2>9. tx' = [f EXCEPT ![t] = [a EXCEPT !.slots = Clear(a.slots)]]
    BY <2>7, <2>8
  <2>10. tx' = [f EXCEPT ![t] = y]
    BY <1>9, <2>4, <2>5, <2>9
  <2>. QED  BY <2>7, <2>10
<1>17. \A u \in Txns : IsTxn(tx'[u])
  BY <1>14, <1>16, Zenon DEF Tracked
<1>18. \A u \in Txns : tx'[u].phase = "working" => u # t /\ Working(u) /\ tx'[u] = tx[u]
  BY <1>11, <1>16 DEF Working
<1>19. \A u \in Txns : tx'[u].phase = "working" => Tracks(tx[u], latest)'
  <2>. TAKE u \in Txns
  <2>. HAVE tx'[u].phase = "working"
  <2>1. Working(u) /\ tx'[u] = tx[u]
    BY <1>18
  <2>2. Tracks(tx[u], latest)
    BY <2>1, Zenon DEF Tracked
  <2>. QED  BY <1>3, <2>1, <2>2, Zenon DEF Tracks, Home
<1>20. \A u, w \in Txns : tx'[u].phase = "working" /\ tx'[w].phase = "working" => u = w
  BY <1>18, Zenon DEF Tracked
<1>21. IsBuffer(buf')
  BY <1>8, Zenon DEF AreReleased
<1>22. Tracked'
  <2>1. mapped' \in Nat /\ next' \in Nat
    BY <1>3, Zenon DEF Tracked
  <2>. QED  BY <1>16, <1>17, <1>19, <1>20, <1>21, <2>1, Zenon DEF Tracked, Working
<1>23. ASSUME Owned PROVE Owned'
  <2>1. OneKeyEach(m) /\ \A v \in SlotValues(m) : PlaceIn(v) \in Taken(buf)
    BY <1>1, <1>23, Zenon DEF Owned
  <2>2. AreTaken(buf, ls)
    <3>1. \A i, j \in 1 .. Len(ls) : ls[i] = ls[j] => i = j
      BY <1>5, <2>1, Zenon DEF IsSlotList
    <3>2. \A i \in 1 .. Len(ls) : ls[i] \in SlotValues(m)
      BY <1>6
    <3>. QED  BY <2>1, <3>1, <3>2, Zenon DEF AreTaken
  <2>3. Taken(buf') = Taken(buf) \ GivenBack(ls, Len(ls)) /\ (IsCounted(buf) => IsCounted(buf'))
    BY <1>8, <2>2, Zenon DEF AreReleased
  <2>4. IsCounted(buf')
    BY <1>23, <2>3, Zenon DEF Owned
  <2>5. SlotValues(e) = {}
    BY <1>13 DEF SlotValues
  <2>6. \A u \in Txns : SlotValues(tx[u].slots) \subseteq SlotRecords
    BY DEF Tracked, IsTxn, SlotValues
  <2>7. ASSUME NEW u \in Txns, NEW v \in SlotValues(tx'[u].slots)
        PROVE  PlaceIn(v) \in Taken(buf')
    <3>1. u # t
      BY <1>11, <1>16, <2>5, <2>7
    <3>2. v \in SlotValues(tx[u].slots) /\ v \in SlotRecords
      BY <1>16, <2>6, <2>7, <3>1
    <3>3. PlaceIn(v) \in Taken(buf)
      BY <1>23, <3>2, Zenon DEF Owned
    <3>4. v \notin SlotValues(m)
      <4>1. SlotValues(tx[u].slots) \cap SlotValues(tx[t].slots) = {}
        BY <1>23, <3>1, Zenon DEF Owned
      <4>. QED  BY <1>1, <3>2, <4>1
    <3>5. ASSUME NEW i \in 1 .. Len(ls) PROVE PlaceIn(v) # PlaceIn(ls[i])
      <4>1. ls[i] \in SlotValues(m) /\ ls[i] \in SlotRecords
        BY <1>6
      <4>2. v # ls[i]
        BY <3>4, <4>1
      <4>. QED  BY <3>2, <4>1, <4>2, PlacesDiffer
    <3>6. PlaceIn(v) \notin GivenBack(ls, Len(ls))
      BY <3>5 DEF GivenBack
    <3>. QED  BY <2>3, <3>3, <3>6
  <2>8. \A u, w \in Txns : u # w => SlotValues(tx'[u].slots) \cap SlotValues(tx'[w].slots) = {}
    <3>. TAKE u, w \in Txns
    <3>. HAVE u # w
    <3>1. CASE u = t
      BY <1>11, <1>16, <2>5, <3>1
    <3>2. CASE w = t
      BY <1>11, <1>16, <2>5, <3>2
    <3>3. CASE u # t /\ w # t
      <4>1. SlotValues(tx[u].slots) \cap SlotValues(tx[w].slots) = {}
        BY <1>23, Zenon DEF Owned
      <4>. QED  BY <1>16, <3>3, <4>1
    <3>. QED  BY <3>1, <3>2, <3>3
  <2>9. \A u \in Txns : OneKeyEach(tx'[u].slots)
    <3>1. OneKeyEach(e)
      BY <1>13 DEF OneKeyEach
    <3>2. \A u \in Txns : OneKeyEach(tx[u].slots)
      BY <1>23, Zenon DEF Owned
    <3>. QED  BY <1>11, <1>16, <3>1, <3>2
  <2>10. \A u \in Txns : tx'[u].phase = "working" =>
           \A p \in Keys(tx'[u].dirty) : latest'[p].in = "spill" => Unwrapped(latest'[p])
    BY <1>3, <1>18, <1>23, Zenon DEF Owned
  <2>. QED  BY <2>4, <2>7, <2>8, <2>9, <2>10, Zenon DEF Owned, Working
<1>. QED  BY <1>22, <1>23

------------------------------------------------------------------------------
(* The two invariants                                                      *)

FewSegments == Few(buf)

\* The transaction object of a fresh environment, and no page changed yet.
LEMMA IdleIsTxn == IsTxn(IdleTxn) /\ SlotValues(IdleTxn.slots) = {}
<1>1. PICK x, m : x = IdleTxn /\ m = NoBuckets
  OBVIOUS
<1>2. x = [phase |-> "idle", dirty |-> m, slots |-> m, free |-> <<>>, alloc |-> 0,
           big |-> {}, heap |-> FALSE]
  BY <1>1, Zenon DEF IdleTxn
<1>3. /\ x.phase = "idle" /\ x.dirty = m /\ x.slots = m /\ x.free = <<>>
      /\ x.alloc = 0 /\ x.big = {} /\ x.heap = FALSE
  BY <1>2
<1>4. IsTable(m) /\ Keys(m) = {}
  BY <1>1, NoBucketsIsEmpty, Zenon DEF IsEmptyTable
<1>5. x = [phase |-> x.phase, dirty |-> x.dirty, slots |-> x.slots, free |-> x.free,
           alloc |-> x.alloc, big |-> x.big, heap |-> x.heap]
  BY <1>2, <1>3
<1>6. x.phase \in PhaseNames /\ x.free \in Seq(Nat) /\ x.alloc \in Nat /\ x.big \in SUBSET Nat
  BY <1>3 DEF PhaseNames
<1>7. x.heap \in BOOLEAN
  BY <1>3
<1>8. \A k \in Keys(m) : Get(m, k) \in SlotRecords
  BY <1>4
<1>9. IsTxn(x)
  BY <1>3, <1>4, <1>5, <1>6, <1>7, <1>8, Zenon DEF IsTxn
<1>10. SlotValues(x.slots) = {}
  BY <1>3, <1>4 DEF SlotValues
<1>. QED  BY <1>1, <1>9, <1>10

\* A fresh environment.
LEMMA InitHolds ==
  ASSUME Init
  PROVE  Tracked /\ Owned
<1>1. PICK x : x = IdleTxn
  OBVIOUS
<1>2. IsTxn(x) /\ SlotValues(x.slots) = {}
  BY <1>1, IdleIsTxn, Zenon
<1>3. x.phase = "idle" /\ x.slots = NoBuckets
  BY <1>1 DEF IdleTxn
<1>4. tx = [t \in Txns |-> x] /\ buf = NewBuffer /\ mapped = FirstPages /\ next = FirstPages
  BY <1>1, Zenon DEF Init
<1>5. tx = [t \in Txns |-> tx[t]] /\ \A t \in Txns : tx[t] = x
  BY <1>4
<1>6. \A t \in Txns : tx[t].phase # "working"
  BY <1>3, <1>5
<1>7. mapped \in Nat /\ next \in Nat
  BY <1>4, DirtyAssumption
<1>8. IsBuffer(buf) /\ IsCounted(buf)
  BY <1>4, NewBufferIsBuffer, Zenon
<1>9. \A t \in Txns : IsTxn(tx[t])
  BY <1>2, <1>5, Zenon
<1>10. Tracked
  BY <1>5, <1>6, <1>7, <1>8, <1>9, Zenon DEF Tracked, Working
<1>11. \A t \in Txns : SlotValues(tx[t].slots) = {} /\ OneKeyEach(tx[t].slots)
  <2>1. Keys(NoBuckets) = {}
    BY NoBucketsIsEmpty, Zenon DEF IsEmptyTable
  <2>2. OneKeyEach(x.slots)
    BY <1>3, <2>1 DEF OneKeyEach
  <2>. QED  BY <1>2, <1>5, <2>2
<1>12. /\ \A t \in Txns : \A v \in SlotValues(tx[t].slots) : PlaceIn(v) \in Taken(buf)
       /\ \A t, u \in Txns : t # u => SlotValues(tx[t].slots) \cap SlotValues(tx[u].slots) = {}
  BY <1>11
<1>13. Owned
  BY <1>6, <1>8, <1>11, <1>12, Zenon DEF Owned, Working
<1>. QED  BY <1>10, <1>13

\* Steps of others.
LEMMA StutterKeeps ==
  ASSUME Tracked, UNCHANGED vars
  PROVE  Tracked' /\ (Owned => Owned')
<1>1. /\ writeMap' = writeMap /\ mapped' = mapped /\ next' = next /\ buf' = buf
      /\ tx' = tx /\ latest' = latest
  BY DEF vars
<1>2. Tracked'
  <2>1. \A t \in Txns : tx'[t].phase = "working" => Tracks(tx[t], latest)'
    <3>. TAKE t \in Txns
    <3>. HAVE tx'[t].phase = "working"
    <3>1. Tracks(tx[t], latest)
      BY <1>1, Zenon DEF Tracked, Working
    <3>. QED  BY <1>1, <3>1, Zenon DEF Tracks, Home
  <2>2. /\ mapped' \in Nat /\ next' \in Nat /\ IsBuffer(buf') /\ tx' = [t \in Txns |-> tx'[t]]
        /\ \A t \in Txns : IsTxn(tx'[t])
    BY <1>1, Zenon DEF Tracked
  <2>3. \A t, u \in Txns : tx'[t].phase = "working" /\ tx'[u].phase = "working" => t = u
    BY <1>1, Zenon DEF Tracked, Working
  <2>. QED  BY <2>1, <2>2, <2>3, Zenon DEF Tracked, Working
<1>3. Owned => Owned'
  BY <1>1, Zenon DEF Owned, Working
<1>. QED  BY <1>2, <1>3

\* A step is the begin or the end of a transaction, or a call.
LEMMA StepKinds ==
  ASSUME Tracked, Next
  PROVE  \/ PreExtendMmap
         \/ \E t \in Txns : Begin(t) \/ Commit(t) \/ Abort(t) \/ ReleaseSlots(t) \/ Goes(t)
<1>1. CASE PreExtendMmap
  BY <1>1
<1>2. ASSUME NEW t \in Txns, TouchPage(t) PROVE Goes(t)
  BY <1>2, TouchPageGoes, Zenon
<1>3. ASSUME NEW t \in Txns, TouchSubTreePage(t) PROVE Goes(t)
  BY <1>3, TouchSubTreePageGoes, Zenon
<1>4. ASSUME NEW t \in Txns, AllocatePage(t) PROVE Goes(t)
  BY <1>4, AllocatePageGoes, Zenon
<1>5. ASSUME NEW t \in Txns, AllocateOverflow(t) PROVE Goes(t)
  BY <1>5, AllocateOverflowGoes, Zenon
<1>6. ASSUME NEW t \in Txns, NEW p, FreePage(t, p) PROVE Goes(t)
  BY <1>6, FreePageGoes, Zenon
<1>7. ASSUME NEW t \in Txns, NEW p, FreeOverflow(t, p) PROVE Goes(t)
  BY <1>7, FreeOverflowGoes, Zenon
<1>8. ASSUME NEW t \in Txns, NEW p, NEW n \in 1 .. 2, UpdateOverflowInPlace(t, p, n) PROVE Goes(t)
  BY <1>8, UpdateOverflowInPlaceGoes, Zenon
<1>9. ASSUME NEW t \in Txns, NEW p, NEW n \in 1 .. 2, UpdateOverflowInMap(t, p, n) PROVE Goes(t)
  BY <1>9, UpdateOverflowInMapGoes, Zenon
<1>. QED  BY <1>1, <1>2, <1>3, <1>4, <1>5, <1>6, <1>7, <1>8, <1>9, Zenon DEF Next

\* Every step keeps Tracked; it keeps Owned too while a Slot's two indices
\* can name every segment.
LEMMA NextKeeps ==
  ASSUME Tracked, [Next]_vars
  PROVE  Tracked' /\ (Owned /\ FewSegments' => Owned')
<1>1. CASE UNCHANGED vars
  BY <1>1, StutterKeeps, Zenon
<1>2. CASE PreExtendMmap
  BY <1>2, PreExtendMmapKeeps, Zenon
<1>3. ASSUME NEW t \in Txns, Begin(t) PROVE Tracked' /\ (Owned => Owned')
  BY <1>3, BeginKeeps, Zenon
<1>4. ASSUME NEW t \in Txns, Commit(t) \/ Abort(t) PROVE Tracked' /\ (Owned => Owned')
  BY <1>4, EndKeeps, Zenon
<1>5. ASSUME NEW t \in Txns, ReleaseSlots(t) PROVE Tracked' /\ (Owned => Owned')
  BY <1>5, ReleaseSlotsKeeps, Zenon
<1>6. ASSUME NEW t \in Txns, Goes(t) PROVE Tracked' /\ (Owned /\ FewSegments' => Owned')
  <2>1. Tracked'
    BY <1>6, CallKeepsTracked, Zenon
  <2>2. ASSUME Owned, FewSegments' PROVE Owned'
    <3>1. Few(buf')
      BY <2>2, Zenon DEF FewSegments
    <3>. QED  BY <1>6, <2>2, <3>1, CallKeepsOwned, Zenon
  <2>. QED  BY <2>1, <2>2
<1>7. CASE Next
  BY <1>2, <1>3, <1>4, <1>5, <1>6, <1>7, StepKinds, Zenon
<1>. QED  BY <1>1, <1>7

\* The first invariant holds without bounds.
LEMMA TrackedAlways == Spec => []Tracked
<1>1. Init => Tracked
  BY InitHolds
<1>2. Tracked /\ [Next]_vars => Tracked'
  BY NextKeeps
<1>. QED  BY <1>1, <1>2, PTL DEF Spec

\* The second holds as long as the segments are few.
LEMMA OwnedAlways == Spec /\ []FewSegments => []Owned
<1>1. Init => Owned
  BY InitHolds
<1>2. Tracked /\ Owned /\ FewSegments' /\ [Next]_vars => Owned'
  BY NextKeeps
<1>. QED  BY <1>1, <1>2, TrackedAlways, PTL DEF Spec

------------------------------------------------------------------------------
(* What follows                                                            *)

\* No segment before curSegment has a free slot (spill.Buffer's Allocate,
\* Release, ReleaseBulk).
THEOREM SlotsAreFound == Spec => []FreeSlotsAreFound
<1>1. Tracked => FreeSlotsAreFound
  BY DEF Tracked, IsBuffer, FreeSlotsAreFound
<1>. QED  BY <1>1, TrackedAlways, PTL

\* dirtyTracker.get finds every page where it was last written, whatever
\* tables of fastmap grew or were cleared in between.
THEOREM LookupsAreLatest == Spec => []LookupIsLatest
<1>1. ASSUME Tracked PROVE LookupIsLatest
  <2>1. ASSUME NEW t \in Txns, Working(t)
        PROVE  /\ Dirty(t) \subseteq DOMAIN latest
               /\ \A p \in DOMAIN latest : \/ Get(tx[t].dirty, p) = latest[p]
                                           \/ p \notin Dirty(t) /\ latest[p] = InMap(p)
    <3>1. Dirty(t) = Keys(tx[t].dirty)
      BY <1>1, DirtyIsKeys
    <3>2. Tracks(tx[t], latest)
      BY <1>1, <2>1, Zenon DEF Tracked
    <3>3. /\ Keys(tx[t].dirty) \subseteq DOMAIN latest
          /\ \A p \in Keys(tx[t].dirty) : Get(tx[t].dirty, p) = latest[p]
          /\ \A p \in DOMAIN latest \ Keys(tx[t].dirty) : latest[p] = InMap(p)
      BY <3>2, Zenon DEF Tracks
    <3>. QED  BY <3>1, <3>3
  <2>. QED  BY <2>1, Zenon DEF LookupIsLatest
<1>. QED  BY <1>1, TrackedAlways, PTL

\* writeDirtyPages leaves no page out that was changed outside the map.
THEOREM EveryPageIsWritten == Spec => []CommitWritesEveryPage
<1>1. ASSUME Tracked, NEW t \in Txns, Working(t), NEW p \in DOMAIN latest, latest[p] # InMap(p)
      PROVE  [key |-> p, val |-> latest[p]] \in ToSet(Written(t))
  <2>1. PICK x : x = tx[t]
    OBVIOUS
  <2>2. IsTxn(x) /\ Tracks(x, latest)
    BY <1>1, <2>1, Zenon DEF Tracked
  <2>3. p \in Keys(x.dirty) /\ Get(x.dirty, p) = latest[p] /\ Home(x, p, latest[p])
    BY <1>1, <2>2, Zenon DEF Tracks
  <2>4. IsTable(x.dirty) /\ IsTable(x.slots)
    BY <2>2, Zenon DEF IsTxn
  <2>5. ~(writeMap /\ ~x.heap /\ x.slots.count = 0)
    <3>1. CASE latest[p] = OnHeap(p) /\ (writeMap => x.heap)
      BY <3>1, Zenon
    <3>2. CASE p \in Keys(x.slots)
      BY <2>4, <3>2, CountsKeys
    <3>. QED  BY <1>1, <2>3, <3>1, <3>2, Zenon DEF Home
  <2>6. PICK es : es = Entries(x.dirty)
    OBVIOUS
  <2>7. Written(t) = es
    BY <2>1, <2>5, <2>6, Zenon DEF Written
  <2>8. IsEntryList(x.dirty, es)
    BY <2>4, <2>6, EntriesListAll, Zenon
  <2>9. ToSet(es) = EntrySet(x.dirty)
    BY <2>8, Zenon DEF IsEntryList
  <2>10. Entry(p, latest[p]) \in EntrySet(x.dirty)
    BY <2>3, Zenon DEF EntrySet
  <2>. QED  BY <2>7, <2>9, <2>10, Zenon DEF Entry
<1>2. Tracked => CommitWritesEveryPage
  BY <1>1, Zenon DEF CommitWritesEveryPage
<1>. QED  BY <1>2, TrackedAlways, PTL

\* The data of a transaction's pages never overlap, and their slots are
\* taken and nobody else's, as long as the buffer has no more segments than
\* a Slot's 16 bits can number.
THEOREM DataAreOwned == Spec /\ []FewSegments => []PagesOwnTheirData
<1>1. ASSUME Tracked, Owned, NEW t \in Txns, Working(t)
      PROVE  LET data(p) == Get(tx[t].dirty, p)
                 used == Dirty(t) \ ToSet(tx[t].free)
                 spilled == {data(p) : p \in {q \in used : data(q).in = "spill"}}
             IN /\ \A p, q \in used : data(p) = data(q) => p = q
                /\ \A d \in spilled :
                     /\ IsAllocated(buf, d)
                     /\ \A u \in Txns \ {t} : \A e \in ToSet(Entries(tx[u].slots)) : e.val # SlotOf(d)
  <2>1. PICK x : x = tx[t]
    OBVIOUS
  <2>2. Dirty(t) = Keys(x.dirty) /\ Dirty(t) \subseteq Nat
    BY <1>1, <2>1, DirtyIsKeys
  <2>3. Tracks(x, latest) /\ OneKeyEach(x.slots) /\ IsBuffer(buf)
    BY <1>1, <2>1, Zenon DEF Tracked, Owned
  <2>4. \A p \in Keys(x.dirty) : Get(x.dirty, p) = latest[p] /\ Home(x, p, latest[p])
    BY <2>3, Zenon DEF Tracks
  <2>5. ASSUME NEW p \in Keys(x.dirty), latest[p].in = "spill"
        PROVE  p \in Keys(x.slots) /\ Get(x.slots, p) = SlotOf(latest[p])
    <3>1. latest[p] # InMap(p) /\ latest[p] # OnHeap(p)
      BY <2>5 DEF InMap, OnHeap
    <3>. QED  BY <2>4, <3>1, Zenon DEF Home
  <2>6. ASSUME NEW p \in Keys(x.dirty), NEW q \in Keys(x.dirty), latest[p] = latest[q]
        PROVE  p = q
    <3>1. CASE latest[p].in = "spill"
      BY <2>3, <2>5, <2>6, <3>1, Zenon DEF OneKeyEach
    <3>2. CASE latest[p].in # "spill"
      <4>1. latest[p] = InMap(p) \/ latest[p] = OnHeap(p)
        BY <2>4, <3>2, Zenon DEF Home
      <4>2. latest[q] = InMap(q) \/ latest[q] = OnHeap(q)
        BY <2>4, <2>6, <3>2, Zenon DEF Home
      <4>3. latest[p].idx = p /\ latest[q].idx = q
        BY <4>1, <4>2 DEF InMap, OnHeap
      <4>. QED  BY <2>6, <4>3
    <3>. QED  BY <3>1, <3>2
  <2>7. ASSUME NEW p \in Keys(x.dirty), latest[p].in = "spill"
        PROVE  /\ IsAllocated(buf, latest[p])
               /\ \A u \in Txns \ {t} : \A e \in ToSet(Entries(tx[u].slots)) :
                    e.val # SlotOf(latest[p])
    <3>1. PICK d, v : d = latest[p] /\ v = SlotOf(d)
      OBVIOUS
    <3>2. v \in SlotValues(x.slots)
      BY <2>5, <2>7, <3>1 DEF SlotValues
    <3>3. PlaceIn(v) \in Taken(buf) /\ Unwrapped(d)
      BY <1>1, <2>1, <2>7, <3>1, <3>2, Zenon DEF Owned
    <3>4. [seg |-> d.seg, idx |-> d.idx] \in Taken(buf)
      BY <3>1, <3>3, Zenon DEF Unwrapped
    <3>5. PICK c : c = [seg |-> d.seg, idx |-> d.idx]
      OBVIOUS
    <3>6. c.seg = d.seg /\ c.idx = d.idx
      BY <3>5
    <3>7. c.seg \in 1 .. Len(buf.segs) /\ c.idx \in buf.segs[c.seg].used
      BY <2>3, <3>4, <3>5, TakenIsPlace
    <3>8. DOMAIN buf.segs = 1 .. Len(buf.segs)
      BY <2>3 DEF IsBuffer
    <3>9. IsAllocated(buf, d)
      BY <3>6, <3>7, <3>8 DEF IsAllocated
    <3>10. ASSUME NEW u \in Txns \ {t}, NEW e \in ToSet(Entries(tx[u].slots))
           PROVE  e.val # v
      <4>1. PICK es, m : m = tx[u].slots /\ es = Entries(m)
        OBVIOUS
      <4>2. IsTable(m)
        BY <1>1, <4>1, Zenon DEF Tracked, IsTxn
      <4>3. IsEntryList(m, es)
        BY <4>1, <4>2, EntriesListAll, Zenon
      <4>4. e \in EntrySet(m)
        BY <3>10, <4>1, <4>3, Zenon DEF IsEntryList
      <4>5. e.key \in Keys(m) /\ e.val = Get(m, e.key)
        BY <4>4, EntryIsFound, Zenon
      <4>6. e.val \in SlotValues(m)
        BY <4>5 DEF SlotValues
      <4>7. SlotValues(tx[t].slots) \cap SlotValues(tx[u].slots) = {}
        <5>1. t # u
          OBVIOUS
        <5>. QED  BY <1>1, <5>1, Zenon DEF Owned
      <4>. QED  BY <2>1, <3>2, <4>1, <4>6, <4>7
    <3>. QED  BY <3>1, <3>9, <3>10
  <2>. QED  BY <2>1, <2>2, <2>4, <2>6, <2>7
<1>2. Tracked /\ Owned => PagesOwnTheirData
  BY <1>1, Zenon DEF PagesOwnTheirData
<1>. QED  BY <1>2, TrackedAlways, OwnedAlways, PTL

\* Bitmaps hold slots, curSegment is a segment and AllocatedCount the number
\* of slots taken, under the same limit.
THEOREM TypeCorrect == Spec /\ []FewSegments => []TypeOK
<1>1. ASSUME Tracked, Owned PROVE TypeOK
  <2>1. IsBuffer(buf) /\ IsCounted(buf)
    BY <1>1, Zenon DEF Tracked, Owned
  <2>2. buf.segs \in Seq(Bitmaps) /\ buf.cur \in 1 .. Len(buf.segs)
    BY <2>1, Zenon DEF IsBuffer
  <2>3. \A s \in DOMAIN buf.segs : buf.segs[s].used \subseteq Slots
    <3>. TAKE s \in DOMAIN buf.segs
    <3>1. buf.segs[s] \in Bitmaps
      BY <2>2
    <3>. QED  BY <3>1 DEF Bitmaps
  <2>4. buf.cur \in DOMAIN buf.segs
    BY <2>2
  <2>5. buf.total = Cardinality(Taken(buf))
    BY <2>1, Zenon DEF IsCounted
  <2>6. \A t \in Txns : tx[t].phase \in {"idle", "working", "ended", "panicked"} /\ tx[t].alloc \in Nat
    BY <1>1, Zenon DEF Tracked, IsTxn, PhaseNames
  <2>. QED  BY <2>3, <2>4, <2>5, <2>6 DEF TypeOK
<1>. QED  BY <1>1, TrackedAlways, OwnedAlways, PTL

\* Uint32Map.Set, through growth and collisions: the map with one key
\* changed, and a table whose probes still end.
THEOREM SetIsUpdate ==
  ASSUME NEW m, IsTable(m), NEW key \in Nat, NEW val, [key |-> key, val |-> val] # Unused
  PROVE  /\ IsTable(Set(m, key, val))
         /\ Content(Set(m, key, val)) =
              [k \in Keys(m) \cup {key} |-> IF k = key THEN val ELSE Content(m)[k]]
<1>1. PICK t : t = Set(m, key, val)
  OBVIOUS
<1>2. IsPut(m, key, val, t)
  BY <1>1, Sets, Zenon
<1>3. /\ IsTable(t) /\ Keys(t) = Keys(m) \cup {key} /\ Get(t, key) = val
      /\ \A k \in Keys(m) \ {key} : Get(t, k) = Get(m, k)
  BY <1>2, Zenon DEF IsPut
<1>4. Content(t) = [k \in Keys(m) \cup {key} |-> IF k = key THEN val ELSE Content(m)[k]]
  BY <1>3 DEF Content
<1>. QED  BY <1>1, <1>3, <1>4
==============================================================================
