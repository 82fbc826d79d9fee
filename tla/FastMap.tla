------------------------------- MODULE FastMap -------------------------------
(***************************************************************************)
(* fastmap.Uint32Map: open addressing with linear probing, growing when    *)
(* three quarters of the buckets are used.  There is no deletion of one    *)
(* key; Clear empties the table and keeps its size.                        *)
(***************************************************************************)
EXTENDS Integers, Sequences, FiniteSetsExt

CONSTANTS
  InitBuckets,  \* buckets of the first table (16); sizes are its doubles
  Unused        \* a bucket never set, and the answer of an unsuccessful Get

ASSUME BucketsAssumption == InitBuckets \in Nat /\ InitBuckets > 1

NoBuckets == [size |-> 0, count |-> 0, at |-> <<>>]
Buckets(n) == [size |-> n, count |-> 0, at |-> [i \in 0 .. n - 1 |-> Unused]]

\* The mask keeps the low bits of key * 2654435769; tables of up to 2^16
\* buckets see only the multiplier's low 16 bits.
FibHashLow == 31161
Hash(m, key) == (key * FibHashLow) % m.size

\* The bucket a probe for the key stops at: the key's own or an unused one.
ProbeStop(m, key) ==
  LET bucket(d) == (Hash(m, key) + d) % m.size
      Stops(d) == m.at[bucket(d)] = Unused \/ m.at[bucket(d)].key = key
  IN bucket(Min({d \in 0 .. m.size - 1 : Stops(d)}))

Get(m, key) ==
  IF m.size = 0 THEN Unused
  ELSE LET b == m.at[ProbeStop(m, key)] IN IF b = Unused THEN Unused ELSE b.val

\* The probing loop of Set.
Insert(m, key, val) ==
  LET i == ProbeStop(m, key)
  IN [m EXCEPT !.count = IF m.at[i] = Unused THEN @ + 1 ELSE @,
               !.at[i] = [key |-> key, val |-> val]]

\* ForEach visits the used buckets in the order of the array.
Entries(m) ==
  LET upTo[n \in 0 .. m.size] ==
        IF n = 0 THEN <<>>
        ELSE IF m.at[n - 1] = Unused THEN upTo[n - 1] ELSE Append(upTo[n - 1], m.at[n - 1])
  IN upTo[m.size]

\* Mutant: the buckets are copied to the same places of the larger table.
GrowInPlace(m) ==
  [Buckets(2 * m.size) EXCEPT !.count = m.count,
     !.at = [i \in DOMAIN @ |-> IF i < m.size THEN m.at[i] ELSE Unused]]

\* grow inserts every entry again, as the mask has one bit more.
Grow(m) ==
  LET grown[n \in 0 .. m.size] ==
        IF n = 0 THEN Buckets(2 * m.size)
        ELSE IF m.at[n - 1] = Unused THEN grown[n - 1]
        ELSE Insert(grown[n - 1], m.at[n - 1].key, m.at[n - 1].val)
  IN grown[m.size]

\* Set: the table may grow even if the key is already in it.
Set(m, key, val) ==
  Insert(IF m.size = 0 THEN Buckets(InitBuckets)
         ELSE IF m.count >= (m.size * 3) \div 4 THEN Grow(m) ELSE m, key, val)

Clear(m) == IF m.size = 0 THEN m ELSE Buckets(m.size)
==============================================================================
