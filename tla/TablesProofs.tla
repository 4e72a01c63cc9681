----------------------------- MODULE TablesProofs -----------------------------
(***************************************************************************)
(* For any keys, values, hash function, entries and sizes.  The two parts  *)
(* together: a key reads as it was last set, the array part stays within   *)
(* its memory, and a table without integer keys in its hash part is the    *)
(* map the script wrote.  The hash part: whatever order a script sets,     *)
(* removes and clears in, a loop and the inline caches dereference only    *)
(* entries of the table, and a loop sees no key twice and misses none      *)
(* outside the last bucket.                                                *)
(***************************************************************************)
EXTENDS Tables, TLAPS

-----------------------------------------------------------------------------
(* The two parts form a map.                                                *)


\* An integer key is in the array part as it was last set, or in the hash part under an
\* empty slot.
IndexesAgree ==
  \A i \in Indexes :
    \/ array_part[i] = Promised(i)
    \/ array_part[i] = None /\ i \in DOMAIN hash /\ hash[i] = Promised(i)

\* The other keys are in the hash part.
StringsAgree ==
  \A s \in Strings : /\ s \in DOMAIN hash <=> s \in DOMAIN contents
                     /\ s \in DOMAIN hash => hash[s] = contents[s]

IInv == TypeOK /\ SlotsInBounds /\ IndexesAgree /\ StringsAgree

LEMMA MapFacts ==
  ASSUME NEW map \in Maps, NEW k \in Keys, NEW v \in Stored
  PROVE  /\ DOMAIN map \subseteq Keys /\ \A x \in DOMAIN map : map[x] \in Stored
         /\ Put(map, k, v) \in Maps /\ Drop(map, k) \in Maps
<1>1. PICK ks \in SUBSET Keys : map \in [ks -> Stored]
  BY DEF Maps
<1>2. Put(map, k, v) \in [ks \cup {k} -> Stored]
  BY <1>1 DEF Put
<1>3. Drop(map, k) \in [ks \ {k} -> Stored]
  BY <1>1 DEF Drop
<1>4. ks \cup {k} \in SUBSET Keys /\ ks \ {k} \in SUBSET Keys
  OBVIOUS
<1>5. Put(map, k, v) \in Maps /\ Drop(map, k) \in Maps
  BY <1>2, <1>3, <1>4 DEF Maps
<1> QED
  BY <1>1, <1>5

LEMMA EmptyFacts == Empty \in Maps /\ DOMAIN Empty = {}
<1>1. Empty \in [{} -> Stored]
  BY DEF Empty, Stored
<1> QED
  BY <1>1 DEF Maps

LEMMA KeyFacts ==
  /\ MaxIndex \in Nat /\ Indexes = 1 .. MaxIndex /\ Indexes \subseteq Keys
  /\ Strings \subseteq Keys /\ \A s \in Strings : s \notin Int
  /\ None \in Stored
BY BoundsAssumption, KeysAssumption DEF Indexes, Keys, Stored

\* table_set_int leaves the array well formed, whether it grew or not.
LEMMA SetArrayShape ==
  ASSUME TypeOK, SlotsInBounds, NEW i \in Indexes, NEW v \in Stored, SetArray(i, v)
  PROVE  /\ array_part' \in [Indexes -> Stored]
         /\ array_capacity' \in Nat
         /\ array_count' \in 0 .. MaxIndex
         /\ array_part'[i] = v
         /\ \A j \in Indexes \ {i} : array_part'[j] = array_part[j]
         /\ SlotsInBounds'
<1>1. array_capacity' \in Nat /\ array_capacity <= array_capacity' /\ i <= array_capacity'
  <2>1. CASE i - 1 < array_capacity
    BY <2>1, KeyFacts DEF SetArray, TypeOK
  <2>2. CASE ~(i - 1 < array_capacity)
    <3>1. PICK m \in PowersOfTwo : i - 1 < FirstCapacity * m
                                   /\ array_capacity' = FirstCapacity * m
      BY <2>2 DEF SetArray, Grow
    <3>2. m \in Nat /\ FirstCapacity \in Nat
      BY BoundsAssumption DEF PowersOfTwo, FirstCapacity, TypeOK
    <3>3. FirstCapacity * m \in Nat
      BY <3>2
    <3> QED
      BY <3>1, <3>3, <2>2, KeyFacts DEF TypeOK
  <2> QED
    BY <2>1, <2>2
<1>2. array_part' \in [Indexes -> Stored] /\ array_part'[i] = v
      /\ \A j \in Indexes \ {i} : array_part'[j] = array_part[j]
  <2>1. CASE i - 1 < array_capacity
    BY <2>1 DEF SetArray, TypeOK
  <2>2. CASE ~(i - 1 < array_capacity)
    <3>1. array_part' = [j \in Indexes |-> IF j = i THEN v
                           ELSE IF j <= array_count THEN array_part[j] ELSE None]
      BY <2>2 DEF SetArray
    <3>2. \A j \in Indexes : j <= array_count \/ array_part[j] = None
      BY KeyFacts DEF SlotsInBounds, TypeOK
    <3>3. \A j \in Indexes \ {i} : array_part'[j] = array_part[j]
      BY <3>1, <3>2
    <3>4. array_part' \in [Indexes -> Stored]
      BY <3>1, KeyFacts DEF TypeOK
    <3> QED
      BY <3>1, <3>3, <3>4
  <2> QED
    BY <2>1, <2>2
<1>3. array_count' = IF i > array_count THEN i ELSE array_count
  BY DEF SetArray
<1>4. array_count' \in 0 .. MaxIndex /\ array_count' <= array_capacity'
  BY <1>1, <1>3, KeyFacts DEF TypeOK, SlotsInBounds
<1>5. \A j \in Indexes : j > array_count' => array_part'[j] = None
  BY <1>2, <1>3, KeyFacts DEF TypeOK, SlotsInBounds
<1> QED
  BY <1>1, <1>2, <1>4, <1>5 DEF SlotsInBounds

\* A key whose slot is occupied is set in the array part.
LEMMA OccupiedGoesToArray ==
  ASSUME TypeOK, SlotsInBounds, NEW i \in Indexes, array_part[i] # None
  PROVE  ToArray(i)
BY KeyFacts DEF TypeOK, SlotsInBounds, ToArray

LEMMA InitHolds == Init => IInv
<1> SUFFICES ASSUME Init PROVE IInv
  OBVIOUS
<1>1. TypeOK
  BY EmptyFacts, KeyFacts DEF Init, TypeOK
<1>2. SlotsInBounds
  BY DEF Init, SlotsInBounds
<1>3. IndexesAgree /\ StringsAgree
  BY EmptyFacts DEF Init, IndexesAgree, StringsAgree, Promised
<1> QED
  BY <1>1, <1>2, <1>3 DEF IInv

LEMMA StepHolds == IInv /\ [Next]_vars => IInv'
<1> SUFFICES ASSUME IInv, [Next]_vars PROVE IInv'
  OBVIOUS
<1> USE DEF IInv
\* What writing one key does to contents.
<1>a. ASSUME NEW k \in Keys, NEW v \in Stored, contents' = Put(contents, k, v)
      PROVE  /\ contents' \in Maps /\ Promised(k)' = v
             /\ \A x : x # k => Promised(x)' = Promised(x)
             /\ DOMAIN contents' = DOMAIN contents \cup {k}
             /\ \A x \in DOMAIN contents' : contents'[x] = IF x = k THEN v ELSE contents[x]
  BY <1>a, MapFacts DEF TypeOK, Put, Promised
<1>b. ASSUME NEW i \in Indexes, NEW v \in Stored, contents' = Put(contents, i, v),
             SetArray(i, v), UNCHANGED hash
      PROVE  IInv'
  <2>0. SetArray(i, v) /\ i \in Keys /\ i \notin Strings /\ hash' = hash
    BY <1>b, KeyFacts
  <2>1. /\ contents' \in Maps /\ Promised(i)' = v
        /\ \A x : x # i => Promised(x)' = Promised(x)
        /\ DOMAIN contents' = DOMAIN contents \cup {i}
        /\ \A x \in DOMAIN contents' : contents'[x] = IF x = i THEN v ELSE contents[x]
    BY <1>a, <1>b, <2>0
  <2>2. TypeOK' /\ SlotsInBounds'
    BY <2>0, <2>1, SetArrayShape DEF TypeOK
  <2>3. IndexesAgree'
    <3> SUFFICES ASSUME NEW j \in Indexes
                 PROVE  \/ array_part'[j] = Promised(j)'
                        \/ array_part'[j] = None /\ j \in DOMAIN hash' /\ hash'[j] = Promised(j)'
      BY DEF IndexesAgree
    <3>1. CASE j = i
      BY <3>1, <2>0, <2>1, SetArrayShape
    <3>2. CASE j # i
      BY <3>2, <2>0, <2>1, SetArrayShape DEF IndexesAgree
    <3> QED
      BY <3>1, <3>2
  <2>4. StringsAgree'
    BY <2>0, <2>1 DEF StringsAgree
  <2> QED
    BY <2>2, <2>3, <2>4
<1>1. ASSUME NEW k \in Keys, NEW v \in Stored, SetKey(k, v)
      PROVE  IInv'
  <2>0. /\ contents' = Put(contents, k, v)
        /\ contents' \in Maps /\ Promised(k)' = v
        /\ \A x : x # k => Promised(x)' = Promised(x)
        /\ DOMAIN contents' = DOMAIN contents \cup {k}
        /\ \A x \in DOMAIN contents' : contents'[x] = IF x = k THEN v ELSE contents[x]
    <3>1. contents' = Put(contents, k, v)
      BY <1>1 DEF SetKey
    <3> QED
      BY <1>a, <3>1
  <2>1. CASE k \in Indexes /\ ToArray(k)
    BY <1>1, <1>b, <2>0, <2>1 DEF SetKey
  <2>2. CASE ~(k \in Indexes /\ ToArray(k))
    <3>1. hash' = Put(hash, k, v) /\ UNCHANGED <<array_part, array_capacity, array_count>>
      BY <1>1, <2>2 DEF SetKey
    <3>2. /\ hash' \in Maps /\ DOMAIN hash' = DOMAIN hash \cup {k}
          /\ \A x \in DOMAIN hash' : hash'[x] = IF x = k THEN v ELSE hash[x]
      BY <3>1, MapFacts DEF TypeOK, Put
    <3>3. k \in Indexes => array_part[k] = None
      BY <2>2, OccupiedGoesToArray
    <3>4. TypeOK' /\ SlotsInBounds'
      BY <2>0, <3>1, <3>2 DEF TypeOK, SlotsInBounds
    <3>5. IndexesAgree'
      <4> SUFFICES ASSUME NEW j \in Indexes
                   PROVE  \/ array_part'[j] = Promised(j)'
                          \/ array_part'[j] = None /\ j \in DOMAIN hash' /\ hash'[j] = Promised(j)'
        BY DEF IndexesAgree
      <4>1. CASE j = k
        BY <4>1, <2>0, <3>1, <3>2, <3>3
      <4>2. CASE j # k
        BY <4>2, <2>0, <3>1, <3>2 DEF IndexesAgree
      <4> QED
        BY <4>1, <4>2
    <3>6. StringsAgree'
      BY <2>0, <3>2 DEF StringsAgree
    <3> QED
      BY <3>4, <3>5, <3>6
  <2> QED
    BY <2>1, <2>2
<1>2. ASSUME NEW i \in Indexes, NEW v \in Stored, SetIndexed(i, v)
      PROVE  IInv'
  BY <1>2, <1>b DEF SetIndexed
<1>3. ASSUME NEW k \in Keys, Remove(k)
      PROVE  IInv'
  <2>0. /\ contents' \in Maps /\ Promised(k)' = None
        /\ \A x : x # k => Promised(x)' = Promised(x)
        /\ DOMAIN contents' = DOMAIN contents \ {k}
        /\ \A x \in DOMAIN contents' : contents'[x] = contents[x]
    BY <1>3, KeyFacts, MapFacts DEF Remove, Drop, Promised, TypeOK
  <2>1. CASE InArray(k)
    <3>0. k \in Indexes /\ k \notin Strings
      BY <2>1, KeyFacts DEF InArray, TypeOK
    <3>1. array_part' = [array_part EXCEPT ![k] = None] /\ Shrink
          /\ UNCHANGED <<array_capacity, hash>>
      BY <1>3, <2>1 DEF Remove
    <3>2. PICK n \in 0 .. array_count :
            array_count' = n /\ \A i \in (n + 1) .. array_count : array_part'[i] = None
      BY <3>1 DEF Shrink
    <3>3. TypeOK'
      BY <2>0, <3>0, <3>1, <3>2, KeyFacts DEF TypeOK
    <3>4. SlotsInBounds'
      <4>1. \A i \in Indexes : i > array_count => array_part'[i] = None
        BY <3>0, <3>1 DEF SlotsInBounds, TypeOK
      <4>2. \A i \in Indexes : i > n /\ ~(i > array_count) => i \in (n + 1) .. array_count
        BY KeyFacts, <3>2 DEF TypeOK
      <4>3. \A i \in Indexes : i > n => array_part'[i] = None
        BY <4>1, <4>2, <3>2
      <4> QED
        BY <4>3, <3>1, <3>2, KeyFacts DEF SlotsInBounds, TypeOK
    <3>5. IndexesAgree'
      BY <2>0, <3>0, <3>1 DEF IndexesAgree, TypeOK
    <3>6. StringsAgree'
      BY <2>0, <3>0, <3>1 DEF StringsAgree
    <3> QED
      BY <3>3, <3>4, <3>5, <3>6
  <2>2. CASE ~InArray(k)
    <3>1. hash' = Drop(hash, k) /\ UNCHANGED <<array_part, array_capacity, array_count>>
      BY <1>3, <2>2 DEF Remove
    <3>2. /\ hash' \in Maps /\ DOMAIN hash' = DOMAIN hash \ {k}
          /\ \A x \in DOMAIN hash' : hash'[x] = hash[x]
      BY <3>1, MapFacts, KeyFacts DEF TypeOK, Drop
    <3>3. k \in Indexes => array_part[k] = None
      BY <2>2, KeyFacts DEF InArray, SlotsInBounds, TypeOK
    <3>4. TypeOK' /\ SlotsInBounds'
      BY <2>0, <3>1, <3>2 DEF TypeOK, SlotsInBounds
    <3>5. IndexesAgree'
      BY <2>0, <3>1, <3>2, <3>3 DEF IndexesAgree
    <3>6. StringsAgree'
      BY <2>0, <3>2 DEF StringsAgree
    <3> QED
      BY <3>4, <3>5, <3>6
  <2> QED
    BY <2>1, <2>2
<1>4. CASE Clear
  <2>1. TypeOK'
    BY <1>4, EmptyFacts, KeyFacts DEF Clear, TypeOK
  <2>2. SlotsInBounds'
    BY <1>4 DEF Clear, SlotsInBounds
  <2>3. IndexesAgree' /\ StringsAgree'
    BY <1>4, EmptyFacts DEF Clear, IndexesAgree, StringsAgree, Promised
  <2> QED
    BY <2>1, <2>2, <2>3
<1>5. CASE UNCHANGED vars
  BY <1>5 DEF vars, TypeOK, SlotsInBounds, IndexesAgree, StringsAgree, Promised
<1> QED
  BY <1>1, <1>2, <1>3, <1>4, <1>5 DEF Next

LEMMA InvariantHolds == Spec => []IInv
BY InitHolds, StepHolds, PTL DEF Spec

\* The parts of a key, read as table_get reads them.
LEMMA LookupAgrees ==
  ASSUME IInv, NEW k \in Keys
  PROVE  /\ Promised(k) # None => Lookup(k) = Promised(k)
         /\ DOMAIN hash \cap Indexes = {} =>
              /\ Lookup(k) = Promised(k)
              /\ k \in Indexes => array_part[k] = Promised(k)
<1>1. CASE k \in Indexes
  <2>1. InArray(k) <=> array_part[k] # None
    BY <1>1, KeyFacts DEF IInv, TypeOK, SlotsInBounds, InArray
  <2> QED
    BY <1>1, <2>1 DEF IInv, IndexesAgree, Lookup
<1>2. CASE k \in Strings
  <2>1. ~InArray(k) /\ k \notin Indexes
    BY <1>2, KeyFacts DEF IInv, TypeOK, InArray
  <2> QED
    BY <1>2, <2>1 DEF IInv, StringsAgree, Lookup, Promised
<1> QED
  BY <1>1, <1>2 DEF Keys

\* The variables keep their types for any keys and values (table_set, table_remove).
THEOREM TableTypes == Spec => []TypeOK
BY InvariantHolds, PTL DEF IInv

\* Whichever part table_set chose, table_get finds the value that was set last.
THEOREM ReadsCorrect == Spec => []ReadsLastSet
<1>1. IInv => ReadsLastSet
  BY LookupAgrees DEF ReadsLastSet
<1> QED
  BY <1>1, InvariantHolds, PTL

\* array_count stays within the memory array_part_grow allocated, and growing loses
\* nothing.
THEOREM BoundsCorrect == Spec => []SlotsInBounds
BY InvariantHolds, PTL DEF IInv

\* Without integer keys in the hash part every way of reading agrees with the script.
THEOREM DenseCorrect == Spec => []DenseTableIsAMap
<1>1. IInv => DenseTableIsAMap
  <2> SUFFICES ASSUME IInv, DOMAIN hash \cap Indexes = {}
               PROVE  /\ \A k \in Keys : Lookup(k) = Promised(k)
                      /\ \A i \in Indexes : /\ LiteralRead(i) = Promised(i)
                                            /\ NumberRead(i) = Promised(i)
    BY DEF DenseTableIsAMap
  <2>1. \A k \in Keys : Lookup(k) = Promised(k)
    BY LookupAgrees
  <2>2. ASSUME NEW i \in Indexes
        PROVE  LiteralRead(i) = Promised(i) /\ NumberRead(i) = Promised(i)
    <3>1. array_part[i] = Promised(i) /\ Lookup(i) = Promised(i)
      BY LookupAgrees, KeyFacts
    <3>2. i > array_count => array_part[i] = None
      BY DEF IInv, SlotsInBounds
    <3> QED
      BY <3>1, <3>2, KeyFacts DEF LiteralRead, NumberRead, IInv, TypeOK
  <2> QED
    BY <2>1, <2>2
<1> QED
  BY <1>1, InvariantHolds, PTL

-----------------------------------------------------------------------------
(* The hash part, its loops and its caches.                                 *)


\* An allocated entry is in the chain of its key's bucket and in no other, and no key has
\* two entries.
Links(cap, ch, ks) ==
  /\ \A b \in Buckets : \A e \in ch[b] : ks[e] # NULL /\ Bucket(ks[e], cap) = b
  /\ \A e \in Entries : ks[e] # NULL => e \in ch[Bucket(ks[e], cap)]
  /\ \A e, f \in Entries : ks[e] # NULL /\ ks[e] = ks[f] => e = f

Neighbours(cap, ks, e, f) ==
  ks[e] # NULL /\ ks[f] # NULL /\ Bucket(ks[e], cap) = Bucket(ks[f], cap)

\* The order is a strict total one on each chain.
Order(cap, nw, ks) ==
  /\ \A e, f \in Entries : <<e, f>> \in nw => Neighbours(cap, ks, e, f)
  /\ \A e \in Entries : <<e, e>> \notin nw
  /\ \A e, f, g \in Entries : <<e, f>> \in nw /\ <<f, g>> \in nw => <<e, g>> \in nw
  /\ \A e, f \in Entries : Neighbours(cap, ks, e, f) => e = f \/ <<e, f>> \in nw \/ <<f, e>> \in nw

\* A hash part that is well formed.
Shape(cap, ch, nw, ks) ==
  /\ cap \in 1..MaxCapacity
  /\ ch \in [Buckets -> SUBSET Entries] /\ nw \subseteq Entries \X Entries
  /\ ks \in [Entries -> HashKeys \cup {NULL}]
  /\ Links(cap, ch, ks) /\ Order(cap, nw, ks)

Shaped == Shape(capacity, chain, newer, key)

\* No cache is from the future, and one that passes its test is right.
Caches ==
  \A k \in CachedKeys : ic[k].generation <= generation /\
    (CacheHit(k) => key[ic[k].entry] = k)

\* The loop has yet to come to the entry e.
Unseen(e) ==
  \/ iter.bucket_index <= Bucket(key[e], capacity)
  \/ iter.current_entry # NULL /\ e = iter.current_entry
  \/ iter.current_entry # NULL /\ <<iter.current_entry, e>> \in newer

\* The loop stands in the bucket before bucket_index.
Stands ==
  iter.current_entry # NULL => /\ key[iter.current_entry] # NULL
                               /\ Bucket(key[iter.current_entry], capacity) + 1 = iter.bucket_index

\* While the table keeps its structure the loop has seen what lies behind it, once, and
\* nothing of what lies ahead.
Progress ==
  /\ Stands
  /\ \A k \in HashKeys : (\A e \in Entries : key[e] # k) => visits[k] = 0
  /\ \A e \in Entries : key[e] # NULL /\ Unseen(e) => visits[key[e]] = 0
  /\ untouched => \A e \in Entries : key[e] # NULL /\ ~Unseen(e) => visits[key[e]] = 1

Loop ==
  /\ iter.start_generation <= generation
  /\ NoneSeenTwice
  /\ Running => iter.bucket_index < capacity
  /\ Running /\ Fresh => Progress
  /\ SeesAllButLastBucket

LoopInv == IterTypeOK /\ Shaped /\ Caches /\ Loop

-----------------------------------------------------------------------------
(* The hash part stays well formed.                                         *)

LEMMA BucketFacts ==
  ASSUME NEW k \in HashKeys, NEW cap \in 1..MaxCapacity
  PROVE  Bucket(k, cap) \in 0..(cap - 1) /\ Bucket(k, cap) \in Buckets
<1>1. Hash[k] \in Nat /\ cap \in Nat /\ cap > 0 /\ MaxCapacity \in Nat
  BY HashAssumption, CapacityAssumption
<1>2. Hash[k] % cap \in 0..(cap - 1)
  BY <1>1
<1> QED
  BY <1>1, <1>2 DEF Bucket, Buckets

\* The entries of a well-formed table are those with a key.
LEMMA ShapeLinks ==
  ASSUME NEW cap, NEW ch, NEW nw, NEW ks, Shape(cap, ch, nw, ks), NEW e \in Entries
  PROVE  (\E b \in 0..(cap - 1) : e \in ch[b]) <=> ks[e] # NULL
<1>1. 0..(cap - 1) \subseteq Buckets
  BY CapacityAssumption DEF Shape, Buckets
<1>2. ASSUME ks[e] # NULL PROVE \E b \in 0..(cap - 1) : e \in ch[b]
  <2>1. ks[e] \in HashKeys
    BY <1>2 DEF Shape
  <2>2. Bucket(ks[e], cap) \in 0..(cap - 1)
    BY <2>1, BucketFacts DEF Shape
  <2> QED
    BY <1>2, <2>2 DEF Shape, Links
<1> QED
  BY <1>1, <1>2 DEF Shape, Links

LEMMA LinkedFacts ==
  ASSUME Shaped
  PROVE  Linked \subseteq Entries /\ \A e \in Entries : e \in Linked <=> key[e] # NULL
BY ShapeLinks DEF Shaped, Linked

\* Rehashing keeps the entries and makes one chain of each new bucket.
LEMMA RehashShape ==
  ASSUME Shaped, NEW cap \in 1..MaxCapacity
  PROVE  Shape(cap, Rehashed(cap), Reordered(cap), key)
<1>1. Linked \subseteq Entries /\ \A e \in Entries : e \in Linked <=> key[e] # NULL
  BY LinkedFacts
<1>2. key \in [Entries -> HashKeys \cup {NULL}]
  BY DEF Shaped, Shape
<1>3. Rehashed(cap) \in [Buckets -> SUBSET Entries] /\ Reordered(cap) \subseteq Entries \X Entries
  BY <1>1 DEF Rehashed, Reordered
<1>4. Links(cap, Rehashed(cap), key)
  <2>1. \A b \in Buckets : \A e \in Rehashed(cap)[b] : key[e] # NULL /\ Bucket(key[e], cap) = b
    BY <1>1 DEF Rehashed
  <2>2. \A e \in Entries : key[e] # NULL => e \in Rehashed(cap)[Bucket(key[e], cap)]
    BY <1>1, <1>2, BucketFacts DEF Rehashed
  <2> QED
    BY <2>1, <2>2 DEF Links, Shaped, Shape
<1>5. \A e, f \in Entries : <<e, f>> \in Reordered(cap) <=>
        Neighbours(cap, key, e, f) /\ WalkedBefore(f, e)
  BY <1>1 DEF Reordered, Neighbours
<1>6. \A e \in Entries : key[e] # NULL => Bucket(key[e], capacity) \in Int
  BY <1>2, BucketFacts DEF Shaped, Shape
<1>7. Order(capacity, newer, key)
  BY DEF Shaped, Shape
<1>8. Order(cap, Reordered(cap), key)
  <2>1. ASSUME NEW e \in Entries PROVE <<e, e>> \notin Reordered(cap)
    BY <1>5, <1>6, <1>7 DEF WalkedBefore, Order, Neighbours
  <2>2. ASSUME NEW e \in Entries, NEW f \in Entries, NEW g \in Entries,
               <<e, f>> \in Reordered(cap), <<f, g>> \in Reordered(cap)
        PROVE  <<e, g>> \in Reordered(cap)
    <3>1. Neighbours(cap, key, e, f) /\ Neighbours(cap, key, f, g)
          /\ WalkedBefore(f, e) /\ WalkedBefore(g, f)
      BY <1>5, <2>2
    <3>2. Neighbours(cap, key, e, g)
      BY <3>1 DEF Neighbours
    <3>3. WalkedBefore(g, e)
      BY <1>6, <1>7, <3>1, <3>2 DEF WalkedBefore, Order, Neighbours
    <3> QED
      BY <1>5, <3>2, <3>3
  <2>3. ASSUME NEW e \in Entries, NEW f \in Entries, Neighbours(cap, key, e, f), e # f
        PROVE  <<e, f>> \in Reordered(cap) \/ <<f, e>> \in Reordered(cap)
    <3>1. Neighbours(cap, key, f, e)
      BY <2>3 DEF Neighbours
    <3>2. WalkedBefore(e, f) \/ WalkedBefore(f, e)
      BY <1>6, <1>7, <2>3 DEF WalkedBefore, Order, Neighbours
    <3> QED
      BY <1>5, <2>3, <3>1, <3>2
  <2> QED
    BY <1>5, <2>1, <2>2, <2>3 DEF Order
<1> QED
  BY <1>2, <1>3, <1>4, <1>8 DEF Shape

\* A new entry at the head of its key's chain.
LEMMA InsertShape ==
  ASSUME NEW cap, NEW ch, NEW nw, Shape(cap, ch, nw, key),
         NEW k \in HashKeys, NEW e \in Entries, key[e] = NULL, \A f \in Entries : key[f] # k
  PROVE  Shape(cap, [ch EXCEPT ![Bucket(k, cap)] = @ \cup {e}], nw \cup ({e} \X ch[Bucket(k, cap)]),
               [key EXCEPT ![e] = k])
<1> DEFINE b == Bucket(k, cap)
           ch2 == [ch EXCEPT ![b] = @ \cup {e}]
           nw2 == nw \cup ({e} \X ch[b])
           ks == [key EXCEPT ![e] = k]
<1>1. /\ cap \in 1..MaxCapacity /\ ch \in [Buckets -> SUBSET Entries] /\ nw \subseteq Entries \X Entries
      /\ key \in [Entries -> HashKeys \cup {NULL}] /\ Links(cap, ch, key) /\ Order(cap, nw, key)
  BY DEF Shape
<1>2. b \in Buckets /\ k # NULL
  BY <1>1, BucketFacts, HashKeysAssumption
<1>3. ks \in [Entries -> HashKeys \cup {NULL}] /\ ks[e] = k /\ \A f \in Entries \ {e} : ks[f] = key[f]
  BY <1>1
<1>4. /\ ch2 \in [Buckets -> SUBSET Entries] /\ ch2[b] = ch[b] \cup {e}
      /\ \A c \in Buckets \ {b} : ch2[c] = ch[c]
  BY <1>1, <1>2
<1>5. \A c \in Buckets : e \notin ch[c]
  BY <1>1 DEF Links
<1>6. Links(cap, ch2, ks)
  <2>1. ASSUME NEW c \in Buckets, NEW f \in ch2[c] PROVE ks[f] # NULL /\ Bucket(ks[f], cap) = c
    BY <1>1, <1>2, <1>3, <1>4, <1>5 DEF Links
  <2>2. ASSUME NEW f \in Entries, ks[f] # NULL PROVE f \in ch2[Bucket(ks[f], cap)]
    <3>1. CASE f = e
      BY <3>1, <1>3, <1>4
    <3>2. CASE f # e
      <4>1. ks[f] = key[f] /\ key[f] \in HashKeys
        BY <1>1, <1>3, <2>2, <3>2
      <4>2. Bucket(key[f], cap) \in Buckets
        BY <1>1, <4>1, BucketFacts
      <4>3. f \in ch[Bucket(key[f], cap)]
        BY <1>1, <2>2, <4>1 DEF Links
      <4> QED
        BY <1>4, <4>1, <4>2, <4>3
    <3> QED
      BY <3>1, <3>2
  <2>3. ASSUME NEW f \in Entries, NEW g \in Entries, ks[f] # NULL, ks[f] = ks[g] PROVE f = g
    BY <1>1, <1>3, <2>3 DEF Links
  <2> QED
    BY <2>1, <2>2, <2>3 DEF Links
<1>7. \A f, g \in Entries : <<f, g>> \in nw2 <=> <<f, g>> \in nw \/ (f = e /\ g \in ch[b])
  OBVIOUS
<1>8. \A f, g \in Entries : <<f, g>> \in nw => f # e /\ g # e
  BY <1>1 DEF Order, Neighbours
<1>9. \A f \in Entries : f \in ch[b] <=> key[f] # NULL /\ Bucket(key[f], cap) = b
  BY <1>1, <1>2 DEF Links
<1>10. \A f, g \in Entries \ {e} : Neighbours(cap, ks, f, g) <=> Neighbours(cap, key, f, g)
  BY <1>3 DEF Neighbours
<1>11. \A g \in Entries \ {e} : Neighbours(cap, ks, e, g) <=> g \in ch[b]
  BY <1>2, <1>3, <1>9 DEF Neighbours
<1>12. Order(cap, nw2, ks)
  <2>1. ASSUME NEW f \in Entries, NEW g \in Entries, <<f, g>> \in nw2 PROVE Neighbours(cap, ks, f, g)
    <3>1. CASE <<f, g>> \in nw
      BY <1>1, <1>8, <1>10, <3>1 DEF Order
    <3>2. CASE f = e /\ g \in ch[b]
      BY <1>2, <1>5, <1>11, <3>2
    <3> QED
      BY <1>7, <2>1, <3>1, <3>2
  <2>2. ASSUME NEW f \in Entries PROVE <<f, f>> \notin nw2
    BY <1>1, <1>2, <1>5, <1>7 DEF Order
  <2>3. ASSUME NEW f \in Entries, NEW g \in Entries, NEW h \in Entries,
               <<f, g>> \in nw2, <<g, h>> \in nw2
        PROVE  <<f, h>> \in nw2
    <3>1. g # e
      BY <1>2, <1>5, <1>7, <1>8, <2>3
    <3>2. <<g, h>> \in nw
      BY <1>7, <2>3, <3>1
    <3>3. CASE <<f, g>> \in nw
      BY <1>1, <1>7, <3>2, <3>3 DEF Order
    <3>4. CASE f = e /\ g \in ch[b]
      <4>1. Neighbours(cap, key, g, h)
        BY <1>1, <3>2 DEF Order
      <4>2. h \in ch[b]
        BY <1>9, <3>4, <4>1 DEF Neighbours
      <4> QED
        BY <1>7, <3>4, <4>2
    <3> QED
      BY <1>7, <2>3, <3>3, <3>4
  <2>4. ASSUME NEW f \in Entries, NEW g \in Entries, Neighbours(cap, ks, f, g), f # g
        PROVE  <<f, g>> \in nw2 \/ <<g, f>> \in nw2
    <3>1. Neighbours(cap, ks, g, f)
      BY <2>4 DEF Neighbours
    <3>2. CASE f = e
      BY <1>7, <1>11, <2>4, <3>2
    <3>3. CASE g = e
      BY <1>7, <1>11, <2>4, <3>1, <3>3
    <3>4. CASE f # e /\ g # e
      BY <1>1, <1>7, <1>10, <2>4, <3>4 DEF Order
    <3> QED
      BY <3>2, <3>3, <3>4
  <2> QED
    BY <2>1, <2>2, <2>3, <2>4 DEF Order
<1>13. nw2 \subseteq Entries \X Entries
  BY <1>1, <1>2
<1> QED
  BY <1>1, <1>3, <1>4, <1>6, <1>12, <1>13 DEF Shape

\* An entry that leaves its chain.
LEMMA UnlinkShape ==
  ASSUME Shaped, NEW e \in Entries, key[e] # NULL, Unlink(e), capacity' = capacity
  PROVE  Shaped'
<1> DEFINE b == Bucket(key[e], capacity)
<1>1. /\ capacity \in 1..MaxCapacity /\ chain \in [Buckets -> SUBSET Entries]
      /\ newer \subseteq Entries \X Entries /\ key \in [Entries -> HashKeys \cup {NULL}]
      /\ Links(capacity, chain, key) /\ Order(capacity, newer, key)
  BY DEF Shaped, Shape
<1>2. b \in Buckets
  BY <1>1, BucketFacts
<1>3. /\ chain' \in [Buckets -> SUBSET Entries] /\ chain'[b] = chain[b] \ {e}
      /\ \A c \in Buckets \ {b} : chain'[c] = chain[c]
  BY <1>1, <1>2 DEF Unlink
<1>4. /\ key' \in [Entries -> HashKeys \cup {NULL}] /\ key'[e] = NULL
      /\ \A f \in Entries \ {e} : key'[f] = key[f]
  BY <1>1 DEF Unlink
<1>5. newer' \subseteq Entries \X Entries
      /\ \A f, g \in Entries : <<f, g>> \in newer' <=> <<f, g>> \in newer /\ f # e /\ g # e
  BY <1>1 DEF Unlink
<1>6. Links(capacity, chain', key')
  <2>1. \A c \in Buckets : \A f \in chain'[c] : key'[f] # NULL /\ Bucket(key'[f], capacity) = c
    BY <1>1, <1>2, <1>3, <1>4 DEF Links
  <2>2. ASSUME NEW f \in Entries, key'[f] # NULL PROVE f \in chain'[Bucket(key'[f], capacity)]
    <3>1. f # e /\ key'[f] = key[f] /\ key[f] \in HashKeys
      BY <1>1, <1>4, <2>2
    <3>2. f \in chain[Bucket(key[f], capacity)] /\ Bucket(key[f], capacity) \in Buckets
      BY <1>1, <2>2, <3>1, BucketFacts DEF Links
    <3> QED
      BY <1>3, <3>1, <3>2
  <2>3. \A f, g \in Entries : key'[f] # NULL /\ key'[f] = key'[g] => f = g
    BY <1>1, <1>4 DEF Links
  <2> QED
    BY <2>1, <2>2, <2>3 DEF Links
<1>7. \A f, g \in Entries : Neighbours(capacity, key', f, g) <=>
        Neighbours(capacity, key, f, g) /\ f # e /\ g # e
  BY <1>4 DEF Neighbours
<1>8. Order(capacity, newer', key')
  BY <1>1, <1>5, <1>7 DEF Order
<1> QED
  BY <1>1, <1>3, <1>4, <1>5, <1>6, <1>8 DEF Shaped, Shape

\* The table that table_set looks in.
LEMMA RoomyFacts ==
  ASSUME Shaped, generation \in Nat, Roomy.capacity <= MaxCapacity
  PROVE  /\ Shape(Roomy.capacity, Roomy.chain, Roomy.newer, key)
         /\ \/ /\ Full /\ Roomy.generation = generation + 1 /\ Roomy.capacity >= capacity
            \/ /\ ~Full /\ Roomy.generation = generation
               /\ Roomy.capacity = capacity /\ Roomy.chain = chain /\ Roomy.newer = newer
<1>1. CASE Full
  <2>1. /\ Roomy.capacity = 2 * capacity /\ Roomy.chain = Rehashed(2 * capacity)
        /\ Roomy.newer = Reordered(2 * capacity) /\ Roomy.generation = generation + 1
    BY <1>1 DEF Roomy
  <2>2. 2 * capacity \in 1..MaxCapacity /\ 2 * capacity >= capacity
    BY <2>1, CapacityAssumption DEF Shaped, Shape
  <2> QED
    BY <1>1, <2>1, <2>2, RehashShape
<1>2. CASE ~Full
  BY <1>2 DEF Roomy, Shaped
<1> QED
  BY <1>1, <1>2

\* A cleared table.
LEMMA EmptyShape ==
  ASSUME capacity \in 1..MaxCapacity
  PROVE  Shape(capacity, [b \in Buckets |-> {}], {}, [e \in Entries |-> NULL])
BY DEF Shape, Links, Order, Neighbours

-----------------------------------------------------------------------------
(* The loop and the caches.                                                 *)

LEMMA TypeFacts ==
  ASSUME IterTypeOK
  PROVE  /\ capacity \in 1..MaxCapacity /\ generation \in 0..MaxGeneration
         /\ generation \in Nat /\ capacity \in Nat /\ MaxCapacity \in Nat /\ MaxGeneration \in Nat
         /\ iter.state \in {"none", "running", "finished", "bailed"}
         /\ iter.bucket_index \in 0..MaxCapacity /\ iter.current_entry \in Pointers
         /\ iter.start_generation \in 0..MaxGeneration
         /\ NULL \notin Entries /\ NULL \notin HashKeys
BY CapacityAssumption, HashKeysAssumption DEF IterTypeOK

\* What a step has to show of the type invariant when the hash part stays well formed.
LEMMA NextTyped ==
  ASSUME Shaped', generation' \in 0..MaxGeneration,
         iter' \in [state : {"none", "running", "finished", "bailed"}, bucket_index : 0..MaxCapacity,
                   current_entry : Pointers, start_generation : 0..MaxGeneration],
         visits' \in [HashKeys -> 0..2], untouched' \in BOOLEAN,
         ic' \in [CachedKeys -> [generation : 0..MaxGeneration, entry : Pointers]]
  PROVE  IterTypeOK'
<1>1. \A e \in Entries : key'[e] # NULL <=> e \in Linked'
  BY ShapeLinks DEF Shaped, Linked
<1> QED
  BY <1>1 DEF IterTypeOK, Shaped, Shape

\* After a structural change the loop is about to bail out.
LEMMA StaleLoop ==
  ASSUME LoopInv, iter' = iter, visits' = visits, ~untouched',
         generation' \in Nat, generation' > generation, capacity' \in Nat, capacity' >= capacity
  PROVE  Loop'
<1>1. iter.start_generation \in Nat /\ iter.bucket_index \in Nat /\ generation \in Nat
      /\ capacity \in Nat /\ iter.start_generation <= generation
  BY TypeFacts DEF LoopInv, Loop
<1>2. ~Fresh' /\ iter'.start_generation <= generation'
  BY <1>1 DEF Fresh
<1>3. Running' => iter'.bucket_index < capacity'
  BY <1>1 DEF LoopInv, Loop, Running
<1>4. NoneSeenTwice' /\ SeesAllButLastBucket'
  BY DEF LoopInv, Loop, NoneSeenTwice, SeesAllButLastBucket
<1> QED
  BY <1>2, <1>3, <1>4 DEF Loop

\* After a structural change no cache is used.
LEMMA StaleCaches ==
  ASSUME LoopInv, UNCHANGED ic, generation' \in Nat, generation' > generation
  PROVE  Caches'
<1>1. generation \in Nat /\ \A k \in CachedKeys : ic[k].generation \in Nat
  BY TypeFacts DEF LoopInv, IterTypeOK
<1> QED
  BY <1>1 DEF LoopInv, Caches, CacheHit

\* Refilling a cache after a step that keeps or invalidates the others.
LEMMA RefillCaches ==
  ASSUME IterTypeOK, Caches, Shaped', NEW k \in CachedKeys, Refill(k),
         generation' \in 0..MaxGeneration, generation' >= generation,
         generation' = generation => \A e \in Entries : key[e] # NULL => key'[e] = key[e]
  PROVE  Caches' /\ ic' \in [CachedKeys -> [generation : 0..MaxGeneration, entry : Pointers]]
<1>1. PICK n \in Pointers : Finds(k, n)'
                            /\ ic' = [ic EXCEPT ![k] = [generation |-> generation', entry |-> n]]
  BY DEF Refill
<1>2. ic \in [CachedKeys -> [generation : 0..MaxGeneration, entry : Pointers]]
  BY DEF IterTypeOK
<1>3. /\ ic'[k] = [generation |-> generation', entry |-> n]
      /\ \A j \in CachedKeys \ {k} : ic'[j] = ic[j]
  BY <1>1, <1>2
<1>4. ic' \in [CachedKeys -> [generation : 0..MaxGeneration, entry : Pointers]]
  BY <1>1, <1>2
<1>5. n # NULL => key'[n] = k
  BY <1>1 DEF Finds
<1>6. ASSUME NEW j \in CachedKeys
      PROVE  ic'[j].generation <= generation' /\ (CacheHit(j)' => key'[ic'[j].entry] = j)
  <2>1. CASE j = k
    BY <1>3, <1>5, <2>1, TypeFacts DEF CacheHit
  <2>2. CASE j # k
    <3>1. ic'[j] = ic[j] /\ ic[j].generation \in Nat /\ ic[j].entry \in Pointers
          /\ generation \in Nat /\ generation' \in Nat
      BY <1>2, <1>3, <2>2, TypeFacts
    <3>2. ic[j].generation <= generation /\ (CacheHit(j) => key[ic[j].entry] = j)
      BY DEF Caches
    <3>3. ASSUME CacheHit(j)' PROVE key'[ic[j].entry] = j
      <4>1. ic[j].generation = generation' /\ ic[j].entry # NULL
        BY <3>1, <3>3 DEF CacheHit
      <4>2. generation' = generation /\ CacheHit(j)
        BY <3>1, <3>2, <4>1 DEF CacheHit
      <4>3. ic[j].entry \in Entries /\ j # NULL
        BY <3>1, <4>1, HashKeysAssumption DEF Pointers
      <4> QED
        BY <3>2, <4>2, <4>3
    <3> QED
      BY <3>1, <3>2, <3>3
  <2> QED
    BY <2>1, <2>2
<1> QED
  BY <1>4, <1>6 DEF Caches

\* A set keeps the table well formed and what the loop has seen true.
LEMMA TableSetStep ==
  ASSUME LoopInv, NEW k \in HashKeys, TableSet(k)
  PROVE  /\ Shaped' /\ Loop' /\ generation' \in 0..MaxGeneration /\ generation' >= generation
         /\ UNCHANGED <<iter, visits>> /\ untouched' \in BOOLEAN
         /\ \A e \in Entries : key[e] # NULL => key'[e] = key[e]
<1>1. Shaped /\ IterTypeOK /\ Loop /\ generation \in Nat /\ MaxGeneration \in Nat
      /\ key \in [Entries -> HashKeys \cup {NULL}] /\ capacity \in 1..MaxCapacity /\ MaxCapacity \in Nat
  BY TypeFacts DEF LoopInv, Shaped, Shape
<1>2. Linked \subseteq Entries /\ \A e \in Entries : e \in Linked <=> key[e] # NULL
  BY <1>1, LinkedFacts
<1>3. CASE Update(k)
  <2>1. /\ capacity' = Roomy.capacity /\ chain' = Roomy.chain /\ newer' = Roomy.newer
        /\ generation' = Roomy.generation /\ key' = key /\ iter' = iter /\ visits' = visits
        /\ Roomy.capacity <= MaxCapacity /\ Roomy.generation <= MaxGeneration
        /\ untouched' <=> (untouched /\ ~Full)
    BY <1>3 DEF Update
  <2>2. untouched' \in BOOLEAN
    BY <1>3 DEF Update
  <2>3. Shaped'
    BY <1>1, <2>1, RoomyFacts DEF Shaped
  <2>4. CASE Full
    <3>1. generation' = generation + 1 /\ generation' > generation /\ generation' \in Nat
          /\ capacity' >= capacity /\ ~untouched'
      BY <1>1, <2>1, <2>2, <2>4, RoomyFacts
    <3>2. capacity' \in Nat
      BY <2>3, CapacityAssumption DEF Shaped, Shape
    <3>3. Loop'
      BY <1>1, <2>1, <3>1, <3>2, StaleLoop
    <3> QED
      BY <1>1, <2>1, <2>2, <2>3, <3>1, <3>3
  <2>5. CASE ~Full
    <3>1. UNCHANGED <<capacity, chain, newer, generation>>
      BY <1>1, <2>1, <2>5, RoomyFacts
    <3>2. untouched' = untouched
      BY <1>1, <2>1, <2>2, <2>5 DEF IterTypeOK
    <3>3. Loop'
      BY <1>1, <2>1, <3>1, <3>2 DEF Loop, NoneSeenTwice, Running, Fresh, Progress, Stands, Unseen,
        SeesAllButLastBucket
    <3> QED
      BY <1>1, <2>1, <2>2, <2>3, <3>1, <3>3
  <2> QED
    BY <2>4, <2>5
<1>4. ASSUME NEW e \in Entries, Insert(k, e)
      PROVE  /\ Shaped' /\ Loop' /\ generation' \in 0..MaxGeneration /\ generation' >= generation
             /\ UNCHANGED <<iter, visits>> /\ untouched' \in BOOLEAN
             /\ \A f \in Entries : key[f] # NULL => key'[f] = key[f]
  <2>1. /\ k \notin Present /\ key[e] = NULL /\ Roomy.capacity <= MaxCapacity
        /\ Roomy.generation <= MaxGeneration
        /\ capacity' = Roomy.capacity /\ generation' = Roomy.generation
        /\ chain' = [Roomy.chain EXCEPT ![Bucket(k, Roomy.capacity)] = @ \cup {e}]
        /\ newer' = Roomy.newer \cup ({e} \X Roomy.chain[Bucket(k, Roomy.capacity)])
        /\ key' = [key EXCEPT ![e] = k] /\ ~untouched' /\ iter' = iter /\ visits' = visits
    BY <1>4 DEF Insert
  <2>2. \A f \in Entries : key[f] # k
    BY <1>2, <2>1, HashKeysAssumption DEF Present
  <2>3. Shaped'
    BY <1>1, <2>1, <2>2, RoomyFacts, InsertShape DEF Shaped
  <2>7. untouched' \in BOOLEAN
    BY <1>4 DEF Insert
  <2>4. key'[e] = k /\ \A f \in Entries \ {e} : key'[f] = key[f]
    BY <1>1, <2>1
  <2>5. CASE Full
    <3>1. generation' = generation + 1 /\ generation' > generation /\ generation' \in Nat
          /\ capacity' >= capacity
      BY <1>1, <2>1, <2>5, RoomyFacts
    <3>2. capacity' \in Nat
      BY <2>3, CapacityAssumption DEF Shaped, Shape
    <3>3. Loop'
      BY <1>1, <2>1, <3>1, <3>2, StaleLoop
    <3> QED
      BY <1>1, <2>1, <2>3, <2>4, <2>7, <3>1, <3>3
  <2>6. CASE ~Full
    <3>1. capacity' = capacity /\ generation' = generation
          /\ newer' = newer \cup ({e} \X chain[Bucket(k, capacity)])
      BY <1>1, <2>1, <2>6, RoomyFacts
    <3>2. ASSUME Running', Fresh' PROVE Progress'
      <4>1. Progress /\ iter' = iter /\ visits' = visits
        BY <1>1, <2>1, <3>1, <3>2 DEF Loop, Running, Fresh
      <4>2. iter.current_entry # NULL => iter.current_entry \in Entries \ {e}
        BY <1>1, <2>1, <4>1, TypeFacts DEF Progress, Stands, Pointers
      <4>3. Stands'
        BY <2>4, <3>1, <4>1, <4>2 DEF Progress, Stands
      <4>4. \A j \in HashKeys : (\A f \in Entries : key'[f] # j) => visits'[j] = 0
        BY <2>1, <2>4, <4>1, HashKeysAssumption DEF Progress
      <4>5. \A f \in Entries \ {e} : Unseen(f)' => Unseen(f)
        BY <2>4, <3>1, <4>1, <4>2 DEF Unseen
      <4>6. \A f \in Entries : key'[f] # NULL /\ Unseen(f)' => visits'[key'[f]] = 0
        BY <2>2, <2>4, <4>1, <4>5 DEF Progress
      <4> QED
        BY <2>1, <4>3, <4>4, <4>6 DEF Progress
    <3>3. Loop'
      BY <1>1, <2>1, <3>1, <3>2 DEF Loop, NoneSeenTwice, Running, SeesAllButLastBucket
    <3> QED
      BY <1>1, <2>1, <2>3, <2>4, <2>7, <3>1, <3>3
  <2> QED
    BY <2>5, <2>6
<1> QED
  BY <1>3, <1>4 DEF TableSet

\* OP_TABLE_ITER_NEXT shows an entry e that was ahead and goes on to the next one.
LEMMA SeeStep ==
  ASSUME LoopInv, Running, Fresh, NEW e \in Entries, NEW b \in Nat, key[e] # NULL,
         b < capacity, Bucket(key[e], capacity) + 1 = b, Unseen(e), See(e, b),
         \A f \in Entries : key[f] # NULL =>
           (Unseen(f) <=> b <= Bucket(key[f], capacity) \/ f = e \/ <<e, f>> \in newer)
  PROVE  LoopInv'
<1>1. /\ IterTypeOK /\ Shaped /\ Caches /\ Loop /\ Progress /\ NULL \notin Entries /\ NULL \notin HashKeys
      /\ MaxCapacity \in Nat /\ capacity \in 1..MaxCapacity
  BY TypeFacts DEF LoopInv, Loop
<1>2. /\ Links(capacity, chain, key) /\ Order(capacity, newer, key)
      /\ key \in [Entries -> HashKeys \cup {NULL}] /\ visits \in [HashKeys -> 0..2]
      /\ newer \subseteq Entries \X Entries
      /\ iter \in [state : {"none", "running", "finished", "bailed"}, bucket_index : 0..MaxCapacity,
                   current_entry : Pointers, start_generation : 0..MaxGeneration]
  BY <1>1 DEF Shaped, Shape, IterTypeOK
<1>3. PICK n \in Pointers : /\ First(Older(e), n)
                            /\ iter' = [iter EXCEPT !.bucket_index = b, !.current_entry = n]
  BY DEF See
<1>4. /\ iter'.state = iter.state /\ iter'.start_generation = iter.start_generation
      /\ iter'.bucket_index = b /\ iter'.current_entry = n
  BY <1>2, <1>3
<1>5. visits' = [visits EXCEPT ![key[e]] = @ + 1]
      /\ capacity' = capacity /\ chain' = chain /\ newer' = newer /\ key' = key
      /\ generation' = generation /\ untouched' = untouched /\ ic' = ic
  BY DEF See
<1>6. key[e] \in HashKeys /\ visits[key[e]] = 0
  BY <1>1, <1>2 DEF Progress
<1>7. visits'[key[e]] = 1 /\ visits' \in [HashKeys -> 0..2]
      /\ \A k \in HashKeys \ {key[e]} : visits'[k] = visits[k]
  BY <1>2, <1>5, <1>6
<1>8. iter' \in [state : {"none", "running", "finished", "bailed"}, bucket_index : 0..MaxCapacity,
                current_entry : Pointers, start_generation : 0..MaxGeneration]
  <2>1. b \in 0..MaxCapacity
    BY <1>1
  <2> QED
    BY <1>2, <1>3, <2>1
<1>9. IterTypeOK' /\ Shaped' /\ Caches'
  <2>1. Linked' = Linked
    BY <1>5 DEF Linked
  <2> QED
    BY <1>1, <1>5, <1>7, <1>8, <2>1 DEF IterTypeOK, Shaped, Caches, CacheHit
\* What is now ahead is what follows e.
<1>10. \A f \in Entries : n # NULL /\ (f = n \/ <<n, f>> \in newer) <=> <<e, f>> \in newer
  <2>1. CASE Older(e) = {}
    BY <1>3, <2>1 DEF First, Older
  <2>2. CASE Older(e) # {}
    <3>1. n \in Entries /\ <<e, n>> \in newer
          /\ \A f \in Entries : <<e, f>> \in newer /\ f # n => <<n, f>> \in newer
      BY <1>3, <2>2 DEF First, Older
    <3> QED
      BY <1>1, <1>2, <3>1 DEF Order
  <2> QED
    BY <2>1, <2>2
<1>11. ASSUME NEW f \in Entries, key[f] # NULL
       PROVE  Unseen(f)' <=> Unseen(f) /\ f # e
  <2>1. Unseen(f)' <=> b <= Bucket(key[f], capacity) \/ <<e, f>> \in newer
    BY <1>4, <1>5, <1>10 DEF Unseen
  <2>2. <<e, e>> \notin newer
    BY <1>2 DEF Order
  <2>3. Bucket(key[e], capacity) \in Int
    BY <1>1, <1>6, BucketFacts
  <2> QED
    BY <1>11, <2>1, <2>2, <2>3
<1>12. \A f \in Entries : key[f] # NULL /\ f # e => key[f] # key[e] /\ key[f] \in HashKeys
  BY <1>2 DEF Links
<1>13. Progress'
  <2>1. Stands'
    <3>1. n # NULL => n \in Entries /\ <<e, n>> \in newer
      BY <1>3 DEF Pointers, First, Older
    <3> QED
      BY <1>2, <1>4, <1>5, <3>1 DEF Stands, Order, Neighbours
  <2>2. \A k \in HashKeys : (\A f \in Entries : key'[f] # k) => visits'[k] = 0
    BY <1>1, <1>5, <1>7 DEF Progress
  <2>3. \A f \in Entries : key'[f] # NULL /\ Unseen(f)' => visits'[key'[f]] = 0
    BY <1>1, <1>5, <1>7, <1>11, <1>12 DEF Progress
  <2>4. untouched' => \A f \in Entries : key'[f] # NULL /\ ~Unseen(f)' => visits'[key'[f]] = 1
    BY <1>1, <1>5, <1>7, <1>11, <1>12 DEF Progress
  <2> QED
    BY <2>1, <2>2, <2>3, <2>4 DEF Progress
<1>14. Loop'
  <2>1. NoneSeenTwice'
    BY <1>1, <1>6, <1>7 DEF Loop, NoneSeenTwice
  <2>2. SeesAllButLastBucket'
    BY <1>4 DEF SeesAllButLastBucket, Running
  <2> QED
    BY <1>1, <1>4, <1>5, <1>13, <2>1, <2>2 DEF Loop
<1> QED
  BY <1>9, <1>14 DEF LoopInv

LEMMA VisitStep == LoopInv /\ Visit => LoopInv'
<1> SUFFICES ASSUME LoopInv, Visit PROVE LoopInv'
  OBVIOUS
<1>1. /\ Running /\ Fresh /\ Progress /\ Links(capacity, chain, key) /\ Order(capacity, newer, key)
      /\ key \in [Entries -> HashKeys \cup {NULL}] /\ capacity \in 1..MaxCapacity
      /\ iter.bucket_index \in Nat /\ iter.current_entry \in Pointers /\ iter.bucket_index < capacity
      /\ chain \in [Buckets -> SUBSET Entries]
  BY TypeFacts DEF LoopInv, Loop, Visit, Shaped, Shape
<1>2. \A f \in Entries : key[f] # NULL => Bucket(key[f], capacity) \in 0..(capacity - 1)
                                       /\ Bucket(key[f], capacity) \in Buckets
  BY <1>1, BucketFacts
<1>3. CASE iter.current_entry # NULL /\ See(iter.current_entry, iter.bucket_index)
  <2>1. /\ iter.current_entry \in Entries /\ key[iter.current_entry] # NULL
        /\ Bucket(key[iter.current_entry], capacity) + 1 = iter.bucket_index
    BY <1>1, <1>3 DEF Progress, Stands, Pointers
  <2>2. Unseen(iter.current_entry)
    BY <1>3 DEF Unseen
  <2>3. \A f \in Entries : Unseen(f) <=> \/ iter.bucket_index <= Bucket(key[f], capacity)
                                         \/ f = iter.current_entry
                                         \/ <<iter.current_entry, f>> \in newer
    BY <1>3 DEF Unseen
  <2> QED
    BY <1>1, <1>3, <2>1, <2>2, <2>3, SeeStep
<1>4. ASSUME NEW b \in Buckets, NEW e \in chain[b], NextBucket(b), First(chain[b], e), See(e, b + 1)
      PROVE  LoopInv'
  <2>1. /\ e \in Entries /\ key[e] # NULL /\ Bucket(key[e], capacity) = b
    BY <1>1 DEF Links
  <2>2. b \in Nat /\ b + 1 \in Nat /\ b + 1 < capacity
    BY <1>4, CapacityAssumption DEF NextBucket, Buckets
  <2>3. /\ iter.current_entry = NULL /\ iter.bucket_index <= b
        /\ \A c \in iter.bucket_index..(b - 1) : chain[c] = {}
    BY <1>4 DEF NextBucket
  <2>4. \A f \in Entries : Unseen(f) <=> iter.bucket_index <= Bucket(key[f], capacity)
    BY <2>3 DEF Unseen
  <2>5. ASSUME NEW f \in Entries, key[f] # NULL
        PROVE  Unseen(f) <=> b + 1 <= Bucket(key[f], capacity) \/ f = e \/ <<e, f>> \in newer
    <3> DEFINE c == Bucket(key[f], capacity)
    <3>1. c \in Nat /\ f \in chain[c]
      BY <1>1, <1>2, <2>5 DEF Links
    <3>2. ASSUME c = b PROVE f = e \/ <<e, f>> \in newer
      BY <1>4, <3>1, <3>2 DEF First
    <3>3. <<e, f>> \in newer => c = b
      BY <1>1, <2>1 DEF Order, Neighbours
    <3>4. iter.bucket_index <= c => c \notin iter.bucket_index..(b - 1)
      BY <2>3, <3>1
    <3> QED
      BY <1>1, <2>1, <2>2, <2>3, <2>4, <3>1, <3>2, <3>3, <3>4
  <2>6. Unseen(e)
    BY <2>1, <2>3, <2>4
  <2> QED
    BY <1>1, <1>4, <2>1, <2>2, <2>5, <2>6, SeeStep
<1> QED
  BY <1>3, <1>4 DEF Visit

LEMMA LoopEdgeStep == LoopInv /\ (Begin \/ Finish \/ Bail \/ Break) => LoopInv'
<1> SUFFICES ASSUME LoopInv PROVE Begin \/ Finish \/ Bail \/ Break => LoopInv'
  OBVIOUS
<1> DEFINE Iters == [state : {"none", "running", "finished", "bailed"}, bucket_index : 0..MaxCapacity,
                     current_entry : Pointers, start_generation : 0..MaxGeneration]
<1>1. /\ IterTypeOK /\ Shaped /\ Caches /\ Loop /\ MaxCapacity \in Nat /\ capacity \in 1..MaxCapacity
      /\ generation \in 0..MaxGeneration /\ MaxGeneration \in Nat /\ iter \in Iters
      /\ visits \in [HashKeys -> 0..2] /\ key \in [Entries -> HashKeys \cup {NULL}]
  BY TypeFacts DEF LoopInv, Shaped, Shape, IterTypeOK
<1>2. ASSUME capacity' = capacity, chain' = chain, newer' = newer, key' = key, generation' = generation,
             ic' = ic, untouched' \in BOOLEAN, iter' \in Iters, visits' \in [HashKeys -> 0..2]
      PROVE  IterTypeOK' /\ Shaped' /\ Caches'
  <2>1. Linked' = Linked
    BY <1>2 DEF Linked
  <2> QED
    BY <1>1, <1>2, <2>1 DEF IterTypeOK, Shaped, Caches, CacheHit
<1>3. \A f \in Entries : key[f] # NULL => Bucket(key[f], capacity) \in 0..(capacity - 1)
  BY <1>1, BucketFacts
<1>4. CASE Begin
  <2>1. /\ iter' = [state |-> "running", bucket_index |-> 0, current_entry |-> NULL,
                    start_generation |-> generation]
        /\ visits' = [k \in HashKeys |-> 0] /\ untouched' \in BOOLEAN
        /\ capacity' = capacity /\ chain' = chain /\ newer' = newer /\ key' = key
        /\ generation' = generation /\ ic' = ic
    BY <1>4 DEF Begin
  <2>2. iter' \in Iters /\ visits' \in [HashKeys -> 0..2]
    BY <1>1, <2>1 DEF Pointers
  <2>3. \A f \in Entries : key'[f] # NULL => Unseen(f)'
    BY <1>1, <1>3, <2>1 DEF Unseen
  <2>4. Progress'
    BY <1>1, <2>1, <2>3 DEF Progress, Stands
  <2>5. Loop'
    BY <1>1, <2>1, <2>4 DEF Loop, NoneSeenTwice, Running, SeesAllButLastBucket
  <2> QED
    BY <1>2, <2>1, <2>2, <2>5 DEF LoopInv
<1>5. ASSUME NEW st \in {"finished", "bailed"}, End(st), st = "finished" => Finish
      PROVE  LoopInv'
  <2>1. /\ iter' = [iter EXCEPT !.state = st, !.bucket_index = 0, !.current_entry = NULL]
        /\ visits' = IF st = "finished" THEN visits ELSE [k \in HashKeys |-> 0]
        /\ untouched' = untouched
        /\ capacity' = capacity /\ chain' = chain /\ newer' = newer /\ key' = key
        /\ generation' = generation /\ ic' = ic
    BY <1>5 DEF End
  <2>2. iter' \in Iters /\ iter'.state = st /\ iter'.start_generation = iter.start_generation
    <3>1. NULL \in Pointers /\ 0 \in 0..MaxCapacity /\ st \in {"none", "running", "finished", "bailed"}
      BY <1>1 DEF Pointers
    <3> QED
      BY <1>1, <2>1, <3>1
  <2>3. visits' \in [HashKeys -> 0..2] /\ NoneSeenTwice'
    BY <1>1, <2>1 DEF Loop, NoneSeenTwice
  <2>4. SeesAllButLastBucket'
    <3> SUFFICES ASSUME st = "finished", untouched,
                        NEW b \in 0..(capacity - 2), NEW e \in chain[b]
                 PROVE  visits[key[e]] = 1
      BY <2>1, <2>2 DEF SeesAllButLastBucket
    <3>1. /\ Running /\ Fresh /\ \A c \in iter.bucket_index..(capacity - 2) : chain[c] = {}
          /\ iter.bucket_index < capacity => iter.current_entry = NULL
      BY <1>5 DEF Finish
    <3>2. Progress /\ iter.current_entry = NULL /\ iter.bucket_index \in Nat
      BY <1>1, <3>1 DEF Loop
    <3>3. b < iter.bucket_index /\ b \in Buckets
      BY <1>1, <3>1, <3>2 DEF Buckets
    <3>4. e \in Entries /\ key[e] # NULL /\ Bucket(key[e], capacity) = b
      BY <1>1, <3>3 DEF Shaped, Shape, Links
    <3>5. ~Unseen(e)
      BY <3>2, <3>3, <3>4 DEF Unseen
    <3> QED
      BY <3>2, <3>4, <3>5 DEF Progress
  <2>5. ~Running'
    BY <2>2 DEF Running
  <2>6. Loop'
    BY <1>1, <2>1, <2>2, <2>3, <2>4, <2>5 DEF Loop
  <2>7. untouched' \in BOOLEAN
    BY <1>1, <2>1 DEF IterTypeOK
  <2> QED
    BY <1>2, <2>1, <2>2, <2>3, <2>6, <2>7 DEF LoopInv
<1>6. Finish => End("finished")
  BY DEF Finish
<1>7. Bail \/ Break => End("bailed")
  BY DEF Bail, Break
<1> QED
  BY <1>4, <1>5, <1>6, <1>7

LEMMA LoopInitHolds == IterInit => LoopInv
<1> SUFFICES ASSUME IterInit PROVE LoopInv
  OBVIOUS
<1>1. /\ capacity = InitCapacity /\ chain = [b \in Buckets |-> {}] /\ newer = {}
      /\ key = [e \in Entries |-> NULL] /\ generation = 0
      /\ iter = [state |-> "none", bucket_index |-> 0, current_entry |-> NULL, start_generation |-> 0]
      /\ visits = [k \in HashKeys |-> 0] /\ untouched \in BOOLEAN
      /\ ic = [k \in CachedKeys |-> [generation |-> 0, entry |-> NULL]]
  BY DEF IterInit
<1>2. capacity \in 1..MaxCapacity /\ MaxCapacity \in Nat /\ MaxGeneration \in Nat
  BY <1>1, CapacityAssumption
<1>3. Shaped
  BY <1>1, <1>2, EmptyShape DEF Shaped
<1>4. IterTypeOK
  BY <1>1, <1>2, <1>3, LinkedFacts DEF IterTypeOK, Shaped, Shape, Pointers
<1>5. Caches
  BY <1>1 DEF Caches, CacheHit
<1>6. Loop
  BY <1>1 DEF Loop, NoneSeenTwice, Running, SeesAllButLastBucket
<1> QED
  BY <1>3, <1>4, <1>5, <1>6 DEF LoopInv

\* One step of the loop, the caches or the script that writes the table.
LEMMA LoopStepHolds == LoopInv /\ [IterNext]_iter_vars => LoopInv'
<1> SUFFICES ASSUME LoopInv, [IterNext]_iter_vars PROVE LoopInv'
  OBVIOUS
<1> USE HashKeysAssumption
<1>1. /\ IterTypeOK /\ Shaped /\ Caches /\ Loop /\ generation \in 0..MaxGeneration
      /\ MaxGeneration \in Nat /\ capacity \in 1..MaxCapacity /\ capacity \in Nat
      /\ iter \in [state : {"none", "running", "finished", "bailed"}, bucket_index : 0..MaxCapacity,
                   current_entry : Pointers, start_generation : 0..MaxGeneration]
      /\ visits \in [HashKeys -> 0..2] /\ untouched \in BOOLEAN
      /\ ic \in [CachedKeys -> [generation : 0..MaxGeneration, entry : Pointers]]
  BY TypeFacts DEF LoopInv, IterTypeOK
<1>2. ASSUME NEW k \in HashKeys, Set(k) PROVE LoopInv'
  <2>1. TableSet(k) /\ ic' = ic
    BY <1>2 DEF Set
  <2>2. /\ Shaped' /\ Loop' /\ generation' \in 0..MaxGeneration /\ generation' >= generation
        /\ iter' = iter /\ visits' = visits /\ untouched' \in BOOLEAN
        /\ \A e \in Entries : key[e] # NULL => key'[e] = key[e]
    BY <2>1, TableSetStep
  <2>3. Caches'
    <3>1. CASE generation' = generation
      <4>1. \A j \in CachedKeys : CacheHit(j) => ic[j].entry \in Entries /\ key[ic[j].entry] # NULL
        BY <1>1 DEF Caches, CacheHit, Pointers
      <4> QED
        BY <1>1, <2>1, <2>2, <3>1, <4>1 DEF Caches, CacheHit
    <3>2. CASE generation' > generation
      BY <1>1, <2>1, <2>2, <3>2, StaleCaches
    <3> QED
      BY <1>1, <2>2, <3>1, <3>2
  <2>4. IterTypeOK'
    BY <1>1, <2>1, <2>2, NextTyped
  <2> QED
    BY <2>2, <2>3, <2>4 DEF LoopInv
<1>3. ASSUME NEW k \in CachedKeys, SetConst(k) PROVE LoopInv'
  <2>1. TableSet(k) /\ Refill(k)
    BY <1>3 DEF SetConst
  <2>2. /\ Shaped' /\ Loop' /\ generation' \in 0..MaxGeneration /\ generation' >= generation
        /\ iter' = iter /\ visits' = visits /\ untouched' \in BOOLEAN
        /\ \A e \in Entries : key[e] # NULL => key'[e] = key[e]
    BY <2>1, TableSetStep
  <2>3. Caches' /\ ic' \in [CachedKeys -> [generation : 0..MaxGeneration, entry : Pointers]]
    BY <1>1, <2>1, <2>2, RefillCaches
  <2>4. IterTypeOK'
    BY <1>1, <2>2, <2>3, NextTyped
  <2> QED
    BY <2>2, <2>3, <2>4 DEF LoopInv
<1>4. ASSUME NEW k \in CachedKeys, GetConst(k) PROVE LoopInv'
  <2>1. /\ Refill(k) /\ capacity' = capacity /\ chain' = chain /\ newer' = newer /\ key' = key
        /\ generation' = generation /\ iter' = iter /\ visits' = visits /\ untouched' = untouched
    BY <1>4 DEF GetConst
  <2>2. Shaped'
    BY <1>1, <2>1 DEF Shaped
  <2>3. Caches' /\ ic' \in [CachedKeys -> [generation : 0..MaxGeneration, entry : Pointers]]
    BY <1>1, <2>1, <2>2, RefillCaches
  <2>4. IterTypeOK'
    BY <1>1, <2>1, <2>2, <2>3, NextTyped
  <2>5. Loop'
    BY <1>1, <2>1 DEF Loop, NoneSeenTwice, Running, Fresh, Progress, Stands, Unseen, SeesAllButLastBucket
  <2> QED
    BY <2>2, <2>3, <2>4, <2>5 DEF LoopInv
<1>5. ASSUME NEW k \in HashKeys, TableRemove(k) PROVE LoopInv'
  <2>1. PICK e \in Linked : key[e] = k /\ Unlink(e)
    BY <1>5 DEF TableRemove
  <2>2. /\ generation < MaxGeneration /\ generation' = generation + 1 /\ ~untouched'
        /\ capacity' = capacity /\ iter' = iter /\ visits' = visits /\ ic' = ic
    BY <1>5 DEF TableRemove
  <2>3. untouched' \in BOOLEAN
    BY <1>5 DEF TableRemove
  <2>4. generation' \in 0..MaxGeneration /\ generation' \in Nat /\ generation' > generation
        /\ capacity' \in Nat /\ capacity' >= capacity
    BY <1>1, <2>2
  <2>5. Shaped'
    BY <1>1, <2>1, <2>2, LinkedFacts, UnlinkShape
  <2>6. Loop' /\ Caches'
    BY <2>2, <2>4, StaleLoop, StaleCaches
  <2>7. IterTypeOK'
    BY <1>1, <2>2, <2>3, <2>4, <2>5, NextTyped
  <2> QED
    BY <2>5, <2>6, <2>7 DEF LoopInv
<1>6. CASE TableClear
  <2>1. /\ chain' = [b \in Buckets |-> {}] /\ newer' = {} /\ key' = [e \in Entries |-> NULL]
        /\ generation < MaxGeneration /\ generation' = generation + 1 /\ ~untouched'
        /\ capacity' = capacity /\ iter' = iter /\ visits' = visits /\ ic' = ic
    BY <1>6 DEF TableClear
  <2>2. untouched' \in BOOLEAN
    BY <1>6 DEF TableClear
  <2>3. generation' \in 0..MaxGeneration /\ generation' \in Nat /\ generation' > generation
        /\ capacity' \in Nat /\ capacity' >= capacity
    BY <1>1, <2>1
  <2>4. Shaped'
    BY <1>1, <2>1, EmptyShape DEF Shaped
  <2>5. Loop' /\ Caches'
    BY <2>1, <2>3, StaleLoop, StaleCaches
  <2>6. IterTypeOK'
    BY <1>1, <2>1, <2>2, <2>3, <2>4, NextTyped
  <2> QED
    BY <2>4, <2>5, <2>6 DEF LoopInv
<1>7. CASE UNCHANGED iter_vars
  <2>1. Linked' = Linked
    BY <1>7 DEF Linked, iter_vars
  <2> QED
    BY <1>7, <2>1 DEF iter_vars, LoopInv, IterTypeOK, Shaped, Caches, CacheHit, Loop, NoneSeenTwice, Running,
      Fresh, Progress, Stands, Unseen, SeesAllButLastBucket
<1> QED
  BY <1>2, <1>3, <1>4, <1>5, <1>6, <1>7, VisitStep, LoopEdgeStep DEF IterNext

-----------------------------------------------------------------------------
(* The theorems.                                                            *)

\* The invariant of the hash part, the caches and the loop holds on every behaviour.
THEOREM LoopInvCorrect == IterSpec => []LoopInv
<1> QED
  BY LoopInitHolds, LoopStepHolds, PTL DEF IterSpec

\* Each view of a table behaves as it does alone: what is proved of one holds beside the
\* other.
THEOREM ViewsCorrect == TablesSpec => Spec /\ IterSpec
<1>1. TablesInit => Init /\ IterInit
  BY DEF TablesInit
<1>2. [StoredTable \/ LoopedTable]_tables_vars => [Next]_vars /\ [IterNext]_iter_vars
  BY DEF StoredTable, LoopedTable, tables_vars
<1> QED
  BY <1>1, <1>2, PTL DEF TablesSpec, Spec, IterSpec

\* Both views stay well typed, and a freed entry is in no chain (table_set, table_remove,
\* table.clear).
THEOREM TablesTypes == TablesSpec => []TablesTypeOK
<1>1. LoopInv => IterTypeOK
  BY DEF LoopInv
<1>2. IInv => TypeOK
  BY DEF IInv
<1> QED
  BY <1>1, <1>2, InvariantHolds, LoopInvCorrect, ViewsCorrect, PTL DEF TablesTypeOK

\* A loop and an inline cache that pass their generation test dereference an entry of the
\* table, the cache the one a lookup of its key finds (OP_TABLE_ITER_NEXT,
\* OP_TABLE_GET_CONST, OP_TABLE_SET_CONST).
THEOREM PointersCorrect == TablesSpec => []PointersAreLive
<1>1. LoopInv => PointersAreLive
  <2> SUFFICES ASSUME LoopInv PROVE IteratorIsLive /\ CacheHitIsRight
    BY DEF PointersAreLive
  <2>1. /\ IterTypeOK /\ Caches /\ \A e \in Entries : e \in Linked <=> key[e] # NULL
        /\ iter.current_entry \in Pointers
    BY TypeFacts, LinkedFacts DEF LoopInv
  <2>2. IteratorIsLive
    BY <2>1 DEF LoopInv, Loop, Progress, Stands, IteratorIsLive, Pointers
  <2>3. ASSUME NEW k \in CachedKeys, CacheHit(k)
        PROVE  ic[k].entry \in Linked /\ key[ic[k].entry] = k
    <3>1. ic[k].entry \in Entries
      BY <2>1, <2>3 DEF CacheHit, IterTypeOK, Pointers
    <3> QED
      BY <2>1, <2>3, <3>1, HashKeysAssumption DEF Caches
  <2> QED
    BY <2>2, <2>3 DEF CacheHitIsRight
<1> QED
  BY <1>1, LoopInvCorrect, ViewsCorrect, PTL

\* A loop sees no key twice, and over a table its body leaves alone it misses none
\* outside the last bucket (OP_TABLE_ITER_NEXT).
THEOREM VisitsCorrect == TablesSpec => []LoopVisitsOnce
<1>1. LoopInv => LoopVisitsOnce
  BY DEF LoopInv, Loop, LoopVisitsOnce
<1> QED
  BY <1>1, LoopInvCorrect, ViewsCorrect, PTL
=============================================================================
