------------------------------ MODULE ApexTable ------------------------------
(***************************************************************************)
(* A table of the VM (core/vm.c): integer keys live in an array part or in *)
(* the hash part, all others in the hash part.  contents is the map that   *)
(* the script has written.                                                 *)
(***************************************************************************)
EXTENDS Integers, FiniteSets

CONSTANTS
  MaxIndex,    \* bound on integer keys
  Strings,     \* the other keys
  Values, None,
  ArrayInit,   \* TABLE_ARRAY_INIT
  MaxGap       \* the 1024 of table_set

ASSUME BoundsAssumption ==
  MaxIndex \in Nat /\ ArrayInit \in Nat \ {0} /\ MaxGap \in Nat
ASSUME KeysAssumption == Strings \cap Int = {}
ASSUME NoneAssumption == None \notin Values

VARIABLES
  array_part, array_capacity, array_count,   \* capacity 0: array_part is NULL
  hash,                                      \* the entries of the hash part
  contents

vars == <<array_part, array_capacity, array_count, hash, contents>>

Indexes == 1..MaxIndex
Keys == Indexes \cup Strings
Stored == Values \cup {None}
Maps == UNION {[ks -> Stored] : ks \in SUBSET Keys}

TypeOK ==
  /\ array_part \in [Indexes -> Stored]
  /\ array_capacity \in Nat
  /\ array_count \in 0..MaxIndex
  /\ hash \in Maps
  /\ contents \in Maps

Empty == [k \in {} |-> None]
Put(map, k, v) == [x \in DOMAIN map \cup {k} |-> IF x = k THEN v ELSE map[x]]
Drop(map, k) == [x \in DOMAIN map \ {k} |-> map[x]]

Init ==
  /\ array_part = [i \in Indexes |-> None]
  /\ array_capacity = 0
  /\ array_count = 0
  /\ hash = Empty
  /\ contents = Empty

-----------------------------------------------------------------------------
(* Reading.                                                                 *)

InArray(k) == k \in 1..array_count /\ array_part[k] # None

\* Mutant of Lookup: the hash part is searched first.
LookupHashFirst(k) ==
  IF k \in DOMAIN hash THEN hash[k]
  ELSE IF InArray(k) THEN array_part[k] ELSE None

\* table_get; a miss reads as none.
Lookup(k) ==
  IF InArray(k) THEN array_part[k]
  ELSE IF k \in DOMAIN hash THEN hash[k] ELSE None

\* OP_TABLE_GET_INT, an index written as a literal.
LiteralRead(i) == IF i <= array_count THEN array_part[i] ELSE None

\* OP_TABLE_GET_NUM, an index the compiler knows to be a number.
NumberRead(i) == IF i <= array_count THEN array_part[i] ELSE Lookup(i)

-----------------------------------------------------------------------------
(* Writing.                                                                 *)

PowersOfTwo == {m \in 1..(2 * MaxIndex) : \E j \in 0..MaxIndex : m = 2^j}
FirstCapacity == IF array_capacity = 0 THEN ArrayInit ELSE array_capacity

\* array_part_grow: doubled until it exceeds the 0-based index.
Grow(index) ==
  \E m \in PowersOfTwo :
    /\ index < FirstCapacity * m
    /\ \A d \in PowersOfTwo : d < m => FirstCapacity * d <= index
    /\ array_capacity' = FirstCapacity * m

\* table_set_int: growing copies the slots up to array_count.
SetArray(i, v) ==
  /\ IF i - 1 < array_capacity
     THEN /\ array_part' = [array_part EXCEPT ![i] = v]
          /\ UNCHANGED array_capacity
     ELSE /\ array_part' = [j \in Indexes |-> IF j = i THEN v
                              ELSE IF j <= array_count THEN array_part[j] ELSE None]
          /\ Grow(i - 1)
  /\ array_count' = IF i > array_count THEN i ELSE array_count

\* The tests of table_set for an integer key.
ToArray(i) ==
  \/ array_capacity = 0 /\ i - 1 < 2 * ArrayInit
  \/ array_capacity > 0 /\ i - 1 < array_capacity
  \/ /\ array_capacity > 0
     /\ i - 1 - array_count <= 2 * array_count
     /\ i - 1 - array_count <= MaxGap

\* table_set, for OP_TABLE_SET and OP_TABLE_SET_CONST.
SetKey(k, v) ==
  /\ contents' = Put(contents, k, v)
  /\ IF k \in Indexes /\ ToArray(k)
     THEN SetArray(k, v) /\ UNCHANGED hash
     ELSE hash' = Put(hash, k, v) /\ UNCHANGED <<array_part, array_capacity, array_count>>

\* OP_TABLE_SET_INT and OP_TABLE_SET_NUM go to the array part whatever the gap; the
\* appends of a table literal (OP_TABLE_APPEND) do the same at array_count + 1.
SetIndexed(i, v) ==
  /\ contents' = Put(contents, i, v)
  /\ SetArray(i, v)
  /\ UNCHANGED hash

\* Mutant of Shrink: the count loses one more slot.
ShrinkTooFar ==
  \E n \in 1..array_count :
    /\ array_count' = n - 1
    /\ \A i \in (n + 1)..array_count : array_part'[i] = None
    /\ array_part'[n] # None

\* The loop of table_remove over trailing empty slots.
Shrink ==
  \E n \in 0..array_count :
    /\ array_count' = n
    /\ \A i \in (n + 1)..array_count : array_part'[i] = None
    /\ n > 0 => array_part'[n] # None

\* table_remove: the array part first, and the hash part only if it was not there.
Remove(k) ==
  /\ contents' = Drop(contents, k)
  /\ IF InArray(k)
     THEN /\ array_part' = [array_part EXCEPT ![k] = None]
          /\ Shrink
          /\ UNCHANGED <<array_capacity, hash>>
     ELSE /\ hash' = Drop(hash, k)
          /\ UNCHANGED <<array_part, array_capacity, array_count>>

\* table.clear
Clear ==
  /\ array_part' = [i \in Indexes |-> None]
  /\ array_capacity' = 0
  /\ array_count' = 0
  /\ hash' = Empty
  /\ contents' = Empty

Next ==
  \/ \E k \in Keys, v \in Stored : SetKey(k, v)
  \/ \E i \in Indexes, v \in Stored : SetIndexed(i, v)
  \/ \E k \in Keys : Remove(k)
  \/ Clear

Spec == Init /\ [][Next]_vars

-----------------------------------------------------------------------------
(* Properties.                                                              *)

Promised(k) == IF k \in DOMAIN contents THEN contents[k] ELSE None

\* A key that was last set to a value reads as that value, whichever part holds it and
\* whatever the other part still holds (table_set against table_get).
ReadsLastSet == \A k \in Keys : Promised(k) # None => Lookup(k) = Promised(k)

\* No write goes past the array's memory, and the slots that array_part_grow does not
\* copy are empty.
SlotsInBounds ==
  /\ array_count <= array_capacity
  /\ \A i \in Indexes : i > array_count => array_part[i] = None

\* While no integer key is in the hash part the table is the map the script wrote, for
\* every way of reading it.
DenseTableIsAMap ==
  DOMAIN hash \cap Indexes = {} =>
    /\ \A k \in Keys : Lookup(k) = Promised(k)
    /\ \A i \in Indexes : LiteralRead(i) = Promised(i) /\ NumberRead(i) = Promised(i)

\* A removed key reads as none.
RemovedIsAbsent == \A k \in Keys : k \notin DOMAIN contents => Lookup(k) = None
=============================================================================
