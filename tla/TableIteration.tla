---------------------------- MODULE TableIteration ----------------------------
(***************************************************************************)
(* The hash part of a table (core/vm.c) under a loop "for value in table"  *)
(* and under the inline caches of OP_TABLE_GET_CONST and                   *)
(* OP_TABLE_SET_CONST: both keep pointers to entries and rely on           *)
(* generation to learn that an entry may be gone.  The table has no        *)
(* positional values; a NULL entries array is one whose chains are empty.  *)
(***************************************************************************)
EXTENDS Integers, FiniteSets

CONSTANTS
  HashKeys, Entries, NULL,
  CachedKeys,      \* the keys that instructions with an inline cache name
  Hash,            \* hash_value_key, a function on HashKeys
  InitCapacity,    \* the smallest capacity of table_create
  MaxCapacity,     \* bound on capacity
  MaxGeneration    \* bound on generation

ASSUME HashKeysAssumption == NULL \notin Entries \cup HashKeys /\ CachedKeys \subseteq HashKeys
ASSUME HashAssumption == Hash \in [HashKeys -> Nat]
ASSUME CapacityAssumption ==
  /\ InitCapacity \in Nat \ {0} /\ MaxCapacity \in Nat /\ InitCapacity <= MaxCapacity
  /\ MaxGeneration \in Nat

VARIABLES
  capacity, chain,     \* chain[b]: the entries of bucket b
  newer,               \* their order: <<e, f>> when e is nearer the head of the chain
  key,                 \* the key of each entry, NULL when it is not allocated
  generation,
  iter,                \* the loop's TableIterState
  visits, untouched,   \* how often the loop saw a key; no mutation since it began
  ic                   \* the inline cache of an instruction on each cached key

iter_vars == <<capacity, chain, newer, key, generation, iter, visits, untouched, ic>>

Buckets == 0..(MaxCapacity - 1)
Pointers == Entries \cup {NULL}
Linked == {e \in Entries : \E b \in 0..(capacity - 1) : e \in chain[b]}
Present == {key[e] : e \in Linked}
hash_count == Cardinality(Linked)

IterTypeOK ==
  /\ capacity \in 1..MaxCapacity
  /\ chain \in [Buckets -> SUBSET Entries] /\ newer \subseteq Entries \X Entries
  /\ key \in [Entries -> HashKeys \cup {NULL}]
  /\ \A e \in Entries : key[e] # NULL <=> e \in Linked
  /\ generation \in 0..MaxGeneration
  /\ iter \in [state : {"none", "running", "finished", "bailed"}, bucket_index : 0..MaxCapacity,
               current_entry : Pointers, start_generation : 0..MaxGeneration]
  /\ visits \in [HashKeys -> 0..2] /\ untouched \in BOOLEAN
  /\ ic \in [CachedKeys -> [generation : 0..MaxGeneration, entry : Pointers]]

IterInit ==
  /\ capacity = InitCapacity
  /\ chain = [b \in Buckets |-> {}] /\ newer = {}
  /\ key = [e \in Entries |-> NULL]
  /\ generation = 0
  /\ iter = [state |-> "none", bucket_index |-> 0, current_entry |-> NULL, start_generation |-> 0]
  /\ visits = [k \in HashKeys |-> 0] /\ untouched = TRUE
  /\ ic = [k \in CachedKeys |-> [generation |-> 0, entry |-> NULL]]

-----------------------------------------------------------------------------
(* The hash part.                                                           *)

Bucket(k, cap) == Hash[k] % cap

\* A walk over the old buckets, each from its head, meets e before f.
WalkedBefore(e, f) ==
  \/ Bucket(key[e], capacity) < Bucket(key[f], capacity)
  \/ Bucket(key[e], capacity) = Bucket(key[f], capacity) /\ <<e, f>> \in newer

\* Rehashing prepends each entry to its new bucket, in the order of that walk.
Rehashed(cap) == [b \in Buckets |-> {e \in Linked : Bucket(key[e], cap) = b}]
Reordered(cap) == {p \in Linked \X Linked :
  Bucket(key[p[1]], cap) = Bucket(key[p[2]], cap) /\ WalkedBefore(p[2], p[1])}

\* TABLE_MAX_LOAD is 3/4; the test comes before the key is looked for.
Full == 4 * (hash_count + 1) > 3 * capacity

\* The table in which table_set looks for the key.
Roomy == IF Full THEN [capacity |-> 2 * capacity, chain |-> Rehashed(2 * capacity),
                       newer |-> Reordered(2 * capacity), generation |-> generation + 1]
         ELSE [capacity |-> capacity, chain |-> chain, newer |-> newer,
               generation |-> generation]

\* table_set of a new key makes an entry, at the head of its chain.
Insert(k, e) ==
  /\ k \notin Present /\ key[e] = NULL
  /\ \E r \in {Roomy} : \E b \in {Bucket(k, r.capacity)} :
       /\ capacity' = r.capacity /\ r.capacity <= MaxCapacity
       /\ generation' = r.generation /\ r.generation <= MaxGeneration
       /\ chain' = [r.chain EXCEPT ![b] = @ \cup {e}]
       /\ newer' = r.newer \cup ({e} \X r.chain[b])
  /\ key' = [key EXCEPT ![e] = k]
  /\ untouched' = FALSE
  /\ UNCHANGED <<iter, visits>>

\* Mutant of Update: rehashing does not count as a structural change.
UpdateKeepsGeneration(k) ==
  /\ k \in Present
  /\ capacity' = Roomy.capacity /\ Roomy.capacity <= MaxCapacity
  /\ chain' = Roomy.chain /\ newer' = Roomy.newer
  /\ untouched' = (untouched /\ ~Full)
  /\ UNCHANGED <<key, generation, iter, visits>>

\* table_set of a key that is there writes the value, but may rehash all the same.
Update(k) ==
  /\ k \in Present
  /\ capacity' = Roomy.capacity /\ Roomy.capacity <= MaxCapacity
  /\ chain' = Roomy.chain /\ newer' = Roomy.newer
  /\ generation' = Roomy.generation /\ Roomy.generation <= MaxGeneration
  /\ untouched' = (untouched /\ ~Full)
  /\ UNCHANGED <<key, iter, visits>>

TableSet(k) == Update(k) \/ \E e \in Entries : Insert(k, e)

\* OP_TABLE_SET and OP_TABLE_SET_KEY_STR.
Set(k) == TableSet(k) /\ UNCHANGED ic

\* The entry e leaves its chain and is freed.
Unlink(e) ==
  /\ chain' = [chain EXCEPT ![Bucket(key[e], capacity)] = @ \ {e}]
  /\ newer' = newer \cap ((Entries \ {e}) \X (Entries \ {e}))
  /\ key' = [key EXCEPT ![e] = NULL]

\* Mutant of TableRemove: the removal is not counted in generation.
TableRemoveKeepsGeneration(k) ==
  /\ \E e \in Linked : key[e] = k /\ Unlink(e)
  /\ untouched' = FALSE
  /\ UNCHANGED <<capacity, generation, iter, visits, ic>>

\* table_remove of a key that is there.
TableRemove(k) ==
  /\ \E e \in Linked : key[e] = k /\ Unlink(e)
  /\ generation < MaxGeneration /\ generation' = generation + 1
  /\ untouched' = FALSE
  /\ UNCHANGED <<capacity, iter, visits, ic>>

\* Mutant of TableClear: the buckets keep pointers to the freed entries.
TableClearKeepsBuckets ==
  /\ key' = [e \in Entries |-> NULL]
  /\ generation < MaxGeneration /\ generation' = generation + 1
  /\ untouched' = FALSE
  /\ UNCHANGED <<capacity, chain, newer, iter, visits, ic>>

\* table.clear frees every entry.
TableClear ==
  /\ chain' = [b \in Buckets |-> {}] /\ newer' = {}
  /\ key' = [e \in Entries |-> NULL]
  /\ generation < MaxGeneration /\ generation' = generation + 1
  /\ untouched' = FALSE
  /\ UNCHANGED <<capacity, iter, visits, ic>>

-----------------------------------------------------------------------------
(* The inline caches.                                                       *)

CacheHit(k) == ic[k].generation = generation /\ ic[k].entry # NULL

\* The entry, or NULL, that a lookup of k ends with.
Finds(k, e) == IF k \in Present THEN e \in Linked /\ key[e] = k ELSE e = NULL

\* What both instructions store after the slow path, from the table as it is then.
Refill(k) ==
  \E e \in Pointers :
    Finds(k, e)' /\ ic' = [ic EXCEPT ![k] = [generation |-> generation', entry |-> e]]

\* OP_TABLE_GET_CONST
GetConst(k) ==
  /\ ~CacheHit(k)
  /\ UNCHANGED <<capacity, chain, newer, key, generation, iter, visits, untouched>>
  /\ Refill(k)

\* OP_TABLE_SET_CONST; a hit writes the value through the cached entry.
SetConst(k) == ~CacheHit(k) /\ TableSet(k) /\ Refill(k)

-----------------------------------------------------------------------------
(* The loop.                                                                *)

Running == iter.state = "running"
Fresh == iter.start_generation = generation

\* OP_TABLE_ITER_INIT
Begin ==
  /\ ~Running
  /\ iter' = [state |-> "running", bucket_index |-> 0, current_entry |-> NULL,
              start_generation |-> generation]
  /\ visits' = [k \in HashKeys |-> 0] /\ untouched' = TRUE
  /\ UNCHANGED <<capacity, chain, newer, key, generation, ic>>

\* The entry of S, part of one chain, that is nearest the head; NULL when S is empty.
First(S, n) == IF S = {} THEN n = NULL
               ELSE n \in S /\ \A f \in S \ {n} : <<n, f>> \in newer

\* The entries that follow e in its chain; the first of them is entry->next.
Older(e) == {f \in Entries : <<e, f>> \in newer}

\* The loop variable gets the entry's value, and the loop body runs.
See(e, bucket_index) ==
  /\ \E n \in Pointers :
       /\ First(Older(e), n)
       /\ iter' = [iter EXCEPT !.bucket_index = bucket_index, !.current_entry = n]
  /\ visits' = [visits EXCEPT ![key[e]] = @ + 1]
  /\ UNCHANGED <<capacity, chain, newer, key, generation, untouched, ic>>

\* The next bucket with entries, as the loop over buckets reaches it.  The test
\* bucket_index < capacity is repeated after bucket_index was advanced.
NextBucket(b) ==
  /\ iter.current_entry = NULL
  /\ b \in iter.bucket_index..(capacity - 1) /\ b + 1 < capacity
  /\ chain[b] # {} /\ \A c \in iter.bucket_index..(b - 1) : chain[c] = {}

\* OP_TABLE_ITER_NEXT while there is an entry to see.
Visit ==
  /\ Running /\ Fresh
  /\ \/ /\ iter.current_entry # NULL /\ iter.bucket_index < capacity
        /\ See(iter.current_entry, iter.bucket_index)
     \/ \E b \in Buckets : \E e \in chain[b] :
          NextBucket(b) /\ First(chain[b], e) /\ See(e, b + 1)

End(state) ==
  /\ iter' = [iter EXCEPT !.state = state, !.bucket_index = 0, !.current_entry = NULL]
  /\ visits' = IF state = "finished" THEN visits ELSE [k \in HashKeys |-> 0]
  /\ UNCHANGED <<capacity, chain, newer, key, generation, untouched, ic>>

\* OP_TABLE_ITER_NEXT when no entry is left in a bucket it still tests.
Finish ==
  /\ Running /\ Fresh
  /\ iter.bucket_index < capacity => iter.current_entry = NULL
  /\ \A b \in iter.bucket_index..(capacity - 2) : chain[b] = {}
  /\ End("finished")

\* OP_TABLE_ITER_NEXT when the table has changed, and OP_POP_TABLE_ITER for a break.
Bail == Running /\ ~Fresh /\ End("bailed")
Break == Running /\ End("bailed")

IterNext ==
  \/ \E k \in HashKeys : Set(k) \/ TableRemove(k)
  \/ \E k \in CachedKeys : GetConst(k) \/ SetConst(k)
  \/ TableClear \/ Begin \/ Visit \/ Finish \/ Bail \/ Break

IterSpec == IterInit /\ [][IterNext]_iter_vars

-----------------------------------------------------------------------------
(* Properties.                                                              *)

\* While generation says that nothing changed, the entry the loop will see next is still
\* in the table (OP_TABLE_ITER_NEXT reads through it).
IteratorIsLive == Running /\ Fresh => iter.current_entry \in Linked \cup {NULL}

\* An inline cache that passes its test names the entry that a lookup of its key finds.
CacheHitIsRight ==
  \A k \in CachedKeys : CacheHit(k) => ic[k].entry \in Linked /\ key[ic[k].entry] = k

\* A loop sees no key twice, whatever its body sets, removes or clears.
NoneSeenTwice == \A k \in HashKeys : visits[k] <= 1

\* A loop over a table that its body leaves alone sees every entry outside the last bucket.
SeesAllButLastBucket ==
  iter.state = "finished" /\ untouched =>
    \A b \in 0..(capacity - 2) : \A e \in chain[b] : visits[key[e]] = 1

\* What a loop and the caches point to is what the table holds.
PointersAreLive == IteratorIsLive /\ CacheHitIsRight

\* What a loop over a table visits.
LoopVisitsOnce == NoneSeenTwice /\ SeesAllButLastBucket
=============================================================================
