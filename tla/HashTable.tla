----------------------------- MODULE HashTable -----------------------------
(***************************************************************************)
(* The chained hash table of src/src/utils/hash_table.c: buckets_num       *)
(* buckets, each a linked list of kv nodes, key % buckets_num choosing the *)
(* bucket; a put that makes size exceed buckets_num * 0.75 doubles the     *)
(* buckets and moves every node, bucket by bucket, to the end of its new   *)
(* bucket.  A bucket is the sequence of its kv nodes (LinkedList shows the *)
(* list functions implement sequences).  The kernel keeps the processes    *)
(* and threads maps and each process's threads, children and exited       *)
(* children in such tables, always under a lock or with interrupts off,   *)
(* so a call is one step.  The iterator of process_wait is modelled by the *)
(* sequence of kv nodes its calls return.                                  *)
(***************************************************************************)
EXTENDS Integers, Sequences, SequencesExt, FiniteSets

CONSTANTS
    Keys,            \* uint32 keys
    Vals,            \* the value pointers stored
    NoVal,           \* nullptr, as a value
    InitialBuckets   \* INITIAL_BUCKETS_NUM

VARIABLES
    buckets,      \* buckets[b + 1] is the sequence of kv nodes of bucket b
    bucketsNum,   \* buckets_num
    htSize,       \* size
    alive,        \* FALSE between hash_table_destroy and hash_table_init
    ret           \* what the last call returned

htVars == <<buckets, bucketsNum, htSize, alive, ret>>

KV == [key : Keys, val : Vals]

HashTableTypeOK ==
    /\ bucketsNum \in {InitialBuckets * 2^e : e \in 0..Cardinality(Keys)}
    /\ buckets \in Seq(Seq(KV)) /\ Len(buckets) = bucketsNum
    /\ htSize \in 0..Cardinality(Keys)
    /\ alive \in BOOLEAN
    /\ ret \in Vals \cup {NoVal} \cup BOOLEAN

EmptyBuckets(n) == [i \in 1..n |-> <<>>]

\* The position of key in bucket b (0 if absent), as
\* hash_table_bucket_lookup finds it walking from the head.
BucketLookup(b, key) == SelectInSeq(buckets[b + 1], LAMBDA x : x.key = key)

Bucket(key) == key % bucketsNum

-----------------------------------------------------------------------------

\* hash_table_init
HashTableInit ==
    /\ ~alive
    /\ htSize' = 0 /\ bucketsNum' = InitialBuckets
    /\ buckets' = EmptyBuckets(InitialBuckets)
    /\ alive' = TRUE
    /\ UNCHANGED ret

\* Faulty variant of HashTableExpand: nodes are placed by the old modulus.
HashTableExpandOldModulus(bs, n) ==
    /\ bucketsNum' = 2 * n
    /\ buckets' = [j \in 1..2 * n |->
                     FlattenSeq([i \in 1..n |->
                        SelectSeq(bs[i], LAMBDA x : x.key % n = j - 1)])]

\* hash_table_expand, on the buckets bs of n buckets: each node in turn,
\* bucket by bucket from the head, is removed and appended to bucket
\* key % (2 * n).
HashTableExpand(bs, n) ==
    /\ bucketsNum' = 2 * n
    /\ buckets' = [j \in 1..2 * n |->
                     FlattenSeq([i \in 1..n |->
                        SelectSeq(bs[i], LAMBDA x : x.key % (2 * n) = j - 1)])]

\* Faulty variant of HashTablePut: a replacing put returns the new value.
HashTablePutReturnsNew(key, v) ==
    LET b == Bucket(key)
        i == BucketLookup(b, key)
    IN  /\ alive
        /\ IF i # 0
           THEN /\ ret' = v
                /\ buckets' = [buckets EXCEPT ![b + 1][i].val = v]
                /\ UNCHANGED <<bucketsNum, htSize>>
           ELSE LET bs == [buckets EXCEPT ![b + 1] = Append(@, [key |-> key, val |-> v])]
                IN  /\ ret' = NoVal
                    /\ htSize' = htSize + 1
                    /\ IF 4 * (htSize + 1) > 3 * bucketsNum
                       THEN HashTableExpand(bs, bucketsNum)
                       ELSE buckets' = bs /\ UNCHANGED bucketsNum
        /\ UNCHANGED alive

\* Faulty variant of HashTablePut: expands when size reaches, rather than
\* exceeds, buckets_num * LOAD_FACTOR.
HashTablePutExpandsAtLoad(key, v) ==
    LET b == Bucket(key)
        i == BucketLookup(b, key)
    IN  /\ alive
        /\ IF i # 0
           THEN /\ ret' = buckets[b + 1][i].val
                /\ buckets' = [buckets EXCEPT ![b + 1][i].val = v]
                /\ UNCHANGED <<bucketsNum, htSize>>
           ELSE LET bs == [buckets EXCEPT ![b + 1] = Append(@, [key |-> key, val |-> v])]
                IN  /\ ret' = NoVal
                    /\ htSize' = htSize + 1
                    /\ IF 4 * (htSize + 1) >= 3 * bucketsNum
                       THEN HashTableExpand(bs, bucketsNum)
                       ELSE buckets' = bs /\ UNCHANGED bucketsNum
        /\ UNCHANGED alive

\* hash_table_put(key, v): replace and return the old value, or append a
\* new kv node, count it, and expand if size > buckets_num * LOAD_FACTOR.
HashTablePut(key, v) ==
    LET b == Bucket(key)
        i == BucketLookup(b, key)
    IN  /\ alive
        /\ IF i # 0
           THEN /\ ret' = buckets[b + 1][i].val
                /\ buckets' = [buckets EXCEPT ![b + 1][i].val = v]
                /\ UNCHANGED <<bucketsNum, htSize>>
           ELSE LET bs == [buckets EXCEPT ![b + 1] = Append(@, [key |-> key, val |-> v])]
                IN  /\ ret' = NoVal
                    /\ htSize' = htSize + 1
                    /\ IF 4 * (htSize + 1) > 3 * bucketsNum
                       THEN HashTableExpand(bs, bucketsNum)
                       ELSE buckets' = bs /\ UNCHANGED bucketsNum
        /\ UNCHANGED alive

\* hash_table_remove(key)
HashTableRemove(key) ==
    LET b == Bucket(key)
        i == BucketLookup(b, key)
    IN  /\ alive
        /\ IF i # 0
           THEN /\ ret' = buckets[b + 1][i].val
                /\ buckets' = [buckets EXCEPT ![b + 1] = RemoveAt(@, i)]
                /\ htSize' = htSize - 1
           ELSE ret' = NoVal /\ UNCHANGED <<buckets, htSize>>
        /\ UNCHANGED <<bucketsNum, alive>>

\* hash_table_get(key)
HashTableGet(key) ==
    LET i == BucketLookup(Bucket(key), key)
    IN  /\ alive
        /\ ret' = IF i # 0 THEN buckets[Bucket(key) + 1][i].val ELSE NoVal
        /\ UNCHANGED <<buckets, bucketsNum, htSize, alive>>

\* hash_table_contains(key)
HashTableContains(key) ==
    /\ alive
    /\ ret' = (BucketLookup(Bucket(key), key) # 0)
    /\ UNCHANGED <<buckets, bucketsNum, htSize, alive>>

\* hash_table_clear: every kv and node freed, the buckets kept.
HashTableClear ==
    /\ alive
    /\ buckets' = EmptyBuckets(bucketsNum) /\ htSize' = 0
    /\ UNCHANGED <<bucketsNum, alive, ret>>

\* hash_table_destroy: also the values and the bucket array are freed.
HashTableDestroy ==
    /\ alive
    /\ buckets' = EmptyBuckets(bucketsNum) /\ htSize' = 0 /\ alive' = FALSE
    /\ UNCHANGED <<bucketsNum, ret>>

-----------------------------------------------------------------------------
(* hash_table_create_iterator, _has_next and _next.  node is the position  *)
(* <<bucket, index in it>> of the node, or <<>> for nullptr.               *)

IterCreate == [bucket |-> -1, node |-> <<>>, index |-> -1]

\* What next returns when it returns nullptr, and when it returns nothing.
IterNull == [key |-> -1, val |-> NoVal]
IterGarbage == [key |-> -2, val |-> NoVal]

\* Faulty variant of HashTableIteratorHasNext: index < size.
HashTableIteratorHasNextInclusive(it) == it.index < htSize

HashTableIteratorHasNext(it) == it.index < htSize - 1

\* The first bucket after b that has a head, or buckets_num.
NextNonEmpty(b) ==
    LET later == {c \in (b + 1)..(bucketsNum - 1) : buckets[c + 1] # <<>>}
    IN  IF later = {} THEN bucketsNum ELSE CHOOSE c \in later : \A d \in later : c <= d

\* One call of hash_table_iterator_next: the iterator after it and the kv
\* node returned.  Falling off the end of the bucket scan returns no value
\* (the function ends without a return statement): IterGarbage.
HashTableIteratorNext(it) ==
    LET b == NextNonEmpty(it.bucket)
    IN  CASE it.index >= htSize - 1 ->
               [it |-> [bucket |-> bucketsNum, node |-> <<>>, index |-> htSize],
                kv |-> IterNull]
          [] it.node # <<>> /\ it.node[2] < Len(buckets[it.node[1] + 1]) ->
               [it |-> [it EXCEPT !.node = <<@[1], @[2] + 1>>, !.index = @ + 1],
                kv |-> buckets[it.node[1] + 1][it.node[2] + 1]]
          [] b < bucketsNum ->
               [it |-> [bucket |-> b, node |-> <<b, 1>>, index |-> it.index + 1],
                kv |-> buckets[b + 1][1]]
          [] OTHER ->
               [it |-> [bucket |-> b, node |-> <<>>, index |-> it.index + 1],
                kv |-> IterGarbage]

\* The kv nodes returned by next while has_next holds.
RECURSIVE Iterate(_)
Iterate(it) ==
    IF ~HashTableIteratorHasNext(it) THEN <<>>
    ELSE LET r == HashTableIteratorNext(it) IN <<r.kv>> \o Iterate(r.it)

-----------------------------------------------------------------------------

\* The table after hash_table_init.
HashTableSystemInit ==
    /\ htSize = 0 /\ bucketsNum = InitialBuckets
    /\ buckets = EmptyBuckets(InitialBuckets)
    /\ alive = TRUE /\ ret = NoVal

HashTableNext ==
    \/ HashTableInit
    \/ \E k \in Keys, v \in Vals : HashTablePut(k, v)
    \/ \E k \in Keys : HashTableRemove(k) \/ HashTableGet(k) \/ HashTableContains(k)
    \/ HashTableClear
    \/ HashTableDestroy

HashTableSpec == HashTableSystemInit /\ [][HashTableNext]_htVars

-----------------------------------------------------------------------------
(* Properties.                                                             *)

Contents == UNION {ToSet(buckets[i]) : i \in 1..bucketsNum}

\* The value the table holds for k, as hash_table_get finds it.
Lookup(k) ==
    LET i == BucketLookup(Bucket(k), k)
    IN  IF alive /\ i # 0 THEN buckets[Bucket(k) + 1][i].val ELSE NoVal

\* Every kv node is in the bucket its key hashes to under the current
\* buckets_num, no key is stored twice, size counts the nodes, and after
\* every put the load is at most LOAD_FACTOR.  Expansion moves nodes from
\* one modulus to another; a node left under the old one is unreachable.
HashTableWellFormed ==
    /\ \A i \in 1..bucketsNum : \A j \in 1..Len(buckets[i]) :
         buckets[i][j].key % bucketsNum = i - 1
    /\ \A x, y \in Contents : x.key = y.key => x = y
    /\ htSize = Cardinality(Contents)
    /\ 4 * htSize <= 3 * bucketsNum

\* The table implements a map: every put, remove, get and contains returns
\* what the map it stands for returns, through any number of expansions.
Map == INSTANCE KvMap WITH kv <- [k \in Keys |-> Lookup(k)]

HashTableRefinesKvMap == Map!MapSpec

\* An iterator created on the table and advanced while has_next holds (as
\* process_wait does) returns every kv node exactly once and never runs off
\* the end of the buckets.
HashTableIteratorVisitsAll ==
    alive => LET s == Iterate(IterCreate)
             IN  Len(s) = htSize /\ ToSet(s) = Contents
=============================================================================
