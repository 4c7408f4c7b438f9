------------------------------ MODULE UnitTests ------------------------------
(***************************************************************************)
(* The unit tests of src/src/utils: linked_list_test and hash_table_test,  *)
(* replayed call by call on the LinkedList and HashTable models.  Each     *)
(* test is a script: one entry per call the test makes, holding the        *)
(* arguments and what the ASSERTs that follow the call expect of the state *)
(* or of the value returned.  A step performs the entry's call through the *)
(* component's own action and clears the test's flag if an ASSERT would    *)
(* fail.  The tests run on their own list and table (create_linked_list,   *)
(* create_hash_table) with the code's constants (16 initial buckets) and   *)
(* run again after they end: their last calls return every node and value  *)
(* to the heap and destroy the table, so a rerun starts as the first run.  *)
(***************************************************************************)
EXTENDS Integers, Sequences, SequencesExt

VARIABLES
    tlhead, tltail, tlsize, tnprev, tnnext, tnptr,  \* linked_list
    llpc,                                          \* the next call of linked_list_test
    llOK,                                          \* no ASSERT of it has failed
    tbuckets, tbucketsNum, thtSize, talive, tret,  \* map
    htpc,                                          \* the next call of hash_table_test
    iter, iterTotal, iterKey,                      \* iter, iter_total_num, key
    htOK                                           \* no ASSERT of it has failed

llTestVars == <<tlhead, tltail, tlsize, tnprev, tnnext, tnptr, llpc, llOK>>
htTestVars == <<tbuckets, tbucketsNum, thtSize, talive, tret, htpc,
                iter, iterTotal, iterKey, htOK>>

\* What an ASSERT expects: <<v>>, or <<>> where the test makes no ASSERT.
A(v) == <<v>>
Unasserted == <<>>
NULL == "nullptr"

-----------------------------------------------------------------------------
(* linked_list_test                                                        *)

TestNodes == {"node", "node2", "node3", "node4", "node5", "node6"}

LL == INSTANCE LinkedList
        WITH Lists <- {"list"}, Nodes <- TestNodes, Ptrs <- {}, Null <- NULL,
             lhead <- tlhead, ltail <- tltail, lsize <- tlsize,
             nprev <- tnprev, nnext <- tnnext, nptr <- tnptr

\* A call and what is asserted after it: size, head, tail, and the
\* <<node, prev, next>> of the nodes whose links are asserted.
LlCall(call, at, n, sz, hd, tl, links) ==
    [call |-> call, at |-> at, n |-> n, size |-> sz, head |-> hd, tail |-> tl,
     links |-> links]

\* linked_list_test, lines 129 to 252.
LlScript ==
  << LlCall("append", NULL, "node", A(1), A("node"), A("node"), {<<"node", NULL, NULL>>}),
     LlCall("remove", NULL, "node", A(0), A(NULL), A(NULL), {}),
     LlCall("append", NULL, "node", Unasserted, Unasserted, Unasserted, {}),
     LlCall("append", NULL, "node2", A(2), A("node"), A("node2"),
            {<<"node", NULL, "node2">>, <<"node2", "node", NULL>>}),
     LlCall("append", NULL, "node3", A(3), A("node"), A("node3"),
            {<<"node", NULL, "node2">>, <<"node2", "node", "node3">>,
             <<"node3", "node2", NULL>>}),
     LlCall("insert", "node2", "node4", A(4), A("node"), A("node3"),
            {<<"node", NULL, "node2">>, <<"node2", "node", "node4">>,
             <<"node4", "node2", "node3">>, <<"node3", "node4", NULL>>}),
     LlCall("remove", NULL, "node2", A(3), A("node"), A("node3"),
            {<<"node", NULL, "node4">>, <<"node4", "node", "node3">>,
             <<"node3", "node4", NULL>>}),
     LlCall("remove", NULL, "node", A(2), A("node4"), A("node3"),
            {<<"node4", NULL, "node3">>, <<"node3", "node4", NULL>>}),
     LlCall("remove", NULL, "node3", A(1), A("node4"), A("node4"), {}),
     LlCall("insert", NULL, "node5", A(2), A("node5"), A("node4"),
            {<<"node5", NULL, "node4">>, <<"node4", "node5", NULL>>}),
     LlCall("remove", NULL, "node4", A(1), A("node5"), A("node5"), {}),
     LlCall("remove", NULL, "node5", A(0), A(NULL), A(NULL), {}),
     LlCall("insert", NULL, "node6", A(1), A("node6"), A("node6"), {}),
     LlCall("remove", NULL, "node6", A(0), A(NULL), A(NULL), {}) >>

\* The ASSERTs after call e hold of the list and nodes given.
LlAssertsHold(e, head, tail, size, prev, next) ==
    /\ e.size \in {Unasserted, A(size)}
    /\ e.head \in {Unasserted, A(head)}
    /\ e.tail \in {Unasserted, A(tail)}
    /\ \A t \in e.links : prev[t[1]] = t[2] /\ next[t[1]] = t[3]

\* One call of linked_list_test and its ASSERTs; after the last, the six
\* nodes are kfree'd and the test may run again.
LinkedListTestStep ==
    LET e == LlScript[llpc] IN
    /\ CASE e.call = "append" -> LL!LinkedListAppend("list", e.n)
         [] e.call = "insert" -> LL!LinkedListInsert("list", e.at, e.n)
         [] e.call = "remove" -> LL!LinkedListRemove("list", e.n)
    /\ UNCHANGED tnptr
    /\ llOK' = (llOK /\ LlAssertsHold(e, tlhead'["list"], tltail'["list"],
                                      tlsize'["list"], tnprev', tnnext'))
    /\ llpc' = IF llpc = Len(LlScript) THEN 1 ELSE llpc + 1

-----------------------------------------------------------------------------
(* hash_table_test                                                         *)

TestKeys == (1..13) \cup {100}
TestVals == {10 * k : k \in TestKeys} \cup {29}

HT == INSTANCE HashTable
        WITH Keys <- TestKeys, Vals <- TestVals, NoVal <- NULL,
             InitialBuckets <- 16,
             buckets <- tbuckets, bucketsNum <- tbucketsNum, htSize <- thtSize,
             alive <- talive, ret <- tret

\* A call and what is asserted after it: size, the value returned, and
\* buckets_num.
HtCall(call, key, val, sz, r, bn) ==
    [call |-> call, key |-> key, val |-> val, size |-> sz, ret |-> r, bnum |-> bn]

Check(bn) == HtCall("check", 0, 0, Unasserted, Unasserted, A(bn))
GetCall(k, v) == HtCall("get", k, 0, Unasserted, A(v), Unasserted)
ContainsCall(k, b) == HtCall("contains", k, 0, Unasserted, A(b), Unasserted)

\* hash_table_put(&map, k, v), then ASSERTs of size, contains and get.
PutChecked(k, v, n) ==
    << HtCall("put", k, v, A(n), Unasserted, Unasserted), ContainsCall(k, TRUE), GetCall(k, v) >>

\* hash_table_test, lines 219 to 312.
HtScript ==
  << HtCall("create", 0, 0, Unasserted, Unasserted, Unasserted) >>
  \o PutChecked(1, 10, 1) \o PutChecked(2, 20, 2) \o PutChecked(3, 29, 3)
  \o << HtCall("put", 3, 30, A(3), A(29), Unasserted), ContainsCall(3, TRUE), GetCall(3, 30),
        HtCall("iter_create", 0, 0, Unasserted, Unasserted, Unasserted),
        HtCall("iter_loop", 0, 0, Unasserted, Unasserted, Unasserted),
        HtCall("iter_next", 0, 0, Unasserted, Unasserted, Unasserted),
        HtCall("remove", 2, 0, A(2), A(20), Unasserted), ContainsCall(2, FALSE), GetCall(2, NULL) >>
  \o FlattenSeq([i \in 1..10 |-> PutChecked(i + 3, 10 * (i + 3), 2 + i)])
  \o << Check(16) >> \o PutChecked(100, 1000, 13) \o << Check(32) >>
  \o << ContainsCall(1, TRUE), GetCall(1, 10), ContainsCall(3, TRUE), GetCall(3, 30) >>
  \o [i \in 1..10 |-> GetCall(i + 3, 10 * (i + 3))]
  \o << GetCall(100, 1000), HtCall("destroy", 0, 0, Unasserted, Unasserted, Unasserted) >>

HtAssertsHold(e, size, r, bnum) ==
    /\ e.size \in {Unasserted, A(size)}
    /\ e.ret \in {Unasserted, A(r)}
    /\ e.bnum \in {Unasserted, A(bnum)}

HtNext == IF htpc = Len(HtScript) THEN 1 ELSE htpc + 1

HtIterUnchanged == UNCHANGED <<iter, iterTotal, iterKey>>

\* A call of hash_table_test on the map and its ASSERTs; after destroy the
\* test may run again.
HashTableTestCall ==
    LET e == HtScript[htpc] IN
    /\ e.call \in {"create", "put", "get", "contains", "remove", "check", "destroy"}
    /\ CASE e.call = "create"   -> HT!HashTableInit
         [] e.call = "put"      -> HT!HashTablePut(e.key, e.val)
         [] e.call = "get"      -> HT!HashTableGet(e.key)
         [] e.call = "contains" -> HT!HashTableContains(e.key)
         [] e.call = "remove"   -> HT!HashTableRemove(e.key)
         [] e.call = "destroy"  -> HT!HashTableDestroy
         [] e.call = "check"    -> UNCHANGED <<tbuckets, tbucketsNum, thtSize, talive, tret>>
    /\ htOK' = (htOK /\ HtAssertsHold(e, thtSize', tret', tbucketsNum'))
    /\ htpc' = HtNext
    /\ HtIterUnchanged

\* The iterator part of hash_table_test: create it and ASSERT index -1;
\* while has_next, call next and ASSERT the kv is (key, key * 10), counting;
\* then ASSERT 3 kvs and index 2; one more next returns nullptr with node
\* nullptr and index 3.
HashTableTestIterate ==
    LET e == HtScript[htpc]
        r == HT!HashTableIteratorNext(iter)
    IN
    /\ \/ /\ e.call = "iter_create"
          /\ iter' = HT!IterCreate /\ iterTotal' = 0 /\ iterKey' = 1
          /\ htOK' = (htOK /\ iter'.index = -1)
          /\ htpc' = HtNext
       \/ /\ e.call = "iter_loop" /\ HT!HashTableIteratorHasNext(iter)
          /\ iter' = r.it /\ iterTotal' = iterTotal + 1 /\ iterKey' = iterKey + 1
          /\ htOK' = (htOK /\ r.kv.key = iterKey /\ r.kv.val = 10 * iterKey)
          /\ UNCHANGED htpc
       \/ /\ e.call = "iter_loop" /\ ~HT!HashTableIteratorHasNext(iter)
          /\ htOK' = (htOK /\ iterTotal = 3 /\ iter.index = 2)
          /\ htpc' = HtNext /\ UNCHANGED <<iter, iterTotal, iterKey>>
       \/ /\ e.call = "iter_next"
          /\ iter' = r.it /\ UNCHANGED <<iterTotal, iterKey>>
          /\ htOK' = (htOK /\ r.kv = HT!IterNull /\ r.it.node = <<>> /\ r.it.index = 3)
          /\ htpc' = HtNext
    /\ UNCHANGED <<tbuckets, tbucketsNum, thtSize, talive, tret>>

-----------------------------------------------------------------------------

\* Before the tests: the nodes and the map not yet created.
UnitTestsInit ==
    /\ LL!LinkedListSystemInit /\ llpc = 1 /\ llOK = TRUE
    /\ tbuckets = HT!EmptyBuckets(16) /\ tbucketsNum = 16 /\ thtSize = 0
    /\ talive = FALSE /\ tret = NULL
    /\ htpc = 1 /\ iter = HT!IterCreate /\ iterTotal = 0 /\ iterKey = 1
    /\ htOK = TRUE

UnitTestsNext ==
    \/ LinkedListTestStep /\ UNCHANGED htTestVars
    \/ (HashTableTestCall \/ HashTableTestIterate) /\ UNCHANGED llTestVars

UnitTestsSpec == UnitTestsInit /\ [][UnitTestsNext]_<<llTestVars, htTestVars>>

-----------------------------------------------------------------------------
(* Properties.                                                             *)

\* Every ASSERT of linked_list_test and hash_table_test holds when the
\* calls are made as the tests make them: the list and table functions, as
\* modelled, pass the code's own tests, including the off-by-one-prone
\* ones (the iterator's last index, expansion at the 13th and not the
\* 12th put), on every run of the tests.
UnitTestsPass == llOK /\ htOK
=============================================================================
