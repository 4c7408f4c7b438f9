----------------------------- MODULE LinkedList -----------------------------
(***************************************************************************)
(* The doubly linked list of src/src/utils/linked_list.c at the level of   *)
(* its pointers: every list has head, tail and size, every node prev, next *)
(* and ptr.  The kernel's lists are the ready, dead and waiting queues of  *)
(* the scheduler and the keyboard and the buckets of the hash table; the   *)
(* callers own the nodes (a tcb's node, or one kmalloc'ed by append_ele),  *)
(* so a node put into a list is in no list, and a node removed or looked   *)
(* for is in the list named.  linked_list_remove leaves the removed node's *)
(* own prev and next as they were; the model keeps those stale values.     *)
(* The functions run under the caller's lock or with interrupts off, so    *)
(* each call is one step.                                                  *)
(***************************************************************************)
EXTENDS Naturals, Sequences, SequencesExt, FiniteSets

CONSTANTS
    Lists,   \* the linked_list_t variables
    Nodes,   \* the linked_list_node_t objects
    Ptrs,    \* the values append_ele stores in node->ptr
    Null     \* nullptr

VARIABLES
    lhead, ltail, lsize,   \* the fields of every list
    nprev, nnext, nptr     \* the fields of every node

llVars == <<lhead, ltail, lsize, nprev, nnext, nptr>>

NodeOrNull == Nodes \cup {Null}

LinkedListTypeOK ==
    /\ lhead \in [Lists -> NodeOrNull]
    /\ ltail \in [Lists -> NodeOrNull]
    /\ lsize \in [Lists -> 0..Cardinality(Nodes)]
    /\ nprev \in [Nodes -> NodeOrNull]
    /\ nnext \in [Nodes -> NodeOrNull]
    /\ nptr \in [Nodes -> Ptrs \cup {Null}]

\* The nodes reached from n by next pointers, at most k of them.
RECURSIVE NodesFrom(_, _)
NodesFrom(n, k) ==
    IF n = Null \/ k = 0 THEN <<>> ELSE <<n>> \o NodesFrom(nnext[n], k - 1)

\* The walk from the head; one node longer than any list can be if the
\* next pointers form a cycle.
ListWalk(l) == NodesFrom(lhead[l], Cardinality(Nodes) + 1)

Linked == UNION {ToSet(ListWalk(l)) : l \in Lists}

-----------------------------------------------------------------------------

\* linked_list_append(l, n)
LinkedListAppend(l, n) ==
    /\ n \notin Linked
    /\ IF lsize[l] = 0
       THEN /\ nprev' = [nprev EXCEPT ![n] = Null]
            /\ nnext' = [nnext EXCEPT ![n] = Null]
            /\ lhead' = [lhead EXCEPT ![l] = n]
       ELSE /\ nprev' = [nprev EXCEPT ![n] = ltail[l]]
            /\ nnext' = [nnext EXCEPT ![n] = Null, ![ltail[l]] = n]
            /\ UNCHANGED lhead
    /\ ltail' = [ltail EXCEPT ![l] = n]
    /\ lsize' = [lsize EXCEPT ![l] = @ + 1]

\* linked_list_insert(l, node, n): n goes after node, or first if node is
\* nullptr.
LinkedListInsert(l, node, n) ==
    LET nextNode == IF node = Null THEN lhead[l] ELSE nnext[node]
    IN  /\ n \notin Linked
        /\ node \in ToSet(ListWalk(l)) \cup {Null}
        /\ lhead' = IF node = Null THEN [lhead EXCEPT ![l] = n] ELSE lhead
        /\ nnext' = [x \in Nodes |-> CASE x = n    -> nextNode
                                       [] x = node -> n
                                       [] OTHER    -> nnext[x]]
        /\ nprev' = [x \in Nodes |-> CASE x = n        -> node
                                       [] x = nextNode -> n
                                       [] OTHER        -> nprev[x]]
        /\ ltail' = IF nextNode = Null THEN [ltail EXCEPT ![l] = n] ELSE ltail
        /\ lsize' = [lsize EXCEPT ![l] = @ + 1]

\* linked_list_insert_to_head: an insert after the head node, which puts
\* n first only when the list is empty.
LinkedListInsertToHead(l, n) == LinkedListInsert(l, lhead[l], n)

\* Faulty variant of LinkedListRemove: the tail is not moved back when the
\* tail node is removed.
LinkedListRemoveKeepsTail(l, n) ==
    LET prevNode == nprev[n]
        nextNode == nnext[n]
    IN  /\ n \in ToSet(ListWalk(l))
        /\ nnext' = IF prevNode # Null THEN [nnext EXCEPT ![prevNode] = nextNode] ELSE nnext
        /\ lhead' = IF prevNode # Null THEN lhead ELSE [lhead EXCEPT ![l] = nextNode]
        /\ nprev' = IF nextNode # Null THEN [nprev EXCEPT ![nextNode] = prevNode] ELSE nprev
        /\ UNCHANGED ltail
        /\ lsize' = [lsize EXCEPT ![l] = @ - 1]

\* linked_list_remove(l, n)
LinkedListRemove(l, n) ==
    LET prevNode == nprev[n]
        nextNode == nnext[n]
    IN  /\ n \in ToSet(ListWalk(l))
        /\ nnext' = IF prevNode # Null THEN [nnext EXCEPT ![prevNode] = nextNode] ELSE nnext
        /\ lhead' = IF prevNode # Null THEN lhead ELSE [lhead EXCEPT ![l] = nextNode]
        /\ nprev' = IF nextNode # Null THEN [nprev EXCEPT ![nextNode] = prevNode] ELSE nprev
        /\ ltail' = IF nextNode # Null THEN ltail ELSE [ltail EXCEPT ![l] = prevNode]
        /\ lsize' = [lsize EXCEPT ![l] = @ - 1]

\* linked_list_append_ele(l, p): a fresh node from kmalloc holding p.
LinkedListAppendEle(l, p) ==
    \E n \in Nodes \ Linked :
        /\ nptr' = [nptr EXCEPT ![n] = p]
        /\ LinkedListAppend(l, n)

\* linked_list_remove_ele(l, p): remove the first node holding p, if any.
\* The node is not freed.
LinkedListRemoveEle(l, p) ==
    LET w == ListWalk(l)
        i == SelectInSeq(w, LAMBDA x : nptr[x] = p)
    IN  IF i = 0 THEN UNCHANGED <<lhead, ltail, lsize, nprev, nnext>>
                 ELSE LinkedListRemove(l, w[i])

\* linked_list_move(dst, src): dst takes src's head, tail and size and src
\* is initialised.  The kernel's dst is a fresh local list.
LinkedListMove(dst, src) ==
    /\ dst # src /\ lsize[dst] = 0 /\ lhead[dst] = Null
    /\ lhead' = [lhead EXCEPT ![dst] = lhead[src], ![src] = Null]
    /\ ltail' = [ltail EXCEPT ![dst] = ltail[src], ![src] = Null]
    /\ lsize' = [lsize EXCEPT ![dst] = lsize[src], ![src] = 0]
    /\ UNCHANGED <<nprev, nnext>>

\* Faulty variant of LinkedListConcate: the roles of the two lists are
\* swapped, so src's nodes end up before dst's.
LinkedListConcateSwapped(dst, src) ==
    /\ dst # src
    /\ CASE lsize[src] = 0 -> UNCHANGED <<lhead, ltail, lsize, nprev, nnext>>
         [] lsize[dst] = 0 -> LinkedListMove(dst, src)
         [] OTHER ->
              /\ nnext' = [nnext EXCEPT ![ltail[src]] = lhead[dst]]
              /\ nprev' = [nprev EXCEPT ![lhead[dst]] = ltail[src]]
              /\ lhead' = [lhead EXCEPT ![dst] = lhead[src], ![src] = Null]
              /\ lsize' = [lsize EXCEPT ![dst] = @ + lsize[src], ![src] = 0]
              /\ ltail' = [ltail EXCEPT ![src] = Null]

\* linked_list_concate(dst, src)
LinkedListConcate(dst, src) ==
    /\ dst # src
    /\ CASE lsize[src] = 0 -> UNCHANGED <<lhead, ltail, lsize, nprev, nnext>>
         [] lsize[dst] = 0 -> LinkedListMove(dst, src)
         [] OTHER ->
              /\ nnext' = [nnext EXCEPT ![ltail[dst]] = lhead[src]]
              /\ nprev' = [nprev EXCEPT ![lhead[src]] = ltail[dst]]
              /\ ltail' = [ltail EXCEPT ![dst] = ltail[src], ![src] = Null]
              /\ lsize' = [lsize EXCEPT ![dst] = @ + lsize[src], ![src] = 0]
              /\ lhead' = [lhead EXCEPT ![src] = Null]

-----------------------------------------------------------------------------

\* Every list empty; no node has been used.
LinkedListSystemInit ==
    /\ lhead = [l \in Lists |-> Null]
    /\ ltail = [l \in Lists |-> Null]
    /\ lsize = [l \in Lists |-> 0]
    /\ nprev = [n \in Nodes |-> Null]
    /\ nnext = [n \in Nodes |-> Null]
    /\ nptr = [n \in Nodes |-> Null]

LinkedListNext ==
    \E l \in Lists :
        \/ \E n \in Nodes : LinkedListAppend(l, n) /\ UNCHANGED nptr
        \/ \E node \in NodeOrNull, n \in Nodes :
               LinkedListInsert(l, node, n) /\ UNCHANGED nptr
        \/ \E n \in Nodes : LinkedListInsertToHead(l, n) /\ UNCHANGED nptr
        \/ \E n \in Nodes : LinkedListRemove(l, n) /\ UNCHANGED nptr
        \/ \E p \in Ptrs : LinkedListAppendEle(l, p)
        \/ \E p \in Ptrs : LinkedListRemoveEle(l, p) /\ UNCHANGED nptr
        \/ \E src \in Lists : LinkedListMove(l, src) /\ UNCHANGED nptr
        \/ \E src \in Lists : LinkedListConcate(l, src) /\ UNCHANGED nptr

LinkedListSpec == LinkedListSystemInit /\ [][LinkedListNext]_llVars

-----------------------------------------------------------------------------
(* Properties.                                                             *)

\* Every list is well linked after any sequence of calls: the walk from
\* head ends after size nodes at tail, every node's prev is the node before
\* it, the head's prev is nullptr, and no node is in two lists.  This is
\* what linked_list_remove and linked_list_concate rely on when they
\* follow prev and next without checking.
LinkedListWellFormed ==
    /\ \A l \in Lists :
         LET w == ListWalk(l) IN
         /\ Len(w) = lsize[l]
         /\ ltail[l] = IF w = <<>> THEN Null ELSE Last(w)
         /\ \A i \in 1..Len(w) : nprev[w[i]] = IF i = 1 THEN Null ELSE w[i - 1]
    /\ \A l1, l2 \in Lists :
         l1 # l2 => ToSet(ListWalk(l1)) \cap ToSet(ListWalk(l2)) = {}

\* The pointer operations implement lists as sequences: each call changes
\* the sequences read from the heads exactly as an append, an insert, a
\* removal or a concatenation of SeqLists does.
Seqs == INSTANCE SeqLists WITH lists <- [l \in Lists |-> ListWalk(l)]

LinkedListRefinesSeqLists == Seqs!SeqListsSpec
=============================================================================
