------------------------------ MODULE SeqLists ------------------------------
(***************************************************************************)
(* What src/src/utils/linked_list.c promises its callers: every list is a  *)
(* sequence of nodes, a node is in at most one list, and the operations    *)
(* append a node, insert one after a given position, remove one, move a    *)
(* list into an empty one and concatenate two lists.                       *)
(***************************************************************************)
EXTENDS Naturals, Sequences, SequencesExt

CONSTANTS Lists, Nodes

VARIABLE lists

InSomeList == UNION {ToSet(lists[l]) : l \in Lists}

SeqAppend(l, n) ==
    /\ n \notin InSomeList
    /\ lists' = [lists EXCEPT ![l] = Append(@, n)]

\* n goes right after the first i nodes of l.
SeqInsertAt(l, i, n) ==
    /\ n \notin InSomeList
    /\ lists' = [lists EXCEPT ![l] = InsertAt(@, i + 1, n)]

SeqRemove(l, i) == lists' = [lists EXCEPT ![l] = RemoveAt(@, i)]

\* The nodes of src follow those of dst; src is left empty.
SeqConcat(dst, src) ==
    /\ dst # src
    /\ lists' = [lists EXCEPT ![dst] = @ \o lists[src], ![src] = <<>>]

SeqNext ==
    \E l \in Lists :
        \/ \E n \in Nodes : SeqAppend(l, n)
        \/ \E n \in Nodes, i \in 0..Len(lists[l]) : SeqInsertAt(l, i, n)
        \/ \E i \in 1..Len(lists[l]) : SeqRemove(l, i)
        \/ \E src \in Lists : SeqConcat(l, src)

SeqListsSpec == lists = [l \in Lists |-> <<>>] /\ [][SeqNext]_lists
=============================================================================
