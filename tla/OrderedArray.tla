---------------------------- MODULE OrderedArray ----------------------------
(***************************************************************************)
(* The ordered array of src/src/utils/ordered_array.c as operators on a    *)
(* sequence (element 1 is array[0]).  The comparator is a parameter, as    *)
(* the function pointer of ordered_array_create is: a function cmp with   *)
(* cmp[x, y] negative, zero or positive, defined on the pairs compared.    *)
(***************************************************************************)
EXTENDS Integers, Sequences, SequencesExt

\* ordered_array_insert: walk while the element compares <= item, shift the
\* rest up and put item there.  A full array (size >= max_size) is left as
\* it is: the item is silently dropped.
OrderedArrayInsert(arr, item, cmp, maxSize) ==
    IF Len(arr) >= maxSize
    THEN arr
    ELSE LET stop == SelectInSeq(arr, LAMBDA x : cmp[x, item] > 0)
         IN  InsertAt(arr, IF stop = 0 THEN Len(arr) + 1 ELSE stop, item)

\* ordered_array_remove: remove the element at position i, if there is one.
OrderedArrayRemove(arr, i) ==
    IF i > Len(arr) THEN arr ELSE RemoveAt(arr, i)

\* ordered_array_remove_element: remove the first element equal to ele, if
\* there is one (the return value 0 when there is none is Contains(arr, ele)
\* being false).
OrderedArrayRemoveElement(arr, ele) == RemoveFirst(arr, ele)
=============================================================================
