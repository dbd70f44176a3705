------------------------------- MODULE Vector -------------------------------
(***************************************************************************)
(* The generic vector, vector.c: an array on the heap with room for        *)
(* alloc_len elements, of which the first log_len are in use.  A vector is *)
(* a record; an operation is the operator that returns the vector after    *)
(* the call.  Elements are copied byte for byte, so an element is a value. *)
(***************************************************************************)
EXTENDS Integers, Sequences

CONSTANT Garbage   \* what malloc and realloc leave in memory

\* owns says whether a VectorFreeFunction was given; released is the history of
\* the elements that have been passed to it.
VectorNew(owns, initialAllocation) ==
    LET room == IF initialAllocation # 0 THEN initialAllocation ELSE 10
    IN  [arr |-> [i \in 0 .. (room - 1) |-> Garbage], log_len |-> 0, alloc_len |-> room,
         init_alloc |-> room, owns |-> owns, released |-> <<>>]

VectorLength(v) == v.log_len

IsValidPosition(v, pos) == pos \in 0 .. (v.log_len - 1)

\* VectorNth asserts a valid position.
VectorNth(v, pos) == v.arr[pos]

\* What the client sees: the elements in order, which is what VectorMap visits.
Elements(v) == [i \in 1 .. v.log_len |-> v.arr[i - 1]]

Content(v) == {v.arr[i] : i \in 0 .. (v.log_len - 1)}

\* Faulty: takes new memory and leaves the elements behind.
ExpandAnew(v) ==
    [v EXCEPT !.alloc_len = @ + v.init_alloc,
              !.arr = [i \in 0 .. (v.alloc_len + v.init_alloc - 1) |-> Garbage]]

Expand(v) ==
    [v EXCEPT !.alloc_len = @ + v.init_alloc,
              !.arr = [i \in 0 .. (v.alloc_len + v.init_alloc - 1) |->
                         IF i < v.alloc_len THEN v.arr[i] ELSE Garbage]]

\* Called when something is to be added.
Room(v) == IF v.log_len = v.alloc_len THEN Expand(v) ELSE v

\* Faulty: copies from the front in either direction.
ShiftForward(v, from, num, by) ==
    LET copied[i \in 0 .. num] ==
          IF i = 0 THEN v.arr
          ELSE [copied[i - 1] EXCEPT ![from + i - 1 + by] = copied[i - 1][from + i - 1]]
    IN  IF by = 0 \/ num = 0 THEN v ELSE [v EXCEPT !.arr = copied[num]]

\* Moves num elements, the first one at from, by so many places: one copy after
\* the other, from the end when they move backwards in memory.
Shift(v, from, num, by) ==
    LET src(i) == IF by < 0 THEN from + i - 1 ELSE from + num - i
        copied[i \in 0 .. num] ==
          IF i = 0 THEN v.arr
          ELSE [copied[i - 1] EXCEPT ![src(i) + by] = copied[i - 1][src(i)]]
    IN  IF by = 0 \/ num = 0 THEN v ELSE [v EXCEPT !.arr = copied[num]]

\* The free function, when there is one.
Release(v, elems) == IF v.owns THEN [v EXCEPT !.released = @ \o elems] ELSE v

VectorAppend(v, elem) ==
    LET r == Room(v)
    IN  [r EXCEPT !.arr[r.log_len] = elem, !.log_len = @ + 1]

VectorInsert(v, elem, pos) ==
    LET r == Room(v)
        s == Shift(r, pos, r.log_len - pos, 1)
    IN  IF r.log_len = pos THEN VectorAppend(r, elem)
        ELSE [s EXCEPT !.arr[pos] = elem, !.log_len = @ + 1]

VectorReplace(v, elem, pos) ==
    [Release(v, <<VectorNth(v, pos)>>) EXCEPT !.arr[pos] = elem]

\* Faulty: the last element stays where it is.
DeleteShort(v, pos) ==
    LET r == Release(v, <<VectorNth(v, pos)>>)
        s == Shift(r, pos + 1, v.log_len - pos - 2, -1)
    IN  IF v.log_len - pos < 2 THEN [r EXCEPT !.log_len = @ - 1] ELSE [s EXCEPT !.log_len = @ - 1]

VectorDelete(v, pos) ==
    LET r == Release(v, <<VectorNth(v, pos)>>)
        s == Shift(r, pos + 1, v.log_len - pos - 1, -1)
    IN  [s EXCEPT !.log_len = @ - 1]

VectorDispose(v) == Release(v, Elements(v))

\* qsort may leave elements that compare equal in any order.  The compare function is
\* here a relation, the pairs of which the first must come before the second.
VectorSort(v, before) ==
    LET used == 0 .. (v.log_len - 1)
        Sorted(p) == /\ \A i, j \in used : i # j => p[i] # p[j]
                     /\ \A i, j \in used : i < j => <<v.arr[p[j]], v.arr[p[i]]>> \notin before
    IN  {[v EXCEPT !.arr = [i \in DOMAIN v.arr |-> IF i \in used THEN v.arr[p[i]] ELSE v.arr[i]]] :
           p \in {q \in [used -> used] : Sorted(q)}}

\* lfind: the first element that is in the set matching, which stands for the key and
\* the compare function; -1 when there is none.  The assertion of the code about
\* start does not hold at the end of a vector that is not empty.  No client that
\* changes anything searches with bsearch, in a sorted vector.
VectorSearch(v, matching, start) ==
    LET found == {i \in start .. (v.log_len - 1) : v.arr[i] \in matching}
    IN  IF found = {} THEN -1 ELSE CHOOSE i \in found : \A j \in found : i <= j
=============================================================================
