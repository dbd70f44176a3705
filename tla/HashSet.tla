------------------------------ MODULE HashSet ------------------------------
(***************************************************************************)
(* The generic hash set, hashset.c: an array of vectors, the buckets.  The *)
(* functions of the client are constants: Hash gives the bucket of an      *)
(* element, and elements compare equal when Key agrees.  A client has one  *)
(* instance of this module for each kind of elements.                      *)
(***************************************************************************)
EXTENDS Vector

CONSTANTS
    Hash(_),
    Key(_),
    NULL

\* Like vectors, a hash set is a record and an operation returns the next one.
HashSetNew(numBuckets, owns) ==
    [num_buckets |-> numBuckets, elem_count |-> 0,
     buckets |-> [b \in 0 .. (numBuckets - 1) |-> VectorNew(owns, 2)]]

\* The elements in the order in which HashSetMap meets them.
HashSetElements(h) ==
    LET upTo[b \in 0 .. h.num_buckets] ==
          IF b = 0 THEN <<>> ELSE upTo[b - 1] \o Elements(h.buckets[b - 1])
    IN  upTo[h.num_buckets]

HashSetCount(h) == h.elem_count

\* Where an element that equals elem is: a bucket and an index, -1 if there is none.
Place(h, elem) ==
    LET b     == Hash(elem)
        Equal == {e \in Content(h.buckets[b]) : Key(e) = Key(elem)}
    IN  [bucket |-> b, index |-> VectorSearch(h.buckets[b], Equal, 0)]

\* The count grows whether the element is new or replaces an equal one.
HashSetEnter(h, elem) ==
    LET at  == Place(h, elem)
        old == h.buckets[at.bucket]
        new == IF at.index = -1 THEN VectorAppend(old, elem)
               ELSE VectorInsert(VectorDelete(old, at.index), elem, at.index)
    IN  [h EXCEPT !.buckets[at.bucket] = new, !.elem_count = @ + 1]

\* The address of the element.
HashSetLookup(h, elem) ==
    LET at == Place(h, elem)
    IN  IF at.index = -1 THEN NULL ELSE at

\* What a client reads at an address, and what it does when it writes there.
HashSetAt(h, at) == VectorNth(h.buckets[at.bucket], at.index)

HashSetOverwrite(h, at, elem) ==
    [h EXCEPT !.buckets[at.bucket].arr[at.index] = elem]

HashSetDispose(h) ==
    [h EXCEPT !.buckets = [b \in DOMAIN h.buckets |-> VectorDispose(h.buckets[b])]]
=============================================================================
