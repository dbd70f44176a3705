----------------------------- MODULE NewsProofs -----------------------------
(***************************************************************************)
(* Proofs about NewsIndex for every web, every list of feeds, every set of *)
(* words and hash function, every number of buckets and every number of    *)
(* articles shown.  First the hash sets of the program: where a string is  *)
(* found and what the set of stop words holds.  Then how often a word has  *)
(* been read, and that the index says so after every word; then the        *)
(* invariant of the program and its properties.                            *)
(***************************************************************************)
EXTENDS NewsIndex, LibraryProofs

-----------------------------------------------------------------------------
(***************************************************************************)
(* The instances of HashSet                                                *)
(***************************************************************************)
\* The operations of Strings are those of Vector.
LEMMA StringVectors ==
    ASSUME NEW v, NEW x, NEW y
    PROVE  /\ Strings!VectorNew(x, y) = VectorNew(x, y)
           /\ Strings!VectorNth(v, x) = VectorNth(v, x)
           /\ Strings!Elements(v) = Elements(v)
           /\ Strings!Content(v) = Content(v)
           /\ Strings!VectorAppend(v, x) = VectorAppend(v, x)
           /\ Strings!VectorInsert(v, x, y) = VectorInsert(v, x, y)
           /\ Strings!VectorDelete(v, x) = VectorDelete(v, x)
           /\ Strings!VectorSearch(v, x, y) = VectorSearch(v, x, y)
           /\ Strings!VectorDispose(v) = VectorDispose(v)
  <1>1. Strings!VectorNew(x, y) = VectorNew(x, y)
    BY DEF Strings!VectorNew, VectorNew
  <1>2. /\ Strings!VectorNth(v, x) = VectorNth(v, x)
        /\ Strings!Elements(v) = Elements(v)
        /\ Strings!Content(v) = Content(v)
    BY DEF Strings!VectorNth, VectorNth, Strings!Elements, Elements, Strings!Content, Content
  <1>3. Strings!VectorAppend(v, x) = VectorAppend(v, x)
    BY DEF Strings!VectorAppend, VectorAppend, Strings!Room, Room, Strings!Expand, Expand
  <1>4. Strings!VectorInsert(v, x, y) = VectorInsert(v, x, y)
    BY DEF Strings!VectorInsert, VectorInsert, Strings!Room, Room, Strings!Expand, Expand,
           Strings!Shift, Shift, Strings!VectorAppend, VectorAppend
  <1>5. Strings!VectorDelete(v, x) = VectorDelete(v, x)
    BY DEF Strings!VectorDelete, VectorDelete, Strings!Release, Release,
           Strings!VectorNth, VectorNth, Strings!Shift, Shift
  <1>6. Strings!VectorSearch(v, x, y) = VectorSearch(v, x, y)
    BY DEF Strings!VectorSearch, VectorSearch
  <1>7. Strings!VectorDispose(v) = VectorDispose(v)
    BY DEF Strings!VectorDispose, VectorDispose, Strings!Release, Release,
           Strings!Elements, Elements
  <1> QED
    BY <1>1, <1>2, <1>3, <1>4, <1>5, <1>6, <1>7

\* And so are those of Stats.
LEMMA StatVectors ==
    ASSUME NEW v, NEW x, NEW y
    PROVE  /\ Stats!VectorNew(x, y) = VectorNew(x, y)
           /\ Stats!VectorNth(v, x) = VectorNth(v, x)
           /\ Stats!Elements(v) = Elements(v)
           /\ Stats!Content(v) = Content(v)
           /\ Stats!VectorAppend(v, x) = VectorAppend(v, x)
           /\ Stats!VectorInsert(v, x, y) = VectorInsert(v, x, y)
           /\ Stats!VectorDelete(v, x) = VectorDelete(v, x)
           /\ Stats!VectorSearch(v, x, y) = VectorSearch(v, x, y)
           /\ Stats!VectorDispose(v) = VectorDispose(v)
  <1>1. Stats!VectorNew(x, y) = VectorNew(x, y)
    BY DEF Stats!VectorNew, VectorNew
  <1>2. /\ Stats!VectorNth(v, x) = VectorNth(v, x)
        /\ Stats!Elements(v) = Elements(v)
        /\ Stats!Content(v) = Content(v)
    BY DEF Stats!VectorNth, VectorNth, Stats!Elements, Elements, Stats!Content, Content
  <1>3. Stats!VectorAppend(v, x) = VectorAppend(v, x)
    BY DEF Stats!VectorAppend, VectorAppend, Stats!Room, Room, Stats!Expand, Expand
  <1>4. Stats!VectorInsert(v, x, y) = VectorInsert(v, x, y)
    BY DEF Stats!VectorInsert, VectorInsert, Stats!Room, Room, Stats!Expand, Expand,
           Stats!Shift, Shift, Stats!VectorAppend, VectorAppend
  <1>5. Stats!VectorDelete(v, x) = VectorDelete(v, x)
    BY DEF Stats!VectorDelete, VectorDelete, Stats!Release, Release,
           Stats!VectorNth, VectorNth, Stats!Shift, Shift
  <1>6. Stats!VectorSearch(v, x, y) = VectorSearch(v, x, y)
    BY DEF Stats!VectorSearch, VectorSearch
  <1>7. Stats!VectorDispose(v) = VectorDispose(v)
    BY DEF Stats!VectorDispose, VectorDispose, Stats!Release, Release,
           Stats!Elements, Elements
  <1> QED
    BY <1>1, <1>2, <1>3, <1>4, <1>5, <1>6, <1>7

\* What a string and an element of the index are found by, and the bucket for it.
Keys == DOMAIN Code

Bucket(g) == Code[g] % NumBuckets

\* Every key has a bucket.
LEMMA BucketRange ==
    /\ NumBuckets \in Nat
    /\ \A g \in Keys : Bucket(g) \in 0 .. (NumBuckets - 1)
  <1>1. NumBuckets \in Nat \ {0} /\ \A g \in Keys : Code[g] \in Nat
    BY NewsAssumption DEF Keys
  <1> QED
    BY <1>1, Remainder DEF Bucket

\* Every bucket is a vector.
HasBuckets(h) ==
    /\ DOMAIN h = {"num_buckets", "elem_count", "buckets"}
    /\ h.num_buckets = NumBuckets
    /\ DOMAIN h.buckets = 0 .. (NumBuckets - 1)
    /\ \A b \in 0 .. (NumBuckets - 1) : IsVector(h.buckets[b])

\* No bucket has an element.
NothingIn(h) == \A b \in 0 .. (NumBuckets - 1) : h.buckets[b].log_len = 0

\* HashSetNew.
LEMMA NewSet ==
    ASSUME NEW h,
           \E o : h \in {Strings!HashSetNew(NumBuckets, o), Stats!HashSetNew(NumBuckets, o)}
    PROVE  HasBuckets(h) /\ NothingIn(h)
  <1>1. PICK o : h \in {Strings!HashSetNew(NumBuckets, o), Stats!HashSetNew(NumBuckets, o)}
    OBVIOUS
  <1> DEFINE n == 2
             v == VectorNew(o, n)
  <1>2. h = [num_buckets |-> NumBuckets, elem_count |-> 0, buckets |-> [b \in 0 .. (NumBuckets - 1) |-> v]]
    BY <1>1, StringVectors, StatVectors DEF Strings!HashSetNew, Stats!HashSetNew
  <1>3. n \in Nat
    OBVIOUS
  <1> HIDE DEF n
  <1>4. IsVector(v) /\ v.log_len = 0
    BY <1>3, NewVector
  <1> HIDE DEF v
  <1> QED
    BY <1>2, <1>4 DEF HasBuckets, NothingIn

\* z is v with elem at place p, which may be the one behind the last.
PutAt(z, v, p, elem) ==
    /\ IsVector(z)
    /\ p \in 0 .. (z.log_len - 1)
    /\ VectorNth(z, p) = elem
    /\ v.log_len <= z.log_len
    /\ p \in 0 .. v.log_len
    /\ \A i \in 0 .. (z.log_len - 1) :
          i # p => i \in 0 .. (v.log_len - 1) /\ VectorNth(z, i) = VectorNth(v, i)

\* VectorAppend.
LEMMA AppendPuts ==
    ASSUME NEW v, IsVector(v), NEW elem
    PROVE  PutAt(VectorAppend(v, elem), v, v.log_len, elem)
  <1> DEFINE z == VectorAppend(v, elem)
             n == v.log_len
  <1>1. /\ IsVector(z)
        /\ z.log_len = n + 1
        /\ \A i \in 0 .. (n - 1) : VectorNth(z, i) = VectorNth(v, i)
        /\ VectorNth(z, n) = elem
    BY AppendIs
  <1>2. n \in Nat
    BY DEF IsVector
  <1> HIDE DEF z, n
  <1>3. \A i \in 0 .. (z.log_len - 1) : i # n => i \in 0 .. (n - 1)
    BY <1>1, <1>2
  <1>4. n \in 0 .. (z.log_len - 1) /\ n <= z.log_len /\ n \in 0 .. n
    BY <1>1, <1>2
  <1> QED
    BY <1>1, <1>3, <1>4 DEF PutAt, z, n

\* What HashSetEnter does to a bucket.
Entered(v, k, elem) ==
    IF k = -1 THEN VectorAppend(v, elem) ELSE VectorInsert(VectorDelete(v, k), elem, k)

\* The place of the new element.
Where(v, k) == IF k = -1 THEN v.log_len ELSE k

\* HashSetEnter puts the element at its place in the bucket, whether it is new or not.
LEMMA EnteredPuts ==
    ASSUME NEW v, IsVector(v), NEW elem, NEW k, k = -1 \/ k \in 0 .. (v.log_len - 1)
    PROVE  PutAt(Entered(v, k, elem), v, Where(v, k), elem)
  <1>1. v.log_len \in Nat
    BY DEF IsVector
  <1>2. CASE k = -1
    BY <1>2, AppendPuts DEF Entered, Where
  <1>3. CASE k \in 0 .. (v.log_len - 1)
    <2> DEFINE z == VectorInsert(VectorDelete(v, k), elem, k)
    <2>1. k # -1
      BY <1>1, <1>3
    <2>2. /\ IsVector(z)
          /\ z.log_len = v.log_len
          /\ VectorNth(z, k) = elem
          /\ \A i \in 0 .. (v.log_len - 1) : i # k => VectorNth(z, i) = VectorNth(v, i)
      BY <1>3, SwapIs
    <2>3. Entered(v, k, elem) = z /\ Where(v, k) = k
      BY <2>1 DEF Entered, Where
    <2> HIDE DEF z
    <2>4. k \in 0 .. (z.log_len - 1) /\ v.log_len <= z.log_len /\ k \in 0 .. v.log_len
      BY <1>1, <1>3, <2>2
    <2> QED
      BY <2>2, <2>3, <2>4 DEF PutAt
  <1> QED
    BY <1>2, <1>3

\* Writing to an element.
LEMMA OverwritePuts ==
    ASSUME NEW v, IsVector(v), NEW elem, NEW k \in 0 .. (v.log_len - 1)
    PROVE  PutAt([v EXCEPT !.arr[k] = elem], v, k, elem)
  <1> DEFINE a == [v.arr EXCEPT ![k] = elem]
             n == v.log_len
             z == Put(v, k, elem, n)
  <1>1. n \in 0 .. v.alloc_len /\ v.alloc_len \in Nat /\ "arr" \in DOMAIN v /\ "log_len" \in DOMAIN v
    BY DEF IsVector
  <1>2. [v EXCEPT !.arr[k] = elem] = z
    <2>1. [v EXCEPT !.arr[k] = elem] = [v EXCEPT !.arr = a]
      OBVIOUS
    <2>2. z = [c \in DOMAIN v |-> IF c = "log_len" THEN n ELSE IF c = "arr" THEN a ELSE v[c]]
      BY DEF Put, Updated
    <2>3. [v EXCEPT !.arr = a] = [c \in DOMAIN v |-> IF c = "arr" THEN a ELSE v[c]]
      <3> HIDE DEF a
      <3> QED
        BY Zenon
    <2>4. "log_len" # "arr"
      OBVIOUS
    <2> HIDE DEF a, z
    <2>5. \A c : (IF c = "log_len" THEN n ELSE IF c = "arr" THEN a ELSE v[c]) =
                 (IF c = "arr" THEN a ELSE v[c])
      BY <2>4
    <2> QED
      BY <2>1, <2>2, <2>3, <2>5
  <1> HIDE DEF n
  <1>3. k \in 0 .. (v.alloc_len - 1) /\ k \in 0 .. n
    <2>1. k \in 0 .. (n - 1)
      BY DEF n
    <2> QED
      BY <1>1, <2>1
  <1>4. /\ IsVector(z) /\ z.log_len = n
        /\ z.arr[k] = elem
        /\ \A j \in 0 .. (v.alloc_len - 1) : j # k => z.arr[j] = v.arr[j]
    <2> HIDE DEF z
    <2> QED
      BY <1>1, <1>3, PutElement DEF z
  <1> HIDE DEF z
  <1>5. \A i \in 0 .. (n - 1) : i \in 0 .. (v.alloc_len - 1)
    BY <1>1
  <1>6. v.log_len <= z.log_len
    BY <1>1, <1>4 DEF n
  <1>7. PutAt(z, v, k, elem)
    BY <1>3, <1>4, <1>5, <1>6 DEF PutAt, VectorNth, n
  <1> QED
    BY <1>2, <1>7

\* The set with the bucket b replaced, and counting n elements.
WithBucket(h, b, z, n) == Updated(h, "buckets", [h.buckets EXCEPT ![b] = z], "elem_count", n)

\* The other buckets stay what they were.
LEMMA WithBucketIs ==
    ASSUME NEW h, HasBuckets(h), NEW b \in 0 .. (NumBuckets - 1), NEW z, IsVector(z), NEW n
    PROVE  /\ HasBuckets(WithBucket(h, b, z, n))
           /\ WithBucket(h, b, z, n).buckets[b] = z
           /\ \A c \in 0 .. (NumBuckets - 1) :
                 c # b => WithBucket(h, b, z, n).buckets[c] = h.buckets[c]
  <1> DEFINE f == [h.buckets EXCEPT ![b] = z]
             w == WithBucket(h, b, z, n)
  <1>1. /\ DOMAIN h = {"num_buckets", "elem_count", "buckets"}
        /\ h.num_buckets = NumBuckets
        /\ DOMAIN h.buckets = 0 .. (NumBuckets - 1)
        /\ \A c \in 0 .. (NumBuckets - 1) : IsVector(h.buckets[c])
    BY DEF HasBuckets
  <1>2. /\ DOMAIN f = 0 .. (NumBuckets - 1)
        /\ f[b] = z
        /\ \A c \in 0 .. (NumBuckets - 1) : c # b => f[c] = h.buckets[c]
    BY <1>1
  <1> HIDE DEF f
  <1>3. /\ DOMAIN w = {"num_buckets", "elem_count", "buckets"}
        /\ w.buckets = f /\ w.num_buckets = NumBuckets
    BY <1>1 DEF WithBucket, Updated, f
  <1> HIDE DEF w
  <1>4. \A c \in 0 .. (NumBuckets - 1) : IsVector(f[c])
    BY <1>1, <1>2
  <1> QED
    BY <1>2, <1>3, <1>4 DEF HasBuckets, w

\* HashSetEnter changes one bucket.
LEMMA EnterString ==
    ASSUME NEW h, NEW e, NEW b, b = Strings!Place(h, e).bucket, NEW k, k = Strings!Place(h, e).index
    PROVE  Strings!HashSetEnter(h, e) = WithBucket(h, b, Entered(h.buckets[b], k, e), h.elem_count + 1)
  <1> DEFINE v == h.buckets[b]
             z == Entered(v, k, e)
             n == h.elem_count + 1
  <1>1. Strings!HashSetEnter(h, e) =
           [h EXCEPT !.buckets[b] = IF k = -1 THEN Strings!VectorAppend(h.buckets[b], e)
                                    ELSE Strings!VectorInsert(Strings!VectorDelete(h.buckets[b], k), e, k),
                     !.elem_count = n]
    BY Zenon DEF Strings!HashSetEnter
  <1>2. z = IF k = -1 THEN Strings!VectorAppend(v, e)
            ELSE Strings!VectorInsert(Strings!VectorDelete(v, k), e, k)
    <2> HIDE DEF v
    <2> QED
      BY StringVectors DEF Entered
  <1> HIDE DEF z, n
  <1>3. Strings!HashSetEnter(h, e) = [h EXCEPT !.buckets[b] = z, !.elem_count = n]
    BY <1>1, <1>2, Zenon
  <1>4. Strings!HashSetEnter(h, e) = WithBucket(h, b, z, n)
    BY <1>3, Zenon DEF Updated, WithBucket
  <1> QED
    BY <1>4 DEF z, n

\* The same for the index.
LEMMA EnterStat ==
    ASSUME NEW h, NEW e, NEW b, b = Stats!Place(h, e).bucket, NEW k, k = Stats!Place(h, e).index
    PROVE  Stats!HashSetEnter(h, e) = WithBucket(h, b, Entered(h.buckets[b], k, e), h.elem_count + 1)
  <1> DEFINE v == h.buckets[b]
             z == Entered(v, k, e)
             n == h.elem_count + 1
  <1>1. Stats!HashSetEnter(h, e) =
           [h EXCEPT !.buckets[b] = IF k = -1 THEN Stats!VectorAppend(h.buckets[b], e)
                                    ELSE Stats!VectorInsert(Stats!VectorDelete(h.buckets[b], k), e, k),
                     !.elem_count = n]
    BY Zenon DEF Stats!HashSetEnter
  <1>2. z = IF k = -1 THEN Stats!VectorAppend(v, e)
            ELSE Stats!VectorInsert(Stats!VectorDelete(v, k), e, k)
    <2> HIDE DEF v
    <2> QED
      BY StatVectors DEF Entered
  <1> HIDE DEF z, n
  <1>3. Stats!HashSetEnter(h, e) = [h EXCEPT !.buckets[b] = z, !.elem_count = n]
    BY <1>1, <1>2, Zenon
  <1>4. Stats!HashSetEnter(h, e) = WithBucket(h, b, z, n)
    BY <1>3, Zenon DEF Updated, WithBucket
  <1> QED
    BY <1>4 DEF z, n

\* Writing to an element of the index changes one bucket too.
LEMMA OverwriteStat ==
    ASSUME NEW h, HasBuckets(h), NEW at, NEW b, b = at.bucket, NEW k, k = at.index, NEW e
    PROVE  Stats!HashSetOverwrite(h, at, e) =
              WithBucket(h, b, [h.buckets[b] EXCEPT !.arr[k] = e], h.elem_count)
  <1> DEFINE z == [h.buckets[b] EXCEPT !.arr[k] = e]
             f == [h.buckets EXCEPT ![b] = z]
             n == h.elem_count
  <1>1. Stats!HashSetOverwrite(h, at, e) = [h EXCEPT !.buckets[b].arr[k] = e]
    BY DEF Stats!HashSetOverwrite
  <1>2. [h EXCEPT !.buckets[b].arr[k] = e] = [h EXCEPT !.buckets = f]
    OBVIOUS
  <1> HIDE DEF f
  <1>3. [h EXCEPT !.buckets = f] = [c \in DOMAIN h |-> IF c = "buckets" THEN f ELSE h[c]]
    BY Zenon
  <1>4. WithBucket(h, b, z, n) =
           [c \in DOMAIN h |-> IF c = "elem_count" THEN n ELSE IF c = "buckets" THEN f ELSE h[c]]
    BY DEF WithBucket, Updated, f
  <1>5. \A c : (IF c = "elem_count" THEN n ELSE IF c = "buckets" THEN f ELSE h[c]) =
               (IF c = "buckets" THEN f ELSE h[c])
    BY DEF n
  <1> HIDE DEF z, n
  <1>6. WithBucket(h, b, z, n) = [c \in DOMAIN h |-> IF c = "buckets" THEN f ELSE h[c]]
    BY <1>4, <1>5, Zenon
  <1> QED
    BY <1>1, <1>2, <1>3, <1>6 DEF z, n

\* Where a string is found.
LEMMA StringPlace ==
    ASSUME NEW h, HasBuckets(h), NEW s, NEW g \in Keys, g = Fold(s)
    PROVE  LET v == h.buckets[Bucket(g)]
               k == Strings!Place(h, s).index
           IN  /\ Strings!Place(h, s) = [bucket |-> Bucket(g), index |-> k]
               /\ \/ /\ k = -1
                     /\ \A i \in 0 .. (v.log_len - 1) : Fold(VectorNth(v, i)) # g
                  \/ /\ k \in 0 .. (v.log_len - 1)
                     /\ Fold(VectorNth(v, k)) = g
  <1> DEFINE v == h.buckets[Bucket(g)]
             equal == {x \in Content(v) : Fold(x) = g}
             k == Strings!Place(h, s).index
  <1>1. IsVector(v)
    BY BucketRange DEF HasBuckets
  <1>2. strings_hash(s) = Bucket(g)
    BY DEF strings_hash, Bucket
  <1>3. /\ Strings!Place(h, s) = [bucket |-> Bucket(g), index |-> k]
        /\ k = VectorSearch(v, equal, 0)
    BY <1>2, StringVectors DEF Strings!Place
  <1>4. \A i \in 0 .. (v.log_len - 1) : VectorNth(v, i) \in equal <=> Fold(VectorNth(v, i)) = g
    BY DEF Content, VectorNth
  <1> HIDE DEF equal, k, v
  <1>5. \/ /\ k = -1
           /\ \A i \in 0 .. (v.log_len - 1) : VectorNth(v, i) \notin equal
        \/ /\ k \in 0 .. (v.log_len - 1)
           /\ VectorNth(v, k) \in equal
    BY <1>1, <1>3, SearchIs
  <1> QED
    BY <1>3, <1>4, <1>5 DEF k, v

\* Where an element of the index is found.
LEMMA StatPlace ==
    ASSUME NEW h, HasBuckets(h), NEW e, NEW g \in Keys, g = Fold(e.word)
    PROVE  LET v == h.buckets[Bucket(g)]
               k == Stats!Place(h, e).index
           IN  /\ Stats!Place(h, e) = [bucket |-> Bucket(g), index |-> k]
               /\ \/ /\ k = -1
                     /\ \A i \in 0 .. (v.log_len - 1) : statistics_key(VectorNth(v, i)) # g
                  \/ /\ k \in 0 .. (v.log_len - 1)
                     /\ statistics_key(VectorNth(v, k)) = g
  <1> DEFINE v == h.buckets[Bucket(g)]
             equal == {x \in Content(v) : statistics_key(x) = g}
             k == Stats!Place(h, e).index
  <1>1. IsVector(v)
    BY BucketRange DEF HasBuckets
  <1>2. statistics_hash(e) = Bucket(g) /\ statistics_key(e) = g
    BY DEF statistics_hash, statistics_key, strings_hash, Bucket
  <1>3. /\ Stats!Place(h, e) = [bucket |-> Bucket(g), index |-> k]
        /\ k = VectorSearch(v, equal, 0)
    BY <1>2, StatVectors DEF Stats!Place
  <1>4. \A i \in 0 .. (v.log_len - 1) : VectorNth(v, i) \in equal <=> statistics_key(VectorNth(v, i)) = g
    BY DEF Content, VectorNth
  <1> HIDE DEF equal, k, v
  <1>5. \/ /\ k = -1
           /\ \A i \in 0 .. (v.log_len - 1) : VectorNth(v, i) \notin equal
        \/ /\ k \in 0 .. (v.log_len - 1)
           /\ VectorNth(v, k) \in equal
    BY <1>1, <1>3, SearchIs
  <1> QED
    BY <1>3, <1>4, <1>5 DEF k, v

\* An address is not NULL.
LEMMA NoAddress ==
    ASSUME NEW b \in 0 .. (NumBuckets - 1), NEW v, IsVector(v),
           NEW k \in 0 .. (v.log_len - 1)
    PROVE  [bucket |-> b, index |-> k] # NULL /\ k # -1
  <1>1. v.log_len \in Nat
    BY DEF IsVector
  <1>2. k \in Nat /\ k # -1
    BY <1>1
  <1>3. NULL \notin [bucket : 0 .. (NumBuckets - 1), index : Nat]
    BY NewsAssumption, Zenon
  <1>4. [bucket |-> b, index |-> k] \in [bucket : 0 .. (NumBuckets - 1), index : Nat]
    BY <1>2
  <1> QED
    BY <1>2, <1>3, <1>4

\* IsIn.
LEMMA IsInIs ==
    ASSUME NEW h, HasBuckets(h), NEW s, NEW g \in Keys, g = Fold(s)
    PROVE  IsIn(s, h) <=> \E i \in 0 .. (h.buckets[Bucket(g)].log_len - 1) :
                             Fold(VectorNth(h.buckets[Bucket(g)], i)) = g
  <1> DEFINE v == h.buckets[Bucket(g)]
             k == Strings!Place(h, s).index
  <1>1. Bucket(g) \in 0 .. (NumBuckets - 1) /\ IsVector(v)
    BY BucketRange DEF HasBuckets
  <1>2. /\ Strings!Place(h, s) = [bucket |-> Bucket(g), index |-> k]
        /\ \/ /\ k = -1
              /\ \A i \in 0 .. (v.log_len - 1) : Fold(VectorNth(v, i)) # g
           \/ /\ k \in 0 .. (v.log_len - 1)
              /\ Fold(VectorNth(v, k)) = g
    <2> HIDE DEF v, k
    <2> QED
      BY StringPlace DEF v, k
  <1>3. Strings!HashSetLookup(h, s) = IF k = -1 THEN NULL ELSE Strings!Place(h, s)
    BY DEF Strings!HashSetLookup
  <1> HIDE DEF v, k
  <1>4. k \in 0 .. (v.log_len - 1) => [bucket |-> Bucket(g), index |-> k] # NULL /\ k # -1
    BY <1>1, NoAddress
  <1>5. IsIn(s, h) <=> Strings!HashSetLookup(h, s) # NULL
    BY DEF IsIn
  <1> QED
    BY <1>2, <1>3, <1>4, <1>5 DEF v

-----------------------------------------------------------------------------
(***************************************************************************)
(* The stop words, and the articles that have been used                    *)
(***************************************************************************)
\* Some element of the set is found by g.
InSet(h, g) ==
    \E i \in 0 .. (h.buckets[Bucket(g)].log_len - 1) : Fold(VectorNth(h.buckets[Bucket(g)], i)) = g

\* The set has the keys of the first n stop words.
StopsIn(h, n) ==
    /\ HasBuckets(h)
    /\ \A g \in Keys : InSet(h, g) <=> \E j \in 1 .. n : Fold(StopWords[j]) = g

\* HashSetEnter, for a string.
LEMMA EnterIs ==
    ASSUME NEW h, HasBuckets(h), NEW s, NEW f \in Keys, f = Fold(s)
    PROVE  /\ HasBuckets(Strings!HashSetEnter(h, s))
           /\ \A g \in Keys : InSet(Strings!HashSetEnter(h, s), g) <=> InSet(h, g) \/ g = f
  <1> DEFINE b == Bucket(f)
             v == h.buckets[b]
             k == Strings!Place(h, s).index
             z == Entered(v, k, s)
             w == Strings!HashSetEnter(h, s)
             m == Where(v, k)
             n == h.elem_count + 1
  <1>1. b \in 0 .. (NumBuckets - 1) /\ IsVector(v)
    BY BucketRange DEF HasBuckets
  <1>2. /\ Strings!Place(h, s).bucket = b
        /\ \/ /\ k = -1
              /\ \A i \in 0 .. (v.log_len - 1) : Fold(VectorNth(v, i)) # f
           \/ /\ k \in 0 .. (v.log_len - 1)
              /\ Fold(VectorNth(v, k)) = f
    <2> HIDE DEF v, k
    <2> QED
      BY StringPlace DEF v, k
  <1>3. w = WithBucket(h, b, z, n)
    <2> HIDE DEF b, k
    <2> QED
      BY <1>2, EnterString DEF k
  <1> HIDE DEF b, k, v, w, n
  <1>4. PutAt(z, v, m, s)
    BY <1>1, <1>2, EnteredPuts
  <1>5. m \in 0 .. (v.log_len - 1) => Fold(VectorNth(v, m)) = f
    <2>1. CASE k = -1
      <3>1. m = v.log_len /\ v.log_len \in Nat
        BY <1>1, <2>1 DEF Where, IsVector
      <3> QED
        BY <3>1
    <2>2. CASE k # -1
      BY <1>2, <2>2 DEF Where
    <2> QED
      BY <2>1, <2>2
  <1> HIDE DEF z, m
  <1>6. /\ HasBuckets(w)
        /\ w.buckets[b] = z
        /\ \A c \in 0 .. (NumBuckets - 1) : c # b => w.buckets[c] = h.buckets[c]
    BY <1>1, <1>3, <1>4, WithBucketIs DEF PutAt
  <1>7. /\ v.log_len \in Nat /\ z.log_len \in Nat /\ v.log_len <= z.log_len
    BY <1>1, <1>4 DEF PutAt, IsVector
  <1>8. \A i \in 0 .. (v.log_len - 1) : i \in 0 .. (z.log_len - 1)
    BY <1>7
  <1>9. ASSUME NEW g \in Keys PROVE InSet(w, g) <=> InSet(h, g) \/ g = f
    <2>1. CASE Bucket(g) # b
      <3>1. w.buckets[Bucket(g)] = h.buckets[Bucket(g)] /\ g # f
        BY <1>6, <2>1, BucketRange DEF b
      <3> QED
        BY <3>1 DEF InSet
    <2>2. CASE Bucket(g) = b
      <3>1. InSet(w, g) <=> \E i \in 0 .. (z.log_len - 1) : Fold(VectorNth(z, i)) = g
        BY <1>6, <2>2 DEF InSet
      <3>2. InSet(h, g) <=> \E i \in 0 .. (v.log_len - 1) : Fold(VectorNth(v, i)) = g
        BY <2>2 DEF InSet, v
      <3>3. ASSUME NEW i \in 0 .. (z.log_len - 1), Fold(VectorNth(z, i)) = g
            PROVE  InSet(h, g) \/ g = f
        <4>1. CASE i = m
          BY <1>4, <3>3, <4>1 DEF PutAt
        <4>2. CASE i # m
          BY <1>4, <3>2, <3>3, <4>2 DEF PutAt
        <4> QED
          BY <4>1, <4>2
      <3>4. ASSUME g = f PROVE InSet(w, g)
        BY <1>4, <3>1, <3>4 DEF PutAt
      <3>5. ASSUME NEW i \in 0 .. (v.log_len - 1), Fold(VectorNth(v, i)) = g
            PROVE  InSet(w, g)
        <4>1. CASE i = m
          BY <1>5, <3>4, <3>5, <4>1
        <4>2. CASE i # m
          <5>1. i \in 0 .. (z.log_len - 1)
            BY <1>8
          <5>2. VectorNth(z, i) = VectorNth(v, i)
            BY <1>4, <4>2, <5>1 DEF PutAt
          <5> QED
            BY <3>1, <3>5, <5>1, <5>2
        <4> QED
          BY <4>1, <4>2
      <3> QED
        BY <3>1, <3>2, <3>3, <3>4, <3>5
    <2> QED
      BY <2>1, <2>2
  <1> QED
    BY <1>6, <1>9 DEF w

\* FoldLeft is a recursion over the subsets of the positions, of which it visits
\* those that lack the last ones.
FoldStep(g, h, words, s) ==
    IF s = {} THEN h ELSE Strings!HashSetEnter(g[s \ {Max(s)}], words[Max(s)])

IsFold(g, h, words, n) == g = [s \in SUBSET (1 .. n) |-> FoldStep(g, h, words, s)]

ChosenFold(h, words, n) == CHOOSE g : IsFold(g, h, words, n)

\* read_swords, in terms of it.
LEMMA SwordsDef ==
    ASSUME NEW n \in Nat, DOMAIN StopWords = 1 .. n
    PROVE  read_swords = ChosenFold(Strings!HashSetNew(NumBuckets, TRUE), StopWords, n)[1 .. n]
  BY DEF read_swords, FoldLeft, MapThenFoldSet, ChosenFold, IsFold, FoldStep

\* The greatest element of a set of numbers.
LEMMA MaxIs ==
    ASSUME NEW S \in SUBSET Int, NEW m \in S, \A x \in S : x <= m
    PROVE  Max(S) = m
  <1>1. \A x \in S : m >= x
    OBVIOUS
  <1>2. Max(S) \in S /\ \A x \in S : Max(S) >= x
    BY <1>1 DEF Max
  <1>3. Max(S) >= m /\ m >= Max(S) /\ Max(S) \in Int /\ m \in Int
    BY <1>1, <1>2
  <1> QED
    BY <1>3

\* The recursion has a solution.
LEMMA FoldExists ==
    ASSUME NEW h, NEW words, NEW n \in Nat
    PROVE  \E g : IsFold(g, h, words, n)
  <1> DEFINE S == {k \in Nat : \E g : IsFold(g, h, words, k)}
  <1>1. 0 \in S
    <2> DEFINE g == [s \in SUBSET (1 .. 0) |-> h]
    <2>1. ASSUME NEW s \in SUBSET (1 .. 0) PROVE FoldStep(g, h, words, s) = h
      <3>1. s = {}
        OBVIOUS
      <3> QED
        BY <3>1 DEF FoldStep
    <2> DEFINE u == [s \in SUBSET (1 .. 0) |-> FoldStep(g, h, words, s)]
    <2>2. g = u
      BY <2>1
    <2>3. IsFold(g, h, words, 0)
      BY <2>2 DEF IsFold
    <2> QED
      BY <2>3
  <1>2. ASSUME NEW k \in Nat, k \in S PROVE k + 1 \in S
    <2>1. PICK g : IsFold(g, h, words, k)
      BY <1>2
    <2> DEFINE m == k + 1
               w(s) == IF m \in s THEN Strings!HashSetEnter(g[s \ {m}], words[m]) ELSE g[s]
               u == [s \in SUBSET (1 .. m) |-> w(s)]
    <2>2. \A s \in SUBSET (1 .. m) : u[s] = w(s)
      OBVIOUS
    <2>3. u = [s \in SUBSET (1 .. m) |-> u[s]]
      OBVIOUS
    <2>4. \A s \in SUBSET (1 .. k) : g[s] = FoldStep(g, h, words, s)
      BY <2>1 DEF IsFold
    <2>5. \A x \in 1 .. m : x \in Int /\ x <= m /\ (x # m => x \in 1 .. k)
      OBVIOUS
    <2>6. m \in 1 .. m /\ m \notin 1 .. k
      OBVIOUS
    <2>7. 1 .. k \subseteq 1 .. m
      OBVIOUS
    <2> HIDE DEF u, m
    <2>8. ASSUME NEW s \in SUBSET (1 .. m) PROVE u[s] = FoldStep(u, h, words, s)
      <3>1. CASE m \in s
        <4>1. Max(s) = m
          <5>1. s \in SUBSET Int /\ \A x \in s : x <= m
            BY <2>5
          <5> QED
            BY <3>1, <5>1, MaxIs
        <4>2. s \ {m} \in SUBSET (1 .. k) /\ s \ {m} \in SUBSET (1 .. m) /\ m \notin s \ {m}
          BY <2>5
        <4>3. u[s \ {m}] = g[s \ {m}]
          BY <2>2, <4>2
        <4>4. u[s] = Strings!HashSetEnter(g[s \ {m}], words[m])
          BY <2>2, <3>1
        <4> QED
          BY <3>1, <4>1, <4>3, <4>4 DEF FoldStep
      <3>2. CASE m \notin s
        <4>1. s \in SUBSET (1 .. k)
          BY <2>5, <3>2
        <4>2. u[s] = FoldStep(g, h, words, s)
          BY <2>2, <2>4, <3>2, <4>1
        <4>3. u[s \ {Max(s)}] = g[s \ {Max(s)}]
          BY <2>2, <3>2
        <4> QED
          BY <4>2, <4>3 DEF FoldStep
      <3> QED
        BY <3>1, <3>2
    <2>9. IsFold(u, h, words, m)
      BY <2>3, <2>8 DEF IsFold
    <2> QED
      BY <2>9 DEF m
  <1> HIDE DEF S
  <1>3. n \in S
    BY <1>1, <1>2, NatClosed
  <1> QED
    BY <1>3 DEF S

\* read_swords: all stop words are in the set, and nothing else is.
LEMMA SwordsAre == StopsIn(read_swords, Len(StopWords))
  <1> DEFINE n == Len(StopWords)
             h == Strings!HashSetNew(NumBuckets, TRUE)
             g == ChosenFold(h, StopWords, n)
             S == {k \in Nat : k <= n => StopsIn(g[1 .. k], k)}
  <1>1. n \in Nat /\ DOMAIN StopWords = 1 .. n
    <2>1. StopWords \in Seq(STRING)
      BY NewsAssumption, Zenon
    <2> QED
      BY <2>1, LenProperties
  <1>2. \A j \in 1 .. n : Fold(StopWords[j]) \in Keys
    <2>1. \A j \in DOMAIN StopWords : Fold(StopWords[j]) \in DOMAIN Code
      BY NewsAssumption, Zenon
    <2> QED
      BY <1>1, <2>1 DEF Keys
  <1> HIDE DEF n
  <1>3. read_swords = g[1 .. n]
    BY <1>1, SwordsDef
  <1>4. IsFold(g, h, StopWords, n)
    BY <1>1, FoldExists DEF ChosenFold
  <1>5. HasBuckets(h) /\ NothingIn(h)
    BY NewSet
  <1> HIDE DEF g, h
  <1>6. \A s \in SUBSET (1 .. n) : g[s] = FoldStep(g, h, StopWords, s)
    BY <1>4 DEF IsFold
  <1>7. 0 \in S
    <2>1. 1 .. 0 = {} /\ {} \in SUBSET (1 .. n)
      OBVIOUS
    <2>2. g[1 .. 0] = h
      BY <1>6, <2>1 DEF FoldStep
    <2>3. \A b \in 0 .. (NumBuckets - 1) : 0 .. (h.buckets[b].log_len - 1) = {}
      BY <1>5 DEF NothingIn
    <2>4. \A x \in Keys : ~InSet(h, x)
      BY <2>3, BucketRange DEF InSet
    <2>5. StopsIn(h, 0)
      BY <1>5, <2>1, <2>4 DEF StopsIn
    <2> QED
      BY <2>2, <2>5
  <1>8. ASSUME NEW k \in Nat, k \in S PROVE k + 1 \in S
    <2> SUFFICES ASSUME k + 1 <= n PROVE StopsIn(g[1 .. (k + 1)], k + 1)
      OBVIOUS
    <2> DEFINE m == k + 1
               s == 1 .. m
               u == g[1 .. k]
    <2>1. StopsIn(u, k)
      BY <1>1, <1>8
    <2>2. s \in SUBSET (1 .. n) /\ s # {} /\ s \in SUBSET Int /\ m \in s /\ \A x \in s : x <= m
      <3>1. k \in Nat /\ n \in Nat /\ k + 1 <= n
        BY <1>1
      <3>2. \A x \in 1 .. (k + 1) : x \in 1 .. n /\ x \in Int /\ x <= k + 1
        BY <3>1
      <3>3. k + 1 \in 1 .. (k + 1)
        BY <3>1
      <3> QED
        BY <3>2, <3>3
    <2>3. s \ {m} = 1 .. k
      OBVIOUS
    <2>4. \A j : j \in s <=> j \in 1 .. k \/ j = m
      OBVIOUS
    <2> HIDE DEF m, s
    <2>5. Max(s) = m
      BY <2>2, MaxIs
    <2>6. g[s] = Strings!HashSetEnter(u, StopWords[m])
      BY <1>6, <2>2, <2>3, <2>5 DEF FoldStep
    <2> HIDE DEF u
    <2>7. HasBuckets(u) /\ Fold(StopWords[m]) \in Keys
      BY <1>2, <2>1, <2>2 DEF StopsIn
    <2>8. /\ HasBuckets(g[s])
          /\ \A x \in Keys : InSet(g[s], x) <=> InSet(u, x) \/ x = Fold(StopWords[m])
      BY <2>6, <2>7, EnterIs
    <2>9. \A x \in Keys : InSet(g[s], x) <=> \E j \in s : Fold(StopWords[j]) = x
      BY <2>1, <2>4, <2>8 DEF StopsIn
    <2>10. StopsIn(g[s], m)
      BY <2>8, <2>9 DEF StopsIn, s
    <2> QED
      BY <2>10 DEF m, s
  <1> HIDE DEF S
  <1>9. n \in S
    BY <1>1, <1>7, <1>8, NatClosed
  <1> QED
    BY <1>1, <1>3, <1>9 DEF S, n

-----------------------------------------------------------------------------
(***************************************************************************)
(* How often a word has been read                                          *)
(***************************************************************************)
Words == {Unescaped[token] : token \in DOMAIN Unescaped}

Articles == [title : STRING, addr : STRING, words : Seq(Words)]

\* Where the articles sc have a word that is found by g, and how often.
PlacesOf(sc, g) ==
    UNION {{i} \X {k \in DOMAIN sc[i].words : Fold(sc[i].words[k]) = g} : i \in DOMAIN sc}

CountOf(sc, g) == Cardinality(PlacesOf(sc, g))

Has(sc, g) == \E i \in DOMAIN sc : \E k \in DOMAIN sc[i].words : Fold(sc[i].words[k]) = g

\* The article of the occurrence o has such a word.
FoundIn(sc, o, g) ==
    \E i \in DOMAIN sc : /\ sc[i].title = o.title /\ sc[i].addr = o.addr
                         /\ \E k \in DOMAIN sc[i].words : Fold(sc[i].words[k]) = g

\* Where the articles that are similar to that of o have such a word, and how often.
PlacesIn(sc, o, g) ==
    UNION {{i} \X {k \in DOMAIN sc[i].words : Fold(sc[i].words[k]) = g} :
              i \in {j \in DOMAIN sc : Similar(sc[j], o)}}

CountIn(sc, o, g) == Cardinality(PlacesIn(sc, o, g))

\* What has been read after sc has only words that are found by a key in F.
More(sc, sc2, F) ==
    /\ \A g : g \notin F => CountOf(sc2, g) = CountOf(sc, g) /\ (Has(sc2, g) => Has(sc, g))
    /\ \A o, g : FoundIn(sc, o, g) => FoundIn(sc2, o, g)
    /\ \A o, g : CountIn(sc, o, g) \in Nat /\ CountIn(sc2, o, g) \in Nat /\ CountIn(sc, o, g) <= CountIn(sc2, o, g)

\* The places, one by one.
LEMMA PlacesAre ==
    ASSUME NEW sc, NEW g, NEW p
    PROVE  p \in PlacesOf(sc, g) <=>
              \E i \in DOMAIN sc : \E k \in DOMAIN sc[i].words :
                 Fold(sc[i].words[k]) = g /\ p = <<i, k>>
  BY DEF PlacesOf

\* An article in the sequence.
LEMMA ArticleIs ==
    ASSUME NEW sc \in Seq(Articles), NEW i \in DOMAIN sc
    PROVE  /\ sc[i] = [title |-> sc[i].title, addr |-> sc[i].addr, words |-> sc[i].words]
           /\ sc[i] \in Articles
           /\ sc[i].words \in Seq(Words)
           /\ Len(sc[i].words) \in Nat
           /\ DOMAIN sc[i].words = 1 .. Len(sc[i].words)
  <1>1. sc[i] \in Articles
    BY ElementOfSeq, LenProperties
  <1>2. /\ sc[i] = [title |-> sc[i].title, addr |-> sc[i].addr, words |-> sc[i].words]
        /\ sc[i].words \in Seq(Words)
    BY <1>1 DEF Articles
  <1> QED
    BY <1>1, <1>2, LenProperties

\* There are finitely many places.
LEMMA PlacesFinite ==
    ASSUME NEW sc \in Seq(Articles), NEW g
    PROVE  /\ IsFiniteSet(PlacesOf(sc, g))
           /\ CountOf(sc, g) \in Nat
           /\ CountOf(sc, g) = 0 <=> ~Has(sc, g)
  <1> DEFINE n == Len(sc)
             K(i) == {k \in DOMAIN sc[i].words : Fold(sc[i].words[k]) = g}
             Q(i) == {i} \X K(i)
             R == {Q(i) : i \in 1 .. n}
             f == [i \in 1 .. n |-> Q(i)]
  <1>1. n \in Nat /\ DOMAIN sc = 1 .. n
    BY LenProperties
  <1>2. ASSUME NEW i \in 1 .. n PROVE IsFiniteSet(Q(i))
    <2>1. i \in DOMAIN sc
      BY <1>1
    <2>2. DOMAIN sc[i].words = 1 .. Len(sc[i].words) /\ Len(sc[i].words) \in Nat
      BY <2>1, ArticleIs
    <2>3. IsFiniteSet(DOMAIN sc[i].words)
      <3>1. \A m \in Nat : IsFiniteSet(1 .. m)
        BY FS_Interval
      <3> QED
        BY <2>2, <3>1
    <2>4. K(i) \subseteq DOMAIN sc[i].words
      OBVIOUS
    <2> HIDE DEF K
    <2>5. IsFiniteSet(K(i))
      BY <2>3, <2>4, FS_Subset
    <2>6. IsFiniteSet({i})
      BY FS_Singleton
    <2> QED
      BY <2>5, <2>6, FS_Product
  <1>3. PlacesOf(sc, g) = UNION R
    BY <1>1 DEF PlacesOf
  <1> HIDE DEF n, Q
  <1>4. IsFiniteSet(R)
    <2>1. f \in Surjection(1 .. n, R)
      BY DEF Surjection
    <2>2. IsFiniteSet(1 .. n)
      BY <1>1, FS_Interval
    <2> HIDE DEF f, R
    <2> QED
      BY <2>1, <2>2, FS_Surjection
  <1>5. \A s \in R : IsFiniteSet(s)
    BY <1>2
  <1> HIDE DEF R
  <1>6. IsFiniteSet(PlacesOf(sc, g))
    BY <1>3, <1>4, <1>5, FS_UNION
  <1>7. PlacesOf(sc, g) = {} <=> ~Has(sc, g)
    <2>1. ASSUME NEW q \in PlacesOf(sc, g) PROVE Has(sc, g)
      BY PlacesAre DEF Has
    <2>2. ASSUME Has(sc, g) PROVE PlacesOf(sc, g) # {}
      <3>1. PICK i \in DOMAIN sc : \E k \in DOMAIN sc[i].words : Fold(sc[i].words[k]) = g
        BY <2>2 DEF Has
      <3>2. PICK k \in DOMAIN sc[i].words : Fold(sc[i].words[k]) = g
        BY <3>1
      <3>3. <<i, k>> \in PlacesOf(sc, g)
        BY <3>2, PlacesAre
      <3> QED
        BY <3>3
    <2> QED
      BY <2>1, <2>2
  <1>8. CountOf(sc, g) \in Nat /\ (CountOf(sc, g) = 0 <=> PlacesOf(sc, g) = {})
    BY <1>6, FS_CardinalityType, FS_EmptySet DEF CountOf
  <1> QED
    BY <1>6, <1>7, <1>8

\* The places in the similar articles, one by one.
LEMMA PlacesInAre ==
    ASSUME NEW sc, NEW o, NEW g, NEW p
    PROVE  p \in PlacesIn(sc, o, g) <=>
              \E i \in DOMAIN sc : \E k \in DOMAIN sc[i].words :
                 Similar(sc[i], o) /\ Fold(sc[i].words[k]) = g /\ p = <<i, k>>
  BY DEF PlacesIn

\* They are some of all places; an article that has the word has one at least.
LEMMA PlacesInFinite ==
    ASSUME NEW sc \in Seq(Articles), NEW o, NEW g
    PROVE  /\ IsFiniteSet(PlacesIn(sc, o, g))
           /\ CountIn(sc, o, g) \in Nat
           /\ FoundIn(sc, o, g) => CountIn(sc, o, g) >= 1
  <1> DEFINE P == PlacesIn(sc, o, g)
  <1>1. P \subseteq PlacesOf(sc, g)
    <2> SUFFICES ASSUME NEW p \in P PROVE p \in PlacesOf(sc, g)
      OBVIOUS
    <2>1. PICK i \in DOMAIN sc : \E k \in DOMAIN sc[i].words :
                                    Fold(sc[i].words[k]) = g /\ p = <<i, k>>
      BY PlacesInAre
    <2> QED
      BY <2>1, PlacesAre
  <1>2. FoundIn(sc, o, g) => P # {}
    <2> SUFFICES ASSUME FoundIn(sc, o, g) PROVE P # {}
      OBVIOUS
    <2>1. PICK i \in DOMAIN sc : /\ sc[i].title = o.title /\ sc[i].addr = o.addr
                                 /\ \E k \in DOMAIN sc[i].words : Fold(sc[i].words[k]) = g
      BY DEF FoundIn
    <2>2. PICK k \in DOMAIN sc[i].words : Fold(sc[i].words[k]) = g
      BY <2>1
    <2>3. Similar(sc[i], o)
      BY <2>1 DEF Similar
    <2>4. <<i, k>> \in P
      BY <2>2, <2>3, PlacesInAre
    <2> QED
      BY <2>4
  <1>3. IsFiniteSet(PlacesOf(sc, g)) /\ CountIn(sc, o, g) = Cardinality(P)
    BY PlacesFinite DEF CountIn
  <1> HIDE DEF P
  <1>4. IsFiniteSet(P)
    BY <1>1, <1>3, FS_Subset
  <1>5. Cardinality(P) \in Nat /\ (Cardinality(P) = 0 <=> P = {})
    BY <1>4, FS_CardinalityType, FS_EmptySet
  <1> QED
    BY <1>2, <1>3, <1>4, <1>5 DEF P

\* a is the last article.
LastIs(sc, a) ==
    /\ Len(sc) # 0
    /\ sc[Len(sc)].title = a.title
    /\ sc[Len(sc)].addr = a.addr

\* Places that are the same but for some of the keys in F.
LEMMA MoreIs ==
    ASSUME NEW sc \in Seq(Articles), NEW sc2 \in Seq(Articles), NEW F,
           \A g : g \notin F => \A p : p \in PlacesOf(sc2, g) <=> p \in PlacesOf(sc, g),
           DOMAIN sc \subseteq DOMAIN sc2,
           \A i \in DOMAIN sc : /\ sc2[i].title = sc[i].title /\ sc2[i].addr = sc[i].addr
                                /\ DOMAIN sc[i].words \subseteq DOMAIN sc2[i].words
                                /\ \A k \in DOMAIN sc[i].words : sc2[i].words[k] = sc[i].words[k]
    PROVE  More(sc, sc2, F)
  <1>1. ASSUME NEW g, g \notin F
        PROVE  CountOf(sc2, g) = CountOf(sc, g) /\ (Has(sc2, g) => Has(sc, g))
    <2>1. \A p : p \in PlacesOf(sc2, g) <=> p \in PlacesOf(sc, g)
      BY <1>1
    <2>2. PlacesOf(sc2, g) = PlacesOf(sc, g)
      BY <2>1
    <2>3. ASSUME Has(sc2, g) PROVE Has(sc, g)
      <3>1. PICK i \in DOMAIN sc2 : \E k \in DOMAIN sc2[i].words : Fold(sc2[i].words[k]) = g
        BY <2>3 DEF Has
      <3>2. PICK k \in DOMAIN sc2[i].words : Fold(sc2[i].words[k]) = g
        BY <3>1
      <3>3. <<i, k>> \in PlacesOf(sc2, g)
        BY <3>2, PlacesAre
      <3>4. <<i, k>> \in PlacesOf(sc, g)
        BY <2>1, <3>3
      <3> QED
        BY <3>4, PlacesAre DEF Has
    <2> QED
      BY <2>2, <2>3 DEF CountOf
  <1>2. ASSUME NEW o, NEW g, FoundIn(sc, o, g) PROVE FoundIn(sc2, o, g)
    <2>1. PICK i \in DOMAIN sc : /\ sc[i].title = o.title /\ sc[i].addr = o.addr
                                 /\ \E k \in DOMAIN sc[i].words : Fold(sc[i].words[k]) = g
      BY <1>2 DEF FoundIn
    <2>2. PICK k \in DOMAIN sc[i].words : Fold(sc[i].words[k]) = g
      BY <2>1
    <2>3. i \in DOMAIN sc2 /\ k \in DOMAIN sc2[i].words /\ Fold(sc2[i].words[k]) = g
      BY <2>2
    <2>4. sc2[i].title = o.title /\ sc2[i].addr = o.addr
      BY <2>1
    <2> QED
      BY <2>3, <2>4 DEF FoundIn
  <1>3. ASSUME NEW o, NEW g
        PROVE  /\ CountIn(sc, o, g) \in Nat /\ CountIn(sc2, o, g) \in Nat
               /\ CountIn(sc, o, g) <= CountIn(sc2, o, g)
    <2> DEFINE P == PlacesIn(sc, o, g)
               P2 == PlacesIn(sc2, o, g)
    <2>1. ASSUME NEW p \in P PROVE p \in P2
      <3>1. PICK i \in DOMAIN sc : \E k \in DOMAIN sc[i].words :
                                      Similar(sc[i], o) /\ Fold(sc[i].words[k]) = g /\ p = <<i, k>>
        BY <2>1, PlacesInAre
      <3>2. PICK k \in DOMAIN sc[i].words : Similar(sc[i], o) /\ Fold(sc[i].words[k]) = g /\ p = <<i, k>>
        BY <3>1
      <3>3. i \in DOMAIN sc2 /\ k \in DOMAIN sc2[i].words /\ Fold(sc2[i].words[k]) = g
        BY <3>2
      <3>4. Similar(sc2[i], o)
        BY <3>2 DEF Similar
      <3> QED
        BY <3>2, <3>3, <3>4, PlacesInAre
    <2>2. /\ IsFiniteSet(P2) /\ CountIn(sc, o, g) \in Nat /\ CountIn(sc2, o, g) \in Nat
          /\ CountIn(sc, o, g) = Cardinality(P) /\ CountIn(sc2, o, g) = Cardinality(P2)
      BY PlacesInFinite DEF CountIn
    <2> HIDE DEF P, P2
    <2>3. P \subseteq P2
      BY <2>1
    <2>4. Cardinality(P) <= Cardinality(P2)
      BY <2>2, <2>3, FS_Subset
    <2> QED
      BY <2>2, <2>4
  <1> QED
    BY <1>1, <1>2, <1>3 DEF More

\* A new article has no words yet.
LEMMA NewArticle ==
    ASSUME NEW sc \in Seq(Articles), NEW a \in Articles, a.words = <<>>
    PROVE  /\ Append(sc, a) \in Seq(Articles)
           /\ LastIs(Append(sc, a), a)
           /\ More(sc, Append(sc, a), {})
  <1> DEFINE n == Len(sc)
             sc2 == Append(sc, a)
  <1>1. n \in Nat /\ DOMAIN sc = 1 .. n
    BY LenProperties
  <1>2. /\ sc2 \in Seq(Articles) /\ Len(sc2) = n + 1 /\ DOMAIN sc2 = 1 .. (n + 1)
        /\ \A i \in 1 .. n : sc2[i] = sc[i]
        /\ sc2[n + 1] = a
    BY AppendProperties
  <1>3. DOMAIN sc2[n + 1].words = {}
    BY <1>2
  <1> HIDE DEF n, sc2
  <1>4. \A i \in DOMAIN sc2 : i = n + 1 \/ i \in DOMAIN sc
    BY <1>1, <1>2
  <1>5. DOMAIN sc \subseteq DOMAIN sc2 /\ \A i \in DOMAIN sc : sc2[i] = sc[i]
    BY <1>1, <1>2
  <1>6. ASSUME NEW g, NEW p PROVE p \in PlacesOf(sc2, g) <=> p \in PlacesOf(sc, g)
    <2>1. ASSUME p \in PlacesOf(sc2, g) PROVE p \in PlacesOf(sc, g)
      <3>1. PICK i \in DOMAIN sc2 : \E k \in DOMAIN sc2[i].words : Fold(sc2[i].words[k]) = g /\ p = <<i, k>>
        BY <2>1, PlacesAre
      <3>2. i \in DOMAIN sc /\ sc2[i] = sc[i]
        BY <1>3, <1>4, <1>5, <3>1
      <3> QED
        BY <3>1, <3>2, PlacesAre
    <2>2. ASSUME p \in PlacesOf(sc, g) PROVE p \in PlacesOf(sc2, g)
      <3>1. PICK i \in DOMAIN sc : \E k \in DOMAIN sc[i].words : Fold(sc[i].words[k]) = g /\ p = <<i, k>>
        BY <2>2, PlacesAre
      <3>2. i \in DOMAIN sc2 /\ sc2[i] = sc[i]
        BY <1>5
      <3> QED
        BY <3>1, <3>2, PlacesAre
    <2> QED
      BY <2>1, <2>2
  <1>7. More(sc, sc2, {})
    BY <1>2, <1>5, <1>6, MoreIs
  <1>8. LastIs(sc2, a)
    BY <1>1, <1>2 DEF LastIs
  <1> QED
    BY <1>2, <1>7, <1>8 DEF sc2

\* The articles after the word x has been read.
ReadOn(sc, x) == [sc EXCEPT ![Len(sc)].words = Append(@, x)]

\* Reading x adds one place to those of its key and none to those of any other.
LEMMA ReadWord ==
    ASSUME NEW sc \in Seq(Articles), Len(sc) # 0, NEW x \in Words, NEW f, f = Fold(x)
    PROVE  /\ ReadOn(sc, x) \in Seq(Articles)
           /\ \A a : LastIs(sc, a) => LastIs(ReadOn(sc, x), a) /\ FoundIn(ReadOn(sc, x), a, f)
           /\ More(sc, ReadOn(sc, x), {f})
           /\ CountOf(ReadOn(sc, x), f) = CountOf(sc, f) + 1
           /\ \A a, o : LastIs(sc, a) /\ Similar(a, o) =>
                 CountIn(ReadOn(sc, x), o, f) >= CountIn(sc, o, f) + 1
  <1> DEFINE n == Len(sc)
             old == sc[n]
             ws == old.words
             ws2 == Append(ws, x)
             m == Len(ws)
             new == [title |-> old.title, addr |-> old.addr, words |-> ws2]
             sc2 == ReadOn(sc, x)
  <1>1. n \in Nat /\ n \in 1 .. n /\ DOMAIN sc = 1 .. n /\ n \in DOMAIN sc
    BY LenProperties
  <1>2. /\ old = [title |-> old.title, addr |-> old.addr, words |-> ws]
        /\ old \in Articles /\ ws \in Seq(Words)
        /\ m \in Nat /\ DOMAIN ws = 1 .. m
    BY <1>1, ArticleIs
  <1>3. /\ ws2 \in Seq(Words) /\ Len(ws2) = m + 1 /\ DOMAIN ws2 = 1 .. (m + 1)
        /\ \A k \in 1 .. m : ws2[k] = ws[k]
        /\ ws2[m + 1] = x
    BY <1>2, AppendProperties
  <1> HIDE DEF ws2
  <1>4. /\ old.title \in STRING /\ old.addr \in STRING
        /\ [old EXCEPT !.words = ws2] = new
        /\ new \in Articles
    <2>1. old.title \in STRING /\ old.addr \in STRING
      BY <1>2 DEF Articles
    <2>2. new \in Articles
      BY <1>3, <2>1 DEF Articles
    <2>3. [old EXCEPT !.words = ws2] = new
      BY <1>2
    <2> QED
      BY <2>1, <2>2, <2>3
  <1>5. sc2 = [sc EXCEPT ![n] = new]
    <2>1. sc2 = [sc EXCEPT ![n] = [old EXCEPT !.words = ws2]]
      BY Zenon DEF ReadOn, ws2
    <2> HIDE DEF sc2, old, new, n
    <2> QED
      BY <1>4, <2>1
  <1>6. /\ new.title = old.title /\ new.addr = old.addr /\ new.words = ws2
    OBVIOUS
  <1> HIDE DEF new, sc2, n, m, ws
  <1>7. /\ sc2 \in Seq(Articles) /\ Len(sc2) = n /\ DOMAIN sc2 = 1 .. n
        /\ sc2[n] = new
        /\ \A i \in 1 .. n : i # n => sc2[i] = sc[i]
    <2>1. Len(sc) = n
      BY DEF n
    <2>2. /\ sc2 \in Seq(Articles) /\ Len(sc2) = Len(sc)
      BY <1>1, <1>4, <1>5, <2>1, ExceptSeq
    <2>3. DOMAIN sc2 = 1 .. n
      BY <2>1, <2>2, LenProperties
    <2>4. sc2[n] = new /\ \A i \in 1 .. n : i # n => sc2[i] = sc[i]
      BY <1>1, <1>5
    <2> QED
      BY <2>1, <2>2, <2>3, <2>4
  <1>8. sc[n] = old /\ old.words = ws
    BY DEF n, ws
  <1> HIDE DEF old
  <1>9. ASSUME NEW g, NEW p
        PROVE  p \in PlacesOf(sc2, g) <=> p \in PlacesOf(sc, g) \/ (g = f /\ p = <<n, m + 1>>)
    <2>1. ASSUME p \in PlacesOf(sc2, g)
          PROVE  p \in PlacesOf(sc, g) \/ (g = f /\ p = <<n, m + 1>>)
      <3>1. PICK i \in DOMAIN sc2 : \E k \in DOMAIN sc2[i].words : Fold(sc2[i].words[k]) = g /\ p = <<i, k>>
        BY <2>1, PlacesAre
      <3>2. PICK k \in DOMAIN sc2[i].words : Fold(sc2[i].words[k]) = g /\ p = <<i, k>>
        BY <3>1
      <3>3. CASE i # n
        <4>1. i \in DOMAIN sc /\ sc2[i] = sc[i]
          BY <1>1, <1>7, <3>3
        <4> QED
          BY <3>2, <4>1, PlacesAre
      <3>4. CASE i = n /\ k = m + 1
        <4>1. sc2[i].words[k] = x
          BY <1>3, <1>6, <1>7, <3>4
        <4> QED
          BY <3>2, <3>4, <4>1
      <3>5. CASE i = n /\ k # m + 1
        <4>1. k \in 1 .. (m + 1)
          BY <1>3, <1>6, <1>7, <3>2, <3>5
        <4>2. k \in 1 .. m
          BY <1>2, <3>5, <4>1
        <4>3. k \in DOMAIN sc[n].words /\ sc[n].words[k] = sc2[i].words[k] /\ n \in DOMAIN sc
          BY <1>1, <1>2, <1>3, <1>6, <1>7, <1>8, <3>5, <4>2
        <4> QED
          BY <3>2, <3>5, <4>3, PlacesAre
      <3> QED
        BY <3>3, <3>4, <3>5
    <2>2. ASSUME p \in PlacesOf(sc, g) PROVE p \in PlacesOf(sc2, g)
      <3>1. PICK i \in DOMAIN sc : \E k \in DOMAIN sc[i].words : Fold(sc[i].words[k]) = g /\ p = <<i, k>>
        BY <2>2, PlacesAre
      <3>2. PICK k \in DOMAIN sc[i].words : Fold(sc[i].words[k]) = g /\ p = <<i, k>>
        BY <3>1
      <3>3. i \in DOMAIN sc2
        BY <1>1, <1>7
      <3>4. CASE i # n
        <4>1. sc2[i] = sc[i]
          BY <1>1, <1>7, <3>4
        <4> QED
          BY <3>2, <3>3, <4>1, PlacesAre
      <3>5. CASE i = n
        <4>1. k \in 1 .. m
          BY <1>2, <1>8, <3>2, <3>5
        <4>2. k \in 1 .. (m + 1)
          BY <1>2, <4>1
        <4>3. k \in DOMAIN sc2[i].words /\ sc2[i].words[k] = sc[i].words[k]
          BY <1>3, <1>6, <1>7, <1>8, <3>5, <4>1, <4>2
        <4> QED
          BY <3>2, <3>3, <4>3, PlacesAre
      <3> QED
        BY <3>4, <3>5
    <2>3. ASSUME g = f, p = <<n, m + 1>> PROVE p \in PlacesOf(sc2, g)
      <3>1. n \in DOMAIN sc2 /\ m + 1 \in DOMAIN sc2[n].words /\ sc2[n].words[m + 1] = x
        <4>1. m + 1 \in 1 .. (m + 1)
          BY <1>2
        <4> QED
          BY <1>1, <1>3, <1>6, <1>7, <4>1
      <3> QED
        BY <2>3, <3>1, PlacesAre
    <2> QED
      BY <2>1, <2>2, <2>3
  <1>10. <<n, m + 1>> \notin PlacesOf(sc, f)
    <2> SUFFICES ASSUME <<n, m + 1>> \in PlacesOf(sc, f) PROVE FALSE
      OBVIOUS
    <2>1. PICK i \in DOMAIN sc : \E k \in DOMAIN sc[i].words :
                                    Fold(sc[i].words[k]) = f /\ <<n, m + 1>> = <<i, k>>
      BY PlacesAre
    <2>2. i = n /\ m + 1 \in DOMAIN sc[i].words
      BY <2>1
    <2>3. m + 1 \in 1 .. m
      BY <1>2, <1>8, <2>2
    <2> QED
      BY <1>2, <2>3
  <1>11. CountOf(sc2, f) = CountOf(sc, f) + 1
    <2> DEFINE q == <<n, m + 1>>
               P == PlacesOf(sc, f)
               P2 == PlacesOf(sc2, f)
    <2>1. \A p : p \in P2 <=> p \in P \/ p = q
      BY <1>9
    <2>2. q \notin P
      BY <1>10
    <2>3. IsFiniteSet(P)
      BY PlacesFinite
    <2>4. CountOf(sc2, f) = Cardinality(P2) /\ CountOf(sc, f) = Cardinality(P)
      BY DEF CountOf
    <2> HIDE DEF q, P, P2
    <2>5. P2 = P \cup {q}
      BY <2>1
    <2>6. Cardinality(P \cup {q}) = Cardinality(P) + 1
      BY <2>2, <2>3, FS_AddElement
    <2> QED
      BY <2>4, <2>5, <2>6
  <1>12. More(sc, sc2, {f})
    <2>1. \A g : g \notin {f} => \A p : p \in PlacesOf(sc2, g) <=> p \in PlacesOf(sc, g)
      BY <1>9
    <2>2. ASSUME NEW i \in DOMAIN sc
          PROVE  /\ sc2[i].title = sc[i].title /\ sc2[i].addr = sc[i].addr
                 /\ DOMAIN sc[i].words \subseteq DOMAIN sc2[i].words
                 /\ \A k \in DOMAIN sc[i].words : sc2[i].words[k] = sc[i].words[k]
      <3>1. CASE i # n
        <4>1. sc2[i] = sc[i]
          BY <1>1, <1>7, <3>1
        <4> QED
          BY <4>1
      <3>2. CASE i = n
        <4>1. 1 .. m \subseteq 1 .. (m + 1)
          BY <1>2
        <4>2. sc2[i] = new /\ sc[i] = old
          BY <1>7, <1>8, <3>2
        <4>3. DOMAIN new.words = 1 .. (m + 1) /\ DOMAIN old.words = 1 .. m
          BY <1>2, <1>3, <1>6, <1>8
        <4>4. \A k \in 1 .. m : new.words[k] = old.words[k]
          BY <1>3, <1>6, <1>8
        <4> QED
          BY <1>6, <4>1, <4>2, <4>3, <4>4
      <3> QED
        BY <3>1, <3>2
    <2>3. DOMAIN sc \subseteq DOMAIN sc2
      BY <1>1, <1>7
    <2> QED
      BY <1>7, <2>1, <2>2, <2>3, MoreIs
  <1>13. ASSUME NEW a, LastIs(sc, a) PROVE LastIs(sc2, a) /\ FoundIn(sc2, a, f)
    <2>1. old.title = a.title /\ old.addr = a.addr /\ n # 0
      BY <1>8, <1>13 DEF LastIs, n
    <2>2. sc2[n].title = a.title /\ sc2[n].addr = a.addr
      BY <1>6, <1>7, <2>1
    <2>3. m + 1 \in DOMAIN sc2[n].words /\ Fold(sc2[n].words[m + 1]) = f
      <3>1. m + 1 \in 1 .. (m + 1)
        BY <1>2
      <3> QED
        BY <1>3, <1>6, <1>7, <3>1
    <2>4. FoundIn(sc2, a, f)
      BY <1>1, <1>7, <2>2, <2>3 DEF FoundIn
    <2>5. LastIs(sc2, a)
      BY <1>7, <2>1, <2>2 DEF LastIs
    <2> QED
      BY <2>4, <2>5
  <1>14. ASSUME NEW a, NEW o, LastIs(sc, a), Similar(a, o)
         PROVE  CountIn(sc2, o, f) >= CountIn(sc, o, f) + 1
    <2> DEFINE q == <<n, m + 1>>
               P == PlacesIn(sc, o, f)
               P2 == PlacesIn(sc2, o, f)
    <2>1. /\ IsFiniteSet(P) /\ IsFiniteSet(P2)
          /\ CountIn(sc2, o, f) = Cardinality(P2) /\ CountIn(sc, o, f) = Cardinality(P)
      BY <1>7, PlacesInFinite DEF CountIn
    <2>2. q \notin P
      <3>1. \A p \in P : p \in PlacesOf(sc, f)
        BY PlacesInAre, PlacesAre
      <3> QED
        BY <1>10, <3>1
    <2>3. q \in P2
      <3>1. old.title = a.title /\ old.addr = a.addr
        BY <1>8, <1>14 DEF LastIs, n
      <3>2. Similar(sc2[n], o)
        BY <1>6, <1>7, <1>14, <3>1 DEF Similar
      <3>3. m + 1 \in 1 .. (m + 1)
        BY <1>2
      <3>4. n \in DOMAIN sc2 /\ m + 1 \in DOMAIN sc2[n].words /\ Fold(sc2[n].words[m + 1]) = f
        BY <1>1, <1>3, <1>6, <1>7, <3>3
      <3> QED
        BY <3>2, <3>4, PlacesInAre
    <2>4. ASSUME NEW p \in P PROVE p \in P2
      <3>1. PICK i \in DOMAIN sc : \E k \in DOMAIN sc[i].words :
                                      Similar(sc[i], o) /\ Fold(sc[i].words[k]) = f /\ p = <<i, k>>
        BY <2>4, PlacesInAre
      <3>2. PICK k \in DOMAIN sc[i].words : Similar(sc[i], o) /\ Fold(sc[i].words[k]) = f /\ p = <<i, k>>
        BY <3>1
      <3>3. i \in DOMAIN sc2
        BY <1>1, <1>7
      <3>4. CASE i # n
        <4>1. sc2[i] = sc[i]
          BY <1>1, <1>7, <3>4
        <4> QED
          BY <3>2, <3>3, <4>1, PlacesInAre
      <3>5. CASE i = n
        <4>1. k \in 1 .. m
          BY <1>2, <1>8, <3>2, <3>5
        <4>2. k \in 1 .. (m + 1)
          BY <1>2, <4>1
        <4>3. k \in DOMAIN sc2[i].words /\ sc2[i].words[k] = sc[i].words[k]
          BY <1>3, <1>6, <1>7, <1>8, <3>5, <4>1, <4>2
        <4>4. Similar(sc2[i], o)
          BY <1>6, <1>7, <1>8, <3>2, <3>5 DEF Similar
        <4> QED
          BY <3>2, <3>3, <4>3, <4>4, PlacesInAre
      <3> QED
        BY <3>4, <3>5
    <2> HIDE DEF q, P, P2
    <2>5. P \cup {q} \subseteq P2
      BY <2>3, <2>4
    <2>6. Cardinality(P \cup {q}) = Cardinality(P) + 1
      BY <2>1, <2>2, FS_AddElement
    <2>7. Cardinality(P \cup {q}) <= Cardinality(P2)
      BY <2>1, <2>5, FS_Subset
    <2>8. Cardinality(P2) \in Nat /\ Cardinality(P) \in Nat
      BY <2>1, FS_CardinalityType
    <2> QED
      BY <2>1, <2>6, <2>7, <2>8
  <1> QED
    BY <1>7, <1>11, <1>12, <1>13, <1>14 DEF sc2

-----------------------------------------------------------------------------
(***************************************************************************)
(* The articles that the index keeps for a word                            *)
(***************************************************************************)
Occs == [occ_count : Nat \ {0}, title : STRING, addr : STRING]

Total(S) == SumFunctionOnSet([occ \in S |-> occ.occ_count], S)

\* What a vector holds.
LEMMA ContentIs ==
    ASSUME NEW v
    PROVE  \A e : e \in Content(v) <=> \E i \in 0 .. (v.log_len - 1) : e = VectorNth(v, i)
  BY DEF Content, VectorNth

\* A vector holds finitely many elements.
LEMMA ContentFinite ==
    ASSUME NEW v, IsVector(v)
    PROVE  IsFiniteSet(Content(v))
  <1> DEFINE D == 0 .. (v.log_len - 1)
             f == [i \in D |-> VectorNth(v, i)]
  <1>1. v.log_len \in Nat
    BY DEF IsVector
  <1>2. IsFiniteSet(D)
    <2>1. v.log_len - 1 \in Int
      BY <1>1
    <2> QED
      BY <2>1, FS_Interval
  <1>3. f \in Surjection(D, Content(v))
    BY ContentIs DEF Surjection
  <1> HIDE DEF f, D
  <1> QED
    BY <1>2, <1>3, FS_Surjection

\* One more article.
LEMMA TotalAdd ==
    ASSUME NEW S, IsFiniteSet(S), S \subseteq Occs, NEW o \in Occs, o \notin S
    PROVE  /\ Total(S) \in Int
           /\ Total(S \cup {o}) = Total(S) + o.occ_count
  <1> DEFINE T == S \cup {o}
             f == [occ \in T |-> occ.occ_count]
             g == [occ \in S |-> occ.occ_count]
  <1>1. IsFiniteSet(T) /\ o \in T /\ T \ {o} = S
    BY FS_AddElement
  <1>2. \A x \in T : f[x] \in Int
    BY DEF Occs
  <1>3. \A x \in S : f[x] = g[x] /\ g[x] \in Int
    BY DEF Occs
  <1>4. f[o] = o.occ_count
    OBVIOUS
  <1>5. Total(T) = SumFunctionOnSet(f, T) /\ Total(S) = SumFunctionOnSet(g, S)
    BY DEF Total
  <1> HIDE DEF T, f, g
  <1>6. SumFunctionOnSet(f, T) = f[o] + SumFunctionOnSet(f, S)
    BY <1>1, <1>2, SumTake
  <1>7. SumFunctionOnSet(f, S) = SumFunctionOnSet(g, S)
    BY <1>3, SumSame
  <1>8. Total(S) \in Int
    BY <1>3, <1>5, SumType
  <1>9. o.occ_count \in Int
    BY DEF Occs
  <1> QED
    BY <1>4, <1>5, <1>6, <1>7, <1>8, <1>9 DEF T

\* No article.
LEMMA TotalEmpty == Total({}) = 0
  <1>1. IsFiniteSet({})
    BY FS_EmptySet
  <1> QED
    BY <1>1, SumPick DEF Total

\* No two articles that are taken for the same, all of sc and with the word.
Different(v) == \A i, j \in 0 .. (v.log_len - 1) : i # j => ~Similar(VectorNth(v, i), VectorNth(v, j))

AllFound(v, g, sc) == \A i \in 0 .. (v.log_len - 1) : FoundIn(sc, VectorNth(v, i), g)

\* No article has a count that the articles similar to it do not account for.
AllCounted(v, g, sc) ==
    \A i \in 0 .. (v.log_len - 1) : VectorNth(v, i).occ_count <= CountIn(sc, VectorNth(v, i), g)

\* The vector of a word that is found by g.
OccVec(v, g, sc) ==
    /\ IsVector(v)
    /\ v.log_len # 0
    /\ AllIn(v, Occs)
    /\ Different(v)
    /\ AllFound(v, g, sc)
    /\ AllCounted(v, g, sc)
    /\ Total(Content(v)) = CountOf(sc, g)

\* Counts stay accounted for while more is read.
LEMMA CountedMore ==
    ASSUME NEW v, NEW g, NEW sc, NEW sc2, NEW F, AllIn(v, Occs), AllCounted(v, g, sc), More(sc, sc2, F)
    PROVE  AllCounted(v, g, sc2)
  <1> SUFFICES ASSUME NEW i \in 0 .. (v.log_len - 1)
               PROVE  VectorNth(v, i).occ_count <= CountIn(sc2, VectorNth(v, i), g)
    BY DEF AllCounted
  <1> DEFINE o == VectorNth(v, i)
  <1>1. o.occ_count <= CountIn(sc, o, g)
    BY DEF AllCounted
  <1>2. o \in Occs
    BY DEF AllIn
  <1> HIDE DEF o
  <1>3. /\ CountIn(sc, o, g) \in Nat /\ CountIn(sc2, o, g) \in Nat
        /\ CountIn(sc, o, g) <= CountIn(sc2, o, g)
    BY DEF More
  <1>4. o.occ_count \in Nat
    BY <1>2 DEF Occs
  <1>5. o.occ_count <= CountIn(sc2, o, g)
    BY <1>1, <1>3, <1>4
  <1> QED
    BY <1>5 DEF o

\* Other words do not matter.
LEMMA OccVecMore ==
    ASSUME NEW v, NEW g, NEW sc, NEW sc2, NEW F, OccVec(v, g, sc), More(sc, sc2, F), g \notin F
    PROVE  OccVec(v, g, sc2)
  <1>1. CountOf(sc2, g) = CountOf(sc, g)
    BY DEF More
  <1>2. AllFound(v, g, sc2)
    BY DEF More, OccVec, AllFound
  <1>3. AllCounted(v, g, sc2)
    BY CountedMore DEF OccVec
  <1> QED
    BY <1>1, <1>2, <1>3 DEF OccVec

\* Articles are similar to themselves, and counts do not matter.
LEMMA SimilarIs ==
    ASSUME NEW x, NEW y, NEW z, z.title = y.title, z.addr = y.addr
    PROVE  /\ Similar(x, x)
           /\ Similar(x, z) <=> Similar(x, y)
           /\ Similar(x, y) <=> Similar(y, x)
           /\ \A sc, g : FoundIn(sc, z, g) <=> FoundIn(sc, y, g)
           /\ \A sc, g : CountIn(sc, z, g) = CountIn(sc, y, g)
  <1>1. /\ Similar(x, x)
        /\ \A w : Similar(w, z) <=> Similar(w, y)
        /\ Similar(x, y) <=> Similar(y, x)
        /\ \A sc, g : FoundIn(sc, z, g) <=> FoundIn(sc, y, g)
    BY DEF Similar, FoundIn
  <1>2. ASSUME NEW sc, NEW g PROVE CountIn(sc, z, g) = CountIn(sc, y, g)
    <2>1. \A p : p \in PlacesIn(sc, z, g) <=> p \in PlacesIn(sc, y, g)
      BY <1>1, PlacesInAre
    <2>2. PlacesIn(sc, z, g) = PlacesIn(sc, y, g)
      BY <2>1
    <2> QED
      BY <2>2 DEF CountIn
  <1> QED
    BY <1>1, <1>2

\* An article that is not in the vector yet.
LEMMA AppendOcc ==
    ASSUME NEW v, IsVector(v), AllIn(v, Occs), Different(v), NEW g, NEW sc, AllFound(v, g, sc),
           AllCounted(v, g, sc), NEW o \in Occs, o.occ_count = 1, FoundIn(sc, o, g),
           CountIn(sc, o, g) >= 1,
           \A i \in 0 .. (v.log_len - 1) : ~Similar(VectorNth(v, i), o),
           CountOf(sc, g) = Total(Content(v)) + 1
    PROVE  OccVec(VectorAppend(v, o), g, sc)
  <1> DEFINE z == VectorAppend(v, o)
             n == v.log_len
             S == Content(v)
  <1>1. /\ IsVector(z) /\ z.log_len = n + 1
        /\ \A i \in 0 .. (n - 1) : VectorNth(z, i) = VectorNth(v, i)
        /\ VectorNth(z, n) = o
    BY AppendIs
  <1>2. n \in Nat
    BY DEF IsVector
  <1>3. AllIn(z, Occs)
    BY AppendIn
  <1> HIDE DEF z
  <1>4. \A i : i \in 0 .. (z.log_len - 1) <=> i \in 0 .. (n - 1) \/ i = n
    BY <1>1, <1>2
  <1>5. \A i \in 0 .. (n - 1) : i # n
    BY <1>2
  <1> HIDE DEF n
  <1>6. Different(z)
    <2> SUFFICES ASSUME NEW i \in 0 .. (z.log_len - 1), NEW j \in 0 .. (z.log_len - 1), i # j
                 PROVE  ~Similar(VectorNth(z, i), VectorNth(z, j))
      BY DEF Different
    <2>1. CASE i = n
      <3>1. j \in 0 .. (n - 1)
        BY <1>4, <2>1
      <3>2. ~Similar(VectorNth(v, j), o)
        BY <3>1 DEF n
      <3> QED
        BY <1>1, <2>1, <3>1, <3>2, SimilarIs
    <2>2. CASE i # n /\ j = n
      <3>1. i \in 0 .. (n - 1)
        BY <1>4, <2>2
      <3>2. ~Similar(VectorNth(v, i), o)
        BY <3>1 DEF n
      <3> QED
        BY <1>1, <2>2, <3>1, <3>2
    <2>3. CASE i # n /\ j # n
      <3>1. i \in 0 .. (n - 1) /\ j \in 0 .. (n - 1)
        BY <1>4, <2>3
      <3>2. ~Similar(VectorNth(v, i), VectorNth(v, j))
        BY <3>1 DEF n, Different
      <3> QED
        BY <1>1, <3>1, <3>2
    <2> QED
      BY <2>1, <2>2, <2>3
  <1>7. AllFound(z, g, sc)
    <2> SUFFICES ASSUME NEW i \in 0 .. (z.log_len - 1) PROVE FoundIn(sc, VectorNth(z, i), g)
      BY DEF AllFound
    <2>1. CASE i = n
      BY <1>1, <2>1
    <2>2. CASE i \in 0 .. (n - 1)
      <3>1. FoundIn(sc, VectorNth(v, i), g)
        BY <2>2 DEF AllFound, n
      <3> QED
        BY <1>1, <2>2, <3>1
    <2> QED
      BY <1>4, <2>1, <2>2
  <1>8. Content(z) = S \cup {o}
    <2>1. \A e : e \in Content(z) <=> \E i \in 0 .. (z.log_len - 1) : e = VectorNth(z, i)
      BY ContentIs
    <2>2. \A e : e \in S <=> \E i \in 0 .. (n - 1) : e = VectorNth(v, i)
      BY ContentIs DEF n
    <2> HIDE DEF S
    <2>3. ASSUME NEW e \in Content(z) PROVE e \in S \cup {o}
      BY <1>1, <1>4, <2>1, <2>2
    <2>4. ASSUME NEW e \in S \cup {o} PROVE e \in Content(z)
      BY <1>1, <1>4, <2>1, <2>2
    <2> QED
      BY <2>3, <2>4
  <1>9. IsFiniteSet(S) /\ S \subseteq Occs /\ o \notin S
    <2>1. IsFiniteSet(S)
      BY ContentFinite
    <2>2. S \subseteq Occs
      BY ContentIs DEF AllIn
    <2>3. o \notin S
      BY ContentIs, SimilarIs
    <2> QED
      BY <2>1, <2>2, <2>3
  <1>10. Total(Content(z)) = CountOf(sc, g)
    <2> HIDE DEF S
    <2>1. Total(S \cup {o}) = Total(S) + 1
      BY <1>9, TotalAdd
    <2> QED
      BY <1>8, <2>1 DEF S
  <1>11. z.log_len # 0
    BY <1>1, <1>2
  <1>12. AllCounted(z, g, sc)
    <2> SUFFICES ASSUME NEW i \in 0 .. (z.log_len - 1)
                 PROVE  VectorNth(z, i).occ_count <= CountIn(sc, VectorNth(z, i), g)
      BY DEF AllCounted
    <2>1. CASE i = n
      BY <1>1, <2>1
    <2>2. CASE i \in 0 .. (n - 1)
      <3>1. VectorNth(v, i).occ_count <= CountIn(sc, VectorNth(v, i), g)
        BY <2>2 DEF AllCounted, n
      <3> QED
        BY <1>1, <2>2, <3>1
    <2> QED
      BY <1>4, <2>1, <2>2
  <1> QED
    BY <1>1, <1>3, <1>6, <1>7, <1>10, <1>11, <1>12 DEF OccVec, z

\* The first article with a word.
LEMMA FirstOcc ==
    ASSUME NEW g, NEW sc, CountOf(sc, g) = 1, NEW n \in Nat,
           NEW o \in Occs, o.occ_count = 1, FoundIn(sc, o, g), CountIn(sc, o, g) >= 1
    PROVE  OccVec(VectorAppend(VectorNew(FALSE, n), o), g, sc)
  <1> DEFINE v == VectorNew(FALSE, n)
  <1>1. IsVector(v) /\ v.log_len = 0
    BY NewVector
  <1> HIDE DEF v
  <1>2. 0 .. (v.log_len - 1) = {}
    BY <1>1
  <1>3. AllIn(v, Occs) /\ Different(v) /\ AllFound(v, g, sc) /\ AllCounted(v, g, sc)
    BY <1>2 DEF AllIn, Different, AllFound, AllCounted
  <1>4. Content(v) = {}
    BY <1>2 DEF Content
  <1>5. CountOf(sc, g) = Total(Content(v)) + 1
    BY <1>4, TotalEmpty
  <1>6. OccVec(VectorAppend(v, o), g, sc)
    BY <1>1, <1>2, <1>3, <1>5, AppendOcc
  <1> QED
    BY <1>6 DEF v

\* The word once more in an article that the vector has.
LEMMA CountOcc ==
    ASSUME NEW v, NEW g, NEW sc, NEW sc2, OccVec(v, g, sc), More(sc, sc2, {g}),
           CountOf(sc2, g) = CountOf(sc, g) + 1,
           NEW k \in 0 .. (v.log_len - 1),
           CountIn(sc2, VectorNth(v, k), g) >= CountIn(sc, VectorNth(v, k), g) + 1
    PROVE  OccVec([v EXCEPT !.arr[k].occ_count = @ + 1], g, sc2)
  <1> DEFINE old == VectorNth(v, k)
             new == [old EXCEPT !.occ_count = @ + 1]
             z == [v EXCEPT !.arr[k] = new]
             S == Content(v)
             R == S \ {old}
             D == 0 .. (v.log_len - 1)
             c == old.occ_count
  <1>1. /\ IsVector(v) /\ v.log_len # 0 /\ AllIn(v, Occs)
        /\ Different(v) /\ AllFound(v, g, sc) /\ AllCounted(v, g, sc)
        /\ Total(S) = CountOf(sc, g)
    BY DEF OccVec
  <1>2. [v EXCEPT !.arr[k].occ_count = @ + 1] = z
    BY DEF VectorNth
  <1>3. old \in Occs
    BY <1>1 DEF AllIn
  <1>4. /\ new \in Occs /\ new.title = old.title /\ new.addr = old.addr
        /\ new.occ_count = c + 1
    BY <1>3 DEF Occs
  <1> HIDE DEF new
  <1>5. PutAt(z, v, k, new)
    BY <1>1, OverwritePuts
  <1> HIDE DEF z, c
  <1>6. 0 .. (z.log_len - 1) = D /\ k \in D /\ z.log_len # 0
    <2>1. /\ v.log_len \in Nat /\ z.log_len \in Nat /\ v.log_len <= z.log_len
          /\ \A i \in 0 .. (z.log_len - 1) : i # k => i \in 0 .. (v.log_len - 1)
      BY <1>1, <1>5 DEF PutAt, IsVector
    <2>2. ASSUME z.log_len > v.log_len PROVE FALSE
      <3>1. v.log_len \in 0 .. (z.log_len - 1) /\ v.log_len # k /\ v.log_len \notin 0 .. (v.log_len - 1)
        BY <2>1, <2>2
      <3> QED
        BY <2>1, <3>1
    <2>3. z.log_len = v.log_len
      BY <2>1, <2>2
    <2> QED
      BY <1>1, <2>3
  <1>7. VectorNth(z, k) = new /\ \A i \in D : i # k => VectorNth(z, i) = VectorNth(v, i)
    BY <1>5, <1>6 DEF PutAt
  <1>8. /\ \A i \in D : VectorNth(v, i) \in Occs /\ FoundIn(sc, VectorNth(v, i), g)
        /\ \A i, j \in D : i # j => ~Similar(VectorNth(v, i), VectorNth(v, j))
    BY <1>1 DEF AllIn, AllFound, Different
  <1>9. IsFiniteSet(S) /\ \A e : e \in S <=> \E i \in D : e = VectorNth(v, i)
    BY <1>1, ContentFinite, ContentIs
  <1>10. \A e : e \in Content(z) <=> \E i \in D : e = VectorNth(z, i)
    BY <1>6, ContentIs
  <1>11. VectorNth(v, k) = old
    OBVIOUS
  <1>19. AllCounted(v, g, sc2)
    BY <1>1, CountedMore
  <1> HIDE DEF D, S, old
  <1>20. AllCounted(z, g, sc2)
    <2> SUFFICES ASSUME NEW i \in D
                 PROVE  VectorNth(z, i).occ_count <= CountIn(sc2, VectorNth(z, i), g)
      BY <1>6 DEF AllCounted
    <2>1. CASE i = k
      <3>1. c <= CountIn(sc, old, g)
        BY <1>1, <1>11 DEF AllCounted, c
      <3>2. c \in Nat /\ CountIn(sc, old, g) \in Nat /\ CountIn(sc2, old, g) \in Nat
        BY <1>3 DEF c, Occs, More
      <3>3. CountIn(sc2, old, g) >= CountIn(sc, old, g) + 1
        BY <1>11
      <3>4. c + 1 <= CountIn(sc2, old, g)
        BY <3>1, <3>2, <3>3
      <3>5. CountIn(sc2, new, g) = CountIn(sc2, old, g)
        BY <1>4, SimilarIs
      <3> QED
        BY <1>4, <1>7, <2>1, <3>4, <3>5
    <2>2. CASE i # k
      <3>1. VectorNth(v, i).occ_count <= CountIn(sc2, VectorNth(v, i), g)
        BY <1>19 DEF AllCounted, D
      <3> QED
        BY <1>7, <2>2, <3>1
    <2> QED
      BY <2>1, <2>2
  <1>12. AllIn(z, Occs)
    BY <1>4, <1>6, <1>7, <1>8 DEF AllIn
  <1>13. Different(z)
    <2> SUFFICES ASSUME NEW i \in D, NEW j \in D, i # j
                 PROVE  ~Similar(VectorNth(z, i), VectorNth(z, j))
      BY <1>6 DEF Different
    <2>1. ~Similar(VectorNth(v, i), VectorNth(v, j)) /\ ~Similar(VectorNth(v, j), VectorNth(v, i))
      BY <1>8
    <2>2. CASE i = k
      <3>1. ~Similar(VectorNth(v, j), new)
        BY <1>4, <1>11, <2>1, <2>2, SimilarIs
      <3> QED
        BY <1>7, <2>2, <3>1, SimilarIs
    <2>3. CASE j = k
      <3>1. ~Similar(VectorNth(v, i), new)
        BY <1>4, <1>11, <2>1, <2>3, SimilarIs
      <3> QED
        BY <1>7, <2>3, <3>1
    <2>4. CASE i # k /\ j # k
      BY <1>7, <2>1, <2>4
    <2> QED
      BY <2>2, <2>3, <2>4
  <1>14. AllFound(z, g, sc2)
    <2> SUFFICES ASSUME NEW i \in D PROVE FoundIn(sc2, VectorNth(z, i), g)
      BY <1>6 DEF AllFound
    <2>1. FoundIn(sc2, VectorNth(v, i), g)
      BY <1>8 DEF More
    <2>2. CASE i = k
      BY <1>4, <1>7, <1>11, <2>1, <2>2, SimilarIs
    <2>3. CASE i # k
      BY <1>7, <2>1, <2>3
    <2> QED
      BY <2>2, <2>3
  <1>15. Content(z) = R \cup {new}
    <2>1. ASSUME NEW i \in D, i # k PROVE VectorNth(v, i) # old
      BY <1>6, <1>8, <1>11, <2>1, SimilarIs
    <2>2. ASSUME NEW e \in Content(z) PROVE e \in R \cup {new}
      BY <1>7, <1>9, <1>10, <2>1
    <2>3. ASSUME NEW e \in R PROVE e \in Content(z)
      BY <1>7, <1>9, <1>10, <1>11
    <2>4. new \in Content(z)
      BY <1>6, <1>7, <1>10
    <2> QED
      BY <2>2, <2>3, <2>4
  <1>16. /\ old \notin R /\ new \notin R /\ S = R \cup {old}
         /\ IsFiniteSet(R) /\ R \subseteq Occs
    <2>1. old \in S /\ S \subseteq Occs
      BY <1>6, <1>8, <1>9, <1>11
    <2>2. IsFiniteSet(R)
      <3>1. R \subseteq S
        OBVIOUS
      <3> HIDE DEF R
      <3> QED
        BY <1>9, <3>1, FS_Subset
    <2>3. ASSUME new \in R PROVE FALSE
      <3>1. PICK i \in D : new = VectorNth(v, i) /\ new # old
        BY <1>9, <2>3
      <3>2. i # k
        BY <1>11, <3>1
      <3>3. ~Similar(VectorNth(v, i), old)
        BY <1>6, <1>8, <1>11, <3>2
      <3> QED
        BY <1>4, <3>1, <3>3, SimilarIs
    <2> QED
      BY <2>1, <2>2, <2>3
  <1> HIDE DEF R
  <1>17. Total(Content(z)) = CountOf(sc2, g)
    <2>1. Total(S) = Total(R) + c /\ Total(R) \in Int
      BY <1>3, <1>16, TotalAdd DEF c
    <2>2. Total(R \cup {new}) = Total(R) + (c + 1)
      BY <1>4, <1>16, TotalAdd
    <2>3. c \in Int
      BY <1>3 DEF Occs, c
    <2>4. Total(Content(z)) = Total(R) + (c + 1)
      BY <1>15, <2>2
    <2> QED
      BY <1>1, <2>1, <2>3, <2>4
  <1>18. IsVector(z)
    BY <1>5 DEF PutAt
  <1> QED
    BY <1>2, <1>6, <1>12, <1>13, <1>14, <1>17, <1>18, <1>20 DEF OccVec

\* The articles with most occurrences come first.
Descending(v) ==
    \A i, j \in 0 .. (v.log_len - 1) :
       i < j => VectorNth(v, i).occ_count >= VectorNth(v, j).occ_count

\* VectorSort in print_result loses nothing.
LEMMA SortOcc ==
    ASSUME NEW v, NEW g, NEW sc, OccVec(v, g, sc), NEW w \in VectorSort(v, Before(v))
    PROVE  OccVec(w, g, sc) /\ Descending(w)
  <1> DEFINE n == v.log_len
             D == 0 .. (n - 1)
             before == Before(v)
  <1>1. /\ IsVector(v) /\ n # 0 /\ AllIn(v, Occs)
        /\ Different(v) /\ AllFound(v, g, sc) /\ AllCounted(v, g, sc)
        /\ Total(Content(v)) = CountOf(sc, g)
    BY DEF OccVec
  <1>2. /\ IsVector(w) /\ w.log_len = n
        /\ \E p : /\ IsOrder(p, v, before)
                  /\ \A i \in 0 .. (v.log_len - 1) : VectorNth(w, i) = VectorNth(v, p[i])
    <2> HIDE DEF before
    <2> QED
      BY <1>1, SortIs DEF before
  <1>3. PICK p : /\ IsOrder(p, v, before)
                 /\ \A i \in 0 .. (v.log_len - 1) : VectorNth(w, i) = VectorNth(v, p[i])
    BY <1>2
  <1>4. AllIn(w, Occs)
    <2> HIDE DEF before
    <2> QED
      BY <1>1, SortIn DEF before
  <1>5. /\ p \in [D -> D]
        /\ \A i, j \in D : i # j => p[i] # p[j]
        /\ \A i, j \in D : i < j => <<v.arr[p[j]], v.arr[p[i]]>> \notin before
    BY <1>3 DEF IsOrder
  <1>6. /\ n \in Nat
        /\ \A i \in D : p[i] \in D /\ VectorNth(w, i) = VectorNth(v, p[i])
    BY <1>1, <1>3, <1>5 DEF IsVector
  <1>7. /\ \A e : e \in Content(v) <=> \E i \in D : e = VectorNth(v, i)
        /\ \A e : e \in Content(w) <=> \E i \in D : e = VectorNth(w, i)
    BY <1>2, ContentIs
  <1>8. IsFiniteSet(D)
    <2>1. n - 1 \in Int
      BY <1>6
    <2> HIDE DEF n
    <2> QED
      BY <2>1, FS_Interval
  <1>9. \A i \in D : \E j \in D : p[j] = i
    <2> HIDE DEF D
    <2>1. p \in Injection(D, D)
      BY <1>5 DEF Injection, IsInjective
    <2>2. p \in Surjection(D, D)
      BY <1>8, <2>1, FS_Injection
    <2> QED
      BY <2>2 DEF Surjection
  <1>10. /\ \A i \in D : VectorNth(v, i) \in Occs /\ FoundIn(sc, VectorNth(v, i), g)
         /\ \A i, j \in D : i # j => ~Similar(VectorNth(v, i), VectorNth(v, j))
         /\ \A i \in D : VectorNth(v, i).occ_count <= CountIn(sc, VectorNth(v, i), g)
    BY <1>1 DEF AllIn, AllFound, Different, AllCounted
  <1>11. \A i, j \in D :
            i < j => ~MoreOften(VectorNth(v, p[j]), VectorNth(v, p[i]))
    <2> SUFFICES ASSUME NEW i \in D, NEW j \in D, i < j,
                        MoreOften(VectorNth(v, p[j]), VectorNth(v, p[i]))
                 PROVE  FALSE
      OBVIOUS
    <2>1. VectorNth(v, p[j]) \in Content(v) /\ VectorNth(v, p[i]) \in Content(v)
      BY <1>6, <1>7
    <2>2. <<VectorNth(v, p[j]), VectorNth(v, p[i])>> \in before
      BY <2>1 DEF Before
    <2> QED
      BY <1>5, <2>2 DEF VectorNth
  <1> HIDE DEF before
  <1>12. 0 .. (w.log_len - 1) = D
    BY <1>2
  <1> HIDE DEF D
  <1>13. Different(w)
    <2> SUFFICES ASSUME NEW i \in D, NEW j \in D, i # j
                 PROVE  ~Similar(VectorNth(w, i), VectorNth(w, j))
      BY <1>12 DEF Different
    <2>1. p[i] \in D /\ p[j] \in D /\ p[i] # p[j]
      BY <1>5, <1>6
    <2> QED
      BY <1>6, <1>10, <2>1
  <1>14. AllFound(w, g, sc) /\ AllCounted(w, g, sc)
    BY <1>6, <1>10, <1>12 DEF AllFound, AllCounted
  <1>15. Content(w) = Content(v)
    <2>1. ASSUME NEW e \in Content(w) PROVE e \in Content(v)
      BY <1>6, <1>7
    <2>2. ASSUME NEW e \in Content(v) PROVE e \in Content(w)
      BY <1>6, <1>7, <1>9
    <2> QED
      BY <2>1, <2>2
  <1>16. Descending(w)
    <2> SUFFICES ASSUME NEW i \in D, NEW j \in D, i < j
                 PROVE  VectorNth(w, i).occ_count >= VectorNth(w, j).occ_count
      BY <1>12 DEF Descending
    <2>1. ~(VectorNth(w, j).occ_count > VectorNth(w, i).occ_count)
      BY <1>6, <1>11 DEF MoreOften
    <2>2. VectorNth(w, i).occ_count \in Int /\ VectorNth(w, j).occ_count \in Int
      BY <1>6, <1>10 DEF Occs
    <2> QED
      BY <2>1, <2>2
  <1> QED
    BY <1>1, <1>2, <1>4, <1>13, <1>14, <1>15, <1>16 DEF OccVec

-----------------------------------------------------------------------------
(***************************************************************************)
(* The index                                                               *)
(***************************************************************************)
\* The keys of the words that the index is for.
Indexed(word) == word \in WellFormed /\ ~IsStopWord(word)

IndexKeys == {Fold(word) : word \in {x \in WellFormed : ~IsStopWord(x)}}

\* An element of the index.
Entry(e, sc) ==
    /\ e = [word |-> e.word, vec |-> e.vec]
    /\ Indexed(e.word)
    /\ OccVec(e.vec, statistics_key(e), sc)

\* The bucket b has the elements for the words of sc that belong there, each once.
BucketTells(v, b, sc) ==
    /\ IsVector(v)
    /\ \A i \in 0 .. (v.log_len - 1) :
          Entry(VectorNth(v, i), sc) /\ Bucket(statistics_key(VectorNth(v, i))) = b
    /\ \A i, j \in 0 .. (v.log_len - 1) :
          i # j => statistics_key(VectorNth(v, i)) # statistics_key(VectorNth(v, j))
    /\ \A g \in IndexKeys : Has(sc, g) /\ Bucket(g) = b =>
          \E i \in 0 .. (v.log_len - 1) : statistics_key(VectorNth(v, i)) = g

IndexTells(h, sc) ==
    /\ HasBuckets(h)
    /\ \A b \in 0 .. (NumBuckets - 1) : BucketTells(h.buckets[b], b, sc)

\* Words that are indexed have a key, and so have those that are written the same.
LEMMA KeysAre ==
    /\ IndexKeys \subseteq Keys
    /\ \A word \in WellFormed : Fold(word) \in Keys
    /\ \A word : Indexed(word) => Fold(word) \in IndexKeys
    /\ \A x \in Words : Fold(x) \in IndexKeys => Indexed(x)
  <1>1. \A word \in WellFormed : Fold(word) \in Keys
    BY NewsAssumption, Zenon DEF Keys
  <1>2. \A token \in DOMAIN Unescaped, word \in WellFormed :
           Fold(Unescaped[token]) = Fold(word) => Unescaped[token] \in WellFormed
    BY NewsAssumption, Zenon
  <1>3. \A x, y : Fold(x) = Fold(y) => (IsStopWord(x) <=> IsStopWord(y))
    BY DEF IsStopWord
  <1>4. IndexKeys \subseteq Keys
    BY <1>1 DEF IndexKeys
  <1>5. \A word : Indexed(word) => Fold(word) \in IndexKeys
    BY DEF Indexed, IndexKeys
  <1>6. ASSUME NEW x \in Words, Fold(x) \in IndexKeys PROVE Indexed(x)
    <2>1. PICK token \in DOMAIN Unescaped : x = Unescaped[token]
      BY DEF Words
    <2>2. PICK word \in WellFormed : ~IsStopWord(word) /\ Fold(x) = Fold(word)
      BY <1>6 DEF IndexKeys
    <2>3. x \in WellFormed
      BY <1>2, <2>1, <2>2
    <2> QED
      BY <1>3, <2>2, <2>3 DEF Indexed
  <1> QED
    BY <1>1, <1>4, <1>5, <1>6

\* The index at the beginning.
LEMMA NewTells == IndexTells(Stats!HashSetNew(NumBuckets, TRUE), <<>>)
  <1> DEFINE h == Stats!HashSetNew(NumBuckets, TRUE)
             sc == <<>>
  <1>1. HasBuckets(h) /\ NothingIn(h)
    BY NewSet
  <1>2. \A g : ~Has(sc, g)
    BY DEF Has
  <1> HIDE DEF h, sc
  <1>3. ASSUME NEW b \in 0 .. (NumBuckets - 1) PROVE BucketTells(h.buckets[b], b, sc)
    <2>1. IsVector(h.buckets[b])
      BY <1>1 DEF HasBuckets
    <2>2. 0 .. (h.buckets[b].log_len - 1) = {}
      BY <1>1 DEF NothingIn
    <2> QED
      BY <1>2, <2>1, <2>2 DEF BucketTells
  <1> QED
    BY <1>1, <1>3 DEF IndexTells, h, sc

\* A bucket for other words.
LEMMA BucketOther ==
    ASSUME NEW v, NEW b, NEW sc, NEW sc2, NEW F, BucketTells(v, b, sc), More(sc, sc2, F),
           \A g \in F : g \in IndexKeys => Bucket(g) # b
    PROVE  BucketTells(v, b, sc2)
  <1>1. ASSUME NEW i \in 0 .. (v.log_len - 1) PROVE Entry(VectorNth(v, i), sc2)
    <2> DEFINE e == VectorNth(v, i)
               g == statistics_key(e)
    <2>1. Entry(e, sc) /\ Bucket(g) = b
      BY DEF BucketTells
    <2>2. g \in IndexKeys
      BY <2>1, KeysAre DEF Entry, statistics_key
    <2>3. g \notin F
      BY <2>1, <2>2
    <2> HIDE DEF g
    <2>4. OccVec(e.vec, g, sc2)
      <3>1. OccVec(e.vec, g, sc)
        BY <2>1 DEF Entry, g
      <3> QED
        BY <2>3, <3>1, OccVecMore
    <2> QED
      BY <2>1, <2>4 DEF Entry, g
  <1>2. \A g \in IndexKeys : Has(sc2, g) /\ Bucket(g) = b => Has(sc, g)
    BY DEF More
  <1> QED
    BY <1>1, <1>2 DEF BucketTells

\* The bucket of the word that has been read, or sorted.
LEMMA BucketStep ==
    ASSUME NEW v, NEW f \in IndexKeys, NEW b, b = Bucket(f), NEW sc, NEW sc2,
           BucketTells(v, b, sc), More(sc, sc2, {f}),
           NEW z, NEW k, NEW e, PutAt(z, v, k, e), Entry(e, sc2), statistics_key(e) = f,
           \A i \in 0 .. (v.log_len - 1) : i = k <=> statistics_key(VectorNth(v, i)) = f
    PROVE  BucketTells(z, b, sc2)
  <1> USE DEF PutAt
  <1>1. v.log_len \in Nat /\ z.log_len \in Nat
    BY DEF BucketTells, IsVector
  <1>2. 0 .. (v.log_len - 1) \subseteq 0 .. (z.log_len - 1)
    BY <1>1
  <1>3. ASSUME NEW i \in 0 .. (z.log_len - 1), i # k
        PROVE  /\ VectorNth(z, i) = VectorNth(v, i)
               /\ i \in 0 .. (v.log_len - 1)
               /\ Entry(VectorNth(v, i), sc2)
               /\ Bucket(statistics_key(VectorNth(v, i))) = b
               /\ statistics_key(VectorNth(v, i)) # f
    <2> DEFINE x == VectorNth(v, i)
               g == statistics_key(x)
    <2>1. VectorNth(z, i) = x /\ i \in 0 .. (v.log_len - 1)
      BY <1>3
    <2>2. Entry(x, sc) /\ Bucket(g) = b
      BY <2>1 DEF BucketTells
    <2>3. g # f
      BY <1>3, <2>1
    <2> HIDE DEF g
    <2>4. OccVec(x.vec, g, sc2)
      <3>1. OccVec(x.vec, g, sc) /\ g \notin {f}
        BY <2>2, <2>3 DEF Entry, g
      <3> QED
        BY <3>1, OccVecMore
    <2> QED
      BY <2>1, <2>2, <2>3, <2>4 DEF Entry, g
  <1>4. \A i \in 0 .. (z.log_len - 1) :
           Entry(VectorNth(z, i), sc2) /\ Bucket(statistics_key(VectorNth(z, i))) = b
    BY <1>3
  <1>5. ASSUME NEW i \in 0 .. (z.log_len - 1), NEW j \in 0 .. (z.log_len - 1), i # j
        PROVE  statistics_key(VectorNth(z, i)) # statistics_key(VectorNth(z, j))
    <2>1. CASE i = k
      BY <1>3, <1>5, <2>1
    <2>2. CASE j = k
      BY <1>3, <1>5, <2>2
    <2>3. CASE i # k /\ j # k
      <3>1. /\ VectorNth(z, i) = VectorNth(v, i) /\ i \in 0 .. (v.log_len - 1)
            /\ VectorNth(z, j) = VectorNth(v, j) /\ j \in 0 .. (v.log_len - 1)
        BY <1>3, <2>3
      <3> QED
        BY <1>5, <3>1 DEF BucketTells
    <2> QED
      BY <2>1, <2>2, <2>3
  <1>6. ASSUME NEW g \in IndexKeys, Has(sc2, g), Bucket(g) = b
        PROVE  \E i \in 0 .. (z.log_len - 1) : statistics_key(VectorNth(z, i)) = g
    <2>1. CASE g = f
      BY <2>1
    <2>2. CASE g # f
      <3>1. Has(sc, g)
        BY <1>6, <2>2 DEF More
      <3>2. PICK i \in 0 .. (v.log_len - 1) : statistics_key(VectorNth(v, i)) = g
        BY <1>6, <3>1 DEF BucketTells
      <3>3. i # k /\ i \in 0 .. (z.log_len - 1)
        BY <1>2, <2>2, <3>2
      <3> QED
        BY <1>3, <3>2, <3>3
    <2> QED
      BY <2>1, <2>2
  <1> QED
    BY <1>4, <1>5, <1>6 DEF BucketTells

\* Nothing that is indexed has been read.
LEMMA IndexOther ==
    ASSUME NEW h, NEW sc, NEW sc2, NEW F, IndexTells(h, sc), More(sc, sc2, F),
           \A g \in F : g \notin IndexKeys
    PROVE  IndexTells(h, sc2)
  <1>1. ASSUME NEW b \in 0 .. (NumBuckets - 1) PROVE BucketTells(h.buckets[b], b, sc2)
    <2>1. BucketTells(h.buckets[b], b, sc)
      BY DEF IndexTells
    <2> QED
      BY <2>1, BucketOther
  <1> QED
    BY <1>1 DEF IndexTells

\* One bucket has changed.
LEMMA IndexStep ==
    ASSUME NEW h, NEW sc, NEW sc2, NEW f \in IndexKeys, IndexTells(h, sc), More(sc, sc2, {f}),
           NEW b, b = Bucket(f), NEW z, BucketTells(z, b, sc2), NEW n
    PROVE  /\ IndexTells(WithBucket(h, b, z, n), sc2)
           /\ WithBucket(h, b, z, n).buckets[b] = z
  <1> DEFINE w == WithBucket(h, b, z, n)
  <1>1. b \in 0 .. (NumBuckets - 1) /\ HasBuckets(h) /\ IsVector(z)
    BY BucketRange, KeysAre DEF IndexTells, BucketTells
  <1>2. /\ HasBuckets(w)
        /\ w.buckets[b] = z
        /\ \A c \in 0 .. (NumBuckets - 1) : c # b => w.buckets[c] = h.buckets[c]
    BY <1>1, WithBucketIs
  <1> HIDE DEF w
  <1>3. ASSUME NEW c \in 0 .. (NumBuckets - 1) PROVE BucketTells(w.buckets[c], c, sc2)
    <2>1. CASE c = b
      BY <1>2, <2>1
    <2>2. CASE c # b
      <3>1. BucketTells(h.buckets[c], c, sc)
        BY DEF IndexTells
      <3>2. BucketTells(h.buckets[c], c, sc2)
        BY <2>2, <3>1, BucketOther
      <3> QED
        BY <1>2, <2>2, <3>2
    <2> QED
      BY <2>1, <2>2
  <1> QED
    BY <1>2, <1>3 DEF IndexTells, w

\* at is the address of the element that is found by g, the only one.
FoundAt(h, at, g) ==
    /\ at.bucket = Bucket(g)
    /\ at.index \in 0 .. (h.buckets[Bucket(g)].log_len - 1)
    /\ \A i \in 0 .. (h.buckets[Bucket(g)].log_len - 1) :
          i = at.index <=> statistics_key(VectorNth(h.buckets[Bucket(g)], i)) = g

\* HashSetLookup.
LEMMA LookupIs ==
    ASSUME NEW h, NEW sc, IndexTells(h, sc), NEW word \in WellFormed, NEW g, g = Fold(word),
           NEW at, at = Stats!HashSetLookup(h, [word |-> word])
    PROVE  /\ at = NULL => /\ \A i \in 0 .. (h.buckets[Bucket(g)].log_len - 1) :
                                 statistics_key(VectorNth(h.buckets[Bucket(g)], i)) # g
                           /\ g \in IndexKeys => ~Has(sc, g)
           /\ at # NULL => FoundAt(h, at, g)
  <1> DEFINE b == Bucket(g)
             v == h.buckets[b]
             q == [word |-> word]
             pl == Stats!Place(h, q)
             k == pl.index
  <1>1. g \in Keys /\ b \in 0 .. (NumBuckets - 1) /\ HasBuckets(h) /\ q.word = word
    BY BucketRange, KeysAre DEF IndexTells
  <1>2. BucketTells(v, b, sc)
    BY <1>1 DEF IndexTells
  <1>3. /\ pl = [bucket |-> b, index |-> k]
        /\ \/ /\ k = -1
              /\ \A i \in 0 .. (v.log_len - 1) : statistics_key(VectorNth(v, i)) # g
           \/ /\ k \in 0 .. (v.log_len - 1)
              /\ statistics_key(VectorNth(v, k)) = g
    <2> HIDE DEF v, q, k, pl, b
    <2> QED
      BY <1>1, StatPlace DEF v, k, pl, b
  <1>4. at = IF k = -1 THEN NULL ELSE pl
    BY DEF Stats!HashSetLookup
  <1>5. IsVector(v)
    BY <1>2 DEF BucketTells
  <1> HIDE DEF k, pl, v, q
  <1>6. CASE k = -1
    <2>1. at = NULL /\ \A i \in 0 .. (v.log_len - 1) : statistics_key(VectorNth(v, i)) # g
      BY <1>3, <1>4, <1>6
    <2>2. g \in IndexKeys => ~Has(sc, g)
      BY <1>2, <2>1 DEF BucketTells
    <2> QED
      BY <2>1, <2>2 DEF v
  <1>7. CASE k # -1
    <2>1. k \in 0 .. (v.log_len - 1) /\ statistics_key(VectorNth(v, k)) = g
      BY <1>3, <1>7
    <2>2. at = [bucket |-> b, index |-> k]
      BY <1>3, <1>4, <1>7
    <2>3. at # NULL
      BY <1>1, <1>5, <2>1, <2>2, NoAddress
    <2>4. at.bucket = b /\ at.index = k
      BY <2>2
    <2>5. \A i \in 0 .. (v.log_len - 1) : i = k <=> statistics_key(VectorNth(v, i)) = g
      BY <1>2, <2>1 DEF BucketTells
    <2> QED
      BY <2>1, <2>3, <2>4, <2>5 DEF FoundAt, v
  <1> QED
    BY <1>6, <1>7

\* The element at an address.
LEMMA AtIs ==
    ASSUME NEW h, NEW sc, IndexTells(h, sc), NEW g \in Keys, NEW at, FoundAt(h, at, g)
    PROVE  /\ Stats!HashSetAt(h, at) = VectorNth(h.buckets[Bucket(g)], at.index)
           /\ Entry(Stats!HashSetAt(h, at), sc)
           /\ statistics_key(Stats!HashSetAt(h, at)) = g
  <1>1. Stats!HashSetAt(h, at) = VectorNth(h.buckets[Bucket(g)], at.index)
    BY StatVectors DEF Stats!HashSetAt, FoundAt
  <1>2. BucketTells(h.buckets[Bucket(g)], Bucket(g), sc)
    BY BucketRange DEF IndexTells
  <1> QED
    BY <1>1, <1>2 DEF BucketTells, FoundAt

\* The index has the vector vec for the key g.
Keeps(h, g, vec) ==
    \E i \in 0 .. (h.buckets[Bucket(g)].log_len - 1) :
       /\ statistics_key(VectorNth(h.buckets[Bucket(g)], i)) = g
       /\ VectorNth(h.buckets[Bucket(g)], i).vec = vec

\* The vector of a word that is in the index becomes another one.
LEMMA PutTells ==
    ASSUME NEW h, NEW sc, NEW sc2, IndexTells(h, sc), NEW f \in IndexKeys, More(sc, sc2, {f}),
           NEW at, FoundAt(h, at, f), NEW woa, woa = Stats!HashSetAt(h, at),
           NEW vec, OccVec(vec, f, sc2)
    PROVE  /\ IndexTells(Stats!HashSetOverwrite(h, at, [woa EXCEPT !.vec = vec]), sc2)
           /\ Keeps(Stats!HashSetOverwrite(h, at, [woa EXCEPT !.vec = vec]), f, vec)
  <1> DEFINE b == Bucket(f)
             k == at.index
             v == h.buckets[b]
             e == [woa EXCEPT !.vec = vec]
             z == [v EXCEPT !.arr[k] = e]
             n == h.elem_count
             w == Stats!HashSetOverwrite(h, at, e)
  <1>1. /\ f \in Keys /\ b \in 0 .. (NumBuckets - 1) /\ HasBuckets(h)
    BY BucketRange, KeysAre DEF IndexTells
  <1>2. BucketTells(v, b, sc) /\ IsVector(v)
    BY <1>1 DEF IndexTells, BucketTells
  <1>3. /\ at.bucket = b /\ k \in 0 .. (v.log_len - 1)
        /\ \A i \in 0 .. (v.log_len - 1) : i = k <=> statistics_key(VectorNth(v, i)) = f
    BY DEF FoundAt
  <1>4. Entry(woa, sc) /\ statistics_key(woa) = f
    BY <1>1, AtIs
  <1>5. Entry(e, sc2) /\ statistics_key(e) = f /\ e.vec = vec
    <2>1. woa = [word |-> woa.word, vec |-> woa.vec] /\ Indexed(woa.word)
      BY <1>4 DEF Entry
    <2>2. e = [word |-> woa.word, vec |-> vec]
      BY <2>1
    <2> HIDE DEF e
    <2>3. e.word = woa.word /\ e.vec = vec /\ e = [word |-> e.word, vec |-> e.vec]
      BY <2>2
    <2>4. statistics_key(e) = f
      BY <1>4, <2>3 DEF statistics_key
    <2> QED
      BY <2>1, <2>3, <2>4 DEF Entry
  <1>6. w = WithBucket(h, b, z, n)
    <2> HIDE DEF b, k, e
    <2> QED
      BY <1>1, <1>3, OverwriteStat DEF k
  <1> HIDE DEF b, k, v, e, w, n
  <1>7. PutAt(z, v, k, e)
    BY <1>2, <1>3, OverwritePuts
  <1> HIDE DEF z
  <1>8. BucketTells(z, b, sc2)
    BY <1>2, <1>3, <1>5, <1>7, BucketStep DEF b
  <1>9. IndexTells(w, sc2) /\ w.buckets[b] = z
    BY <1>6, <1>8, IndexStep DEF b
  <1>10. Keeps(w, f, vec)
    BY <1>5, <1>7, <1>9 DEF Keeps, PutAt, b
  <1> QED
    BY <1>9, <1>10 DEF w, e

\* dispose_sets changes nothing that can be seen.
LEMMA DisposeTells ==
    ASSUME NEW h, NEW sc, IndexTells(h, sc)
    PROVE  /\ IndexTells(Stats!HashSetDispose(h), sc)
           /\ \A g \in Keys : \A vec : Keeps(h, g, vec) => Keeps(Stats!HashSetDispose(h), g, vec)
  <1> DEFINE f == [b \in DOMAIN h.buckets |-> VectorDispose(h.buckets[b])]
             w == [h EXCEPT !.buckets = f]
  <1>1. Stats!HashSetDispose(h) = w
    BY StatVectors DEF Stats!HashSetDispose
  <1>2. /\ DOMAIN h = {"num_buckets", "elem_count", "buckets"}
        /\ h.num_buckets = NumBuckets
        /\ DOMAIN h.buckets = 0 .. (NumBuckets - 1)
    BY DEF IndexTells, HasBuckets
  <1>3. \A b \in 0 .. (NumBuckets - 1) : f[b] = VectorDispose(h.buckets[b])
    BY <1>2
  <1>4. DOMAIN f = 0 .. (NumBuckets - 1)
    BY <1>2
  <1> HIDE DEF f
  <1>5. ASSUME NEW b \in 0 .. (NumBuckets - 1)
        PROVE  /\ BucketTells(f[b], b, sc) /\ IsVector(f[b])
               /\ f[b].log_len = h.buckets[b].log_len
               /\ \A i : VectorNth(f[b], i) = VectorNth(h.buckets[b], i)
    <2> DEFINE v == h.buckets[b]
               z == VectorDispose(v)
    <2>1. BucketTells(v, b, sc)
      BY DEF IndexTells
    <2> HIDE DEF v
    <2>2. IsVector(v)
      BY <2>1 DEF BucketTells
    <2>3. /\ IsVector(z) /\ z.log_len = v.log_len
          /\ \A i : VectorNth(z, i) = VectorNth(v, i)
      BY <2>2, DisposeIs
    <2> HIDE DEF z
    <2>4. BucketTells(z, b, sc)
      BY <2>1, <2>3 DEF BucketTells
    <2> QED
      BY <1>3, <2>3, <2>4 DEF v, z
  <1>6. /\ DOMAIN w = {"num_buckets", "elem_count", "buckets"} /\ w.buckets = f
        /\ w.num_buckets = NumBuckets
    BY <1>2
  <1> HIDE DEF w
  <1>7. IndexTells(w, sc)
    <2>1. HasBuckets(w)
      BY <1>4, <1>5, <1>6 DEF HasBuckets
    <2> QED
      BY <1>5, <1>6, <2>1 DEF IndexTells
  <1>8. ASSUME NEW g \in Keys, NEW vec, Keeps(h, g, vec) PROVE Keeps(w, g, vec)
    <2>1. Bucket(g) \in 0 .. (NumBuckets - 1)
      BY BucketRange
    <2> QED
      BY <1>5, <1>6, <1>8, <2>1 DEF Keeps
  <1> QED
    BY <1>1, <1>7, <1>8

\* process_word: the index counts one more occurrence.
LEMMA ProcessWord ==
    ASSUME NEW sc \in Seq(Articles), IndexTells(statistics, sc), NEW x \in Words, Indexed(x),
           title \in STRING, addr \in STRING, LastIs(sc, [title |-> title, addr |-> addr])
    PROVE  IndexTells(process_word(x), ReadOn(sc, x))
  <1> DEFINE sc2 == ReadOn(sc, x)
             f == Fold(x)
             at == Statistic(x)
             woa == Stats!HashSetAt(statistics, at)
             occ == [occ_count |-> 1, title |-> title, addr |-> addr]
             here == [title |-> title, addr |-> addr]
             k == VectorSearch(woa.vec, {o \in Content(woa.vec) : Similar(o, occ)}, 0)
             new == [word |-> x, vec |-> VectorAppend(VectorNew(FALSE, InitialArticles), occ)]
             PutVec(vec) == Stats!HashSetOverwrite(statistics, at, [woa EXCEPT !.vec = vec])
             n == statistics.elem_count + 1
  <1>1. process_word(x) =
           IF at = NULL THEN Stats!HashSetEnter(statistics, new)
           ELSE IF k = -1 THEN PutVec(VectorAppend(woa.vec, occ))
           ELSE PutVec([woa.vec EXCEPT !.arr[k].occ_count = @ + 1])
    BY DEF process_word
  <1>2. f \in IndexKeys /\ f \in Keys /\ x \in WellFormed
    BY KeysAre DEF Indexed
  <1>3. occ \in Occs /\ occ.occ_count = 1 /\ occ.title = here.title /\ occ.addr = here.addr
    BY DEF Occs
  <1>4. /\ LastIs(sc, here)
        /\ More(sc, sc2, {f})
        /\ CountOf(sc2, f) = CountOf(sc, f) + 1
        /\ FoundIn(sc2, here, f)
        /\ \A o : Similar(here, o) => CountIn(sc2, o, f) >= CountIn(sc, o, f) + 1
        /\ sc2 \in Seq(Articles)
    <2>1. Len(sc) # 0
      BY DEF LastIs
    <2> HIDE DEF sc2, here
    <2> QED
      BY <2>1, ReadWord DEF sc2, here
  <1> HIDE DEF here, occ, sc2
  <1>5. FoundIn(sc2, occ, f) /\ CountIn(sc2, occ, f) >= 1
    <2>1. FoundIn(sc2, occ, f)
      BY <1>3, <1>4 DEF FoundIn
    <2> HIDE DEF f
    <2> QED
      BY <1>4, <2>1, PlacesInFinite
  <1>6. /\ at = NULL => /\ \A i \in 0 .. (statistics.buckets[Bucket(f)].log_len - 1) :
                                 statistics_key(VectorNth(statistics.buckets[Bucket(f)], i)) # f
                        /\ ~Has(sc, f)
        /\ at # NULL => FoundAt(statistics, at, f)
    <2>1. at = Stats!HashSetLookup(statistics, [word |-> x])
      BY DEF Statistic
    <2> HIDE DEF at, f
    <2> QED
      BY <1>2, <2>1, LookupIs DEF f
  <1> HIDE DEF at
  <1>7. CASE at = NULL
    <2> DEFINE b == Bucket(f)
               v == statistics.buckets[b]
               j == Stats!Place(statistics, new).index
               z == Entered(v, j, new)
    <2>1. HasBuckets(statistics) /\ b \in 0 .. (NumBuckets - 1) /\ BucketTells(v, b, sc) /\ IsVector(v)
      BY <1>2, BucketRange DEF IndexTells, BucketTells
    <2>2. new.word = x /\ new = [word |-> new.word, vec |-> new.vec]
      OBVIOUS
    <2>3. OccVec(new.vec, f, sc2)
      <3>1. CountOf(sc2, f) = 1
        BY <1>4, <1>6, <1>7, PlacesFinite
      <3>2. InitialArticles \in Nat
        BY NewsAssumption, Zenon
      <3> HIDE DEF f
      <3> QED
        BY <1>3, <1>5, <3>1, <3>2, FirstOcc
    <2> HIDE DEF new, n, b, v
    <2>4. /\ Stats!Place(statistics, new).bucket = b
          /\ \/ /\ j = -1
                /\ \A i \in 0 .. (v.log_len - 1) : statistics_key(VectorNth(v, i)) # f
             \/ /\ j \in 0 .. (v.log_len - 1)
                /\ statistics_key(VectorNth(v, j)) = f
      <3> HIDE DEF j, f
      <3> QED
        BY <1>2, <2>1, <2>2, StatPlace DEF j, v, b, f
    <2> HIDE DEF f
    <2>5. \A i \in 0 .. (v.log_len - 1) : statistics_key(VectorNth(v, i)) # f
      BY <1>6, <1>7 DEF v, b
    <2>6. j = -1
      BY <2>4, <2>5
    <2>7. Stats!HashSetEnter(statistics, new) = WithBucket(statistics, b, z, n)
      BY <2>4, EnterStat DEF n, v
    <2> HIDE DEF j
    <2>8. PutAt(z, v, Where(v, j), new) /\ Where(v, j) = v.log_len
      BY <2>1, <2>6, EnteredPuts DEF Where
    <2>9. \A i \in 0 .. (v.log_len - 1) : i = v.log_len <=> statistics_key(VectorNth(v, i)) = f
      <3>1. v.log_len \in Nat
        BY <2>1 DEF IsVector
      <3>2. \A i \in 0 .. (v.log_len - 1) : i # v.log_len
        BY <3>1
      <3> QED
        BY <2>5, <3>2
    <2>10. Entry(new, sc2) /\ statistics_key(new) = f
      BY <2>2, <2>3 DEF Entry, statistics_key, f
    <2> HIDE DEF z
    <2>11. BucketTells(z, b, sc2)
      BY <1>2, <1>4, <2>1, <2>8, <2>9, <2>10, BucketStep DEF b
    <2>12. IndexTells(WithBucket(statistics, b, z, n), sc2)
      BY <1>2, <1>4, <2>11, IndexStep DEF b
    <2> QED
      BY <1>1, <1>7, <2>7, <2>12 DEF sc2
  <1>8. CASE at # NULL
    <2> DEFINE vec == woa.vec
    <2> HIDE DEF f, new
    <2>1. FoundAt(statistics, at, f)
      BY <1>6, <1>8
    <2>2. OccVec(vec, f, sc)
      BY <1>2, <2>1, AtIs DEF Entry
    <2>3. \A u : OccVec(u, f, sc2) => IndexTells(PutVec(u), sc2)
      <3> SUFFICES ASSUME NEW u, OccVec(u, f, sc2) PROVE IndexTells(PutVec(u), sc2)
        OBVIOUS
      <3> HIDE DEF vec
      <3> QED
        BY <1>2, <1>4, <2>1, PutTells
    <2> HIDE DEF woa, vec
    <2>4. /\ IsVector(vec) /\ AllIn(vec, Occs) /\ Different(vec) /\ AllFound(vec, f, sc)
          /\ AllCounted(vec, f, sc)
          /\ Total(Content(vec)) = CountOf(sc, f)
      BY <2>2 DEF OccVec
    <2> DEFINE match == {o \in Content(vec) : Similar(o, occ)}
    <2>5. k = VectorSearch(vec, match, 0)
      BY DEF vec
    <2>6. \A i \in 0 .. (vec.log_len - 1) : VectorNth(vec, i) \in match <=> Similar(VectorNth(vec, i), occ)
      BY ContentIs
    <2> HIDE DEF k, match, PutVec
    <2>7. \/ /\ k = -1
             /\ \A i \in 0 .. (vec.log_len - 1) : VectorNth(vec, i) \notin match
          \/ /\ k \in 0 .. (vec.log_len - 1)
             /\ VectorNth(vec, k) \in match
      BY <2>4, <2>5, SearchIs
    <2>8. CASE k = -1
      <3>1. \A i \in 0 .. (vec.log_len - 1) : ~Similar(VectorNth(vec, i), occ)
        <4>1. vec.log_len \in Nat
          BY <2>4 DEF IsVector
        <4>2. -1 \notin 0 .. (vec.log_len - 1)
          BY <4>1
        <4> QED
          BY <2>6, <2>7, <2>8, <4>2
      <3>2. AllFound(vec, f, sc2) /\ AllCounted(vec, f, sc2)
        <4>1. AllFound(vec, f, sc2)
          BY <1>4, <2>4 DEF AllFound, More
        <4> QED
          BY <1>4, <2>4, <4>1, CountedMore
      <3>3. OccVec(VectorAppend(vec, occ), f, sc2)
        BY <1>3, <1>4, <1>5, <2>4, <3>1, <3>2, AppendOcc
      <3> QED
        BY <1>1, <1>8, <2>3, <2>8, <3>3 DEF sc2, vec
    <2>9. CASE k # -1
      <3>1. k \in 0 .. (vec.log_len - 1) /\ Similar(VectorNth(vec, k), occ)
        BY <2>6, <2>7, <2>9
      <3> DEFINE o == VectorNth(vec, k)
      <3>2. Similar(here, o)
        BY <1>3, <3>1 DEF Similar
      <3>3. CountIn(sc2, o, f) >= CountIn(sc, o, f) + 1
        <4> HIDE DEF o
        <4> QED
          BY <1>4, <3>2
      <3>4. OccVec([vec EXCEPT !.arr[k].occ_count = @ + 1], f, sc2)
        BY <1>4, <2>2, <3>1, <3>3, CountOcc
      <3> QED
        BY <1>1, <1>8, <2>3, <2>9, <3>4 DEF sc2, vec
    <2> QED
      BY <2>8, <2>9
  <1> QED
    BY <1>7, <1>8

-----------------------------------------------------------------------------
(***************************************************************************)
(* The invariant                                                           *)
(***************************************************************************)
\* The tags of a feed: the links can be hashed.
Tags ==
    {t \in [tag : STRING, text : STRING \cup {Absent}] :
       t.tag = "link" /\ t.text \notin {Absent, ""} => Fold(t.text) \in Keys}

\* What is left to read is of the right kind, a link can be looked up, and the words
\* that are read go to the article whose title and URL are at hand.
ControlOK ==
    /\ pc \in {"feeds", "feed", "items", "item", "article", "scan", "query", "end"}
    /\ title \in STRING /\ addr \in STRING
    /\ st \in Seq(Tags)
    /\ doc \in Seq(Tokens)
    /\ scanned \in Seq(Articles)
    /\ pc = "item" => addr = "" \/ Fold(addr) \in Keys
    /\ pc = "scan" => LastIs(scanned, [title |-> title, addr |-> addr])

SetsOK ==
    /\ StopsIn(swords, Len(StopWords))
    /\ HasBuckets(used_articles)
    /\ NothingIn(used_articles)

\* What print_result shows of a vector.
Shown(vec) == SubSeq(Elements(vec), 1, Min({MaxShown, VectorLength(vec)}))

\* The answer a is what the index h has of the word, in order.
AnswerShown(h, a) ==
    /\ Indexed(a.word)
    /\ \E i \in 0 .. (h.buckets[Bucket(Fold(a.word))].log_len - 1) :
          LET e == VectorNth(h.buckets[Bucket(Fold(a.word))], i)
          IN  /\ statistics_key(e) = Fold(a.word)
              /\ Descending(e.vec)
              /\ a.list = Shown(e.vec)

\* Nothing has been printed before all feeds are read; an answer stays right.
AnswerOK ==
    /\ answer.kind # "nothing" => pc \in {"query", "end"}
    /\ answer.kind = "list" => AnswerShown(statistics, answer)
    /\ answer.kind = "none" => ~Has(scanned, Fold(answer.word))

\* The inductive invariant.
NewsInv ==
    /\ ControlOK
    /\ SetsOK
    /\ IndexTells(statistics, scanned)
    /\ AnswerOK

\* A buffer that has been cleared holds a string, a document that is read is a sequence.
LEMMA NothingThere == "" \in STRING /\ \A S : <<>> \in Seq(S)
  <1>1. "" \in STRING
    BY NewsAssumption, Zenon
  <1>2. \A S : <<>> \in Seq(S)
    BY EmptySeq
  <1> QED
    BY <1>1, <1>2

\* What is found at a URL.
LEMMA ConnectionIs ==
    ASSUME NEW url
    PROVE  /\ Connection(url).newUrl \in STRING
           /\ Connection(url).words \in Seq(Tokens)
           /\ Connection(url).tags \in Seq(Tags)
  <1>1. CASE url \notin DOMAIN Web
    <2> DEFINE none == <<>>
               blank == ""
               zero == 0
               nowhere == [code |-> zero, newUrl |-> blank, words |-> none, tags |-> none]
    <2>1. none \in Seq(Tokens) /\ none \in Seq(Tags) /\ blank \in STRING
      BY NothingThere
    <2>2. Connection(url) = nowhere
      BY <1>1 DEF Connection
    <2> HIDE DEF none, blank, zero
    <2>3. nowhere.newUrl = blank /\ nowhere.words = none /\ nowhere.tags = none
      OBVIOUS
    <2> HIDE DEF nowhere
    <2> QED
      BY <2>1, <2>2, <2>3
  <1>2. CASE url \in DOMAIN Web
    <2> DEFINE page == Web[url]
               ts == page.tags
    <2>1. Connection(url) = page
      BY <1>2 DEF Connection
    <2>2. page \in Pages
      <3>1. \A u \in DOMAIN Web : Web[u] \in Pages
        BY NewsAssumption, Zenon
      <3> QED
        BY <1>2, <3>1
    <2>3. \A i \in DOMAIN ts :
             ts[i].tag = "link" /\ ts[i].text \notin {Absent, ""} => Fold(ts[i].text) \in DOMAIN Code
      <3>1. \A u \in DOMAIN Web : \A i \in DOMAIN Web[u].tags :
               LET element == Web[u].tags[i]
               IN  element.tag = "link" /\ element.text \notin {Absent, ""} =>
                      Fold(element.text) \in DOMAIN Code
        BY NewsAssumption, Zenon
      <3> QED
        BY <1>2, <3>1
    <2> HIDE DEF page
    <2>4. page.newUrl \in STRING /\ page.words \in Seq(Tokens)
      BY <2>2 DEF Pages
    <2> DEFINE A == [tag : STRING, text : STRING \cup {Absent}]
    <2>5. ts \in Seq(A)
      BY <2>2 DEF Pages
    <2> HIDE DEF ts
    <2>6. \A i \in DOMAIN ts : ts[i] \in Tags
      <3>1. \A i \in DOMAIN ts : ts[i] \in A
        <4> HIDE DEF A
        <4> QED
          BY <2>5, ElementOfSeq, LenProperties
      <3> QED
        BY <2>3, <3>1 DEF Tags, Keys
    <2>7. ts \in Seq(Tags)
      <3> HIDE DEF A
      <3>1. Len(ts) \in Nat /\ DOMAIN ts = 1 .. Len(ts) /\ ts = [i \in 1 .. Len(ts) |-> ts[i]]
        BY <2>5, LenProperties, SeqDef
      <3>2. ts \in [1 .. Len(ts) -> Tags]
        BY <2>6, <3>1
      <3> QED
        BY <3>1, <3>2, SeqDef
    <2> QED
      BY <2>1, <2>4, <2>7 DEF ts
  <1> QED
    BY <1>1, <1>2

\* The rest of a feed, and what its tags say.
LEMMA RestOfFeed ==
    ASSUME NEW T, NEW s \in Seq(T)
    PROVE  /\ s # <<>> => Head(s) \in T /\ Tail(s) \in Seq(T)
           /\ \A i \in DOMAIN s : SubSeq(s, i + 1, Len(s)) \in Seq(T)
  <1>1. s # <<>> => Head(s) \in T /\ Tail(s) \in Seq(T)
    BY HeadTailProperties
  <1>2. ASSUME NEW i \in DOMAIN s PROVE SubSeq(s, i + 1, Len(s)) \in Seq(T)
    <2>1. Len(s) \in Nat /\ i \in 1 .. Len(s) /\ \A j \in 1 .. Len(s) : s[j] \in T
      BY LenProperties, ElementOfSeq
    <2>2. i + 1 \in Int /\ Len(s) \in Int /\ \A j \in (i + 1) .. Len(s) : s[j] \in T
      BY <2>1
    <2> QED
      BY <2>2, SubSeqProperties
  <1> QED
    BY <1>1, <1>2

\* The stop words are those of the file.
LEMMA StopIs ==
    ASSUME StopsIn(swords, Len(StopWords)), NEW word \in WellFormed
    PROVE  IsIn(word, swords) <=> IsStopWord(word)
  <1> DEFINE g == Fold(word)
  <1>1. g \in Keys
    BY KeysAre
  <1> HIDE DEF g
  <1>2. IsIn(word, swords) <=> InSet(swords, g)
    BY <1>1, IsInIs DEF StopsIn, InSet, g
  <1>3. InSet(swords, g) <=> \E j \in 1 .. Len(StopWords) : Fold(StopWords[j]) = g
    BY <1>1 DEF StopsIn
  <1>4. DOMAIN StopWords = 1 .. Len(StopWords)
    <2>1. StopWords \in Seq(STRING)
      BY NewsAssumption, Zenon
    <2> QED
      BY <2>1, LenProperties
  <1> QED
    BY <1>2, <1>3, <1>4 DEF IsStopWord, g

\* No article has been used, for the program enters only those that are in the set.
LEMMA NoneUsed ==
    ASSUME ControlOK, SetsOK, EndOfItem
    PROVE  used_articles' = used_articles
  <1>1. ASSUME addr # "" PROVE ~IsIn(addr, used_articles)
    <2> DEFINE g == Fold(addr)
    <2>1. g \in Keys
      BY <1>1 DEF EndOfItem, ControlOK
    <2>2. HasBuckets(used_articles) /\ NothingIn(used_articles)
      BY DEF SetsOK
    <2> HIDE DEF g
    <2>3. used_articles.buckets[Bucket(g)].log_len = 0
      BY <2>1, <2>2, BucketRange DEF NothingIn
    <2>4. 0 .. (used_articles.buckets[Bucket(g)].log_len - 1) = {}
      BY <2>3
    <2> QED
      BY <2>1, <2>2, <2>4, IsInIs DEF g
  <1> QED
    BY <1>1 DEF EndOfItem

\* The beginning.
LEMMA NewsInit == Init => NewsInv
  <1> SUFFICES ASSUME Init PROVE NewsInv
    OBVIOUS
  <1>1. /\ pc = "feeds" /\ title = "" /\ addr = ""
        /\ st = <<>> /\ doc = <<>> /\ scanned = <<>>
        /\ swords = read_swords
        /\ used_articles = Strings!HashSetNew(NumBuckets, TRUE)
        /\ statistics = Stats!HashSetNew(NumBuckets, TRUE)
        /\ answer.kind = "nothing"
    BY DEF Init
  <1>2. ControlOK
    <2>1. /\ title \in STRING /\ addr \in STRING
          /\ st \in Seq(Tags) /\ doc \in Seq(Tokens) /\ scanned \in Seq(Articles)
      BY <1>1, NothingThere
    <2> QED
      BY <1>1, <2>1 DEF ControlOK
  <1>3. SetsOK
    <2>1. HasBuckets(used_articles) /\ NothingIn(used_articles)
      BY <1>1, NewSet
    <2> QED
      BY <1>1, <2>1, SwordsAre DEF SetsOK
  <1>4. IndexTells(statistics, scanned)
    BY <1>1, NewTells
  <1>5. AnswerOK
    BY <1>1 DEF AnswerOK
  <1> QED
    BY <1>2, <1>3, <1>4, <1>5 DEF NewsInv

\* A sequence over fewer values is one over more.
LEMMA SeqWithin ==
    ASSUME NEW S, NEW T, S \subseteq T, NEW s \in Seq(S)
    PROVE  s \in Seq(T)
  <1>1. Len(s) \in Nat /\ s = [i \in 1 .. Len(s) |-> s[i]] /\ \A i \in 1 .. Len(s) : s[i] \in S
    BY LenProperties, ElementOfSeq, SeqDef
  <1>2. s \in [1 .. Len(s) -> T]
    BY <1>1
  <1> QED
    BY <1>1, <1>2, SeqDef

\* Beginning an article.
LEMMA ScanOK ==
    ASSUME ControlOK, NEW t \in STRING, NEW u \in STRING, NEW body \in Seq(Tokens),
           Scan(t, u, body), st' = st
    PROVE  ControlOK' /\ More(scanned, scanned', {})
  <1> DEFINE a == [title |-> t, addr |-> u, words |-> <<>>]
  <1>1. a \in Articles /\ a.words = <<>> /\ a.title = t /\ a.addr = u
    BY DEF Articles
  <1>2. scanned' = Append(scanned, a) /\ title' = t /\ addr' = u /\ doc' = body /\ pc' = "scan"
    BY DEF Scan
  <1> HIDE DEF a
  <1>3. /\ scanned' \in Seq(Articles)
        /\ LastIs(scanned', a)
        /\ More(scanned, scanned', {})
    BY <1>1, <1>2, NewArticle DEF ControlOK
  <1>4. LastIs(scanned, [title |-> title, addr |-> addr])'
    BY <1>1, <1>2, <1>3 DEF LastIs
  <1>5. ControlOK'
    BY <1>2, <1>3, <1>4 DEF ControlOK
  <1> QED
    BY <1>3, <1>5

\* The two actions that begin one.
LEMMA ScanSteps ==
    ASSUME ControlOK, ProcessFeedFromFile \/ ParseArticle
    PROVE  /\ ControlOK' /\ More(scanned, scanned', {})
           /\ UNCHANGED <<sets, answer>>
  <1>1. CASE ProcessFeedFromFile
    <2> DEFINE file == Files[name]
    <2>1. \A name_ \in DOMAIN Files :
             Files[name_] \in [fileName : STRING, body : Seq(DOMAIN Unescaped)]
      BY NewsAssumption, Zenon
    <2>2. /\ name \in DOMAIN Files /\ st' = st
          /\ Scan(file.fileName, file.fileName, file.body)
          /\ UNCHANGED <<sets, answer>>
      BY <1>1 DEF ProcessFeedFromFile, input
    <2>3. file \in [fileName : STRING, body : Seq(DOMAIN Unescaped)]
      BY <2>1, <2>2
    <2>4. file.fileName \in STRING /\ file.body \in Seq(Tokens)
      <3>1. file.fileName \in STRING /\ file.body \in Seq(DOMAIN Unescaped)
        BY <2>3
      <3>2. DOMAIN Unescaped \subseteq Tokens
        BY DEF Tokens
      <3> HIDE DEF file
      <3> QED
        BY <3>1, <3>2, SeqWithin
    <2> HIDE DEF file
    <2> QED
      BY <2>2, <2>4, ScanOK
  <1>2. CASE ParseArticle
    <2>1. /\ st' = st /\ title \in STRING /\ addr \in STRING
          /\ Scan(title, addr, Connection(addr).words)
          /\ UNCHANGED <<sets, answer>>
      BY <1>2 DEF ParseArticle, input, ControlOK
    <2>2. Connection(addr).words \in Seq(Tokens)
      BY ConnectionIs
    <2> QED
      BY <2>1, <2>2, ScanOK
  <1> QED
    BY <1>1, <1>2

\* One word of an article.
LEMMA WordStep ==
    ASSUME ControlOK, SetsOK, IndexTells(statistics, scanned), ScanArticle
    PROVE  ControlOK' /\ IndexTells(statistics', scanned')
  <1> DEFINE token == Head(doc)
             word == Unescaped[token]
             here == [title |-> title, addr |-> addr]
  <1>1. /\ pc = "scan" /\ doc # <<>>
        /\ statistics' = IF token = Tag \/ ~WordIsWellFormed(word) \/ IsIn(word, swords)
                         THEN statistics ELSE process_word(word)
        /\ scanned' = IF token = Tag THEN scanned ELSE ReadOn(scanned, word)
        /\ doc' = Tail(doc)
        /\ pc' = pc /\ title' = title /\ addr' = addr /\ st' = st
    BY DEF ScanArticle, ReadOn, input
  <1>2. /\ doc \in Seq(Tokens) /\ scanned \in Seq(Articles) /\ title \in STRING /\ addr \in STRING
        /\ LastIs(scanned, here) /\ st \in Seq(Tags)
    BY <1>1 DEF ControlOK
  <1>3. token \in Tokens /\ doc' \in Seq(Tokens)
    BY <1>1, <1>2, RestOfFeed
  <1> HIDE DEF token
  <1>4. CASE token = Tag
    <2>1. statistics' = statistics /\ scanned' = scanned
      BY <1>1, <1>4
    <2>2. LastIs(scanned, here)'
      BY <1>1, <1>2, <2>1 DEF LastIs
    <2>3. ControlOK'
      BY <1>1, <1>2, <1>3, <2>1, <2>2 DEF ControlOK
    <2> QED
      BY <2>1, <2>3
  <1>5. CASE token # Tag
    <2>1. word \in Words
      BY <1>3, <1>5 DEF Tokens, Words
    <2> HIDE DEF word, here
    <2>2. scanned' = ReadOn(scanned, word)
      BY <1>1, <1>5
    <2>3. Len(scanned) # 0
      BY <1>2 DEF LastIs
    <2>4. /\ scanned' \in Seq(Articles)
          /\ LastIs(scanned', here)
          /\ More(scanned, scanned', {Fold(word)})
      BY <1>2, <2>1, <2>2, <2>3, ReadWord
    <2>5. ControlOK'
      <3>1. LastIs(scanned, [title |-> title, addr |-> addr])'
        BY <1>1, <2>4 DEF LastIs, here
      <3> QED
        BY <1>1, <1>2, <1>3, <2>4, <3>1 DEF ControlOK
    <2>6. WordIsWellFormed(word) /\ ~IsIn(word, swords) <=> Indexed(word)
      <3>1. WordIsWellFormed(word) => (IsIn(word, swords) <=> IsStopWord(word))
        BY StopIs DEF SetsOK, WordIsWellFormed
      <3> QED
        BY <3>1 DEF Indexed, WordIsWellFormed
    <2>7. CASE Indexed(word)
      <3>1. statistics' = process_word(word)
        BY <1>1, <1>5, <2>6, <2>7
      <3>2. IndexTells(process_word(word), ReadOn(scanned, word))
        BY <1>2, <2>1, <2>7, ProcessWord DEF here
      <3> QED
        BY <2>2, <2>5, <3>1, <3>2
    <2>8. CASE ~Indexed(word)
      <3>1. statistics' = statistics
        BY <1>1, <1>5, <2>6, <2>8
      <3>2. Fold(word) \notin IndexKeys
        BY <2>1, <2>8, KeysAre
      <3>3. IndexTells(statistics, scanned')
        BY <2>4, <3>2, IndexOther
      <3> QED
        BY <2>5, <3>1, <3>3
    <2> QED
      BY <2>7, <2>8
  <1> QED
    BY <1>4, <1>5

\* The other steps of the reading leave the index and the articles alone.
ReadStep ==
    \/ NextFeed \/ EndOfFeeds \/ ProcessFeed \/ GetNextItemTag \/ NoMoreItems \/ ReadTag
    \/ EndOfItem \/ ParseArticleElsewhere \/ PuntArticle \/ EndOfArticle

\* They keep the control in order.
LEMMA ReadSteps ==
    ASSUME ControlOK, SetsOK, ReadStep
    PROVE  ControlOK' /\ UNCHANGED <<sets, answer, scanned>>
  <1>1. UNCHANGED <<sets, answer, scanned>>
    <2>1. CASE EndOfItem
      <3>1. used_articles' = used_articles
        BY <2>1, NoneUsed
      <3> QED
        BY <2>1, <3>1 DEF EndOfItem, sets
    <2>2. CASE ~EndOfItem
      BY <2>2 DEF ReadStep, NextFeed, EndOfFeeds, ProcessFeed, GetNextItemTag, NoMoreItems, ReadTag,
                  ParseArticleElsewhere, PuntArticle, EndOfArticle, sets
    <2> QED
      BY <2>1, <2>2
  <1>2. /\ title \in STRING /\ addr \in STRING
        /\ st \in Seq(Tags)
        /\ doc \in Seq(Tokens)
        /\ scanned \in Seq(Articles)
        /\ pc = "item" => addr = "" \/ Fold(addr) \in Keys
    BY DEF ControlOK
  <1>3. scanned' = scanned
    BY <1>1
  <1>4. "" \in STRING /\ <<>> \in Seq(Tags)
    BY NothingThere
  <1>5. CASE NextFeed
    BY <1>1, <1>2, <1>3, <1>5 DEF NextFeed, ControlOK
  <1>6. CASE EndOfFeeds
    BY <1>1, <1>2, <1>3, <1>6 DEF EndOfFeeds, ControlOK, input
  <1>7. CASE ProcessFeed
    <2>1. Connection(name).tags \in Seq(Tags)
      BY ConnectionIs
    <2>2. /\ st' = IF Connection(name).code = 200 THEN Connection(name).tags ELSE st
          /\ pc' = CASE Connection(name).code = 200    -> "items"
                     [] Connection(name).code \in Moved -> "feed"
                     [] OTHER              -> "feeds"
          /\ title' = title /\ addr' = addr /\ doc' = doc
      BY <1>7 DEF ProcessFeed
    <2>3. st' \in Seq(Tags)
      BY <1>2, <2>1, <2>2
    <2>4. pc' \in {"items", "feed", "feeds"}
      <3>1. CASE Connection(name).code = 200
        BY <2>2, <3>1 DEF Moved
      <3>2. CASE Connection(name).code # 200
        BY <2>2, <3>2
      <3> QED
        BY <3>1, <3>2
    <2> QED
      BY <1>1, <1>2, <1>3, <2>2, <2>3, <2>4 DEF ControlOK
  <1>8. CASE GetNextItemTag
    <2>1. /\ ItemTags # {} /\ st' = SubSeq(st, Min(ItemTags) + 1, Len(st))
          /\ title' = "" /\ addr' = "" /\ pc' = "item" /\ doc' = doc
      BY <1>8 DEF GetNextItemTag
    <2>2. Min(ItemTags) \in DOMAIN st
      <3>1. ItemTags \in SUBSET Nat /\ ItemTags \subseteq DOMAIN st
        <4>1. DOMAIN st = 1 .. Len(st)
          BY <1>2, LenProperties
        <4> QED
          BY <4>1 DEF ItemTags
      <3>2. PICK m \in ItemTags : \A y \in ItemTags : m <= y
        BY <2>1, <3>1, LeastNumber
      <3>3. Min(ItemTags) \in ItemTags
        BY <3>2 DEF Min
      <3> QED
        BY <3>1, <3>3
    <2>3. st' \in Seq(Tags)
      BY <1>2, <2>1, <2>2, RestOfFeed
    <2> QED
      BY <1>1, <1>2, <1>3, <1>4, <2>1, <2>3 DEF ControlOK
  <1>9. CASE NoMoreItems
    BY <1>1, <1>2, <1>3, <1>4, <1>9 DEF NoMoreItems, ControlOK
  <1>10. CASE ReadTag
    <2> DEFINE t == Head(st)
    <2>1. /\ pc = "item" /\ pc' = pc /\ st # <<>> /\ st' = Tail(st) /\ doc' = doc
          /\ title' = IF t.tag = "title" THEN ExtractElement(title, t) ELSE title
          /\ addr' = IF t.tag = "link" THEN ExtractElement(addr, t) ELSE addr
      BY <1>10 DEF ReadTag, ItemHasMore
    <2>2. t \in Tags /\ st' \in Seq(Tags)
      BY <1>2, <2>1, RestOfFeed
    <2> HIDE DEF t
    <2>3. /\ t.text # Absent => t.text \in STRING
          /\ t.tag = "link" /\ t.text # Absent /\ t.text # "" => Fold(t.text) \in Keys
      BY <2>2 DEF Tags
    <2>4. title' \in STRING /\ addr' \in STRING
      BY <1>2, <2>1, <2>3 DEF ExtractElement
    <2>5. addr' = "" \/ Fold(addr') \in Keys
      BY <1>2, <2>1, <2>3 DEF ExtractElement
    <2> QED
      BY <1>1, <1>2, <1>3, <2>1, <2>2, <2>4, <2>5 DEF ControlOK
  <1>11. CASE EndOfItem
    <2>1. /\ st' = IF st = <<>> THEN st ELSE Tail(st)
          /\ pc' \in {"items", "article"}
          /\ title' = title /\ addr' = addr /\ doc' = doc
      BY <1>11 DEF EndOfItem
    <2>2. st' \in Seq(Tags)
      BY <1>2, <2>1, RestOfFeed
    <2> QED
      BY <1>1, <1>2, <1>3, <2>1, <2>2 DEF ControlOK
  <1>12. CASE ParseArticleElsewhere
    <2>1. Connection(addr).newUrl \in STRING
      BY ConnectionIs
    <2>2. /\ pc = "article" /\ pc' = pc /\ addr' = Connection(addr).newUrl
          /\ title' = title /\ doc' = doc /\ st' = st
      BY <1>12 DEF ParseArticleElsewhere, input
    <2>3. pc' = "article" /\ pc' # "item" /\ pc' # "scan"
      BY <2>2
    <2>4. /\ title' \in STRING /\ addr' \in STRING
          /\ st' \in Seq(Tags) /\ doc' \in Seq(Tokens) /\ scanned' \in Seq(Articles)
      BY <1>2, <1>3, <2>1, <2>2
    <2> QED
      BY <1>1, <2>3, <2>4 DEF ControlOK
  <1>13. CASE PuntArticle
    BY <1>1, <1>2, <1>3, <1>13 DEF PuntArticle, ControlOK, input
  <1>14. CASE EndOfArticle
    <2>1. /\ pc' \in {"feeds", "items"} /\ title' = title /\ addr' = addr /\ doc' = doc /\ st' = st
      BY <1>14 DEF EndOfArticle, input
    <2>2. /\ title' \in STRING /\ addr' \in STRING
          /\ st' \in Seq(Tags) /\ doc' \in Seq(Tokens) /\ scanned' \in Seq(Articles)
      BY <1>2, <1>3, <2>1
    <2> QED
      BY <1>1, <2>1, <2>2 DEF ControlOK
  <1> QED
    BY <1>1, <1>5, <1>6, <1>7, <1>8, <1>9, <1>10, <1>11, <1>12, <1>13, <1>14 DEF ReadStep

\* An answer shows a vector that is kept in the index for its word.
LEMMA ShownIs ==
    ASSUME NEW h, NEW a
    PROVE  AnswerShown(h, a) <=> /\ Indexed(a.word)
                                 /\ \E vec : /\ Keeps(h, Fold(a.word), vec)
                                             /\ Descending(vec)
                                             /\ a.list = Shown(vec)
  <1> DEFINE v == h.buckets[Bucket(Fold(a.word))]
  <1>1. ASSUME NEW i \in 0 .. (v.log_len - 1), statistics_key(VectorNth(v, i)) = Fold(a.word),
               Descending(VectorNth(v, i).vec), a.list = Shown(VectorNth(v, i).vec)
        PROVE  \E vec : Keeps(h, Fold(a.word), vec) /\ Descending(vec) /\ a.list = Shown(vec)
    <2>1. Keeps(h, Fold(a.word), VectorNth(v, i).vec)
      BY <1>1 DEF Keeps
    <2> QED
      BY <1>1, <2>1
  <1>2. ASSUME NEW vec, Keeps(h, Fold(a.word), vec), Descending(vec), a.list = Shown(vec)
        PROVE  \E i \in 0 .. (v.log_len - 1) :
                  /\ statistics_key(VectorNth(v, i)) = Fold(a.word)
                  /\ Descending(VectorNth(v, i).vec) /\ a.list = Shown(VectorNth(v, i).vec)
    BY <1>2 DEF Keeps
  <1> QED
    BY <1>1, <1>2 DEF AnswerShown

\* What the kind of an answer says of its word.
LEMMA KindIs ==
    ASSUME SetsOK, IndexTells(statistics, scanned), NEW word
    PROVE  /\ Kind(word) # "nothing"
           /\ Kind(word) = "none" => ~Has(scanned, Fold(word))
           /\ Kind(word) = "list" => Indexed(word) /\ FoundAt(statistics, Statistic(word), Fold(word))
  <1> DEFINE at == Statistic(word)
             g == Fold(word)
  <1>1. CASE word \notin WellFormed
    BY <1>1 DEF Kind, WordIsWellFormed
  <1>2. CASE word \in WellFormed
    <2>1. IsIn(word, swords) <=> IsStopWord(word)
      BY <1>2, StopIs DEF SetsOK
    <2>2. CASE IsStopWord(word)
      BY <1>2, <2>1, <2>2 DEF Kind, WordIsWellFormed
    <2>3. CASE ~IsStopWord(word)
      <3>1. Kind(word) = IF at = NULL THEN "none" ELSE "list"
        BY <1>2, <2>1, <2>3 DEF Kind, WordIsWellFormed
      <3>2. Indexed(word) /\ g \in IndexKeys
        BY <1>2, <2>3, KeysAre DEF Indexed
      <3>3. at = Stats!HashSetLookup(statistics, [word |-> word])
        BY DEF Statistic
      <3> HIDE DEF at, g
      <3>4. /\ at = NULL => (g \in IndexKeys => ~Has(scanned, g))
            /\ at # NULL => FoundAt(statistics, at, g)
        BY <1>2, <3>3, LookupIs DEF g
      <3> QED
        BY <3>1, <3>2, <3>4 DEF g, at
    <2> QED
      BY <2>2, <2>3
  <1> QED
    BY <1>1, <1>2

\* Refuse: the answer is right.
LEMMA RefuseStep ==
    ASSUME NewsInv, NEW word, Refuse(word)
    PROVE  NewsInv'
  <1>1. ControlOK /\ SetsOK /\ IndexTells(statistics, scanned)
    BY DEF NewsInv
  <1>2. /\ pc = "query" /\ pc' = pc /\ title' = title /\ addr' = addr /\ doc' = doc /\ st' = st
        /\ swords' = swords /\ used_articles' = used_articles /\ statistics' = statistics
        /\ scanned' = scanned
        /\ Kind(word) # "list"
        /\ answer' = [word |-> word, kind |-> Kind(word)]
    BY DEF Refuse, input, sets
  <1>3. ControlOK' /\ SetsOK' /\ IndexTells(statistics, scanned)'
    BY <1>1, <1>2 DEF ControlOK, SetsOK
  <1>4. Kind(word) = "none" => ~Has(scanned, Fold(word))
    BY <1>1, KindIs
  <1> DEFINE kind == Kind(word)
  <1>5. kind # "list" /\ answer' = [word |-> word, kind |-> kind]
    BY <1>2
  <1> HIDE DEF kind
  <1>6. answer'.word = word /\ answer'.kind = kind
    BY <1>5
  <1>7. AnswerOK'
    BY <1>2, <1>4, <1>5, <1>6 DEF AnswerOK, kind
  <1> QED
    BY <1>3, <1>7 DEF NewsInv

\* ProcessResponse: the index holds what it held, in the order that is shown.
LEMMA ResponseStep ==
    ASSUME NewsInv, NEW word, ProcessResponse(word)
    PROVE  NewsInv'
  <1> DEFINE at == Statistic(word)
             woa == Stats!HashSetAt(statistics, at)
             f == Fold(word)
  <1>1. ControlOK /\ SetsOK /\ IndexTells(statistics, scanned)
    BY DEF NewsInv
  <1>2. /\ pc = "query" /\ pc' = pc /\ title' = title /\ addr' = addr /\ doc' = doc /\ st' = st
        /\ swords' = swords /\ used_articles' = used_articles
        /\ scanned' = scanned
        /\ Kind(word) = "list"
        /\ \E vec \in VectorSort(woa.vec, Before(woa.vec)) :
              /\ statistics' = Stats!HashSetOverwrite(statistics, at, [woa EXCEPT !.vec = vec])
              /\ answer' = [word |-> word, kind |-> "list", list |-> Shown(vec)]
    BY DEF ProcessResponse, input, Shown
  <1>3. Indexed(word) /\ FoundAt(statistics, at, f)
    BY <1>1, <1>2, KindIs
  <1>4. f \in IndexKeys /\ f \in Keys
    BY <1>3, KeysAre
  <1> HIDE DEF at, f
  <1>5. OccVec(woa.vec, f, scanned)
    <2>1. Entry(woa, scanned) /\ statistics_key(woa) = f
      BY <1>1, <1>3, <1>4, AtIs
    <2> QED
      BY <2>1 DEF Entry
  <1>6. PICK vec \in VectorSort(woa.vec, Before(woa.vec)) :
              /\ statistics' = Stats!HashSetOverwrite(statistics, at, [woa EXCEPT !.vec = vec])
              /\ answer' = [word |-> word, kind |-> "list", list |-> Shown(vec)]
    BY <1>2
  <1>7. OccVec(vec, f, scanned) /\ Descending(vec)
    <2> DEFINE v == woa.vec
    <2>1. vec \in VectorSort(v, Before(v)) /\ OccVec(v, f, scanned)
      BY <1>5
    <2> HIDE DEF v
    <2> QED
      BY <2>1, SortOcc
  <1>8. More(scanned, scanned, {f})
    <2>1. \A o, g : CountIn(scanned, o, g) \in Nat
      BY <1>1, PlacesInFinite DEF ControlOK
    <2> QED
      BY <2>1 DEF More
  <1>9. /\ IndexTells(statistics', scanned)
        /\ Keeps(statistics', f, vec)
    BY <1>1, <1>3, <1>4, <1>6, <1>7, <1>8, PutTells
  <1> DEFINE shown == Shown(vec)
  <1>10. /\ answer'.word = word /\ answer'.kind = "list" /\ answer'.list = shown
    <2>1. answer' = [word |-> word, kind |-> "list", list |-> shown]
      BY <1>6
    <2> HIDE DEF shown
    <2> QED
      BY <2>1
  <1>11. AnswerShown(statistics', answer')
    BY <1>3, <1>7, <1>9, <1>10, ShownIs DEF f
  <1>12. AnswerOK'
    BY <1>2, <1>10, <1>11 DEF AnswerOK
  <1>13. ControlOK' /\ SetsOK'
    BY <1>1, <1>2 DEF ControlOK, SetsOK
  <1> QED
    BY <1>2, <1>9, <1>12, <1>13 DEF NewsInv

\* dispose_sets leaves the elements of a set of strings where they are.
LEMMA DisposeStrings ==
    ASSUME NEW h, HasBuckets(h)
    PROVE  /\ HasBuckets(Strings!HashSetDispose(h))
           /\ NothingIn(h) => NothingIn(Strings!HashSetDispose(h))
           /\ \A g \in Keys : InSet(Strings!HashSetDispose(h), g) <=> InSet(h, g)
  <1> DEFINE f == [b \in DOMAIN h.buckets |-> VectorDispose(h.buckets[b])]
             w == [h EXCEPT !.buckets = f]
  <1>1. Strings!HashSetDispose(h) = w
    BY StringVectors DEF Strings!HashSetDispose
  <1>2. /\ DOMAIN h = {"num_buckets", "elem_count", "buckets"}
        /\ h.num_buckets = NumBuckets
        /\ DOMAIN h.buckets = 0 .. (NumBuckets - 1)
    BY DEF HasBuckets
  <1>3. \A b \in 0 .. (NumBuckets - 1) : f[b] = VectorDispose(h.buckets[b])
    BY <1>2
  <1>4. DOMAIN f = 0 .. (NumBuckets - 1)
    BY <1>2
  <1> HIDE DEF f
  <1>5. ASSUME NEW b \in 0 .. (NumBuckets - 1)
        PROVE  /\ IsVector(f[b])
               /\ f[b].log_len = h.buckets[b].log_len
               /\ \A i : VectorNth(f[b], i) = VectorNth(h.buckets[b], i)
    <2> DEFINE v == h.buckets[b]
               z == VectorDispose(v)
    <2>1. IsVector(v)
      BY DEF HasBuckets
    <2> HIDE DEF v
    <2>2. /\ IsVector(z) /\ z.log_len = v.log_len
          /\ \A i : VectorNth(z, i) = VectorNth(v, i)
      BY <2>1, DisposeIs
    <2> HIDE DEF z
    <2> QED
      BY <1>3, <2>2 DEF v, z
  <1>6. /\ DOMAIN w = {"num_buckets", "elem_count", "buckets"} /\ w.buckets = f
        /\ w.num_buckets = NumBuckets
    BY <1>2
  <1> HIDE DEF w
  <1>7. HasBuckets(w)
    BY <1>4, <1>5, <1>6 DEF HasBuckets
  <1>8. NothingIn(h) => NothingIn(w)
    BY <1>5, <1>6 DEF NothingIn
  <1>9. ASSUME NEW g \in Keys PROVE InSet(w, g) <=> InSet(h, g)
    <2>1. Bucket(g) \in 0 .. (NumBuckets - 1)
      BY BucketRange
    <2> QED
      BY <1>5, <1>6, <2>1 DEF InSet
  <1> QED
    BY <1>1, <1>7, <1>8, <1>9

\* Quit: what has been printed is still in the index.
LEMMA QuitStep ==
    ASSUME NewsInv, Quit
    PROVE  NewsInv'
  <1>1. /\ ControlOK /\ SetsOK /\ IndexTells(statistics, scanned) /\ AnswerOK
    BY DEF NewsInv
  <1>2. /\ pc' = "end" /\ title' = title /\ addr' = addr /\ doc' = doc /\ st' = st
        /\ swords' = Strings!HashSetDispose(swords)
        /\ used_articles' = Strings!HashSetDispose(used_articles)
        /\ statistics' = Stats!HashSetDispose(statistics)
        /\ answer' = answer /\ scanned' = scanned
    BY DEF Quit, input
  <1>3. ControlOK'
    BY <1>1, <1>2 DEF ControlOK
  <1>4. SetsOK'
    <2>1. HasBuckets(swords') /\ \A g \in Keys : InSet(swords', g) <=> InSet(swords, g)
      BY <1>1, <1>2, DisposeStrings DEF SetsOK, StopsIn
    <2>2. HasBuckets(used_articles') /\ NothingIn(used_articles')
      BY <1>1, <1>2, DisposeStrings DEF SetsOK
    <2>3. StopsIn(swords', Len(StopWords))
      BY <1>1, <2>1 DEF SetsOK, StopsIn
    <2> QED
      BY <2>2, <2>3 DEF SetsOK
  <1>5. /\ IndexTells(statistics', scanned')
        /\ \A g \in Keys : \A vec : Keeps(statistics, g, vec) => Keeps(statistics', g, vec)
    BY <1>1, <1>2, DisposeTells
  <1>6. ASSUME answer.kind = "list" PROVE AnswerShown(statistics', answer)
    <2>1. AnswerShown(statistics, answer)
      BY <1>1, <1>6 DEF AnswerOK
    <2>2. Indexed(answer.word)
      BY <2>1 DEF AnswerShown
    <2>3. Fold(answer.word) \in Keys
      BY <2>2, KeysAre
    <2>4. PICK vec : /\ Keeps(statistics, Fold(answer.word), vec)
                     /\ Descending(vec)
                     /\ answer.list = Shown(vec)
      BY <2>1, ShownIs
    <2>5. Keeps(statistics', Fold(answer.word), vec)
      BY <1>5, <2>3, <2>4
    <2> QED
      BY <2>2, <2>4, <2>5, ShownIs
  <1>7. AnswerOK'
    BY <1>1, <1>2, <1>6 DEF AnswerOK
  <1> QED
    BY <1>3, <1>4, <1>5, <1>7 DEF NewsInv

\* The reading: nothing has been answered yet.
LEMMA IndexSteps ==
    ASSUME NewsInv, Index
    PROVE  NewsInv'
  <1>1. /\ ControlOK /\ SetsOK /\ IndexTells(statistics, scanned) /\ AnswerOK
    BY DEF NewsInv
  <1>2. pc \notin {"query", "end"} /\ answer' = answer
    BY DEF Index, NextFeed, EndOfFeeds, ProcessFeedFromFile, ProcessFeed, GetNextItemTag, NoMoreItems,
           ReadTag, EndOfItem, ParseArticle, ParseArticleElsewhere, PuntArticle, ScanArticle, EndOfArticle
  <1>3. answer'.kind = "nothing"
    BY <1>1, <1>2 DEF AnswerOK
  <1>4. AnswerOK'
    BY <1>3 DEF AnswerOK
  <1>5. CASE ReadStep
    <2>1. ControlOK' /\ UNCHANGED <<sets, answer, scanned>>
      BY <1>1, <1>5, ReadSteps
    <2> QED
      BY <1>1, <1>4, <2>1 DEF NewsInv, SetsOK, sets
  <1>6. CASE ProcessFeedFromFile \/ ParseArticle
    <2>1. ControlOK' /\ More(scanned, scanned', {}) /\ UNCHANGED <<sets, answer>>
      BY <1>1, <1>6, ScanSteps
    <2>2. IndexTells(statistics, scanned')
      BY <1>1, <2>1, IndexOther
    <2> QED
      BY <1>1, <1>4, <2>1, <2>2 DEF NewsInv, SetsOK, sets
  <1>7. CASE ScanArticle
    <2>1. ControlOK' /\ IndexTells(statistics', scanned')
      BY <1>1, <1>7, WordStep
    <2>2. swords' = swords /\ used_articles' = used_articles
      BY <1>7 DEF ScanArticle
    <2> QED
      BY <1>1, <1>4, <2>1, <2>2 DEF NewsInv, SetsOK
  <1> QED
    BY <1>5, <1>6, <1>7 DEF Index, ReadStep

\* At every moment the index has exactly the words of the text, each once and with
\* its occurrences, and what has been answered agrees with it.
THEOREM NewsInvariant == Spec => []NewsInv
  <1>1. Init => NewsInv
    BY NewsInit
  <1>2. NewsInv /\ [Next]_vars => NewsInv'
    <2> SUFFICES ASSUME NewsInv, [Next]_vars PROVE NewsInv'
      OBVIOUS
    <2>1. CASE Index
      BY <2>1, IndexSteps
    <2>2. CASE Query
      <3>1. PICK word \in Queries : Refuse(word) \/ ProcessResponse(word)
        BY <2>2 DEF Query
      <3> QED
        BY <3>1, RefuseStep, ResponseStep
    <2>3. CASE Quit
      BY <2>3, QuitStep
    <2>4. CASE UNCHANGED vars
      BY <2>4 DEF vars, input, sets, NewsInv, ControlOK, SetsOK, AnswerOK
    <2> QED
      BY <2>1, <2>2, <2>3, <2>4 DEF Next, Finished
  <1> QED
    BY <1>1, <1>2, PTL DEF Spec

-----------------------------------------------------------------------------
(***************************************************************************)
(* What HashSetMap meets                                                   *)
(***************************************************************************)
\* HashSetElements goes over the buckets.
LEMMA JoinIs ==
    ASSUME NEW h
    PROVE  /\ Stats!HashSetElements(h) = ChosenJoin(h, h.num_buckets)[h.num_buckets]
           /\ Strings!HashSetElements(h) = ChosenJoin(h, h.num_buckets)[h.num_buckets]
  <1>1. Stats!HashSetElements(h) = ChosenJoin(h, h.num_buckets)[h.num_buckets]
    BY DEF Stats!HashSetElements, ChosenJoin, IsJoin, JoinStep, Stats!Elements, Elements
  <1>2. Strings!HashSetElements(h) = ChosenJoin(h, h.num_buckets)[h.num_buckets]
    BY DEF Strings!HashSetElements, ChosenJoin, IsJoin, JoinStep, Strings!Elements, Elements
  <1> QED
    BY <1>1, <1>2

\* What a sequence has.
LEMMA ToSetIs ==
    ASSUME NEW T, NEW s \in Seq(T)
    PROVE  /\ Len(s) \in Nat
           /\ DOMAIN s = 1 .. Len(s)
           /\ \A j \in DOMAIN s : s[j] \in T
           /\ \A e : e \in ToSet(s) <=> \E j \in DOMAIN s : e = s[j]
  <1>1. \A e : e \in ToSet(s) <=> \E j \in DOMAIN s : e = s[j]
    BY DEF ToSet
  <1> QED
    BY <1>1, LenProperties, ElementOfSeq

\* A set without elements.
LEMMA NoElements ==
    ASSUME NEW h, HasBuckets(h), NothingIn(h)
    PROVE  Strings!HashSetElements(h) = <<>>
  <1> DEFINE n == NumBuckets
             u == ChosenJoin(h, n)[n]
  <1>1. n \in Nat /\ h.num_buckets = n
    BY BucketRange DEF HasBuckets
  <1>2. \A b \in 0 .. (n - 1) : IsVector(h.buckets[b]) /\ 0 .. (h.buckets[b].log_len - 1) = {}
    BY DEF HasBuckets, NothingIn
  <1>3. Strings!HashSetElements(h) = u
    BY <1>1, JoinIs
  <1> HIDE DEF n, u
  <1>4. BucketsApart(h, n)
    BY <1>2 DEF BucketsApart
  <1>5. \A b \in 0 .. (n - 1) : Content(h.buckets[b]) \subseteq {}
    BY <1>2, ContentIs
  <1>6. u \in Seq({})
    BY <1>1, <1>4, <1>5, JoinMeetsAll DEF u
  <1>7. u = <<>>
    <2> SUFFICES ASSUME u # <<>> PROVE FALSE
      OBVIOUS
    <2>1. Head(u) \in {}
      BY <1>6, HeadTailProperties
    <2> QED
      BY <2>1
  <1> QED
    BY <1>3, <1>7

\* The elements of the index: one for each key that has been read.
LEMMA IndexElements ==
    ASSUME NEW h, NEW sc, IndexTells(h, sc), NEW u, u = Stats!HashSetElements(h)
    PROVE  /\ Len(u) \in Nat
           /\ DOMAIN u = 1 .. Len(u)
           /\ \A e : e \in ToSet(u) <=> \E j \in DOMAIN u : e = u[j]
           /\ \A j \in DOMAIN u : Entry(u[j], sc)
           /\ \A j, k \in DOMAIN u : j # k => statistics_key(u[j]) # statistics_key(u[k])
           /\ \A g \in IndexKeys : Has(sc, g) => \E j \in DOMAIN u : statistics_key(u[j]) = g
  <1> DEFINE n == NumBuckets
             T == UNION {Content(h.buckets[b]) : b \in 0 .. (n - 1)}
  <1>1. n \in Nat /\ h.num_buckets = n /\ \A g \in Keys : Bucket(g) \in 0 .. (n - 1)
    BY BucketRange DEF IndexTells, HasBuckets
  <1>2. u = ChosenJoin(h, n)[n]
    BY <1>1, JoinIs
  <1>3. \A b \in 0 .. (n - 1) : BucketTells(h.buckets[b], b, sc)
    BY DEF IndexTells
  <1> HIDE DEF n
  <1>4. ASSUME NEW b \in 0 .. (n - 1), NEW c \in 0 .. (n - 1),
               NEW i \in 0 .. (h.buckets[b].log_len - 1), NEW j \in 0 .. (h.buckets[c].log_len - 1),
               statistics_key(VectorNth(h.buckets[b], i)) = statistics_key(VectorNth(h.buckets[c], j))
        PROVE  b = c /\ i = j
    <2>1. b = c
      BY <1>3, <1>4 DEF BucketTells
    <2>2. i \in 0 .. (h.buckets[b].log_len - 1) /\ j \in 0 .. (h.buckets[b].log_len - 1)
      BY <2>1
    <2>3. i = j
      BY <1>3, <1>4, <2>1, <2>2 DEF BucketTells
    <2> QED
      BY <2>1, <2>3
  <1>5. BucketsApart(h, n)
    <2>1. ASSUME NEW b \in 0 .. (n - 1), NEW c \in 0 .. (n - 1),
                 NEW i \in 0 .. (h.buckets[b].log_len - 1), NEW j \in 0 .. (h.buckets[c].log_len - 1),
                 VectorNth(h.buckets[b], i) = VectorNth(h.buckets[c], j)
          PROVE  b = c /\ i = j
      BY <1>4, <2>1
    <2>2. \A b \in 0 .. (n - 1) : IsVector(h.buckets[b])
      BY <1>3 DEF BucketTells
    <2> QED
      BY <2>1, <2>2 DEF BucketsApart
  <1>6. \A b \in 0 .. (n - 1) : Content(h.buckets[b]) \subseteq T
    OBVIOUS
  <1> HIDE DEF T
  <1>7. u \in Seq(T) /\ Lists(u, h, n)
    BY <1>1, <1>2, <1>5, <1>6, JoinMeetsAll
  <1>8. \A j \in DOMAIN u : Entry(u[j], sc)
    BY <1>3, <1>7 DEF Lists, Sits, BucketTells
  <1>9. ASSUME NEW j \in DOMAIN u, NEW k \in DOMAIN u, statistics_key(u[j]) = statistics_key(u[k])
        PROVE  j = k
    <2>1. PICK b \in 0 .. (n - 1) : \E i \in 0 .. (h.buckets[b].log_len - 1) : u[j] = VectorNth(h.buckets[b], i)
      BY <1>7 DEF Lists, Sits
    <2>2. PICK i \in 0 .. (h.buckets[b].log_len - 1) : u[j] = VectorNth(h.buckets[b], i)
      BY <2>1
    <2>3. PICK c \in 0 .. (n - 1) : \E l \in 0 .. (h.buckets[c].log_len - 1) : u[k] = VectorNth(h.buckets[c], l)
      BY <1>7 DEF Lists, Sits
    <2>4. PICK l \in 0 .. (h.buckets[c].log_len - 1) : u[k] = VectorNth(h.buckets[c], l)
      BY <2>3
    <2>5. b = c /\ i = l
      BY <1>4, <1>9, <2>2, <2>4
    <2>6. u[j] = u[k]
      BY <2>2, <2>4, <2>5
    <2> QED
      BY <1>7, <2>6 DEF Lists
  <1>10. ASSUME NEW g \in IndexKeys, Has(sc, g) PROVE \E j \in DOMAIN u : statistics_key(u[j]) = g
    <2> DEFINE b == Bucket(g)
    <2>1. b \in 0 .. (n - 1)
      BY <1>1, KeysAre
    <2>2. PICK i \in 0 .. (h.buckets[b].log_len - 1) : statistics_key(VectorNth(h.buckets[b], i)) = g
      BY <1>3, <1>10, <2>1 DEF BucketTells
    <2> HIDE DEF b
    <2>3. \E j \in DOMAIN u : u[j] = VectorNth(h.buckets[b], i)
      BY <1>7, <2>1, <2>2 DEF Lists
    <2> QED
      BY <2>2, <2>3
  <1>11. /\ Len(u) \in Nat /\ DOMAIN u = 1 .. Len(u)
         /\ \A e : e \in ToSet(u) <=> \E j \in DOMAIN u : e = u[j]
    BY <1>7, ToSetIs
  <1> QED
    BY <1>8, <1>9, <1>10, <1>11

\* There are as many elements as keys.
LEMMA IndexSize ==
    ASSUME NEW u, Len(u) \in Nat, DOMAIN u = 1 .. Len(u),
           \A e : e \in ToSet(u) <=> \E j \in DOMAIN u : e = u[j],
           \A j, k \in DOMAIN u : j # k => statistics_key(u[j]) # statistics_key(u[k])
    PROVE  Len(u) = Cardinality({Fold(woa.word) : woa \in ToSet(u)})
  <1> DEFINE n == Len(u)
             K == {Fold(woa.word) : woa \in ToSet(u)}
             f == [j \in 1 .. n |-> statistics_key(u[j])]
  <1>1. n \in Nat /\ DOMAIN u = 1 .. n
    OBVIOUS
  <1>2. \A j \in 1 .. n : statistics_key(u[j]) \in K
    BY <1>1 DEF statistics_key
  <1>3. \A g \in K : \E j \in 1 .. n : statistics_key(u[j]) = g
    BY <1>1 DEF statistics_key
  <1> HIDE DEF n, K
  <1>4. f \in Bijection(1 .. n, K)
    <2>1. f \in [1 .. n -> K]
      BY <1>2
    <2>2. \A i, j \in 1 .. n : f[i] = f[j] => i = j
      BY <1>1
    <2>3. \A g \in K : \E i \in 1 .. n : f[i] = g
      BY <1>3
    <2> HIDE DEF f
    <2>4. f \in Injection(1 .. n, K)
      BY <2>1, <2>2 DEF Injection, IsInjective
    <2>5. f \in Surjection(1 .. n, K)
      BY <2>1, <2>3 DEF Surjection
    <2> QED
      BY <2>4, <2>5 DEF Bijection
  <1>5. ExistsBijection(1 .. n, K)
    BY <1>4 DEF ExistsBijection
  <1>6. Cardinality(K) = n
    BY <1>1, <1>5, FS_CountingElements
  <1> QED
    BY <1>6 DEF n, K

\* The smaller of two numbers.
LEMMA MinOfTwo ==
    ASSUME NEW a \in Int, NEW b \in Int
    PROVE  Min({a, b}) = IF a <= b THEN a ELSE b
  <1>1. CASE a <= b
    BY <1>1 DEF Min
  <1>2. CASE ~(a <= b)
    BY <1>2 DEF Min
  <1> QED
    BY <1>1, <1>2

\* The first articles of a vector are shown, one at least.
LEMMA ShownOf ==
    ASSUME NEW vec, IsVector(vec), vec.log_len # 0, NEW m,
           m = IF MaxShown <= vec.log_len THEN MaxShown ELSE vec.log_len
    PROVE  /\ m \in 1 .. MaxShown /\ m \in 1 .. vec.log_len
           /\ m # MaxShown => m = vec.log_len
           /\ Len(Shown(vec)) = m
           /\ DOMAIN Shown(vec) = 1 .. m
           /\ \A i \in 1 .. m : Shown(vec)[i] = VectorNth(vec, i - 1)
           /\ \A e : e \in ToSet(Shown(vec)) <=> \E i \in 1 .. m : e = VectorNth(vec, i - 1)
  <1> DEFINE n == vec.log_len
             all == Elements(vec)
             s == Shown(vec)
             T == Content(vec)
  <1>1. MaxShown \in Nat \ {0}
    BY NewsAssumption, Zenon
  <1>2. /\ n \in Nat /\ all \in Seq(T) /\ Len(all) = n
        /\ \A i \in 1 .. n : all[i] = VectorNth(vec, i - 1)
    BY ElementsAre
  <1>3. n # 0 /\ m = IF MaxShown <= n THEN MaxShown ELSE n
    OBVIOUS
  <1> HIDE DEF n
  <1>4. m = Min({MaxShown, n})
    BY <1>1, <1>2, <1>3, MinOfTwo
  <1>5. s = SubSeq(all, 1, m)
    BY <1>4 DEF Shown, VectorLength, n
  <1> HIDE DEF all, s, T
  <1>6. /\ m \in 1 .. MaxShown /\ m \in 1 .. n
        /\ m # MaxShown => m = n
    BY <1>1, <1>2, <1>3
  <1>7. \A i \in 1 .. m : i \in 1 .. n /\ all[i] \in T
    <2>1. \A i \in 1 .. m : i \in 1 .. n
      BY <1>2, <1>6
    <2> QED
      BY <1>2, <2>1, ElementOfSeq
  <1>8. /\ s \in Seq(T)
        /\ Len(s) = m
        /\ \A i \in 1 .. m : s[i] = all[i]
    <2>1. m \in Nat /\ 1 \in Int /\ 1 <= m + 1
      BY <1>1, <1>6
    <2>2. /\ s \in Seq(T)
          /\ Len(s) = IF 1 <= m THEN (m - 1) + 1 ELSE 0
          /\ \A i \in 1 .. ((m - 1) + 1) : s[i] = all[(1 + i) - 1]
      BY <1>5, <1>7, <2>1, SubSeqProperties
    <2>3. (m - 1) + 1 = m /\ 1 <= m /\ \A i \in 1 .. m : (1 + i) - 1 = i
      BY <1>6
    <2> QED
      BY <2>2, <2>3
  <1>9. \A i \in 1 .. m : s[i] = VectorNth(vec, i - 1)
    BY <1>2, <1>7, <1>8
  <1>10. DOMAIN s = 1 .. m
    BY <1>8, LenProperties
  <1>11. \A e : e \in ToSet(s) <=> \E i \in 1 .. m : e = VectorNth(vec, i - 1)
    BY <1>9, <1>10 DEF ToSet
  <1> QED
    BY <1>6, <1>8, <1>9, <1>10, <1>11 DEF n, s

\* The articles of a vector.
LEMMA OccsAre ==
    ASSUME NEW vec, NEW g, NEW sc, OccVec(vec, g, sc)
    PROVE  /\ ToSet(Elements(vec)) = Content(vec)
           /\ \A e \in Content(vec) : e \in Occs /\ FoundIn(sc, e, g) /\ e.occ_count <= CountIn(sc, e, g)
           /\ \A j, k \in DOMAIN Elements(vec) : j # k => ~Similar(Elements(vec)[j], Elements(vec)[k])
           /\ \A j \in DOMAIN Elements(vec) : Elements(vec)[j] \in Content(vec)
           /\ Content(vec) # {}
           /\ VectorLength(vec) \in 1 .. vec.alloc_len
  <1> DEFINE n == vec.log_len
             all == Elements(vec)
  <1>1. /\ IsVector(vec) /\ n # 0 /\ AllIn(vec, Occs) /\ Different(vec) /\ AllFound(vec, g, sc)
        /\ AllCounted(vec, g, sc)
    BY DEF OccVec
  <1>2. /\ n \in Nat
        /\ DOMAIN all = 1 .. n
        /\ \A i \in 1 .. n : all[i] = VectorNth(vec, i - 1)
        /\ Content(vec) = {all[i] : i \in 1 .. n}
    BY <1>1, ElementsAre
  <1>3. \A e : e \in Content(vec) <=> \E i \in 0 .. (n - 1) : e = VectorNth(vec, i)
    BY ContentIs
  <1>4. n \in 0 .. vec.alloc_len /\ vec.alloc_len \in Nat
    BY <1>1 DEF IsVector
  <1>5. ToSet(all) = Content(vec)
    BY <1>2 DEF ToSet
  <1>6. \A e \in Content(vec) : e \in Occs /\ FoundIn(sc, e, g) /\ e.occ_count <= CountIn(sc, e, g)
    BY <1>1, <1>3 DEF AllIn, AllFound, AllCounted
  <1>7. \A j, k \in DOMAIN all : j # k => ~Similar(all[j], all[k])
    <2>1. \A j \in 1 .. n : j - 1 \in 0 .. (n - 1)
      BY <1>2
    <2>2. \A j, k \in 1 .. n : j # k => j - 1 # k - 1
      BY <1>2
    <2> HIDE DEF all
    <2> QED
      BY <1>1, <1>2, <2>1, <2>2 DEF Different
  <1>8. 1 \in 1 .. n /\ n \in 1 .. vec.alloc_len
    BY <1>1, <1>2, <1>4
  <1> QED
    BY <1>2, <1>5, <1>6, <1>7, <1>8 DEF VectorLength

-----------------------------------------------------------------------------
(***************************************************************************)
(* The properties                                                          *)
(***************************************************************************)
\* The vector that an answer shows is the one that the index has for its word.
LEMMA AnswerFrom ==
    ASSUME NEW h, NEW sc, IndexTells(h, sc), NEW a, AnswerShown(h, a),
           NEW at, at = Stats!HashSetLookup(h, [word |-> a.word])
    PROVE  /\ OccVec(Stats!HashSetAt(h, at).vec, Fold(a.word), sc)
           /\ Descending(Stats!HashSetAt(h, at).vec)
           /\ a.list = Shown(Stats!HashSetAt(h, at).vec)
  <1> DEFINE g == Fold(a.word)
             v == h.buckets[Bucket(g)]
             e == Stats!HashSetAt(h, at)
             word == a.word
  <1>1. Indexed(word) /\ word \in WellFormed
    BY DEF AnswerShown, Indexed
  <1>2. g \in IndexKeys /\ g \in Keys
    BY <1>1, KeysAre
  <1>3. PICK i \in 0 .. (v.log_len - 1) :
           /\ statistics_key(VectorNth(v, i)) = g
           /\ Descending(VectorNth(v, i).vec)
           /\ a.list = Shown(VectorNth(v, i).vec)
    BY DEF AnswerShown
  <1>4. /\ at = NULL => \A j \in 0 .. (v.log_len - 1) : statistics_key(VectorNth(v, j)) # g
        /\ at # NULL => FoundAt(h, at, g)
    <2> HIDE DEF word, v, g
    <2> QED
      BY <1>1, LookupIs DEF word, v, g
  <1>5. FoundAt(h, at, g)
    BY <1>3, <1>4
  <1>6. i = at.index
    BY <1>3, <1>5 DEF FoundAt
  <1> HIDE DEF g, e
  <1>7. e = VectorNth(v, i) /\ Entry(e, sc) /\ statistics_key(e) = g
    BY <1>2, <1>5, <1>6, AtIs DEF e
  <1> HIDE DEF v
  <1> QED
    BY <1>3, <1>7 DEF Entry, g, e

\* TypeOK follows from the invariant.
LEMMA NewsTypes == NewsInv => TypeOK
  <1> SUFFICES ASSUME NewsInv PROVE TypeOK
    OBVIOUS
  <1>1. /\ ControlOK /\ SetsOK /\ IndexTells(statistics, scanned) /\ AnswerOK
    BY DEF NewsInv
  <1>2. pc \in {"feeds", "feed", "items", "item", "article", "scan", "query", "end"}
    BY <1>1 DEF ControlOK
  <1>3. Garbage \notin Occs
    <2>1. Garbage \notin [occ_count : Nat, title : STRING, addr : STRING]
      BY NewsAssumption, Zenon
    <2>2. Occs \subseteq [occ_count : Nat, title : STRING, addr : STRING]
      BY DEF Occs
    <2> QED
      BY <2>1, <2>2
  <1>4. ASSUME NEW woa \in ToSet(Stats!HashSetElements(statistics))
        PROVE  /\ woa.word \in WellFormed
               /\ VectorLength(woa.vec) \in 1 .. woa.vec.alloc_len
               /\ Garbage \notin ToSet(Elements(woa.vec))
               /\ \A occ \in ToSet(Elements(woa.vec)) : occ.occ_count \in Nat \ {0}
    <2> DEFINE u == Stats!HashSetElements(statistics)
    <2>1. \E j \in DOMAIN u : woa = u[j] /\ Entry(u[j], scanned)
      BY <1>1, IndexElements
    <2>2. Entry(woa, scanned)
      BY <2>1
    <2> DEFINE vec == woa.vec
               g == statistics_key(woa)
    <2>3. OccVec(vec, g, scanned) /\ woa.word \in WellFormed
      BY <2>2 DEF Entry, Indexed
    <2> HIDE DEF vec, g
    <2>4. /\ ToSet(Elements(vec)) = Content(vec)
          /\ \A e \in Content(vec) : e \in Occs
          /\ VectorLength(vec) \in 1 .. vec.alloc_len
      BY <2>3, OccsAre
    <2>5. \A e \in Occs : e.occ_count \in Nat \ {0}
      BY DEF Occs
    <2> QED
      BY <1>3, <2>3, <2>4, <2>5 DEF vec
  <1>5. Strings!HashSetElements(used_articles) = <<>>
    BY <1>1, NoElements DEF SetsOK
  <1>6. ASSUME answer.kind = "list" PROVE Len(answer.list) \in 1 .. MaxShown
    <2>1. AnswerShown(statistics, answer)
      BY <1>1, <1>6 DEF AnswerOK
    <2> DEFINE vec == Stats!HashSetAt(statistics, Stats!HashSetLookup(statistics, [word |-> answer.word])).vec
               g == Fold(answer.word)
               m == IF MaxShown <= vec.log_len THEN MaxShown ELSE vec.log_len
    <2>2. OccVec(vec, g, scanned) /\ answer.list = Shown(vec)
      BY <1>1, <2>1, AnswerFrom
    <2> HIDE DEF vec, g
    <2>3. IsVector(vec) /\ vec.log_len # 0
      BY <2>2 DEF OccVec
    <2>4. m \in 1 .. MaxShown /\ Len(Shown(vec)) = m
      BY <2>3, ShownOf
    <2> QED
      BY <2>2, <2>4
  <1> QED
    BY <1>2, <1>4, <1>5, <1>6 DEF TypeOK

\* The index holds articles with counts above zero, in vectors that have room for
\* them; no article is ever entered in used_articles; answers are not too long.
THEOREM TypesOK == Spec => []TypeOK
  BY NewsTypes, NewsInvariant, PTL

\* AnswersRanked follows too.
LEMMA NewsRanked == NewsInv => AnswersRanked
  <1> SUFFICES ASSUME NewsInv PROVE AnswersRanked
    OBVIOUS
  <1>1. /\ IndexTells(statistics, scanned) /\ AnswerOK /\ scanned \in Seq(Articles)
    BY DEF NewsInv, ControlOK
  <1> DEFINE vec == Stats!HashSetAt(statistics, Statistic(answer.word)).vec
             all == Elements(vec)
             list == answer.list
  <1>2. ASSUME answer.kind = "list"
        PROVE  /\ ToSet(list) \subseteq ToSet(all)
               /\ \A i, j \in DOMAIN list : i < j => list[i].occ_count >= list[j].occ_count
               /\ \A occ \in ToSet(all) \ ToSet(list) :
                     /\ Len(list) = MaxShown
                     /\ occ.occ_count <= list[MaxShown].occ_count
    <2> DEFINE g == Fold(answer.word)
               n == vec.log_len
               m == IF MaxShown <= vec.log_len THEN MaxShown ELSE vec.log_len
    <2>1. AnswerShown(statistics, answer)
      BY <1>1, <1>2 DEF AnswerOK
    <2>2. OccVec(vec, g, scanned) /\ Descending(vec) /\ list = Shown(vec)
      BY <1>1, <2>1, AnswerFrom DEF Statistic
    <2> HIDE DEF vec, g, list
    <2>3. IsVector(vec) /\ vec.log_len # 0 /\ AllIn(vec, Occs)
      BY <2>2 DEF OccVec
    <2>4. ToSet(all) = Content(vec) /\ \A e : e \in Content(vec) <=> \E i \in 0 .. (n - 1) : e = VectorNth(vec, i)
      BY <2>2, OccsAre, ContentIs
    <2>5. n \in Nat /\ MaxShown \in Nat \ {0}
      <3>1. MaxShown \in Nat \ {0}
        BY NewsAssumption, Zenon
      <3> QED
        BY <2>3, <3>1 DEF IsVector
    <2>6. /\ m \in 1 .. MaxShown /\ m \in 1 .. n
          /\ m # MaxShown => m = n
          /\ Len(list) = m
          /\ DOMAIN list = 1 .. m
          /\ \A i \in 1 .. m : list[i] = VectorNth(vec, i - 1)
          /\ \A e : e \in ToSet(list) <=> \E i \in 1 .. m : e = VectorNth(vec, i - 1)
      BY <2>2, <2>3, ShownOf
    <2>7. /\ \A i \in 0 .. (n - 1) : VectorNth(vec, i).occ_count \in Nat
          /\ \A i, j \in 0 .. (n - 1) : i < j => VectorNth(vec, i).occ_count >= VectorNth(vec, j).occ_count
      BY <2>2, <2>3 DEF AllIn, Occs, Descending
    <2> HIDE DEF all, m, n
    <2>8. \A i \in 1 .. m : i - 1 \in 0 .. (n - 1)
      BY <2>5, <2>6
    <2>9. ToSet(list) \subseteq ToSet(all)
      BY <2>4, <2>6, <2>8
    <2>10. ASSUME NEW i \in DOMAIN list, NEW j \in DOMAIN list, i < j
           PROVE  list[i].occ_count >= list[j].occ_count
      <3>1. i \in 1 .. m /\ j \in 1 .. m
        BY <2>6
      <3>2. i - 1 \in 0 .. (n - 1) /\ j - 1 \in 0 .. (n - 1) /\ i - 1 < j - 1
        BY <2>5, <2>6, <2>8, <2>10, <3>1
      <3> QED
        BY <2>6, <2>7, <3>1, <3>2
    <2>11. ASSUME NEW occ \in ToSet(all) \ ToSet(list)
           PROVE  Len(list) = MaxShown /\ occ.occ_count <= list[MaxShown].occ_count
      <3>1. PICK k \in 0 .. (n - 1) : occ = VectorNth(vec, k)
        BY <2>4, <2>11
      <3>2. k + 1 \notin 1 .. m
        <4>1. (k + 1) - 1 = k
          BY <2>5
        <4> QED
          BY <2>6, <2>11, <3>1, <4>1
      <3>3. k >= m /\ m = MaxShown
        BY <2>5, <2>6, <3>2
      <3>4. MaxShown \in 1 .. m /\ MaxShown - 1 \in 0 .. (n - 1) /\ MaxShown - 1 < k
        BY <2>5, <2>6, <3>3
      <3>5. list[MaxShown] = VectorNth(vec, MaxShown - 1)
        BY <2>6, <3>4
      <3>6. /\ VectorNth(vec, MaxShown - 1).occ_count >= VectorNth(vec, k).occ_count
            /\ VectorNth(vec, k).occ_count \in Nat /\ VectorNth(vec, MaxShown - 1).occ_count \in Nat
        BY <2>7, <3>4
      <3>7. VectorNth(vec, k).occ_count <= VectorNth(vec, MaxShown - 1).occ_count
        BY <3>6
      <3> QED
        BY <2>6, <3>1, <3>3, <3>5, <3>7
    <2> QED
      BY <2>9, <2>10, <2>11
  <1>3. ASSUME answer.kind = "none" PROVE Occurrences(answer.word, DOMAIN scanned) = 0
    <2>1. ~Has(scanned, Fold(answer.word))
      BY <1>1, <1>3 DEF AnswerOK
    <2>2. CountOf(scanned, Fold(answer.word)) = 0
      BY <1>1, <2>1, PlacesFinite
    <2> QED
      BY <2>2 DEF Occurrences, Places, CountOf, PlacesOf
  <1> HIDE DEF vec, list
  <1> QED
    BY <1>2, <1>3 DEF AnswersRanked, vec, list

\* What is answered of a word is what the index has of it, the articles with most
\* occurrences first, and there is no answer only for a word that is in no article.
THEOREM AnswersAreRanked == Spec => []AnswersRanked
  BY NewsRanked, NewsInvariant, PTL

\* How often a word is in one article, if it is there.
LEMMA OneArticle ==
    ASSUME scanned \in Seq(Articles), NEW word, NEW i \in DOMAIN scanned,
           \E k \in DOMAIN scanned[i].words : Fold(scanned[i].words[k]) = Fold(word)
    PROVE  Occurrences(word, {i}) > 0
  <1> DEFINE P == Places(word, {i})
             g == Fold(word)
  <1>1. P \subseteq PlacesOf(scanned, g)
    BY DEF Places, PlacesOf
  <1>2. PICK k \in DOMAIN scanned[i].words : Fold(scanned[i].words[k]) = g
    OBVIOUS
  <1>3. <<i, k>> \in P
    BY <1>2 DEF Places
  <1>4. IsFiniteSet(PlacesOf(scanned, g))
    BY PlacesFinite
  <1> HIDE DEF P
  <1>5. IsFiniteSet(P) /\ P # {}
    BY <1>1, <1>3, <1>4, FS_Subset
  <1>6. Cardinality(P) \in Nat /\ Cardinality(P) # 0
    BY <1>5, FS_CardinalityType, FS_EmptySet
  <1> QED
    BY <1>6 DEF Occurrences, P

\* And so does CountsMatchText.
LEMMA NewsCounts == NewsInv => CountsMatchText
  <1> SUFFICES ASSUME NewsInv PROVE CountsMatchText
    OBVIOUS
  <1>1. IndexTells(statistics, scanned) /\ scanned \in Seq(Articles)
    BY DEF NewsInv, ControlOK
  <1> DEFINE u == Stats!HashSetElements(statistics)
             read == UNION {ToSet(scanned[i].words) : i \in DOMAIN scanned}
  <1>2. /\ Len(u) \in Nat
        /\ DOMAIN u = 1 .. Len(u)
        /\ \A e : e \in ToSet(u) <=> \E j \in DOMAIN u : e = u[j]
        /\ \A j \in DOMAIN u : Entry(u[j], scanned)
        /\ \A j, k \in DOMAIN u : j # k => statistics_key(u[j]) # statistics_key(u[k])
        /\ \A g \in IndexKeys : Has(scanned, g) => \E j \in DOMAIN u : statistics_key(u[j]) = g
    BY <1>1, IndexElements
  <1> HIDE DEF u
  <1>3. ASSUME NEW i \in DOMAIN scanned
        PROVE  /\ \A k \in DOMAIN scanned[i].words : scanned[i].words[k] \in Words
               /\ \A x : x \in ToSet(scanned[i].words) <=> \E k \in DOMAIN scanned[i].words : x = scanned[i].words[k]
    <2>1. scanned[i].words \in Seq(Words)
      BY <1>1, ArticleIs
    <2> QED
      BY <2>1, ToSetIs
  <1>4. \A x : x \in read <=> \E i \in DOMAIN scanned : \E k \in DOMAIN scanned[i].words : x = scanned[i].words[k]
    BY <1>3
  <1>5. \A x \in read : x \in Words
    BY <1>3, <1>4
  <1> HIDE DEF read
  <1>6. ASSUME NEW woa \in ToSet(u)
        PROVE  /\ Entry(woa, scanned)
               /\ OccVec(woa.vec, Fold(woa.word), scanned)
               /\ Fold(woa.word) \in IndexKeys
               /\ Has(scanned, Fold(woa.word))
    <2>1. Entry(woa, scanned)
      BY <1>2
    <2>2. OccVec(woa.vec, Fold(woa.word), scanned) /\ Fold(woa.word) \in IndexKeys
      BY <2>1, KeysAre DEF Entry, statistics_key
    <2>3. \E e : FoundIn(scanned, e, Fold(woa.word))
      BY <2>2, OccsAre
    <2> QED
      BY <2>1, <2>2, <2>3 DEF FoundIn, Has
  <1>7. ASSUME NEW woa \in ToSet(u)
        PROVE  \E w \in read : Indexed(w) /\ Fold(w) = Fold(woa.word)
    <2>1. PICK i \in DOMAIN scanned : \E k \in DOMAIN scanned[i].words : Fold(scanned[i].words[k]) = Fold(woa.word)
      BY <1>6 DEF Has
    <2>2. PICK k \in DOMAIN scanned[i].words : Fold(scanned[i].words[k]) = Fold(woa.word)
      BY <2>1
    <2> DEFINE w == scanned[i].words[k]
    <2>3. w \in read /\ Fold(w) = Fold(woa.word)
      BY <1>4, <2>2
    <2> HIDE DEF w
    <2>4. Indexed(w)
      BY <1>5, <1>6, <2>3, KeysAre
    <2> QED
      BY <2>3, <2>4
  <1>8. ASSUME NEW w \in read, Indexed(w)
        PROVE  \E woa \in ToSet(u) : Fold(woa.word) = Fold(w)
    <2>1. Fold(w) \in IndexKeys
      BY <1>8, KeysAre
    <2>2. Has(scanned, Fold(w))
      BY <1>4 DEF Has
    <2>3. PICK j \in DOMAIN u : statistics_key(u[j]) = Fold(w)
      BY <1>2, <2>1, <2>2
    <2>4. u[j] \in ToSet(u)
      BY <1>2
    <2> QED
      BY <2>3, <2>4 DEF statistics_key
  <1>9. {Fold(woa.word) : woa \in ToSet(u)} =
           {Fold(w) : w \in {x \in read : WordIsWellFormed(x) /\ ~IsStopWord(x)}}
    <2>1. \A x : WordIsWellFormed(x) /\ ~IsStopWord(x) <=> Indexed(x)
      BY DEF Indexed, WordIsWellFormed
    <2> QED
      BY <1>7, <1>8, <2>1
  <1>10. Len(u) = Cardinality({Fold(woa.word) : woa \in ToSet(u)})
    BY <1>2, IndexSize
  <1>11. ASSUME NEW woa \in ToSet(u)
         PROVE  LET occs == Elements(woa.vec)
                IN  /\ SumOfCounts(occs) = Occurrences(woa.word, DOMAIN scanned)
                    /\ \A j, k \in DOMAIN occs : j # k => ~Similar(occs[j], occs[k])
                    /\ \A j \in DOMAIN occs :
                          \E i \in DOMAIN scanned :
                             /\ scanned[i].title = occs[j].title /\ scanned[i].addr = occs[j].addr
                             /\ Occurrences(woa.word, {i}) > 0
                    /\ \A j \in DOMAIN occs :
                          occs[j].occ_count <=
                             Occurrences(woa.word, {i \in DOMAIN scanned : Similar(scanned[i], occs[j])})
    <2> DEFINE vec == woa.vec
               g == Fold(woa.word)
               occs == Elements(vec)
    <2>1. OccVec(vec, g, scanned)
      BY <1>6
    <2>2. Occurrences(woa.word, DOMAIN scanned) = CountOf(scanned, g)
      BY DEF Occurrences, Places, CountOf, PlacesOf
    <2>3. \A i \in DOMAIN scanned :
             (\E k \in DOMAIN scanned[i].words : Fold(scanned[i].words[k]) = g) =>
                Occurrences(woa.word, {i}) > 0
      BY <1>1, OneArticle
    <2>7. \A o : Occurrences(woa.word, {i \in DOMAIN scanned : Similar(scanned[i], o)}) =
                   CountIn(scanned, o, g)
      BY DEF Occurrences, Places, CountIn, PlacesIn
    <2> HIDE DEF vec, g
    <2>4. /\ ToSet(occs) = Content(vec)
          /\ \A e \in Content(vec) : FoundIn(scanned, e, g) /\ e.occ_count <= CountIn(scanned, e, g)
          /\ \A j, k \in DOMAIN occs : j # k => ~Similar(occs[j], occs[k])
          /\ \A j \in DOMAIN occs : occs[j] \in Content(vec)
      BY <2>1, OccsAre
    <2> HIDE DEF occs
    <2>5. SumOfCounts(occs) = CountOf(scanned, g)
      <3>1. Total(Content(vec)) = CountOf(scanned, g)
        BY <2>1 DEF OccVec
      <3>2. SumOfCounts(occs) = Total(ToSet(occs))
        BY DEF SumOfCounts, Total
      <3> QED
        BY <2>4, <3>1, <3>2
    <2>6. ASSUME NEW j \in DOMAIN occs
          PROVE  \E i \in DOMAIN scanned :
                    /\ scanned[i].title = occs[j].title /\ scanned[i].addr = occs[j].addr
                    /\ Occurrences(woa.word, {i}) > 0
      BY <2>3, <2>4 DEF FoundIn
    <2>8. ASSUME NEW j \in DOMAIN occs
          PROVE  occs[j].occ_count <=
                    Occurrences(woa.word, {i \in DOMAIN scanned : Similar(scanned[i], occs[j])})
      BY <2>4, <2>7
    <2> QED
      BY <2>2, <2>4, <2>5, <2>6, <2>8 DEF occs, vec
  <1> QED
    BY <1>9, <1>10, <1>11 DEF CountsMatchText, u, read

\* At every moment the index says of each word how often it has been read, and in
\* which articles: no word is lost, counted twice or made up.
THEOREM CountsAreRight == Spec => []CountsMatchText
  BY NewsCounts, NewsInvariant, PTL
=============================================================================
