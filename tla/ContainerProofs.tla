-------------------------- MODULE ContainerProofs --------------------------
(***************************************************************************)
(* Proofs about Vector, HashSet and Containers for every number of letters *)
(* and buckets, every initial allocation and every pair of primes.  First  *)
(* what each operation of the vector does to the sequence that a client    *)
(* sees; then the table of letter counts; then the client's invariant, and *)
(* that it cannot tell the containers from a map and a sequence.           *)
(***************************************************************************)
EXTENDS Containers, LibraryProofs

-----------------------------------------------------------------------------
(***************************************************************************)
(* The sequence that a client sees                                         *)
(***************************************************************************)
\* Where the library's InsertAt leaves the elements.
LEMMA InsertAtIs ==
    ASSUME NEW S, NEW s \in Seq(S), NEW e \in S, NEW i \in 1 .. (Len(s) + 1)
    PROVE  /\ InsertAt(s, i, e) \in Seq(S)
           /\ Len(InsertAt(s, i, e)) = Len(s) + 1
           /\ \A j \in 1 .. (Len(s) + 1) :
                 InsertAt(s, i, e)[j] = IF j = i THEN e ELSE IF j < i THEN s[j] ELSE s[j - 1]
  <1> DEFINE a == SubSeq(s, 1, i - 1)
             b == SubSeq(s, i, Len(s))
             t == a \o <<e>>
  <1>1. Len(s) \in Nat /\ i \in Nat /\ \A j \in 1 .. Len(s) : s[j] \in S
    BY LenProperties, ElementOfSeq
  <1>2. /\ a \in Seq(S) /\ Len(a) = i - 1
        /\ \A j \in 1 .. (i - 1) : a[j] = s[j]
    <2>1. 1 \in Int /\ i - 1 \in Int /\ \A j \in 1 .. (i - 1) : s[j] \in S
      BY <1>1
    <2>2. /\ a \in Seq(S) /\ Len(a) = (IF 1 <= i - 1 THEN (i - 1) - 1 + 1 ELSE 0)
          /\ \A j \in 1 .. ((i - 1) - 1 + 1) : a[j] = s[1 + j - 1]
      BY <2>1, SubSeqProperties
    <2> HIDE DEF a
    <2> QED
      BY <1>1, <2>2
  <1>3. /\ b \in Seq(S) /\ Len(b) = (Len(s) - i) + 1
        /\ \A j \in 1 .. ((Len(s) - i) + 1) : b[j] = s[(i + j) - 1]
    <2>1. i \in Int /\ Len(s) \in Int /\ \A j \in i .. Len(s) : s[j] \in S
      BY <1>1
    <2>2. /\ b \in Seq(S) /\ Len(b) = (IF i <= Len(s) THEN Len(s) - i + 1 ELSE 0)
          /\ \A j \in 1 .. (Len(s) - i + 1) : b[j] = s[i + j - 1]
      BY <2>1, SubSeqProperties
    <2> HIDE DEF b
    <2> QED
      BY <1>1, <2>2
  <1> HIDE DEF a, b
  <1>4. <<e>> \in Seq(S) /\ Len(<<e>>) = 1 /\ <<e>>[1] = e
    OBVIOUS
  <1>5. /\ t \in Seq(S) /\ Len(t) = Len(a) + 1
        /\ \A j \in 1 .. (Len(a) + 1) : t[j] = IF j <= Len(a) THEN a[j] ELSE e
    <2>1. /\ t \in Seq(S) /\ Len(t) = Len(a) + Len(<<e>>)
          /\ \A j \in 1 .. (Len(a) + Len(<<e>>)) :
                t[j] = IF j <= Len(a) THEN a[j] ELSE <<e>>[j - Len(a)]
      BY <1>2, <1>4, ConcatProperties
    <2>2. \A j \in 1 .. (Len(a) + 1) : ~(j <= Len(a)) => j - Len(a) = 1
      BY <1>1, <1>2
    <2> HIDE DEF t
    <2> QED
      BY <1>4, <2>1, <2>2
  <1>6. InsertAt(s, i, e) = t \o b
    BY DEF InsertAt, a, b
  <1> HIDE DEF t
  <1>7. /\ t \o b \in Seq(S) /\ Len(t \o b) = Len(t) + Len(b)
        /\ \A j \in 1 .. (Len(t) + Len(b)) :
              (t \o b)[j] = IF j <= Len(t) THEN t[j] ELSE b[j - Len(t)]
    BY <1>3, <1>5, ConcatProperties
  <1>8. Len(t) + Len(b) = Len(s) + 1 /\ Len(t) = i /\ Len(a) = i - 1
    BY <1>1, <1>2, <1>3, <1>5
  <1>9. ASSUME NEW j \in 1 .. (Len(s) + 1)
        PROVE  (t \o b)[j] = IF j = i THEN e ELSE IF j < i THEN s[j] ELSE s[j - 1]
    <2>1. CASE j < i
      <3>1. j \in 1 .. (i - 1) /\ j \in 1 .. (Len(a) + 1) /\ j <= Len(a) /\ j <= Len(t)
        BY <1>1, <1>8, <2>1
      <3>2. (t \o b)[j] = t[j] /\ t[j] = a[j] /\ a[j] = s[j]
        BY <1>2, <1>5, <1>7, <1>8, <3>1
      <3> QED
        BY <1>1, <2>1, <3>2
    <2>2. CASE j = i
      <3>1. j \in 1 .. (Len(a) + 1) /\ ~(j <= Len(a)) /\ j <= Len(t)
        BY <1>1, <1>8, <2>2
      <3>2. (t \o b)[j] = t[j] /\ t[j] = e
        BY <1>5, <1>7, <1>8, <3>1
      <3> QED
        BY <2>2, <3>2
    <2>3. CASE j > i
      <3>1. j - i \in 1 .. ((Len(s) - i) + 1) /\ (i + (j - i)) - 1 = j - 1 /\ ~(j <= Len(t))
        BY <1>1, <1>8, <2>3
      <3>2. (t \o b)[j] = b[j - i]
        BY <1>7, <1>8, <3>1
      <3> QED
        BY <1>1, <1>3, <2>3, <3>1, <3>2
    <2>4. j < i \/ j = i \/ j > i
      BY <1>1
    <2> QED
      BY <2>1, <2>2, <2>3, <2>4, Zenon
  <1> QED
    BY <1>6, <1>7, <1>8, <1>9

\* And RemoveAt.
LEMMA RemoveAtIs ==
    ASSUME NEW S, NEW s \in Seq(S), NEW i \in 1 .. Len(s)
    PROVE  /\ RemoveAt(s, i) \in Seq(S)
           /\ Len(RemoveAt(s, i)) = Len(s) - 1
           /\ \A j \in 1 .. (Len(s) - 1) :
                 RemoveAt(s, i)[j] = IF j < i THEN s[j] ELSE s[j + 1]
  <1> DEFINE a == SubSeq(s, 1, i - 1)
             b == SubSeq(s, i + 1, Len(s))
  <1>1. Len(s) \in Nat /\ i \in Nat /\ \A j \in 1 .. Len(s) : s[j] \in S
    BY LenProperties, ElementOfSeq
  <1>2. /\ a \in Seq(S) /\ Len(a) = i - 1
        /\ \A j \in 1 .. (i - 1) : a[j] = s[j]
    <2>1. 1 \in Int /\ i - 1 \in Int /\ \A j \in 1 .. (i - 1) : s[j] \in S
      BY <1>1
    <2>2. /\ a \in Seq(S) /\ Len(a) = (IF 1 <= i - 1 THEN (i - 1) - 1 + 1 ELSE 0)
          /\ \A j \in 1 .. ((i - 1) - 1 + 1) : a[j] = s[1 + j - 1]
      BY <2>1, SubSeqProperties
    <2> HIDE DEF a
    <2> QED
      BY <1>1, <2>2
  <1>3. /\ b \in Seq(S) /\ Len(b) = Len(s) - i
        /\ \A j \in 1 .. (Len(s) - i) : b[j] = s[i + j]
    <2>1. i + 1 \in Int /\ Len(s) \in Int /\ \A j \in (i + 1) .. Len(s) : s[j] \in S
      BY <1>1
    <2>2. /\ b \in Seq(S) /\ Len(b) = (IF i + 1 <= Len(s) THEN Len(s) - (i + 1) + 1 ELSE 0)
          /\ \A j \in 1 .. (Len(s) - (i + 1) + 1) : b[j] = s[(i + 1) + j - 1]
      BY <2>1, SubSeqProperties
    <2> HIDE DEF b
    <2> QED
      BY <1>1, <2>2
  <1>4. RemoveAt(s, i) = a \o b
    BY DEF RemoveAt
  <1> HIDE DEF a, b
  <1>5. /\ a \o b \in Seq(S) /\ Len(a \o b) = Len(a) + Len(b)
        /\ \A j \in 1 .. (Len(a) + Len(b)) :
              (a \o b)[j] = IF j <= Len(a) THEN a[j] ELSE b[j - Len(a)]
    BY <1>2, <1>3, ConcatProperties
  <1>6. Len(a) + Len(b) = Len(s) - 1
    BY <1>1, <1>2, <1>3
  <1>7. ASSUME NEW j \in 1 .. (Len(s) - 1)
        PROVE  (a \o b)[j] = IF j < i THEN s[j] ELSE s[j + 1]
    <2>1. CASE j < i
      BY <1>1, <1>2, <1>5, <1>6, <2>1
    <2>2. CASE ~(j < i)
      <3>1. /\ j - Len(a) \in 1 .. (Len(s) - i) /\ i + (j - Len(a)) = j + 1 /\ ~(j <= Len(a))
            /\ j \in 1 .. (Len(a) + Len(b))
        BY <1>1, <1>2, <1>6, <2>2
      <3>2. (a \o b)[j] = b[j - Len(a)]
        BY <1>5, <3>1
      <3> QED
        BY <1>3, <2>2, <3>1, <3>2
    <2> QED
      BY <2>1, <2>2
  <1> QED
    BY <1>4, <1>5, <1>6, <1>7

\* VectorInsert inserts.
LEMMA ElementsInsert ==
    ASSUME NEW v, IsVector(v), NEW elem, NEW pos \in 0 .. v.log_len
    PROVE  Elements(VectorInsert(v, elem, pos)) = InsertAt(Elements(v), pos + 1, elem)
  <1> DEFINE w == VectorInsert(v, elem, pos)
             S == Content(v) \cup {elem} \cup Content(w)
             s == Elements(v)
             t == Elements(w)
             u == InsertAt(s, pos + 1, elem)
             n == v.log_len
  <1>1. /\ IsVector(w) /\ w.log_len = n + 1
        /\ \A i \in 0 .. n : VectorNth(w, i) = IF i = pos THEN elem ELSE IF i < pos THEN VectorNth(v, i) ELSE VectorNth(v, i - 1)
    BY InsertIs
  <1> HIDE DEF w
  <1>2. n \in Nat /\ s \in Seq(Content(v)) /\ Len(s) = n /\ \A i \in 1 .. n : s[i] = VectorNth(v, i - 1)
    BY ElementsAre
  <1>3. t \in Seq(Content(w)) /\ Len(t) = n + 1 /\ \A i \in 1 .. (n + 1) : t[i] = VectorNth(w, i - 1)
    BY <1>1, ElementsAre
  <1> HIDE DEF s, t
  <1>4. s \in Seq(S) /\ t \in Seq(S) /\ elem \in S
    <2>1. Content(v) \subseteq S /\ Content(w) \subseteq S /\ elem \in S
      OBVIOUS
    <2> HIDE DEF S
    <2> QED
      BY <1>2, <1>3, <2>1, SeqMonotonic
  <1> HIDE DEF S, n
  <1>5. pos + 1 \in 1 .. (Len(s) + 1)
    BY <1>2 DEF n
  <1>6. /\ u \in Seq(S) /\ Len(u) = n + 1
        /\ \A j \in 1 .. (n + 1) : u[j] = IF j = pos + 1 THEN elem ELSE IF j < pos + 1 THEN s[j] ELSE s[j - 1]
    <2> DEFINE i == pos + 1
    <2> HIDE DEF i
    <2>1. i \in 1 .. (Len(s) + 1)
      BY <1>5 DEF i
    <2>2. /\ InsertAt(s, i, elem) \in Seq(S)
          /\ Len(InsertAt(s, i, elem)) = Len(s) + 1
          /\ \A j \in 1 .. (Len(s) + 1) :
                InsertAt(s, i, elem)[j] = IF j = i THEN elem ELSE IF j < i THEN s[j] ELSE s[j - 1]
      <3> HIDE DEF u
      <3> QED
        BY <1>4, <2>1, InsertAtIs, SMTT(30)
    <2> QED
      BY <1>2, <2>2 DEF i
  <1> HIDE DEF u
  <1>7. ASSUME NEW j \in 1 .. (n + 1) PROVE t[j] = u[j]
    <2>1. j - 1 \in 0 .. n /\ pos \in Int /\ n \in Nat
      BY <1>2 DEF n
    <2>2. t[j] = IF j - 1 = pos THEN elem ELSE IF j - 1 < pos THEN VectorNth(v, j - 1) ELSE VectorNth(v, (j - 1) - 1)
      BY <1>1, <1>3, <2>1
    <2>3. CASE j - 1 = pos
      BY <1>6, <2>1, <2>2, <2>3
    <2>4. CASE j - 1 < pos
      <3>1. s[j] = VectorNth(v, j - 1)
        BY <1>2, <2>1, <2>4 DEF n
      <3> QED
        BY <1>6, <2>1, <2>2, <2>4, <3>1
    <2>5. CASE j - 1 > pos
      <3>1. s[j - 1] = VectorNth(v, (j - 1) - 1)
        BY <1>2, <2>1, <2>5 DEF n
      <3>2. t[j] = VectorNth(v, (j - 1) - 1)
        BY <2>1, <2>2, <2>5
      <3>3. u[j] = s[j - 1]
        BY <1>6, <2>1, <2>5
      <3> QED
        BY <3>1, <3>2, <3>3
    <2> QED
      BY <2>1, <2>3, <2>4, <2>5
  <1>8. t = u
    BY <1>3, <1>4, <1>6, <1>7, SeqEqual
  <1> QED
    BY <1>8 DEF t, u, s, w

\* VectorAppend inserts at the end.
LEMMA ElementsAppend ==
    ASSUME NEW v, IsVector(v), NEW elem
    PROVE  /\ Elements(VectorAppend(v, elem)) = Append(Elements(v), elem)
           /\ Elements(VectorAppend(v, elem)) = InsertAt(Elements(v), Len(Elements(v)) + 1, elem)
  <1> DEFINE w == VectorAppend(v, elem)
             S == Content(v) \cup {elem} \cup Content(w)
             s == Elements(v)
             t == Elements(w)
             n == v.log_len
             u == InsertAt(s, Len(s) + 1, elem)
             x == Append(s, elem)
  <1>1. /\ IsVector(w) /\ w.log_len = n + 1 /\ VectorNth(w, n) = elem
        /\ \A i \in 0 .. (n - 1) : VectorNth(w, i) = VectorNth(v, i)
    BY AppendIs
  <1> HIDE DEF w
  <1>2. n \in Nat /\ s \in Seq(Content(v)) /\ Len(s) = n /\ \A i \in 1 .. n : s[i] = VectorNth(v, i - 1)
    BY ElementsAre
  <1>3. t \in Seq(Content(w)) /\ Len(t) = n + 1 /\ \A i \in 1 .. (n + 1) : t[i] = VectorNth(w, i - 1)
    BY <1>1, ElementsAre
  <1> HIDE DEF s, t
  <1>4. s \in Seq(S) /\ t \in Seq(S) /\ elem \in S
    <2>1. Content(v) \subseteq S /\ Content(w) \subseteq S /\ elem \in S
      OBVIOUS
    <2> HIDE DEF S
    <2> QED
      BY <1>2, <1>3, <2>1, SeqMonotonic
  <1> HIDE DEF S, n
  <1>5. /\ u \in Seq(S) /\ Len(u) = n + 1
        /\ \A j \in 1 .. (n + 1) : u[j] = IF j = n + 1 THEN elem ELSE IF j < n + 1 THEN s[j] ELSE s[j - 1]
    <2> DEFINE i == Len(s) + 1
    <2> HIDE DEF i
    <2>1. i \in 1 .. (Len(s) + 1)
      BY <1>2 DEF i
    <2>2. /\ InsertAt(s, i, elem) \in Seq(S)
          /\ Len(InsertAt(s, i, elem)) = Len(s) + 1
          /\ \A j \in 1 .. (Len(s) + 1) :
                InsertAt(s, i, elem)[j] = IF j = i THEN elem ELSE IF j < i THEN s[j] ELSE s[j - 1]
      BY <1>4, <2>1, InsertAtIs
    <2> QED
      BY <1>2, <2>2 DEF i
  <1>6. /\ x \in Seq(S) /\ Len(x) = n + 1
        /\ \A j \in 1 .. n : x[j] = s[j]
        /\ x[n + 1] = elem
    BY <1>2, <1>4, AppendProperties
  <1> HIDE DEF u, x
  <1>7. ASSUME NEW j \in 1 .. (n + 1) PROVE t[j] = u[j] /\ t[j] = x[j]
    <2>1. CASE j = n + 1
      <3>1. t[j] = VectorNth(w, n)
        BY <1>2, <1>3, <2>1
      <3> QED
        BY <1>1, <1>5, <1>6, <2>1, <3>1
    <2>2. CASE j # n + 1
      <3>1. j \in 1 .. n /\ j - 1 \in 0 .. (n - 1) /\ j < n + 1
        BY <1>2, <2>2
      <3>2. t[j] = s[j]
        BY <1>1, <1>2, <1>3, <3>1
      <3> QED
        BY <1>5, <1>6, <2>2, <3>1, <3>2
    <2> QED
      BY <2>1, <2>2
  <1>8. t = u
    BY <1>3, <1>4, <1>5, <1>7, SeqEqual
  <1>9. t = x
    BY <1>3, <1>4, <1>6, <1>7, SeqEqual
  <1> QED
    BY <1>8, <1>9 DEF t, u, s, w, x

\* VectorDelete removes.
LEMMA ElementsDelete ==
    ASSUME NEW v, IsVector(v), NEW pos \in 0 .. (v.log_len - 1)
    PROVE  Elements(VectorDelete(v, pos)) = RemoveAt(Elements(v), pos + 1)
  <1> DEFINE w == VectorDelete(v, pos)
             S == Content(v) \cup Content(w)
             s == Elements(v)
             t == Elements(w)
             u == RemoveAt(s, pos + 1)
             n == v.log_len
  <1>1. /\ IsVector(w) /\ w.log_len = n - 1
        /\ \A i \in 0 .. (n - 2) : VectorNth(w, i) = IF i < pos THEN VectorNth(v, i) ELSE VectorNth(v, i + 1)
    BY DeleteIs
  <1> HIDE DEF w
  <1>2. n \in Nat /\ s \in Seq(Content(v)) /\ Len(s) = n /\ \A i \in 1 .. n : s[i] = VectorNth(v, i - 1)
    BY ElementsAre
  <1>3. t \in Seq(Content(w)) /\ Len(t) = n - 1 /\ \A i \in 1 .. (n - 1) : t[i] = VectorNth(w, i - 1)
    BY <1>1, ElementsAre
  <1> HIDE DEF s, t
  <1>4. s \in Seq(S) /\ t \in Seq(S)
    <2>1. Content(v) \subseteq S /\ Content(w) \subseteq S
      OBVIOUS
    <2> HIDE DEF S
    <2> QED
      BY <1>2, <1>3, <2>1, SeqMonotonic
  <1> HIDE DEF S, n
  <1>5. pos + 1 \in 1 .. Len(s)
    BY <1>2 DEF n
  <1>6. /\ u \in Seq(S) /\ Len(u) = n - 1
        /\ \A j \in 1 .. (n - 1) : u[j] = IF j < pos + 1 THEN s[j] ELSE s[j + 1]
    BY <1>2, <1>4, <1>5, RemoveAtIs
  <1> HIDE DEF u
  <1>7. ASSUME NEW j \in 1 .. (n - 1) PROVE t[j] = u[j]
    <2>1. j - 1 \in 0 .. (n - 2) /\ pos \in Int /\ n \in Nat
      BY <1>2 DEF n
    <2>2. t[j] = IF j - 1 < pos THEN VectorNth(v, j - 1) ELSE VectorNth(v, (j - 1) + 1)
      BY <1>1, <1>3, <2>1
    <2>3. s[j] = VectorNth(v, j - 1) /\ s[j + 1] = VectorNth(v, (j - 1) + 1)
      BY <1>2, <2>1
    <2>4. j - 1 < pos <=> j < pos + 1
      BY <2>1
    <2> QED
      BY <1>6, <2>2, <2>3, <2>4
  <1>8. t = u
    BY <1>3, <1>4, <1>6, <1>7, SeqEqual
  <1> QED
    BY <1>8 DEF t, u, s, w

\* VectorReplace replaces.
LEMMA ElementsReplace ==
    ASSUME NEW v, IsVector(v), NEW elem, NEW pos \in 0 .. (v.log_len - 1)
    PROVE  Elements(VectorReplace(v, elem, pos)) = [Elements(v) EXCEPT ![pos + 1] = elem]
  <1> DEFINE w == VectorReplace(v, elem, pos)
             s == Elements(v)
             t == Elements(w)
             u == [s EXCEPT ![pos + 1] = elem]
             n == v.log_len
  <1>1. /\ IsVector(w) /\ w.log_len = n
        /\ \A i \in 0 .. (n - 1) : VectorNth(w, i) = IF i = pos THEN elem ELSE VectorNth(v, i)
    BY ReplaceIs
  <1> HIDE DEF w
  <1>2. n \in Nat /\ DOMAIN s = 1 .. n /\ \A i \in 1 .. n : s[i] = VectorNth(v, i - 1)
    BY ElementsAre
  <1>3. /\ t = [i \in 1 .. n |-> t[i]]
        /\ \A i \in 1 .. n : t[i] = VectorNth(w, i - 1)
    BY <1>1 DEF Elements, VectorNth
  <1> HIDE DEF s, t
  <1>4. /\ u = [i \in 1 .. n |-> u[i]]
        /\ \A i \in 1 .. n : u[i] = IF i = pos + 1 THEN elem ELSE s[i]
    BY <1>2
  <1> HIDE DEF u
  <1>5. ASSUME NEW j \in 1 .. n PROVE t[j] = u[j]
    <2>1. j - 1 \in 0 .. (n - 1) /\ pos \in Int /\ (j - 1 = pos <=> j = pos + 1)
      BY <1>2
    <2> QED
      BY <1>1, <1>2, <1>3, <1>4, <2>1
  <1>6. t = u
    BY <1>3, <1>4, <1>5
  <1> QED
    BY <1>6 DEF t, u, s, w

-----------------------------------------------------------------------------
(***************************************************************************)
(* Appending a whole sequence: FoldLeft is a recursion over the subsets of *)
(* 1 .. n, of which it visits those that lack the last elements.           *)
(***************************************************************************)
FoldStep(g, v, elems, s) ==
    IF s = {} THEN v ELSE VectorAppend(g[s \ {Max(s)}], elems[Max(s)])

IsFold(g, v, elems, n) ==
    g = [s \in SUBSET (1 .. n) |-> FoldStep(g, v, elems, s)]

ChosenFold(v, elems, n) == CHOOSE g : IsFold(g, v, elems, n)

\* FoldLeft is a recursion over the index sets of the elements.
LEMMA FoldDef ==
    ASSUME NEW v, NEW n \in Nat, NEW elems, DOMAIN elems = 1 .. n
    PROVE  FoldLeft(VectorAppend, v, elems) = ChosenFold(v, elems, n)[1 .. n]
  BY DEF FoldLeft, MapThenFoldSet, ChosenFold, IsFold, FoldStep

\* The greatest element.
LEMMA MaxIs ==
    ASSUME NEW S \in SUBSET Int, NEW m \in S, \A x \in S : x <= m
    PROVE  Max(S) = m
  <1>1. \A x \in S : m >= x
    OBVIOUS
  <1>2. Max(S) \in S /\ \A x \in S : Max(S) >= x
    BY <1>1 DEF Max
  <1>3. Max(S) >= m /\ m >= Max(S) /\ Max(S) \in Int /\ m \in Int
    BY <1>1, <1>2
  <1> QED
    BY <1>3

\* The recursion has a solution.
LEMMA FoldExists ==
    ASSUME NEW v, NEW elems, NEW n \in Nat
    PROVE  \E g : IsFold(g, v, elems, n)
  <1> DEFINE S == {k \in Nat : \E g : IsFold(g, v, elems, k)}
  <1>1. 0 \in S
    <2> DEFINE g == [s \in SUBSET (1 .. 0) |-> v]
    <2>1. ASSUME NEW s \in SUBSET (1 .. 0) PROVE FoldStep(g, v, elems, s) = v
      <3>1. s = {}
        OBVIOUS
      <3> QED
        BY <3>1 DEF FoldStep
    <2> DEFINE h == [s \in SUBSET (1 .. 0) |-> FoldStep(g, v, elems, s)]
    <2>2. g = h
      BY <2>1
    <2>3. IsFold(g, v, elems, 0)
      BY <2>2 DEF IsFold
    <2> QED
      BY <2>3
  <1>2. ASSUME NEW k \in Nat, k \in S PROVE k + 1 \in S
    <2>1. PICK g : IsFold(g, v, elems, k)
      BY <1>2
    <2> DEFINE m == k + 1
               w(s) == IF m \in s THEN VectorAppend(g[s \ {m}], elems[m]) ELSE g[s]
               h == [s \in SUBSET (1 .. m) |-> w(s)]
    <2>2. \A s \in SUBSET (1 .. m) : h[s] = w(s)
      OBVIOUS
    <2>3. h = [s \in SUBSET (1 .. m) |-> h[s]]
      OBVIOUS
    <2>4. \A s \in SUBSET (1 .. k) : g[s] = FoldStep(g, v, elems, s)
      BY <2>1 DEF IsFold
    <2>5. \A x \in 1 .. m : x \in Int /\ x <= m /\ (x # m => x \in 1 .. k)
      OBVIOUS
    <2>6. m \in 1 .. m /\ m \notin 1 .. k
      OBVIOUS
    <2>7. 1 .. k \subseteq 1 .. m
      OBVIOUS
    <2> HIDE DEF h, m
    <2>8. ASSUME NEW s \in SUBSET (1 .. m) PROVE h[s] = FoldStep(h, v, elems, s)
      <3>1. CASE m \in s
        <4>1. Max(s) = m
          <5>1. s \in SUBSET Int /\ \A x \in s : x <= m
            BY <2>5
          <5> QED
            BY <3>1, <5>1, MaxIs
        <4>2. s \ {m} \in SUBSET (1 .. k) /\ s \ {m} \in SUBSET (1 .. m) /\ m \notin s \ {m}
          BY <2>5
        <4>3. h[s \ {m}] = g[s \ {m}]
          BY <2>2, <4>2
        <4>4. h[s] = VectorAppend(g[s \ {m}], elems[m])
          BY <2>2, <3>1
        <4> QED
          BY <3>1, <4>1, <4>3, <4>4 DEF FoldStep
      <3>2. CASE m \notin s
        <4>1. s \in SUBSET (1 .. k)
          BY <2>5, <3>2
        <4>2. h[s] = FoldStep(g, v, elems, s)
          BY <2>2, <2>4, <3>2, <4>1
        <4>3. h[s \ {Max(s)}] = g[s \ {Max(s)}]
          BY <2>2, <3>2
        <4> QED
          BY <4>2, <4>3 DEF FoldStep
      <3> QED
        BY <3>1, <3>2
    <2>9. IsFold(h, v, elems, m)
      BY <2>3, <2>8 DEF IsFold
    <2> QED
      BY <2>9 DEF m
  <1> HIDE DEF S
  <1>3. n \in S
    BY <1>1, <1>2, NatClosed
  <1> QED
    BY <1>3 DEF S

\* Appending one element after the other to an empty vector copies the sequence.
LEMMA AppendAll ==
    ASSUME NEW v, IsVector(v), v.log_len = 0, NEW T, NEW elems \in Seq(T)
    PROVE  /\ IsVector(FoldLeft(VectorAppend, v, elems))
           /\ FoldLeft(VectorAppend, v, elems).log_len = Len(elems)
           /\ FoldLeft(VectorAppend, v, elems).owns = v.owns
           /\ FoldLeft(VectorAppend, v, elems).released = v.released
           /\ Elements(FoldLeft(VectorAppend, v, elems)) = elems
  <1> DEFINE n == Len(elems)
             g == ChosenFold(v, elems, n)
             w == FoldLeft(VectorAppend, v, elems)
  <1>1. n \in Nat /\ DOMAIN elems = 1 .. n /\ \A i \in 1 .. n : elems[i] \in T
    BY LenProperties, ElementOfSeq
  <1> HIDE DEF n
  <1>2. w = g[1 .. n]
    BY <1>1, FoldDef
  <1>3. IsFold(g, v, elems, n)
    BY <1>1, FoldExists DEF ChosenFold
  <1> HIDE DEF g
  <1>4. \A s \in SUBSET (1 .. n) : g[s] = FoldStep(g, v, elems, s)
    BY <1>3 DEF IsFold
  <1> DEFINE P(k, u) == /\ IsVector(u)
                        /\ u.log_len = k
                        /\ u.owns = v.owns
                        /\ u.released = v.released
                        /\ \A i \in 0 .. (k - 1) : VectorNth(u, i) = elems[i + 1]
             S == {k \in Nat : k <= n => P(k, g[1 .. k])}
  <1>5. 0 \in S
    <2>1. 1 .. 0 = {} /\ {} \in SUBSET (1 .. n)
      OBVIOUS
    <2>2. g[1 .. 0] = v
      BY <1>4, <2>1 DEF FoldStep
    <2>3. P(0, v)
      OBVIOUS
    <2> HIDE DEF P
    <2> QED
      BY <2>2, <2>3
  <1>6. ASSUME NEW k \in Nat, k \in S PROVE k + 1 \in S
    <2> SUFFICES ASSUME k + 1 <= n PROVE P(k + 1, g[1 .. (k + 1)])
      OBVIOUS
    <2> DEFINE m == k + 1
               s == 1 .. m
    <2>1. P(k, g[1 .. k])
      BY <1>1, <1>6
    <2>2. s \in SUBSET (1 .. n) /\ s # {} /\ s \in SUBSET Int /\ m \in s /\ \A x \in s : x <= m
      <3>1. k \in Nat /\ n \in Nat /\ k + 1 <= n
        BY <1>1
      <3>2. \A x \in 1 .. (k + 1) : x \in 1 .. n /\ x \in Int /\ x <= k + 1
        BY <3>1
      <3>3. k + 1 \in 1 .. (k + 1)
        BY <3>1
      <3> QED
        BY <3>2, <3>3
    <2>3. s \ {m} = 1 .. k
      OBVIOUS
    <2>4. m \in Nat /\ m - 1 = k
      OBVIOUS
    <2> HIDE DEF m, s, P
    <2>5. Max(s) = m
      BY <2>2, MaxIs
    <2>6. g[s] = VectorAppend(g[1 .. k], elems[m])
      BY <1>4, <2>2, <2>3, <2>5 DEF FoldStep
    <2> DEFINE u == g[1 .. k]
               x == VectorAppend(u, elems[m])
    <2> HIDE DEF u
    <2>7. P(k, u)
      BY <2>1 DEF u
    <2> USE DEF P
    <2>8. /\ IsVector(x) /\ x.log_len = u.log_len + 1 /\ x.owns = u.owns
          /\ x.released = u.released
          /\ \A i \in 0 .. (u.log_len - 1) : VectorNth(x, i) = VectorNth(u, i)
          /\ VectorNth(x, u.log_len) = elems[m]
      BY <2>7, AppendIs
    <2> HIDE DEF x
    <2>9. ASSUME NEW i \in 0 .. (m - 1) PROVE VectorNth(x, i) = elems[i + 1]
      <3>1. CASE i = k
        BY <2>7, <2>8, <3>1 DEF m
      <3>2. CASE i # k
        <4>1. i \in 0 .. (k - 1)
          BY <2>4, <3>2
        <4> QED
          BY <2>7, <2>8, <4>1
      <3> QED
        BY <3>1, <3>2
    <2>10. P(m, x)
      BY <2>4, <2>7, <2>8, <2>9
    <2> HIDE DEF P
    <2> QED
      BY <2>6, <2>10 DEF x, u, s, m
  <1> HIDE DEF S, P
  <1>7. n \in S
    BY <1>1, <1>5, <1>6, NatClosed
  <1>8. P(n, w)
    BY <1>1, <1>2, <1>7 DEF S
  <1> HIDE DEF w
  <1>9. /\ IsVector(w) /\ w.log_len = n /\ w.owns = v.owns /\ w.released = v.released
        /\ \A i \in 0 .. (n - 1) : VectorNth(w, i) = elems[i + 1]
    BY <1>8 DEF P
  <1>10. Elements(w) = elems
    <2>1. /\ Elements(w) \in Seq(Content(w)) /\ Len(Elements(w)) = n
          /\ \A i \in 1 .. n : Elements(w)[i] = VectorNth(w, i - 1)
      BY <1>9, ElementsAre
    <2>2. ASSUME NEW i \in 1 .. n PROVE Elements(w)[i] = elems[i]
      <3>1. i - 1 \in 0 .. (n - 1) /\ (i - 1) + 1 = i
        BY <1>1
      <3> QED
        BY <1>9, <2>1, <3>1
    <2>3. Elements(w) \in Seq(Content(w) \cup T) /\ elems \in Seq(Content(w) \cup T)
      BY <2>1, SeqMonotonic
    <2> QED
      BY <2>1, <2>2, <2>3, SeqEqual DEF n
  <1> QED
    BY <1>9, <1>10 DEF w, n

-----------------------------------------------------------------------------
(***************************************************************************)
(* What HashSetMap meets: the buckets one after the other                  *)
(***************************************************************************)
\* The operations of Table, an instance of HashSet, are those of Vector.
LEMMA SameVectors ==
    ASSUME NEW v, NEW x, NEW y
    PROVE  /\ Table!VectorNew(x, y) = VectorNew(x, y)
           /\ Table!VectorNth(v, x) = VectorNth(v, x)
           /\ Table!Elements(v) = Elements(v)
           /\ Table!Content(v) = Content(v)
           /\ Table!VectorAppend(v, x) = VectorAppend(v, x)
           /\ Table!VectorInsert(v, x, y) = VectorInsert(v, x, y)
           /\ Table!VectorDelete(v, x) = VectorDelete(v, x)
           /\ Table!VectorSearch(v, x, y) = VectorSearch(v, x, y)
           /\ Table!VectorDispose(v) = VectorDispose(v)
  <1>1. Table!VectorNew(x, y) = VectorNew(x, y)
    BY DEF Table!VectorNew, VectorNew
  <1>2. Table!VectorNth(v, x) = VectorNth(v, x) /\ Table!Elements(v) = Elements(v) /\ Table!Content(v) = Content(v)
    BY DEF Table!VectorNth, VectorNth, Table!Elements, Elements, Table!Content, Content
  <1>3. Table!VectorAppend(v, x) = VectorAppend(v, x)
    BY DEF Table!VectorAppend, VectorAppend, Table!Room, Room, Table!Expand, Expand
  <1>4. Table!VectorInsert(v, x, y) = VectorInsert(v, x, y)
    BY DEF Table!VectorInsert, VectorInsert, Table!Room, Room, Table!Expand, Expand,
           Table!Shift, Shift, Table!VectorAppend, VectorAppend
  <1>5. Table!VectorDelete(v, x) = VectorDelete(v, x)
    BY DEF Table!VectorDelete, VectorDelete, Table!Release, Release, Table!VectorNth, VectorNth,
           Table!Shift, Shift
  <1>6. Table!VectorSearch(v, x, y) = VectorSearch(v, x, y)
    BY DEF Table!VectorSearch, VectorSearch
  <1>7. Table!VectorDispose(v) = VectorDispose(v)
    BY DEF Table!VectorDispose, VectorDispose, Table!Release, Release, Table!Elements, Elements
  <1> QED
    BY <1>1, <1>2, <1>3, <1>4, <1>5, <1>6, <1>7

\* HashSetElements is one over the buckets.
LEMMA JoinDef ==
    ASSUME NEW h
    PROVE  Table!HashSetElements(h) = ChosenJoin(h, h.num_buckets)[h.num_buckets]
  BY DEF Table!HashSetElements, ChosenJoin, IsJoin, JoinStep, Table!Elements, Elements

\* HashSetMap meets every element once.
LEMMA MapMeetsAll ==
    ASSUME NEW h, NEW n \in Nat, h.num_buckets = n, BucketsApart(h, n),
           NEW T, \A b \in 0 .. (n - 1) : Content(h.buckets[b]) \subseteq T
    PROVE  /\ Table!HashSetElements(h) \in Seq(T)
           /\ Lists(Table!HashSetElements(h), h, n)
  BY JoinDef, JoinMeetsAll

-----------------------------------------------------------------------------
(***************************************************************************)
(* The table of letter counts                                              *)
(***************************************************************************)
\* How often a letter is in the sequence r, and the element that says so.
Often(r, c) == Cardinality({i \in DOMAIN r : r[i] = c})

Freq(r, c) == [ch |-> c, occurrences |-> Often(r, c)]

\* One more letter.
LEMMA OftenAppend ==
    ASSUME NEW r \in Seq(Letters), NEW d \in Letters
    PROVE  /\ \A c \in Letters : Often(r, c) \in 0 .. Len(r)
           /\ \A c \in Letters : c # d => Often(Append(r, d), c) = Often(r, c)
           /\ Often(Append(r, d), d) = Often(r, d) + 1
  <1> DEFINE x == Append(r, d)
             n == Len(r)
             H(c) == {i \in 1 .. n : r[i] = c}
             G(c) == {i \in 1 .. (n + 1) : x[i] = c}
  <1>1. /\ n \in Nat /\ DOMAIN r = 1 .. n
        /\ DOMAIN x = 1 .. (n + 1)
        /\ \A i \in 1 .. n : x[i] = r[i]
        /\ x[n + 1] = d
    BY AppendProperties, LenProperties
  <1> HIDE DEF x, n
  <1>2. \A c : Often(r, c) = Cardinality(H(c)) /\ Often(x, c) = Cardinality(G(c))
    BY <1>1 DEF Often
  <1>3. IsFiniteSet(1 .. n) /\ Cardinality(1 .. n) = n
    BY <1>1, FS_Interval
  <1>4. ASSUME NEW c PROVE IsFiniteSet(H(c)) /\ Cardinality(H(c)) \in 0 .. n
    <2>1. H(c) \subseteq 1 .. n
      OBVIOUS
    <2> HIDE DEF H
    <2>2. IsFiniteSet(H(c)) /\ Cardinality(H(c)) <= Cardinality(1 .. n)
      BY <1>3, <2>1, FS_Subset
    <2>3. Cardinality(H(c)) \in Nat
      BY <2>2, FS_CardinalityType
    <2> QED
      BY <1>1, <1>3, <2>2, <2>3
  <1>5. ASSUME NEW c, c # d PROVE G(c) = H(c)
    <2>1. \A i \in 1 .. (n + 1) : i \in 1 .. n \/ i = n + 1
      BY <1>1
    <2>2. 1 .. n \subseteq 1 .. (n + 1)
      BY <1>1
    <2> QED
      BY <1>1, <1>5, <2>1, <2>2
  <1>6. G(d) = H(d) \cup {n + 1} /\ n + 1 \notin H(d)
    <2>1. \A i \in 1 .. (n + 1) : i \in 1 .. n \/ i = n + 1
      BY <1>1
    <2>2. 1 .. n \subseteq 1 .. (n + 1) /\ n + 1 \in 1 .. (n + 1) /\ n + 1 \notin 1 .. n
      BY <1>1
    <2> QED
      BY <1>1, <2>1, <2>2
  <1>7. Cardinality(G(d)) = Cardinality(H(d)) + 1
    <2>1. IsFiniteSet(H(d))
      BY <1>4
    <2> HIDE DEF G, H
    <2> QED
      BY <1>6, <2>1, FS_AddElement
  <1>8. \A c : Often(r, c) \in 0 .. n
    BY <1>2, <1>4
  <1>9. \A c : c # d => Often(x, c) = Often(r, c)
    BY <1>2, <1>5
  <1>10. Often(x, d) = Often(r, d) + 1
    BY <1>2, <1>7
  <1> QED
    BY <1>8, <1>9, <1>10 DEF x, n

\* e counts its letter, which is in r and belongs into bucket b.
Tallied(e, b, r) ==
    /\ e.ch \in Letters
    /\ e = Freq(r, e.ch)
    /\ Often(r, e.ch) # 0
    /\ e.ch % NumBuckets = b

\* Bucket b holds one element for every letter of r that belongs there.
BucketTallies(v, b, r) ==
    /\ IsVector(v)
    /\ \A i \in 0 .. (v.log_len - 1) : Tallied(VectorNth(v, i), b, r)
    /\ \A i, j \in 0 .. (v.log_len - 1) : i # j => VectorNth(v, i).ch # VectorNth(v, j).ch
    /\ \A c \in Letters :
          Often(r, c) # 0 /\ c % NumBuckets = b =>
             \E i \in 0 .. (v.log_len - 1) : VectorNth(v, i).ch = c

\* Every letter has a bucket.
LEMMA BucketRange ==
    ASSUME ContainersAssumption
    PROVE  /\ NumBuckets \in Nat
           /\ \A d \in Letters : d \in Nat /\ d % NumBuckets \in 0 .. (NumBuckets - 1)
  BY DEF ContainersAssumption, Letters

\* Where HashSetEnter and HashSetLookup find the element of a letter.
LEMMA PlaceIs ==
    ASSUME NEW h, NEW d, NEW e, e.ch = d, NEW v, v = h.buckets[d % NumBuckets], IsVector(v)
    PROVE  LET k == Table!Place(h, e).index
           IN  /\ Table!Place(h, e).bucket = d % NumBuckets
               /\ \/ /\ k = -1
                     /\ \A i \in 0 .. (v.log_len - 1) : VectorNth(v, i).ch # d
                  \/ /\ k \in 0 .. (v.log_len - 1)
                     /\ VectorNth(v, k).ch = d
                     /\ \A i \in 0 .. (k - 1) : VectorNth(v, i).ch # d
  <1> DEFINE equal == {x \in Content(v) : x.ch = d}
             k == Table!Place(h, e).index
  <1>1. /\ Table!Place(h, e).bucket = d % NumBuckets
        /\ k = VectorSearch(v, equal, 0)
    BY SameVectors DEF Table!Place, HashFrequency, LetterOf
  <1>2. \A i \in 0 .. (v.log_len - 1) : VectorNth(v, i) \in equal <=> VectorNth(v, i).ch = d
    BY DEF Content, VectorNth
  <1> HIDE DEF equal, k
  <1>3. \/ /\ k = -1
           /\ \A i \in 0 .. (v.log_len - 1) : VectorNth(v, i) \notin equal
        \/ /\ k \in 0 .. (v.log_len - 1)
           /\ VectorNth(v, k) \in equal
           /\ \A i \in 0 .. (k - 1) : VectorNth(v, i) \notin equal
    BY <1>1, SearchIs
  <1>4. \A i \in 0 .. (k - 1) : k \in 0 .. (v.log_len - 1) => i \in 0 .. (v.log_len - 1)
    BY DEF IsVector
  <1> QED
    BY <1>1, <1>2, <1>3, <1>4 DEF k

\* An element is as good as before when a letter is counted that is not its own.
LEMMA TalliedStill ==
    ASSUME NEW r \in Seq(Letters), NEW d \in Letters, NEW e, NEW b, e.ch # d, Tallied(e, b, r)
    PROVE  Tallied(e, b, Append(r, d))
  <1>1. Often(Append(r, d), e.ch) = Often(r, e.ch)
    BY OftenAppend DEF Tallied
  <1> QED
    BY <1>1 DEF Tallied, Freq

\* z has the elements of v but for element k, and for those of letter d.
OthersStay(z, v, k, d) ==
    /\ k \in 0 .. (z.log_len - 1)
    /\ v.log_len <= z.log_len
    /\ k \in 0 .. (v.log_len - 1) => VectorNth(v, k).ch = d
    /\ \A i \in 0 .. (z.log_len - 1) :
          i # k => /\ i \in 0 .. (v.log_len - 1)
                   /\ VectorNth(z, i) = VectorNth(v, i)
                   /\ VectorNth(v, i).ch # d

\* In the bucket z element k counts d, the others are those of v.
LEMMA TallyStep ==
    ASSUME ContainersAssumption, NEW r \in Seq(Letters), NEW d \in Letters, NEW x, x = Append(r, d),
           NEW v, NEW b, b = d % NumBuckets, BucketTallies(v, b, r),
           NEW z, IsVector(z), NEW k, OthersStay(z, v, k, d), VectorNth(z, k) = Freq(x, d)
    PROVE  BucketTallies(z, b, x)
  <1> USE DEF OthersStay
  <1>1. v.log_len \in Nat /\ z.log_len \in Nat
    BY DEF BucketTallies, IsVector
  <1>2. 0 .. (v.log_len - 1) \subseteq 0 .. (z.log_len - 1)
    BY <1>1
  <1>3. /\ Often(r, d) \in Nat /\ Often(x, d) = Often(r, d) + 1
        /\ \A c \in Letters : c # d => Often(x, c) = Often(r, c)
    BY OftenAppend
  <1>4. Freq(x, d).ch = d
    BY DEF Freq
  <1>5. Tallied(Freq(x, d), b, x)
    BY <1>3, <1>4 DEF Tallied
  <1>6. ASSUME NEW i \in 0 .. (z.log_len - 1) PROVE Tallied(VectorNth(z, i), b, x)
    <2>1. CASE i = k
      BY <1>5, <2>1
    <2>2. CASE i # k
      <3>1. Tallied(VectorNth(v, i), b, r)
        BY <2>2 DEF BucketTallies
      <3> QED
        BY <2>2, <3>1, TalliedStill
    <2> QED
      BY <2>1, <2>2
  <1>7. ASSUME NEW i \in 0 .. (z.log_len - 1), NEW j \in 0 .. (z.log_len - 1), i # j
        PROVE  VectorNth(z, i).ch # VectorNth(z, j).ch
    <2>1. CASE i = k
      BY <1>4, <1>7, <2>1
    <2>2. CASE j = k
      BY <1>4, <1>7, <2>2
    <2>3. CASE i # k /\ j # k
      BY <1>7, <2>3 DEF BucketTallies
    <2> QED
      BY <2>1, <2>2, <2>3
  <1>8. ASSUME NEW c \in Letters, Often(x, c) # 0, c % NumBuckets = b
        PROVE  \E i \in 0 .. (z.log_len - 1) : VectorNth(z, i).ch = c
    <2>1. CASE c = d
      BY <1>4, <2>1
    <2>2. CASE c # d
      <3>1. PICK i \in 0 .. (v.log_len - 1) : VectorNth(v, i).ch = c
        BY <1>3, <1>8, <2>2 DEF BucketTallies
      <3>2. CASE i = k
        BY <2>2, <3>1, <3>2
      <3>3. CASE i # k
        BY <1>2, <3>1, <3>3
      <3> QED
        BY <3>2, <3>3
    <2> QED
      BY <2>1, <2>2
  <1> QED
    BY <1>6, <1>7, <1>8 DEF BucketTallies

\* A bucket of other letters.
LEMMA TallyOther ==
    ASSUME ContainersAssumption, NEW r \in Seq(Letters), NEW d \in Letters, NEW v, NEW b,
           b # d % NumBuckets, BucketTallies(v, b, r)
    PROVE  BucketTallies(v, b, Append(r, d))
  <1>1. \A c \in Letters : c % NumBuckets = b => c # d
    OBVIOUS
  <1>2. \A c \in Letters : c # d => Often(Append(r, d), c) = Often(r, c)
    BY OftenAppend
  <1>3. ASSUME NEW i \in 0 .. (v.log_len - 1) PROVE Tallied(VectorNth(v, i), b, Append(r, d))
    <2>1. Tallied(VectorNth(v, i), b, r)
      BY DEF BucketTallies
    <2>2. VectorNth(v, i).ch # d
      BY <1>1, <2>1 DEF Tallied
    <2> QED
      BY <2>1, <2>2, TalliedStill
  <1>4. \A c \in Letters : Often(Append(r, d), c) # 0 /\ c % NumBuckets = b => Often(r, c) # 0
    BY <1>1, <1>2
  <1> QED
    BY <1>3, <1>4 DEF BucketTallies

\* The table holds the counts of the letters in r.
Tallies(h, r) ==
    /\ DOMAIN h = {"num_buckets", "elem_count", "buckets"}
    /\ h.num_buckets = NumBuckets
    /\ DOMAIN h.buckets = 0 .. (NumBuckets - 1)
    /\ \A b \in 0 .. (NumBuckets - 1) : BucketTallies(h.buckets[b], b, r)

\* What CountLetter looks up and enters.
OneOf(d) == [ch |-> d, occurrences |-> 1]

NextOf(h, d) ==
    LET at == Table!HashSetLookup(h, OneOf(d))
    IN  IF at = NULL THEN OneOf(d)
        ELSE [OneOf(d) EXCEPT !.occurrences = Table!HashSetAt(h, at).occurrences + 1]

\* The element of a letter that was read.
LEMMA FreqIs ==
    ASSUME ContainersAssumption, NEW r \in Seq(Letters), Len(r) <= MaxLetters,
           NEW c \in Letters, Often(r, c) # 0
    PROVE  Freq(r, c) \in Frequencies
  <1>1. Often(r, c) \in 0 .. Len(r) /\ MaxLetters \in Nat /\ Len(r) \in Nat
    BY OftenAppend, LenProperties DEF ContainersAssumption
  <1>2. Often(r, c) \in 1 .. MaxLetters
    BY <1>1
  <1> QED
    BY <1>2 DEF Freq, Frequencies

\* It enters the right count.
LEMMA NextOfIs ==
    ASSUME ContainersAssumption, NEW r \in Seq(Letters), Len(r) <= MaxLetters,
           NEW h, Tallies(h, r), NEW d \in Letters
    PROVE  NextOf(h, d) = Freq(Append(r, d), d)
  <1> DEFINE b == d % NumBuckets
             v == h.buckets[b]
             one == OneOf(d)
             at == Table!Place(h, one)
             k == at.index
             ptr == Table!HashSetLookup(h, one)
             old == VectorNth(v, k)
  <1>1. b \in 0 .. (NumBuckets - 1)
    BY BucketRange
  <1>2. BucketTallies(v, b, r) /\ IsVector(v)
    BY <1>1 DEF Tallies, BucketTallies
  <1>3. one.ch = d
    BY DEF OneOf
  <1>4. /\ at.bucket = b
        /\ \/ /\ k = -1
              /\ \A i \in 0 .. (v.log_len - 1) : VectorNth(v, i).ch # d
           \/ /\ k \in 0 .. (v.log_len - 1)
              /\ VectorNth(v, k).ch = d
    <2> HIDE DEF one
    <2> QED
      BY <1>2, <1>3, PlaceIs
  <1>5. /\ ptr = IF k = -1 THEN NULL ELSE at
        /\ at = [bucket |-> b, index |-> k]
    BY <1>4 DEF Table!HashSetLookup, Table!Place
  <1>6. Table!HashSetAt(h, at) = old
    BY <1>4, SameVectors DEF Table!HashSetAt
  <1>7. Often(Append(r, d), d) = Often(r, d) + 1 /\ Often(r, d) \in Nat
    BY OftenAppend
  <1>8. NextOf(h, d) = IF ptr = NULL THEN one
                       ELSE [one EXCEPT !.occurrences = Table!HashSetAt(h, ptr).occurrences + 1]
    BY DEF NextOf
  <1>9. v.log_len \in Nat
    BY <1>2 DEF IsVector
  <1> HIDE DEF old, ptr, at, v, b
  <1>10. CASE k = -1
    <2>1. Often(r, d) = 0
      BY <1>2, <1>4, <1>10 DEF BucketTallies, b
    <2>2. ptr = NULL
      BY <1>5, <1>10
    <2> QED
      BY <1>7, <1>8, <2>1, <2>2 DEF OneOf, Freq
  <1>11. CASE k # -1
    <2>1. k \in 0 .. (v.log_len - 1) /\ VectorNth(v, k).ch = d
      BY <1>4, <1>11
    <2>2. Tallied(VectorNth(v, k), b, r)
      BY <1>2, <2>1 DEF BucketTallies
    <2>3. old = Freq(r, d) /\ Often(r, d) # 0
      BY <1>11, <2>1, <2>2 DEF Tallied, old
    <2>4. ptr = at /\ ptr # NULL
      <3>1. b \in 0 .. (NumBuckets - 1) /\ k \in Nat
        BY <1>1, <1>9, <2>1 DEF b
      <3>2. [bucket |-> b, index |-> k] # NULL
        BY <3>1 DEF ContainersAssumption
      <3> QED
        BY <1>5, <1>11, <3>2
    <2>5. Table!HashSetAt(h, ptr).occurrences = Often(r, d)
      BY <1>6, <2>3, <2>4 DEF Freq
    <2> QED
      BY <1>7, <1>8, <2>4, <2>5 DEF OneOf, Freq
  <1> QED
    BY <1>10, <1>11

\* HashSetEnter.
LEMMA EnterTallies ==
    ASSUME ContainersAssumption, NEW r \in Seq(Letters), NEW h, Tallies(h, r), NEW d \in Letters,
           NEW e, e = Freq(Append(r, d), d)
    PROVE  Tallies(Table!HashSetEnter(h, e), Append(r, d))
  <1> DEFINE b == d % NumBuckets
             v == h.buckets[b]
             at == Table!Place(h, e)
             k == at.index
             z == IF k = -1 THEN VectorAppend(v, e) ELSE VectorInsert(VectorDelete(v, k), e, k)
             x == Append(r, d)
             n == h.elem_count + 1
             f == [h.buckets EXCEPT ![b] = z]
             w == Updated(h, "buckets", f, "elem_count", n)
  <1>1. b \in 0 .. (NumBuckets - 1)
    BY BucketRange
  <1>2. BucketTallies(v, b, r) /\ IsVector(v) /\ v.log_len \in Nat
    <2>1. BucketTallies(v, b, r)
      BY <1>1 DEF Tallies
    <2>2. IsVector(v)
      BY <2>1 DEF BucketTallies
    <2> QED
      BY <2>1, <2>2 DEF IsVector
  <1>3. e.ch = d
    BY DEF Freq
  <1>4. /\ at.bucket = b
        /\ \/ /\ k = -1
              /\ \A i \in 0 .. (v.log_len - 1) : VectorNth(v, i).ch # d
           \/ /\ k \in 0 .. (v.log_len - 1)
              /\ VectorNth(v, k).ch = d
              /\ \A i \in 0 .. (k - 1) : VectorNth(v, i).ch # d
    BY <1>2, <1>3, PlaceIs, SMTT(40)
  <1>5. Table!HashSetEnter(h, e) = w
    <2>1. Table!HashSetEnter(h, e) = [h EXCEPT !.buckets[b] = z, !.elem_count = n]
      <3>1. Table!HashSetEnter(h, e) =
               [h EXCEPT !.buckets[at.bucket] =
                            IF k = -1 THEN Table!VectorAppend(h.buckets[at.bucket], e)
                            ELSE Table!VectorInsert(Table!VectorDelete(h.buckets[at.bucket], k), e, k),
                         !.elem_count = n]
        BY Zenon DEF Table!HashSetEnter
      <3>2. z = IF k = -1 THEN Table!VectorAppend(v, e)
                ELSE Table!VectorInsert(Table!VectorDelete(v, k), e, k)
        <4> HIDE DEF k, v
        <4> QED
          BY SameVectors
      <3>3. at.bucket = b
        BY <1>4
      <3> HIDE DEF at, b, z, n
      <3> QED
        BY <3>1, <3>2, <3>3, Zenon
    <2> HIDE DEF z, n, b
    <2> QED
      BY <2>1, Zenon DEF Updated
  <1> HIDE DEF b, at, v, n
  <1>6. BucketTallies(z, b, x)
    <2>1. CASE k = -1
      <3>1. z = VectorAppend(v, e)
        BY <2>1
      <3>2. /\ IsVector(z) /\ z.log_len = v.log_len + 1
            /\ \A i \in 0 .. (v.log_len - 1) : VectorNth(z, i) = VectorNth(v, i)
            /\ VectorNth(z, v.log_len) = e
        BY <1>2, <3>1, AppendIs
      <3> DEFINE l == v.log_len
      <3>3. l \in 0 .. (z.log_len - 1) /\ l \notin 0 .. (l - 1) /\ l <= z.log_len
        BY <1>2, <3>2
      <3>4. \A i \in 0 .. (z.log_len - 1) : i # l => i \in 0 .. (v.log_len - 1)
        BY <1>2, <3>2
      <3>5. \A i \in 0 .. (v.log_len - 1) : VectorNth(v, i).ch # d
        BY <1>2, <1>4, <2>1
      <3> HIDE DEF z
      <3>6. VectorNth(z, l) = Freq(x, d)
        BY <3>2
      <3>7. OthersStay(z, v, l, d)
        BY <3>2, <3>3, <3>4, <3>5 DEF OthersStay
      <3> HIDE DEF l
      <3> QED
        BY <1>2, <3>2, <3>6, <3>7, TallyStep DEF b
    <2>2. CASE k # -1
      <3>1. z = VectorInsert(VectorDelete(v, k), e, k) /\ k \in 0 .. (v.log_len - 1)
            /\ VectorNth(v, k).ch = d
        BY <1>4, <2>2
      <3> HIDE DEF k
      <3>2. /\ IsVector(z) /\ z.log_len = v.log_len
            /\ VectorNth(z, k) = e
            /\ \A i \in 0 .. (v.log_len - 1) : i # k => VectorNth(z, i) = VectorNth(v, i)
        BY <1>2, <3>1, SwapIs
      <3> HIDE DEF z
      <3>3. ASSUME NEW i \in 0 .. (v.log_len - 1), i # k PROVE VectorNth(v, i).ch # d
        BY <1>2, <3>1, <3>3 DEF BucketTallies
      <3>4. VectorNth(z, k) = Freq(x, d)
        BY <3>2
      <3>5. \A i \in 0 .. (z.log_len - 1) :
               i # k => /\ i \in 0 .. (v.log_len - 1)
                        /\ VectorNth(z, i) = VectorNth(v, i)
                        /\ VectorNth(v, i).ch # d
        BY <3>2, <3>3
      <3>6. k \in 0 .. (z.log_len - 1) /\ v.log_len <= z.log_len
        BY <1>2, <3>1, <3>2
      <3>7. OthersStay(z, v, k, d)
        BY <3>1, <3>5, <3>6 DEF OthersStay
      <3> QED
        BY <1>2, <3>2, <3>4, <3>7, TallyStep DEF b
    <2> QED
      BY <2>1, <2>2
  <1> HIDE DEF z, x
  <1>7. /\ DOMAIN h.buckets = 0 .. (NumBuckets - 1)
        /\ DOMAIN h = {"num_buckets", "elem_count", "buckets"}
        /\ h.num_buckets = NumBuckets
    BY DEF Tallies
  <1>8. /\ DOMAIN f = 0 .. (NumBuckets - 1)
        /\ f[b] = z
        /\ \A c \in 0 .. (NumBuckets - 1) : c # b => f[c] = h.buckets[c]
    BY <1>1, <1>7
  <1> HIDE DEF f
  <1>9. /\ DOMAIN w = {"num_buckets", "elem_count", "buckets"}
        /\ w.buckets = f /\ w.num_buckets = NumBuckets
    BY <1>7 DEF Updated
  <1>10. ASSUME NEW c \in 0 .. (NumBuckets - 1) PROVE BucketTallies(f[c], c, x)
    <2>1. CASE c = b
      BY <1>6, <1>8, <2>1
    <2>2. CASE c # b
      <3>1. BucketTallies(h.buckets[c], c, r) /\ c # d % NumBuckets
        BY <2>2 DEF Tallies, b
      <3>2. BucketTallies(h.buckets[c], c, x)
        BY <3>1, TallyOther DEF x
      <3> QED
        BY <1>8, <2>2, <3>2
    <2> QED
      BY <2>1, <2>2
  <1> HIDE DEF w
  <1>11. Tallies(w, x)
    <2>1. \A c \in 0 .. (NumBuckets - 1) : BucketTallies(w.buckets[c], c, x)
      BY <1>9, <1>10
    <2> QED
      BY <1>8, <1>9, <2>1 DEF Tallies
  <1> QED
    BY <1>5, <1>11 DEF x

\* The table at the beginning, and at the end.
LEMMA NewTallies ==
    ASSUME ContainersAssumption
    PROVE  Tallies(Table!HashSetNew(NumBuckets, FALSE), <<>>)
  <1> DEFINE h == Table!HashSetNew(NumBuckets, FALSE)
  <1>1. /\ DOMAIN h = {"num_buckets", "elem_count", "buckets"}
        /\ h.num_buckets = NumBuckets
        /\ h.buckets = [b \in 0 .. (NumBuckets - 1) |-> VectorNew(FALSE, 2)]
    BY SameVectors DEF Table!HashSetNew
  <1>2. IsVector(VectorNew(FALSE, 2)) /\ VectorNew(FALSE, 2).log_len = 0
    <2> DEFINE n == 2
    <2>1. n \in Nat
      OBVIOUS
    <2> HIDE DEF n
    <2>2. IsVector(VectorNew(FALSE, n)) /\ VectorNew(FALSE, n).log_len = 0
      BY <2>1, NewVector
    <2> QED
      BY <2>2 DEF n
  <1>3. \A c : Often(<<>>, c) = 0
    <2>1. \A c : {i \in DOMAIN <<>> : <<>>[i] = c} = {}
      OBVIOUS
    <2> QED
      BY <2>1, FS_EmptySet DEF Often
  <1> DEFINE v == VectorNew(FALSE, 2)
             r == <<>>
  <1>4. /\ IsVector(v) /\ v.log_len = 0
        /\ h.buckets = [b \in 0 .. (NumBuckets - 1) |-> v]
        /\ \A c : Often(r, c) = 0
    BY <1>1, <1>2, <1>3
  <1> HIDE DEF h, v, r
  <1>5. ASSUME NEW b \in 0 .. (NumBuckets - 1) PROVE BucketTallies(h.buckets[b], b, r)
    <2>1. h.buckets[b] = v
      BY <1>4
    <2>2. 0 .. (v.log_len - 1) = {}
      BY <1>4
    <2>3. BucketTallies(v, b, r)
      BY <1>4, <2>2 DEF BucketTallies
    <2> QED
      BY <2>1, <2>3
  <1> QED
    BY <1>1, <1>5 DEF Tallies, h, r

\* Nothing in the table changes when it is given up.
LEMMA DisposeTallies ==
    ASSUME NEW h, NEW r, Tallies(h, r)
    PROVE  Tallies(Table!HashSetDispose(h), r)
  <1> DEFINE f == [b \in DOMAIN h.buckets |-> VectorDispose(h.buckets[b])]
             w == [h EXCEPT !.buckets = f]
  <1>1. Table!HashSetDispose(h) = w
    BY SameVectors DEF Table!HashSetDispose
  <1>2. /\ DOMAIN h = {"num_buckets", "elem_count", "buckets"}
        /\ h.num_buckets = NumBuckets
        /\ DOMAIN h.buckets = 0 .. (NumBuckets - 1)
    BY DEF Tallies
  <1>3. \A b \in 0 .. (NumBuckets - 1) : f[b] = VectorDispose(h.buckets[b])
    BY <1>2
  <1>4. DOMAIN f = 0 .. (NumBuckets - 1)
    BY <1>2
  <1>5. ASSUME NEW b \in 0 .. (NumBuckets - 1) PROVE BucketTallies(f[b], b, r)
    <2> DEFINE v == h.buckets[b]
    <2>1. BucketTallies(v, b, r)
      BY DEF Tallies
    <2> HIDE DEF v, f
    <2>2. IsVector(v)
      BY <2>1 DEF BucketTallies
    <2>3. /\ IsVector(VectorDispose(v)) /\ VectorDispose(v).log_len = v.log_len
          /\ \A i : VectorNth(VectorDispose(v), i) = VectorNth(v, i)
      BY <2>2, DisposeIs
    <2>4. BucketTallies(VectorDispose(v), b, r)
      BY <2>1, <2>3 DEF BucketTallies
    <2> QED
      BY <1>3, <2>4 DEF v
  <1> HIDE DEF f
  <1>6. /\ DOMAIN w = {"num_buckets", "elem_count", "buckets"} /\ w.buckets = f
        /\ w.num_buckets = NumBuckets
    BY <1>2
  <1> HIDE DEF w
  <1>7. \A b \in 0 .. (NumBuckets - 1) : BucketTallies(w.buckets[b], b, r)
    BY <1>5, <1>6
  <1> QED
    BY <1>1, <1>4, <1>6, <1>7 DEF Tallies

\* The inductive invariant of the table.
TableInv ==
    /\ read \in Seq(Letters)
    /\ Len(read) <= MaxLetters
    /\ Tallies(counts, read)

\* The table holds the count of every letter that has been read, and of no other,
\* in the right bucket and once.
THEOREM TableInvariant == Spec => []TableInv
  <1> USE ContainersAssumption
  <1>1. Init => TableInv
    <2> SUFFICES ASSUME Init PROVE TableInv
      OBVIOUS
    <2>1. counts = Table!HashSetNew(NumBuckets, FALSE) /\ read = <<>>
      BY DEF Init
    <2>2. read \in Seq(Letters) /\ Len(read) = 0 /\ MaxLetters \in Nat
      BY <2>1 DEF ContainersAssumption
    <2>3. Tallies(counts, read)
      BY <2>1, NewTallies
    <2> QED
      BY <2>2, <2>3 DEF TableInv
  <1>2. TableInv /\ [Next]_vars => TableInv'
    <2> SUFFICES ASSUME TableInv, [Next]_vars PROVE TableInv'
      OBVIOUS
    <2>1. ASSUME NEW ch \in Letters, CountLetter(ch) PROVE TableInv'
      <3>1. /\ Len(read) < MaxLetters
            /\ counts' = Table!HashSetEnter(counts, NextOf(counts, ch))
            /\ read' = Append(read, ch)
        BY <2>1 DEF CountLetter, NextOf, OneOf
      <3>2. read \in Seq(Letters) /\ Tallies(counts, read) /\ Len(read) <= MaxLetters
        BY DEF TableInv
      <3>3. NextOf(counts, ch) = Freq(Append(read, ch), ch)
        BY <3>2, NextOfIs
      <3>4. Tallies(Table!HashSetEnter(counts, NextOf(counts, ch)), Append(read, ch))
        BY <3>2, <3>3, EnterTallies
      <3>5. Append(read, ch) \in Seq(Letters) /\ Len(Append(read, ch)) <= MaxLetters
        <4>1. Append(read, ch) \in Seq(Letters) /\ Len(Append(read, ch)) = Len(read) + 1
          BY <3>2, AppendProperties
        <4>2. Len(read) \in Nat /\ MaxLetters \in Nat
          BY <3>2, LenProperties DEF ContainersAssumption
        <4> QED
          BY <3>1, <4>1, <4>2
      <3> QED
        BY <3>1, <3>4, <3>5 DEF TableInv
    <2>2. CASE Dispose
      <3>1. counts' = Table!HashSetDispose(counts) /\ read' = read
        BY <2>2 DEF Dispose
      <3>2. Tallies(Table!HashSetDispose(counts), read)
        BY DisposeTallies DEF TableInv
      <3> QED
        BY <3>1, <3>2 DEF TableInv
    <2>3. CASE UNCHANGED <<counts, read>>
      BY <2>3 DEF TableInv
    <2>4. [Next]_vars => \/ \E ch \in Letters : CountLetter(ch)
                         \/ Dispose
                         \/ UNCHANGED <<counts, read>>
      BY DEF Next, vars, AddFrequencies, Use, TestAppend, TestSort, TestInsert, TestDelete, BeginReplace,
             ReplaceFound, EndReplace, InsertNumber, SortPermutation, DeleteSlowly, Finished
    <2> QED
      BY <2>1, <2>2, <2>3, <2>4
  <1> QED
    BY <1>1, <1>2, PTL DEF Spec

\* The letters that have been read are those that come up.
LEMMA OftenRead ==
    ASSUME NEW r \in Seq(Letters)
    PROVE  /\ ToSet(r) \subseteq Letters
           /\ \A c \in Letters : Often(r, c) # 0 <=> c \in ToSet(r)
  <1> DEFINE H(c) == {i \in DOMAIN r : r[i] = c}
  <1>1. DOMAIN r = 1 .. Len(r) /\ Len(r) \in Nat /\ \A i \in DOMAIN r : r[i] \in Letters
    BY LenProperties, ElementOfSeq
  <1>2. ToSet(r) = {r[i] : i \in DOMAIN r}
    BY DEF ToSet
  <1>3. ASSUME NEW c PROVE IsFiniteSet(H(c))
    <2>1. IsFiniteSet(DOMAIN r)
      BY <1>1, FS_Interval
    <2>2. H(c) \subseteq DOMAIN r
      OBVIOUS
    <2> HIDE DEF H
    <2> QED
      BY <2>1, <2>2, FS_Subset
  <1>4. ASSUME NEW c PROVE Often(r, c) = 0 <=> H(c) = {}
    <2>1. Often(r, c) = Cardinality(H(c))
      BY DEF Often
    <2>2. IsFiniteSet(H(c))
      BY <1>3
    <2> HIDE DEF H
    <2> QED
      BY <2>1, <2>2, FS_EmptySet
  <1>5. ASSUME NEW c PROVE H(c) # {} <=> c \in ToSet(r)
    BY <1>2
  <1>6. ToSet(r) \subseteq Letters
    BY <1>1, <1>2
  <1> QED
    BY <1>4, <1>5, <1>6

\* HashSetMap meets the counts of the letters that have been read.
LEMMA TableElements ==
    ASSUME ContainersAssumption, NEW r \in Seq(Letters), NEW h, Tallies(h, r)
    PROVE  LET u == Table!HashSetElements(h)
           IN  /\ u \in Seq({Freq(r, c) : c \in ToSet(r)})
               /\ ToSet(u) = {Freq(r, c) : c \in ToSet(r)}
               /\ \A j, k \in DOMAIN u : j # k => u[j] # u[k]
  <1> DEFINE T == {Freq(r, c) : c \in ToSet(r)}
             u == Table!HashSetElements(h)
             n == NumBuckets
  <1>1. n \in Nat /\ h.num_buckets = n
    BY BucketRange DEF Tallies
  <1>2. ASSUME NEW b \in 0 .. (n - 1) PROVE BucketTallies(h.buckets[b], b, r) /\ IsVector(h.buckets[b])
    <2>1. BucketTallies(h.buckets[b], b, r)
      BY DEF Tallies
    <2> QED
      BY <2>1 DEF BucketTallies
  <1>3. ASSUME NEW b \in 0 .. (n - 1), NEW i \in 0 .. (h.buckets[b].log_len - 1)
        PROVE  Tallied(VectorNth(h.buckets[b], i), b, r)
    BY <1>2 DEF BucketTallies
  <1>4. BucketsApart(h, n)
    <2>1. ASSUME NEW b \in 0 .. (n - 1), NEW c \in 0 .. (n - 1),
                 NEW i \in 0 .. (h.buckets[b].log_len - 1), NEW j \in 0 .. (h.buckets[c].log_len - 1),
                 VectorNth(h.buckets[b], i) = VectorNth(h.buckets[c], j)
          PROVE  b = c /\ i = j
      <3>1. b = c
        BY <1>3, <2>1 DEF Tallied
      <3>2. i \in 0 .. (h.buckets[b].log_len - 1) /\ j \in 0 .. (h.buckets[b].log_len - 1)
        BY <3>1
      <3>3. i = j
        BY <1>2, <2>1, <3>1, <3>2 DEF BucketTallies
      <3> QED
        BY <3>1, <3>3
    <2> QED
      BY <1>2, <2>1 DEF BucketsApart
  <1>5. ASSUME NEW b \in 0 .. (n - 1) PROVE Content(h.buckets[b]) \subseteq T
    <2> SUFFICES ASSUME NEW e \in Content(h.buckets[b]) PROVE e \in T
      OBVIOUS
    <2>1. PICK i \in 0 .. (h.buckets[b].log_len - 1) : e = VectorNth(h.buckets[b], i)
      BY DEF Content, VectorNth
    <2>2. Tallied(e, b, r)
      BY <1>3, <2>1
    <2>3. e.ch \in ToSet(r)
      BY <2>2, OftenRead DEF Tallied
    <2> QED
      BY <2>2, <2>3 DEF Tallied
  <1> HIDE DEF T, n
  <1>6. u \in Seq(T) /\ Lists(u, h, n)
    BY <1>1, <1>4, <1>5, MapMeetsAll
  <1> HIDE DEF u
  <1>7. ToSet(u) = {u[i] : i \in DOMAIN u} /\ \A i \in DOMAIN u : u[i] \in T
    <2>1. ToSet(u) = {u[i] : i \in DOMAIN u}
      BY DEF ToSet
    <2>2. DOMAIN u = 1 .. Len(u) /\ \A i \in 1 .. Len(u) : u[i] \in T
      BY <1>6, LenProperties, ElementOfSeq
    <2> QED
      BY <2>1, <2>2
  <1>8. ASSUME NEW c \in ToSet(r) PROVE Freq(r, c) \in ToSet(u)
    <2> DEFINE b == c % NumBuckets
    <2>1. c \in Letters /\ Often(r, c) # 0
      BY OftenRead
    <2>2. b \in 0 .. (n - 1)
      BY <2>1, BucketRange DEF n
    <2>3. PICK i \in 0 .. (h.buckets[b].log_len - 1) : VectorNth(h.buckets[b], i).ch = c
      BY <1>2, <2>1, <2>2 DEF BucketTallies
    <2>4. VectorNth(h.buckets[b], i) = Freq(r, c)
      BY <1>3, <2>2, <2>3 DEF Tallied
    <2> HIDE DEF b
    <2>5. \E j \in DOMAIN u : u[j] = VectorNth(h.buckets[b], i)
      BY <1>6, <2>2 DEF Lists
    <2> QED
      BY <1>7, <2>4, <2>5
  <1>9. ToSet(u) = T
    BY <1>7, <1>8 DEF T
  <1> QED
    BY <1>6, <1>9 DEF T, Lists, u

\* There are as many elements as letters.
LEMMA TableSize ==
    ASSUME NEW r, NEW T, T = {Freq(r, c) : c \in ToSet(r)}, NEW u \in Seq(T), ToSet(u) = T,
           \A j, k \in DOMAIN u : j # k => u[j] # u[k]
    PROVE  Len(u) = Cardinality(ToSet(r))
  <1> DEFINE n == Len(u)
             f == [i \in 1 .. n |-> u[i].ch]
  <1>1. n \in Nat /\ DOMAIN u = 1 .. n /\ \A i \in 1 .. n : u[i] \in T
    BY LenProperties, ElementOfSeq
  <1>2. ToSet(u) = {u[i] : i \in 1 .. n}
    BY <1>1 DEF ToSet
  <1>3. \A c : Freq(r, c).ch = c
    BY DEF Freq
  <1>4. \A i \in 1 .. n : u[i].ch \in ToSet(r) /\ u[i] = Freq(r, u[i].ch)
    BY <1>1, <1>3
  <1>5. \A i, j \in 1 .. n : u[i].ch = u[j].ch => i = j
    BY <1>1, <1>4
  <1>6. ASSUME NEW c \in ToSet(r) PROVE \E i \in 1 .. n : u[i].ch = c
    <2>1. Freq(r, c) \in T
      OBVIOUS
    <2>2. \E i \in 1 .. n : u[i] = Freq(r, c)
      BY <1>2, <2>1
    <2> QED
      BY <1>3, <2>2
  <1> HIDE DEF n
  <1>7. f \in Bijection(1 .. n, ToSet(r))
    <2>1. f \in [1 .. n -> ToSet(r)]
      BY <1>4
    <2>2. \A i, j \in 1 .. n : f[i] = f[j] => i = j
      BY <1>5
    <2>3. \A c \in ToSet(r) : \E i \in 1 .. n : f[i] = c
      BY <1>6
    <2> HIDE DEF f
    <2>4. f \in Injection(1 .. n, ToSet(r))
      BY <2>1, <2>2 DEF Injection, IsInjective
    <2>5. f \in Surjection(1 .. n, ToSet(r))
      BY <2>1, <2>3 DEF Surjection
    <2> QED
      BY <2>4, <2>5 DEF Bijection
  <1>8. ExistsBijection(1 .. n, ToSet(r))
    BY <1>7 DEF ExistsBijection
  <1>9. Cardinality(ToSet(r)) = n
    BY <1>1, <1>8, FS_CountingElements
  <1> QED
    BY <1>9 DEF n

\* TableIsConsistent follows.
LEMMA TallyConsistent ==
    ASSUME ContainersAssumption, TableInv
    PROVE  TableIsConsistent
  <1> DEFINE T == {Freq(read, c) : c \in ToSet(read)}
             u == Table!HashSetElements(counts)
  <1>1. read \in Seq(Letters) /\ Tallies(counts, read)
    BY DEF TableInv
  <1>2. u \in Seq(T) /\ ToSet(u) = T /\ \A j, k \in DOMAIN u : j # k => u[j] # u[k]
    BY <1>1, TableElements
  <1>3. T = {[ch |-> c, occurrences |-> HowOften(c)] : c \in ToSet(read)}
    BY DEF Freq, Often, HowOften
  <1>4. Len(u) = Cardinality(ToSet(read))
    <2> HIDE DEF u
    <2> QED
      BY <1>2, TableSize
  <1>5. ASSUME NEW b \in 0 .. (NumBuckets - 1), NEW i \in DOMAIN Elements(counts.buckets[b])
        PROVE  HashFrequency(Elements(counts.buckets[b])[i]) = b
    <2> DEFINE v == counts.buckets[b]
    <2>1. BucketTallies(v, b, read)
      BY <1>1 DEF Tallies
    <2> HIDE DEF v
    <2>2. IsVector(v)
      BY <2>1 DEF BucketTallies
    <2>3. /\ DOMAIN Elements(v) = 1 .. v.log_len /\ v.log_len \in Nat
          /\ \A j \in 1 .. v.log_len : Elements(v)[j] = VectorNth(v, j - 1)
      BY <2>2, ElementsAre
    <2>4. i \in 1 .. v.log_len /\ i - 1 \in 0 .. (v.log_len - 1)
      BY <2>3 DEF v
    <2>5. Tallied(VectorNth(v, i - 1), b, read)
      BY <2>1, <2>4 DEF BucketTallies
    <2>6. Elements(v)[i].ch % NumBuckets = b
      BY <2>3, <2>4, <2>5 DEF Tallied
    <2> QED
      BY <2>6 DEF HashFrequency, v
  <1> HIDE DEF T, u
  <1> QED
    BY <1>2, <1>3, <1>4, <1>5 DEF TableIsConsistent, u

\* The hash set has one element for each letter that was read, with its number, in
\* the bucket of its hash value.
THEOREM TableStaysConsistent == Spec => []TableIsConsistent
  <1>1. ContainersAssumption /\ TableInv => TableIsConsistent
    BY TallyConsistent
  <1>2. TableInv => TableIsConsistent
    BY <1>1, ContainersAssumption
  <1> QED
    BY <1>2, TableInvariant, PTL

-----------------------------------------------------------------------------
(***************************************************************************)
(* The permutation of ChallengingTest                                      *)
(***************************************************************************)
\* No product of smaller numbers is a multiple of a prime.
LEMMA NoMultiple ==
    ASSUME NEW p \in Nat, IsPrime(p), NEW l \in 1 .. (p - 1), NEW c \in 1 .. (p - 1)
    PROVE  (c * l) % p # 0
  <1> DEFINE S == {d \in Nat : d \in 1 .. (p - 1) /\ (d * l) % p = 0}
  <1> SUFFICES ASSUME S # {} PROVE FALSE
    <2>1. c \in Nat
      OBVIOUS
    <2> QED
      BY <2>1
  <1>1. PICK d \in S : \A e \in S : d <= e
    <2>1. S \in SUBSET Nat
      OBVIOUS
    <2> HIDE DEF S
    <2> QED
      BY <2>1, LeastNumber
  <1>2. /\ d \in 1 .. (p - 1) /\ (d * l) % p = 0 /\ d \in Nat \ {0}
        /\ p \in Nat \ {0} /\ l \in Nat /\ d * l \in Nat
    BY DEF IsPrime
  <1>3. l % p = l /\ l # 0
    BY <1>2
  <1>4. d # 1
    <2> SUFFICES ASSUME d = 1 PROVE FALSE
      OBVIOUS
    <2>1. d * l = l
      BY <1>2
    <2> QED
      BY <1>2, <1>3, <2>1
  <1>5. p % d # 0
    <2>1. d \in 2 .. (p - 1)
      BY <1>2, <1>4
    <2> HIDE DEF S
    <2> QED
      BY <2>1 DEF IsPrime
  <1> DEFINE q == p \div d
             r == p % d
             m == (d * l) \div p
             a == l - q * m
  <1>6. q \in Nat /\ r = p - d * q /\ r \in 0 .. (d - 1)
    BY <1>2, Remainder
  <1>7. m \in Nat /\ d * l = p * m
    <2> DEFINE x == d * l
    <2>1. x \in Nat /\ x % p = 0 /\ p \in Nat \ {0}
      BY <1>2
    <2> HIDE DEF x
    <2>2. x \div p \in Nat /\ x % p = x - p * (x \div p)
      BY <2>1, Remainder
    <2>3. x = p * (x \div p)
      BY <2>1, <2>2
    <2> QED
      BY <2>2, <2>3 DEF x
  <1>8. r \in 1 .. (d - 1) /\ r \in 1 .. (p - 1) /\ r < d
    BY <1>2, <1>5, <1>6
  <1> HIDE DEF q, r, m
  <1>9. r * l = 0 + p * a
    <2>1. r * l = (p - d * q) * l
      BY <1>6
    <2>2. (p - d * q) * l = p * l - (d * q) * l
      BY <1>2, <1>6
    <2>3. (d * q) * l = q * (d * l)
      BY <1>2, <1>6
    <2>4. q * (p * m) = p * (q * m)
      BY <1>2, <1>6, <1>7
    <2>5. p * (l - q * m) = p * l - p * (q * m)
      BY <1>2, <1>6, <1>7
    <2> QED
      BY <1>2, <1>6, <1>7, <1>8, <2>1, <2>2, <2>3, <2>4, <2>5
  <1>10. a \in Int /\ r * l \in Nat
    BY <1>2, <1>6, <1>7, <1>8
  <1>11. (r * l) % p = 0 % p
    <2> HIDE DEF a
    <2> DEFINE y == r * l
    <2>1. y \in Nat /\ y = 0 + p * a
      BY <1>9, <1>10
    <2> HIDE DEF y
    <2>2. p \in Nat \ {0} /\ 0 \in Nat /\ a \in Int
      BY <1>2, <1>10
    <2>3. y % p = 0 % p
      BY <2>1, <2>2, SameRemainder
    <2> QED
      BY <2>3 DEF y
  <1>12. r \in S
    <2>1. 0 % p = 0
      BY <1>2
    <2> QED
      BY <1>8, <1>11, <2>1
  <1> HIDE DEF S
  <1> QED
    BY <1>1, <1>2, <1>8, <1>12

\* InsertPermutationOfNumbers inserts no number twice.
LEMMA NoneTwice ==
    ASSUME NEW p \in Nat, IsPrime(p), NEW l \in 1 .. (p - 1),
           NEW j \in 0 .. (p - 1), NEW k \in 0 .. (p - 1), j < k
    PROVE  (j * l) % p # (k * l) % p
  <1> DEFINE x == j * l
             y == k * l
             a == x \div p
             b == y \div p
             d == k - j
  <1> SUFFICES ASSUME x % p = y % p PROVE FALSE
    OBVIOUS
  <1>1. p \in Nat \ {0} /\ l \in Nat /\ x \in Nat /\ y \in Nat /\ d \in 1 .. (p - 1)
    BY DEF IsPrime
  <1>2. d * l = y - x
    BY <1>1
  <1>3. (d * l) % p # 0
    BY <1>1, NoMultiple
  <1> HIDE DEF x, y, d
  <1>4. a \in Nat /\ x % p = x - p * a
    BY <1>1, Remainder
  <1>5. b \in Nat /\ y % p = y - p * b
    BY <1>1, Remainder
  <1> HIDE DEF a, b
  <1>6. y - x = 0 + p * (b - a)
    BY <1>1, <1>4, <1>5
  <1> DEFINE z == d * l
             c == b - a
  <1>7. z = 0 + p * c /\ c \in Int /\ z \in Nat
    BY <1>1, <1>2, <1>4, <1>5, <1>6
  <1> HIDE DEF z, c
  <1>8. z % p = 0 % p
    BY <1>1, <1>7, SameRemainder
  <1> QED
    BY <1>1, <1>3, <1>8 DEF z

\* A strictly increasing sequence of the numbers below n has every number in its place.
LEMMA EachInPlace ==
    ASSUME NEW n \in Nat, NEW s \in [0 .. (n - 1) -> 0 .. (n - 1)],
           \A i, j \in 0 .. (n - 1) : i < j => s[i] < s[j]
    PROVE  \A k \in 0 .. (n - 1) : s[k] = k
  <1> DEFINE S == {k \in Nat : k < n => k <= s[k]}
             T == {k \in Nat : k < n => s[(n - 1) - k] <= (n - 1) - k}
  <1>1. 0 \in S
    OBVIOUS
  <1>2. ASSUME NEW k \in Nat, k \in S PROVE k + 1 \in S
    <2> SUFFICES ASSUME k + 1 < n PROVE k + 1 <= s[k + 1]
      OBVIOUS
    <2>1. k \in 0 .. (n - 1) /\ k + 1 \in 0 .. (n - 1) /\ k < k + 1 /\ k < n
      OBVIOUS
    <2>2. s[k] < s[k + 1] /\ k <= s[k] /\ s[k] \in Nat /\ s[k + 1] \in Nat
      BY <1>2, <2>1
    <2> QED
      BY <2>2
  <1>3. 0 \in T
    OBVIOUS
  <1>4. ASSUME NEW k \in Nat, k \in T PROVE k + 1 \in T
    <2> DEFINE i == (n - 1) - (k + 1)
               j == (n - 1) - k
    <2> SUFFICES ASSUME k + 1 < n PROVE s[i] <= i
      OBVIOUS
    <2>1. i \in 0 .. (n - 1) /\ j \in 0 .. (n - 1) /\ i < j /\ j = i + 1 /\ k < n
      OBVIOUS
    <2>2. s[j] <= j
      BY <1>4, <2>1
    <2> HIDE DEF i, j
    <2>3. s[i] < s[j] /\ s[i] \in Nat /\ s[j] \in Nat
      BY <2>1
    <2> QED
      BY <2>1, <2>2, <2>3
  <1> HIDE DEF S, T
  <1>5. Nat \subseteq S
    BY <1>1, <1>2, NatClosed
  <1>6. Nat \subseteq T
    BY <1>3, <1>4, NatClosed
  <1> SUFFICES ASSUME NEW k \in 0 .. (n - 1) PROVE s[k] = k
    OBVIOUS
  <1>7. k \in Nat /\ k < n /\ (n - 1) - k \in Nat /\ (n - 1) - k < n /\ (n - 1) - ((n - 1) - k) = k
    OBVIOUS
  <1>8. k <= s[k]
    BY <1>5, <1>7 DEF S
  <1>9. s[k] <= k
    <2> DEFINE i == (n - 1) - k
    <2>1. i \in T /\ i \in Nat /\ i < n /\ (n - 1) - i = k
      BY <1>6, <1>7
    <2> HIDE DEF i
    <2>2. s[(n - 1) - i] <= (n - 1) - i
      BY <2>1 DEF T
    <2> QED
      BY <2>1, <2>2
  <1>10. s[k] \in Nat
    OBVIOUS
  <1> QED
    BY <1>7, <1>8, <1>9, <1>10

-----------------------------------------------------------------------------
(***************************************************************************)
(* The vector                                                              *)
(***************************************************************************)
\* What InsertPermutationOfNumbers has appended so far.
Permuted(v) ==
    /\ v.log_len <= EvenLargerPrime
    /\ \A k \in 0 .. (v.log_len - 1) :
          VectorNth(v, k) = [long |-> (k * LargePrime) % EvenLargerPrime]

\* What DeleteEverythingVerySlowly leaves.
Remaining(v) ==
    /\ AllIn(v, Numbers)
    /\ v.log_len <= EvenLargerPrime
    /\ v.log_len = EvenLargerPrime =>
          \A k \in 0 .. (EvenLargerPrime - 1) : VectorNth(v, k).long = k
    /\ v.log_len > 0 => VectorNth(v, v.log_len - 1).long = EvenLargerPrime - 1

\* TestReplace with its local variables f and g: nothing before f is left to replace.
Replacing(v, f, g) ==
    /\ g.toFind \in Extra /\ g.toReplace \in Extra
    /\ LetterOf(g.toFind) # LetterOf(g.toReplace)
    /\ f \in 0 .. v.log_len
    /\ f = v.log_len => f = 0
    /\ \A i \in 0 .. (f - 1) : VectorNth(v, i).ch # LetterOf(g.toFind)

\* The inductive invariant of the vector.
ListInv ==
    /\ pc \in {"count", "use", "replace", "append", "delete", "end"}
    /\ IsVector(list)
    /\ calls \in 0 .. MaxCalls
    /\ pc # "replace" => found \in {-1, 0}
    /\ pc = "count" => list.log_len = 0
    /\ pc \in {"use", "replace"} => AllIn(list, Frequencies \cup Extra)
    /\ pc = "replace" => Replacing(list, found, goal)
    /\ pc = "append" => Permuted(list)
    /\ pc = "delete" => Remaining(list)
    /\ pc = "end" => AllIn(list, Elems)

\* Searching by letter.
LetterFrom(v, c, start) == VectorSearch(v, {e \in Content(v) : LetterOf(e) = c}, start)

\* What the search finds.
LEMMA LetterSearch ==
    ASSUME NEW v, IsVector(v), NEW c, NEW start \in Nat
    PROVE  LET k == LetterFrom(v, c, start)
           IN  \/ /\ k = -1
                  /\ \A i \in start .. (v.log_len - 1) : VectorNth(v, i).ch # c
               \/ /\ k \in start .. (v.log_len - 1)
                  /\ VectorNth(v, k).ch = c
                  /\ \A i \in start .. (k - 1) : VectorNth(v, i).ch # c
  <1> DEFINE equal == {e \in Content(v) : LetterOf(e) = c}
             k == VectorSearch(v, equal, start)
  <1>1. \A i \in 0 .. (v.log_len - 1) : VectorNth(v, i) \in equal <=> VectorNth(v, i).ch = c
    BY DEF Content, VectorNth, LetterOf
  <1>2. \A i \in start .. (v.log_len - 1) : i \in 0 .. (v.log_len - 1)
    BY DEF IsVector
  <1> HIDE DEF equal, k
  <1>3. \/ /\ k = -1
           /\ \A i \in start .. (v.log_len - 1) : VectorNth(v, i) \notin equal
        \/ /\ k \in start .. (v.log_len - 1)
           /\ VectorNth(v, k) \in equal
           /\ \A i \in start .. (k - 1) : VectorNth(v, i) \notin equal
    BY SearchIs DEF k
  <1>4. \A i \in start .. (k - 1) : k \in start .. (v.log_len - 1) => i \in 0 .. (v.log_len - 1)
    BY DEF IsVector
  <1>5. LetterFrom(v, c, start) = k
    BY DEF LetterFrom, k, equal
  <1> QED
    BY <1>1, <1>2, <1>3, <1>4, <1>5

\* The constants of ChallengingTest.
LEMMA PrimesAre ==
    ASSUME ContainersAssumption
    PROVE  /\ EvenLargerPrime \in Nat \ {0}
           /\ LargePrime \in 1 .. (EvenLargerPrime - 1)
           /\ IsPrime(EvenLargerPrime)
           /\ Distance \in Nat /\ Distance >= 2
  BY DEF ContainersAssumption

\* InsertPermutationOfNumbers.
LEMMA PermuteStep ==
    ASSUME ContainersAssumption, NEW v, IsVector(v), Permuted(v), v.log_len < EvenLargerPrime,
           NEW e, e = [long |-> (v.log_len * LargePrime) % EvenLargerPrime]
    PROVE  Permuted(VectorAppend(v, e))
  <1> DEFINE w == VectorAppend(v, e)
  <1>1. /\ w.log_len = v.log_len + 1
        /\ \A i \in 0 .. (v.log_len - 1) : VectorNth(w, i) = VectorNth(v, i)
        /\ VectorNth(w, v.log_len) = e
    BY AppendIs
  <1>2. v.log_len \in Nat /\ EvenLargerPrime \in Nat
    BY PrimesAre DEF IsVector
  <1> HIDE DEF w
  <1>3. \A i \in 0 .. (w.log_len - 1) : i = v.log_len \/ i \in 0 .. (v.log_len - 1)
    BY <1>1, <1>2
  <1>4. w.log_len <= EvenLargerPrime
    BY <1>1, <1>2
  <1>5. ASSUME NEW i \in 0 .. (w.log_len - 1)
        PROVE  VectorNth(w, i) = [long |-> (i * LargePrime) % EvenLargerPrime]
    <2>1. CASE i = v.log_len
      BY <1>1, <2>1
    <2>2. CASE i \in 0 .. (v.log_len - 1)
      BY <1>1, <2>2 DEF Permuted
    <2> QED
      BY <1>3, <2>1, <2>2
  <1> QED
    BY <1>4, <1>5 DEF Permuted, w

\* LongCompare, as a relation on the content.
LongOrder(v) == {p \in Content(v) \X Content(v) : LongLess(p[1], p[2])}

\* SortPermutation: every number comes to its place.
LEMMA PermuteSorts ==
    ASSUME ContainersAssumption, NEW v, IsVector(v), Permuted(v), v.log_len = EvenLargerPrime,
           NEW w \in VectorSort(v, LongOrder(v))
    PROVE  Remaining(w)
  <1> DEFINE before == LongOrder(v)
             n == EvenLargerPrime
             l == LargePrime
             f(k) == (k * l) % n
  <1>1. /\ n \in Nat \ {0} /\ n \in Nat /\ l \in 1 .. (n - 1) /\ IsPrime(n) /\ v.log_len = n
    BY PrimesAre
  <1> HIDE DEF n, l
  <1>2. \A k \in 0 .. (n - 1) : VectorNth(v, k) = [long |-> f(k)]
    BY <1>1 DEF Permuted, n, l
  <1>3. ASSUME NEW k \in 0 .. (n - 1) PROVE f(k) \in 0 .. (n - 1)
    <2> DEFINE x == k * l
    <2>1. x \in Nat
      BY <1>1
    <2> HIDE DEF x
    <2>2. x % n \in 0 .. (n - 1)
      BY <1>1, <2>1, Remainder
    <2> QED
      BY <2>2 DEF x
  <1>4. ASSUME NEW j \in 0 .. (n - 1), NEW k \in 0 .. (n - 1), j # k PROVE f(j) # f(k)
    <2>1. CASE j < k
      BY <1>1, <2>1, NoneTwice
    <2>2. CASE k < j
      BY <1>1, <2>2, NoneTwice
    <2> QED
      BY <1>1, <1>4, <2>1, <2>2
  <1>5. /\ w.log_len = v.log_len
        /\ \E p : /\ IsOrder(p, v, before)
                  /\ \A i \in 0 .. (v.log_len - 1) : VectorNth(w, i) = VectorNth(v, p[i])
    BY SortIs
  <1>6. PICK p : /\ IsOrder(p, v, before)
                 /\ \A i \in 0 .. (v.log_len - 1) : VectorNth(w, i) = VectorNth(v, p[i])
    BY <1>5
  <1>7. /\ \A i \in 0 .. (n - 1) : p[i] \in 0 .. (n - 1)
        /\ \A i, j \in 0 .. (n - 1) : i # j => p[i] # p[j]
        /\ \A i, j \in 0 .. (n - 1) : i < j => <<VectorNth(v, p[j]), VectorNth(v, p[i])>> \notin before
        /\ \A i \in 0 .. (n - 1) : VectorNth(w, i) = VectorNth(v, p[i])
    BY <1>1, <1>6 DEF IsOrder, VectorNth
  <1> DEFINE s == [k \in 0 .. (n - 1) |-> f(p[k])]
  <1>8. \A k \in 0 .. (n - 1) : VectorNth(w, k) = [long |-> f(p[k])]
    BY <1>2, <1>7
  <1>9. s \in [0 .. (n - 1) -> 0 .. (n - 1)]
    BY <1>3, <1>7
  <1>10. ASSUME NEW i \in 0 .. (n - 1), NEW j \in 0 .. (n - 1), i < j PROVE s[i] < s[j]
    <2>1. p[i] \in 0 .. (n - 1) /\ p[j] \in 0 .. (n - 1) /\ p[i] # p[j]
      BY <1>7, <1>10
    <2>2. f(p[i]) # f(p[j]) /\ f(p[i]) \in 0 .. (n - 1) /\ f(p[j]) \in 0 .. (n - 1)
      BY <1>3, <1>4, <2>1
    <2>3. \A k \in 0 .. (n - 1) : VectorNth(v, k) \in Content(v)
      BY <1>1 DEF Content, VectorNth
    <2>4. ~LongLess(VectorNth(v, p[j]), VectorNth(v, p[i]))
      <3> DEFINE x == VectorNth(v, p[j])
                 y == VectorNth(v, p[i])
      <3>1. x \in Content(v) /\ y \in Content(v) /\ <<x, y>> \notin before
        BY <1>7, <1>10, <2>1, <2>3
      <3> HIDE DEF x, y
      <3>2. ~LongLess(x, y)
        BY <3>1 DEF LongOrder
      <3> QED
        BY <3>2 DEF x, y
    <2>5. VectorNth(v, p[j]).long = f(p[j]) /\ VectorNth(v, p[i]).long = f(p[i])
      BY <1>2, <2>1
    <2>6. ~(f(p[j]) < f(p[i]))
      BY <2>4, <2>5 DEF LongLess
    <2>7. s[i] = f(p[i]) /\ s[j] = f(p[j])
      OBVIOUS
    <2> HIDE DEF s, f
    <2> QED
      BY <1>1, <2>2, <2>6, <2>7
  <1>11. \A k \in 0 .. (n - 1) : s[k] = f(p[k])
    OBVIOUS
  <1> HIDE DEF s, f
  <1>12. \A k \in 0 .. (n - 1) : s[k] = k
    BY <1>1, <1>9, <1>10, EachInPlace
  <1>13. \A k \in 0 .. (n - 1) : VectorNth(w, k) = [long |-> k]
    BY <1>8, <1>11, <1>12
  <1>14. \A k \in 0 .. (n - 1) : VectorNth(w, k) \in Numbers /\ VectorNth(w, k).long = k
    BY <1>13 DEF Numbers, n
  <1>15. n - 1 \in 0 .. (n - 1) /\ n <= n
    BY <1>1
  <1>16. w.log_len = n
    BY <1>1, <1>5
  <1>17. AllIn(w, Numbers)
    BY <1>16, <1>14 DEF AllIn
  <1>18. VectorNth(w, w.log_len - 1).long = n - 1
    BY <1>16, <1>14, <1>15
  <1> QED
    BY <1>16, <1>14, <1>15, <1>17, <1>18 DEF Remaining, n

\* DeleteEverythingVerySlowly.
LEMMA RemainStep ==
    ASSUME ContainersAssumption, NEW v, IsVector(v), Remaining(v), v.log_len > 0,
           NEW pos, pos = IF v.log_len >= Distance THEN v.log_len - Distance ELSE 0
    PROVE  /\ pos \in 0 .. (v.log_len - 1)
           /\ Remaining(VectorDelete(v, pos))
  <1> DEFINE w == VectorDelete(v, pos)
             n == v.log_len
  <1>1. n \in Nat /\ n > 0 /\ EvenLargerPrime \in Nat /\ n <= EvenLargerPrime
        /\ Distance \in Nat /\ Distance >= 2
    BY PrimesAre DEF IsVector, Remaining
  <1>2. pos \in 0 .. (n - 1) /\ (n > 1 => pos <= n - 2)
    BY <1>1
  <1>3. /\ w.log_len = n - 1
        /\ \A i \in 0 .. (n - 2) :
              VectorNth(w, i) = IF i < pos THEN VectorNth(v, i) ELSE VectorNth(v, i + 1)
    BY <1>2, DeleteIs
  <1>4. AllIn(w, Numbers)
    BY <1>2, DeleteIn DEF Remaining
  <1> HIDE DEF w
  <1>5. w.log_len <= EvenLargerPrime /\ w.log_len # EvenLargerPrime
    BY <1>1, <1>3
  <1>6. ASSUME w.log_len > 0 PROVE VectorNth(w, w.log_len - 1).long = EvenLargerPrime - 1
    <2>1. /\ n - 2 \in 0 .. (n - 2) /\ ~(n - 2 < pos) /\ (n - 2) + 1 = n - 1
          /\ w.log_len - 1 = n - 2
      BY <1>1, <1>2, <1>3, <1>6
    <2>2. VectorNth(w, n - 2) = VectorNth(v, n - 1)
      BY <1>3, <2>1
    <2>3. VectorNth(v, n - 1).long = EvenLargerPrime - 1
      BY <1>1 DEF Remaining
    <2> QED
      BY <2>1, <2>2, <2>3
  <1>7. Remaining(w)
    BY <1>4, <1>5, <1>6 DEF Remaining
  <1> QED
    BY <1>2, <1>7 DEF w

\* TestReplace.
LEMMA ReplaceStep ==
    ASSUME NEW v, IsVector(v), NEW f, NEW g, Replacing(v, f, g),
           NEW k, k = LetterFrom(v, LetterOf(g.toFind), f), k # -1
    PROVE  /\ k \in 0 .. (v.log_len - 1)
           /\ Replacing(VectorReplace(v, g.toReplace, k), k, g)
  <1> DEFINE b == g.toReplace
             w == VectorReplace(v, b, k)
             c == LetterOf(g.toFind)
  <1>1. f \in Nat /\ v.log_len \in Nat
    BY DEF IsVector, Replacing
  <1>2. /\ k \in f .. (v.log_len - 1)
        /\ \A i \in f .. (k - 1) : VectorNth(v, i).ch # c
    BY <1>1, LetterSearch
  <1>3. k \in 0 .. (v.log_len - 1) /\ k \in Nat
    BY <1>1, <1>2
  <1>4. /\ w.log_len = v.log_len
        /\ \A i \in 0 .. (v.log_len - 1) : VectorNth(w, i) = IF i = k THEN b ELSE VectorNth(v, i)
    <2> HIDE DEF b
    <2> QED
      BY <1>3, ReplaceIs
  <1> HIDE DEF w
  <1>5. ASSUME NEW i \in 0 .. (k - 1) PROVE VectorNth(w, i).ch # c
    <2>1. i \in 0 .. (v.log_len - 1) /\ i # k
      BY <1>1, <1>3
    <2>2. i \in 0 .. (f - 1) \/ i \in f .. (k - 1)
      BY <1>1, <1>2
    <2>3. VectorNth(v, i).ch # c
      BY <1>2, <2>2 DEF Replacing
    <2> QED
      BY <1>4, <2>1, <2>3
  <1>6. k \in 0 .. w.log_len /\ k # w.log_len
    BY <1>1, <1>3, <1>4
  <1>7. Replacing(w, k, g)
    BY <1>5, <1>6 DEF Replacing
  <1> QED
    BY <1>3, <1>7 DEF w

\* Nothing is left to replace when the search fails, or has reached the end.
LEMMA ReplaceEnds ==
    ASSUME NEW v, IsVector(v), NEW f, NEW g, Replacing(v, f, g),
           \/ ~(f < v.log_len)
           \/ LetterFrom(v, LetterOf(g.toFind), f) = -1
    PROVE  \A i \in 0 .. (v.log_len - 1) : VectorNth(v, i).ch # LetterOf(g.toFind)
  <1> DEFINE c == LetterOf(g.toFind)
             k == LetterFrom(v, LetterOf(g.toFind), f)
  <1>1. f \in Nat /\ v.log_len \in Nat /\ f <= v.log_len
    BY DEF IsVector, Replacing
  <1>2. CASE ~(f < v.log_len)
    <2>1. v.log_len = f
      BY <1>1, <1>2
    <2> QED
      BY <2>1 DEF Replacing
  <1>3. CASE k = -1
    <2>1. \A i \in f .. (v.log_len - 1) : VectorNth(v, i).ch # c
      <3>1. k \notin f .. (v.log_len - 1)
        BY <1>1, <1>3
      <3> QED
        BY <1>1, <3>1, LetterSearch
    <2>2. \A i \in 0 .. (v.log_len - 1) : i \in 0 .. (f - 1) \/ i \in f .. (v.log_len - 1)
      BY <1>1
    <2> QED
      BY <2>1, <2>2 DEF Replacing
  <1> QED
    BY <1>2, <1>3

\* AddFrequencies.
LEMMA FillIn ==
    ASSUME ContainersAssumption, NEW r \in Seq(Letters), Len(r) <= MaxLetters, NEW h, Tallies(h, r),
           NEW v, IsVector(v), v.log_len = 0
    PROVE  LET w == FoldLeft(VectorAppend, v, Table!HashSetElements(h))
           IN  IsVector(w) /\ AllIn(w, Frequencies)
  <1> DEFINE T == {Freq(r, c) : c \in ToSet(r)}
             u == Table!HashSetElements(h)
             w == FoldLeft(VectorAppend, v, u)
  <1>1. u \in Seq(T)
    BY TableElements
  <1>2. T \subseteq Frequencies
    BY OftenRead, FreqIs
  <1> HIDE DEF T, u
  <1>3. /\ IsVector(w) /\ w.log_len = Len(u)
        /\ Elements(w) = u
    BY <1>1, AppendAll
  <1> HIDE DEF w
  <1>4. /\ Len(u) \in Nat
        /\ \A i \in 1 .. Len(u) : u[i] \in T
    BY <1>1, LenProperties, ElementOfSeq
  <1>5. /\ \A i \in 0 .. (w.log_len - 1) : Elements(w)[i + 1] = VectorNth(w, i)
        /\ w.log_len \in Nat
    BY <1>3, ElementsAre
  <1>6. ASSUME NEW i \in 0 .. (w.log_len - 1) PROVE VectorNth(w, i) \in Frequencies
    <2>1. i + 1 \in 1 .. Len(u)
      BY <1>3, <1>5
    <2> QED
      BY <1>2, <1>3, <1>4, <1>5, <2>1
  <1> QED
    BY <1>3, <1>6 DEF AllIn, w, u

\* What the elements are.
LEMMA InMore ==
    ASSUME NEW v, NEW S, NEW T, AllIn(v, S), S \subseteq T
    PROVE  AllIn(v, T)
  BY DEF AllIn

\* What is in the vector always has its place: the array does not overflow, the
\* indices of the client are valid, and the tests find what they expect.
THEOREM ListInvariant == Spec => []ListInv
  <1> USE ContainersAssumption
  <1> DEFINE Used == Frequencies \cup Extra
  <1>1. Init => ListInv
    <2> SUFFICES ASSUME Init PROVE ListInv
      OBVIOUS
    <2> DEFINE o == pc = "count"
               n == InitialAllocation
    <2>1. /\ list = VectorNew(o, n) /\ n \in Nat
          /\ pc \in {"count", "append"} /\ found = 0 /\ calls = 0
          /\ MaxCalls \in Nat
      BY DEF Init, ContainersAssumption
    <2> HIDE DEF n, o
    <2>2. IsVector(list) /\ list.log_len = 0
      BY <2>1, NewVector, Zenon
    <2>3. Permuted(list)
      BY <2>2, PrimesAre DEF Permuted
    <2> QED
      BY <2>1, <2>2, <2>3 DEF ListInv
  <1>2. TableInv /\ ListInv /\ [Next]_vars => ListInv'
    <2> SUFFICES ASSUME TableInv, ListInv, [Next]_vars PROVE ListInv'
      OBVIOUS
    <2> DEFINE v == list
               w == list'
    <2>1. IsVector(v) /\ v.log_len \in Nat
      BY DEF ListInv, IsVector
    <2> HIDE DEF Used
    <2>2. ASSUME Use, pc' = pc, IsVector(w), AllIn(w, Used) PROVE ListInv'
      <3>1. calls' \in 0 .. MaxCalls /\ pc = "use" /\ found' = found
        BY <2>2 DEF Use, ListInv, ContainersAssumption
      <3> QED
        BY <2>2, <3>1 DEF ListInv, Used
    <2>3. ASSUME Use PROVE AllIn(v, Used)
      BY <2>3 DEF Use, ListInv, Used
    <2>4. ASSUME NEW ch \in Letters, CountLetter(ch) PROVE ListInv'
      BY <2>4 DEF CountLetter, ListInv
    <2>5. CASE AddFrequencies
      <3>1. /\ pc = "count" /\ pc' = "use" /\ found' = found /\ calls' = calls
            /\ w = FoldLeft(VectorAppend, v, Table!HashSetElements(counts))
        BY <2>5 DEF AddFrequencies
      <3>2. v.log_len = 0
        BY <3>1 DEF ListInv
      <3>3. read \in Seq(Letters) /\ Len(read) <= MaxLetters /\ Tallies(counts, read)
        BY DEF TableInv
      <3>4. IsVector(w) /\ AllIn(w, Frequencies)
        BY <2>1, <3>1, <3>2, <3>3, FillIn
      <3>5. AllIn(w, Used)
        BY <3>4, InMore DEF Used
      <3> QED
        BY <3>1, <3>4, <3>5 DEF ListInv, Used
    <2>6. ASSUME NEW elem \in Extra, TestAppend(elem) PROVE ListInv'
      <3>1. Use /\ pc' = pc /\ w = VectorAppend(v, elem) /\ elem \in Used
        BY <2>6 DEF TestAppend, Used
      <3>2. IsVector(w) /\ AllIn(w, Used)
        BY <2>1, <2>3, <3>1, AppendIs, AppendIn
      <3> QED
        BY <2>2, <3>1, <3>2
    <2>7. CASE TestSort
      <3> DEFINE before == {p \in Content(list) \X Content(list) : Precedes(p[1], p[2])}
      <3>1. Use /\ pc' = pc /\ w \in VectorSort(v, before)
        BY <2>7 DEF TestSort
      <3> HIDE DEF before
      <3>2. IsVector(w) /\ AllIn(w, Used)
        BY <2>1, <2>3, <3>1, SortIs, SortIn
      <3> QED
        BY <2>2, <3>1, <3>2
    <2>8. ASSUME NEW elem \in Extra, NEW pos \in 0 .. VectorLength(list), TestInsert(elem, pos)
          PROVE  ListInv'
      <3>1. Use /\ pc' = pc /\ w = VectorInsert(v, elem, pos) /\ elem \in Used /\ pos \in 0 .. v.log_len
        BY <2>8 DEF TestInsert, Used, VectorLength
      <3>2. IsVector(w) /\ AllIn(w, Used)
        BY <2>1, <2>3, <3>1, InsertIs, InsertIn
      <3> QED
        BY <2>2, <3>1, <3>2
    <2>9. ASSUME NEW pos \in 0 .. (VectorLength(list) - 1), TestDelete(pos) PROVE ListInv'
      <3>1. Use /\ pc' = pc /\ w = VectorDelete(v, pos) /\ pos \in 0 .. (v.log_len - 1)
        BY <2>9 DEF TestDelete, VectorLength
      <3>2. IsVector(w) /\ AllIn(w, Used)
        BY <2>1, <2>3, <3>1, DeleteIs, DeleteIn
      <3> QED
        BY <2>2, <3>1, <3>2
    <2>10. ASSUME NEW old \in Extra, NEW new \in Extra, BeginReplace(old, new) PROVE ListInv'
      <3>1. /\ pc = "use" /\ pc' = "replace" /\ w = v /\ found' = 0
            /\ calls' \in 0 .. MaxCalls
            /\ goal' = [toFind |-> old, toReplace |-> new]
            /\ LetterOf(old) # LetterOf(new)
        BY <2>10 DEF BeginReplace, ListInv, ContainersAssumption
      <3>2. goal'.toFind = old /\ goal'.toReplace = new
        BY <3>1
      <3>3. Replacing(v, 0, goal')
        BY <2>1, <3>1, <3>2 DEF Replacing
      <3>4. AllIn(v, Used)
        BY <3>1 DEF ListInv, Used
      <3> QED
        BY <2>1, <3>1, <3>3, <3>4 DEF ListInv, Used
    <2>11. CASE ReplaceFound
      <3> DEFINE k == NextFound
      <3>1. /\ pc = "replace" /\ pc' = "replace" /\ k # -1 /\ found' = k
            /\ goal' = goal /\ calls' = calls
            /\ w = VectorReplace(v, goal.toReplace, k)
        BY <2>11 DEF ReplaceFound
      <3>2. k = LetterFrom(v, LetterOf(goal.toFind), found)
        BY DEF NextFound, LetterFrom
      <3>3. Replacing(v, found, goal) /\ AllIn(v, Used)
        BY <3>1 DEF ListInv, Used
      <3> HIDE DEF k
      <3>4. /\ k \in 0 .. (v.log_len - 1)
            /\ Replacing(VectorReplace(v, goal.toReplace, k), k, goal)
        BY <2>1, <3>1, <3>2, <3>3, ReplaceStep
      <3> DEFINE b == goal.toReplace
      <3>5. b \in Used
        BY <3>3 DEF Replacing, Used
      <3> HIDE DEF b
      <3>6. IsVector(VectorReplace(v, b, k)) /\ AllIn(VectorReplace(v, b, k), Used)
        BY <2>1, <3>3, <3>4, <3>5, ReplaceIs, ReplaceIn
      <3>7. IsVector(w) /\ AllIn(w, Used) /\ Replacing(w, k, goal)
        BY <3>1, <3>4, <3>6 DEF b
      <3> QED
        BY <3>1, <3>7 DEF ListInv, Used
    <2>12. CASE EndReplace
      <3>1. /\ pc = "replace" /\ pc' = "use" /\ w = v /\ calls' = calls
            /\ found' = IF found < VectorLength(list) THEN -1 ELSE found
        BY <2>12 DEF EndReplace
      <3>2. Replacing(v, found, goal) /\ AllIn(v, Used)
        BY <3>1 DEF ListInv, Used
      <3>3. found' \in {-1, 0}
        BY <2>1, <3>1, <3>2 DEF Replacing, VectorLength
      <3> QED
        BY <2>1, <3>1, <3>2, <3>3 DEF ListInv, Used
    <2>13. CASE InsertNumber
      <3> DEFINE e == [long |-> (v.log_len * LargePrime) % EvenLargerPrime]
      <3>1. /\ pc = "append" /\ pc' = pc /\ found' = found /\ calls' = calls
            /\ v.log_len < EvenLargerPrime
            /\ w = VectorAppend(v, e)
        BY <2>13 DEF InsertNumber, VectorLength
      <3>2. Permuted(v)
        BY <3>1 DEF ListInv
      <3>3. Permuted(w)
        BY <2>1, <3>1, <3>2, PermuteStep
      <3>4. IsVector(w)
        <4> HIDE DEF e
        <4> QED
          BY <2>1, <3>1, AppendIs
      <3> QED
        BY <3>1, <3>3, <3>4 DEF ListInv
    <2>14. CASE SortPermutation
      <3>1. /\ pc = "append" /\ pc' = "delete" /\ found' = found /\ calls' = calls
            /\ v.log_len = EvenLargerPrime
            /\ w \in VectorSort(v, LongOrder(v))
        BY <2>14 DEF SortPermutation, VectorLength, LongOrder
      <3>2. Permuted(v)
        BY <3>1 DEF ListInv
      <3>3. Remaining(w) /\ IsVector(w)
        BY <2>1, <3>1, <3>2, PermuteSorts, SortIs
      <3> QED
        BY <3>1, <3>3 DEF ListInv
    <2>15. CASE DeleteSlowly
      <3> DEFINE pos == IF v.log_len >= Distance THEN v.log_len - Distance ELSE 0
      <3>1. /\ pc = "delete" /\ pc' = pc /\ found' = found /\ calls' = calls
            /\ v.log_len > 0
            /\ w = VectorDelete(v, pos)
        BY <2>15 DEF DeleteSlowly, VectorLength
      <3>2. Remaining(v)
        BY <3>1 DEF ListInv
      <3>3. pos \in 0 .. (v.log_len - 1) /\ Remaining(w)
        BY <2>1, <3>1, <3>2, RemainStep
      <3> HIDE DEF pos
      <3>4. IsVector(w)
        BY <2>1, <3>1, <3>3, DeleteIs
      <3> QED
        BY <3>1, <3>3, <3>4 DEF ListInv
    <2>16. CASE Dispose
      <3>1. /\ pc = "use" \/ (pc = "delete" /\ v.log_len = 0)
            /\ pc' = "end" /\ found' = found /\ calls' = calls
            /\ w = VectorDispose(v)
        BY <2>16 DEF Dispose, VectorLength
      <3>2. Used \subseteq Elems /\ Numbers \subseteq Elems
        BY DEF Elems, Used
      <3>3. AllIn(v, Elems)
        BY <3>1, <3>2, InMore DEF ListInv, Remaining, Used
      <3>4. IsVector(w) /\ AllIn(w, Elems)
        BY <2>1, <3>1, <3>3, DisposeIs, DisposeIn
      <3> QED
        BY <3>1, <3>4 DEF ListInv
    <2>17. CASE UNCHANGED vars
      BY <2>17 DEF ListInv, vars
    <2> QED
      BY <2>4, <2>5, <2>6, <2>7, <2>8, <2>9, <2>10, <2>11, <2>12, <2>13, <2>14, <2>15, <2>16, <2>17
      DEF Next, Finished
  <1> QED
    BY <1>1, <1>2, TableInvariant, PTL DEF Spec

-----------------------------------------------------------------------------
(***************************************************************************)
(* What the run checks                                                     *)
(***************************************************************************)
\* The vectors of the program are as TypeOK says.
LEMMA VectorIsOK ==
    ASSUME NEW v, IsVector(v), AllIn(v, Elems)
    PROVE  VectorOK(v)
  <1>1. /\ v.log_len \in Nat
        /\ \A i \in 1 .. v.log_len : Elements(v)[i] = VectorNth(v, i - 1)
    BY ElementsAre
  <1>2. \A i \in 1 .. v.log_len : i - 1 \in 0 .. (v.log_len - 1)
    BY <1>1
  <1>3. \A i \in 1 .. v.log_len : Elements(v)[i] \in Elems
    BY <1>1, <1>2 DEF AllIn
  <1>4. DOMAIN v.arr = 0 .. (v.alloc_len - 1)
    BY DEF IsVector
  <1> QED
    BY <1>3, <1>4 DEF VectorOK, IsVector

\* What InsertPermutationOfNumbers appends are numbers.
LEMMA PermutedNumbers ==
    ASSUME ContainersAssumption, NEW v, Permuted(v)
    PROVE  AllIn(v, Numbers)
  <1>1. ASSUME NEW k \in 0 .. (v.log_len - 1) PROVE VectorNth(v, k) \in Numbers
    <2> DEFINE x == k * LargePrime
    <2>1. x \in Nat /\ EvenLargerPrime \in Nat \ {0}
      BY PrimesAre
    <2> HIDE DEF x
    <2>2. x % EvenLargerPrime \in 0 .. (EvenLargerPrime - 1)
      BY <2>1, Remainder
    <2>3. VectorNth(v, k) = [long |-> x % EvenLargerPrime]
      BY DEF Permuted, x
    <2> QED
      BY <2>2, <2>3 DEF Numbers
  <1> QED
    BY <1>1 DEF AllIn

\* The vector has no garbage in use.
LEMMA ListInElems ==
    ASSUME ContainersAssumption, ListInv
    PROVE  AllIn(list, Elems)
  <1>1. CASE pc = "count"
    <2>1. 0 .. (list.log_len - 1) = {}
      BY <1>1 DEF ListInv
    <2> QED
      BY <2>1 DEF AllIn
  <1>2. CASE pc \in {"use", "replace"}
    <2>1. AllIn(list, Frequencies \cup Extra) /\ Frequencies \cup Extra \subseteq Elems
      BY <1>2 DEF ListInv, Elems
    <2> QED
      BY <2>1, InMore
  <1>3. CASE pc = "append"
    <2>1. Permuted(list)
      BY <1>3 DEF ListInv
    <2>2. AllIn(list, Numbers) /\ Numbers \subseteq Elems
      BY <2>1, PermutedNumbers DEF Elems
    <2> QED
      BY <2>2, InMore
  <1>4. CASE pc = "delete"
    <2>1. AllIn(list, Numbers) /\ Numbers \subseteq Elems
      BY <1>4 DEF ListInv, Remaining, Elems
    <2> QED
      BY <2>1, InMore
  <1>5. CASE pc = "end"
    BY <1>5 DEF ListInv
  <1> QED
    BY <1>1, <1>2, <1>3, <1>4, <1>5 DEF ListInv

\* The buckets have none either.
LEMMA BucketInElems ==
    ASSUME ContainersAssumption, TableInv, NEW b \in 0 .. (NumBuckets - 1)
    PROVE  IsVector(counts.buckets[b]) /\ AllIn(counts.buckets[b], Elems)
  <1> DEFINE v == counts.buckets[b]
  <1>1. BucketTallies(v, b, read)
    BY DEF TableInv, Tallies
  <1> HIDE DEF v
  <1>2. ASSUME NEW i \in 0 .. (v.log_len - 1) PROVE VectorNth(v, i) \in Elems
    <2> DEFINE e == VectorNth(v, i)
               c == e.ch
    <2>1. Tallied(e, b, read)
      BY <1>1 DEF BucketTallies
    <2> HIDE DEF e
    <2>2. c \in Letters /\ Often(read, c) # 0 /\ e = Freq(read, c)
      BY <2>1 DEF Tallied
    <2> HIDE DEF c
    <2>3. Freq(read, c) \in Frequencies
      BY <2>2, FreqIs DEF TableInv
    <2> QED
      BY <2>2, <2>3 DEF Elems, e
  <1> QED
    BY <1>1, <1>2 DEF BucketTallies, AllIn, v

\* Types and the shape of the containers: no garbage is among the elements.
THEOREM TypeCorrect == Spec => []TypeOK
  <1> USE ContainersAssumption
  <1>1. TableInv /\ ListInv => TypeOK
    <2> SUFFICES ASSUME TableInv, ListInv PROVE TypeOK
      OBVIOUS
    <2>1. VectorOK(list)
      BY ListInElems, VectorIsOK DEF ListInv
    <2>2. ASSUME NEW b \in 0 .. (NumBuckets - 1) PROVE VectorOK(counts.buckets[b])
      BY BucketInElems, VectorIsOK
    <2>3. found \in -1 .. VectorLength(list)
      <3>1. list.log_len \in Nat
        BY DEF ListInv, IsVector
      <3> QED
        BY <3>1 DEF ListInv, Replacing, VectorLength
    <2> QED
      BY <2>1, <2>2, <2>3 DEF TypeOK, ListInv, TableInv
  <1> QED
    BY <1>1, TableInvariant, ListInvariant, PTL

\* Sorting brings every number to its place, and the largest one stays the last.
THEOREM AllNumbersSurvive == Spec => []NumbersSurvive
  <1>1. ListInv => NumbersSurvive
    BY DEF ListInv, Remaining, NumbersSurvive, VectorLength
  <1> QED
    BY <1>1, ListInvariant, PTL

\* TestReplace leaves nothing to replace.
THEOREM NothingLeft == Spec => AllReplaced
  <1> USE ContainersAssumption
  <1> DEFINE Done == (pc = "replace" /\ pc' = "use") =>
                        \A i \in DOMAIN Elements(list) :
                           LetterOf(Elements(list)[i]) # LetterOf(goal.toFind)
  <1>1. ListInv /\ [Next]_vars => [Done]_vars
    <2> SUFFICES ASSUME ListInv, Next, pc = "replace", pc' = "use",
                        NEW i \in DOMAIN Elements(list)
                 PROVE  LetterOf(Elements(list)[i]) # LetterOf(goal.toFind)
      OBVIOUS
    <2>1. EndReplace
      BY DEF Next, CountLetter, AddFrequencies, Use, TestAppend, TestSort, TestInsert, TestDelete,
             BeginReplace, ReplaceFound, InsertNumber, SortPermutation, DeleteSlowly, Dispose, Finished
    <2>2. IsVector(list) /\ Replacing(list, found, goal)
      BY DEF ListInv
    <2>3. \/ ~(found < list.log_len)
          \/ LetterFrom(list, LetterOf(goal.toFind), found) = -1
      BY <2>1 DEF EndReplace, NextFound, LetterFrom, VectorLength
    <2>4. \A k \in 0 .. (list.log_len - 1) : VectorNth(list, k).ch # LetterOf(goal.toFind)
      BY <2>2, <2>3, ReplaceEnds
    <2>5. /\ DOMAIN Elements(list) = 1 .. list.log_len /\ list.log_len \in Nat
          /\ \A k \in 1 .. list.log_len : Elements(list)[k] = VectorNth(list, k - 1)
      BY <2>2, ElementsAre
    <2>6. i - 1 \in 0 .. (list.log_len - 1) /\ Elements(list)[i] = VectorNth(list, i - 1)
      BY <2>5
    <2> QED
      BY <2>4, <2>6 DEF LetterOf
  <1> QED
    BY <1>1, ListInvariant, PTL DEF Spec, AllReplaced

-----------------------------------------------------------------------------
(***************************************************************************)
(* The abstract containers                                                 *)
(***************************************************************************)
\* The instance has its own copies of the library's operators.
LEMMA SameLibrary ==
    ASSUME NEW s, NEW i, NEW e
    PROVE  /\ A!InsertAt(s, i, e) = InsertAt(s, i, e)
           /\ A!RemoveAt(s, i) = RemoveAt(s, i)
           /\ A!Cardinality(s) = Cardinality(s)
  <1>1. A!InsertAt(s, i, e) = InsertAt(s, i, e) /\ A!RemoveAt(s, i) = RemoveAt(s, i)
    BY DEF A!InsertAt, InsertAt, A!RemoveAt, RemoveAt
  <1>2. A!Cardinality(s) = Cardinality(s)
    BY Zenon DEF A!Cardinality, Cardinality
  <1> QED
    BY <1>1, <1>2

\* What Sort may do.
SortedInto(s, t) ==
    \E p \in [DOMAIN s -> DOMAIN s] :
       /\ \A i, j \in DOMAIN s : i # j => p[i] # p[j]
       /\ t = [i \in DOMAIN s |-> s[p[i]]]
       /\ \A i, j \in DOMAIN s : i < j => ~SortsBefore(t[j], t[i])

\* The relation has the pairs that SortsBefore orders.
Covers(v, before) ==
    \A x, y \in Content(v) : SortsBefore(x, y) => <<x, y>> \in before

\* VectorSort does what Sort may do.
LEMMA SortMaps ==
    ASSUME NEW v, IsVector(v), NEW before, Covers(v, before), NEW w \in VectorSort(v, before)
    PROVE  SortedInto(Elements(v), Elements(w))
  <1> DEFINE n == v.log_len
             s == Elements(v)
             t == Elements(w)
  <1>1. /\ IsVector(w) /\ w.log_len = n
        /\ \E p : /\ IsOrder(p, v, before)
                  /\ \A i \in 0 .. (v.log_len - 1) : VectorNth(w, i) = VectorNth(v, p[i])
    BY SortIs
  <1>2. PICK p : /\ IsOrder(p, v, before)
                 /\ \A i \in 0 .. (v.log_len - 1) : VectorNth(w, i) = VectorNth(v, p[i])
    BY <1>1
  <1>3. /\ n \in Nat /\ DOMAIN s = 1 .. n
        /\ \A i \in 1 .. n : s[i] = VectorNth(v, i - 1)
        /\ \A i \in 0 .. (n - 1) : s[i + 1] = VectorNth(v, i)
    BY ElementsAre
  <1>4. /\ DOMAIN t = 1 .. n /\ \A i \in 1 .. n : t[i] = VectorNth(w, i - 1)
        /\ t \in Seq(Content(w)) /\ Len(t) = n
    BY <1>1, ElementsAre
  <1>5. /\ \A i \in 0 .. (n - 1) : p[i] \in 0 .. (n - 1) /\ VectorNth(v, i) \in Content(v)
        /\ \A i, j \in 0 .. (n - 1) : i # j => p[i] # p[j]
        /\ \A i, j \in 0 .. (n - 1) : i < j => <<VectorNth(v, p[j]), VectorNth(v, p[i])>> \notin before
        /\ \A i \in 0 .. (n - 1) : VectorNth(w, i) = VectorNth(v, p[i])
    BY <1>2 DEF IsOrder, VectorNth, Content
  <1> HIDE DEF n, s, t
  <1> DEFINE q == [i \in 1 .. n |-> p[i - 1] + 1]
  <1>6. \A i \in 1 .. n : /\ i - 1 \in 0 .. (n - 1) /\ p[i - 1] \in 0 .. (n - 1)
                          /\ q[i] = p[i - 1] + 1 /\ q[i] \in 1 .. n
    BY <1>3, <1>5
  <1>7. q \in [1 .. n -> 1 .. n]
    BY <1>6
  <1>8. \A i \in 1 .. n : t[i] = VectorNth(v, p[i - 1]) /\ t[i] = s[q[i]]
    BY <1>3, <1>4, <1>5, <1>6
  <1>9. ASSUME NEW i \in 1 .. n, NEW j \in 1 .. n, i # j PROVE q[i] # q[j]
    <2>1. i - 1 \in 0 .. (n - 1) /\ j - 1 \in 0 .. (n - 1) /\ i - 1 # j - 1
      BY <1>6, <1>9
    <2>2. p[i - 1] # p[j - 1]
      BY <1>5, <2>1
    <2> QED
      BY <1>6, <2>2
  <1>10. t = [i \in 1 .. n |-> s[q[i]]]
    <2>1. t = [i \in 1 .. n |-> t[i]]
      BY <1>3, <1>4, SeqDef
    <2> HIDE DEF q
    <2> QED
      BY <1>8, <2>1
  <1>11. ASSUME NEW i \in 1 .. n, NEW j \in 1 .. n, i < j PROVE ~SortsBefore(t[j], t[i])
    <2> DEFINE a == i - 1
               b == j - 1
    <2>1. a \in 0 .. (n - 1) /\ b \in 0 .. (n - 1) /\ a < b
      BY <1>6, <1>11
    <2>2. t[i] = VectorNth(v, p[a]) /\ t[j] = VectorNth(v, p[b])
      BY <1>8
    <2> HIDE DEF a, b
    <2>3. <<VectorNth(v, p[b]), VectorNth(v, p[a])>> \notin before
      BY <1>5, <2>1
    <2>4. VectorNth(v, p[a]) \in Content(v) /\ VectorNth(v, p[b]) \in Content(v)
      BY <1>5, <2>1
    <2> QED
      BY <2>2, <2>3, <2>4 DEF Covers
  <1> HIDE DEF q
  <1> QED
    BY <1>3, <1>7, <1>9, <1>10, <1>11 DEF SortedInto, s, t

\* Frequencies are no numbers: a client sorts what is of one kind.
LEMMA SortsFrequencies ==
    ASSUME ContainersAssumption, NEW v, IsVector(v), AllIn(v, Frequencies \cup Extra)
    PROVE  Covers(v, {p \in Content(v) \X Content(v) : Precedes(p[1], p[2])})
  <1>1. ASSUME NEW x \in Content(v) PROVE x \notin Numbers
    <2>1. x \in Frequencies \cup Extra
      BY DEF AllIn, Content, VectorNth
    <2>2. DOMAIN x = {"ch", "occurrences"}
      BY <2>1 DEF Frequencies, ContainersAssumption
    <2>3. \A y \in Numbers : DOMAIN y = {"long"}
      BY DEF Numbers
    <2> QED
      BY <2>2, <2>3
  <1>2. ASSUME NEW x \in Content(v), NEW y \in Content(v), SortsBefore(x, y)
        PROVE  <<x, y>> \in {p \in Content(v) \X Content(v) : Precedes(p[1], p[2])}
    BY <1>1, <1>2 DEF SortsBefore
  <1> QED
    BY <1>2 DEF Covers

\* Numbers are sorted by LongCompare.
LEMMA SortsNumbers ==
    ASSUME ContainersAssumption, NEW v, AllIn(v, Numbers)
    PROVE  Covers(v, LongOrder(v))
  <1>1. ASSUME NEW x \in Content(v) PROVE x \in Numbers
    BY DEF AllIn, Content, VectorNth
  <1>2. ASSUME NEW x \in Content(v), NEW y \in Content(v), SortsBefore(x, y)
        PROVE  <<x, y>> \in LongOrder(v)
    BY <1>1, <1>2 DEF SortsBefore, LongOrder
  <1> QED
    BY <1>2 DEF Covers

\* What Fill may do: u has the count of every letter once.
FilledWith(u, r) ==
    /\ u \in [1 .. Cardinality({c \in Letters : Often(r, c) > 0}) ->
                 {[ch |-> c, occurrences |-> Often(r, c)] : c \in Letters}]
    /\ \A i, j \in DOMAIN u : /\ u[i].occurrences > 0
                              /\ (i # j => u[i] # u[j])

\* AddFrequencies does what Fill may do.
LEMMA FillMaps ==
    ASSUME ContainersAssumption, NEW r \in Seq(Letters), NEW h, Tallies(h, r),
           NEW v, IsVector(v), v.log_len = 0
    PROVE  LET w == FoldLeft(VectorAppend, v, Table!HashSetElements(h))
           IN  /\ FilledWith(Elements(w), r)
               /\ w.owns = v.owns
               /\ w.released = v.released
  <1> DEFINE T == {Freq(r, c) : c \in ToSet(r)}
             u == Table!HashSetElements(h)
             w == FoldLeft(VectorAppend, v, u)
             G == {c \in Letters : Often(r, c) > 0}
  <1>1. u \in Seq(T) /\ ToSet(u) = T /\ \A j, k \in DOMAIN u : j # k => u[j] # u[k]
    BY TableElements
  <1>2. G = ToSet(r)
    <2>1. ASSUME NEW c \in Letters PROVE Often(r, c) > 0 <=> Often(r, c) # 0
      <3>1. Often(r, c) \in Nat
        BY OftenAppend, LenProperties
      <3> QED
        BY <3>1
    <2> QED
      BY <2>1, OftenRead
  <1> HIDE DEF u
  <1>3. Len(u) = Cardinality(G)
    <2> HIDE DEF G
    <2> QED
      BY <1>1, <1>2, TableSize
  <1>4. Elements(w) = u /\ w.owns = v.owns /\ w.released = v.released
    <2> HIDE DEF T
    <2> QED
      BY <1>1, AppendAll
  <1>5. DOMAIN u = 1 .. Len(u) /\ \A i \in 1 .. Len(u) : u[i] \in T
    <2> HIDE DEF T
    <2> QED
      BY <1>1, LenProperties, ElementOfSeq
  <1>6. \A x \in T : x.occurrences > 0 /\ x \in {[ch |-> c, occurrences |-> Often(r, c)] : c \in Letters}
    <2> SUFFICES ASSUME NEW c \in ToSet(r)
                 PROVE  /\ Freq(r, c).occurrences > 0
                        /\ Freq(r, c) \in {[ch |-> d, occurrences |-> Often(r, d)] : d \in Letters}
      OBVIOUS
    <2>1. c \in Letters /\ Often(r, c) > 0
      BY <1>2
    <2> QED
      BY <2>1 DEF Freq
  <1> HIDE DEF T, G
  <1>7. u = [i \in 1 .. Len(u) |-> u[i]]
    BY <1>1, SeqDef
  <1>8. FilledWith(u, r)
    <2> DEFINE V == {[ch |-> c, occurrences |-> Often(r, c)] : c \in Letters}
    <2>1. \A i \in 1 .. Len(u) : u[i] \in V
      BY <1>5, <1>6
    <2> HIDE DEF V
    <2>2. u \in [1 .. Len(u) -> V]
      BY <1>7, <2>1
    <2>3. \A i, j \in DOMAIN u : u[i].occurrences > 0 /\ (i # j => u[i] # u[j])
      BY <1>1, <1>5, <1>6
    <2> QED
      BY <1>3, <2>2, <2>3 DEF FilledWith, V, G
  <1> HIDE DEF w
  <1> QED
    BY <1>4, <1>8 DEF w, u

\* The containers implement a finite map and a sequence: each operation of the
\* client does what the abstract one does, and the rest changes nothing.
THEOREM ContainersImplement == Spec => ContainersAreAbstract
  <1> USE ContainersAssumption
  <1> DEFINE seen == [ch \in Letters |-> HowOften(ch)]
             seq == IF pc = "end" THEN <<>> ELSE Elements(list)
  <1>1. Init => A!Init
    <2> SUFFICES ASSUME Init PROVE A!Init
      OBVIOUS
    <2> DEFINE o == pc = "count"
               n == InitialAllocation
    <2>1. list = VectorNew(o, n) /\ n \in Nat /\ pc \in {"count", "append"} /\ read = <<>>
      BY DEF Init, ContainersAssumption
    <2>2. o \in BOOLEAN
      OBVIOUS
    <2> HIDE DEF n, o
    <2>3. IsVector(list) /\ list.log_len = 0 /\ list.owns = o /\ list.released = <<>>
      BY <2>1, NewVector, Zenon
    <2>4. \A ch : HowOften(ch) = 0
      <3>1. \A ch : {i \in DOMAIN read : read[i] = ch} = {}
        BY <2>1
      <3> QED
        BY <3>1, FS_EmptySet DEF HowOften
    <2>5. Elements(list) = <<>>
      BY <2>3 DEF Elements
    <2> QED
      BY <2>1, <2>2, <2>3, <2>4, <2>5 DEF A!Init
  <1>2. TableInv /\ ListInv /\ [Next]_vars => [A!Next]_A!vars
    <2> SUFFICES ASSUME TableInv, ListInv, [Next]_vars PROVE [A!Next]_A!vars
      OBVIOUS
    <2> DEFINE v == list
               w == list'
               s == Elements(v)
               t == Elements(w)
               n == v.log_len
    <2>1. IsVector(v) /\ n \in Nat /\ Len(s) = n /\ DOMAIN s = 1 .. n
          /\ \A i \in 0 .. (n - 1) : s[i + 1] = VectorNth(v, i)
      BY ElementsAre DEF ListInv, IsVector
    <2>2. read \in Seq(Letters) /\ Tallies(counts, read)
      BY DEF TableInv
    <2>3. pc # "end" => seq = s
      OBVIOUS
    <2>4. pc' # "end" => seq' = t
      OBVIOUS
    <2>5. read' = read => seen' = seen
      BY DEF HowOften
    <2>6. seen = [c \in Letters |-> Often(read, c)] /\ seen' = [c \in Letters |-> Often(read', c)]
      BY DEF HowOften, Often
    <2> HIDE DEF seen, seq
    <2>7. ASSUME read' = read, pc # "end", pc' # "end", w.owns = v.owns, w.released = v.released,
                 NEW elem \in Elems, NEW pos \in 0 .. n, t = InsertAt(s, pos + 1, elem)
          PROVE  A!Next
      <3>1. A!Insert(elem, pos)
        BY <2>3, <2>4, <2>5, <2>7, SameLibrary DEF A!Insert, seen, seq
      <3> QED
        BY <2>1, <2>3, <2>7, <3>1 DEF A!Next, seq
    <2>8. ASSUME read' = read, pc # "end", pc' # "end",
                 NEW pos \in 0 .. (n - 1), FreedOne(w, v, VectorNth(v, pos)), t = RemoveAt(s, pos + 1)
          PROVE  A!Next
      <3>1. A!Delete(pos)
        BY <2>1, <2>3, <2>4, <2>5, <2>8, SameLibrary
        DEF A!Delete, A!Leave, FreedOne, Freed, seen, seq
      <3> QED
        BY <2>1, <2>3, <2>8, <3>1 DEF A!Next, seq
    <2>9. ASSUME read' = read, pc # "end", pc' # "end", NEW elem \in Elems,
                 NEW pos \in 0 .. (n - 1), FreedOne(w, v, VectorNth(v, pos)), t = [s EXCEPT ![pos + 1] = elem]
          PROVE  A!Next
      <3>1. A!Replace(elem, pos)
        BY <2>1, <2>3, <2>4, <2>5, <2>9 DEF A!Replace, A!Leave, FreedOne, Freed, seen, seq
      <3> QED
        BY <2>1, <2>3, <2>9, <3>1 DEF A!Next, seq
    <2>10. ASSUME read' = read, pc # "end", pc' # "end", w.owns = v.owns, w.released = v.released,
                  SortedInto(s, t)
           PROVE  A!Next
      <3>1. A!Sort
        BY <2>3, <2>4, <2>5, <2>10 DEF A!Sort, SortedInto, seen, seq
      <3> QED
        BY <3>1 DEF A!Next
    <2>11. ASSUME read' = read, pc # "end", pc' # "end", w = v
           PROVE  UNCHANGED A!vars
      BY <2>3, <2>4, <2>5, <2>11 DEF A!vars, seen, seq
    <2>12. ASSUME NEW elem \in Elems, read' = read, pc # "end", pc' # "end", w = VectorAppend(v, elem)
           PROVE  A!Next
      <3>1. /\ t = InsertAt(s, n + 1, elem)
            /\ w.owns = v.owns /\ w.released = v.released
        BY <2>1, <2>12, ElementsAppend, AppendIs DEF ListInv
      <3>2. n \in 0 .. n
        BY <2>1
      <3> QED
        BY <2>7, <2>12, <3>1, <3>2
    <2>13. ASSUME NEW pos \in 0 .. (n - 1), read' = read, pc # "end", pc' # "end",
                  w = VectorDelete(v, pos)
           PROVE  A!Next
      <3>1. t = RemoveAt(s, pos + 1) /\ FreedOne(w, v, VectorNth(v, pos))
        BY <2>1, <2>13, ElementsDelete, DeleteIs
      <3> QED
        BY <2>8, <2>13, <3>1
    <2>14. ASSUME NEW ch \in Letters, CountLetter(ch) PROVE A!Next
      <3>1. pc = "count" /\ pc' = pc /\ w = v /\ read' = Append(read, ch)
        BY <2>14 DEF CountLetter
      <3>2. /\ \A c \in Letters : c # ch => Often(read', c) = Often(read, c)
            /\ Often(read', ch) = Often(read, ch) + 1
        BY <2>2, <3>1, OftenAppend
      <3>3. seen' = [seen EXCEPT ![ch] = @ + 1]
        BY <2>6, <3>2
      <3>4. A!Count(ch)
        BY <2>3, <2>4, <3>1, <3>3 DEF A!Count, seen, seq
      <3> QED
        BY <3>4 DEF A!Next
    <2>15. CASE AddFrequencies
      <3>1. /\ pc = "count" /\ pc' = "use" /\ read' = read
            /\ w = FoldLeft(VectorAppend, v, Table!HashSetElements(counts))
        BY <2>15 DEF AddFrequencies
      <3>2. n = 0
        BY <3>1 DEF ListInv
      <3>3. FilledWith(t, read) /\ w.owns = v.owns /\ w.released = v.released
        BY <2>1, <2>2, <3>1, <3>2, FillMaps
      <3>4. \A ch \in Letters : seen[ch] = Often(read, ch)
        BY <2>6
      <3>5. A!Fill
        <4>1. {ch \in Letters : seen[ch] > 0} = {c \in Letters : Often(read, c) > 0}
          BY <3>4
        <4>2. {[ch |-> c, occurrences |-> seen[c]] : c \in Letters}
                = {[ch |-> c, occurrences |-> Often(read, c)] : c \in Letters}
          BY <3>4
        <4>3. A!Cardinality({ch \in Letters : seen[ch] > 0})
                = Cardinality({c \in Letters : Often(read, c) > 0})
          BY <4>1, SameLibrary
        <4>4. seq' \in {u \in [1 .. A!Cardinality({ch \in Letters : seen[ch] > 0}) ->
                                   {[ch |-> c, occurrences |-> seen[c]] : c \in Letters}] :
                           \A i, j \in DOMAIN u : u[i].occurrences > 0 /\ (i # j => u[i] # u[j])}
          BY <2>4, <3>1, <3>3, <4>2, <4>3 DEF FilledWith
        <4> QED
          BY <2>5, <3>1, <3>3, <4>4 DEF A!Fill, seen, seq
      <3> QED
        BY <3>5 DEF A!Next
    <2>16. ASSUME NEW elem \in Extra, TestAppend(elem) PROVE A!Next
      BY <2>12, <2>16 DEF TestAppend, Use, Elems
    <2>17. CASE TestSort
      <3> DEFINE before == {p \in Content(list) \X Content(list) : Precedes(p[1], p[2])}
      <3>1. pc = "use" /\ pc' = pc /\ read' = read /\ w \in VectorSort(v, before)
        BY <2>17 DEF TestSort, Use
      <3>2. Covers(v, before)
        BY <2>1, <3>1, SortsFrequencies DEF ListInv
      <3> HIDE DEF before
      <3>3. SortedInto(s, t) /\ w.owns = v.owns /\ w.released = v.released
        BY <2>1, <3>1, <3>2, SortMaps, SortIs
      <3> QED
        BY <2>10, <3>1, <3>3
    <2>18. ASSUME NEW elem \in Extra, NEW pos \in 0 .. VectorLength(list), TestInsert(elem, pos)
           PROVE  A!Next
      <3>1. /\ pc = "use" /\ pc' = pc /\ read' = read /\ w = VectorInsert(v, elem, pos)
            /\ pos \in 0 .. n /\ elem \in Elems
        BY <2>18 DEF TestInsert, Use, VectorLength, Elems
      <3>2. t = InsertAt(s, pos + 1, elem) /\ w.owns = v.owns /\ w.released = v.released
        BY <2>1, <3>1, ElementsInsert, InsertIs
      <3> QED
        BY <2>7, <3>1, <3>2
    <2>19. ASSUME NEW pos \in 0 .. (VectorLength(list) - 1), TestDelete(pos) PROVE A!Next
      BY <2>13, <2>19 DEF TestDelete, Use, VectorLength
    <2>20. ASSUME NEW old \in Extra, NEW new \in Extra, BeginReplace(old, new) PROVE UNCHANGED A!vars
      BY <2>11, <2>20 DEF BeginReplace
    <2>21. CASE ReplaceFound
      <3> DEFINE k == NextFound
                 b == goal.toReplace
      <3>1. /\ pc = "replace" /\ pc' = "replace" /\ k # -1 /\ read' = read
            /\ w = VectorReplace(v, b, k)
        BY <2>21 DEF ReplaceFound
      <3>2. k = LetterFrom(v, LetterOf(goal.toFind), found)
        BY DEF NextFound, LetterFrom
      <3>3. Replacing(v, found, goal)
        BY <3>1 DEF ListInv
      <3> HIDE DEF k
      <3>4. k \in 0 .. (n - 1)
        BY <2>1, <3>1, <3>2, <3>3, ReplaceStep
      <3>5. b \in Elems
        BY <3>3 DEF Replacing, Elems
      <3> HIDE DEF b
      <3>6. t = [s EXCEPT ![k + 1] = b] /\ FreedOne(w, v, VectorNth(v, k))
        BY <2>1, <3>1, <3>4, ElementsReplace, ReplaceIs
      <3> QED
        BY <2>9, <3>1, <3>4, <3>5, <3>6
    <2>22. CASE EndReplace
      BY <2>11, <2>22 DEF EndReplace
    <2>23. CASE InsertNumber
      <3> DEFINE x == n * LargePrime
                 e == [long |-> x % EvenLargerPrime]
      <3>1. pc = "append" /\ pc' = pc /\ read' = read /\ w = VectorAppend(v, e)
        BY <2>23 DEF InsertNumber, VectorLength
      <3>2. x \in Nat /\ EvenLargerPrime \in Nat \ {0}
        BY <2>1, PrimesAre
      <3>3. e \in Elems
        <4> HIDE DEF x
        <4>1. x % EvenLargerPrime \in 0 .. (EvenLargerPrime - 1)
          BY <3>2, Remainder
        <4> QED
          BY <4>1 DEF Elems, Numbers
      <3> HIDE DEF e
      <3> QED
        BY <2>12, <3>1, <3>3
    <2>24. CASE SortPermutation
      <3>1. /\ pc = "append" /\ pc' = "delete" /\ read' = read
            /\ w \in VectorSort(v, LongOrder(v))
        BY <2>24 DEF SortPermutation, LongOrder
      <3>2. Covers(v, LongOrder(v))
        BY <3>1, PermutedNumbers, SortsNumbers DEF ListInv
      <3>3. SortedInto(s, t) /\ w.owns = v.owns /\ w.released = v.released
        BY <2>1, <3>1, <3>2, SortMaps, SortIs
      <3> QED
        BY <2>10, <3>1, <3>3
    <2>25. CASE DeleteSlowly
      <3> DEFINE pos == IF n >= Distance THEN n - Distance ELSE 0
      <3>1. /\ pc = "delete" /\ pc' = pc /\ read' = read /\ n > 0
            /\ w = VectorDelete(v, pos)
        BY <2>25 DEF DeleteSlowly, VectorLength
      <3>2. Remaining(v)
        BY <3>1 DEF ListInv
      <3>3. pos \in 0 .. (n - 1)
        BY <2>1, <3>1, <3>2, RemainStep
      <3> HIDE DEF pos
      <3> QED
        BY <2>13, <3>1, <3>3
    <2>26. CASE Dispose
      <3>1. pc # "end" /\ pc' = "end" /\ read' = read /\ w = VectorDispose(v)
        BY <2>26 DEF Dispose
      <3>2. Freed(w, v, s)
        BY <2>1, <3>1, DisposeIs
      <3>3. seq' = <<>>
        BY <3>1 DEF seq
      <3>4. A!Dispose
        BY <2>3, <2>5, <3>1, <3>2, <3>3 DEF A!Dispose, A!Leave, Freed, seen, seq
      <3> QED
        BY <3>4 DEF A!Next
    <2>27. CASE UNCHANGED vars
      <3>1. pc' = pc /\ w = v /\ read' = read
        BY <2>27 DEF vars
      <3> QED
        BY <2>5, <3>1 DEF A!vars, seen, seq
    <2> QED
      BY <2>14, <2>15, <2>16, <2>17, <2>18, <2>19, <2>20, <2>21, <2>22, <2>23, <2>24, <2>25, <2>26, <2>27
      DEF Next, Finished
  <1> QED
    BY <1>1, <1>2, TableInvariant, ListInvariant, PTL DEF Spec, ContainersAreAbstract, A!Spec
=============================================================================
