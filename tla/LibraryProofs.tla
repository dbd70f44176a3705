---------------------------- MODULE LibraryProofs ---------------------------
(***************************************************************************)
(* What the proofs about several components need.                          *)
(* Induction over numbers and over the size of a set: a set of             *)
(* counterexamples would have a smallest one.  Remainders.  Finite sums:   *)
(* SumFunctionOnSet of module Functions is a recursion over the subsets of *)
(* a set; that it has a solution, what the sum is, and how it changes with *)
(* the function.  Vectors: what each operation does, index by index and to *)
(* the sequence that a client sees, and what HashSetMap meets.             *)
(***************************************************************************)
EXTENDS Vector, FiniteSets, Functions, FiniteSetTheorems, SequenceTheorems,
        WellFoundedInduction, TLAPS

\* A set of natural numbers that has an element has a least one.
LEMMA LeastNumber ==
    ASSUME NEW T \in SUBSET Nat, T # {}
    PROVE  \E x \in T : \A y \in T : x <= y
  <1> DEFINE R == {ss \in Nat \X Nat : ss[1] < ss[2]}
  <1>1. IsWellFoundedOn(R, Nat)
    BY NatLessThanWellFounded DEF OpToRel
  <1>2. PICK x \in T : \A y \in T : ~ (<<y, x>> \in R)
    <2> HIDE DEF R
    <2> QED
      BY <1>1, WFMin
  <1>3. ASSUME NEW y \in T PROVE x <= y
    <2>1. x \in Nat /\ y \in Nat
      OBVIOUS
    <2>2. y < x => <<y, x>> \in R
      BY <2>1
    <2> QED
      BY <1>2, <2>1, <2>2
  <1> QED
    BY <1>3

\* Induction on the natural numbers, for a set that is closed under successor.
LEMMA NatClosed ==
    ASSUME NEW S, 0 \in S, \A n \in Nat : n \in S => n + 1 \in S
    PROVE  Nat \subseteq S
  <1> SUFFICES ASSUME Nat \ S # {} PROVE FALSE
    OBVIOUS
  <1>1. PICK x \in Nat \ S : \A y \in Nat \ S : x <= y
    BY LeastNumber
  <1>2. x - 1 \in Nat /\ x - 1 \in S
    BY <1>1
  <1> QED
    BY <1>1, <1>2

\* A collection of finite sets that has a member has a smallest one.
LEMMA SmallestSet ==
    ASSUME NEW A, A # {}, \A s \in A : IsFiniteSet(s)
    PROVE  \E s \in A : \A t \in A : Cardinality(s) <= Cardinality(t)
  <1> DEFINE T == {Cardinality(s) : s \in A}
  <1>1. T \in SUBSET Nat /\ T # {}
    BY FS_CardinalityType
  <1>2. PICK n \in T : \A m \in T : n <= m
    BY <1>1, LeastNumber
  <1> QED
    BY <1>2

\* Without one of its elements, a finite set is smaller.
LEMMA OneLess ==
    ASSUME NEW S, IsFiniteSet(S), NEW x \in S
    PROVE  /\ IsFiniteSet(S \ {x})
           /\ ~(Cardinality(S) <= Cardinality(S \ {x}))
  <1>1. IsFiniteSet(S \ {x}) /\ Cardinality(S \ {x}) = Cardinality(S) - 1
    BY FS_RemoveElement
  <1>2. Cardinality(S) \in Nat
    BY FS_CardinalityType
  <1> QED
    BY <1>1, <1>2

-----------------------------------------------------------------------------
(***************************************************************************)
(* Remainders                                                              *)
(***************************************************************************)
\* A difference smaller than n is a multiple of n only if it is 0.
LEMMA SmallMultiple ==
    ASSUME NEW n \in Nat \ {0}, NEW t \in Int, n * t < n, -n < n * t
    PROVE  t = 0
  <1>1. CASE t >= 1
    <2>1. n * t >= n * 1
      BY <1>1
    <2> QED
      BY <2>1
  <1>2. CASE t <= -1
    <2>1. n * t <= n * (-1)
      BY <1>2
    <2> QED
      BY <2>1
  <1> QED
    BY <1>1, <1>2

\* The remainder in terms of the quotient.
LEMMA Remainder ==
    ASSUME NEW x \in Nat, NEW m \in Nat \ {0}
    PROVE  /\ x \div m \in Nat
           /\ x % m = x - m * (x \div m)
           /\ x % m \in 0 .. (m - 1)
  OBVIOUS

\* Adding a multiple of m leaves the remainder.
LEMMA SameRemainder ==
    ASSUME NEW m \in Nat \ {0}, NEW x \in Nat, NEW y \in Nat, NEW a \in Int, y = x + m * a
    PROVE  y % m = x % m
  <1> DEFINE p == x \div m
             q == y \div m
             t == (a - q) + p
  <1>1. p \in Nat /\ x % m = x - m * p /\ x % m \in 0 .. (m - 1)
    BY Remainder
  <1>2. q \in Nat /\ y % m = y - m * q /\ y % m \in 0 .. (m - 1)
    BY Remainder
  <1> HIDE DEF p, q
  <1>3. t \in Int /\ (y % m) - (x % m) = m * t
    BY <1>1, <1>2
  <1>4. m * t < m /\ -m < m * t
    BY <1>1, <1>2, <1>3
  <1>5. t = 0
    BY <1>3, <1>4, SmallMultiple
  <1> QED
    BY <1>1, <1>2, <1>3, <1>5

-----------------------------------------------------------------------------
(***************************************************************************)
(* The recursion                                                           *)
(***************************************************************************)
Pick(s) == CHOOSE x \in s : TRUE

\* g is the recursive function whose value at S is the sum of f on S.
IsSum(g, f, S) ==
    g = [s \in SUBSET S |-> IF s = {} THEN 0 ELSE f[Pick(s)] + g[s \ {Pick(s)}]]

\* The sum by its definition in the library.
LEMMA SumDef ==
    ASSUME NEW f, NEW S
    PROVE  SumFunctionOnSet(f, S) = (CHOOSE g : IsSum(g, f, S))[S]
  BY DEF SumFunctionOnSet, FoldFunctionOnSet, MapThenFoldSet, IsSum, Pick

\* The value of the recursive function at a subset.
LEMMA IsSumAt ==
    ASSUME NEW f, NEW S, NEW g, IsSum(g, f, S), NEW s \in SUBSET S
    PROVE  /\ s = {} => g[s] = 0
           /\ s # {} => /\ Pick(s) \in s
                        /\ g[s] = f[Pick(s)] + g[s \ {Pick(s)}]
  <1> DEFINE v(t) == IF t = {} THEN 0 ELSE f[Pick(t)] + g[t \ {Pick(t)}]
  <1>1. g = [t \in SUBSET S |-> v(t)]
    BY DEF IsSum
  <1> HIDE DEF v
  <1>2. g[s] = v(s)
    BY <1>1
  <1>3. s # {} => Pick(s) \in s
    BY DEF Pick
  <1> QED
    BY <1>2, <1>3 DEF v

\* There is at most one such function.
LEMMA IsSumUnique ==
    ASSUME NEW f, NEW S, IsFiniteSet(S), NEW g, NEW h, IsSum(g, f, S), IsSum(h, f, S)
    PROVE  g = h
  <1> DEFINE bad == {s \in SUBSET S : g[s] # h[s]}
  <1>1. bad = {}
    <2> SUFFICES ASSUME bad # {} PROVE FALSE
      OBVIOUS
    <2>1. \A s \in SUBSET S : IsFiniteSet(s)
      BY FS_Subset
    <2>2. PICK s \in bad : \A t \in bad : Cardinality(s) <= Cardinality(t)
      BY <2>1, SmallestSet
    <2>3. s # {}
      BY <2>2, IsSumAt
    <2>4. Pick(s) \in s
      BY <2>2, <2>3, IsSumAt
    <2>5. s \ {Pick(s)} \notin bad
      BY <2>1, <2>2, <2>4, OneLess
    <2>6. g[s \ {Pick(s)}] = h[s \ {Pick(s)}]
      BY <2>2, <2>5
    <2> QED
      BY <2>2, <2>3, <2>6, IsSumAt
  <1>2. g = [s \in SUBSET S |-> g[s]] /\ h = [s \in SUBSET S |-> h[s]]
    BY DEF IsSum
  <1> QED
    BY <1>1, <1>2

\* A solution for a set is one for its subsets, and so gives their sums.
LEMMA IsSumGives ==
    ASSUME NEW f, NEW S, IsFiniteSet(S), NEW g, IsSum(g, f, S), NEW T \in SUBSET S
    PROVE  SumFunctionOnSet(f, T) = g[T]
  <1> DEFINE h == [t \in SUBSET T |-> g[t]]
  <1>1. IsSum(h, f, T)
    <2>1. ASSUME NEW t \in SUBSET T
          PROVE  h[t] = IF t = {} THEN 0 ELSE f[Pick(t)] + h[t \ {Pick(t)}]
      BY <2>1, IsSumAt
    <2> HIDE DEF h
    <2>2. h = [t \in SUBSET T |-> h[t]]
      BY DEF h
    <2> QED
      BY <2>1, <2>2 DEF IsSum
  <1>2. IsFiniteSet(T)
    BY FS_Subset
  <1> HIDE DEF h
  <1> DEFINE k == CHOOSE x : IsSum(x, f, T)
  <1>3. IsSum(k, f, T)
    BY <1>1
  <1>4. k = h
    BY <1>1, <1>2, <1>3, IsSumUnique
  <1>5. SumFunctionOnSet(f, T) = k[T]
    BY SumDef
  <1> QED
    BY <1>4, <1>5 DEF h

\* Every finite set has one.
LEMMA IsSumExists ==
    ASSUME NEW f, NEW S, IsFiniteSet(S)
    PROVE  \E g : IsSum(g, f, S)
  <1> DEFINE bad == {T \in SUBSET S : ~ \E g : IsSum(g, f, T)}
  <1> SUFFICES ASSUME bad # {} PROVE FALSE
    OBVIOUS
  <1>1. \A T \in SUBSET S : IsFiniteSet(T)
    BY FS_Subset
  <1>2. PICK T \in bad : \A U \in bad : Cardinality(T) <= Cardinality(U)
    BY <1>1, SmallestSet
  <1> DEFINE v(t) == SumFunctionOnSet(f, t)
             w(t) == IF t = {} THEN 0 ELSE f[Pick(t)] + v(t \ {Pick(t)})
             g == [t \in SUBSET T |-> IF t = T THEN w(t) ELSE v(t)]
  <1>3. ASSUME NEW t \in SUBSET T, t # T PROVE v(t) = w(t)
    <2>1. PICK x \in T : x \notin t
      BY <1>3
    <2>2. t \subseteq T \ {x}
      BY <1>3, <2>1
    <2>3. IsFiniteSet(T \ {x}) /\ ~(Cardinality(T) <= Cardinality(T \ {x}))
      BY <1>1, <1>2, <2>1, OneLess
    <2>4. T \ {x} \notin bad /\ T \ {x} \in SUBSET S
      BY <1>2, <2>3
    <2>5. PICK h : IsSum(h, f, T \ {x})
      BY <2>4
    <2>6. \A u \in SUBSET (T \ {x}) : SumFunctionOnSet(f, u) = h[u]
      BY <2>3, <2>5, IsSumGives
    <2>7. t \in SUBSET (T \ {x}) /\ t \ {Pick(t)} \in SUBSET (T \ {x})
      BY <2>2
    <2> QED
      BY <2>5, <2>6, <2>7, IsSumAt
  <1>4. ASSUME NEW t \in SUBSET T
        PROVE  g[t] = IF t = {} THEN 0 ELSE f[Pick(t)] + g[t \ {Pick(t)}]
    <2>1. g[t] = w(t)
      BY <1>3
    <2>2. t # {} => t \ {Pick(t)} # T /\ t \ {Pick(t)} \in SUBSET T
      BY DEF Pick
    <2>3. t # {} => g[t \ {Pick(t)}] = v(t \ {Pick(t)})
      BY <2>2
    <2> QED
      BY <2>1, <2>3
  <1> HIDE DEF g
  <1>5. g = [t \in SUBSET T |-> g[t]]
    BY DEF g
  <1>6. IsSum(g, f, T)
    BY <1>4, <1>5 DEF IsSum
  <1> QED
    BY <1>2, <1>6

-----------------------------------------------------------------------------
(***************************************************************************)
(* Sums                                                                    *)
(***************************************************************************)
\* The empty sum is 0, and any other takes one element after another.
LEMMA SumPick ==
    ASSUME NEW f, NEW S, IsFiniteSet(S)
    PROVE  /\ S = {} => SumFunctionOnSet(f, S) = 0
           /\ S # {} => /\ Pick(S) \in S
                        /\ SumFunctionOnSet(f, S) =
                              f[Pick(S)] + SumFunctionOnSet(f, S \ {Pick(S)})
  <1>1. PICK g : IsSum(g, f, S)
    BY IsSumExists
  <1>2. \A T \in SUBSET S : SumFunctionOnSet(f, T) = g[T]
    BY <1>1, IsSumGives
  <1>3. S \in SUBSET S /\ S \ {Pick(S)} \in SUBSET S
    OBVIOUS
  <1> QED
    BY <1>1, <1>2, <1>3, IsSumAt

\* The sum of integers is an integer.
LEMMA SumType ==
    ASSUME NEW S, IsFiniteSet(S), NEW f, \A x \in S : f[x] \in Int
    PROVE  SumFunctionOnSet(f, S) \in Int
  <1> DEFINE bad == {T \in SUBSET S : SumFunctionOnSet(f, T) \notin Int}
  <1> SUFFICES ASSUME bad # {} PROVE FALSE
    OBVIOUS
  <1>1. \A T \in SUBSET S : IsFiniteSet(T)
    BY FS_Subset
  <1>2. PICK T \in bad : \A U \in bad : Cardinality(T) <= Cardinality(U)
    BY <1>1, SmallestSet
  <1>3. T # {} /\ Pick(T) \in T
    <2>1. T = {} => SumFunctionOnSet(f, T) = 0
      BY <1>1, <1>2, SumPick
    <2>2. T # {}
      BY <1>2, <2>1
    <2> QED
      BY <2>2 DEF Pick
  <1>4. T \ {Pick(T)} \notin bad
    BY <1>1, <1>2, <1>3, OneLess
  <1>5. SumFunctionOnSet(f, T \ {Pick(T)}) \in Int /\ f[Pick(T)] \in Int
    BY <1>2, <1>3, <1>4
  <1>6. SumFunctionOnSet(f, T) = f[Pick(T)] + SumFunctionOnSet(f, T \ {Pick(T)})
    BY <1>1, <1>2, <1>3, SumPick
  <1> QED
    BY <1>2, <1>5, <1>6

\* The sum depends on the values on the set only.
LEMMA SumSame ==
    ASSUME NEW S, IsFiniteSet(S), NEW f, NEW g, \A x \in S : f[x] = g[x]
    PROVE  SumFunctionOnSet(f, S) = SumFunctionOnSet(g, S)
  <1> DEFINE bad == {T \in SUBSET S : SumFunctionOnSet(f, T) # SumFunctionOnSet(g, T)}
  <1> SUFFICES ASSUME bad # {} PROVE FALSE
    OBVIOUS
  <1>1. \A T \in SUBSET S : IsFiniteSet(T)
    BY FS_Subset
  <1>2. PICK T \in bad : \A U \in bad : Cardinality(T) <= Cardinality(U)
    BY <1>1, SmallestSet
  <1>3. T # {} /\ Pick(T) \in T
    <2>1. T = {} => SumFunctionOnSet(f, T) = 0 /\ SumFunctionOnSet(g, T) = 0
      BY <1>1, <1>2, SumPick
    <2>2. T # {}
      BY <1>2, <2>1
    <2> QED
      BY <2>2 DEF Pick
  <1>4. T \ {Pick(T)} \notin bad
    BY <1>1, <1>2, <1>3, OneLess
  <1>5. SumFunctionOnSet(f, T \ {Pick(T)}) = SumFunctionOnSet(g, T \ {Pick(T)})
    BY <1>2, <1>4
  <1>6. /\ SumFunctionOnSet(f, T) = f[Pick(T)] + SumFunctionOnSet(f, T \ {Pick(T)})
        /\ SumFunctionOnSet(g, T) = g[Pick(T)] + SumFunctionOnSet(g, T \ {Pick(T)})
    BY <1>1, <1>2, <1>3, SumPick
  <1> QED
    BY <1>2, <1>3, <1>5, <1>6

\* Any element can be taken out of the sum.
LEMMA SumTake ==
    ASSUME NEW S, IsFiniteSet(S), NEW f, \A x \in S : f[x] \in Int, NEW e \in S
    PROVE  SumFunctionOnSet(f, S) = f[e] + SumFunctionOnSet(f, S \ {e})
  <1> DEFINE v(T) == SumFunctionOnSet(f, T)
             bad == {T \in SUBSET S : \E x \in T : v(T) # f[x] + v(T \ {x})}
  <1> SUFFICES ASSUME bad # {} PROVE FALSE
    OBVIOUS
  <1>1. \A T \in SUBSET S : IsFiniteSet(T)
    BY FS_Subset
  <1>2. PICK T \in bad : \A U \in bad : Cardinality(T) <= Cardinality(U)
    BY <1>1, SmallestSet
  <1>3. PICK x \in T : v(T) # f[x] + v(T \ {x})
    BY <1>2
  <1> DEFINE p == Pick(T)
  <1>4. p \in T /\ v(T) = f[p] + v(T \ {p}) /\ T \in SUBSET S
    BY <1>1, <1>2, <1>3, SumPick
  <1>5. x # p
    BY <1>3, <1>4
  <1>6. T \ {p} \notin bad /\ T \ {x} \notin bad
    BY <1>1, <1>2, <1>3, <1>4, OneLess
  <1> HIDE DEF p
  <1>9. (T \ {p}) \ {x} = (T \ {x}) \ {p}
    OBVIOUS
  <1>7. v(T \ {p}) = f[x] + v((T \ {x}) \ {p})
    BY <1>3, <1>4, <1>5, <1>6, <1>9
  <1>8. v(T \ {x}) = f[p] + v((T \ {x}) \ {p})
    BY <1>3, <1>4, <1>5, <1>6
  <1>10. /\ v((T \ {x}) \ {p}) \in Int /\ f[x] \in Int /\ f[p] \in Int
    <2>1. (T \ {x}) \ {p} \in SUBSET S
      BY <1>4
    <2>2. \A y \in (T \ {x}) \ {p} : f[y] \in Int
      BY <2>1
    <2> QED
      BY <1>1, <1>3, <1>4, <2>1, <2>2, SumType
  <1>11. /\ v(T) # f[x] + v(T \ {x})
         /\ v(T) = f[p] + v(T \ {p})
    BY <1>3, <1>4
  <1> HIDE DEF v
  <1> QED
    BY <1>7, <1>8, <1>10, <1>11

\* The sum grows by what one element gains.
LEMMA SumGain ==
    ASSUME NEW S, IsFiniteSet(S), NEW f, NEW g,
           \A x \in S : f[x] \in Int, NEW e \in S, NEW d \in Int,
           \A x \in S : g[x] = IF x = e THEN f[x] + d ELSE f[x]
    PROVE  SumFunctionOnSet(g, S) = SumFunctionOnSet(f, S) + d
  <1>1. IsFiniteSet(S \ {e})
    BY OneLess
  <1>2. SumFunctionOnSet(f, S) = f[e] + SumFunctionOnSet(f, S \ {e})
    BY SumTake
  <1>3. SumFunctionOnSet(g, S) = g[e] + SumFunctionOnSet(g, S \ {e})
    BY SumTake
  <1>4. SumFunctionOnSet(g, S \ {e}) = SumFunctionOnSet(f, S \ {e})
    BY <1>1, SumSame
  <1>5. SumFunctionOnSet(f, S \ {e}) \in Int
    BY <1>1, SumType
  <1> QED
    BY <1>2, <1>3, <1>4, <1>5

\* The sum of a constant.
LEMMA SumConstant ==
    ASSUME NEW S, IsFiniteSet(S), NEW f, NEW k \in Int, \A x \in S : f[x] = k
    PROVE  SumFunctionOnSet(f, S) = Cardinality(S) * k
  <1> DEFINE v(T) == SumFunctionOnSet(f, T)
             bad == {T \in SUBSET S : v(T) # Cardinality(T) * k}
  <1> SUFFICES ASSUME bad # {} PROVE FALSE
    OBVIOUS
  <1>1. \A T \in SUBSET S : IsFiniteSet(T)
    BY FS_Subset
  <1>2. PICK T \in bad : \A U \in bad : Cardinality(T) <= Cardinality(U)
    BY <1>1, SmallestSet
  <1>3. T # {}
    <2>1. T = {} => v(T) = 0 /\ Cardinality(T) = 0
      BY <1>1, <1>2, SumPick, FS_EmptySet
    <2> QED
      BY <1>2, <2>1
  <1> DEFINE p == Pick(T)
  <1>4. p \in T /\ v(T) = f[p] + v(T \ {p}) /\ f[p] = k
    BY <1>1, <1>2, <1>3, SumPick
  <1> HIDE DEF p
  <1>5. v(T \ {p}) = Cardinality(T \ {p}) * k
    BY <1>1, <1>2, <1>4, OneLess
  <1>6. Cardinality(T) \in Nat /\ Cardinality(T \ {p}) = Cardinality(T) - 1
    BY <1>1, <1>2, <1>4, FS_RemoveElement, FS_CardinalityType
  <1> HIDE DEF v
  <1>7. (Cardinality(T) - 1) * k = Cardinality(T) * k - k
    BY <1>6
  <1>8. Cardinality(T) * k \in Int
    BY <1>6
  <1> QED
    BY <1>2, <1>4, <1>5, <1>6, <1>7, <1>8 DEF v

\* On S, g is f with d more at e.
Gains(f, g, S, e, d) == \A x \in S : g[x] = IF x = e THEN f[x] + d ELSE f[x]

\* The sum gains what the function gains at one place, if that is in the set.
LEMMA SumChange ==
    ASSUME NEW S, IsFiniteSet(S), NEW f, NEW g,
           \A x \in S : f[x] \in Int, NEW e, NEW d \in Int, Gains(f, g, S, e, d)
    PROVE  /\ SumFunctionOnSet(f, S) \in Int
           /\ SumFunctionOnSet(g, S) = SumFunctionOnSet(f, S) + (IF e \in S THEN d ELSE 0)
  <1>1. SumFunctionOnSet(f, S) \in Int
    BY SumType
  <1>2. CASE e \in S
    BY <1>1, <1>2, SumGain DEF Gains
  <1>3. CASE e \notin S
    <2>1. SumFunctionOnSet(g, S) = SumFunctionOnSet(f, S)
      BY <1>3, SumSame DEF Gains
    <2> QED
      BY <1>1, <1>3, <2>1
  <1> QED
    BY <1>1, <1>2, <1>3

-----------------------------------------------------------------------------
(***************************************************************************)
(* A row of pairs, every fourth of which counts low and the others high    *)
(***************************************************************************)
\* How many of the first n count low.
Fourths(n) == (n + 3) \div 4

RowSum(n, low, high) == (n - Fourths(n)) * high + Fourths(n) * low

\* f counts the first n pairs so.
IsRow(f, b, n, low, high) ==
    \A i \in 0 .. (n - 1) : f[<<b, i>>] = IF i % 4 = 0 THEN low ELSE high

\* One more pair in the row.
LEMMA RowGrows ==
    ASSUME NEW n \in Nat, NEW low \in Int, NEW high \in Int
    PROVE  /\ RowSum(n, low, high) \in Int
           /\ RowSum(0, low, high) = 0
           /\ RowSum(n + 1, low, high) =
                 (IF n % 4 = 0 THEN low ELSE high) + RowSum(n, low, high)
  <1>1. /\ Fourths(n) \in Int /\ Fourths(n + 1) \in Int
        /\ Fourths(n + 1) = Fourths(n) + (IF n % 4 = 0 THEN 1 ELSE 0)
        /\ Fourths(0) = 0
    BY DEF Fourths
  <1>2. RowSum(0, low, high) = 0
    BY <1>1 DEF RowSum
  <1> DEFINE k == Fourths(n)
             m == Fourths(n + 1)
             s == (n - k) * high
             t == k * low
  <1>3. RowSum(n, low, high) = s + t
    BY DEF RowSum
  <1>4. RowSum(n + 1, low, high) = ((n + 1) - m) * high + m * low
    BY DEF RowSum
  <1>5. k \in Int /\ m = k + (IF n % 4 = 0 THEN 1 ELSE 0)
    BY <1>1
  <1> HIDE DEF k, m
  <1>6. s \in Int /\ t \in Int
    BY <1>5
  <1>7. (k + 1) * low = t + low /\ ((n + 1) - k) * high = s + high
    <2>1. (k + 1) * low = k * low + low
      BY <1>5
    <2>2. ((n + 1) - k) * high = (n - k) * high + high
      BY <1>5
    <2> QED
      BY <2>1, <2>2
  <1>8. CASE n % 4 = 0
    <2>1. m = k + 1 /\ (n + 1) - m = n - k
      BY <1>5, <1>8
    <2>2. RowSum(n + 1, low, high) = s + (t + low)
      BY <1>4, <1>7, <2>1
    <2> HIDE DEF s, t
    <2> QED
      BY <1>2, <1>3, <1>6, <1>8, <2>2
  <1>9. CASE n % 4 # 0
    <2>1. m = k
      BY <1>5, <1>9
    <2>2. RowSum(n + 1, low, high) = (s + high) + t
      BY <1>4, <1>7, <2>1
    <2> HIDE DEF s, t
    <2> QED
      BY <1>2, <1>3, <1>6, <1>9, <2>2
  <1> QED
    BY <1>8, <1>9

\* The sum of a row in closed form.
LEMMA SumOfRow ==
    ASSUME NEW b, NEW n \in Nat, NEW low \in Int, NEW high \in Int, NEW f,
           IsRow(f, b, n, low, high)
    PROVE  SumFunctionOnSet(f, {b} \X (0 .. (n - 1))) = RowSum(n, low, high)
  <1> DEFINE row(l) == {b} \X (0 .. (l - 1))
             v(l) == SumFunctionOnSet(f, row(l))
             G == {l \in Nat : l <= n => v(l) = RowSum(l, low, high)}
  <1>1. \A l \in Nat : IsFiniteSet(row(l))
    <2>1. ASSUME NEW l \in Nat PROVE IsFiniteSet(row(l))
      <3>1. l - 1 \in Int
        OBVIOUS
      <3>2. IsFiniteSet(0 .. (l - 1))
        BY <3>1, FS_Interval
      <3>3. IsFiniteSet({b})
        BY FS_Singleton
      <3> QED
        BY <3>2, <3>3, FS_Product
    <2> QED
      BY <2>1
  <1>2. 0 \in G
    <2>1. row(0) = {}
      OBVIOUS
    <2>2. v(0) = 0
      BY <1>1, <2>1, SumPick
    <2> QED
      BY <2>2, RowGrows
  <1>3. ASSUME NEW l \in Nat, l \in G PROVE l + 1 \in G
    <2> SUFFICES ASSUME l + 1 <= n PROVE v(l + 1) = RowSum(l + 1, low, high)
      OBVIOUS
    <2> DEFINE e == <<b, l>>
    <2>1. e \in row(l + 1) /\ row(l + 1) \ {e} = row(l)
      OBVIOUS
    <2>2. f[e] = IF l % 4 = 0 THEN low ELSE high
      BY DEF IsRow
    <2>3. \A x \in row(l + 1) : f[x] \in Int
      BY DEF IsRow
    <2>4. v(l) = RowSum(l, low, high)
      BY <1>3
    <2>5. v(l + 1) = f[e] + v(l)
      <3>1. IsFiniteSet(row(l + 1))
        <4>1. l + 1 \in Nat
          OBVIOUS
        <4> HIDE DEF row
        <4> QED
          BY <1>1, <4>1
      <3> HIDE DEF row
      <3>2. SumFunctionOnSet(f, row(l + 1)) = f[e] + SumFunctionOnSet(f, row(l + 1) \ {e})
        BY <2>1, <2>3, <3>1, SumTake
      <3> QED
        BY <2>1, <3>2
    <2> QED
      BY <2>2, <2>4, <2>5, RowGrows
  <1> HIDE DEF G
  <1>4. n \in G
    BY <1>2, <1>3, NatClosed
  <1> QED
    BY <1>4 DEF G

-----------------------------------------------------------------------------
(***************************************************************************)
(* Vectors                                                                 *)
(***************************************************************************)
\* A record with two fields changed.
Updated(v, a, x, b, y) ==
    [c \in DOMAIN v |-> IF c = b THEN y ELSE IF c = a THEN x ELSE v[c]]

\* The array has room for its elements and grows by steps of the initial allocation.
IsVector(v) ==
    /\ DOMAIN v = {"arr", "log_len", "alloc_len", "init_alloc", "owns", "released"}
    /\ v.alloc_len \in Nat
    /\ v.log_len \in 0 .. v.alloc_len
    /\ v.init_alloc \in Nat \ {0}
    /\ v.alloc_len % v.init_alloc = 0
    /\ v.arr = [i \in 0 .. (v.alloc_len - 1) |-> v.arr[i]]

\* r has the elements of v, and has freed none.
SameElements(r, v) ==
    /\ r.log_len = v.log_len
    /\ r.owns = v.owns
    /\ r.released = v.released
    /\ \A i \in 0 .. (v.log_len - 1) : r.arr[i] = v.arr[i]

\* VectorNew.
LEMMA NewVector ==
    ASSUME NEW o, NEW n \in Nat
    PROVE  /\ IsVector(VectorNew(o, n))
           /\ VectorNew(o, n).log_len = 0
           /\ VectorNew(o, n).owns = o
           /\ VectorNew(o, n).released = <<>>
  BY DEF VectorNew, IsVector

\* VectorExpand keeps the elements and makes room for more.
LEMMA ExpandKeeps ==
    ASSUME NEW v, IsVector(v)
    PROVE  /\ IsVector(Expand(v))
           /\ Expand(v).alloc_len > v.alloc_len
           /\ SameElements(Expand(v), v)
  <1> DEFINE n == v.alloc_len + v.init_alloc
             a == [i \in 0 .. (v.alloc_len + v.init_alloc - 1) |->
                     IF i < v.alloc_len THEN v.arr[i] ELSE Garbage]
             u == Updated(v, "alloc_len", n, "arr", a)
  <1>1. Expand(v) = u
    <2>1. Expand(v) = [v EXCEPT !.alloc_len = n, !.arr = a]
      BY Zenon DEF Expand
    <2> HIDE DEF n, a
    <2> QED
      BY <2>1, Zenon DEF Updated
  <1>2. v.alloc_len \in Nat /\ v.init_alloc \in Nat \ {0} /\ n \in Nat /\ v.log_len \in Nat
    BY DEF IsVector
  <1>3. n % v.init_alloc = 0
    <2>1. n = v.alloc_len + v.init_alloc * 1
      BY <1>2
    <2> HIDE DEF n
    <2>2. n % v.init_alloc = v.alloc_len % v.init_alloc
      BY <1>2, <2>1, SameRemainder
    <2> QED
      BY <2>2 DEF IsVector
  <1>4. a = [i \in 0 .. (n - 1) |-> a[i]] /\ \A i \in 0 .. (v.log_len - 1) : a[i] = v.arr[i]
    <2>1. v.log_len <= v.alloc_len /\ v.log_len \in Nat
      BY DEF IsVector
    <2>2. a = [i \in 0 .. (n - 1) |-> a[i]]
      BY <1>2
    <2>3. ASSUME NEW i \in 0 .. (v.log_len - 1) PROVE a[i] = v.arr[i]
      BY <1>2, <2>1
    <2> QED
      BY <2>2, <2>3
  <1> HIDE DEF n, a
  <1>5. /\ DOMAIN u = DOMAIN v /\ u.alloc_len = n /\ u.arr = a
        /\ u.log_len = v.log_len /\ u.init_alloc = v.init_alloc
        /\ u.owns = v.owns /\ u.released = v.released
    <2>1. DOMAIN v = {"arr", "log_len", "alloc_len", "init_alloc", "owns", "released"}
      BY DEF IsVector
    <2> QED
      BY <2>1 DEF Updated
  <1>6. n > v.alloc_len
    BY <1>2 DEF n
  <1> HIDE DEF u
  <1>7. u.arr = [i \in 0 .. (u.alloc_len - 1) |-> u.arr[i]]
    BY <1>4, <1>5
  <1>8. u.log_len \in 0 .. u.alloc_len
    BY <1>2, <1>5, <1>6 DEF IsVector
  <1>9. IsVector(u)
    BY <1>2, <1>3, <1>5, <1>7, <1>8 DEF IsVector
  <1>10. SameElements(u, v)
    BY <1>4, <1>5 DEF SameElements
  <1> QED
    BY <1>1, <1>5, <1>6, <1>9, <1>10

\* There is room for one more element.
LEMMA RoomKeeps ==
    ASSUME NEW v, IsVector(v)
    PROVE  /\ IsVector(Room(v))
           /\ Room(v).log_len < Room(v).alloc_len
           /\ SameElements(Room(v), v)
  <1>1. CASE v.log_len = v.alloc_len
    <2>1. Room(v) = Expand(v)
      BY <1>1 DEF Room
    <2>2. Expand(v).log_len = v.log_len /\ v.alloc_len \in Nat /\ Expand(v).alloc_len \in Nat
      BY ExpandKeeps DEF SameElements, IsVector
    <2> QED
      BY <1>1, <2>1, <2>2, ExpandKeeps
  <1>2. CASE v.log_len # v.alloc_len
    <2>1. Room(v) = v
      BY <1>2 DEF Room
    <2> QED
      BY <1>2, <2>1 DEF IsVector, SameElements
  <1> QED
    BY <1>1, <1>2

-----------------------------------------------------------------------------
(***************************************************************************)
(* memmove: the recursive function in Shift copies one element after the   *)
(* other, in the direction in which no element is overwritten before it    *)
(* has been copied.                                                        *)
(***************************************************************************)
\* Where the i-th copy is made from.
CopyFrom(from, num, by, i) == IF by < 0 THEN from + (i - 1) ELSE from + (num - i)

\* The i-th copy, and the array after it from the arrays before.
CopyOne(arr, from, num, by, i) ==
    [arr EXCEPT ![CopyFrom(from, num, by, i) + by] = arr[CopyFrom(from, num, by, i)]]

CopyStep(c, arr, from, num, by, i) ==
    IF i = 0 THEN arr ELSE CopyOne(c[i - 1], from, num, by, i)

IsCopied(c, arr, from, num, by) ==
    c = [i \in 0 .. num |-> CopyStep(c, arr, from, num, by, i)]

Copies(arr, from, num, by) == CHOOSE c : IsCopied(c, arr, from, num, by)

\* The places that have been copied to after i copies.
Reached(from, num, by, i) ==
    IF by < 0 THEN (from + by) .. (from + by + (i - 1))
    ELSE (from + by + (num - i)) .. (from + by + (num - 1))

\* The array after i copies.
Shifted(arr, from, num, by, i) ==
    [j \in DOMAIN arr |-> IF j \in Reached(from, num, by, i) THEN arr[j - by] ELSE arr[j]]

\* Shift, in terms of the copies.
LEMMA ShiftDef ==
    ASSUME NEW v, NEW from, NEW num, NEW by
    PROVE  Shift(v, from, num, by) =
              IF by = 0 \/ num = 0 THEN v
              ELSE [v EXCEPT !.arr = Copies(v.arr, from, num, by)[num]]
  BY DEF Shift, Copies, IsCopied, CopyStep, CopyOne, CopyFrom

\* One more copy.
LEMMA ShiftedStep ==
    ASSUME NEW n \in Nat, NEW arr, DOMAIN arr = 0 .. (n - 1),
           NEW from \in Nat, NEW num \in Nat, NEW by \in Int, by # 0,
           from + num <= n, from + by >= 0, (from + num) + by <= n,
           NEW i \in 1 .. num
    PROVE  Shifted(arr, from, num, by, i) =
              CopyOne(Shifted(arr, from, num, by, i - 1), from, num, by, i)
  <1> DEFINE m == Shifted(arr, from, num, by, i - 1)
             a == CopyFrom(from, num, by, i)
  <1>1. a \in 0 .. (n - 1) /\ a + by \in 0 .. (n - 1)
    BY DEF CopyFrom
  <1>2. a \notin Reached(from, num, by, i - 1)
    BY DEF CopyFrom, Reached
  <1>3. DOMAIN m = 0 .. (n - 1) /\ m[a] = arr[a]
    BY <1>1, <1>2 DEF Shifted
  <1>4. Reached(from, num, by, i) = Reached(from, num, by, i - 1) \cup {a + by}
    BY DEF CopyFrom, Reached
  <1>5. ASSUME NEW j \in 0 .. (n - 1)
        PROVE  Shifted(arr, from, num, by, i)[j] = IF j = a + by THEN m[a] ELSE m[j]
    <2>1. (a + by) - by = a
      BY <1>1
    <2> QED
      BY <1>3, <1>4, <2>1 DEF Shifted
  <1>6. /\ DOMAIN Shifted(arr, from, num, by, i) = 0 .. (n - 1)
        /\ Shifted(arr, from, num, by, i) =
              [j \in 0 .. (n - 1) |-> Shifted(arr, from, num, by, i)[j]]
    BY DEF Shifted
  <1>7. [m EXCEPT ![a + by] = m[a]] = [j \in 0 .. (n - 1) |-> IF j = a + by THEN m[a] ELSE m[j]]
    BY <1>3
  <1> HIDE DEF m, a
  <1>8. Shifted(arr, from, num, by, i) = [m EXCEPT ![a + by] = m[a]]
    BY <1>5, <1>6, <1>7
  <1> QED
    BY <1>8, Zenon DEF m, a, CopyOne

\* What memmove leaves.
LEMMA CopiedIsShifted ==
    ASSUME NEW n \in Nat, NEW arr, arr = [j \in 0 .. (n - 1) |-> arr[j]],
           NEW from \in Nat, NEW num \in Nat, NEW by \in Int, by # 0,
           from + num <= n, from + by >= 0, (from + num) + by <= n
    PROVE  Copies(arr, from, num, by)[num] = Shifted(arr, from, num, by, num)
  <1> DEFINE w == [i \in 0 .. num |-> Shifted(arr, from, num, by, i)]
  <1>1. DOMAIN arr = 0 .. (n - 1)
    OBVIOUS
  <1>2. Shifted(arr, from, num, by, 0) = arr
    <2>1. Reached(from, num, by, 0) = {}
      BY DEF Reached
    <2> QED
      BY <1>1, <2>1 DEF Shifted
  <1>3. IsCopied(w, arr, from, num, by)
    <2>1. ASSUME NEW i \in 0 .. num PROVE w[i] = CopyStep(w, arr, from, num, by, i)
      <3>1. CASE i = 0
        BY <1>2, <3>1 DEF CopyStep
      <3>2. CASE i # 0
        <4>1. i \in 1 .. num /\ i - 1 \in 0 .. num
          BY <3>2
        <4>2. w[i] = Shifted(arr, from, num, by, i) /\ w[i - 1] = Shifted(arr, from, num, by, i - 1)
          BY <4>1
        <4> HIDE DEF w
        <4> QED
          BY <1>1, <3>2, <4>1, <4>2, ShiftedStep DEF CopyStep
      <3> QED
        BY <3>1, <3>2
    <2>2. w = [i \in 0 .. num |-> w[i]]
      OBVIOUS
    <2> HIDE DEF w
    <2> QED
      BY <2>1, <2>2 DEF IsCopied
  <1> HIDE DEF w
  <1> DEFINE c == CHOOSE x : IsCopied(x, arr, from, num, by)
  <1>4. IsCopied(c, arr, from, num, by)
    BY <1>3
  <1> HIDE DEF c
  <1>5. ASSUME NEW i \in 0 .. num PROVE c[i] = CopyStep(c, arr, from, num, by, i)
    BY <1>4 DEF IsCopied
  <1> DEFINE S == {i \in Nat : i <= num => c[i] = Shifted(arr, from, num, by, i)}
  <1>6. 0 \in S
    <2>1. c[0] = CopyStep(c, arr, from, num, by, 0)
      BY <1>5
    <2>2. c[0] = Shifted(arr, from, num, by, 0)
      BY <1>2, <2>1 DEF CopyStep
    <2> QED
      BY <2>2
  <1>7. ASSUME NEW i \in Nat, i \in S PROVE i + 1 \in S
    <2> SUFFICES ASSUME i + 1 <= num PROVE c[i + 1] = Shifted(arr, from, num, by, i + 1)
      OBVIOUS
    <2>1. /\ i + 1 \in 1 .. num /\ (i + 1) - 1 = i /\ i + 1 \in 0 .. num
          /\ c[i] = Shifted(arr, from, num, by, i)
      BY <1>7
    <2>2. c[i + 1] = CopyStep(c, arr, from, num, by, i + 1)
      BY <1>5, <2>1
    <2> HIDE DEF S
    <2> DEFINE k == i + 1
    <2>3. k \in 1 .. num /\ k - 1 = i /\ k # 0
      BY <2>1
    <2>4. c[k] = CopyOne(c[i], from, num, by, k)
      BY <2>2, <2>3 DEF CopyStep
    <2> HIDE DEF k
    <2>5. Shifted(arr, from, num, by, k) = CopyOne(Shifted(arr, from, num, by, k - 1), from, num, by, k)
      BY <1>1, <2>3, ShiftedStep
    <2> QED
      BY <2>1, <2>3, <2>4, <2>5 DEF k
  <1> HIDE DEF S
  <1>8. num \in S
    BY <1>6, <1>7, NatClosed
  <1> QED
    BY <1>8 DEF S, c, Copies

\* Shift moves elements and changes nothing else.
LEMMA ShiftMoves ==
    ASSUME NEW v, IsVector(v), NEW from \in Nat, NEW num \in Nat, NEW by \in Int, by # 0,
           from + num <= v.alloc_len, from + by >= 0, (from + num) + by <= v.alloc_len
    PROVE  /\ IsVector(Shift(v, from, num, by))
           /\ Shift(v, from, num, by).log_len = v.log_len
           /\ Shift(v, from, num, by).alloc_len = v.alloc_len
           /\ Shift(v, from, num, by).owns = v.owns
           /\ Shift(v, from, num, by).released = v.released
           /\ \A j \in 0 .. (v.alloc_len - 1) :
                 Shift(v, from, num, by).arr[j] =
                    IF j \in (from + by) .. (from + by + (num - 1)) THEN v.arr[j - by] ELSE v.arr[j]
  <1> DEFINE s == Shift(v, from, num, by)
             a == Shifted(v.arr, from, num, by, num)
  <1>1. v.alloc_len \in Nat /\ v.arr = [j \in 0 .. (v.alloc_len - 1) |-> v.arr[j]]
    BY DEF IsVector
  <1>2. Reached(from, num, by, num) = (from + by) .. (from + by + (num - 1))
    BY DEF Reached
  <1>3. DOMAIN v.arr = 0 .. (v.alloc_len - 1)
    BY <1>1
  <1>4. /\ a = [j \in 0 .. (v.alloc_len - 1) |-> a[j]]
        /\ \A j \in 0 .. (v.alloc_len - 1) :
              a[j] = IF j \in (from + by) .. (from + by + (num - 1)) THEN v.arr[j - by] ELSE v.arr[j]
    BY <1>2, <1>3 DEF Shifted
  <1>5. CASE num = 0
    <2>1. s = v
      BY <1>5, ShiftDef
    <2>2. \A j \in 0 .. (v.alloc_len - 1) : j \notin (from + by) .. (from + by + (num - 1))
      BY <1>5
    <2> QED
      BY <2>1, <2>2
  <1>6. CASE num # 0
    <2> DEFINE c == Copies(v.arr, from, num, by)[num]
    <2>1. c = a
      <3>1. ASSUME NEW n \in Nat, n = v.alloc_len, NEW arr, arr = v.arr
            PROVE  Copies(arr, from, num, by)[num] = Shifted(arr, from, num, by, num)
        <4>1. arr = [j \in 0 .. (n - 1) |-> arr[j]] /\ from + num <= n /\ (from + num) + by <= n
          BY <1>1, <3>1
        <4> QED
          BY <4>1, CopiedIsShifted
      <3> QED
        BY <1>1, <3>1
    <2>2. s = [v EXCEPT !.arr = c]
      BY <1>6, ShiftDef, Zenon
    <2> HIDE DEF c, a
    <2>3. s = [v EXCEPT !.arr = a]
      BY <2>1, <2>2
    <2> HIDE DEF s
    <2>4. DOMAIN v = {"arr", "log_len", "alloc_len", "init_alloc", "owns", "released"}
      BY DEF IsVector
    <2>5. /\ DOMAIN s = DOMAIN v /\ s.arr = a
          /\ s.log_len = v.log_len /\ s.alloc_len = v.alloc_len /\ s.init_alloc = v.init_alloc
          /\ s.owns = v.owns /\ s.released = v.released
      BY <2>3, <2>4
    <2>6. s.arr = [j \in 0 .. (s.alloc_len - 1) |-> s.arr[j]]
      BY <1>4, <2>5
    <2>7. IsVector(s)
      BY <2>4, <2>5, <2>6 DEF IsVector
    <2> QED
      BY <1>4, <2>5, <2>7 DEF s
  <1> QED
    BY <1>5, <1>6

-----------------------------------------------------------------------------
(***************************************************************************)
(* The operations, index by index                                          *)
(***************************************************************************)
\* The free function is as before and has been called for the elements of rel.
Freed(w, v, rel) ==
    /\ w.owns = v.owns
    /\ w.released = IF v.owns THEN v.released \o rel ELSE v.released

FreedOne(w, v, elem) == Freed(w, v, <<elem>>)

\* The vector with n elements after elem has been written to place k.
Put(v, k, elem, n) == Updated(v, "arr", [v.arr EXCEPT ![k] = elem], "log_len", n)

\* What is written into the array lies within it.
LEMMA PutElement ==
    ASSUME NEW v, IsVector(v), NEW k \in 0 .. (v.alloc_len - 1), NEW elem, NEW n \in 0 .. v.alloc_len
    PROVE  /\ IsVector(Put(v, k, elem, n))
           /\ Put(v, k, elem, n).log_len = n
           /\ Put(v, k, elem, n).alloc_len = v.alloc_len
           /\ Put(v, k, elem, n).owns = v.owns
           /\ Put(v, k, elem, n).released = v.released
           /\ Put(v, k, elem, n).arr[k] = elem
           /\ \A j \in 0 .. (v.alloc_len - 1) : j # k => Put(v, k, elem, n).arr[j] = v.arr[j]
  <1> DEFINE a == [v.arr EXCEPT ![k] = elem]
             w == Updated(v, "arr", a, "log_len", n)
  <1>1. v.arr = [j \in 0 .. (v.alloc_len - 1) |-> v.arr[j]]
    BY DEF IsVector
  <1>2. /\ a = [j \in 0 .. (v.alloc_len - 1) |-> a[j]]
        /\ a[k] = elem
        /\ \A j \in 0 .. (v.alloc_len - 1) : j # k => a[j] = v.arr[j]
    BY <1>1
  <1> HIDE DEF a
  <1>3. DOMAIN v = {"arr", "log_len", "alloc_len", "init_alloc", "owns", "released"}
    BY DEF IsVector
  <1>4. /\ DOMAIN w = DOMAIN v /\ w.arr = a /\ w.log_len = n
        /\ w.alloc_len = v.alloc_len /\ w.init_alloc = v.init_alloc
        /\ w.owns = v.owns /\ w.released = v.released
    BY <1>3 DEF Updated
  <1> HIDE DEF w
  <1>5. w.arr = [j \in 0 .. (w.alloc_len - 1) |-> w.arr[j]]
    BY <1>2, <1>4
  <1>6. IsVector(w)
    BY <1>3, <1>4, <1>5 DEF IsVector
  <1> QED
    BY <1>2, <1>4, <1>6 DEF a, w, Put

\* VectorAppend.
LEMMA AppendIs ==
    ASSUME NEW v, IsVector(v), NEW elem
    PROVE  /\ IsVector(VectorAppend(v, elem))
           /\ VectorAppend(v, elem).log_len = v.log_len + 1
           /\ VectorAppend(v, elem).owns = v.owns
           /\ VectorAppend(v, elem).released = v.released
           /\ \A i \in 0 .. (v.log_len - 1) : VectorNth(VectorAppend(v, elem), i) = VectorNth(v, i)
           /\ VectorNth(VectorAppend(v, elem), v.log_len) = elem
  <1> DEFINE r == Room(v)
             k == r.log_len
             a == [r.arr EXCEPT ![k] = elem]
             w == Put(r, k, elem, k + 1)
  <1>1. VectorAppend(v, elem) = [r EXCEPT !.arr = a, !.log_len = k + 1]
    BY Zenon DEF VectorAppend
  <1>2. VectorAppend(v, elem) = w
    <2> HIDE DEF a, k
    <2>1. VectorAppend(v, elem) = Updated(r, "arr", a, "log_len", k + 1)
      BY <1>1, Zenon DEF Updated
    <2> QED
      BY <2>1 DEF Put, a
  <1>3. /\ IsVector(r) /\ r.log_len < r.alloc_len /\ r.log_len = v.log_len
        /\ r.owns = v.owns /\ r.released = v.released
        /\ \A i \in 0 .. (v.log_len - 1) : r.arr[i] = v.arr[i]
    BY RoomKeeps DEF SameElements
  <1>4. r.log_len \in Nat /\ r.alloc_len \in Nat
    BY <1>3 DEF IsVector
  <1> HIDE DEF r
  <1>5. k \in 0 .. (r.alloc_len - 1) /\ k + 1 \in 0 .. r.alloc_len
    BY <1>3, <1>4
  <1>6. /\ IsVector(w) /\ w.log_len = k + 1 /\ w.owns = r.owns /\ w.released = r.released
        /\ w.arr[k] = elem
        /\ \A j \in 0 .. (r.alloc_len - 1) : j # k => w.arr[j] = r.arr[j]
    BY <1>3, <1>5, PutElement
  <1> HIDE DEF w
  <1> QED
    BY <1>2, <1>3, <1>4, <1>6 DEF VectorNth

\* VectorInsert, also at the end.
LEMMA InsertIs ==
    ASSUME NEW v, IsVector(v), NEW elem, NEW pos \in 0 .. v.log_len
    PROVE  /\ IsVector(VectorInsert(v, elem, pos))
           /\ VectorInsert(v, elem, pos).log_len = v.log_len + 1
           /\ VectorInsert(v, elem, pos).owns = v.owns
           /\ VectorInsert(v, elem, pos).released = v.released
           /\ \A i \in 0 .. v.log_len :
                 VectorNth(VectorInsert(v, elem, pos), i) =
                    IF i = pos THEN elem ELSE IF i < pos THEN VectorNth(v, i) ELSE VectorNth(v, i - 1)
  <1> DEFINE r == Room(v)
             num == r.log_len - pos
             s == Shift(r, pos, num, 1)
  <1>1. /\ IsVector(r) /\ r.log_len < r.alloc_len /\ r.log_len = v.log_len
        /\ r.owns = v.owns /\ r.released = v.released
        /\ \A i \in 0 .. (v.log_len - 1) : r.arr[i] = v.arr[i]
    BY RoomKeeps DEF SameElements
  <1>2. r.log_len \in Nat /\ r.alloc_len \in Nat /\ pos \in Nat
    BY <1>1 DEF IsVector
  <1>3. CASE r.log_len = pos
    <2>1. VectorInsert(v, elem, pos) = VectorAppend(r, elem)
      BY <1>3 DEF VectorInsert
    <2> HIDE DEF r
    <2> QED
      BY <1>1, <1>2, <1>3, <2>1, AppendIs DEF VectorNth
  <1>4. CASE r.log_len # pos
    <2> DEFINE a == [s.arr EXCEPT ![pos] = elem]
               k == s.log_len + 1
               w == Put(s, pos, elem, k)
    <2>1. VectorInsert(v, elem, pos) = [s EXCEPT !.arr = a, !.log_len = k]
      BY <1>4, Zenon DEF VectorInsert
    <2>2. VectorInsert(v, elem, pos) = w
      <3> HIDE DEF a, k
      <3>1. VectorInsert(v, elem, pos) = Updated(s, "arr", a, "log_len", k)
        BY <2>1, Zenon DEF Updated
      <3> QED
        BY <3>1 DEF Put, a
    <2> HIDE DEF r
    <2>3. /\ num \in Nat /\ pos + num <= r.alloc_len /\ (pos + num) + 1 <= r.alloc_len
          /\ pos + num = v.log_len
      BY <1>1, <1>2
    <2>4. /\ IsVector(s) /\ s.log_len = r.log_len /\ s.alloc_len = r.alloc_len
          /\ s.owns = r.owns /\ s.released = r.released
          /\ \A j \in 0 .. (r.alloc_len - 1) :
                s.arr[j] = IF j \in (pos + 1) .. (pos + 1 + (num - 1)) THEN r.arr[j - 1] ELSE r.arr[j]
      <3> HIDE DEF num
      <3>1. ASSUME NEW by \in Int, by = 1
            PROVE  /\ IsVector(Shift(r, pos, num, by))
                   /\ Shift(r, pos, num, by).log_len = r.log_len
                   /\ Shift(r, pos, num, by).alloc_len = r.alloc_len
                   /\ Shift(r, pos, num, by).owns = r.owns
                   /\ Shift(r, pos, num, by).released = r.released
                   /\ \A j \in 0 .. (r.alloc_len - 1) :
                         Shift(r, pos, num, by).arr[j] =
                            IF j \in (pos + by) .. (pos + by + (num - 1)) THEN r.arr[j - by] ELSE r.arr[j]
        <4>1. pos + num <= r.alloc_len /\ pos + by >= 0 /\ (pos + num) + by <= r.alloc_len /\ by # 0
          BY <1>2, <2>3, <3>1
        <4> QED
          BY <1>1, <1>2, <2>3, <4>1, ShiftMoves
      <3> QED
        BY <3>1
    <2> HIDE DEF s
    <2>5. pos \in 0 .. (s.alloc_len - 1) /\ k \in 0 .. s.alloc_len
      BY <1>1, <1>2, <2>4
    <2>6. /\ IsVector(w) /\ w.log_len = k /\ w.owns = s.owns /\ w.released = s.released
          /\ w.arr[pos] = elem
          /\ \A j \in 0 .. (s.alloc_len - 1) : j # pos => w.arr[j] = s.arr[j]
      BY <2>4, <2>5, PutElement
    <2> HIDE DEF w
    <2>7. ASSUME NEW i \in 0 .. v.log_len
          PROVE  w.arr[i] = IF i = pos THEN elem ELSE IF i < pos THEN v.arr[i] ELSE v.arr[i - 1]
      <3>1. i \in 0 .. (r.alloc_len - 1)
        BY <1>1, <1>2
      <3>2. CASE i < pos
        BY <1>1, <1>2, <2>4, <2>6, <3>1, <3>2
      <3>3. CASE i = pos
        BY <2>6, <3>3
      <3>4. CASE i > pos
        <4>1. i \in (pos + 1) .. (pos + 1 + (num - 1)) /\ i - 1 \in 0 .. (v.log_len - 1)
          BY <1>1, <1>2, <3>4
        <4>2. s.arr[i] = r.arr[i - 1]
          BY <2>4, <3>1, <4>1
        <4> QED
          BY <1>1, <1>2, <2>4, <2>6, <3>1, <3>4, <4>1, <4>2
      <3> QED
        BY <1>2, <3>2, <3>3, <3>4
    <2> QED
      BY <1>1, <2>2, <2>4, <2>6, <2>7 DEF VectorNth
  <1> QED
    BY <1>3, <1>4 DEF VectorNth

\* The free function is called for what leaves the vector.
LEMMA ReleaseIs ==
    ASSUME NEW v, IsVector(v), NEW rel
    PROVE  /\ IsVector(Release(v, rel))
           /\ Release(v, rel).log_len = v.log_len
           /\ Release(v, rel).alloc_len = v.alloc_len
           /\ Release(v, rel).arr = v.arr
           /\ Freed(Release(v, rel), v, rel)
  <1>1. DOMAIN v = {"arr", "log_len", "alloc_len", "init_alloc", "owns", "released"}
    BY DEF IsVector
  <1>2. CASE v.owns
    <2> DEFINE w == [v EXCEPT !.released = v.released \o rel]
    <2>1. Release(v, rel) = w
      BY <1>2 DEF Release
    <2>2. /\ DOMAIN w = DOMAIN v /\ w.released = v.released \o rel /\ w.arr = v.arr
          /\ w.log_len = v.log_len /\ w.alloc_len = v.alloc_len /\ w.init_alloc = v.init_alloc
          /\ w.owns = v.owns
      BY <1>1
    <2> HIDE DEF w
    <2>3. IsVector(w)
      BY <2>2 DEF IsVector
    <2> QED
      BY <1>2, <2>1, <2>2, <2>3 DEF Freed
  <1>3. CASE ~v.owns
    <2>1. Release(v, rel) = v
      BY <1>3 DEF Release
    <2> QED
      BY <1>3, <2>1 DEF Freed
  <1> QED
    BY <1>2, <1>3

\* VectorReplace.
LEMMA ReplaceIs ==
    ASSUME NEW v, IsVector(v), NEW elem, NEW pos \in 0 .. (v.log_len - 1)
    PROVE  /\ IsVector(VectorReplace(v, elem, pos))
           /\ VectorReplace(v, elem, pos).log_len = v.log_len
           /\ FreedOne(VectorReplace(v, elem, pos), v, VectorNth(v, pos))
           /\ \A i \in 0 .. (v.log_len - 1) :
                 VectorNth(VectorReplace(v, elem, pos), i) = IF i = pos THEN elem ELSE VectorNth(v, i)
  <1> DEFINE r == Release(v, <<v.arr[pos]>>)
             a == [r.arr EXCEPT ![pos] = elem]
             w == Put(r, pos, elem, r.log_len)
  <1>1. VectorReplace(v, elem, pos) = [r EXCEPT !.arr = a]
    BY Zenon DEF VectorReplace, VectorNth
  <1>2. /\ IsVector(r) /\ r.log_len = v.log_len /\ r.alloc_len = v.alloc_len /\ r.arr = v.arr
        /\ FreedOne(r, v, v.arr[pos])
    BY ReleaseIs DEF FreedOne
  <1>3. DOMAIN r = {"arr", "log_len", "alloc_len", "init_alloc", "owns", "released"}
    BY <1>2 DEF IsVector
  <1>4. VectorReplace(v, elem, pos) = w
    <2> HIDE DEF a, r
    <2>1. [r EXCEPT !.arr = a] = [c \in DOMAIN r |-> IF c = "arr" THEN a ELSE r[c]]
      BY Zenon
    <2>2. Updated(r, "arr", a, "log_len", r.log_len) = [c \in DOMAIN r |-> IF c = "arr" THEN a ELSE r[c]]
      BY <1>3 DEF Updated
    <2> QED
      BY <1>1, <2>1, <2>2 DEF Put, a
  <1> HIDE DEF r
  <1>5. pos \in 0 .. (r.alloc_len - 1) /\ r.log_len \in 0 .. r.alloc_len
    BY <1>2 DEF IsVector
  <1>6. /\ IsVector(w) /\ w.log_len = r.log_len /\ w.owns = r.owns /\ w.released = r.released
        /\ w.arr[pos] = elem
        /\ \A j \in 0 .. (r.alloc_len - 1) : j # pos => w.arr[j] = r.arr[j]
    BY <1>2, <1>5, PutElement
  <1> HIDE DEF w
  <1>7. \A i \in 0 .. (v.log_len - 1) : i \in 0 .. (r.alloc_len - 1)
    BY <1>2 DEF IsVector
  <1> QED
    BY <1>2, <1>4, <1>6, <1>7 DEF Freed, FreedOne, VectorNth

\* VectorDelete.
LEMMA DeleteIs ==
    ASSUME NEW v, IsVector(v), NEW pos \in 0 .. (v.log_len - 1)
    PROVE  /\ IsVector(VectorDelete(v, pos))
           /\ VectorDelete(v, pos).log_len = v.log_len - 1
           /\ FreedOne(VectorDelete(v, pos), v, VectorNth(v, pos))
           /\ \A i \in 0 .. (v.log_len - 2) :
                 VectorNth(VectorDelete(v, pos), i) = IF i < pos THEN VectorNth(v, i) ELSE VectorNth(v, i + 1)
  <1> DEFINE r == Release(v, <<v.arr[pos]>>)
             from == pos + 1
             num == v.log_len - pos - 1
             s == Shift(r, from, num, -1)
             w == [s EXCEPT !.log_len = s.log_len - 1]
  <1>1. VectorDelete(v, pos) = w
    BY DEF VectorDelete, VectorNth
  <1>2. /\ IsVector(r) /\ r.log_len = v.log_len /\ r.alloc_len = v.alloc_len /\ r.arr = v.arr
        /\ FreedOne(r, v, v.arr[pos])
    BY ReleaseIs DEF FreedOne
  <1>3. v.log_len \in Nat /\ v.alloc_len \in Nat /\ v.log_len <= v.alloc_len /\ pos \in Nat
        /\ pos < v.log_len
    BY DEF IsVector
  <1>4. from \in Nat /\ num \in Nat /\ from + num = v.log_len /\ from + num <= v.alloc_len
    BY <1>3
  <1> HIDE DEF r
  <1>5. /\ IsVector(s) /\ s.log_len = r.log_len /\ s.alloc_len = r.alloc_len
        /\ s.owns = r.owns /\ s.released = r.released
        /\ \A j \in 0 .. (r.alloc_len - 1) :
              s.arr[j] = IF j \in pos .. (v.log_len - 2) THEN r.arr[j + 1] ELSE r.arr[j]
    <2> HIDE DEF num, from
    <2>1. ASSUME NEW by \in Int, by = -1
          PROVE  /\ IsVector(Shift(r, from, num, by))
                 /\ Shift(r, from, num, by).log_len = r.log_len
                 /\ Shift(r, from, num, by).alloc_len = r.alloc_len
                 /\ Shift(r, from, num, by).owns = r.owns
                 /\ Shift(r, from, num, by).released = r.released
                 /\ \A j \in 0 .. (r.alloc_len - 1) :
                       Shift(r, from, num, by).arr[j] =
                          IF j \in (from + by) .. (from + by + (num - 1)) THEN r.arr[j - by] ELSE r.arr[j]
      <3>1. /\ from + num <= r.alloc_len /\ from + by >= 0 /\ (from + num) + by <= r.alloc_len
            /\ by # 0
        BY <1>2, <1>3, <1>4, <2>1 DEF from
      <3> QED
        BY <1>2, <1>4, <3>1, ShiftMoves
    <2>2. ASSUME NEW by \in Int, by = -1, NEW j \in 0 .. (r.alloc_len - 1)
          PROVE  /\ j - by = j + 1
                 /\ j \in (from + by) .. (from + by + (num - 1)) <=> j \in pos .. (v.log_len - 2)
      BY <1>2, <1>3, <1>4, <2>2 DEF from
    <2> QED
      BY <2>1, <2>2
  <1> HIDE DEF s
  <1>6. DOMAIN s = {"arr", "log_len", "alloc_len", "init_alloc", "owns", "released"}
    BY <1>5 DEF IsVector
  <1>7. /\ DOMAIN w = DOMAIN s /\ w.arr = s.arr /\ w.log_len = v.log_len - 1
        /\ w.alloc_len = s.alloc_len /\ w.init_alloc = s.init_alloc
        /\ w.owns = s.owns /\ w.released = s.released
    BY <1>2, <1>5, <1>6
  <1> HIDE DEF w
  <1>8. IsVector(w)
    <2>1. w.log_len \in 0 .. w.alloc_len
      BY <1>2, <1>3, <1>5, <1>7
    <2> QED
      BY <1>5, <1>7, <2>1 DEF IsVector
  <1>9. ASSUME NEW i \in 0 .. (v.log_len - 2)
        PROVE  w.arr[i] = IF i < pos THEN v.arr[i] ELSE v.arr[i + 1]
    <2>1. i \in 0 .. (r.alloc_len - 1)
      BY <1>2, <1>3
    <2>2. w.arr[i] = IF i \in pos .. (v.log_len - 2) THEN v.arr[i + 1] ELSE v.arr[i]
      BY <1>2, <1>5, <1>7, <2>1
    <2>3. i \in pos .. (v.log_len - 2) <=> ~(i < pos)
      BY <1>3
    <2> QED
      BY <2>2, <2>3
  <1>10. FreedOne(w, v, v.arr[pos])
    BY <1>2, <1>5, <1>7 DEF Freed, FreedOne
  <1> QED
    BY <1>1, <1>7, <1>8, <1>9, <1>10 DEF VectorNth

\* The places of the elements of v in a sorted vector: each once, and none before
\* one that must come first.
IsOrder(p, v, before) ==
    /\ p \in [0 .. (v.log_len - 1) -> 0 .. (v.log_len - 1)]
    /\ \A i, j \in 0 .. (v.log_len - 1) : i # j => p[i] # p[j]
    /\ \A i, j \in 0 .. (v.log_len - 1) : i < j => <<v.arr[p[j]], v.arr[p[i]]>> \notin before

\* VectorSort.
LEMMA SortIs ==
    ASSUME NEW v, IsVector(v), NEW before, NEW w \in VectorSort(v, before)
    PROVE  /\ IsVector(w)
           /\ w.log_len = v.log_len
           /\ w.owns = v.owns
           /\ w.released = v.released
           /\ \E p : /\ IsOrder(p, v, before)
                     /\ \A i \in 0 .. (v.log_len - 1) : VectorNth(w, i) = VectorNth(v, p[i])
  <1> DEFINE used == 0 .. (v.log_len - 1)
             a(p) == [i \in DOMAIN v.arr |-> IF i \in used THEN v.arr[p[i]] ELSE v.arr[i]]
  <1>1. PICK p : IsOrder(p, v, before) /\ w = [v EXCEPT !.arr = a(p)]
    BY DEF VectorSort, IsOrder
  <1>2. /\ v.log_len \in Nat /\ v.alloc_len \in Nat /\ v.log_len <= v.alloc_len
        /\ DOMAIN v.arr = 0 .. (v.alloc_len - 1)
        /\ DOMAIN v = {"arr", "log_len", "alloc_len", "init_alloc", "owns", "released"}
    BY DEF IsVector
  <1> DEFINE b == a(p)
  <1>3. b = [i \in 0 .. (v.alloc_len - 1) |-> b[i]]
    BY <1>2
  <1>4. ASSUME NEW i \in used PROVE b[i] = v.arr[p[i]]
    BY <1>2
  <1> HIDE DEF b
  <1>5. w = [v EXCEPT !.arr = b]
    BY <1>1 DEF b
  <1>6. /\ DOMAIN w = DOMAIN v /\ w.arr = b /\ w.log_len = v.log_len
        /\ w.alloc_len = v.alloc_len /\ w.init_alloc = v.init_alloc
        /\ w.owns = v.owns /\ w.released = v.released
    BY <1>2, <1>5
  <1>7. w.arr = [i \in 0 .. (w.alloc_len - 1) |-> w.arr[i]]
    BY <1>3, <1>6
  <1>8. IsVector(w)
    BY <1>6, <1>7 DEF IsVector
  <1> QED
    BY <1>1, <1>4, <1>6, <1>8 DEF VectorNth

\* VectorSearch.
LEMMA SearchIs ==
    ASSUME NEW v, IsVector(v), NEW matching, NEW start \in Nat
    PROVE  LET k == VectorSearch(v, matching, start)
           IN  \/ /\ k = -1
                  /\ \A i \in start .. (v.log_len - 1) : VectorNth(v, i) \notin matching
               \/ /\ k \in start .. (v.log_len - 1)
                  /\ VectorNth(v, k) \in matching
                  /\ \A i \in start .. (k - 1) : VectorNth(v, i) \notin matching
  <1> DEFINE hits == {i \in start .. (v.log_len - 1) : v.arr[i] \in matching}
             k == VectorSearch(v, matching, start)
  <1>1. k = IF hits = {} THEN -1 ELSE CHOOSE i \in hits : \A j \in hits : i <= j
    BY DEF VectorSearch
  <1>2. v.log_len \in Nat
    BY DEF IsVector
  <1>3. CASE hits = {}
    BY <1>1, <1>3 DEF VectorNth
  <1>4. CASE hits # {}
    <2>1. hits \in SUBSET Nat
      BY <1>2
    <2> HIDE DEF k
    <2>2. \E i \in hits : \A j \in hits : i <= j
      <3> HIDE DEF hits
      <3> QED
        BY <1>4, <2>1, LeastNumber
    <2>3. k \in hits /\ \A j \in hits : k <= j
      <3> HIDE DEF hits
      <3> QED
        BY <1>1, <1>4, <2>2
    <2>4. ASSUME NEW i \in start .. (k - 1) PROVE v.arr[i] \notin matching
      <3>1. i \in start .. (v.log_len - 1) /\ ~(k <= i)
        BY <1>2, <2>3
      <3> QED
        BY <2>3, <3>1
    <2> QED
      BY <2>3, <2>4 DEF k, VectorNth
  <1> QED
    BY <1>3, <1>4 DEF VectorNth

\* Deleting an element and inserting another one in its place.
LEMMA SwapIs ==
    ASSUME NEW v, IsVector(v), NEW elem, NEW k \in 0 .. (v.log_len - 1)
    PROVE  LET z == VectorInsert(VectorDelete(v, k), elem, k)
           IN  /\ IsVector(z)
               /\ z.log_len = v.log_len
               /\ VectorNth(z, k) = elem
               /\ \A i \in 0 .. (v.log_len - 1) : i # k => VectorNth(z, i) = VectorNth(v, i)
  <1> DEFINE w == VectorDelete(v, k)
             z == VectorInsert(w, elem, k)
             l == v.log_len
  <1>1. /\ IsVector(w) /\ w.log_len = l - 1
        /\ \A i \in 0 .. (l - 2) : VectorNth(w, i) = IF i < k THEN VectorNth(v, i) ELSE VectorNth(v, i + 1)
    BY DeleteIs
  <1>2. l \in Nat /\ k \in 0 .. (l - 1)
    BY DEF IsVector
  <1> HIDE DEF w, l
  <1>3. k \in 0 .. w.log_len
    BY <1>1, <1>2
  <1>4. /\ IsVector(z) /\ z.log_len = w.log_len + 1
        /\ \A i \in 0 .. w.log_len :
              VectorNth(z, i) = IF i = k THEN elem ELSE IF i < k THEN VectorNth(w, i) ELSE VectorNth(w, i - 1)
    BY <1>1, <1>3, InsertIs
  <1> HIDE DEF z
  <1>5. z.log_len = l /\ VectorNth(z, k) = elem
    BY <1>1, <1>2, <1>3, <1>4
  <1>6. ASSUME NEW i \in 0 .. (l - 1), i # k PROVE VectorNth(z, i) = VectorNth(v, i)
    <2>1. i \in 0 .. w.log_len
      BY <1>1, <1>2
    <2>2. CASE i < k
      <3>1. i \in 0 .. (l - 2)
        BY <1>2, <2>2
      <3> QED
        BY <1>1, <1>4, <1>6, <2>1, <2>2, <3>1
    <2>3. CASE ~(i < k)
      <3>1. i - 1 \in 0 .. (l - 2) /\ ~(i - 1 < k) /\ (i - 1) + 1 = i
        BY <1>2, <1>6, <2>3
      <3>2. VectorNth(z, i) = VectorNth(w, i - 1)
        BY <1>4, <1>6, <2>1, <2>3
      <3>3. VectorNth(w, i - 1) = VectorNth(v, i)
        BY <1>1, <3>1
      <3> QED
        BY <3>2, <3>3
    <2> QED
      BY <2>2, <2>3
  <1> QED
    BY <1>4, <1>5, <1>6 DEF z, w, l

\* The free function touches nothing else.
LEMMA DisposeIs ==
    ASSUME NEW v, IsVector(v)
    PROVE  /\ IsVector(VectorDispose(v))
           /\ VectorDispose(v).log_len = v.log_len
           /\ Freed(VectorDispose(v), v, Elements(v))
           /\ \A i : VectorNth(VectorDispose(v), i) = VectorNth(v, i)
  <1> DEFINE rel == Elements(v)
             w == Release(v, rel)
  <1>1. VectorDispose(v) = w
    BY DEF VectorDispose
  <1> HIDE DEF rel
  <1>2. IsVector(w) /\ w.log_len = v.log_len /\ w.arr = v.arr /\ Freed(w, v, rel)
    BY ReleaseIs
  <1> HIDE DEF w
  <1> QED
    BY <1>1, <1>2 DEF VectorNth, rel

\* The elements are a sequence.
LEMMA ElementsAre ==
    ASSUME NEW v, IsVector(v)
    PROVE  /\ v.log_len \in Nat
           /\ Elements(v) \in Seq(Content(v))
           /\ Len(Elements(v)) = v.log_len
           /\ DOMAIN Elements(v) = 1 .. v.log_len
           /\ \A i \in 1 .. v.log_len : Elements(v)[i] = VectorNth(v, i - 1)
           /\ \A i \in 0 .. (v.log_len - 1) : Elements(v)[i + 1] = VectorNth(v, i)
           /\ Content(v) = {Elements(v)[i] : i \in 1 .. v.log_len}
  <1>1. v.log_len \in Nat
    BY DEF IsVector
  <1>2. \A i \in 1 .. v.log_len : i - 1 \in 0 .. (v.log_len - 1) /\ VectorNth(v, i - 1) \in Content(v)
    BY <1>1 DEF Content, VectorNth
  <1>3. /\ DOMAIN Elements(v) = 1 .. v.log_len
        /\ \A i \in 1 .. v.log_len : Elements(v)[i] = VectorNth(v, i - 1)
    BY DEF Elements, VectorNth
  <1>4. Elements(v) \in [1 .. v.log_len -> Content(v)]
    BY <1>2 DEF Elements, VectorNth
  <1>5. Elements(v) \in Seq(Content(v)) /\ Len(Elements(v)) = v.log_len
    BY <1>1, <1>4
  <1>6. ASSUME NEW i \in 0 .. (v.log_len - 1) PROVE Elements(v)[i + 1] = VectorNth(v, i)
    <2>1. i + 1 \in 1 .. v.log_len /\ (i + 1) - 1 = i
      BY <1>1
    <2> QED
      BY <1>3, <2>1
  <1>7. Content(v) = {Elements(v)[i] : i \in 1 .. v.log_len}
    <2>1. ASSUME NEW e \in Content(v) PROVE e \in {Elements(v)[i] : i \in 1 .. v.log_len}
      <3>1. PICK i \in 0 .. (v.log_len - 1) : e = VectorNth(v, i)
        BY DEF Content, VectorNth
      <3>2. i + 1 \in 1 .. v.log_len
        BY <1>1
      <3> QED
        BY <1>6, <3>1, <3>2
    <2> QED
      BY <1>2, <1>3, <2>1
  <1> QED
    BY <1>1, <1>3, <1>5, <1>6, <1>7

\* Where the elements come from.
AllIn(v, T) == \A i \in 0 .. (v.log_len - 1) : VectorNth(v, i) \in T

\* The operations put nothing into the vector but what they are given.
LEMMA AppendIn ==
    ASSUME NEW v, IsVector(v), NEW T, AllIn(v, T), NEW elem \in T
    PROVE  AllIn(VectorAppend(v, elem), T)
  <1> DEFINE w == VectorAppend(v, elem)
  <1>1. /\ w.log_len = v.log_len + 1
        /\ \A i \in 0 .. (v.log_len - 1) : VectorNth(w, i) = VectorNth(v, i)
        /\ VectorNth(w, v.log_len) = elem
    BY AppendIs
  <1>2. v.log_len \in Nat
    BY DEF IsVector
  <1> HIDE DEF w
  <1>3. \A i \in 0 .. (w.log_len - 1) : i = v.log_len \/ i \in 0 .. (v.log_len - 1)
    BY <1>1, <1>2
  <1> QED
    BY <1>1, <1>3 DEF AllIn, w

\* The same for VectorInsert.
LEMMA InsertIn ==
    ASSUME NEW v, IsVector(v), NEW T, AllIn(v, T), NEW elem \in T, NEW pos \in 0 .. v.log_len
    PROVE  AllIn(VectorInsert(v, elem, pos), T)
  <1> DEFINE w == VectorInsert(v, elem, pos)
  <1>1. /\ w.log_len = v.log_len + 1
        /\ \A i \in 0 .. v.log_len :
              VectorNth(w, i) = IF i = pos THEN elem ELSE IF i < pos THEN VectorNth(v, i) ELSE VectorNth(v, i - 1)
    BY InsertIs
  <1>2. v.log_len \in Nat
    BY DEF IsVector
  <1> HIDE DEF w
  <1>3. ASSUME NEW i \in 0 .. (w.log_len - 1) PROVE VectorNth(w, i) \in T
    <2>1. i \in 0 .. v.log_len
      BY <1>1, <1>2
    <2>2. CASE i = pos
      BY <1>1, <2>1, <2>2
    <2>3. CASE i < pos
      <3>1. i \in 0 .. (v.log_len - 1) /\ i # pos
        BY <1>2, <2>1, <2>3
      <3>2. VectorNth(w, i) = VectorNth(v, i)
        BY <1>1, <2>1, <2>3, <3>1
      <3> QED
        BY <3>1, <3>2 DEF AllIn
    <2>4. CASE i > pos
      <3>1. i - 1 \in 0 .. (v.log_len - 1) /\ i # pos /\ ~(i < pos)
        BY <1>2, <2>1, <2>4
      <3>2. VectorNth(w, i) = VectorNth(v, i - 1)
        BY <1>1, <2>1, <3>1
      <3> QED
        BY <3>1, <3>2 DEF AllIn
    <2> QED
      BY <2>1, <2>2, <2>3, <2>4
  <1> QED
    BY <1>3 DEF AllIn, w

\* The same for VectorDelete.
LEMMA DeleteIn ==
    ASSUME NEW v, IsVector(v), NEW T, AllIn(v, T), NEW pos \in 0 .. (v.log_len - 1)
    PROVE  AllIn(VectorDelete(v, pos), T)
  <1> DEFINE w == VectorDelete(v, pos)
  <1>1. /\ w.log_len = v.log_len - 1
        /\ \A i \in 0 .. (v.log_len - 2) :
              VectorNth(w, i) = IF i < pos THEN VectorNth(v, i) ELSE VectorNth(v, i + 1)
    BY DeleteIs
  <1>2. v.log_len \in Nat
    BY DEF IsVector
  <1> HIDE DEF w
  <1>3. ASSUME NEW i \in 0 .. (w.log_len - 1) PROVE VectorNth(w, i) \in T
    <2>1. i \in 0 .. (v.log_len - 2) /\ i \in 0 .. (v.log_len - 1) /\ i + 1 \in 0 .. (v.log_len - 1)
      BY <1>1, <1>2
    <2>2. VectorNth(v, i) \in T /\ VectorNth(v, i + 1) \in T
      BY <2>1 DEF AllIn
    <2> QED
      BY <1>1, <2>1, <2>2
  <1> QED
    BY <1>3 DEF AllIn, w

\* The same for VectorReplace.
LEMMA ReplaceIn ==
    ASSUME NEW v, IsVector(v), NEW T, AllIn(v, T), NEW elem \in T, NEW pos \in 0 .. (v.log_len - 1)
    PROVE  AllIn(VectorReplace(v, elem, pos), T)
  <1> DEFINE w == VectorReplace(v, elem, pos)
  <1>1. /\ w.log_len = v.log_len
        /\ \A i \in 0 .. (v.log_len - 1) : VectorNth(w, i) = IF i = pos THEN elem ELSE VectorNth(v, i)
    BY ReplaceIs
  <1> HIDE DEF w
  <1> QED
    BY <1>1 DEF AllIn, w

\* The same for VectorSort.
LEMMA SortIn ==
    ASSUME NEW v, IsVector(v), NEW T, AllIn(v, T), NEW before, NEW w \in VectorSort(v, before)
    PROVE  AllIn(w, T)
  <1>1. /\ w.log_len = v.log_len
        /\ \E p : /\ IsOrder(p, v, before)
                  /\ \A i \in 0 .. (v.log_len - 1) : VectorNth(w, i) = VectorNth(v, p[i])
    BY SortIs
  <1>2. PICK p : /\ IsOrder(p, v, before)
                 /\ \A i \in 0 .. (v.log_len - 1) : VectorNth(w, i) = VectorNth(v, p[i])
    BY <1>1
  <1>3. \A i \in 0 .. (v.log_len - 1) : p[i] \in 0 .. (v.log_len - 1)
    BY <1>2 DEF IsOrder
  <1> QED
    BY <1>1, <1>2, <1>3 DEF AllIn

\* The same for VectorDispose.
LEMMA DisposeIn ==
    ASSUME NEW v, IsVector(v), NEW T, AllIn(v, T)
    PROVE  AllIn(VectorDispose(v), T)
  <1>1. VectorDispose(v).log_len = v.log_len /\ \A i : VectorNth(VectorDispose(v), i) = VectorNth(v, i)
    BY DisposeIs
  <1> QED
    BY <1>1 DEF AllIn

-----------------------------------------------------------------------------
(***************************************************************************)
(* What HashSetMap meets: the buckets one after the other                  *)
(***************************************************************************)
JoinStep(u, h, b) == IF b = 0 THEN <<>> ELSE u[b - 1] \o Elements(h.buckets[b - 1])

IsJoin(u, h, n) == u = [b \in 0 .. n |-> JoinStep(u, h, b)]

ChosenJoin(h, n) == CHOOSE u : IsJoin(u, h, n)

\* The recursion has a solution.
LEMMA JoinExists ==
    ASSUME NEW h, NEW n \in Nat
    PROVE  \E u : IsJoin(u, h, n)
  <1> DEFINE S == {k \in Nat : \E u : IsJoin(u, h, k)}
  <1>1. 0 \in S
    <2> DEFINE u == [b \in 0 .. 0 |-> <<>>]
               x == [b \in 0 .. 0 |-> JoinStep(u, h, b)]
    <2>1. \A b \in 0 .. 0 : JoinStep(u, h, b) = <<>>
      BY DEF JoinStep
    <2>2. u = x
      BY <2>1
    <2>3. IsJoin(u, h, 0)
      BY <2>2 DEF IsJoin
    <2> QED
      BY <2>3
  <1>2. ASSUME NEW k \in Nat, k \in S PROVE k + 1 \in S
    <2>1. PICK u : IsJoin(u, h, k)
      BY <1>2
    <2> DEFINE m == k + 1
               x == [b \in 0 .. m |-> IF b = m THEN u[k] \o Elements(h.buckets[k]) ELSE u[b]]
    <2>2. \A b \in 0 .. k : u[b] = JoinStep(u, h, b)
      BY <2>1 DEF IsJoin
    <2>3. /\ x = [b \in 0 .. m |-> x[b]]
          /\ x[m] = u[k] \o Elements(h.buckets[k])
          /\ \A b \in 0 .. k : x[b] = u[b]
      <3>1. m \in 0 .. m /\ \A b \in 0 .. k : b \in 0 .. m /\ b # m
        OBVIOUS
      <3> HIDE DEF m
      <3>2. x = [b \in 0 .. m |-> x[b]]
        BY Zenon
      <3>3. x[m] = u[k] \o Elements(h.buckets[k])
        BY <3>1, Zenon
      <3>4. \A b \in 0 .. k : x[b] = u[b]
        BY <3>1, Zenon
      <3> QED
        BY <3>2, <3>3, <3>4
    <2>4. m # 0 /\ m - 1 = k /\ k \in 0 .. k /\ \A b \in 0 .. m : b # m => b \in 0 .. k
      OBVIOUS
    <2>5. \A b \in 0 .. k : b # 0 => b - 1 \in 0 .. k
      OBVIOUS
    <2> HIDE DEF x, m
    <2>6. ASSUME NEW b \in 0 .. m PROVE x[b] = JoinStep(x, h, b)
      <3>1. CASE b = m
        BY <2>3, <2>4, <3>1 DEF JoinStep
      <3>2. CASE b # m
        BY <2>2, <2>3, <2>4, <2>5, <3>2 DEF JoinStep
      <3> QED
        BY <3>1, <3>2
    <2>7. IsJoin(x, h, m)
      BY <2>3, <2>6 DEF IsJoin
    <2> QED
      BY <2>7 DEF m
  <1> HIDE DEF S
  <1>3. n \in S
    BY <1>1, <1>2, NatClosed
  <1> QED
    BY <1>3 DEF S

\* e is in one of the first n buckets.
Sits(h, e, n) ==
    \E b \in 0 .. (n - 1) : \E i \in 0 .. (h.buckets[b].log_len - 1) : e = VectorNth(h.buckets[b], i)

\* u has the elements of the first n buckets, each once.
Lists(u, h, n) ==
    /\ \A j \in DOMAIN u : Sits(h, u[j], n)
    /\ \A b \in 0 .. (n - 1) : \A i \in 0 .. (h.buckets[b].log_len - 1) :
          \E j \in DOMAIN u : u[j] = VectorNth(h.buckets[b], i)
    /\ \A j, k \in DOMAIN u : j # k => u[j] # u[k]

\* The buckets are vectors of which no two places hold the same element.
BucketsApart(h, n) ==
    /\ \A b \in 0 .. (n - 1) : IsVector(h.buckets[b])
    /\ \A b, c \in 0 .. (n - 1) :
          \A i \in 0 .. (h.buckets[b].log_len - 1), j \in 0 .. (h.buckets[c].log_len - 1) :
             VectorNth(h.buckets[b], i) = VectorNth(h.buckets[c], j) => b = c /\ i = j

\* One more bucket.
LEMMA ListsStep ==
    ASSUME NEW h, NEW n \in Nat, BucketsApart(h, n), NEW k \in 0 .. (n - 1),
           NEW T, NEW u \in Seq(T), Lists(u, h, k), Content(h.buckets[k]) \subseteq T
    PROVE  /\ u \o Elements(h.buckets[k]) \in Seq(T)
           /\ Lists(u \o Elements(h.buckets[k]), h, k + 1)
  <1> DEFINE v == h.buckets[k]
             e == Elements(v)
             x == u \o e
             m == Len(u)
             l == v.log_len
  <1>1. IsVector(v)
    BY DEF BucketsApart
  <1>2. /\ l \in Nat /\ e \in Seq(Content(v)) /\ Len(e) = l
        /\ \A i \in 1 .. l : e[i] = VectorNth(v, i - 1)
        /\ \A i \in 0 .. (l - 1) : e[i + 1] = VectorNth(v, i)
    BY <1>1, ElementsAre
  <1>3. e \in Seq(T)
    BY <1>2, SeqMonotonic
  <1>4. m \in Nat /\ DOMAIN u = 1 .. m
    BY LenProperties
  <1> HIDE DEF e
  <1>5. /\ x \in Seq(T) /\ Len(x) = m + l
        /\ \A j \in 1 .. (m + l) : x[j] = IF j <= m THEN u[j] ELSE e[j - m]
    <2>1. /\ x \in Seq(T) /\ Len(x) = m + Len(e)
          /\ \A j \in 1 .. (m + Len(e)) : x[j] = IF j <= m THEN u[j] ELSE e[j - m]
      BY <1>3, ConcatProperties
    <2> HIDE DEF x, l, m
    <2> QED
      BY <1>2, <2>1
  <1> HIDE DEF x, l, m
  <1>6. DOMAIN x = 1 .. (m + l)
    BY <1>2, <1>4, <1>5, LenProperties
  <1>7. ASSUME NEW j \in 1 .. (m + l), j > m
        PROVE  /\ (j - m) - 1 \in 0 .. (l - 1)
               /\ x[j] = VectorNth(v, (j - m) - 1)
    <2>1. j - m \in 1 .. l /\ ~(j <= m) /\ (j - m) - 1 \in 0 .. (l - 1)
      BY <1>2, <1>4, <1>7
    <2> QED
      BY <1>2, <1>5, <2>1
  <1>8. ASSUME NEW j \in 1 .. (m + l), j <= m PROVE j \in DOMAIN u /\ x[j] = u[j] /\ Sits(h, u[j], k)
    <2>1. j \in 1 .. m
      BY <1>2, <1>4, <1>8
    <2> QED
      BY <1>4, <1>5, <1>8, <2>1 DEF Lists
  <1>9. \A j \in 1 .. (m + l) : j <= m \/ j > m
    BY <1>2, <1>4
  <1>10. k \in Nat /\ (k + 1) - 1 = k /\ k \in 0 .. k /\ 0 .. (k - 1) \subseteq 0 .. k
         /\ \A b \in 0 .. k : b # k => b \in 0 .. (k - 1)
    OBVIOUS
  <1>11. ASSUME NEW j \in DOMAIN x PROVE Sits(h, x[j], k + 1)
    <2>1. CASE j <= m
      BY <1>6, <1>8, <1>10, <2>1 DEF Sits
    <2>2. CASE j > m
      BY <1>6, <1>7, <1>10, <2>2 DEF Sits, l
    <2> QED
      BY <1>6, <1>9, <2>1, <2>2
  <1>12. ASSUME NEW b \in 0 .. k, NEW i \in 0 .. (h.buckets[b].log_len - 1)
         PROVE  \E j \in DOMAIN x : x[j] = VectorNth(h.buckets[b], i)
    <2>1. CASE b = k
      <3>1. i \in 0 .. (l - 1)
        BY <2>1 DEF l
      <3>2. (m + i) + 1 \in 1 .. (m + l) /\ (m + i) + 1 > m /\ (((m + i) + 1) - m) - 1 = i
        BY <1>2, <1>4, <3>1
      <3>3. x[(m + i) + 1] = VectorNth(v, i)
        BY <1>7, <3>2
      <3> QED
        BY <1>6, <2>1, <3>2, <3>3
    <2>2. CASE b # k
      <3>1. PICK j \in DOMAIN u : u[j] = VectorNth(h.buckets[b], i)
        BY <1>10, <2>2 DEF Lists
      <3>2. j \in 1 .. (m + l) /\ j <= m
        BY <1>2, <1>4
      <3> QED
        BY <1>6, <1>8, <3>1, <3>2
    <2> QED
      BY <2>1, <2>2
  <1>13. ASSUME NEW j \in DOMAIN x, j > m, NEW p \in DOMAIN x, p <= m PROVE x[j] # x[p]
    <2>1. Sits(h, x[p], k)
      BY <1>6, <1>8, <1>13
    <2>2. PICK b \in 0 .. (k - 1) :
             \E i \in 0 .. (h.buckets[b].log_len - 1) : x[p] = VectorNth(h.buckets[b], i)
      BY <2>1 DEF Sits
    <2>3. PICK i \in 0 .. (h.buckets[b].log_len - 1) : x[p] = VectorNth(h.buckets[b], i)
      BY <2>2
    <2>4. (j - m) - 1 \in 0 .. (l - 1) /\ x[j] = VectorNth(v, (j - m) - 1)
      BY <1>6, <1>7, <1>13
    <2>5. b \in 0 .. (n - 1) /\ b # k
      BY <1>10
    <2> QED
      BY <2>3, <2>4, <2>5 DEF BucketsApart, l
  <1>14. ASSUME NEW j \in DOMAIN x, NEW p \in DOMAIN x, j # p PROVE x[j] # x[p]
    <2>1. CASE j <= m /\ p <= m
      BY <1>6, <1>8, <1>14, <2>1 DEF Lists
    <2>2. CASE j > m /\ p > m
      <3>1. (j - m) - 1 # (p - m) - 1
        BY <1>4, <1>6, <1>14
      <3>2. /\ (j - m) - 1 \in 0 .. (l - 1) /\ x[j] = VectorNth(v, (j - m) - 1)
            /\ (p - m) - 1 \in 0 .. (l - 1) /\ x[p] = VectorNth(v, (p - m) - 1)
        BY <1>6, <1>7, <2>2
      <3> QED
        BY <3>1, <3>2 DEF BucketsApart, l
    <2>3. CASE j > m /\ p <= m
      BY <1>13, <2>3
    <2>4. CASE j <= m /\ p > m
      BY <1>13, <2>4
    <2> QED
      BY <1>6, <1>9, <2>1, <2>2, <2>3, <2>4
  <1>15. Lists(x, h, k + 1)
    BY <1>10, <1>11, <1>12, <1>14 DEF Lists
  <1> QED
    BY <1>5, <1>15 DEF x, e

\* The joined buckets have every element once.
LEMMA JoinMeetsAll ==
    ASSUME NEW h, NEW n \in Nat, BucketsApart(h, n),
           NEW T, \A b \in 0 .. (n - 1) : Content(h.buckets[b]) \subseteq T
    PROVE  /\ ChosenJoin(h, n)[n] \in Seq(T)
           /\ Lists(ChosenJoin(h, n)[n], h, n)
  <1> DEFINE u == ChosenJoin(h, n)
  <1>1. ChosenJoin(h, n)[n] = u[n]
    OBVIOUS
  <1>2. IsJoin(u, h, n)
    BY JoinExists DEF ChosenJoin
  <1> HIDE DEF u
  <1>3. \A b \in 0 .. n : u[b] = JoinStep(u, h, b)
    BY <1>2 DEF IsJoin
  <1> DEFINE S == {k \in Nat : k <= n => u[k] \in Seq(T) /\ Lists(u[k], h, k)}
  <1>4. 0 \in S
    <2>1. u[0] = <<>>
      BY <1>3 DEF JoinStep
    <2>2. <<>> \in Seq(T) /\ DOMAIN <<>> = {}
      OBVIOUS
    <2>3. Lists(<<>>, h, 0)
      BY <2>2 DEF Lists
    <2> QED
      BY <2>1, <2>2, <2>3
  <1>5. ASSUME NEW k \in Nat, k \in S PROVE k + 1 \in S
    <2> SUFFICES ASSUME k + 1 <= n PROVE u[k + 1] \in Seq(T) /\ Lists(u[k + 1], h, k + 1)
      OBVIOUS
    <2>1. k \in 0 .. (n - 1) /\ k + 1 \in 0 .. n /\ (k + 1) - 1 = k /\ k + 1 # 0 /\ k <= n
      OBVIOUS
    <2>2. u[k] \in Seq(T) /\ Lists(u[k], h, k)
      BY <1>5, <2>1
    <2>3. u[k + 1] = u[k] \o Elements(h.buckets[k])
      BY <1>3, <2>1 DEF JoinStep
    <2>4. Content(h.buckets[k]) \subseteq T
      BY <2>1
    <2> HIDE DEF S
    <2>5. /\ u[k] \o Elements(h.buckets[k]) \in Seq(T)
          /\ Lists(u[k] \o Elements(h.buckets[k]), h, k + 1)
      BY <2>1, <2>2, <2>4, ListsStep
    <2> QED
      BY <2>3, <2>5
  <1> HIDE DEF S
  <1>6. n \in S
    BY <1>4, <1>5, NatClosed
  <1> QED
    BY <1>1, <1>6 DEF S

=============================================================================
