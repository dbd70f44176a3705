----------------------------- MODULE Containers -----------------------------
(***************************************************************************)
(* A client of both containers, after hashsettest.c and vectortest.c: it   *)
(* counts letters in a hash set, copies what the set holds into a vector   *)
(* and then sorts, appends, inserts, deletes, replaces and disposes.  The  *)
(* tests make these calls in a fixed order; here they come in any order,   *)
(* except for those of ChallengingTest, which fills a vector with numbers, *)
(* sorts it and deletes from its middle.                                   *)
(***************************************************************************)
EXTENDS Vector, SequencesExt

CONSTANTS
    NULL,
    NumLetters,
    NumBuckets,
    InitialAllocation,
    Extra,            \* elements that the client adds to the vector
    LargePrime,       \* kLargePrime
    EvenLargerPrime,  \* kEvenLargerPrime
    Distance,         \* 100: how far from the end DeleteEverythingVerySlowly deletes
    MaxLetters,       \* bound: letters in the file
    MaxCalls          \* bound: operations on the vector

Letters == 0 .. (NumLetters - 1)

Frequencies == [ch : Letters, occurrences : 1 .. MaxLetters]

\* An element of the vector of ChallengingTest.
Numbers == [long : 0 .. (EvenLargerPrime - 1)]

Elems == Frequencies \cup Extra \cup Numbers

IsPrime(n) == n > 1 /\ \A k \in 2 .. (n - 1) : n % k # 0

ASSUME ContainersAssumption ==
    /\ NumLetters \in Nat \ {0}
    /\ NumBuckets \in Nat \ {0}
    /\ InitialAllocation \in Nat
    /\ MaxLetters \in Nat
    /\ MaxCalls \in Nat
    /\ Extra \subseteq [ch : Letters, occurrences : Nat]
    /\ EvenLargerPrime \in Nat
    /\ LargePrime \in 1 .. (EvenLargerPrime - 1)
    /\ IsPrime(LargePrime) /\ IsPrime(EvenLargerPrime)
    /\ Distance \in Nat \ {0, 1}
    /\ Garbage \notin Elems
    /\ NULL \notin [bucket : 0 .. (NumBuckets - 1), index : Nat]

VARIABLES
    pc,       \* "count", "use", "replace", or "append", "delete", or "end"
    counts,   \* the hash set of BuildTableOfLetterCounts
    list,     \* the vector
    found,    \* the local variable of TestReplace
    goal,     \* toFind and toReplace of TestReplace
    read,     \* history: the letters that have been counted
    calls

vars == <<pc, counts, list, found, goal, read, calls>>

\* Faulty: letters that compare equal have different hash values.
HashWholeFrequency(freq) == (freq.ch + freq.occurrences) % NumBuckets

HashFrequency(freq) == freq.ch % NumBuckets

LetterOf(freq) == freq.ch

Table == INSTANCE HashSet WITH Hash <- HashFrequency, Key <- LetterOf

\* CompareOccurrences: the more frequent first, then by letter.
Precedes(a, b) == \/ a.occurrences > b.occurrences
                  \/ a.occurrences = b.occurrences /\ LetterOf(a) < LetterOf(b)

Init ==
    /\ pc \in {"count", "append"}
    /\ counts = Table!HashSetNew(NumBuckets, FALSE)
    /\ list = VectorNew(pc = "count", InitialAllocation)
    /\ found = 0
    /\ goal = NULL
    /\ read = <<>>
    /\ calls = 0

-----------------------------------------------------------------------------
(***************************************************************************)
(* hashsettest.c                                                           *)
(***************************************************************************)
\* BuildTableOfLetterCounts, for one letter: look it up, enter it with its new
\* count, which replaces what is there.
CountLetter(ch) ==
    LET one == [ch |-> ch, occurrences |-> 1]
        at  == Table!HashSetLookup(counts, one)
        new == IF at = NULL THEN one
               ELSE [one EXCEPT !.occurrences = Table!HashSetAt(counts, at).occurrences + 1]
    IN  /\ pc = "count"
        /\ Len(read) < MaxLetters
        /\ counts' = Table!HashSetEnter(counts, new)
        /\ read' = Append(read, ch)
        /\ UNCHANGED <<pc, list, found, goal, calls>>

\* HashSetMap(&counts, AddFrequency, &sortedCounts)
AddFrequencies ==
    /\ pc = "count"
    /\ list' = FoldLeft(VectorAppend, list, Table!HashSetElements(counts))
    /\ pc' = "use"
    /\ UNCHANGED <<counts, found, goal, read, calls>>

-----------------------------------------------------------------------------
(***************************************************************************)
(* vectortest.c                                                            *)
(***************************************************************************)
Use ==
    /\ pc = "use"
    /\ calls < MaxCalls
    /\ calls' = calls + 1
    /\ UNCHANGED <<counts, found, goal, read>>

TestAppend(elem) ==
    /\ Use
    /\ list' = VectorAppend(list, elem)
    /\ UNCHANGED pc

TestSort ==
    /\ Use
    /\ list' \in VectorSort(list, {p \in Content(list) \X Content(list) : Precedes(p[1], p[2])})
    /\ UNCHANGED pc

TestInsert(elem, pos) ==
    /\ Use
    /\ list' = VectorInsert(list, elem, pos)
    /\ UNCHANGED pc

TestDelete(pos) ==
    /\ Use
    /\ list' = VectorDelete(list, pos)
    /\ UNCHANGED pc

\* The end of a test: both containers are given up.
Dispose ==
    /\ pc = "use" \/ (pc = "delete" /\ VectorLength(list) = 0)
    /\ list' = VectorDispose(list)
    /\ counts' = Table!HashSetDispose(counts)
    /\ pc' = "end"
    /\ UNCHANGED <<found, goal, read, calls>>

\* TestReplace: searches from where it has found the last one.
BeginReplace(old, new) ==
    /\ pc = "use"
    /\ calls < MaxCalls
    /\ LetterOf(old) # LetterOf(new)
    /\ calls' = calls + 1
    /\ found' = 0
    /\ goal' = [toFind |-> old, toReplace |-> new]
    /\ pc' = "replace"
    /\ UNCHANGED <<counts, list, read>>

NextFound == 
    VectorSearch(list, {e \in Content(list) : LetterOf(e) = LetterOf(goal.toFind)}, found)

\* Faulty: goes on behind the end of the search, one element too far.
ReplaceSkipping ==
    LET next == NextFound
    IN  /\ pc = "replace"
        /\ found < VectorLength(list)
        /\ next # -1
        /\ list' = VectorReplace(list, goal.toReplace, next)
        /\ found' = next + 2
        /\ UNCHANGED <<pc, counts, goal, read, calls>>

ReplaceFound ==
    LET next == NextFound
    IN  /\ pc = "replace"
        /\ found < VectorLength(list)
        /\ next # -1
        /\ list' = VectorReplace(list, goal.toReplace, next)
        /\ found' = next
        /\ UNCHANGED <<pc, counts, goal, read, calls>>

EndReplace ==
    /\ pc = "replace"
    /\ ~(found < VectorLength(list)) \/ NextFound = -1
    /\ found' = IF found < VectorLength(list) THEN -1 ELSE found
    /\ pc' = "use"
    /\ UNCHANGED <<counts, list, goal, read, calls>>

-----------------------------------------------------------------------------
(***************************************************************************)
(* ChallengingTest                                                         *)
(***************************************************************************)
LongLess(a, b) == a.long < b.long

\* One iteration of InsertPermutationOfNumbers.
InsertNumber ==
    LET k == VectorLength(list)
    IN  /\ pc = "append" /\ k < EvenLargerPrime
        /\ list' = VectorAppend(list, [long |-> (k * LargePrime) % EvenLargerPrime])
        /\ UNCHANGED <<pc, counts, found, goal, read, calls>>

SortPermutation ==
    /\ pc = "append" /\ VectorLength(list) = EvenLargerPrime
    /\ list' \in VectorSort(list, {p \in Content(list) \X Content(list) : LongLess(p[1], p[2])})
    /\ pc' = "delete"
    /\ UNCHANGED <<counts, found, goal, read, calls>>

\* One iteration of either loop of DeleteEverythingVerySlowly.
DeleteSlowly ==
    LET length == VectorLength(list)
    IN  /\ pc = "delete" /\ length > 0
        /\ list' = VectorDelete(list, IF length >= Distance THEN length - Distance ELSE 0)
        /\ UNCHANGED <<pc, counts, found, goal, read, calls>>

Finished == pc = "end" /\ UNCHANGED vars

Next ==
    \/ \E ch \in Letters : CountLetter(ch)
    \/ AddFrequencies
    \/ \E elem \in Extra : TestAppend(elem)
    \/ TestSort
    \/ \E elem \in Extra, pos \in 0 .. VectorLength(list) : TestInsert(elem, pos)
    \/ \E pos \in 0 .. (VectorLength(list) - 1) : TestDelete(pos)
    \/ \E old, new \in Extra : BeginReplace(old, new)
    \/ ReplaceFound \/ EndReplace
    \/ InsertNumber \/ SortPermutation \/ DeleteSlowly
    \/ Dispose
    \/ Finished

Spec == Init /\ [][Next]_vars

-----------------------------------------------------------------------------
(***************************************************************************)
(* Properties                                                              *)
(***************************************************************************)
\* The array has room for its elements and grows by steps of the initial
\* allocation; garbage is never among the elements.
VectorOK(v) ==
    /\ v.alloc_len \in Nat
    /\ v.log_len \in 0 .. v.alloc_len
    /\ v.init_alloc \in Nat \ {0}
    /\ v.alloc_len % v.init_alloc = 0
    /\ DOMAIN v.arr = 0 .. (v.alloc_len - 1)
    /\ \A i \in 1 .. v.log_len : Elements(v)[i] \in Elems

\* Types and the shape of the containers.
TypeOK ==
    /\ pc \in {"count", "use", "replace", "append", "delete", "end"}
    /\ VectorOK(list)
    /\ \A b \in 0 .. (NumBuckets - 1) : VectorOK(counts.buckets[b])
    /\ found \in -1 .. VectorLength(list)
    /\ read \in Seq(Letters)
    /\ calls \in 0 .. MaxCalls

HowOften(ch) == Cardinality({i \in DOMAIN read : read[i] = ch})

\* The set has one element for each letter, in the bucket of its hash value, with
\* the number of times that it was read, however often an element was replaced.
TableIsConsistent ==
    /\ \A b \in 0 .. (NumBuckets - 1) :
          \A i \in DOMAIN Elements(counts.buckets[b]) :
             HashFrequency(Elements(counts.buckets[b])[i]) = b
    /\ LET elems == Table!HashSetElements(counts)
       IN  /\ Len(elems) = Cardinality(ToSet(read))
           /\ ToSet(elems) = {[ch |-> c, occurrences |-> HowOften(c)] : c \in ToSet(read)}

\* hashset.h:147-150: HashSetCount returns the number of elements residing in the
\* hash set, until it is disposed of.
CountIsNumberOfElements ==
    pc # "end" => Table!HashSetCount(counts) = Len(Table!HashSetElements(counts))

\* When TestReplace ends nothing is left to replace, although every search begins
\* at an index that an earlier one has returned.
AllReplaced ==
    [][(pc = "replace" /\ pc' = "use") =>
          \A i \in DOMAIN Elements(list) : LetterOf(Elements(list)[i]) # LetterOf(goal.toFind)]_vars

\* The assertions in SortPermutation and DeleteEverythingVerySlowly: sorting brings
\* every number to its own index, and the largest one stays the last however many
\* are deleted before it, so growing and shifting have lost none.
NumbersSurvive ==
    pc = "delete" =>
        /\ VectorLength(list) = EvenLargerPrime =>
              \A k \in 0 .. (EvenLargerPrime - 1) : VectorNth(list, k).long = k
        /\ VectorLength(list) > 0 =>
              VectorNth(list, VectorLength(list) - 1).long = EvenLargerPrime - 1

\* What is sorted is of one kind.
SortsBefore(a, b) == IF a \in Numbers THEN LongLess(a, b) ELSE Precedes(a, b)

\* The client cannot tell the containers from a finite map and a sequence.
A == INSTANCE AbstractContainers WITH
        Precedes <- SortsBefore,
        seen  <- [ch \in Letters |-> HowOften(ch)],
        seq   <- IF pc = "end" THEN <<>> ELSE Elements(list),
        owns  <- list.owns,
        freed <- list.released

ContainersAreAbstract == A!Spec
=============================================================================
