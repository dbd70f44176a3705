------------------------- MODULE AbstractContainers -------------------------
(***************************************************************************)
(* What hashset.h and vector.h let a client think: a hash set is a finite  *)
(* map, a vector is a sequence, and every element that leaves the vector   *)
(* is freed, in the order in which the elements leave, if the client has   *)
(* given the vector a function for that.                                   *)
(***************************************************************************)
EXTENDS Integers, Sequences, SequencesExt, FiniteSets

CONSTANTS
    Letters,
    Elems,
    Precedes(_, _)   \* how the client has its elements sorted

VARIABLES
    seen,   \* how often each letter has been counted
    seq,    \* the content of the vector
    owns,   \* whether the vector frees its elements
    freed   \* the elements that have been freed

vars == <<seen, seq, owns, freed>>

\* These elements leave the vector.
Leave(elems) ==
    /\ freed' = IF owns THEN freed \o elems ELSE freed
    /\ UNCHANGED owns

Init ==
    /\ seen = [ch \in Letters |-> 0]
    /\ seq = <<>>
    /\ owns \in BOOLEAN
    /\ freed = <<>>

Count(ch) ==
    /\ seen' = [seen EXCEPT ![ch] = @ + 1]
    /\ UNCHANGED <<seq, owns, freed>>

\* Every letter comes once, in an order that the client cannot know.
Fill ==
    /\ seq' \in {s \in [1 .. Cardinality({ch \in Letters : seen[ch] > 0}) ->
                          {[ch |-> c, occurrences |-> seen[c]] : c \in Letters}] :
                   \A i, j \in DOMAIN s : /\ s[i].occurrences > 0
                                          /\ (i # j => s[i] # s[j])}
    /\ UNCHANGED <<seen, owns, freed>>

Insert(elem, pos) ==
    /\ seq' = InsertAt(seq, pos + 1, elem)
    /\ UNCHANGED <<seen, owns, freed>>

Delete(pos) ==
    /\ seq' = RemoveAt(seq, pos + 1)
    /\ Leave(<<seq[pos + 1]>>)
    /\ UNCHANGED seen

Replace(elem, pos) ==
    /\ seq' = [seq EXCEPT ![pos + 1] = elem]
    /\ Leave(<<seq[pos + 1]>>)
    /\ UNCHANGED seen

Sort ==
    /\ \E p \in [DOMAIN seq -> DOMAIN seq] :
          /\ \A i, j \in DOMAIN seq : i # j => p[i] # p[j]
          /\ seq' = [i \in DOMAIN seq |-> seq[p[i]]]
          /\ \A i, j \in DOMAIN seq : i < j => ~Precedes(seq'[j], seq'[i])
    /\ UNCHANGED <<seen, owns, freed>>

Dispose ==
    /\ seq' = <<>>
    /\ Leave(seq)
    /\ UNCHANGED seen

Next ==
    \/ \E ch \in Letters : Count(ch)
    \/ Fill \/ Sort \/ Dispose
    \/ \E elem \in Elems, pos \in 0 .. Len(seq) : Insert(elem, pos)
    \/ \E pos \in 0 .. (Len(seq) - 1) : Delete(pos)
    \/ \E elem \in Elems, pos \in 0 .. (Len(seq) - 1) : Replace(elem, pos)

Spec == Init /\ [][Next]_vars
=============================================================================
