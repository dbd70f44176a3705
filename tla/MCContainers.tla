---------------------------- MODULE MCContainers ----------------------------
(***************************************************************************)
(* Three letters in two buckets, and two elements to append, insert and    *)
(* replace with.  The vector begins with room for two elements, so that it *)
(* grows while it is used.  The numbers are 0 to 4.                        *)
(***************************************************************************)
EXTENDS Containers

ExtraFrequencies == {[ch |-> 0, occurrences |-> 1], [ch |-> 2, occurrences |-> 4]}
=============================================================================
