------------------------------ MODULE MCReport ------------------------------
(***************************************************************************)
(* Instances of Report for TLC: how many nights, and what the workers do.  *)
(***************************************************************************)
EXTENDS Report, TLC

CONSTANTS w1, w2

Entry1(a, x) == [acct |-> a, amt |-> x]

\* A deposit, or with a negative amount a withdrawal.
Move(a, x) == [flow |-> x, log |-> <<Entry1(a, x)>>]

Transfer(a, b, x) == [flow |-> 0, log |-> <<Entry1(a, -x), Entry1(b, x)>>]

-----------------------------------------------------------------------------
\* Three nights, as Action_Init plans them.  The log overflows on the second
\* day; on the third the storage for reports is used up.
Plan(first, second, third) == 1 :> first @@ 2 :> second @@ 3 :> third @@ 4 :> <<>>

ThreeNights ==
    w1 :> Plan(<<Transfer(10, 11, 4)>>, <<Move(12, 7), Move(13, 6)>>, <<Move(14, 5)>>)
    @@ w2 :> Plan(<<Move(20, -5)>>, <<Transfer(21, 22, 6), Move(23, 1)>>, <<>>)

\* Nights without any command: only the barrier.
QuietNights == [w \in Workers |-> [d \in Days |-> <<>>]]
=============================================================================
