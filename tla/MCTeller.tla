------------------------------ MODULE MCTeller ------------------------------
(***************************************************************************)
(* Instances of Teller for TLC.                                            *)
(***************************************************************************)
EXTENDS Teller, TLC

CONSTANTS w1, w2, w3

(***************************************************************************)
(* What the documents claim and the code does not keep                     *)
(***************************************************************************)
\* para-assign6.doc: "users can never observe the result of a
\* partially-completed transaction".  All money moves from branch 0 to branch
\* 1, so a user who has seen it leave branch 0 must find it in branch 1.
NoHalfTransferSeen ==
    [][\A w \in Workers :
          (/\ pc[w] = "branchBalance" /\ GetBranchID(call[w].src) = 1
           /\ read'[w] # read[w]
           /\ read[w][0] # 0) =>
             read[w][0] + read'[w][1] >= 2 * OpeningBranchBalance]_vars

-----------------------------------------------------------------------------
Move(kind, src, dst, amt) == [kind |-> kind, src |-> src, dst |-> dst, amt |-> amt]
Deposit(a, amt) == Move("deposit", a, a, amt)
Withdraw(a, amt) == Move("withdraw", a, a, amt)
Transfer(a, b, amt) == Move("transfer", a, b, amt)
AskBranch(b) == Move("branchBalance", <<b, 0>>, <<b, 0>>, 0)
AskBank == Move("bankBalance", <<0, 0>>, <<0, 0>>, 0)

\* Every kind of command, refused and accepted, with every pair of branches.
MixedCalls ==
    {Deposit(<<0, 0>>, 1), Withdraw(<<0, 0>>, 2), Withdraw(<<1, 0>>, 0),
     Transfer(<<0, 0>>, <<0, 1>>, 1), Transfer(<<0, 1>>, <<1, 0>>, 2),
     Transfer(<<1, 0>>, <<0, 0>>, 1), Transfer(<<1, 1>>, <<1, 1>>, 1),
     AskBranch(1), AskBank}

\* Test 7 with the -f switch: no funds flow in or out, and nothing is moved to
\* an account that starts overdrawn.  The transfers form circles within a
\* branch and between three branches.
NoFlowCalls ==
    {Transfer(<<0, 1>>, <<1, 1>>, 1), Transfer(<<1, 1>>, <<2, 1>>, 2),
     Transfer(<<2, 1>>, <<0, 1>>, 1), Transfer(<<1, 0>>, <<1, 1>>, 1),
     Withdraw(<<1, 1>>, 0), AskBank}

\* One user moves money from branch 0 to branch 1, another looks at both.
TwoBranchCalls == {Transfer(<<0, 0>>, <<1, 0>>, 1), AskBranch(0), AskBranch(1)}

Symmetry == Permutations(Workers)
=============================================================================
