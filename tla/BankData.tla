------------------------------ MODULE BankData ------------------------------
(***************************************************************************)
(* The data that the bank simulation of Assignment_6_Conccurency is about: *)
(* branches, accounts, the commands that a teller accepts, and what each   *)
(* command does to which account and branch.  No state: the modules that   *)
(* model the running program extend this one.                              *)
(***************************************************************************)
EXTENDS Integers

CONSTANTS
    Workers,          \* the threads of bankdriver.c
    NumBranches,      \* bank->numberBranches
    AcctsPerBranch,   \* branch->numberAccounts
    InitialAmount,    \* what Account_Init puts into an account
    TestFailureCode,  \* the -f switch: some accounts start overdrawn
    Calls             \* the commands that Action_GetNext may hand out

Branches == 0 .. (NumBranches - 1)

\* An account number is (branch << 32 | subaccount).  The pair orders the same
\* way as the number does, so every `<' of teller.c is AcctLess.
Accounts == Branches \X (0 .. (AcctsPerBranch - 1))

GetBranchID(a) == a[1]
Subaccount(a) == a[2]

AcctLess(a, b) ==
    \/ GetBranchID(a) < GetBranchID(b)
    \/ GetBranchID(a) = GetBranchID(b) /\ Subaccount(a) < Subaccount(b)

IsSameBranch(a, b) == GetBranchID(a) = GetBranchID(b)

(***************************************************************************)
(* A command.  src is the account of a deposit or a withdrawal, and the    *)
(* branch of src the one that a branch balance asks for; dst is used by    *)
(* transfers only and equals src elsewhere.                                *)
(***************************************************************************)
Kinds == {"deposit", "withdraw", "transfer", "branchBalance", "bankBalance"}

CallSet == {c \in [kind : Kinds, src : Accounts, dst : Accounts, amt : Nat] :
               c.kind # "transfer" => c.dst = c.src}

ASSUME BankAssumption ==
    /\ NumBranches \in Nat \ {0}
    /\ AcctsPerBranch \in Nat \ {0}
    /\ InitialAmount \in Nat
    /\ TestFailureCode \in BOOLEAN
    /\ Calls \subseteq CallSet

\* The call slot of a worker that has not been given a command yet.
NoCall == [kind |-> "bankBalance", src |-> <<0, 0>>, dst |-> <<0, 0>>, amt |-> 0]

\* The early returns with ERROR_SUCCESS of the three teller functions.
NothingToDo(c) ==
    \/ c.kind \in {"deposit", "withdraw", "transfer"} /\ c.amt = 0
    \/ c.kind = "transfer" /\ c.src = c.dst

(***************************************************************************)
(* A teller command adjusts one account, a transfer two: its legs, in the  *)
(* order in which the code adjusts them.                                   *)
(***************************************************************************)
NumLegs(c) == IF c.kind = "transfer" THEN 2 ELSE 1

LegAccount(c, i) == IF i = 1 THEN c.src ELSE c.dst

LegBranch(c, i) == GetBranchID(LegAccount(c, i))

LegAmount(c, i) == IF c.kind = "deposit" \/ i = 2 THEN c.amt ELSE -c.amt

\* updateBranch: within a branch a transfer changes no branch balance.
UpdatesBranch(c) == c.kind = "transfer" => ~IsSameBranch(c.src, c.dst)

\* The commands that must not take more than the account holds.
ChecksFunds(c) == c.kind \in {"withdraw", "transfer"}

(***************************************************************************)
(* Account_Init and Branch_Init.  The branch balance is the sum of its     *)
(* accounts, in closed form: under TestFailureCode every fourth account,   *)
(* counted from 0, starts at -1.                                           *)
(***************************************************************************)
OpeningBalance(a) ==
    IF TestFailureCode /\ Subaccount(a) % 4 = 0 THEN -1 ELSE InitialAmount

OpeningBranchBalance ==
    LET overdrawn == IF TestFailureCode THEN (AcctsPerBranch + 3) \div 4 ELSE 0
    IN  (AcctsPerBranch - overdrawn) * InitialAmount - overdrawn

=============================================================================
