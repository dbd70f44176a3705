--------------------------- MODULE AccountNumbers ---------------------------
(***************************************************************************)
(* Account numbers, account.c: the branch in the high bits, the number of  *)
(* the account within its branch in the low ones.  The two ranges are      *)
(* constants; in the code a branch is shifted by 32 bits and an account    *)
(* masked with 27, and TLC cannot count that far.                          *)
(***************************************************************************)
EXTENDS BankData

CONSTANTS
    BranchShift,      \* 2^32
    SubaccountRange   \* 2^27

\* The mask keeps a part of the bits below the shift, and a subaccount fits in it.
ASSUME NumbersAssumption ==
    /\ SubaccountRange \in Nat
    /\ AcctsPerBranch <= SubaccountRange
    /\ \E k \in 1 .. BranchShift : BranchShift = k * SubaccountRange

\* The bits of the two parts do not overlap, so that | is +.
MakeAccountNum(branch, subaccount) == branch * BranchShift + subaccount

NumGetBranchID(num) == num \div BranchShift

NumSubaccount(num) == num % SubaccountRange

\* Account_LookupByNumber: the account as the pair that BankData calls it.
LookupByNumber(num) == <<NumGetBranchID(num), NumSubaccount(num)>>

NumberOf(account) == MakeAccountNum(GetBranchID(account), Subaccount(account))
=============================================================================
