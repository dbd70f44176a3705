----------------------------- MODULE BankDriver -----------------------------
(***************************************************************************)
(* The driver, bankdriver.c, around the command generator: CreateBank, the *)
(* loop of Worker, the threads of MultipleWorkers, and TestBank, which     *)
(* lets one worker alone repeat everything on a bank of its own and        *)
(* compares the two banks.  A command is one step here, as module          *)
(* AtomicBank allows after what is checked of module Teller; the nightly   *)
(* reports are in module Report.                                           *)
(***************************************************************************)
EXTENDS ActionSchedule, AccountNumbers, Functions

VARIABLES
    bank,                 \* its account and branch balances
    bankmulti,            \* the bank of the first run
    fixedBankBalance,
    numBalanceErrors,     \* of the worker that is running
    workerBalanceErrors,  \* of the workers that have ended
    balanceCmdErrors      \* their sum, in TestBank

errors     == <<numBalanceErrors, workerBalanceErrors, balanceCmdErrors>>
driverVars == <<vars, bank, bankmulti, fixedBankBalance, errors>>

-----------------------------------------------------------------------------
\* Bank_Init
NewBank == [account |-> [a \in Accounts |-> OpeningBalance(a)],
            branch  |-> [b \in Branches |-> OpeningBranchBalance]]

Bank_Balance(bk) == SumFunctionOnSet(bk.branch, Branches)

testbankbalance == "noFundsFlow" \in actionControl

DriverInit ==
    /\ Init
    /\ bank = NewBank
    /\ bankmulti = NewBank
    /\ fixedBankBalance = IF testbankbalance THEN Bank_Balance(NewBank) ELSE 0
    /\ numBalanceErrors = NoWork
    /\ workerBalanceErrors = NoWork
    /\ balanceCmdErrors = 0

-----------------------------------------------------------------------------
(***************************************************************************)
(* The switch in Worker: the teller's functions, each as a whole           *)
(***************************************************************************)
\* The account of a leg, found by its number.
Found(c, i) == LookupByNumber(NumberOf(LegAccount(c, i)))

Refused(c) == ChecksFunds(c) /\ c.amt > bank.account[Found(c, 1)]

Moves(c) == c.kind \in {"deposit", "withdraw", "transfer"} /\ ~NothingToDo(c) /\ ~Refused(c)

\* What a command adds to an account: the sum over its legs.
AccountGain(c, a) ==
    SumFunction([i \in 1 .. NumLegs(c) |-> IF Found(c, i) = a THEN LegAmount(c, i) ELSE 0])

\* What it adds to a branch: nothing, if it stays within one.
BranchGain(c, b) ==
    SumFunction([i \in 1 .. NumLegs(c) |->
                    IF UpdatesBranch(c) /\ Found(c, i)[1] = b THEN LegAmount(c, i) ELSE 0])

\* What the bank becomes.
Moved(c) ==
    [account |-> [a \in Accounts |-> bank.account[a] + AccountGain(c, a)],
     branch  |-> [b \in Branches |-> bank.branch[b] + BranchGain(c, b)]]

IsWrong(c) ==
    c.kind = "bankBalance" /\ testbankbalance /\ Bank_Balance(bank) # fixedBankBalance

\* Refused or not, the worker goes on: the error codes of the teller are positive.
Execute(w) ==
    LET c == Command(draws[w])
    IN  /\ HandOut(w)
        /\ bank' = IF Moves(c) THEN Moved(c) ELSE bank
        /\ numBalanceErrors' = [numBalanceErrors EXCEPT ![w] = IF IsWrong(c) THEN @ + 1 ELSE @]
        /\ UNCHANGED <<bankmulti, fixedBankBalance, workerBalanceErrors, balanceCmdErrors>>

\* ACTION_DONE and the end of the thread.
Exit(w) ==
    /\ Done(w)
    /\ workerBalanceErrors' = [workerBalanceErrors EXCEPT ![w] = numBalanceErrors[w]]
    /\ UNCHANGED <<bank, bankmulti, fixedBankBalance, numBalanceErrors, balanceCmdErrors>>

Generate(w) ==
    /\ AskReport(w) \/ BeginCommand(w) \/ Draw(w)
    /\ UNCHANGED <<bank, bankmulti, fixedBankBalance, errors>>

\* After pthread_join: the first bank is kept, CreateBank makes another one.
TestTheBank ==
    /\ TestBank
    /\ balanceCmdErrors' = SumFunctionOnSet(workerBalanceErrors, Slots)
    /\ bankmulti' = bank
    /\ bank' = NewBank
    /\ fixedBankBalance' = IF testbankbalance THEN Bank_Balance(NewBank) ELSE fixedBankBalance
    /\ numBalanceErrors' = [numBalanceErrors EXCEPT ![0] = 0]
    /\ UNCHANGED workerBalanceErrors

DriverFinished == AllDone /\ Alone /\ UNCHANGED driverVars

DriverNext ==
    \/ TestTheBank \/ DriverFinished
    \/ \E w \in Running : Generate(w) \/ Execute(w) \/ Exit(w)

DriverSpec == DriverInit /\ [][DriverNext]_driverVars

-----------------------------------------------------------------------------
(***************************************************************************)
(* Properties                                                              *)
(***************************************************************************)
Branch_Compare(bank1, bank2, b) ==
    /\ bank1.branch[b] = bank2.branch[b]
    /\ \A a \in Accounts : GetBranchID(a) = b => bank1.account[a] = bank2.account[a]

\* Without the call of Report_Compare: the reports are in module Report.
Bank_Compare(bank1, bank2) == \A b \in Branches : Branch_Compare(bank1, bank2, b)

Branch_Validate(bk, b) ==
    bk.branch[b] = SumFunctionOnSet(bk.account, {a \in Accounts : GetBranchID(a) = b})

Bank_Validate(bk) == \A b \in Branches : Branch_Validate(bk, b)

\* When the lone worker is done the two banks are equal, in every account and every
\* branch, and their branches match their accounts: the order in which the workers
\* executed the commands makes no difference, provided that the accounts hold
\* enough, nor do the accounts that -f makes overdrawn, which must be refused in
\* every order.
BanksAgree == (Alone /\ AllDone) => Bank_Compare(bank, bankmulti) /\ Bank_Validate(bank)

\* When no funds flow in or out, every bank balance that a worker asks for is the
\* one that CreateBank has computed, in both runs, and TestBank counts no error.
NoBalanceErrors ==
    /\ \A w \in Slots : numBalanceErrors[w] = 0
    /\ testbankbalance => Bank_Balance(bank) = fixedBankBalance
    /\ balanceCmdErrors = 0
=============================================================================
