------------------------------- MODULE Teller -------------------------------
(***************************************************************************)
(* The commands of the bank as the worker threads execute them: teller.c,  *)
(* with the parts of account.c, branch.c and bank.c that it calls, and the *)
(* dispatch loop of bankdriver.c around it.  Every acquisition of a mutex, *)
(* every read and every write of a shared balance is a step of its own, so *)
(* the workers interleave wherever the threads can.                        *)
(*                                                                         *)
(* pc[w] names the place in the code and ix[w] the round of the loop, leg  *)
(* or lock that it is at.  The nightly report is not a command here: it is *)
(* the subject of module Report.                                           *)
(***************************************************************************)
EXTENDS BankData, Functions

CONSTANTS
    MaxCommands,   \* cmdCount that Action_Init gives to each worker
    NoOwner        \* the owner of a free mutex

ASSUME TellerAssumption ==
    /\ MaxCommands \in Nat
    /\ NoOwner \notin Workers

VARIABLES
    balance,        \* account->balance
    branchBalance,  \* branch->balance
    acctLock,       \* the owner of account->lock
    branchLock,     \* the owner of bank->branch_locks[b]
    cmdCount,       \* workerState[w].cmdCount
    pc, ix,         \* the control state of each worker
    call,           \* the command that it executes
    reg,            \* the balance it read last in Account_Adjust or Branch_UpdateBalance
    read,           \* the balance that its queries read last, for each branch
    outcome         \* what the current or last command returns

vars == <<balance, branchBalance, acctLock, branchLock, cmdCount,
          pc, ix, call, reg, read, outcome>>

locks == <<acctLock, branchLock>>
money == <<balance, branchBalance>>
job   == <<cmdCount, call>>

Labels == {"idle", "return", "lockAccount", "checkFunds", "lockBranch",
           "readAccount", "writeAccount", "readBranch", "writeBranch",
           "unlockBranch", "unlockAccount", "branchBalance",
           "lockAll", "sum", "unlockAll", "done"}

\* The rounds that a worker can be in at a label.
Rounds(l) ==
    IF l \in {"lockAll", "sum", "unlockAll"} THEN Branches ELSE {1, 2}

TypeOK ==
    /\ balance \in [Accounts -> Int]
    /\ branchBalance \in [Branches -> Int]
    /\ acctLock \in [Accounts -> Workers \cup {NoOwner}]
    /\ branchLock \in [Branches -> Workers \cup {NoOwner}]
    /\ cmdCount \in [Workers -> Nat]
    /\ pc \in [Workers -> Labels]
    /\ ix \in [Workers -> Nat]
    /\ \A w \in Workers : ix[w] \in Rounds(pc[w])
    /\ call \in [Workers -> CallSet]
    /\ reg \in [Workers -> Int]
    /\ read \in [Workers -> [Branches -> Int]]
    /\ outcome \in [Workers -> {"pending", "success", "insufficient"}]

Init ==
    /\ balance = [a \in Accounts |-> OpeningBalance(a)]
    /\ branchBalance = [b \in Branches |-> OpeningBranchBalance]
    /\ acctLock = [a \in Accounts |-> NoOwner]
    /\ branchLock = [b \in Branches |-> NoOwner]
    /\ cmdCount = [w \in Workers |-> MaxCommands]
    /\ pc = [w \in Workers |-> "idle"]
    /\ ix = [w \in Workers |-> 1]
    /\ call = [w \in Workers |-> NoCall]
    /\ reg = [w \in Workers |-> 0]
    /\ read = [w \in Workers |-> [b \in Branches |-> 0]]
    /\ outcome = [w \in Workers |-> "success"]

-----------------------------------------------------------------------------
(***************************************************************************)
(* Control                                                                 *)
(***************************************************************************)
GoTo(w, label, round) ==
    /\ pc' = [pc EXCEPT ![w] = label]
    /\ ix' = [ix EXCEPT ![w] = round]

\* Faulty: the source is always locked first.
AccountSourceFirst(c, i) == LegAccount(c, i)

BranchSourceFirst(c, i) == LegBranch(c, i)

\* The lock order of Teller_DoTransfer: the smaller account number first, the
\* smaller branch first; the i-th lock of a command.
AccountToLock(c, i) ==
    IF c.kind = "transfer" /\ ~AcctLess(c.src, c.dst)
    THEN LegAccount(c, 3 - i) ELSE LegAccount(c, i)

BranchToLock(c, i) ==
    IF c.kind = "transfer" /\ ~(GetBranchID(c.src) < GetBranchID(c.dst))
    THEN LegBranch(c, 3 - i) ELSE LegBranch(c, i)

\* Accounts are unlocked last leg first.
AccountToUnlock(c, i) == LegAccount(c, NumLegs(c) + 1 - i)

\* The first step of a command that has something to do.
Entry(c) ==
    CASE NothingToDo(c)            -> <<"return", 1>>
      [] c.kind = "branchBalance"  -> <<"branchBalance", 1>>
      [] c.kind = "bankBalance"    -> <<"lockAll", 0>>
      [] OTHER                     -> <<"lockAccount", 1>>

\* Action_GetNext and the switch in Worker: a command while there are any left.
GetNext(w, c) ==
    /\ pc[w] = "idle"
    /\ cmdCount[w] > 0
    /\ cmdCount' = [cmdCount EXCEPT ![w] = @ - 1]
    /\ call' = [call EXCEPT ![w] = c]
    /\ outcome' = [outcome EXCEPT ![w] = "pending"]
    /\ GoTo(w, Entry(c)[1], Entry(c)[2])
    /\ UNCHANGED <<money, locks, reg, read>>

\* ACTION_DONE: the thread exits.
Done(w) ==
    /\ pc[w] = "idle"
    /\ cmdCount[w] = 0
    /\ GoTo(w, "done", 1)
    /\ UNCHANGED <<money, locks, job, reg, read, outcome>>

\* The early returns.
ReturnAtOnce(w) ==
    /\ pc[w] = "return"
    /\ outcome' = [outcome EXCEPT ![w] = "success"]
    /\ GoTo(w, "idle", 1)
    /\ UNCHANGED <<money, locks, job, reg, read>>

-----------------------------------------------------------------------------
(***************************************************************************)
(* Teller_DoDeposit, Teller_DoWithdraw, Teller_DoTransfer                  *)
(***************************************************************************)
\* Faulty: does not wait for the owner of the account.
LockAccountAnyway(w) ==
    LET c == call[w]
        a == AccountToLock(c, ix[w])
    IN  /\ pc[w] = "lockAccount"
        /\ acctLock' = [acctLock EXCEPT ![a] = w]
        /\ CASE ix[w] < NumLegs(c)    -> GoTo(w, "lockAccount", ix[w] + 1)
             [] ix[w] = NumLegs(c) /\ c.kind = "transfer"
                                      -> GoTo(w, "checkFunds", 1)
             [] OTHER                 -> GoTo(w, "lockBranch", 1)
        /\ UNCHANGED <<money, branchLock, job, reg, read, outcome>>

LockAccount(w) ==
    LET c == call[w]
        a == AccountToLock(c, ix[w])
    IN  /\ pc[w] = "lockAccount"
        /\ acctLock[a] = NoOwner
        /\ acctLock' = [acctLock EXCEPT ![a] = w]
        /\ CASE ix[w] < NumLegs(c)    -> GoTo(w, "lockAccount", ix[w] + 1)
             [] ix[w] = NumLegs(c) /\ c.kind = "transfer"
                                      -> GoTo(w, "checkFunds", 1)
             [] OTHER                 -> GoTo(w, "lockBranch", 1)
        /\ UNCHANGED <<money, branchLock, job, reg, read, outcome>>

\* Faulty: does not wait for the owner of the branch.
LockBranchAnyway(w) ==
    LET c == call[w]
        b == BranchToLock(c, ix[w])
    IN  /\ pc[w] = "lockBranch"
        /\ branchLock' = [branchLock EXCEPT ![b] = w]
        /\ CASE ix[w] < NumLegs(c)    -> GoTo(w, "lockBranch", ix[w] + 1)
             [] ix[w] = NumLegs(c) /\ c.kind = "withdraw"
                                      -> GoTo(w, "checkFunds", 1)
             [] OTHER                 -> GoTo(w, "readAccount", 1)
        /\ UNCHANGED <<money, acctLock, job, reg, read, outcome>>

LockBranch(w) ==
    LET c == call[w]
        b == BranchToLock(c, ix[w])
    IN  /\ pc[w] = "lockBranch"
        /\ branchLock[b] = NoOwner
        /\ branchLock' = [branchLock EXCEPT ![b] = w]
        /\ CASE ix[w] < NumLegs(c)    -> GoTo(w, "lockBranch", ix[w] + 1)
             [] ix[w] = NumLegs(c) /\ c.kind = "withdraw"
                                      -> GoTo(w, "checkFunds", 1)
             [] OTHER                 -> GoTo(w, "readAccount", 1)
        /\ UNCHANGED <<money, acctLock, job, reg, read, outcome>>

HasFunds(w) == call[w].amt <= balance[call[w].src]

\* A transfer checks before it locks the branches, a withdrawal after.
FundsSuffice(w) ==
    /\ pc[w] = "checkFunds"
    /\ HasFunds(w)
    /\ GoTo(w, IF call[w].kind = "transfer" /\ UpdatesBranch(call[w])
               THEN "lockBranch" ELSE "readAccount", 1)
    /\ UNCHANGED <<money, locks, job, reg, read, outcome>>

\* Faulty: a refused withdrawal keeps its branch.
RefuseKeepsBranch(w) ==
    /\ pc[w] = "checkFunds"
    /\ ~HasFunds(w)
    /\ outcome' = [outcome EXCEPT ![w] = "insufficient"]
    /\ GoTo(w, "unlockAccount", 1)
    /\ UNCHANGED <<money, locks, job, reg, read>>

\* ERROR_INSUFFICIENT_FUNDS
FundsInsufficient(w) ==
    /\ pc[w] = "checkFunds"
    /\ ~HasFunds(w)
    /\ outcome' = [outcome EXCEPT ![w] = "insufficient"]
    /\ GoTo(w, IF call[w].kind = "transfer"
               THEN "unlockAccount" ELSE "unlockBranch", 1)
    /\ UNCHANGED <<money, locks, job, reg, read>>

\* Account_Adjust: account->balance = Account_Balance(account) + amount.
ReadAccount(w) ==
    /\ pc[w] = "readAccount"
    /\ reg' = [reg EXCEPT ![w] = balance[LegAccount(call[w], ix[w])]]
    /\ GoTo(w, "writeAccount", ix[w])
    /\ UNCHANGED <<money, locks, job, read, outcome>>

\* What follows the adjustment of a leg.
AfterLeg(w) ==
    IF ix[w] < NumLegs(call[w])
    THEN GoTo(w, "readAccount", ix[w] + 1)
    ELSE GoTo(w, IF UpdatesBranch(call[w]) THEN "unlockBranch" ELSE "unlockAccount", 1)

WriteAccount(w) ==
    LET c == call[w]
    IN  /\ pc[w] = "writeAccount"
        /\ balance' = [balance EXCEPT ![LegAccount(c, ix[w])] = reg[w] + LegAmount(c, ix[w])]
        /\ IF UpdatesBranch(c) THEN GoTo(w, "readBranch", ix[w]) ELSE AfterLeg(w)
        /\ UNCHANGED <<branchBalance, locks, job, reg, read, outcome>>

\* Branch_UpdateBalance
ReadBranch(w) ==
    /\ pc[w] = "readBranch"
    /\ reg' = [reg EXCEPT ![w] = branchBalance[LegBranch(call[w], ix[w])]]
    /\ GoTo(w, "writeBranch", ix[w])
    /\ UNCHANGED <<money, locks, job, read, outcome>>

WriteBranch(w) ==
    LET c == call[w]
    IN  /\ pc[w] = "writeBranch"
        /\ branchBalance' = [branchBalance EXCEPT ![LegBranch(c, ix[w])] =
                                reg[w] + LegAmount(c, ix[w])]
        /\ AfterLeg(w)
        /\ UNCHANGED <<balance, locks, job, reg, read, outcome>>

UnlockBranch(w) ==
    LET c == call[w]
    IN  /\ pc[w] = "unlockBranch"
        /\ branchLock' = [branchLock EXCEPT ![LegBranch(c, ix[w])] = NoOwner]
        /\ IF ix[w] < NumLegs(c) THEN GoTo(w, "unlockBranch", ix[w] + 1)
                                 ELSE GoTo(w, "unlockAccount", 1)
        /\ UNCHANGED <<money, acctLock, job, reg, read, outcome>>

UnlockAccount(w) ==
    LET c == call[w]
    IN  /\ pc[w] = "unlockAccount"
        /\ acctLock' = [acctLock EXCEPT ![AccountToUnlock(c, ix[w])] = NoOwner]
        /\ IF ix[w] < NumLegs(c)
           THEN GoTo(w, "unlockAccount", ix[w] + 1) /\ UNCHANGED outcome
           ELSE /\ GoTo(w, "idle", 1)
                /\ outcome' = [outcome EXCEPT ![w] = IF @ = "pending" THEN "success" ELSE @]
        /\ UNCHANGED <<money, branchLock, job, reg, read>>

-----------------------------------------------------------------------------
(***************************************************************************)
(* Branch_Balance reads without a lock.  Bank_Balance locks every branch,  *)
(* reads them in turn and unlocks them; read[w] holds the addends of the   *)
(* total that it returns.                                                  *)
(***************************************************************************)
ReadBranchBalance(w) ==
    LET b == GetBranchID(call[w].src)
    IN  /\ pc[w] = "branchBalance"
        /\ read' = [read EXCEPT ![w][b] = branchBalance[b]]
        /\ outcome' = [outcome EXCEPT ![w] = "success"]
        /\ GoTo(w, "idle", 1)
        /\ UNCHANGED <<money, locks, job, reg>>

\* Faulty: one round too many.
NextBranchTooFar(w, label, after) ==
    IF ix[w] + 1 <= NumBranches THEN GoTo(w, label, ix[w] + 1)
                                ELSE GoTo(w, after, IF after = "idle" THEN 1 ELSE 0)

\* The next round of one of the loops over the branches, or what follows it.
NextBranch(w, label, after) ==
    IF ix[w] + 1 < NumBranches THEN GoTo(w, label, ix[w] + 1)
                               ELSE GoTo(w, after, IF after = "idle" THEN 1 ELSE 0)

\* Faulty: Bank_Balance does not wait for the tellers.
LockNextBranchAnyway(w) ==
    /\ pc[w] = "lockAll"
    /\ branchLock' = [branchLock EXCEPT ![ix[w]] = w]
    /\ NextBranch(w, "lockAll", "sum")
    /\ UNCHANGED <<money, acctLock, job, reg, read, outcome>>

LockNextBranch(w) ==
    /\ pc[w] = "lockAll"
    /\ branchLock[ix[w]] = NoOwner
    /\ branchLock' = [branchLock EXCEPT ![ix[w]] = w]
    /\ NextBranch(w, "lockAll", "sum")
    /\ UNCHANGED <<money, acctLock, job, reg, read, outcome>>

AddNextBranch(w) ==
    /\ pc[w] = "sum"
    /\ read' = [read EXCEPT ![w][ix[w]] = branchBalance[ix[w]]]
    /\ NextBranch(w, "sum", "unlockAll")
    /\ UNCHANGED <<money, locks, job, reg, outcome>>

UnlockNextBranch(w) ==
    /\ pc[w] = "unlockAll"
    /\ branchLock' = [branchLock EXCEPT ![ix[w]] = NoOwner]
    /\ NextBranch(w, "unlockAll", "idle")
    /\ outcome' = [outcome EXCEPT ![w] = IF ix[w] + 1 < NumBranches THEN @ ELSE "success"]
    /\ UNCHANGED <<money, acctLock, job, reg, read>>

-----------------------------------------------------------------------------
Step(w) ==
    \/ \E c \in Calls : GetNext(w, c)
    \/ Done(w)
    \/ ReturnAtOnce(w)
    \/ LockAccount(w)
    \/ LockBranch(w)
    \/ FundsSuffice(w)
    \/ FundsInsufficient(w)
    \/ ReadAccount(w)
    \/ WriteAccount(w)
    \/ ReadBranch(w)
    \/ WriteBranch(w)
    \/ UnlockBranch(w)
    \/ UnlockAccount(w)
    \/ ReadBranchBalance(w)
    \/ LockNextBranch(w)
    \/ AddNextBranch(w)
    \/ UnlockNextBranch(w)

AllDone == \A w \in Workers : pc[w] = "done"

\* pthread_join has returned for every worker.
Finished == AllDone /\ UNCHANGED vars

Next == Finished \/ \E w \in Workers : Step(w)

Spec == Init /\ [][Next]_vars

\* The operating system runs every thread that can run.
FairSpec == Spec /\ \A w \in Workers : WF_vars(Step(w))

-----------------------------------------------------------------------------
(***************************************************************************)
(* The locks that a worker holds, as its place in the code determines them *)
(***************************************************************************)
Moving == {"readAccount", "writeAccount", "readBranch", "writeBranch"}

Legs(c) == 1 .. NumLegs(c)

\* Where a command holds the locks of all its accounts.
Middle == Moving \cup {"checkFunds", "lockBranch", "unlockBranch"}

\* Command c, in round r of label l, holds the lock of account a.
HoldsAccount(l, r, c, a) ==
    \E i \in Legs(c) :
       \/ l = "lockAccount" /\ i < r /\ a = AccountToLock(c, i)
       \/ l = "unlockAccount" /\ i >= r /\ a = AccountToUnlock(c, i)
       \/ l \in Middle /\ a = LegAccount(c, i)

\* It holds the lock of branch b.
HoldsBranch(l, r, c, b) ==
    \/ \E i \in Legs(c) :
          \/ l = "lockBranch" /\ i < r /\ b = BranchToLock(c, i)
          \/ l = "unlockBranch" /\ i >= r /\ b = LegBranch(c, i)
          \/ /\ \/ l = "checkFunds" /\ c.kind = "withdraw"
                \/ l \in Moving /\ UpdatesBranch(c)
             /\ b = LegBranch(c, i)
    \/ l = "lockAll" /\ b < r
    \/ l = "sum"
    \/ l = "unlockAll" /\ b >= r

\* A mutex is owned by exactly the worker whose place in the code says so: on
\* no path, the error returns included, is one kept, lost or released twice.
AccountsHeld ==
    \A w \in Workers, a \in Accounts :
       acctLock[a] = w <=> HoldsAccount(pc[w], ix[w], call[w], a)

BranchesHeld ==
    \A w \in Workers, b \in Branches :
       branchLock[b] = w <=> HoldsBranch(pc[w], ix[w], call[w], b)

HeldLocks == AccountsHeld /\ BranchesHeld

\* The order that discussion.txt asks for: accounts before branches, each in
\* ascending order.  A worker that waits for a mutex holds only smaller ones,
\* so the workers cannot wait in a circle.
LocksAscend ==
    \A w \in Workers :
       /\ pc[w] = "lockAccount" =>
             /\ \A b \in Branches : branchLock[b] # w
             /\ \A a \in Accounts : acctLock[a] = w => AcctLess(a, AccountToLock(call[w], ix[w]))
       /\ pc[w] = "lockBranch" =>
             \A b \in Branches : branchLock[b] = w => b < BranchToLock(call[w], ix[w])
       /\ pc[w] = "lockAll" =>
             \A b \in Branches : branchLock[b] = w => b < ix[w]

-----------------------------------------------------------------------------
(***************************************************************************)
(* The rest of the inductive invariant                                     *)
(***************************************************************************)
TellerLabels == Middle \cup {"lockAccount", "unlockAccount"}

\* A worker is only where its command can take it.
Control(w) ==
    /\ pc[w] \in TellerLabels =>
          /\ call[w].kind \in {"deposit", "withdraw", "transfer"}
          /\ ~NothingToDo(call[w])
          /\ ix[w] \in Legs(call[w])
    /\ pc[w] = "checkFunds" => ChecksFunds(call[w]) /\ ix[w] = 1
    /\ pc[w] \in {"lockBranch", "readBranch", "writeBranch", "unlockBranch"} =>
          UpdatesBranch(call[w])
    /\ pc[w] = "return" => NothingToDo(call[w])
    /\ pc[w] = "branchBalance" => call[w].kind = "branchBalance"
    /\ pc[w] \in {"lockAll", "sum", "unlockAll"} => call[w].kind = "bankBalance"
    /\ pc[w] \in {"idle", "done"} => outcome[w] # "pending"
    /\ pc[w] \in {"unlockBranch", "unlockAccount"} => outcome[w] # "success"
    /\ pc[w] \notin {"idle", "done", "unlockBranch", "unlockAccount"} => outcome[w] = "pending"

\* What Account_Adjust and Branch_UpdateBalance read is still there when they write.
Fresh(w) ==
    /\ pc[w] = "writeAccount" => reg[w] = balance[LegAccount(call[w], ix[w])]
    /\ pc[w] = "writeBranch" => reg[w] = branchBalance[LegBranch(call[w], ix[w])]

\* The money that the check found is still there when it is taken.
Reserved(w) ==
    (/\ ChecksFunds(call[w])
     /\ \/ pc[w] = "lockBranch" /\ call[w].kind = "transfer"
        \/ pc[w] \in {"readAccount", "writeAccount"} /\ ix[w] = 1) => HasFunds(w)

TellerInv ==
    /\ TypeOK
    /\ HeldLocks
    /\ \A w \in Workers : Control(w) /\ Fresh(w) /\ Reserved(w)

-----------------------------------------------------------------------------
(***************************************************************************)
(* Properties of the sums of the balances                                  *)
(***************************************************************************)
AccountsOf(b) == {a \in Accounts : GetBranchID(a) = b}

\* Branch_Validate finds no mismatch in a branch that no command is working
\* on: the branch balance is the sum of the balances of its accounts.
BooksBalance ==
    \A b \in Branches :
       (branchLock[b] = NoOwner /\ \A a \in AccountsOf(b) : acctLock[a] = NoOwner) =>
          branchBalance[b] = SumFunctionOnSet(balance, AccountsOf(b))

\* No command moves money in or out of the bank (the -f switch of test 7).
NoFundsFlow == \A c \in Calls : c.kind \in {"deposit", "withdraw"} => c.amt = 0

\* bankdriver.c, test 7: then every Bank_Balance returns the balance that the
\* bank opened with.
FixedBankBalance ==
    \A w \in Workers :
       (pc[w] = "idle" /\ cmdCount[w] < MaxCommands /\ call[w].kind = "bankBalance") =>
          SumFunction(read[w]) = NumBranches * OpeningBranchBalance

-----------------------------------------------------------------------------
(***************************************************************************)
(* Properties of the money                                                 *)
(***************************************************************************)
\* No command takes more than the account holds, whatever the other workers
\* do between its check and its withdrawal (discussion.txt, question 3).
NeverOverdrawn ==
    [][\A a \in Accounts : balance'[a] < balance[a] => balance'[a] >= 0]_vars

(***************************************************************************)
(* Every command is atomic: Teller implements AtomicBank.  A command takes *)
(* effect when it writes its first account.  Until it has written the      *)
(* others, they are locked by it and what it owes them is pending.         *)
(***************************************************************************)
TookEffect(w) ==
    \/ pc[w] \in {"readBranch", "writeBranch"}
    \/ pc[w] \in {"readAccount", "writeAccount"} /\ ix[w] = 2
    \/ pc[w] \in {"unlockBranch", "unlockAccount"} /\ outcome[w] = "pending"
    \/ pc[w] \in {"sum", "unlockAll"}

OwesAccount(w) ==
    /\ call[w].kind = "transfer"
    /\ \/ pc[w] \in {"readBranch", "writeBranch"} /\ ix[w] = 1
       \/ pc[w] \in {"readAccount", "writeAccount"} /\ ix[w] = 2

OwesBranch(w, i) ==
    /\ UpdatesBranch(call[w])
    /\ i \in Legs(call[w])
    /\ \/ pc[w] \in {"readBranch", "writeBranch"} /\ ix[w] <= i
       \/ pc[w] \in {"readAccount", "writeAccount"} /\ ix[w] = 2 /\ i = 2

\* What the owner of the lock of account a still has to add to it.
PendingAccount(a) ==
    LET w == acctLock[a]
    IN  IF w # NoOwner /\ OwesAccount(w) /\ a = call[w].dst THEN call[w].amt ELSE 0

PendingBranch(b) ==
    LET w == branchLock[b]
    IN  CASE w # NoOwner /\ OwesBranch(w, 1) /\ b = LegBranch(call[w], 1) -> LegAmount(call[w], 1)
          [] w # NoOwner /\ OwesBranch(w, 2) /\ b = LegBranch(call[w], 2) -> LegAmount(call[w], 2)
          [] OTHER -> 0

AtomicBalance == [a \in Accounts |-> balance[a] + PendingAccount(a)]

AtomicBranchTotal == [b \in Branches |-> branchBalance[b] + PendingBranch(b)]

\* While Bank_Balance adds up, its answer is already determined.
AtomicRead ==
    [w \in Workers |-> [b \in Branches |->
        IF pc[w] = "sum" /\ b >= ix[w] THEN branchBalance[b] ELSE read[w][b]]]

AtomicOutcome ==
    [w \in Workers |-> IF TookEffect(w) THEN "success" ELSE outcome[w]]

Atomic == INSTANCE AtomicBank
             WITH balance     <- AtomicBalance,
                  branchTotal <- AtomicBranchTotal,
                  visible     <- branchBalance,
                  read        <- AtomicRead,
                  outcome     <- AtomicOutcome

\* Every execution of the workers is one of the atomic bank.
CommandsAreAtomic == Atomic!Spec

\* Every worker executes all its commands and exits: no command waits forever.
EveryWorkerFinishes == <>AllDone
=============================================================================
