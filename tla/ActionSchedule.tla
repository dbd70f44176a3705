--------------------------- MODULE ActionSchedule ---------------------------
(***************************************************************************)
(* The command generator, action.c, as bankdriver.c uses it: the workers   *)
(* draw their commands at the same time; when all are done, TestBank sets  *)
(* the generator up again and lets one worker alone draw them, and then    *)
(* compares the two banks.  That comparison makes sense only if the one    *)
(* worker draws the commands that the many have drawn, on the same days.   *)
(***************************************************************************)
EXTENDS BankData, Sequences

CONSTANTS
    NumWorkers,
    MaxWorkers,       \* MAX_WORKERS
    NumCommands,
    MaxTransaction,   \* amountMax
    RandR(_, _)       \* the p-th number that rand_r makes of a seed

Slots == 0 .. (MaxWorkers - 1)

\* The flags of action.h.
Flags == {"noBankBalance", "noCrossTransfer", "noFundsFlow"}

\* The most draws for one command: a selector, four numbers, an amount of three.
MaxDraws == 8

\* main accepts 1, 2, 4, 8 and 16 workers, MAX_WORKERS is 16, and CreateBank
\* asks for 4096 or more commands, always a power of two.
ASSUME ScheduleAssumption ==
    /\ NumWorkers \in Nat \ {0}
    /\ MaxWorkers \in Nat \ {0}
    /\ \E k \in 1 .. MaxWorkers : MaxWorkers = NumWorkers * k
    /\ NumCommands \in Nat
    /\ \E c \in 1 .. NumCommands : NumCommands = 4 * (NumWorkers * c)
    /\ Workers = 0 .. (NumWorkers - 1)
    /\ MaxTransaction \in Nat \ {0}

\* A number that rand_r returns is not negative.
ASSUME RandAssumption ==
    \A s \in Slots : \A p \in 0 .. (MaxDraws * NumCommands) : RandR(s, p) \in Nat

VARIABLES
    numWorkers,      \* the argument of Action_Init: NumWorkers, and then 1
    actionControl,
    cmdsPerReportPerWorker,
    cmdCount, nextReport, nextSeed, seedList,  \* workerState
    seed,            \* how often each seed of workerState has been drawn from
    pc,
    draws,           \* the numbers that Action_GetNext has drawn for its command
    reports,         \* how many reports a worker has been asked for
    issued,          \* the commands that a worker got, each with its day
    issuedBefore     \* issued, of the workers that ran at the same time

plan  == <<numWorkers, actionControl, cmdsPerReportPerWorker, seedList>>
vars  == <<plan, cmdCount, nextReport, nextSeed, seed, pc, draws, reports,
           issued, issuedBefore>>

TypeOK ==
    /\ numWorkers \in {1, NumWorkers}
    /\ actionControl \subseteq Flags
    /\ cmdsPerReportPerWorker \in Nat \ {0}
    /\ cmdCount \in [Slots -> Nat]
    /\ nextReport \in [Slots -> Nat]
    /\ nextSeed \in [Slots -> Nat]
    /\ seedList \in [Slots -> [Slots -> Slots]]
    /\ seed \in [Slots -> Nat]
    /\ pc \in [Slots -> {"ask", "draw", "done"}]
    /\ draws \in [Slots -> Seq(Nat)]
    /\ reports \in [Slots -> Nat]
    /\ issued \in [Slots -> Seq([call : CallSet, day : Nat])]
    /\ issuedBefore \in [Slots -> Seq([call : CallSet, day : Nat])]

(***************************************************************************)
(* Action_Init                                                             *)
(***************************************************************************)
\* Faulty: each worker starts at its own seed and then takes all of them.
SharedSeedList(n) == [w \in Slots |-> [i \in Slots |-> (w + i) % MaxWorkers]]

\* Worker w takes every n-th seed.
SeedList(n) == [w \in Slots |-> [i \in Slots |-> (w + i * n) % MaxWorkers]]

\* What a worker is to do.
PerWorker(n) == NumCommands \div n

\* Faulty: the day of one worker is as long as the day of all of them.
PerDayOfAll(n) == NumCommands \div 4

\* What a worker is to do on a day: a report is due after a fourth of it all.
PerDay(n) == (NumCommands \div 4) \div n

\* The workers for which the loop of Action_Init is executed.
Planned(n) == {w \in Slots : w < n /\ (w = 0 \/ NumCommands > w * PerWorker(n))}

\* CreateBank: the flags that a test sets; balances is the -b switch.
Control(test, balances) ==
    {f \in Flags :
        \/ f = "noBankBalance" /\ test \in {3, 5, 6}
        \/ f = "noCrossTransfer" /\ test \in {5, 6}
        \/ f = "noFundsFlow" /\ (balances \/ test = 7)}

NoWork == [w \in Slots |-> 0]

Init ==
    /\ numWorkers = NumWorkers
    /\ \E test \in 1 .. 7, balances \in BOOLEAN : actionControl = Control(test, balances)
    /\ cmdsPerReportPerWorker = PerDay(NumWorkers)
    /\ cmdCount = [w \in Slots |-> IF w \in Planned(NumWorkers)
                                   THEN PerWorker(NumWorkers) ELSE 0]
    /\ nextReport = [w \in Slots |-> IF w \in Planned(NumWorkers)
                                     THEN PerWorker(NumWorkers) - PerDay(NumWorkers) ELSE 0]
    /\ nextSeed = NoWork
    /\ seedList = SeedList(NumWorkers)
    /\ seed = NoWork
    /\ pc = [w \in Slots |-> "ask"]
    /\ draws = [w \in Slots |-> <<>>]
    /\ reports = NoWork
    /\ issued = [w \in Slots |-> <<>>]
    /\ issuedBefore = [w \in Slots |-> <<>>]

\* The threads of the bank that is being run.
Running == 0 .. (numWorkers - 1)

AllDone == \A w \in Running : pc[w] = "done"

\* The second run, of TestBank.
Alone == issuedBefore[0] # <<>>

\* TestBank: the bank of one worker, after pthread_join.
TestBank ==
    /\ AllDone
    /\ ~Alone
    /\ numWorkers' = 1
    /\ cmdsPerReportPerWorker' = PerDay(1)
    /\ cmdCount' = [w \in Slots |-> IF w \in Planned(1) THEN PerWorker(1) ELSE cmdCount[w]]
    /\ nextReport' = [w \in Slots |-> IF w \in Planned(1)
                                      THEN PerWorker(1) - PerDay(1) ELSE nextReport[w]]
    /\ nextSeed' = NoWork
    /\ seedList' = SeedList(1)
    /\ seed' = NoWork
    /\ pc' = [pc EXCEPT ![0] = "ask"]
    /\ reports' = NoWork
    /\ issued' = [w \in Slots |-> <<>>]
    /\ issuedBefore' = issued
    /\ UNCHANGED <<actionControl, draws>>

-----------------------------------------------------------------------------
(***************************************************************************)
(* Action_GetNext                                                          *)
(***************************************************************************)
Done(w) ==
    /\ pc[w] = "ask"
    /\ cmdCount[w] <= 0
    /\ pc' = [pc EXCEPT ![w] = "done"]
    /\ UNCHANGED <<plan, cmdCount, nextReport, nextSeed, seed, draws, reports,
                   issued, issuedBefore>>

\* Faulty: asks for a report also when nothing is left to do.
ReportAlways(w) ==
    /\ pc[w] = "ask"
    /\ cmdCount[w] = nextReport[w]
    /\ nextReport' = [nextReport EXCEPT ![w] = @ - cmdsPerReportPerWorker]
    /\ reports' = [reports EXCEPT ![w] = @ + 1]
    /\ UNCHANGED <<plan, cmdCount, nextSeed, seed, pc, draws, issued, issuedBefore>>

AskReport(w) ==
    /\ pc[w] = "ask"
    /\ cmdCount[w] > 0
    /\ cmdCount[w] = nextReport[w]
    /\ nextReport' = [nextReport EXCEPT ![w] = @ - cmdsPerReportPerWorker]
    /\ reports' = [reports EXCEPT ![w] = @ + 1]
    /\ UNCHANGED <<plan, cmdCount, nextSeed, seed, pc, draws, issued, issuedBefore>>

BeginCommand(w) ==
    /\ pc[w] = "ask"
    /\ cmdCount[w] > 0
    /\ cmdCount[w] # nextReport[w]
    /\ cmdCount' = [cmdCount EXCEPT ![w] = @ - 1]
    /\ draws' = [draws EXCEPT ![w] = <<>>]
    /\ pc' = [pc EXCEPT ![w] = "draw"]
    /\ UNCHANGED <<plan, nextReport, nextSeed, seed, reports, issued, issuedBefore>>

\* The seed that GetRandom uses for w.
SeedOf(w) == seedList[w][nextSeed[w] % MaxWorkers]

\* GetRandom(workerNum, 0, 0) & 0x7
Sel(d) == d[1] % 8

\* How many numbers the command that begins with d takes.
DrawsNeeded(d) ==
    CASE d = <<>> -> 1
      [] d # <<>> /\ Sel(d) \in {0, 1, 2} -> 6
      [] d # <<>> /\ Sel(d) \in {3, 4, 5} -> 8
      [] d # <<>> /\ Sel(d) = 6 -> 2
      [] d # <<>> /\ Sel(d) = 7 -> IF "noBankBalance" \in actionControl THEN 2 ELSE 1

\* rand_r reads and writes the seed without a lock.
Draw(w) ==
    /\ pc[w] = "draw"
    /\ Len(draws[w]) < DrawsNeeded(draws[w])
    /\ draws' = [draws EXCEPT ![w] = Append(@, RandR(SeedOf(w), seed[SeedOf(w)]))]
    /\ seed' = [seed EXCEPT ![SeedOf(w)] = @ + 1]
    /\ UNCHANGED <<plan, cmdCount, nextReport, nextSeed, pc, reports, issued, issuedBefore>>

\* GetRandom(workerNum, 1, amountMax) with the three numbers from d[i] on.
Bell(d, i) ==
    ((d[i] % MaxTransaction) + (d[i + 1] % MaxTransaction) + (d[i + 2] % MaxTransaction)) \div 3

BranchOf(x) == x % NumBranches

\* Faulty: divides by the number of all accounts.
AccountAnywhere(branch, x) == <<BranchOf(branch), x % (NumBranches * AcctsPerBranch)>>

AccountOf(branch, x) == <<BranchOf(branch), x % AcctsPerBranch>>

\* An account whose failures -f is to test.
TestsFailure(a) == TestFailureCode /\ Subaccount(a) % 4 = 0

\* Faulty: moves money although no funds may flow.
OneAccountFlowing(d) ==
    LET a == AccountOf(d[3], d[2])
    IN  [kind |-> IF Sel(d) = 0 THEN "withdraw" ELSE "deposit",
         src |-> a, dst |-> a, amt |-> IF Sel(d) # 0 /\ TestsFailure(a) THEN 0 ELSE Bell(d, 4)]

OneAccount(d) ==
    LET a    == AccountOf(d[3], d[2])
        zero == "noFundsFlow" \in actionControl \/ (Sel(d) # 0 /\ TestsFailure(a))
    IN  [kind |-> IF Sel(d) = 0 THEN "withdraw" ELSE "deposit",
         src |-> a, dst |-> a, amt |-> IF zero THEN 0 ELSE Bell(d, 4)]

\* Faulty: transfers money to an account that is to stay overdrawn.
TwoAccountsFunding(d) ==
    LET within == Sel(d) = 5 \/ "noCrossTransfer" \in actionControl
        dst    == AccountOf(IF within THEN d[3] ELSE d[4], d[5])
    IN  [kind |-> "transfer", src |-> AccountOf(d[3], d[2]), dst |-> dst, amt |-> Bell(d, 6)]

TwoAccounts(d) ==
    LET within == Sel(d) = 5 \/ "noCrossTransfer" \in actionControl
        dst    == AccountOf(IF within THEN d[3] ELSE d[4], d[5])
    IN  [kind |-> "transfer", src |-> AccountOf(d[3], d[2]), dst |-> dst,
         amt |-> IF TestsFailure(dst) THEN 0 ELSE Bell(d, 6)]

OneBranch(d) ==
    LET a == <<BranchOf(d[2]), 0>>
    IN  [kind |-> "branchBalance", src |-> a, dst |-> a, amt |-> 0]

\* The command that a complete sequence of draws stands for.
Command(d) ==
    CASE Sel(d) \in {0, 1, 2} -> OneAccount(d)
      [] Sel(d) \in {3, 4, 5} -> TwoAccounts(d)
      [] Sel(d) \in {6, 7} -> IF Len(d) = 2 THEN OneBranch(d) ELSE NoCall

\* Faulty: the next command is drawn from the same seed.
HandOutOnly(w) ==
    /\ pc[w] = "draw"
    /\ Len(draws[w]) = DrawsNeeded(draws[w])
    /\ issued' = [issued EXCEPT ![w] = Append(@, [call |-> Command(draws[w]),
                                                  day |-> reports[w]])]
    /\ pc' = [pc EXCEPT ![w] = "ask"]
    /\ UNCHANGED <<plan, cmdCount, nextReport, nextSeed, seed, draws, reports, issuedBefore>>

HandOut(w) ==
    /\ pc[w] = "draw"
    /\ Len(draws[w]) = DrawsNeeded(draws[w])
    /\ issued' = [issued EXCEPT ![w] = Append(@, [call |-> Command(draws[w]),
                                                  day |-> reports[w]])]
    /\ nextSeed' = [nextSeed EXCEPT ![w] = @ + 1]
    /\ pc' = [pc EXCEPT ![w] = "ask"]
    /\ UNCHANGED <<plan, cmdCount, nextReport, seed, draws, reports, issuedBefore>>

-----------------------------------------------------------------------------
Step(w) == Done(w) \/ AskReport(w) \/ BeginCommand(w) \/ Draw(w) \/ HandOut(w)

Finished == AllDone /\ Alone /\ UNCHANGED vars

\* The barrier of the nightly reports would only remove interleavings.
Next == TestBank \/ Finished \/ \E w \in Running : Step(w)

Spec == Init /\ [][Next]_vars

-----------------------------------------------------------------------------
(***************************************************************************)
(* Properties                                                              *)
(***************************************************************************)
\* Two workers never draw from one seed at the same time: rand_r has no lock.
NoSharedSeed ==
    \A v, w \in Running :
       (v # w /\ pc[v] = "draw" /\ pc[w] = "draw") => SeedOf(v) # SeedOf(w)

\* Every worker is asked for three reports, so that the workers meet in
\* Report_DoReport every night: the count that closes a day skips no test for
\* equality, and no report follows the last command.
ThreeReports == \A w \in Running : pc[w] = "done" => reports[w] = 3

\* The number g command of the lone worker, as one of the many workers got it.
Before(g) == issuedBefore[(g - 1) % NumWorkers][((g - 1) \div NumWorkers) + 1]

\* The lone worker gets the commands that the workers have got together, in
\* turns, whatever the order in which they drew them.
SameCommands ==
    Alone =>
       /\ \A g \in 1 .. Len(issued[0]) : issued[0][g].call = Before(g).call
       /\ AllDone => \A w \in Workers : NumWorkers * Len(issuedBefore[w]) = Len(issued[0])

\* A command belongs to the same day in both runs, so the reports can be compared.
SameDays ==
    Alone => \A g \in 1 .. Len(issued[0]) : issued[0][g].day = Before(g).day
=============================================================================
