------------------------------- MODULE Report -------------------------------
(***************************************************************************)
(* The nightly report: report.c, with the part of the dispatch loop in     *)
(* bankdriver.c that calls it.  The workers log the transfers of the day;  *)
(* whoever finishes the day last writes the report, the others wait for it *)
(* on a semaphore.  The commands of the tellers are single steps here:     *)
(* module Teller says why they may be.                                     *)
(***************************************************************************)
EXTENDS Integers, Sequences, FiniteSets, Functions

CONSTANTS
    Workers,
    NumWorkers,       \* bank->num_workers
    NoOwner,          \* the owner of a free mutex
    NumDays,          \* how many reports Action_GetNext asks each worker for
    Schedule,         \* the commands of each worker on each day
    MaxReports,       \* MAX_NUM_REPORTS
    MaxEntries,       \* MAX_LOG_ENTRIES
    ReportingAmount,  \* reportingAmount
    AccountNumbers,
    NoEntry           \* what malloc leaves in the log

\* What a command has Worker pass to Report_Transfer.
Entries == [acct : AccountNumbers, amt : Int]

\* flow is what a command adds to the balance of the bank.
Commands == [flow : Int, log : Seq(Entries) \ {<<>>}]

\* After the last report there may be commands left.
Days == 1 .. (NumDays + 1)

ASSUME ReportAssumption ==
    /\ NoOwner \notin Workers
    /\ NumWorkers \in Nat \ {0}
    /\ NumDays \in Nat
    /\ Schedule \in [Workers -> [Days -> Seq(Commands)]]
    /\ MaxReports \in Nat
    /\ MaxEntries \in Nat
    /\ ReportingAmount \in Int
    /\ NoEntry \notin Entries

\* bank->num_workers counts the threads that bankdriver.c starts.
ASSUME WorkersAssumption == IsFiniteSet(Workers) /\ Cardinality(Workers) = NumWorkers

VARIABLES
    bankBalance,                             \* what Bank_Balance returns
    numReports, reportBalance, hasOverflowed, numLogEntries, transferLog,
    counter, startingNew,                    \* bank->counter, bank->starting_new
    reportLock, transferLock, compareLock,   \* the owners of the mutexes
    pc,
    day, pos, leg,   \* the day, command and log entry that a worker is at
    rep, num         \* the local variables: a report index, and a number

log    == <<hasOverflowed, numLogEntries, transferLog>>
report == <<numReports, reportBalance, log>>
night  == <<counter, startingNew>>
locks  == <<reportLock, transferLock, compareLock>>
place  == <<day, pos, leg>>
local  == <<rep, num>>
vars   == <<bankBalance, report, night, locks, pc, place, local>>

Reports == 0 .. (MaxReports - 1)
Slots == 0 .. (MaxEntries - 1)

Labels == {"work", "lockTransfer", "lockLog", "record", "append", "unlockTransfer",
           "unlockLog", "lockReport", "lockToClose", "test", "close", "bump",
           "unlockToPost", "post", "resetCounter", "decrement",
           "unlockToWait", "leaveReport", "wait", "done"}

TypeOK ==
    /\ bankBalance \in Int
    /\ numReports \in 0 .. MaxReports
    /\ reportBalance \in [Reports -> Int]
    /\ hasOverflowed \in [Reports -> BOOLEAN]
    /\ numLogEntries \in [Reports -> 0 .. MaxEntries]
    /\ transferLog \in [Reports -> [Slots -> Entries \cup {NoEntry}]]
    /\ counter \in 1 .. NumWorkers
    /\ startingNew \in Nat
    /\ reportLock \in Workers \cup {NoOwner}
    /\ transferLock \in Workers \cup {NoOwner}
    /\ compareLock \in Workers \cup {NoOwner}
    /\ pc \in [Workers -> Labels]
    /\ day \in [Workers -> Days]
    /\ pos \in [Workers -> Nat \ {0}]
    /\ leg \in [Workers -> Nat \ {0}]
    /\ rep \in [Workers -> Nat]
    /\ num \in [Workers -> Int]

\* Bank_Init and Report_Init
Init ==
    /\ bankBalance = 0
    /\ numReports = 0
    /\ reportBalance = [r \in Reports |-> 0]
    /\ hasOverflowed = [r \in Reports |-> FALSE]
    /\ numLogEntries = [r \in Reports |-> 0]
    /\ transferLog = [r \in Reports |-> [s \in Slots |-> NoEntry]]
    /\ counter = NumWorkers
    /\ startingNew = 0
    /\ reportLock = NoOwner
    /\ transferLock = NoOwner
    /\ compareLock = NoOwner
    /\ pc = [w \in Workers |-> "work"]
    /\ day = [w \in Workers |-> 1]
    /\ pos = [w \in Workers |-> 1]
    /\ leg = [w \in Workers |-> 1]
    /\ rep = [w \in Workers |-> 0]
    /\ num = [w \in Workers |-> 0]

-----------------------------------------------------------------------------
Goto(w, label) == pc' = [pc EXCEPT ![w] = label]

Today(w) == Schedule[w][day[w]]

\* The entry that w is reporting.
Entry(w) == Today(w)[pos[w]].log[leg[w]]

\* Teller_DoDeposit, Teller_DoWithdraw or Teller_DoTransfer, successful.
DoCommand(w) ==
    /\ pc[w] = "work"
    /\ pos[w] <= Len(Today(w))
    /\ bankBalance' = bankBalance + Today(w)[pos[w]].flow
    /\ Goto(w, "lockTransfer")
    /\ UNCHANGED <<report, night, locks, place, local>>

\* ACTION_REPORT
EndOfDay(w) ==
    /\ pc[w] = "work"
    /\ pos[w] > Len(Today(w))
    /\ day[w] <= NumDays
    /\ Goto(w, "lockReport")
    /\ UNCHANGED <<bankBalance, report, night, locks, place, local>>

\* ACTION_DONE
Done(w) ==
    /\ pc[w] = "work"
    /\ pos[w] > Len(Today(w))
    /\ day[w] > NumDays
    /\ Goto(w, "done")
    /\ UNCHANGED <<bankBalance, report, night, locks, place, local>>

NextDay(w) ==
    /\ day' = [day EXCEPT ![w] = @ + 1]
    /\ pos' = [pos EXCEPT ![w] = 1]
    /\ UNCHANGED leg
    /\ Goto(w, "work")

-----------------------------------------------------------------------------
(***************************************************************************)
(* Report_Transfer                                                         *)
(***************************************************************************)
LockTransfer(w) ==
    /\ pc[w] = "lockTransfer"
    /\ transferLock = NoOwner
    /\ transferLock' = w
    /\ Goto(w, "lockLog")
    /\ UNCHANGED <<bankBalance, report, night, reportLock, compareLock, place, local>>

\* Faulty: the log is not locked against the report that is being closed.
LockLogAnyway(w) ==
    /\ pc[w] = "lockLog"
    /\ compareLock' = w
    /\ Goto(w, "record")
    /\ UNCHANGED <<bankBalance, report, night, reportLock, transferLock, place, local>>

LockLog(w) ==
    /\ pc[w] = "lockLog"
    /\ compareLock = NoOwner
    /\ compareLock' = w
    /\ Goto(w, "record")
    /\ UNCHANGED <<bankBalance, report, night, reportLock, transferLock, place, local>>

\* amountAbs >= reportingAmount
Reportable(e) == (IF e.amt < 0 THEN -e.amt ELSE e.amt) >= ReportingAmount

\* The transfer is too small, or the storage for reports is used up.
SkipRecord(w) ==
    /\ pc[w] = "record"
    /\ ~Reportable(Entry(w)) \/ numReports >= MaxReports
    /\ Goto(w, "unlockTransfer")
    /\ UNCHANGED <<bankBalance, report, night, locks, place, local>>

\* Faulty: gives the last slot away.
OverflowEarly(w) ==
    /\ pc[w] = "record"
    /\ Reportable(Entry(w)) /\ numReports < MaxReports
    /\ numLogEntries[numReports] + 1 >= MaxEntries
    /\ hasOverflowed' = [hasOverflowed EXCEPT ![numReports] = TRUE]
    /\ Goto(w, "unlockTransfer")
    /\ UNCHANGED <<bankBalance, numReports, reportBalance, numLogEntries, transferLog,
                   night, locks, place, local>>

Overflow(w) ==
    /\ pc[w] = "record"
    /\ Reportable(Entry(w)) /\ numReports < MaxReports
    /\ numLogEntries[numReports] >= MaxEntries
    /\ hasOverflowed' = [hasOverflowed EXCEPT ![numReports] = TRUE]
    /\ Goto(w, "unlockTransfer")
    /\ UNCHANGED <<bankBalance, numReports, reportBalance, numLogEntries, transferLog,
                   night, locks, place, local>>

\* r = numReports, ent = numLogEntries: both are used after they are read.
FindSlot(w) ==
    /\ pc[w] = "record"
    /\ Reportable(Entry(w)) /\ numReports < MaxReports
    /\ numLogEntries[numReports] < MaxEntries
    /\ rep' = [rep EXCEPT ![w] = numReports]
    /\ num' = [num EXCEPT ![w] = numLogEntries[numReports]]
    /\ Goto(w, "append")
    /\ UNCHANGED <<bankBalance, report, night, locks, place>>

\* Faulty: the entry is stored and not counted.
AppendUncounted(w) ==
    /\ pc[w] = "append"
    /\ transferLog' = [transferLog EXCEPT ![rep[w]][num[w]] = Entry(w)]
    /\ Goto(w, "unlockTransfer")
    /\ UNCHANGED <<bankBalance, numReports, reportBalance, hasOverflowed, numLogEntries,
                   night, locks, place, local>>

AppendEntry(w) ==
    /\ pc[w] = "append"
    /\ transferLog' = [transferLog EXCEPT ![rep[w]][num[w]] = Entry(w)]
    /\ numLogEntries' = [numLogEntries EXCEPT ![rep[w]] = num[w] + 1]
    /\ Goto(w, "unlockTransfer")
    /\ UNCHANGED <<bankBalance, numReports, reportBalance, hasOverflowed,
                   night, locks, place, local>>

UnlockTransfer(w) ==
    /\ pc[w] = "unlockTransfer"
    /\ transferLock' = NoOwner
    /\ Goto(w, "unlockLog")
    /\ UNCHANGED <<bankBalance, report, night, reportLock, compareLock, place, local>>

\* Back to Worker: the second account of a transfer, or the next command.
UnlockLog(w) ==
    /\ pc[w] = "unlockLog"
    /\ compareLock' = NoOwner
    /\ IF leg[w] < Len(Today(w)[pos[w]].log)
       THEN /\ leg' = [leg EXCEPT ![w] = @ + 1]
            /\ Goto(w, "lockTransfer")
            /\ UNCHANGED pos
       ELSE /\ leg' = [leg EXCEPT ![w] = 1]
            /\ pos' = [pos EXCEPT ![w] = @ + 1]
            /\ Goto(w, "work")
    /\ UNCHANGED <<bankBalance, report, night, reportLock, transferLock, day, local>>

-----------------------------------------------------------------------------
(***************************************************************************)
(* Report_DoReport                                                         *)
(***************************************************************************)
LockReport(w) ==
    /\ pc[w] = "lockReport"
    /\ reportLock = NoOwner
    /\ reportLock' = w
    /\ Goto(w, "lockToClose")
    /\ UNCHANGED <<bankBalance, report, night, transferLock, compareLock, place, local>>

LockToClose(w) ==
    /\ pc[w] = "lockToClose"
    /\ compareLock = NoOwner
    /\ compareLock' = w
    /\ Goto(w, "test")
    /\ UNCHANGED <<bankBalance, report, night, reportLock, transferLock, place, local>>

\* Faulty: the last worker but one closes the day.
TestTooEarly(w) ==
    /\ pc[w] = "test"
    /\ num' = [num EXCEPT ![w] = counter]
    /\ Goto(w, IF counter <= 2 THEN "close" ELSE "decrement")
    /\ UNCHANGED <<bankBalance, report, night, locks, place, rep>>

\* if (bank->counter == 1)
Test(w) ==
    /\ pc[w] = "test"
    /\ num' = [num EXCEPT ![w] = counter]
    /\ Goto(w, IF counter = 1 THEN "close" ELSE "decrement")
    /\ UNCHANGED <<bankBalance, report, night, locks, place, rep>>

\* Faulty: writes past the last report.
CloseAnyway(w) ==
    /\ pc[w] = "close"
    /\ reportBalance' = [reportBalance EXCEPT ![numReports] = bankBalance]
    /\ rep' = [rep EXCEPT ![w] = numReports]
    /\ Goto(w, "bump")
    /\ UNCHANGED <<bankBalance, numReports, log, night, locks, place, num>>

\* Bank_Balance, and the read of oldNumReports.
Close(w) ==
    /\ pc[w] = "close"
    /\ numReports < MaxReports
    /\ reportBalance' = [reportBalance EXCEPT ![numReports] = bankBalance]
    /\ rep' = [rep EXCEPT ![w] = numReports]
    /\ Goto(w, "bump")
    /\ UNCHANGED <<bankBalance, numReports, log, night, locks, place, num>>

\* The storage for reports is used up: DoReport returns -1, which Worker masks.
Refuse(w) ==
    /\ pc[w] = "close"
    /\ numReports >= MaxReports
    /\ Goto(w, "unlockToPost")
    /\ UNCHANGED <<bankBalance, report, night, locks, place, local>>

Bump(w) ==
    /\ pc[w] = "bump"
    /\ numReports' = rep[w] + 1
    /\ Goto(w, "unlockToPost")
    /\ UNCHANGED <<bankBalance, reportBalance, log, night, locks, place, local>>

\* reset_day: num counts the posts that are left.
UnlockToPost(w) ==
    /\ pc[w] = "unlockToPost"
    /\ compareLock' = NoOwner
    /\ num' = [num EXCEPT ![w] = NumWorkers - 1]
    /\ Goto(w, "post")
    /\ UNCHANGED <<bankBalance, report, night, reportLock, transferLock, place, rep>>

\* Faulty: one worker is not released.
PostOneLess(w) ==
    /\ pc[w] = "post"
    /\ num[w] > 0
    /\ startingNew' = startingNew + (IF num[w] > 1 THEN 1 ELSE 0)
    /\ num' = [num EXCEPT ![w] = @ - 1]
    /\ UNCHANGED <<bankBalance, report, counter, locks, pc, place, rep>>

Post(w) ==
    /\ pc[w] = "post"
    /\ num[w] > 0
    /\ startingNew' = startingNew + 1
    /\ num' = [num EXCEPT ![w] = @ - 1]
    /\ UNCHANGED <<bankBalance, report, counter, locks, pc, place, rep>>

UnlockReport(w) ==
    /\ pc[w] = "post"
    /\ num[w] <= 0
    /\ reportLock' = NoOwner
    /\ Goto(w, "resetCounter")
    /\ UNCHANGED <<bankBalance, report, night, transferLock, compareLock, place, local>>

\* After report_lock is free again.
ResetCounter(w) ==
    /\ pc[w] = "resetCounter"
    /\ counter' = NumWorkers
    /\ NextDay(w)
    /\ UNCHANGED <<bankBalance, report, startingNew, locks, local>>

\* Faulty: the worker is not counted.
DecrementNot(w) ==
    /\ pc[w] = "decrement"
    /\ Goto(w, "unlockToWait")
    /\ UNCHANGED <<bankBalance, report, night, locks, place, local>>

\* bank->counter--.  Only report_lock protects the counter, and ResetCounter
\* does not hold it: the value that is decremented may be the one that Test
\* read or the one that is there now.
Decrement(w) ==
    /\ pc[w] = "decrement"
    /\ \E old \in {num[w], counter} : counter' = old - 1
    /\ Goto(w, "unlockToWait")
    /\ UNCHANGED <<bankBalance, report, startingNew, locks, place, local>>

UnlockToWait(w) ==
    /\ pc[w] = "unlockToWait"
    /\ compareLock' = NoOwner
    /\ Goto(w, "leaveReport")
    /\ UNCHANGED <<bankBalance, report, night, reportLock, transferLock, place, local>>

LeaveReport(w) ==
    /\ pc[w] = "leaveReport"
    /\ reportLock' = NoOwner
    /\ Goto(w, "wait")
    /\ UNCHANGED <<bankBalance, report, night, transferLock, compareLock, place, local>>

\* Faulty: does not wait.
WaitNot(w) ==
    /\ pc[w] = "wait"
    /\ NextDay(w)
    /\ UNCHANGED <<bankBalance, report, night, locks, local>>

\* sem_wait
Wait(w) ==
    /\ pc[w] = "wait"
    /\ startingNew > 0
    /\ startingNew' = startingNew - 1
    /\ NextDay(w)
    /\ UNCHANGED <<bankBalance, report, counter, locks, local>>

-----------------------------------------------------------------------------
Step(w) ==
    \/ DoCommand(w) \/ EndOfDay(w) \/ Done(w)
    \/ LockTransfer(w) \/ LockLog(w)
    \/ SkipRecord(w) \/ Overflow(w) \/ FindSlot(w) \/ AppendEntry(w)
    \/ UnlockTransfer(w) \/ UnlockLog(w)
    \/ LockReport(w) \/ LockToClose(w) \/ Test(w)
    \/ Close(w) \/ Refuse(w) \/ Bump(w) \/ UnlockToPost(w)
    \/ Post(w) \/ UnlockReport(w) \/ ResetCounter(w)
    \/ Decrement(w) \/ UnlockToWait(w) \/ LeaveReport(w) \/ Wait(w)

AllDone == \A w \in Workers : pc[w] = "done"

Finished == AllDone /\ UNCHANGED vars

Next == Finished \/ \E w \in Workers : Step(w)

Spec == Init /\ [][Next]_vars

\* The operating system runs every thread that can run.
FairSpec == Spec /\ \A w \in Workers : WF_vars(Step(w))

-----------------------------------------------------------------------------
(***************************************************************************)
(* Properties                                                              *)
(***************************************************************************)
\* Who holds which mutex, as the place in the code determines it.
HoldsTransfer(w) == pc[w] \in {"lockLog", "record", "append", "unlockTransfer"}

HoldsCompare(w) ==
    pc[w] \in {"record", "append", "unlockTransfer", "unlockLog",
               "test", "close", "bump", "unlockToPost", "decrement", "unlockToWait"}

HoldsReport(w) ==
    pc[w] \in {"lockToClose", "test", "close", "bump", "unlockToPost", "post",
               "decrement", "unlockToWait", "leaveReport"}

LocksHeld ==
    \A w \in Workers :
       /\ transferLock = w <=> HoldsTransfer(w)
       /\ compareLock = w <=> HoldsCompare(w)
       /\ reportLock = w <=> HoldsReport(w)

\* A report that numReports counts is complete: no transfer of a worker that is
\* late, and no other report, changes it.
ClosedReportsFrozen ==
    [][\A r \in 0 .. (numReports - 1) :
          /\ reportBalance'[r] = reportBalance[r]
          /\ numLogEntries'[r] = numLogEntries[r]
          /\ hasOverflowed'[r] = hasOverflowed[r]
          /\ transferLog'[r] = transferLog[r]]_vars

\* A log is marked as overflowed only when not one more entry fits.
OverflowOnlyWhenFull ==
    \A r \in Reports : hasOverflowed[r] => numLogEntries[r] = MaxEntries

\* w has returned from the call of Report_Transfer for entry l of command p of day d.
Passed(w, d, p, l) ==
    \/ d < day[w]
    \/ d = day[w] /\ p < pos[w]
    \/ d = day[w] /\ p = pos[w] /\ l < leg[w]

\* Where an entry is logged.
PlacesOf(e) ==
    {p \in Reports \X Slots :
        p[2] < numLogEntries[p[1]] /\ transferLog[p[1]][p[2]] = e}

StorageFull == (\E r \in Reports : hasOverflowed[r]) \/ numReports = MaxReports

\* Where the commands of w on day d have their entries.
EntryPlaces(w, d) ==
    UNION {{p} \X (1 .. Len(Schedule[w][d][p].log)) : p \in 1 .. Len(Schedule[w][d])}

EntryAt(w, d, t) == Schedule[w][d][t[1]].log[t[2]]

\* No two entries of the schedule are equal, so that an entry is known by its value.
DistinctEntries ==
    \A v, w \in Workers : \A c, d \in Days :
       \A s \in EntryPlaces(v, c) : \A t \in EntryPlaces(w, d) :
          EntryAt(v, c, s) = EntryAt(w, d, t) => v = w /\ c = d /\ s = t

\* Every transfer that is large enough is in exactly one log, once, unless a log
\* overflowed or the storage is used up.  (Of schedules with distinct entries.)
LoggedOnce ==
    \A w \in Workers, d \in Days : \A t \in EntryPlaces(w, d) :
       (Passed(w, d, t[1], t[2]) /\ Reportable(EntryAt(w, d, t))) =>
          \/ Cardinality(PlacesOf(EntryAt(w, d, t))) = 1
          \/ PlacesOf(EntryAt(w, d, t)) = {} /\ StorageFull

\* What the workers do on day d: their commands, and the entries that are large
\* enough for a log.
CommandsOf(d) == UNION {{w} \X (1 .. Len(Schedule[w][d])) : w \in Workers}

EntriesOf(d) ==
    UNION {{w} \X {t \in EntryPlaces(w, d) : Reportable(EntryAt(w, d, t))} : w \in Workers}

FlowOf(d) == [c \in CommandsOf(d) |-> Schedule[c[1]][d][c[2]].flow]

Times(e, entries, n) == Cardinality({s \in 0 .. (n - 1) : entries[s] = e})

\* Two logs that qsort leaves equal: TransferLogSortFunc looks at both parts of an
\* entry, so every entry is in both logs equally often.
SortedAlike(log1, log2, n) ==
    \A s \in 0 .. (n - 1) : Times(log1[s], log1, n) = Times(log1[s], log2, n)

\* What the loop of Report_Compare asks of report r and the report of the other bank.
SameReport(r, other) ==
    /\ reportBalance[r] = other.balance
    /\ numLogEntries[r] = other.numLogEntries
    /\ ~hasOverflowed[r] => SortedAlike(transferLog[r], other.transferLog, numLogEntries[r])

\* The first report of a worker that has executed all of the first day alone, in
\* whatever order.
SequentialReports ==
    LET n == Cardinality(EntriesOf(1))
    IN  {[balance       |-> SumFunctionOnSet(FlowOf(1), CommandsOf(1)),
          numLogEntries |-> IF n < MaxEntries THEN n ELSE MaxEntries,
          transferLog   |-> [s \in Slots |-> IF s < n
                                              THEN EntryAt(order[s][1], 1, order[s][2])
                                              ELSE NoEntry]] :
            order \in Bijection(0 .. (n - 1), EntriesOf(1))}

\* The report of the first night is the one that Report_Compare expects, and its log
\* overflows exactly when the log of the lone worker does, which is not compared.
FirstReportIsSequential ==
    numReports > 0 =>
       /\ \A other \in SequentialReports : SameReport(0, other)
       /\ hasOverflowed[0] <=> Cardinality(EntriesOf(1)) > MaxEntries

\* How many times a worker has called Report_DoReport.
Called(w) ==
    IF HoldsReport(w) \/ pc[w] \in {"lockReport", "resetCounter", "wait"}
    THEN day[w] ELSE day[w] - 1

\* para-assign6.doc: "the workers must wait until all have called before doing
\* the report work", and "no worker begins the next day's work until the report is
\* fully calculated".  The barrier keeps this in the first night, however far the
\* workers get in the nights that follow.
FirstNightInOrder ==
    \A w \in Workers :
       /\ numReports > 0 => Called(w) >= 1
       /\ day[w] > 1 => numReports > 0 \/ MaxReports = 0

\* Every worker gets through all its days.
EveryWorkerFinishes == <>AllDone

\* The first night ends: some worker finds that it is the last, and reports.
FirstReportWritten == <>(numReports > 0)

\* How often a worker has returned from Report_DoReport.
Returns == SumFunctionOnSet([w \in Workers |-> day[w] - 1], Workers)

\* Report_DoReport releases as many workers as there are, if not the ones it
\* should: a token that a worker takes at its next barrier counts here too.
FirstNightEnds == <>(Returns >= NumWorkers)
=============================================================================
