---------------------------- MODULE ReportProofs ----------------------------
(***************************************************************************)
(* Proofs about Report for every number of workers, every schedule and     *)
(* every size of the storage for reports and of a log.                     *)
(***************************************************************************)
EXTENDS Report, LibraryProofs

(***************************************************************************)
(* The inductive invariant                                                 *)
(***************************************************************************)
\* In Report_Transfer, and in Report_DoReport.
Recording == {"lockTransfer", "lockLog", "record", "append", "unlockTransfer", "unlockLog"}

Reporting == {"lockReport", "lockToClose", "test", "close", "bump", "unlockToPost", "post",
              "resetCounter", "decrement", "unlockToWait", "leaveReport", "wait"}

\* A worker that records is at an entry of its schedule; one that reports has
\* a day to go to.
InSchedule(w) ==
    /\ IF pc[w] \in Recording
       THEN pos[w] <= Len(Today(w)) /\ leg[w] <= Len(Today(w)[pos[w]].log)
       ELSE leg[w] = 1
    /\ pc[w] \in Reporting => day[w] <= NumDays

\* What a worker has read and will use is still so when it uses it.  The counter
\* is the exception: ResetCounter may have come in between.
ReadsHold(w) ==
    /\ pc[w] = "append" =>
          /\ rep[w] = numReports /\ numReports < MaxReports
          /\ num[w] = numLogEntries[numReports] /\ num[w] < MaxEntries
    /\ pc[w] = "bump" => rep[w] = numReports /\ numReports < MaxReports
    /\ pc[w] = "decrement" => num[w] \in 2 .. NumWorkers /\ counter \in {num[w], NumWorkers}

ReportInv ==
    /\ TypeOK
    /\ LocksHeld
    /\ \A w \in Workers : InSchedule(w)
    /\ \A w \in Workers : ReadsHold(w)
    /\ OverflowOnlyWhenFull

-----------------------------------------------------------------------------
(***************************************************************************)
(* Facts about schedules and mutexes                                       *)
(***************************************************************************)
\* The commands of a day have the types that Action_GetNext gives them.
LEMMA DayTypes ==
    ASSUME TypeOK, NEW w \in Workers
    PROVE  /\ Today(w) \in Seq(Commands)
           /\ Len(Today(w)) \in Nat
           /\ \A p \in 1 .. Len(Today(w)) :
                 /\ Today(w)[p].flow \in Int
                 /\ Today(w)[p].log \in Seq(Entries)
                 /\ Len(Today(w)[p].log) \in Nat \ {0}
                 /\ \A l \in 1 .. Len(Today(w)[p].log) : Today(w)[p].log[l] \in Entries
  <1>1. Today(w) \in Seq(Commands)
    BY ReportAssumption DEF TypeOK, Today
  <1>2. ASSUME NEW p \in 1 .. Len(Today(w))
        PROVE  Today(w)[p] \in Commands
    BY <1>1
  <1>3. ASSUME NEW c \in Commands
        PROVE  /\ c.flow \in Int
               /\ c.log \in Seq(Entries)
               /\ Len(c.log) \in Nat \ {0}
               /\ \A l \in 1 .. Len(c.log) : c.log[l] \in Entries
    BY DEF Commands
  <1>4. Len(Today(w)) \in Nat
    BY <1>1
  <1> QED
    BY <1>1, <1>2, <1>3, <1>4

\* A worker that records is at an entry.
LEMMA EntryType ==
    ASSUME TypeOK, NEW w \in Workers, InSchedule(w), pc[w] \in Recording
    PROVE  Entry(w) \in Entries
  <1>1. pos[w] \in 1 .. Len(Today(w)) /\ leg[w] \in 1 .. Len(Today(w)[pos[w]].log)
    BY DayTypes DEF TypeOK, InSchedule
  <1> QED
    BY <1>1, DayTypes DEF Entry

\* Two workers do not hold the same mutex.
LEMMA MutualExclusion ==
    ASSUME LocksHeld, NEW v \in Workers, NEW w \in Workers, v # w
    PROVE  /\ ~(HoldsTransfer(v) /\ HoldsTransfer(w))
           /\ ~(HoldsCompare(v) /\ HoldsCompare(w))
           /\ ~(HoldsReport(v) /\ HoldsReport(w))
  BY DEF LocksHeld

\* Only the worker that takes a step moves.
LEMMA OthersStay ==
    ASSUME TypeOK, NEW w \in Workers, Step(w), NEW v \in Workers, v # w
    PROVE  /\ pc'[v] = pc[v] /\ day'[v] = day[v] /\ pos'[v] = pos[v] /\ leg'[v] = leg[v]
           /\ rep'[v] = rep[v] /\ num'[v] = num[v]
  <1>1. pc'[v] = pc[v]
    BY DEF Step, DoCommand, EndOfDay, Done, LockTransfer, LockLog, SkipRecord, Overflow,
       FindSlot, AppendEntry, UnlockTransfer, UnlockLog, LockReport, LockToClose, Test, Close,
       Refuse, Bump, UnlockToPost, Post, UnlockReport, ResetCounter, Decrement, UnlockToWait,
       LeaveReport, Wait, Goto, NextDay, TypeOK
  <1>2. day'[v] = day[v] /\ pos'[v] = pos[v] /\ leg'[v] = leg[v]
    BY DEF Step, DoCommand, EndOfDay, Done, LockTransfer, LockLog, SkipRecord, Overflow,
       FindSlot, AppendEntry, UnlockTransfer, UnlockLog, LockReport, LockToClose, Test, Close,
       Refuse, Bump, UnlockToPost, Post, UnlockReport, ResetCounter, Decrement, UnlockToWait,
       LeaveReport, Wait, Goto, NextDay, place, TypeOK
  <1>3. rep'[v] = rep[v] /\ num'[v] = num[v]
    BY DEF Step, DoCommand, EndOfDay, Done, LockTransfer, LockLog, SkipRecord, Overflow,
       FindSlot, AppendEntry, UnlockTransfer, UnlockLog, LockReport, LockToClose, Test, Close,
       Refuse, Bump, UnlockToPost, Post, UnlockReport, ResetCounter, Decrement, UnlockToWait,
       LeaveReport, Wait, Goto, NextDay, local, TypeOK
  <1> QED
    BY <1>1, <1>2, <1>3

\* A step starts at the label of the worker and ends at a label.
LEMMA LabelStep ==
    ASSUME TypeOK, NEW w \in Workers, Step(w)
    PROVE  pc' \in [Workers -> Labels]
  <1>1. CASE DoCommand(w) \/ EndOfDay(w) \/ Done(w)
    BY <1>1
    DEF DoCommand, EndOfDay, Done, Goto, NextDay, TypeOK, Labels
  <1>2. CASE LockTransfer(w) \/ LockLog(w) \/ SkipRecord(w) \/ Overflow(w)
    BY <1>2
    DEF LockTransfer, LockLog, SkipRecord, Overflow, Goto, TypeOK, Labels
  <1>3. CASE FindSlot(w) \/ AppendEntry(w) \/ UnlockTransfer(w) \/ UnlockLog(w)
    <2>1. CASE FindSlot(w)
      BY <2>1 DEF FindSlot, Goto, TypeOK, Labels
    <2>2. CASE AppendEntry(w)
      BY <2>2 DEF AppendEntry, Goto, TypeOK, Labels
    <2>3. CASE UnlockTransfer(w)
      BY <2>3 DEF UnlockTransfer, Goto, TypeOK, Labels
    <2>4. CASE UnlockLog(w)
      BY <2>4 DEF UnlockLog, Goto, TypeOK, Labels
    <2> QED
      BY <1>3, <2>1, <2>2, <2>3, <2>4
  <1>4. CASE LockReport(w) \/ LockToClose(w) \/ Test(w) \/ Close(w)
    BY <1>4
    DEF LockReport, LockToClose, Test, Close, Goto, TypeOK, Labels
  <1>5. CASE Refuse(w) \/ Bump(w) \/ UnlockToPost(w)
    BY <1>5
    DEF Refuse, Bump, UnlockToPost, Goto, TypeOK, Labels
  <1>6. CASE Post(w) \/ UnlockReport(w) \/ ResetCounter(w) \/ Decrement(w)
    BY <1>6
    DEF Post, UnlockReport, ResetCounter, Decrement, Goto, NextDay, TypeOK, Labels
  <1>7. CASE UnlockToWait(w) \/ LeaveReport(w) \/ Wait(w)
    BY <1>7
    DEF UnlockToWait, LeaveReport, Wait, Goto, NextDay, TypeOK, Labels
  <1> QED
    BY <1>1, <1>2, <1>3, <1>4, <1>5, <1>6, <1>7 DEF Step

-----------------------------------------------------------------------------
(***************************************************************************)
(* The invariant holds initially                                           *)
(***************************************************************************)
\* Bank_Init and Report_Init establish the invariant.
LEMMA InvInit == Init => ReportInv
  <1> SUFFICES ASSUME Init PROVE ReportInv
    OBVIOUS
  <1>1. TypeOK
    BY ReportAssumption DEF Init, TypeOK, Labels, Days
  <1>2. LocksHeld
    BY ReportAssumption DEF Init, LocksHeld, HoldsTransfer, HoldsCompare, HoldsReport
  <1>3. \A w \in Workers : InSchedule(w)
    BY DEF Init, InSchedule, Recording, Reporting
  <1>4. \A w \in Workers : ReadsHold(w)
    BY DEF Init, ReadsHold
  <1>5. OverflowOnlyWhenFull
    BY DEF Init, OverflowOnlyWhenFull
  <1> QED
    BY <1>1, <1>2, <1>3, <1>4, <1>5 DEF ReportInv

-----------------------------------------------------------------------------
(***************************************************************************)
(* Every step preserves it                                                 *)
(***************************************************************************)
\* The types are preserved: no index leaves its array, and the counter never
\* drops below 1 although a reset may interfere.
LEMMA TypeStep ==
    ASSUME ReportInv, NEW w \in Workers, Step(w)
    PROVE  TypeOK'
  <1>a. TypeOK /\ InSchedule(w) /\ ReadsHold(w)
    BY DEF ReportInv
  <1>b. Len(Today(w)) \in Nat
    BY <1>a, DayTypes
  <1>1. bankBalance' \in Int
    <2>1. CASE DoCommand(w)
      <3>1. pos[w] \in 1 .. Len(Today(w))
        BY <1>a, <1>b, <2>1 DEF DoCommand, TypeOK
      <3>2. Today(w)[pos[w]].flow \in Int
        BY <1>a, <3>1, DayTypes
      <3> QED
        BY <1>a, <2>1, <3>2 DEF DoCommand, TypeOK
    <2>2. CASE ~DoCommand(w)
      BY <1>a, <2>2 DEF Step, DoCommand, EndOfDay, Done, LockTransfer, LockLog, SkipRecord, Overflow,
       FindSlot, AppendEntry, UnlockTransfer, UnlockLog, LockReport, LockToClose, Test, Close,
       Refuse, Bump, UnlockToPost, Post, UnlockReport, ResetCounter, Decrement, UnlockToWait,
       LeaveReport, Wait, Goto, NextDay, TypeOK
    <2> QED
      BY <2>1, <2>2
  <1>2. numReports' \in 0 .. MaxReports /\ reportBalance' \in [Reports -> Int]
    <2>1. CASE Close(w)
      BY <1>a, <2>1, ReportAssumption DEF Close, TypeOK, Reports
    <2>2. CASE Bump(w)
      BY <1>a, <2>2, ReportAssumption DEF Bump, ReadsHold, TypeOK
    <2>3. CASE UNCHANGED <<numReports, reportBalance>>
      BY <1>a, <2>3 DEF TypeOK
    <2>4. Close(w) \/ Bump(w) \/ UNCHANGED <<numReports, reportBalance>>
      BY DEF Step, DoCommand, EndOfDay, Done, LockTransfer, LockLog, SkipRecord, Overflow,
       FindSlot, AppendEntry, UnlockTransfer, UnlockLog, LockReport, LockToClose, Test, Close,
       Refuse, Bump, UnlockToPost, Post, UnlockReport, ResetCounter, Decrement, UnlockToWait,
       LeaveReport, Wait, Goto, NextDay, report
    <2> QED
      BY <2>1, <2>2, <2>3, <2>4
  <1>3. /\ hasOverflowed' \in [Reports -> BOOLEAN]
        /\ numLogEntries' \in [Reports -> 0 .. MaxEntries]
        /\ transferLog' \in [Reports -> [Slots -> Entries \cup {NoEntry}]]
    <2>1. CASE Overflow(w)
      BY <1>a, <2>1 DEF Overflow, TypeOK
    <2>2. CASE AppendEntry(w)
      <3>1. Entry(w) \in Entries
        BY <1>a, <2>2, EntryType DEF AppendEntry, Recording
      <3>2. num[w] \in 0 .. MaxEntries /\ num[w] < MaxEntries
        <4>1. numReports \in Reports
          BY <1>a, <2>2, ReportAssumption DEF AppendEntry, ReadsHold, TypeOK, Reports
        <4>2. numLogEntries[numReports] \in 0 .. MaxEntries
          BY <1>a, <4>1 DEF TypeOK
        <4> QED
          BY <1>a, <2>2, <4>2 DEF AppendEntry, ReadsHold
      <3>4. num[w] + 1 \in 0 .. MaxEntries
        BY <3>2, ReportAssumption
      <3>3. transferLog' \in [Reports -> [Slots -> Entries \cup {NoEntry}]]
        BY <1>a, <2>2, <3>1 DEF AppendEntry, TypeOK
      <3> QED
        BY <1>a, <2>2, <3>3, <3>4 DEF AppendEntry, TypeOK
    <2>3. CASE UNCHANGED log
      BY <1>a, <2>3 DEF TypeOK, log
    <2>4. Overflow(w) \/ AppendEntry(w) \/ UNCHANGED log
      BY DEF Step, DoCommand, EndOfDay, Done, LockTransfer, LockLog, SkipRecord, Overflow,
       FindSlot, AppendEntry, UnlockTransfer, UnlockLog, LockReport, LockToClose, Test, Close,
       Refuse, Bump, UnlockToPost, Post, UnlockReport, ResetCounter, Decrement, UnlockToWait,
       LeaveReport, Wait, Goto, NextDay, report, log
    <2> QED
      BY <2>1, <2>2, <2>3, <2>4
  <1>4. counter' \in 1 .. NumWorkers /\ startingNew' \in Nat
    <2>1. CASE Decrement(w)
      BY <1>a, <2>1, ReportAssumption DEF Decrement, ReadsHold, TypeOK
    <2>2. CASE ResetCounter(w) \/ Post(w) \/ Wait(w)
      <3>1. /\ counter' \in {counter, NumWorkers}
            /\ \/ startingNew' \in {startingNew, startingNew + 1}
               \/ startingNew > 0 /\ startingNew' = startingNew - 1
        BY <2>2 DEF ResetCounter, Post, Wait
      <3>2. counter \in 1 .. NumWorkers /\ startingNew \in Nat
        BY <1>a DEF TypeOK
      <3> QED
        BY <3>1, <3>2, ReportAssumption
    <2>3. CASE UNCHANGED night
      BY <1>a, <2>3 DEF night, TypeOK
    <2>4. Decrement(w) \/ ResetCounter(w) \/ Post(w) \/ Wait(w) \/ UNCHANGED night
      BY DEF Step, DoCommand, EndOfDay, Done, LockTransfer, LockLog, SkipRecord, Overflow,
       FindSlot, AppendEntry, UnlockTransfer, UnlockLog, LockReport, LockToClose, Test, Close,
       Refuse, Bump, UnlockToPost, Post, UnlockReport, ResetCounter, Decrement, UnlockToWait,
       LeaveReport, Wait, Goto, NextDay, night
    <2> QED
      BY <2>1, <2>2, <2>3, <2>4
  <1>5. /\ reportLock' \in Workers \cup {NoOwner}
        /\ transferLock' \in Workers \cup {NoOwner}
        /\ compareLock' \in Workers \cup {NoOwner}
    BY <1>a DEF Step, DoCommand, EndOfDay, Done, LockTransfer, LockLog, SkipRecord, Overflow,
       FindSlot, AppendEntry, UnlockTransfer, UnlockLog, LockReport, LockToClose, Test, Close,
       Refuse, Bump, UnlockToPost, Post, UnlockReport, ResetCounter, Decrement, UnlockToWait,
       LeaveReport, Wait, Goto, NextDay, locks, TypeOK
  <1>6. pc' \in [Workers -> Labels]
    BY <1>a, LabelStep
  <1>7. /\ day' \in [Workers -> Days]
        /\ pos' \in [Workers -> Nat \ {0}]
        /\ leg' \in [Workers -> Nat \ {0}]
    <2>1. CASE ResetCounter(w) \/ Wait(w)
      <3>1. day[w] \in 1 .. (NumDays + 1) /\ day[w] <= NumDays
        BY <1>a, <2>1 DEF ResetCounter, Wait, InSchedule, Reporting, TypeOK, Days
      <3>2. day[w] + 1 \in Days
        BY <3>1, ReportAssumption DEF Days
      <3>3. /\ day' = [day EXCEPT ![w] = @ + 1]
            /\ pos' = [pos EXCEPT ![w] = 1]
            /\ leg' = leg
        BY <2>1 DEF ResetCounter, Wait, NextDay
      <3> QED
        BY <1>a, <3>2, <3>3 DEF TypeOK
    <2>2. CASE UnlockLog(w)
      <3>1. /\ \/ leg' = [leg EXCEPT ![w] = @ + 1] /\ pos' = pos
               \/ leg' = [leg EXCEPT ![w] = 1] /\ pos' = [pos EXCEPT ![w] = @ + 1]
            /\ day' = day
        BY <2>2 DEF UnlockLog
      <3>2. leg[w] + 1 \in Nat \ {0} /\ pos[w] + 1 \in Nat \ {0}
        BY <1>a DEF TypeOK
      <3> QED
        BY <1>a, <3>1, <3>2 DEF TypeOK
    <2>3. CASE UNCHANGED place
      BY <1>a, <2>3 DEF place, TypeOK
    <2>4. ResetCounter(w) \/ Wait(w) \/ UnlockLog(w) \/ UNCHANGED place
      BY DEF Step, DoCommand, EndOfDay, Done, LockTransfer, LockLog, SkipRecord, Overflow,
       FindSlot, AppendEntry, UnlockTransfer, UnlockLog, LockReport, LockToClose, Test, Close,
       Refuse, Bump, UnlockToPost, Post, UnlockReport, ResetCounter, Decrement, UnlockToWait,
       LeaveReport, Wait, Goto, NextDay, place
    <2> QED
      BY <2>1, <2>2, <2>3, <2>4
  <1>8. rep' \in [Workers -> Nat] /\ num' \in [Workers -> Int]
    <2>1. CASE FindSlot(w) \/ Close(w)
      <3>1. numReports \in Nat
        BY <1>a, ReportAssumption DEF TypeOK
      <3>2. FindSlot(w) => numLogEntries[numReports] \in Int
        BY <1>a, <3>1, ReportAssumption DEF FindSlot, TypeOK, Reports
      <3> QED
        BY <1>a, <2>1, <3>1, <3>2 DEF FindSlot, Close, TypeOK
    <2>2. CASE Test(w) \/ UnlockToPost(w) \/ Post(w)
      <3>1. /\ rep' = rep
            /\ \E n \in {counter, NumWorkers - 1, num[w] - 1} : num' = [num EXCEPT ![w] = n]
        BY <2>2 DEF Test, UnlockToPost, Post
      <3>2. counter \in Int /\ NumWorkers - 1 \in Int /\ num[w] - 1 \in Int
        BY <1>a, ReportAssumption DEF TypeOK
      <3> QED
        BY <1>a, <3>1, <3>2 DEF TypeOK
    <2>3. CASE UNCHANGED local
      BY <1>a, <2>3 DEF local, TypeOK
    <2>4. \/ FindSlot(w) \/ Close(w) \/ Test(w) \/ UnlockToPost(w) \/ Post(w)
          \/ UNCHANGED local
      BY DEF Step, DoCommand, EndOfDay, Done, LockTransfer, LockLog, SkipRecord, Overflow,
       FindSlot, AppendEntry, UnlockTransfer, UnlockLog, LockReport, LockToClose, Test, Close,
       Refuse, Bump, UnlockToPost, Post, UnlockReport, ResetCounter, Decrement, UnlockToWait,
       LeaveReport, Wait, Goto, NextDay, local
    <2> QED
      BY <2>1, <2>2, <2>3, <2>4
  <1> QED
    BY <1>1, <1>2, <1>3, <1>4, <1>5, <1>6, <1>7, <1>8 DEF TypeOK

\* A mutex is taken and released where the place in the code says.
LEMMA LocksStep ==
    ASSUME ReportInv, NEW w \in Workers, Step(w)
    PROVE  LocksHeld'
  <1>a. TypeOK /\ LocksHeld /\ w # NoOwner
    BY ReportAssumption DEF ReportInv
  <1>b. /\ pc'[w] \in Labels
        /\ \A v \in Workers : v # w => pc'[v] = pc[v]
    BY <1>a, LabelStep, OthersStay
  <1>1. ASSUME NEW v \in Workers
        PROVE  (transferLock = v <=> HoldsTransfer(v))'
    <2>1. CASE transferLock = NoOwner /\ transferLock' = w /\ HoldsTransfer(w)'
      BY <1>a, <1>b, <2>1, ReportAssumption DEF LocksHeld, HoldsTransfer
    <2>2. CASE HoldsTransfer(w) /\ transferLock' = NoOwner /\ ~HoldsTransfer(w)'
      BY <1>a, <1>b, <2>2, ReportAssumption DEF LocksHeld, HoldsTransfer
    <2>3. CASE transferLock' = transferLock /\ (HoldsTransfer(w)' <=> HoldsTransfer(w))
      BY <1>a, <1>b, <2>3 DEF LocksHeld, HoldsTransfer
    <2>4. \/ transferLock = NoOwner /\ transferLock' = w /\ HoldsTransfer(w)'
          \/ HoldsTransfer(w) /\ transferLock' = NoOwner /\ ~HoldsTransfer(w)'
          \/ transferLock' = transferLock /\ (HoldsTransfer(w)' <=> HoldsTransfer(w))
      <3>1. CASE DoCommand(w) \/ EndOfDay(w) \/ Done(w)
        BY <1>a, <3>1
        DEF DoCommand, EndOfDay, Done, Goto, NextDay, HoldsTransfer, locks, TypeOK
      <3>2. CASE LockTransfer(w) \/ LockLog(w) \/ SkipRecord(w) \/ Overflow(w)
        BY <1>a, <3>2
        DEF LockTransfer, LockLog, SkipRecord, Overflow, Goto, HoldsTransfer, locks, TypeOK
      <3>3. CASE FindSlot(w) \/ AppendEntry(w) \/ UnlockTransfer(w) \/ UnlockLog(w)
        BY <1>a, <3>3
        DEF FindSlot, AppendEntry, UnlockTransfer, UnlockLog, Goto, HoldsTransfer, locks, TypeOK
      <3>4. CASE LockReport(w) \/ LockToClose(w) \/ Test(w) \/ Close(w)
        BY <1>a, <3>4
        DEF LockReport, LockToClose, Test, Close, Goto, HoldsTransfer, locks, TypeOK
      <3>5. CASE Refuse(w) \/ Bump(w) \/ UnlockToPost(w)
        BY <1>a, <3>5
        DEF Refuse, Bump, UnlockToPost, Goto, HoldsTransfer, locks, TypeOK
      <3>6. CASE Post(w) \/ UnlockReport(w) \/ ResetCounter(w) \/ Decrement(w)
        BY <1>a, <3>6
        DEF Post, UnlockReport, ResetCounter, Decrement, Goto, NextDay, HoldsTransfer, locks, TypeOK
      <3>7. CASE UnlockToWait(w) \/ LeaveReport(w) \/ Wait(w)
        BY <1>a, <3>7
        DEF UnlockToWait, LeaveReport, Wait, Goto, NextDay, HoldsTransfer, locks, TypeOK
      <3> QED
        BY <3>1, <3>2, <3>3, <3>4, <3>5, <3>6, <3>7 DEF Step
    <2> QED
      BY <2>1, <2>2, <2>3, <2>4
  <1>2. ASSUME NEW v \in Workers
        PROVE  (compareLock = v <=> HoldsCompare(v))'
    <2>1. CASE compareLock = NoOwner /\ compareLock' = w /\ HoldsCompare(w)'
      BY <1>a, <1>b, <2>1, ReportAssumption DEF LocksHeld, HoldsCompare
    <2>2. CASE HoldsCompare(w) /\ compareLock' = NoOwner /\ ~HoldsCompare(w)'
      BY <1>a, <1>b, <2>2, ReportAssumption DEF LocksHeld, HoldsCompare
    <2>3. CASE compareLock' = compareLock /\ (HoldsCompare(w)' <=> HoldsCompare(w))
      BY <1>a, <1>b, <2>3 DEF LocksHeld, HoldsCompare
    <2>4. \/ compareLock = NoOwner /\ compareLock' = w /\ HoldsCompare(w)'
          \/ HoldsCompare(w) /\ compareLock' = NoOwner /\ ~HoldsCompare(w)'
          \/ compareLock' = compareLock /\ (HoldsCompare(w)' <=> HoldsCompare(w))
      <3>1. CASE DoCommand(w) \/ EndOfDay(w) \/ Done(w)
        BY <1>a, <3>1
        DEF DoCommand, EndOfDay, Done, Goto, NextDay, HoldsCompare, locks, TypeOK
      <3>2. CASE LockTransfer(w) \/ LockLog(w) \/ SkipRecord(w) \/ Overflow(w)
        BY <1>a, <3>2
        DEF LockTransfer, LockLog, SkipRecord, Overflow, Goto, HoldsCompare, locks, TypeOK
      <3>3. CASE FindSlot(w) \/ AppendEntry(w) \/ UnlockTransfer(w) \/ UnlockLog(w)
        BY <1>a, <3>3
        DEF FindSlot, AppendEntry, UnlockTransfer, UnlockLog, Goto, HoldsCompare, locks, TypeOK
      <3>4. CASE LockReport(w) \/ LockToClose(w) \/ Test(w) \/ Close(w)
        BY <1>a, <3>4
        DEF LockReport, LockToClose, Test, Close, Goto, HoldsCompare, locks, TypeOK
      <3>5. CASE Refuse(w) \/ Bump(w) \/ UnlockToPost(w)
        BY <1>a, <3>5
        DEF Refuse, Bump, UnlockToPost, Goto, HoldsCompare, locks, TypeOK
      <3>6. CASE Post(w) \/ UnlockReport(w) \/ ResetCounter(w) \/ Decrement(w)
        BY <1>a, <3>6
        DEF Post, UnlockReport, ResetCounter, Decrement, Goto, NextDay, HoldsCompare, locks, TypeOK
      <3>7. CASE UnlockToWait(w) \/ LeaveReport(w) \/ Wait(w)
        BY <1>a, <3>7
        DEF UnlockToWait, LeaveReport, Wait, Goto, NextDay, HoldsCompare, locks, TypeOK
      <3> QED
        BY <3>1, <3>2, <3>3, <3>4, <3>5, <3>6, <3>7 DEF Step
    <2> QED
      BY <2>1, <2>2, <2>3, <2>4
  <1>3. ASSUME NEW v \in Workers
        PROVE  (reportLock = v <=> HoldsReport(v))'
    <2>1. CASE reportLock = NoOwner /\ reportLock' = w /\ HoldsReport(w)'
      BY <1>a, <1>b, <2>1, ReportAssumption DEF LocksHeld, HoldsReport
    <2>2. CASE HoldsReport(w) /\ reportLock' = NoOwner /\ ~HoldsReport(w)'
      BY <1>a, <1>b, <2>2, ReportAssumption DEF LocksHeld, HoldsReport
    <2>3. CASE reportLock' = reportLock /\ (HoldsReport(w)' <=> HoldsReport(w))
      BY <1>a, <1>b, <2>3 DEF LocksHeld, HoldsReport
    <2>4. \/ reportLock = NoOwner /\ reportLock' = w /\ HoldsReport(w)'
          \/ HoldsReport(w) /\ reportLock' = NoOwner /\ ~HoldsReport(w)'
          \/ reportLock' = reportLock /\ (HoldsReport(w)' <=> HoldsReport(w))
      <3>1. CASE DoCommand(w) \/ EndOfDay(w) \/ Done(w)
        BY <1>a, <3>1
        DEF DoCommand, EndOfDay, Done, Goto, NextDay, HoldsReport, locks, TypeOK
      <3>2. CASE LockTransfer(w) \/ LockLog(w) \/ SkipRecord(w) \/ Overflow(w)
        BY <1>a, <3>2
        DEF LockTransfer, LockLog, SkipRecord, Overflow, Goto, HoldsReport, locks, TypeOK
      <3>3. CASE FindSlot(w) \/ AppendEntry(w) \/ UnlockTransfer(w) \/ UnlockLog(w)
        BY <1>a, <3>3
        DEF FindSlot, AppendEntry, UnlockTransfer, UnlockLog, Goto, HoldsReport, locks, TypeOK
      <3>4. CASE LockReport(w) \/ LockToClose(w) \/ Test(w) \/ Close(w)
        BY <1>a, <3>4
        DEF LockReport, LockToClose, Test, Close, Goto, HoldsReport, locks, TypeOK
      <3>5. CASE Refuse(w) \/ Bump(w) \/ UnlockToPost(w)
        BY <1>a, <3>5
        DEF Refuse, Bump, UnlockToPost, Goto, HoldsReport, locks, TypeOK
      <3>6. CASE Post(w) \/ UnlockReport(w) \/ ResetCounter(w) \/ Decrement(w)
        BY <1>a, <3>6
        DEF Post, UnlockReport, ResetCounter, Decrement, Goto, NextDay, HoldsReport, locks, TypeOK
      <3>7. CASE UnlockToWait(w) \/ LeaveReport(w) \/ Wait(w)
        BY <1>a, <3>7
        DEF UnlockToWait, LeaveReport, Wait, Goto, NextDay, HoldsReport, locks, TypeOK
      <3> QED
        BY <3>1, <3>2, <3>3, <3>4, <3>5, <3>6, <3>7 DEF Step
    <2> QED
      BY <2>1, <2>2, <2>3, <2>4
  <1> QED
    BY <1>1, <1>2, <1>3 DEF LocksHeld

\* A worker stays inside its schedule.
LEMMA ScheduleStep ==
    ASSUME ReportInv, NEW w \in Workers, Step(w), NEW v \in Workers
    PROVE  InSchedule(v)'
  <1>a. TypeOK /\ InSchedule(v) /\ InSchedule(w)
    BY DEF ReportInv
  <1>b. CASE v # w
    BY <1>a, <1>b, OthersStay DEF InSchedule, Today
  <1>c. CASE v = w
    <2>1. CASE DoCommand(w)
      <3>1. /\ pos[w] \in 1 .. Len(Today(w)) /\ leg[w] = 1
            /\ pc'[w] = "lockTransfer" /\ UNCHANGED place
        BY <1>a, <2>1, DayTypes DEF DoCommand, Goto, InSchedule, Recording, TypeOK
      <3>2. 1 <= Len(Today(w)[pos[w]].log)
        BY <1>a, <3>1, DayTypes
      <3> QED
        BY <1>c, <3>1, <3>2 DEF InSchedule, Today, Recording, Reporting, place
    <2>2. CASE EndOfDay(w)
      BY <1>a, <1>c, <2>2 DEF EndOfDay, Goto, InSchedule, Recording, Reporting, place, TypeOK
    <2>3. CASE UnlockLog(w)
      <3>1. /\ pos[w] \in 1 .. Len(Today(w))
            /\ leg[w] \in 1 .. Len(Today(w)[pos[w]].log)
        <4>1. /\ pos[w] \in Nat \ {0} /\ pos[w] <= Len(Today(w))
              /\ leg[w] \in Nat \ {0} /\ leg[w] <= Len(Today(w)[pos[w]].log)
          BY <1>a, <2>3 DEF UnlockLog, InSchedule, Recording, TypeOK
        <4>2. pos[w] \in 1 .. Len(Today(w))
          BY <1>a, <4>1, DayTypes
        <4>3. Len(Today(w)[pos[w]].log) \in Nat
          BY <1>a, <4>2, DayTypes
        <4> QED
          BY <4>1, <4>2, <4>3
      <3>2. Len(Today(w)[pos[w]].log) \in Nat
        BY <1>a, <3>1, DayTypes
      <3>3. CASE leg[w] < Len(Today(w)[pos[w]].log)
        <4>1. /\ pc'[w] = "lockTransfer" /\ leg'[w] = leg[w] + 1
              /\ pos'[w] = pos[w] /\ day'[w] = day[w]
          BY <1>a, <2>3, <3>3 DEF UnlockLog, Goto, TypeOK
        <4>2. Today(w)' = Today(w)
          BY <4>1 DEF Today
        <4>3. pos'[w] <= Len(Today(w))
          BY <3>1, <4>1
        <4>4. leg[w] + 1 <= Len(Today(w)[pos[w]].log)
          <5> HIDE DEF Today
          <5> DEFINE n == Len(Today(w)[pos[w]].log)
          <5>1. n \in Nat /\ leg[w] \in 1 .. n /\ leg[w] < n
            BY <3>1, <3>2, <3>3
          <5> HIDE DEF n
          <5>2. leg[w] + 1 <= n
            BY <5>1
          <5> QED
            BY <5>2 DEF n
        <4>5. leg'[w] <= Len(Today(w)[pos'[w]].log)
          BY <4>1, <4>4
        <4>6. pos'[w] <= Len(Today(w)') /\ leg'[w] <= Len(Today(w)'[pos'[w]].log)
          BY <4>2, <4>3, <4>5
        <4> QED
          BY <1>c, <4>1, <4>6 DEF InSchedule, Recording, Reporting
      <3>4. CASE ~(leg[w] < Len(Today(w)[pos[w]].log))
        <4>1. pc'[w] = "work" /\ leg'[w] = 1
          BY <1>a, <2>3, <3>4 DEF UnlockLog, Goto, TypeOK
        <4> QED
          BY <1>c, <4>1 DEF InSchedule, Recording, Reporting
      <3> QED
        BY <3>3, <3>4
    <2>4. CASE ResetCounter(w) \/ Wait(w)
      <3>1. pc'[w] = "work" /\ leg'[w] = 1
        BY <1>a, <2>4 DEF ResetCounter, Wait, NextDay, Goto, InSchedule, Recording, TypeOK
      <3> QED
        BY <1>c, <3>1 DEF InSchedule, Recording, Reporting
    <2>5. CASE /\ UNCHANGED place
               /\ pc'[w] \in Recording <=> pc[w] \in Recording
               /\ pc'[w] \in Reporting => pc[w] \in Reporting
      BY <1>a, <1>c, <2>5 DEF InSchedule, Today, place
    <2>6. \/ DoCommand(w) \/ EndOfDay(w) \/ UnlockLog(w) \/ ResetCounter(w) \/ Wait(w)
          \/ /\ UNCHANGED place
             /\ pc'[w] \in Recording <=> pc[w] \in Recording
             /\ pc'[w] \in Reporting => pc[w] \in Reporting
      <3>1. CASE DoCommand(w) \/ EndOfDay(w) \/ Done(w) \/ LockTransfer(w) \/ LockLog(w)
        BY <1>a, <3>1
        DEF DoCommand, EndOfDay, Done, LockTransfer, LockLog, Goto, NextDay, Recording, Reporting, TypeOK
      <3>2. CASE SkipRecord(w) \/ Overflow(w) \/ FindSlot(w) \/ AppendEntry(w) \/ UnlockTransfer(w) \/ UnlockLog(w)
        BY <1>a, <3>2
        DEF SkipRecord, Overflow, FindSlot, AppendEntry, UnlockTransfer, UnlockLog, Goto, Recording, Reporting, TypeOK
      <3>3. CASE LockReport(w) \/ LockToClose(w) \/ Test(w) \/ Close(w) \/ Refuse(w) \/ Bump(w) \/ UnlockToPost(w)
        BY <1>a, <3>3
        DEF LockReport, LockToClose, Test, Close, Refuse, Bump, UnlockToPost, Goto, Recording, Reporting, TypeOK
      <3>4. CASE Post(w) \/ UnlockReport(w) \/ ResetCounter(w) \/ Decrement(w) \/ UnlockToWait(w) \/ LeaveReport(w) \/ Wait(w)
        BY <1>a, <3>4
        DEF Post, UnlockReport, ResetCounter, Decrement, UnlockToWait, LeaveReport, Wait, Goto, NextDay, Recording, Reporting, TypeOK
      <3> QED
        BY <3>1, <3>2, <3>3, <3>4 DEF Step
    <2> QED
      BY <2>1, <2>2, <2>3, <2>4, <2>5, <2>6
  <1> QED
    BY <1>b, <1>c

\* What a worker has read holds until it is used: the mutexes see to that.
LEMMA ReadsStep ==
    ASSUME ReportInv, NEW w \in Workers, Step(w), NEW v \in Workers
    PROVE  ReadsHold(v)'
  <1>a. TypeOK /\ ReadsHold(v) /\ ReadsHold(w)
    BY DEF ReportInv
  <1>b. v # w => ~(HoldsCompare(v) /\ HoldsCompare(w)) /\ ~(HoldsReport(v) /\ HoldsReport(w))
    BY MutualExclusion DEF ReportInv
  <1>1. CASE FindSlot(w) \/ Close(w)
    <2>1. CASE FindSlot(w)
      BY <1>a, <1>b, <2>1, ReportAssumption
      DEF FindSlot, Goto, ReadsHold, TypeOK, Reports, HoldsCompare, report, log, night
    <2>2. CASE Close(w)
      BY <1>a, <1>b, <2>2, ReportAssumption
      DEF Close, Goto, ReadsHold, TypeOK, Reports, HoldsCompare, log, night
    <2> QED
      BY <1>1, <2>1, <2>2
  <1>2. CASE AppendEntry(w) \/ Bump(w)
    BY <1>a, <1>b, <1>2
    DEF AppendEntry, Bump, Goto, ReadsHold, TypeOK, HoldsCompare, log, night, local
  <1>3. CASE Test(w)
    BY <1>a, <1>b, <1>3, ReportAssumption
    DEF Test, Goto, ReadsHold, TypeOK, HoldsReport, report, log, night
  <1>4. CASE Decrement(w)
    BY <1>a, <1>b, <1>4
    DEF Decrement, Goto, ReadsHold, TypeOK, HoldsReport, report, log, local
  <1>5. CASE ResetCounter(w)
    BY <1>a, <1>5
    DEF ResetCounter, NextDay, Goto, ReadsHold, TypeOK, report, log, local
  <1>6. CASE /\ UNCHANGED <<numReports, numLogEntries, counter>>
             /\ pc'[w] \notin {"append", "bump", "decrement"}
    BY <1>a, <1>6, OthersStay DEF ReadsHold
  <1>7. \/ FindSlot(w) \/ Close(w) \/ AppendEntry(w) \/ Bump(w)
        \/ Test(w) \/ Decrement(w) \/ ResetCounter(w)
        \/ /\ UNCHANGED <<numReports, numLogEntries, counter>>
           /\ pc'[w] \notin {"append", "bump", "decrement"}
    <2>1. CASE DoCommand(w) \/ EndOfDay(w) \/ Done(w) \/ LockTransfer(w) \/ LockLog(w)
      BY <1>a, <2>1
      DEF DoCommand, EndOfDay, Done, LockTransfer, LockLog, Goto, NextDay, TypeOK, report, log, night
    <2>2. CASE SkipRecord(w) \/ Overflow(w) \/ FindSlot(w) \/ AppendEntry(w) \/ UnlockTransfer(w) \/ UnlockLog(w)
      BY <1>a, <2>2
      DEF SkipRecord, Overflow, FindSlot, AppendEntry, UnlockTransfer, UnlockLog, Goto, TypeOK, report, log, night
    <2>3. CASE LockReport(w) \/ LockToClose(w) \/ Test(w) \/ Close(w) \/ Refuse(w) \/ Bump(w) \/ UnlockToPost(w)
      BY <1>a, <2>3
      DEF LockReport, LockToClose, Test, Close, Refuse, Bump, UnlockToPost, Goto, TypeOK, report, log, night
    <2>4. CASE Post(w) \/ UnlockReport(w) \/ ResetCounter(w) \/ Decrement(w) \/ UnlockToWait(w) \/ LeaveReport(w) \/ Wait(w)
      BY <1>a, <2>4
      DEF Post, UnlockReport, ResetCounter, Decrement, UnlockToWait, LeaveReport, Wait, Goto, NextDay, TypeOK, report, log, night
    <2> QED
      BY <2>1, <2>2, <2>3, <2>4 DEF Step
  <1> QED
    BY <1>1, <1>2, <1>3, <1>4, <1>5, <1>6, <1>7

\* A log that has overflowed is full.
LEMMA OverflowStep ==
    ASSUME ReportInv, NEW w \in Workers, Step(w)
    PROVE  OverflowOnlyWhenFull'
  <1>a. TypeOK /\ ReadsHold(w) /\ OverflowOnlyWhenFull
    BY DEF ReportInv
  <1>1. CASE Overflow(w)
    BY <1>a, <1>1, ReportAssumption DEF Overflow, OverflowOnlyWhenFull, TypeOK, Reports
  <1>2. CASE AppendEntry(w)
    BY <1>a, <1>2 DEF AppendEntry, ReadsHold, OverflowOnlyWhenFull, TypeOK, Reports
  <1>3. CASE UNCHANGED <<hasOverflowed, numLogEntries>>
    BY <1>a, <1>3 DEF OverflowOnlyWhenFull
  <1>4. Overflow(w) \/ AppendEntry(w) \/ UNCHANGED <<hasOverflowed, numLogEntries>>
    BY DEF Step, DoCommand, EndOfDay, Done, LockTransfer, LockLog, SkipRecord, Overflow,
       FindSlot, AppendEntry, UnlockTransfer, UnlockLog, LockReport, LockToClose, Test, Close,
       Refuse, Bump, UnlockToPost, Post, UnlockReport, ResetCounter, Decrement, UnlockToWait,
       LeaveReport, Wait, Goto, NextDay, LeaveReport, Wait, report, log
  <1> QED
    BY <1>1, <1>2, <1>3, <1>4

\* The invariant is inductive.
LEMMA InvStep == ReportInv /\ [Next]_vars => ReportInv'
  <1> SUFFICES ASSUME ReportInv, [Next]_vars PROVE ReportInv'
    OBVIOUS
  <1>1. ASSUME NEW w \in Workers, Step(w) PROVE ReportInv'
    BY <1>1, TypeStep, LocksStep, ScheduleStep, ReadsStep, OverflowStep DEF ReportInv
  <1>2. CASE UNCHANGED vars
    BY <1>2 DEF ReportInv, TypeOK, LocksHeld, HoldsTransfer, HoldsCompare, HoldsReport,
                InSchedule, Today, ReadsHold, OverflowOnlyWhenFull,
                vars, report, log, night, locks, place, local
  <1> QED
    BY <1>1, <1>2 DEF Next, Finished

-----------------------------------------------------------------------------
(***************************************************************************)
(* Theorems                                                                *)
(***************************************************************************)
\* The report code keeps the invariant.
THEOREM ReportInvariant == Spec => []ReportInv
  <1> QED
    BY InvInit, InvStep, PTL DEF Spec

\* The variables of the report code keep their types: indices stay in their
\* arrays and bank->counter in 1 .. num_workers, in spite of the unprotected reset.
THEOREM ReportTypes == Spec => []TypeOK
  <1>1. ReportInv => TypeOK
    BY DEF ReportInv
  <1> QED
    BY <1>1, ReportInvariant, PTL

\* A worker holds exactly the mutexes that its place in report.c implies.
THEOREM ReportLocks == Spec => []LocksHeld
  <1>1. ReportInv => LocksHeld
    BY DEF ReportInv
  <1> QED
    BY <1>1, ReportInvariant, PTL

\* Report_Transfer says that a log has overflowed only when it is full.
THEOREM OverflowIsHonest == Spec => []OverflowOnlyWhenFull
  <1>1. ReportInv => OverflowOnlyWhenFull
    BY DEF ReportInv
  <1> QED
    BY <1>1, ReportInvariant, PTL

\* Only Close and Bump, AppendEntry and Overflow change reports, and they
\* change the one that is not yet counted.
LEMMA FrozenStep ==
    ASSUME ReportInv, NEW w \in Workers, Step(w), NEW r \in 0 .. (numReports - 1)
    PROVE  /\ reportBalance'[r] = reportBalance[r]
           /\ numLogEntries'[r] = numLogEntries[r]
           /\ hasOverflowed'[r] = hasOverflowed[r]
           /\ transferLog'[r] = transferLog[r]
  <1>a. TypeOK /\ ReadsHold(w)
    BY DEF ReportInv
  <1>b. r \in Reports /\ r # numReports
    BY <1>a, ReportAssumption DEF TypeOK, Reports
  <1>1. CASE Overflow(w)
    BY <1>a, <1>b, <1>1 DEF Overflow, TypeOK
  <1>2. CASE AppendEntry(w)
    BY <1>a, <1>b, <1>2 DEF AppendEntry, ReadsHold, TypeOK
  <1>3. CASE Close(w)
    BY <1>a, <1>b, <1>3 DEF Close, TypeOK, log
  <1>4. CASE UNCHANGED <<reportBalance, numLogEntries, hasOverflowed, transferLog>>
    BY <1>4
  <1>5. \/ Overflow(w) \/ AppendEntry(w) \/ Close(w)
        \/ UNCHANGED <<reportBalance, numLogEntries, hasOverflowed, transferLog>>
    BY DEF Step, DoCommand, EndOfDay, Done, LockTransfer, LockLog, SkipRecord, Overflow,
       FindSlot, AppendEntry, UnlockTransfer, UnlockLog, LockReport, LockToClose, Test, Close,
       Refuse, Bump, UnlockToPost, Post, UnlockReport, ResetCounter, Decrement, UnlockToWait,
       LeaveReport, Wait, Goto, NextDay, LeaveReport, Wait, report, log
  <1> QED
    BY <1>1, <1>2, <1>3, <1>4, <1>5

\* A report that numReports counts does not change any more: a transfer that is
\* under way when the day is closed goes to the next report.
THEOREM ReportsAreFrozen == Spec => ClosedReportsFrozen
  <1> DEFINE Frozen ==
               \A r \in 0 .. (numReports - 1) :
                  /\ reportBalance'[r] = reportBalance[r]
                  /\ numLogEntries'[r] = numLogEntries[r]
                  /\ hasOverflowed'[r] = hasOverflowed[r]
                  /\ transferLog'[r] = transferLog[r]
  <1>1. ReportInv /\ [Next]_vars => [Frozen]_vars
    <2> SUFFICES ASSUME ReportInv, Next PROVE Frozen \/ UNCHANGED vars
      OBVIOUS
    <2> QED
      BY FrozenStep DEF Next, Finished
  <1> QED
    BY <1>1, ReportInvariant, PTL DEF Spec, ClosedReportsFrozen

-----------------------------------------------------------------------------
(***************************************************************************)
(* Every large transfer is logged once                                     *)
(***************************************************************************)
\* Report_Transfer has decided what becomes of entry t of w on day d.
Handled(w, d, t) ==
    \/ Passed(w, d, t[1], t[2])
    \/ d = day[w] /\ t = <<pos[w], leg[w]>> /\ pc[w] \in {"unlockTransfer", "unlockLog"}

\* The place of the entry that w passes to Report_Transfer.
Current(w) == <<pos[w], leg[w]>>

LoggedOrLost(e) ==
    \/ \E q \in Reports \X Slots : PlacesOf(e) = {q}
    \/ PlacesOf(e) = {} /\ StorageFull

\* A worker that ends its day has executed all of it, and Report_Transfer writes
\* to a log only what is large enough.
PlaceInv ==
    /\ \A w \in Workers : pc[w] \in Reporting => pos[w] > Len(Today(w))
    /\ \A w \in Workers : pc[w] = "append" => Reportable(Entry(w))

\* An entry is logged from the moment at which Report_Transfer has handled it, and
\* not before.
LoggedInv ==
    \A w \in Workers, d \in Days : \A t \in EntryPlaces(w, d) :
       IF Handled(w, d, t) /\ Reportable(EntryAt(w, d, t))
       THEN LoggedOrLost(EntryAt(w, d, t))
       ELSE PlacesOf(EntryAt(w, d, t)) = {}

\* Places of entries lie in the schedule.
LEMMA PlaceTypes ==
    ASSUME NEW w \in Workers, NEW d \in Days, NEW t \in EntryPlaces(w, d)
    PROVE  /\ d \in Int
           /\ t = <<t[1], t[2]>>
           /\ Len(Schedule[w][d]) \in Nat /\ t[1] \in 1 .. Len(Schedule[w][d])
           /\ Len(Schedule[w][d][t[1]].log) \in Nat
           /\ t[2] \in 1 .. Len(Schedule[w][d][t[1]].log)
  <1>1. Schedule[w][d] \in Seq(Commands) /\ d \in Int
    BY ReportAssumption DEF Days
  <1>2. PICK p \in 1 .. Len(Schedule[w][d]) : t \in {p} \X (1 .. Len(Schedule[w][d][p].log))
    BY DEF EntryPlaces
  <1>3. Schedule[w][d][p] \in Commands
    BY <1>1, <1>2
  <1>4. Len(Schedule[w][d][p].log) \in Nat
    BY <1>3 DEF Commands
  <1>5. t[1] = p /\ t[2] \in 1 .. Len(Schedule[w][d][p].log) /\ t = <<t[1], t[2]>>
    BY <1>2
  <1> QED
    BY <1>1, <1>2, <1>4, <1>5

\* The entry that a worker records has a place in the schedule, and is not handled.
LEMMA CurrentPlace ==
    ASSUME ReportInv, NEW w \in Workers, pc[w] \in Recording
    PROVE  /\ day[w] \in Days
           /\ Current(w) \in EntryPlaces(w, day[w])
           /\ EntryAt(w, day[w], Current(w)) = Entry(w)
           /\ pc[w] \notin {"unlockTransfer", "unlockLog"} => ~Handled(w, day[w], Current(w))
  <1>1. TypeOK /\ InSchedule(w)
    BY DEF ReportInv
  <1>2. day[w] \in Days /\ day[w] \in Int /\ pos[w] \in Nat \ {0} /\ leg[w] \in Nat \ {0}
    BY <1>1 DEF TypeOK, Days
  <1>3. pos[w] \in 1 .. Len(Today(w))
    BY <1>1, <1>2, DayTypes DEF InSchedule
  <1>4. leg[w] \in 1 .. Len(Today(w)[pos[w]].log)
    BY <1>1, <1>2, <1>3, DayTypes DEF InSchedule
  <1>5. Current(w) \in EntryPlaces(w, day[w])
    BY <1>3, <1>4 DEF Current, EntryPlaces, Today
  <1>6. EntryAt(w, day[w], Current(w)) = Entry(w)
    BY DEF EntryAt, Entry, Today, Current
  <1>7. ASSUME pc[w] \notin {"unlockTransfer", "unlockLog"}
        PROVE  ~Handled(w, day[w], Current(w))
    BY <1>2, <1>7 DEF Handled, Passed, Current
  <1> QED
    BY <1>2, <1>5, <1>6, <1>7

\* Report_Transfer makes up its mind in one of three steps.
Decides(w) == SkipRecord(w) \/ Overflow(w) \/ AppendEntry(w)

\* It handles the entry that it was called for, and forgets none.
LEMMA HandledStep ==
    ASSUME ReportInv, PlaceInv, NEW w \in Workers, Step(w),
           NEW v \in Workers, NEW d \in Days, NEW t \in EntryPlaces(v, d)
    PROVE  Handled(v, d, t)' <=>
              Handled(v, d, t) \/ (Decides(w) /\ v = w /\ d = day[w] /\ t = Current(w))
  <1>a. TypeOK /\ InSchedule(w)
    BY DEF ReportInv
  <1>b. day[w] \in Int /\ pos[w] \in Nat \ {0} /\ leg[w] \in Nat \ {0}
    BY <1>a DEF TypeOK, Days
  <1>c. /\ d \in Int /\ t = <<t[1], t[2]>>
        /\ t[1] \in Nat \ {0} /\ t[2] \in Nat \ {0}
        /\ Len(Schedule[v][d]) \in Nat /\ t[1] <= Len(Schedule[v][d])
        /\ Len(Schedule[v][d][t[1]].log) \in Nat /\ t[2] <= Len(Schedule[v][d][t[1]].log)
    <2>1. /\ d \in Int /\ t = <<t[1], t[2]>>
          /\ Len(Schedule[v][d]) \in Nat /\ t[1] \in 1 .. Len(Schedule[v][d])
          /\ Len(Schedule[v][d][t[1]].log) \in Nat
          /\ t[2] \in 1 .. Len(Schedule[v][d][t[1]].log)
      BY PlaceTypes
    <2> QED
      BY <2>1
  <1>1. CASE v # w
    BY <1>a, <1>1, OthersStay DEF Handled, Passed
  <1>2. CASE v = w
    <2>1. CASE Decides(w)
      <3>1. UNCHANGED place /\ pc'[w] = "unlockTransfer"
        BY <1>a, <2>1 DEF Decides, SkipRecord, Overflow, AppendEntry, Goto, TypeOK
      <3> QED
        BY <1>2, <2>1, <3>1 DEF Handled, Passed, Current, place
    <2>2. CASE UnlockLog(w)
      <3>1. CASE leg[w] < Len(Today(w)[pos[w]].log)
        <4>1. /\ pc'[w] = "lockTransfer" /\ leg'[w] = leg[w] + 1
              /\ pos'[w] = pos[w] /\ day'[w] = day[w] /\ pc[w] = "unlockLog"
          BY <1>a, <2>2, <3>1 DEF UnlockLog, Goto, TypeOK
        <4> QED
          BY <1>b, <1>c, <1>2, <2>2, <4>1
          DEF Handled, Passed, Decides, SkipRecord, Overflow, AppendEntry
      <3>2. CASE ~(leg[w] < Len(Today(w)[pos[w]].log))
        <4>1. /\ pc'[w] = "work" /\ leg'[w] = 1 /\ pc[w] = "unlockLog"
              /\ pos'[w] = pos[w] + 1 /\ day'[w] = day[w]
          BY <1>a, <2>2, <3>2 DEF UnlockLog, Goto, TypeOK
        <4>2. d = day[w] /\ t[1] = pos[w] => t[2] <= leg[w]
          BY <1>b, <1>c, <1>2, <3>2 DEF Today
        <4> QED
          BY <1>b, <1>c, <1>2, <2>2, <4>1, <4>2
          DEF Handled, Passed, Decides, SkipRecord, Overflow, AppendEntry
      <3> QED
        BY <3>1, <3>2
    <2>3. CASE ResetCounter(w) \/ Wait(w)
      <3>1. /\ pc'[w] = "work" /\ leg'[w] = 1 /\ leg[w] = 1 /\ pos'[w] = 1
            /\ day'[w] = day[w] + 1 /\ pc[w] \in {"resetCounter", "wait"}
        BY <1>a, <2>3 DEF ResetCounter, Wait, NextDay, Goto, InSchedule, Recording, TypeOK
      <3>2. pos[w] > Len(Schedule[w][day[w]])
        BY <3>1 DEF PlaceInv, Reporting, Today
      <3> QED
        BY <1>b, <1>c, <1>2, <2>3, <3>1, <3>2
        DEF Handled, Passed, Decides, SkipRecord, Overflow, AppendEntry
    <2>4. CASE /\ UNCHANGED place /\ ~Decides(w)
               /\ pc'[w] \in {"unlockTransfer", "unlockLog"} <=>
                     pc[w] \in {"unlockTransfer", "unlockLog"}
      BY <1>2, <2>4 DEF Handled, Passed, place
    <2>5. \/ Decides(w) \/ UnlockLog(w) \/ ResetCounter(w) \/ Wait(w)
          \/ /\ UNCHANGED place
             /\ pc'[w] \in {"unlockTransfer", "unlockLog"} <=>
                   pc[w] \in {"unlockTransfer", "unlockLog"}
      <3>1. CASE DoCommand(w) \/ EndOfDay(w) \/ Done(w) \/ LockTransfer(w) \/ LockLog(w)
        BY <1>a, <3>1
        DEF DoCommand, EndOfDay, Done, LockTransfer, LockLog, Goto, TypeOK
      <3>2. CASE FindSlot(w) \/ UnlockTransfer(w)
        BY <1>a, <3>2 DEF FindSlot, UnlockTransfer, Goto, TypeOK
      <3>3. CASE LockReport(w) \/ LockToClose(w) \/ Test(w) \/ Close(w) \/ Refuse(w) \/ Bump(w) \/ UnlockToPost(w)
        BY <1>a, <3>3
        DEF LockReport, LockToClose, Test, Close, Refuse, Bump, UnlockToPost, Goto, TypeOK
      <3>4. CASE Post(w) \/ UnlockReport(w) \/ Decrement(w) \/ UnlockToWait(w) \/ LeaveReport(w)
        BY <1>a, <3>4
        DEF Post, UnlockReport, Decrement, UnlockToWait, LeaveReport, Goto, TypeOK
      <3> QED
        BY <3>1, <3>2, <3>3, <3>4 DEF Step, Decides
    <2> QED
      BY <2>1, <2>2, <2>3, <2>4, <2>5
  <1> QED
    BY <1>1, <1>2

\* Storage that is used up stays so.
LEMMA FullStays ==
    ASSUME ReportInv, NEW w \in Workers, Step(w), StorageFull
    PROVE  StorageFull'
  <1>a. TypeOK /\ ReadsHold(w)
    BY DEF ReportInv
  <1>1. numReports = MaxReports => numReports' = MaxReports
    <2>1. Bump(w) => numReports < MaxReports
      BY <1>a DEF Bump, ReadsHold
    <2>2. ~Bump(w) => numReports' = numReports
      BY DEF Step, DoCommand, EndOfDay, Done, LockTransfer, LockLog, SkipRecord, Overflow,
       FindSlot, AppendEntry, UnlockTransfer, UnlockLog, LockReport, LockToClose, Test, Close,
       Refuse, Bump, UnlockToPost, Post, UnlockReport, ResetCounter, Decrement, UnlockToWait,
       LeaveReport, Wait, report
    <2> QED
      BY <1>a, <2>1, <2>2, ReportAssumption DEF TypeOK
  <1>2. ASSUME NEW r \in Reports, hasOverflowed[r]
        PROVE  hasOverflowed'[r]
    <2>1. CASE Overflow(w)
      BY <1>a, <1>2, <2>1 DEF Overflow, TypeOK
    <2>2. CASE UNCHANGED hasOverflowed
      BY <1>2, <2>2
    <2>3. Overflow(w) \/ UNCHANGED hasOverflowed
      BY DEF Step, DoCommand, EndOfDay, Done, LockTransfer, LockLog, SkipRecord, Overflow,
       FindSlot, AppendEntry, UnlockTransfer, UnlockLog, LockReport, LockToClose, Test, Close,
       Refuse, Bump, UnlockToPost, Post, UnlockReport, ResetCounter, Decrement, UnlockToWait,
       LeaveReport, Wait, report, log
    <2> QED
      BY <2>1, <2>2, <2>3
  <1> QED
    BY <1>1, <1>2 DEF StorageFull

\* Only AppendEntry writes to a log, to a slot that was free.
LEMMA PlacesStep ==
    ASSUME ReportInv, NEW w \in Workers, Step(w), NEW e
    PROVE  /\ AppendEntry(w) /\ e = Entry(w) =>
                 \E q \in Reports \X Slots : PlacesOf(e)' = PlacesOf(e) \cup {q}
           /\ ~(AppendEntry(w) /\ e = Entry(w)) => PlacesOf(e)' = PlacesOf(e)
  <1>a. TypeOK /\ ReadsHold(w)
    BY DEF ReportInv
  <1>1. CASE AppendEntry(w)
    <2> DEFINE r == rep[w]
               n == num[w]
    <2>1. /\ r \in Reports /\ n \in Slots /\ n = numLogEntries[r]
      <3>1. r = numReports /\ numReports \in Reports
        BY <1>a, <1>1, ReportAssumption DEF AppendEntry, ReadsHold, TypeOK, Reports
      <3>2. n = numLogEntries[r] /\ n \in 0 .. MaxEntries /\ n < MaxEntries
        BY <1>a, <1>1, <3>1 DEF AppendEntry, ReadsHold, TypeOK
      <3> QED
        BY <3>1, <3>2, ReportAssumption DEF Slots
    <2>2. /\ numLogEntries'[r] = n + 1
          /\ \A x \in Reports : x # r => numLogEntries'[x] = numLogEntries[x]
          /\ \A x \in Reports : numLogEntries[x] \in Int
      BY <1>a, <1>1, <2>1 DEF AppendEntry, TypeOK
    <2>3. /\ transferLog'[r][n] = Entry(w)
          /\ \A x \in Reports, y \in Slots :
                <<x, y>> # <<r, n>> => transferLog'[x][y] = transferLog[x][y]
      BY <1>a, <1>1, <2>1 DEF AppendEntry, TypeOK
    <2> HIDE DEF r, n
    <2>4. ASSUME NEW q \in Reports \X Slots
          PROVE  q \in PlacesOf(e)' <=> q \in PlacesOf(e) \/ (e = Entry(w) /\ q = <<r, n>>)
      <3>1. q \in PlacesOf(e)' <=> q[2] < numLogEntries'[q[1]] /\ transferLog'[q[1]][q[2]] = e
        BY DEF PlacesOf
      <3>2. q \in PlacesOf(e) <=> q[2] < numLogEntries[q[1]] /\ transferLog[q[1]][q[2]] = e
        BY DEF PlacesOf
      <3>3. q[1] \in Reports /\ q[2] \in Slots /\ q[2] \in Int /\ n \in Int /\ q = <<q[1], q[2]>>
        BY <2>1 DEF Slots
      <3>4. CASE q = <<r, n>>
        BY <2>1, <2>2, <2>3, <3>1, <3>2, <3>3, <3>4
      <3>5. CASE q # <<r, n>>
        <4>1. transferLog'[q[1]][q[2]] = transferLog[q[1]][q[2]]
          BY <2>3, <3>3, <3>5
        <4>2. q[2] < numLogEntries'[q[1]] <=> q[2] < numLogEntries[q[1]]
          BY <2>1, <2>2, <3>3, <3>5
        <4> QED
          BY <3>1, <3>2, <3>5, <4>1, <4>2
      <3> QED
        BY <3>4, <3>5
    <2>5. PlacesOf(e) \subseteq Reports \X Slots /\ PlacesOf(e)' \subseteq Reports \X Slots
      BY DEF PlacesOf
    <2>6. <<r, n>> \in Reports \X Slots
      BY <2>1
    <2>7. e = Entry(w) => PlacesOf(e)' = PlacesOf(e) \cup {<<r, n>>}
      BY <2>4, <2>5, <2>6
    <2>8. e # Entry(w) => PlacesOf(e)' = PlacesOf(e)
      BY <2>4, <2>5
    <2> QED
      BY <1>1, <2>6, <2>7, <2>8
  <1>2. CASE UNCHANGED <<numLogEntries, transferLog>> /\ ~AppendEntry(w)
    BY <1>2 DEF PlacesOf
  <1>3. AppendEntry(w) \/ UNCHANGED <<numLogEntries, transferLog>>
    BY DEF Step, DoCommand, EndOfDay, Done, LockTransfer, LockLog, SkipRecord, Overflow,
       FindSlot, AppendEntry, UnlockTransfer, UnlockLog, LockReport, LockToClose, Test, Close,
       Refuse, Bump, UnlockToPost, Post, UnlockReport, ResetCounter, Decrement, UnlockToWait,
       LeaveReport, Wait, report, log
  <1> QED
    BY <1>1, <1>2, <1>3

\* No entry is logged before a worker has executed anything.
LEMMA LoggedInit == Init => PlaceInv /\ LoggedInv
  <1> SUFFICES ASSUME Init PROVE PlaceInv /\ LoggedInv
    OBVIOUS
  <1>1. \A w \in Workers : pc[w] \notin Reporting /\ pc[w] # "append"
    BY DEF Init, Reporting
  <1>2. ASSUME NEW w \in Workers, NEW d \in Days, NEW t \in EntryPlaces(w, d)
        PROVE  ~Handled(w, d, t) /\ PlacesOf(EntryAt(w, d, t)) = {}
    <2>1. d \in Int /\ d >= 1 /\ t[1] \in Int /\ t[1] >= 1 /\ t[2] \in Int /\ t[2] >= 1
      <3>1. t[1] \in 1 .. Len(Schedule[w][d]) /\ t[2] \in 1 .. Len(Schedule[w][d][t[1]].log)
        BY PlaceTypes
      <3> QED
        BY <3>1 DEF Days
    <2>2. day[w] = 1 /\ pos[w] = 1 /\ leg[w] = 1 /\ pc[w] = "work"
      BY DEF Init
    <2>3. ~Handled(w, d, t)
      BY <2>1, <2>2 DEF Handled, Passed
    <2>4. PlacesOf(EntryAt(w, d, t)) = {}
      BY ReportAssumption DEF Init, PlacesOf, Slots
    <2> QED
      BY <2>3, <2>4
  <1> QED
    BY <1>1, <1>2 DEF PlaceInv, LoggedInv

\* A day ends when nothing is left of it.
LEMMA DayOverStep ==
    ASSUME ReportInv, PlaceInv, NEW w \in Workers, Step(w), NEW v \in Workers,
           pc'[v] \in Reporting
    PROVE  pos'[v] > Len(Today(v)')
  <1>a. TypeOK
    BY DEF ReportInv
  <1>1. CASE v # w
    BY <1>a, <1>1, OthersStay DEF PlaceInv, Today
  <1>2. CASE v = w
    <2>1. CASE EndOfDay(w)
      BY <1>2, <2>1 DEF EndOfDay, Today, place
    <2>2. CASE UNCHANGED place /\ pc[w] \in Reporting
      BY <1>2, <2>2 DEF PlaceInv, Today, place
    <2>3. EndOfDay(w) \/ (UNCHANGED place /\ pc[w] \in Reporting)
      <3>1. CASE DoCommand(w) \/ EndOfDay(w) \/ Done(w) \/ LockTransfer(w) \/ LockLog(w)
        BY <1>a, <1>2, <3>1
        DEF DoCommand, EndOfDay, Done, LockTransfer, LockLog, Goto, TypeOK, Reporting
      <3>2. CASE SkipRecord(w) \/ Overflow(w) \/ FindSlot(w) \/ AppendEntry(w) \/ UnlockTransfer(w) \/ UnlockLog(w)
        BY <1>a, <1>2, <3>2
        DEF SkipRecord, Overflow, FindSlot, AppendEntry, UnlockTransfer, UnlockLog, Goto, TypeOK, Reporting
      <3>3. CASE LockReport(w) \/ LockToClose(w) \/ Test(w) \/ Close(w) \/ Refuse(w) \/ Bump(w) \/ UnlockToPost(w)
        BY <1>a, <1>2, <3>3
        DEF LockReport, LockToClose, Test, Close, Refuse, Bump, UnlockToPost, Goto, TypeOK, Reporting
      <3>4. CASE Post(w) \/ UnlockReport(w) \/ ResetCounter(w) \/ Decrement(w) \/ UnlockToWait(w) \/ LeaveReport(w) \/ Wait(w)
        BY <1>a, <1>2, <3>4
        DEF Post, UnlockReport, ResetCounter, Decrement, UnlockToWait, LeaveReport, Wait, Goto, NextDay, TypeOK, Reporting
      <3> QED
        BY <3>1, <3>2, <3>3, <3>4 DEF Step
    <2> QED
      BY <2>1, <2>2, <2>3
  <1> QED
    BY <1>1, <1>2

\* Report_Transfer writes to a log only what is large enough.
LEMMA ReportableStep ==
    ASSUME ReportInv, PlaceInv, NEW w \in Workers, Step(w), NEW v \in Workers,
           pc'[v] = "append"
    PROVE  Reportable(Entry(v))'
  <1>a. TypeOK
    BY DEF ReportInv
  <1>1. CASE v # w
    BY <1>a, <1>1, OthersStay DEF PlaceInv, Today, Entry, Reportable
  <1>2. CASE v = w
    <2>1. CASE FindSlot(w)
      BY <1>2, <2>1 DEF FindSlot, Today, Entry, Reportable, place
    <2>2. FindSlot(w)
      <3>1. CASE DoCommand(w) \/ EndOfDay(w) \/ Done(w) \/ LockTransfer(w) \/ LockLog(w)
        BY <1>a, <1>2, <3>1
        DEF DoCommand, EndOfDay, Done, LockTransfer, LockLog, Goto, TypeOK
      <3>2. CASE SkipRecord(w) \/ Overflow(w) \/ FindSlot(w) \/ AppendEntry(w) \/ UnlockTransfer(w) \/ UnlockLog(w)
        BY <1>a, <1>2, <3>2
        DEF SkipRecord, Overflow, FindSlot, AppendEntry, UnlockTransfer, UnlockLog, Goto, TypeOK
      <3>3. CASE LockReport(w) \/ LockToClose(w) \/ Test(w) \/ Close(w) \/ Refuse(w) \/ Bump(w) \/ UnlockToPost(w)
        BY <1>a, <1>2, <3>3
        DEF LockReport, LockToClose, Test, Close, Refuse, Bump, UnlockToPost, Goto, TypeOK
      <3>4. CASE Post(w) \/ UnlockReport(w) \/ ResetCounter(w) \/ Decrement(w) \/ UnlockToWait(w) \/ LeaveReport(w) \/ Wait(w)
        BY <1>a, <1>2, <3>4
        DEF Post, UnlockReport, ResetCounter, Decrement, UnlockToWait, LeaveReport, Wait, Goto, NextDay, TypeOK
      <3> QED
        BY <3>1, <3>2, <3>3, <3>4 DEF Step
    <2> QED
      BY <2>1, <2>2
  <1> QED
    BY <1>1, <1>2

\* It refuses what is large enough only when the storage is used up.
LEMMA RefusedFull ==
    ASSUME ReportInv, NEW w \in Workers, SkipRecord(w) \/ Overflow(w), Reportable(Entry(w))
    PROVE  StorageFull'
  <1>1. TypeOK
    BY DEF ReportInv
  <1>2. CASE SkipRecord(w)
    BY <1>1, <1>2, ReportAssumption DEF SkipRecord, StorageFull, TypeOK, report
  <1>3. CASE Overflow(w)
    <2>1. numReports \in Reports
      BY <1>1, <1>3, ReportAssumption DEF Overflow, TypeOK, Reports
    <2> QED
      BY <1>1, <1>3, <2>1 DEF Overflow, StorageFull, TypeOK
  <1> QED
    BY <1>2, <1>3

\* The places of the workers stay in order, whatever they step over.
LEMMA PlaceStep == ReportInv /\ PlaceInv /\ [Next]_vars => PlaceInv'
  <1> SUFFICES ASSUME ReportInv, PlaceInv, [Next]_vars PROVE PlaceInv'
    OBVIOUS
  <1>1. CASE UNCHANGED vars
    <2>1. UNCHANGED <<pc, day, pos, leg>>
      BY <1>1 DEF vars, place
    <2> QED
      BY <2>1 DEF PlaceInv, Today, Entry, Reportable
  <1>2. ASSUME NEW w \in Workers, Step(w) PROVE PlaceInv'
    BY <1>2, DayOverStep, ReportableStep DEF PlaceInv
  <1> QED
    BY <1>1, <1>2 DEF Next, Finished

\* Report_Transfer logs its own entry, once, and no other.
LEMMA LoggedStep ==
    ASSUME DistinctEntries, ReportInv, PlaceInv, LoggedInv, NEW w \in Workers, Step(w)
    PROVE  LoggedInv'
  <1>1. ASSUME NEW v \in Workers, NEW d \in Days, NEW t \in EntryPlaces(v, d)
        PROVE  (IF Handled(v, d, t) /\ Reportable(EntryAt(v, d, t))
                THEN LoggedOrLost(EntryAt(v, d, t))
                ELSE PlacesOf(EntryAt(v, d, t)) = {})'
    <2> DEFINE e == EntryAt(v, d, t)
               mine == v = w /\ d = day[w] /\ t = Current(w)
    <2>1. EntryAt(v, d, t)' = e /\ (Reportable(e)' <=> Reportable(e))
      BY DEF EntryAt, Reportable
    <2>2. Handled(v, d, t)' <=> Handled(v, d, t) \/ (Decides(w) /\ mine)
      BY HandledStep
    <2>3. IF Handled(v, d, t) /\ Reportable(e) THEN LoggedOrLost(e) ELSE PlacesOf(e) = {}
      BY DEF LoggedInv
    <2>4. /\ AppendEntry(w) /\ e = Entry(w) =>
                \E q \in Reports \X Slots : PlacesOf(e)' = PlacesOf(e) \cup {q}
          /\ ~(AppendEntry(w) /\ e = Entry(w)) => PlacesOf(e)' = PlacesOf(e)
      BY PlacesStep
    <2>5. pc[w] \in Recording => (e = Entry(w) <=> mine)
      <3>1. SUFFICES ASSUME pc[w] \in Recording PROVE e = Entry(w) <=> mine
        OBVIOUS
      <3>2. /\ day[w] \in Days /\ Current(w) \in EntryPlaces(w, day[w])
            /\ EntryAt(w, day[w], Current(w)) = Entry(w)
        BY <3>1, CurrentPlace
      <3> QED
        BY <3>2 DEF DistinctEntries
    <2>6. mine /\ Decides(w) => ~Handled(v, d, t)
      BY CurrentPlace DEF Decides, SkipRecord, Overflow, AppendEntry, Recording
    <2>7. StorageFull => StorageFull'
      BY FullStays
    <2> HIDE DEF e
    <2>8. CASE Decides(w) /\ mine
      <3>1. PlacesOf(e) = {} /\ Handled(v, d, t)' /\ e = Entry(w)
        BY <2>2, <2>3, <2>5, <2>6, <2>8
        DEF Decides, SkipRecord, Overflow, AppendEntry, Recording
      <3>2. CASE AppendEntry(w)
        <4>1. LoggedOrLost(e)'
          BY <2>4, <3>1, <3>2 DEF LoggedOrLost
        <4>2. Reportable(e)
          BY <3>1, <3>2 DEF PlaceInv, AppendEntry
        <4> QED
          BY <2>1, <3>1, <4>1, <4>2
      <3>3. CASE SkipRecord(w) \/ Overflow(w)
        <4>1. PlacesOf(e)' = {}
          BY <2>4, <3>1, <3>3 DEF SkipRecord, Overflow, AppendEntry
        <4>2. Reportable(e) => StorageFull'
          BY <3>1, <3>3, RefusedFull
        <4> QED
          BY <2>1, <3>1, <4>1, <4>2 DEF LoggedOrLost
      <3> QED
        BY <2>8, <3>2, <3>3 DEF Decides
    <2>9. CASE ~(Decides(w) /\ mine)
      <3>1. PlacesOf(e)' = PlacesOf(e)
        BY <2>4, <2>5, <2>9 DEF Decides, AppendEntry, Recording
      <3>2. LoggedOrLost(e) => LoggedOrLost(e)'
        BY <2>7, <3>1 DEF LoggedOrLost
      <3> QED
        BY <2>1, <2>2, <2>3, <2>9, <3>1, <3>2
    <2> QED
      BY <2>8, <2>9
  <1> QED
    BY <1>1 DEF LoggedInv

\* What the invariant says of an entry that has been reported.
LEMMA LoggedShown == ReportInv /\ LoggedInv => LoggedOnce
  <1> SUFFICES ASSUME LoggedInv, NEW w \in Workers, NEW d \in Days,
                      NEW t \in EntryPlaces(w, d), Passed(w, d, t[1], t[2]),
                      Reportable(EntryAt(w, d, t))
               PROVE  \/ Cardinality(PlacesOf(EntryAt(w, d, t))) = 1
                      \/ PlacesOf(EntryAt(w, d, t)) = {} /\ StorageFull
    BY DEF LoggedOnce
  <1>1. LoggedOrLost(EntryAt(w, d, t))
    BY DEF LoggedInv, Handled
  <1>2. ASSUME NEW q, PlacesOf(EntryAt(w, d, t)) = {q}
        PROVE  Cardinality(PlacesOf(EntryAt(w, d, t))) = 1
    BY <1>2, FS_Singleton
  <1> QED
    BY <1>1, <1>2 DEF LoggedOrLost

\* Every transfer that is large enough is in exactly one log, once, unless a log
\* overflowed or the storage for reports is used up, in every interleaving of the
\* workers and of the nightly report.
THEOREM TransfersLoggedOnce ==
    ASSUME DistinctEntries
    PROVE  Spec => []LoggedOnce
  <1>1. ReportInv /\ PlaceInv /\ LoggedInv /\ [Next]_vars => LoggedInv'
    <2> SUFFICES ASSUME ReportInv, PlaceInv, LoggedInv, [Next]_vars PROVE LoggedInv'
      OBVIOUS
    <2>1. CASE UNCHANGED vars
      <3>1. UNCHANGED <<numReports, hasOverflowed, numLogEntries, transferLog,
                        pc, day, pos, leg>>
        BY <2>1 DEF vars, report, log, place
      <3>2. \A e : (LoggedOrLost(e)' <=> LoggedOrLost(e)) /\ PlacesOf(e)' = PlacesOf(e)
        BY <3>1 DEF LoggedOrLost, PlacesOf, StorageFull
      <3>3. \A w, d, t : Handled(w, d, t)' <=> Handled(w, d, t)
        BY <3>1 DEF Handled, Passed
      <3>4. \A e : Reportable(e)' <=> Reportable(e)
        BY DEF Reportable
      <3> QED
        BY <3>2, <3>3, <3>4 DEF LoggedInv, EntryAt
    <2> QED
      BY <2>1, LoggedStep DEF Next, Finished
  <1> QED
    BY <1>1, LoggedInit, LoggedShown, PlaceStep, ReportInvariant, PTL DEF Spec

-----------------------------------------------------------------------------
(***************************************************************************)
(* The first night                                                         *)
(***************************************************************************)
\* A worker that Report_DoReport has counted, and the one that closes the day.
Waiting(w) == pc[w] \in {"unlockToWait", "leaveReport", "wait"}

Closing(w) == pc[w] \in {"close", "bump"}

Releasing(w) == pc[w] \in {"unlockToPost", "post", "resetCounter"}

Counted == {w \in Workers : Waiting(w)}

\* Until the first report is due, bank->counter is the number of the workers
\* that have not been counted: nothing has reset it yet.
DayOpen ==
    /\ \A w \in Workers : day[w] = 1 /\ ~Closing(w) /\ ~Releasing(w)
    /\ numReports = 0
    /\ startingNew = 0
    /\ counter = NumWorkers - Cardinality(Counted)
    /\ \A w \in Workers : pc[w] = "decrement" => num[w] = counter

\* w writes the first report, and everyone else waits for it.
DayClosing(w) ==
    /\ Closing(w)
    /\ \A v \in Workers : day[v] = 1 /\ (v # w => Waiting(v))
    /\ numReports = 0
    /\ startingNew = 0

\* A worker when the first report is written: it has called Report_DoReport.
Released(w) == day[w] >= 2 \/ Waiting(w) \/ Releasing(w)

DayClosed ==
    /\ numReports > 0 \/ MaxReports = 0
    /\ \A w \in Workers : Released(w)

NightInv == DayOpen \/ (\E w \in Workers : DayClosing(w)) \/ DayClosed

\* Nobody has been counted when the workers start.
LEMMA NightInit == Init => NightInv
  <1> SUFFICES ASSUME Init PROVE DayOpen
    BY DEF NightInv
  <1>1. Counted = {}
    BY DEF Init, Counted, Waiting
  <1>2. Cardinality(Counted) = 0
    BY <1>1, FS_EmptySet
  <1>3. counter = NumWorkers - Cardinality(Counted)
    BY <1>2, ReportAssumption DEF Init
  <1> HIDE DEF Counted
  <1> QED
    BY <1>3 DEF Init, DayOpen, Closing, Releasing

\* If one worker only is not counted, all others wait.
LEMMA OneLeft ==
    ASSUME NEW w \in Workers, ~Waiting(w), NumWorkers - Cardinality(Counted) = 1
    PROVE  \A v \in Workers : v # w => Waiting(v)
  <1>1. IsFiniteSet(Workers \ {w}) /\ Cardinality(Workers \ {w}) = NumWorkers - 1
    BY WorkersAssumption, FS_RemoveElement
  <1>2. Counted \subseteq Workers \ {w}
    BY DEF Counted
  <1>3. IsFiniteSet(Counted) /\ Cardinality(Counted) \in Nat
    BY <1>1, <1>2, FS_Subset, FS_CardinalityType
  <1>4. Cardinality(Counted) = NumWorkers - 1
    <2>1. NumWorkers \in Nat /\ Cardinality(Counted) \in Nat
      BY <1>3, ReportAssumption
    <2> QED
      BY <2>1
  <1>5. Counted = Workers \ {w}
    BY <1>1, <1>2, <1>4, FS_Subset
  <1> QED
    BY <1>5 DEF Counted

\* While the day is open the workers are counted, and the last one closes it.
LEMMA OpenStep ==
    ASSUME ReportInv, DayOpen, NEW w \in Workers, Step(w)
    PROVE  DayOpen' \/ DayClosing(w)'
  <1>a. TypeOK /\ ReadsHold(w)
    BY DEF ReportInv
  <1>b. \A v \in Workers : v # w =>
           /\ pc'[v] = pc[v] /\ day'[v] = day[v] /\ num'[v] = num[v]
           /\ ~(HoldsReport(v) /\ HoldsReport(w))
    BY <1>a, OthersStay, MutualExclusion DEF ReportInv
  <1>c. /\ \A v \in Workers : day[v] = 1 /\ ~Closing(v) /\ ~Releasing(v)
        /\ numReports = 0 /\ startingNew = 0
        /\ counter = NumWorkers - Cardinality(Counted)
        /\ \A v \in Workers : pc[v] = "decrement" => num[v] = counter
    BY DEF DayOpen
  <1>1. CASE Test(w) /\ counter = 1
    <2>1. /\ pc'[w] = "close" /\ pc[w] = "test"
          /\ UNCHANGED <<day, numReports, startingNew>>
      BY <1>a, <1>1 DEF Test, Goto, TypeOK, report, night, place
    <2>2. \A v \in Workers : v # w => Waiting(v)
      BY <1>1, <1>c, <2>1, OneLeft DEF Waiting
    <2>3. DayClosing(w)'
      BY <1>b, <1>c, <2>1, <2>2 DEF DayClosing, Waiting, Closing
    <2> QED
      BY <2>3
  <1>2. CASE Decrement(w)
    <2>1. /\ pc[w] = "decrement" /\ pc'[w] = "unlockToWait" /\ counter' = counter - 1
          /\ UNCHANGED <<day, numReports, startingNew, num>>
      BY <1>a, <1>c, <1>2 DEF Decrement, Goto, TypeOK, report, place, local
    <2>2. Counted' = Counted \cup {w} /\ w \notin Counted
      BY <1>b, <2>1 DEF Counted, Waiting
    <2>3. IsFiniteSet(Counted)
      BY WorkersAssumption, FS_Subset DEF Counted
    <2>4. Cardinality(Counted') = Cardinality(Counted) + 1 /\ Cardinality(Counted) \in Nat
      BY <2>2, <2>3, FS_AddElement, FS_CardinalityType
    <2>5. counter' = NumWorkers - Cardinality(Counted')
      BY <1>c, <2>1, <2>4, ReportAssumption
    <2>6. \A v \in Workers : pc'[v] # "decrement"
      BY <1>b, <2>1 DEF HoldsReport
    <2>7. \A v \in Workers : day'[v] = 1 /\ ~Closing(v)' /\ ~Releasing(v)'
      BY <1>b, <1>c, <2>1 DEF Closing, Releasing
    <2>8. DayOpen'
      BY <1>c, <2>1, <2>5, <2>6, <2>7 DEF DayOpen
    <2> QED
      BY <2>8
  <1>3. CASE /\ UNCHANGED <<counter, numReports, startingNew>>
             /\ day'[w] = 1 /\ ~Closing(w)' /\ ~Releasing(w)'
             /\ Waiting(w)' <=> Waiting(w)
             /\ pc'[w] = "decrement" => num'[w] = counter
    <2>1. Counted' = Counted
      BY <1>b, <1>3 DEF Counted, Waiting
    <2>2. \A v \in Workers : day'[v] = 1 /\ ~Closing(v)' /\ ~Releasing(v)'
      BY <1>b, <1>c, <1>3 DEF Closing, Releasing
    <2>3. \A v \in Workers : pc'[v] = "decrement" => num'[v] = counter'
      BY <1>b, <1>c, <1>3
    <2>4. DayOpen'
      BY <1>c, <1>3, <2>1, <2>2, <2>3 DEF DayOpen
    <2> QED
      BY <2>4
  <1>4. \/ Test(w) /\ counter = 1
        \/ Decrement(w)
        \/ /\ UNCHANGED <<counter, numReports, startingNew>>
           /\ day'[w] = 1 /\ ~Closing(w)' /\ ~Releasing(w)'
           /\ Waiting(w)' <=> Waiting(w)
           /\ pc'[w] = "decrement" => num'[w] = counter
    <2>a. day[w] = 1 /\ ~Closing(w) /\ ~Releasing(w) /\ startingNew = 0
      BY <1>c
    <2>1. CASE DoCommand(w) \/ EndOfDay(w) \/ Done(w) \/ LockTransfer(w) \/ LockLog(w)
      BY <1>a, <2>a, <2>1
      DEF DoCommand, EndOfDay, Done, LockTransfer, LockLog, Goto, TypeOK,
          Waiting, Closing, Releasing, report, night, place
    <2>2. CASE SkipRecord(w) \/ Overflow(w) \/ FindSlot(w) \/ AppendEntry(w) \/ UnlockTransfer(w)
      BY <1>a, <2>a, <2>2
      DEF SkipRecord, Overflow, FindSlot, AppendEntry, UnlockTransfer, Goto, TypeOK,
          Waiting, Closing, Releasing, report, night, place
    <2>3. CASE UnlockLog(w)
      BY <1>a, <2>a, <2>3
      DEF UnlockLog, Goto, TypeOK, Waiting, Closing, Releasing, report, night
    <2>4. CASE LockReport(w) \/ LockToClose(w) \/ Test(w)
      BY <1>a, <2>a, <2>4
      DEF LockReport, LockToClose, Test, Goto, TypeOK,
          Waiting, Closing, Releasing, report, night, place
    <2>5. CASE UnlockToWait(w) \/ LeaveReport(w)
      BY <1>a, <2>a, <2>5
      DEF UnlockToWait, LeaveReport, Goto, TypeOK,
          Waiting, Closing, Releasing, report, night, place
    <2>6. ~(Close(w) \/ Refuse(w) \/ Bump(w) \/ UnlockToPost(w) \/ Post(w) \/ UnlockReport(w)
            \/ ResetCounter(w) \/ Wait(w))
      BY <2>a
      DEF Close, Refuse, Bump, UnlockToPost, Post, UnlockReport, ResetCounter, Wait,
          Closing, Releasing
    <2> QED
      BY <2>1, <2>2, <2>3, <2>4, <2>5, <2>6 DEF Step
  <1> QED
    BY <1>1, <1>2, <1>3, <1>4

\* The worker that closes the day writes the report while the others wait.
LEMMA ClosingStep ==
    ASSUME ReportInv, NEW u \in Workers, DayClosing(u), NEW w \in Workers, Step(w)
    PROVE  DayClosing(u)' \/ DayClosed'
  <1>a. TypeOK /\ ReadsHold(w)
    BY DEF ReportInv
  <1>b. \A v \in Workers : v # w => pc'[v] = pc[v] /\ day'[v] = day[v]
    BY <1>a, OthersStay
  <1>c. /\ Closing(u) /\ numReports = 0 /\ startingNew = 0
        /\ \A v \in Workers : day[v] = 1 /\ (v # u => Waiting(v))
    BY DEF DayClosing
  <1>1. CASE w # u
    <2>1. Waiting(w)
      BY <1>1, <1>c
    <2>2. /\ UNCHANGED <<numReports, startingNew>> /\ day'[w] = day[w] /\ Waiting(w)'
      <3>1. UnlockToWait(w) \/ LeaveReport(w)
        BY <1>c, <2>1 DEF Waiting, Step, DoCommand, EndOfDay, Done, LockTransfer, LockLog,
           SkipRecord, Overflow, FindSlot, AppendEntry, UnlockTransfer, UnlockLog, LockReport,
           LockToClose, Test, Close, Refuse, Bump, UnlockToPost, Post, UnlockReport,
           ResetCounter, Decrement, Wait
      <3> QED
        BY <1>a, <3>1 DEF UnlockToWait, LeaveReport, Goto, TypeOK, Waiting, report, night, place
    <2>3. \A v \in Workers : day'[v] = 1 /\ (v # u => Waiting(v)')
      BY <1>b, <1>c, <2>2 DEF Waiting
    <2>4. Closing(u)'
      BY <1>1, <1>b, <1>c DEF Closing
    <2>5. DayClosing(u)'
      BY <1>c, <2>2, <2>3, <2>4 DEF DayClosing
    <2> QED
      BY <2>5
  <1>2. CASE w = u
    <2>1. Close(w) \/ Refuse(w) \/ Bump(w)
      BY <1>2, <1>c DEF Closing, Step, DoCommand, EndOfDay, Done, LockTransfer, LockLog,
         SkipRecord, Overflow, FindSlot, AppendEntry, UnlockTransfer, UnlockLog, LockReport,
         LockToClose, Test, UnlockToPost, Post, UnlockReport,
         ResetCounter, Decrement, UnlockToWait, LeaveReport, Wait
    <2>2. CASE Close(w)
      <3>1. UNCHANGED <<numReports, startingNew, day>> /\ pc'[w] = "bump"
        BY <1>a, <2>2 DEF Close, Goto, TypeOK, night, place
      <3>2. DayClosing(u)'
        BY <1>2, <1>b, <1>c, <3>1 DEF DayClosing, Closing, Waiting
      <3> QED
        BY <3>2
    <2>3. CASE Refuse(w) \/ Bump(w)
      <3>1. pc'[w] = "unlockToPost" /\ UNCHANGED day
        BY <1>a, <2>3 DEF Refuse, Bump, Goto, TypeOK, place
      <3>2. \/ numReports' = 1
            \/ numReports' = 0 /\ MaxReports = 0
        BY <1>a, <1>c, <2>3, ReportAssumption DEF Refuse, Bump, ReadsHold, report
      <3>3. \A v \in Workers : Released(v)'
        BY <1>2, <1>b, <1>c, <3>1 DEF Released, Waiting, Releasing
      <3>4. DayClosed'
        BY <3>2, <3>3 DEF DayClosed
      <3> QED
        BY <3>4
    <2> QED
      BY <2>1, <2>2, <2>3
  <1> QED
    BY <1>1, <1>2

\* A day that is closed is not opened again, and no worker returns to it.
LEMMA ClosedStep ==
    ASSUME ReportInv, DayClosed, NEW w \in Workers, Step(w)
    PROVE  DayClosed'
  <1>a. TypeOK /\ ReadsHold(w)
    BY DEF ReportInv
  <1>b. \A v \in Workers : v # w => pc'[v] = pc[v] /\ day'[v] = day[v]
    BY <1>a, OthersStay
  <1>c. \A v \in Workers : Released(v)
    BY DEF DayClosed
  <1>1. numReports' > 0 \/ MaxReports = 0
    <2>1. Bump(w) => numReports' = numReports + 1
      BY <1>a DEF Bump, ReadsHold
    <2>2. ~Bump(w) => numReports' = numReports
      BY DEF Step, DoCommand, EndOfDay, Done, LockTransfer, LockLog, SkipRecord, Overflow,
         FindSlot, AppendEntry, UnlockTransfer, UnlockLog, LockReport, LockToClose, Test, Close,
         Refuse, Bump, UnlockToPost, Post, UnlockReport, ResetCounter, Decrement, UnlockToWait,
         LeaveReport, Wait, report
    <2>3. numReports \in Int /\ numReports >= 0
      BY <1>a, ReportAssumption DEF TypeOK
    <2> QED
      BY <2>1, <2>2, <2>3 DEF DayClosed
  <1>2. day[w] \in Nat /\ day[w] >= 1 /\ day'[w] \in {day[w], day[w] + 1}
    <2>1. day[w] \in Nat /\ day[w] >= 1
      BY <1>a, ReportAssumption DEF TypeOK, Days
    <2>2. ResetCounter(w) \/ Wait(w) => day'[w] = day[w] + 1
      BY <1>a DEF ResetCounter, Wait, NextDay, TypeOK
    <2>3. ~(ResetCounter(w) \/ Wait(w)) => day' = day
      BY DEF Step, DoCommand, EndOfDay, Done, LockTransfer, LockLog, SkipRecord, Overflow,
         FindSlot, AppendEntry, UnlockTransfer, UnlockLog, LockReport, LockToClose, Test, Close,
         Refuse, Bump, UnlockToPost, Post, UnlockReport, Decrement, UnlockToWait,
         LeaveReport, place
    <2> QED
      BY <2>1, <2>2, <2>3
  <1>3. Released(w)'
    <2>1. CASE day[w] >= 2
      BY <1>2, <2>1 DEF Released
    <2>2. CASE ~(day[w] >= 2)
      <3>1. Waiting(w) \/ Releasing(w)
        BY <1>c, <2>2 DEF Released
      <3>2. \/ UnlockToWait(w) \/ LeaveReport(w) \/ UnlockToPost(w) \/ Post(w) \/ UnlockReport(w)
            \/ ResetCounter(w) \/ Wait(w)
        BY <3>1 DEF Waiting, Releasing, Step, DoCommand, EndOfDay, Done, LockTransfer, LockLog,
           SkipRecord, Overflow, FindSlot, AppendEntry, UnlockTransfer, UnlockLog, LockReport,
           LockToClose, Test, Close, Refuse, Bump, Decrement
      <3>3. CASE UnlockToWait(w) \/ LeaveReport(w) \/ UnlockToPost(w) \/ Post(w) \/ UnlockReport(w)
        BY <1>a, <3>3 DEF UnlockToWait, LeaveReport, UnlockToPost, Post, UnlockReport, Goto,
           TypeOK, Released, Waiting, Releasing
      <3>4. CASE ResetCounter(w) \/ Wait(w)
        <4>1. day'[w] = day[w] + 1
          BY <1>a, <3>4 DEF ResetCounter, Wait, NextDay, TypeOK
        <4> QED
          BY <1>2, <4>1 DEF Released
      <3> QED
        BY <3>2, <3>3, <3>4
    <2> QED
      BY <2>1, <2>2
  <1>4. \A v \in Workers : Released(v)'
    BY <1>b, <1>c, <1>3 DEF Released, Waiting, Releasing
  <1> QED
    BY <1>1, <1>4 DEF DayClosed

\* The first night runs as bank->counter plans it, whatever comes after it.
THEOREM FirstNight == Spec => []NightInv
  <1>1. ReportInv /\ NightInv /\ [Next]_vars => NightInv'
    <2> SUFFICES ASSUME ReportInv, NightInv, [Next]_vars PROVE NightInv'
      OBVIOUS
    <2>1. CASE UNCHANGED vars
      BY <2>1 DEF NightInv, DayOpen, DayClosing, DayClosed, Released, Counted, Waiting, Closing,
                  Releasing, vars, report, night, place, local
    <2>2. ASSUME NEW w \in Workers, Step(w) PROVE NightInv'
      BY <2>2, OpenStep, ClosingStep, ClosedStep DEF NightInv
    <2> QED
      BY <2>1, <2>2 DEF Next, Finished
  <1> QED
    BY <1>1, NightInit, ReportInvariant, PTL DEF Spec

\* However many nights follow: the first report is written when every worker has
\* called Report_DoReport, and nobody begins the second day before it is written
\* (or refused, by a bank that has no storage for reports at all).
THEOREM FirstNightIsInOrder == Spec => []FirstNightInOrder
  <1>1. ReportInv /\ NightInv => FirstNightInOrder
    <2> SUFFICES ASSUME ReportInv, NightInv, NEW w \in Workers
                 PROVE  /\ numReports > 0 => Called(w) >= 1
                        /\ day[w] > 1 => numReports > 0 \/ MaxReports = 0
      BY DEF FirstNightInOrder
    <2>1. day[w] \in Nat /\ day[w] >= 1 /\ numReports \in Int
      BY ReportAssumption DEF ReportInv, TypeOK, Days
    <2>2. Released(w) => Called(w) >= 1
      BY <2>1 DEF Called, Released, Waiting, Releasing, HoldsReport
    <2>3. CASE DayOpen \/ \E v \in Workers : DayClosing(v)
      BY <2>3 DEF DayOpen, DayClosing
    <2>4. CASE DayClosed
      BY <2>2, <2>4 DEF DayClosed
    <2> QED
      BY <2>3, <2>4 DEF NightInv
  <1> QED
    BY <1>1, FirstNight, ReportInvariant, PTL

-----------------------------------------------------------------------------
(***************************************************************************)
(* The first report                                                        *)
(***************************************************************************)
\* An entry by its place <<w, <<p, l>>>> in the first day.
EntryOf(h) == EntryAt(h[1], 1, h[2])

\* What is done of the first day: the commands that are executed, and the
\* entries that Report_Transfer has handled.
ExecutedCommands ==
    {c \in CommandsOf(1) :
        \/ c[2] < pos[c[1]]
        \/ c[2] = pos[c[1]] /\ pc[c[1]] \in Recording}

HandledEntries == {h \in EntriesOf(1) : Handled(h[1], 1, h[2])}

EqualTo(e, entries) == {h \in entries : EntryOf(h) = e}

\* The first log holds these entries, as often as they occur; or they are too many.
Tally(entries) ==
    /\ hasOverflowed[0] => Cardinality(entries) > MaxEntries
    /\ ~hasOverflowed[0] =>
          /\ Cardinality(entries) = numLogEntries[0]
          /\ \A e : Times(e, transferLog[0], numLogEntries[0]) = Cardinality(EqualTo(e, entries))

\* The balance of the bank moves with the commands of the first day, and so do the
\* entries of its log, until the report is written.
FirstInv ==
    /\ numReports = 0 /\ MaxReports > 0 =>
          /\ Tally(HandledEntries)
          /\ bankBalance = SumFunctionOnSet(FlowOf(1), ExecutedCommands)
          /\ \A w \in Workers : pc[w] = "bump" =>
                reportBalance[0] = SumFunctionOnSet(FlowOf(1), CommandsOf(1))
    /\ numReports > 0 =>
          /\ Tally(EntriesOf(1))
          /\ reportBalance[0] = SumFunctionOnSet(FlowOf(1), CommandsOf(1))

\* Finitely many finite sets have finitely many elements.
LEMMA UnionFinite ==
    ASSUME NEW S, IsFiniteSet(S), NEW F, \A x \in S : IsFiniteSet(F[x])
    PROVE  IsFiniteSet(UNION {F[x] : x \in S})
  <1> DEFINE T == {F[x] : x \in S}
             f == [x \in S |-> F[x]]
  <1>1. f \in Surjection(S, T)
    BY DEF Surjection
  <1>2. IsFiniteSet(T)
    BY <1>1, FS_Surjection
  <1> QED
    BY <1>2, FS_UNION

\* The workers have finitely many commands a day.
LEMMA CommandsFinite ==
    ASSUME NEW d \in Days
    PROVE  IsFiniteSet(CommandsOf(d))
  <1> DEFINE F == [w \in Workers |-> {w} \X (1 .. Len(Schedule[w][d]))]
  <1>1. ASSUME NEW w \in Workers PROVE IsFiniteSet(F[w])
    <2>1. Len(Schedule[w][d]) \in Nat
      BY ReportAssumption
    <2>2. IsFiniteSet(1 .. Len(Schedule[w][d]))
      BY <2>1, FS_Interval
    <2>3. IsFiniteSet({w})
      BY FS_Singleton
    <2> QED
      BY <2>2, <2>3, FS_Product
  <1>2. CommandsOf(d) = UNION {F[w] : w \in Workers}
    BY DEF CommandsOf
  <1> HIDE DEF F
  <1> QED
    BY <1>1, <1>2, WorkersAssumption, UnionFinite

\* A command of a day has a place in the schedule, and changes the balance by a number.
LEMMA CommandFacts ==
    ASSUME NEW d \in Days, NEW c \in CommandsOf(d)
    PROVE  /\ c[1] \in Workers /\ c = <<c[1], c[2]>>
           /\ c[2] \in 1 .. Len(Schedule[c[1]][d]) /\ Len(Schedule[c[1]][d]) \in Nat
           /\ FlowOf(d)[c] = Schedule[c[1]][d][c[2]].flow
           /\ FlowOf(d)[c] \in Int
  <1>1. PICK w \in Workers : c \in {w} \X (1 .. Len(Schedule[w][d]))
    BY DEF CommandsOf
  <1>2. c[1] = w /\ c = <<c[1], c[2]>> /\ c[2] \in 1 .. Len(Schedule[w][d])
    BY <1>1
  <1>3. Schedule[w][d] \in Seq(Commands)
    BY ReportAssumption
  <1>4. Schedule[w][d][c[2]] \in Commands /\ Len(Schedule[w][d]) \in Nat
    BY <1>2, <1>3
  <1>5. Schedule[w][d][c[2]].flow \in Int
    BY <1>4 DEF Commands
  <1> QED
    BY <1>2, <1>4, <1>5 DEF FlowOf

\* An entry of a day has a place in the schedule.
LEMMA EntryFacts ==
    ASSUME NEW d \in Days
    PROVE  \A h : h \in EntriesOf(d) <=>
              /\ h = <<h[1], h[2]>> /\ h[1] \in Workers /\ h[2] \in EntryPlaces(h[1], d)
              /\ Reportable(EntryAt(h[1], d, h[2]))
  <1>1. ASSUME NEW h, h \in EntriesOf(d)
        PROVE  /\ h = <<h[1], h[2]>> /\ h[1] \in Workers /\ h[2] \in EntryPlaces(h[1], d)
               /\ Reportable(EntryAt(h[1], d, h[2]))
    <2>1. PICK w \in Workers :
             h \in {w} \X {t \in EntryPlaces(w, d) : Reportable(EntryAt(w, d, t))}
      BY <1>1 DEF EntriesOf
    <2> QED
      BY <2>1
  <1>2. ASSUME NEW h, h = <<h[1], h[2]>>, h[1] \in Workers, h[2] \in EntryPlaces(h[1], d),
               Reportable(EntryAt(h[1], d, h[2]))
        PROVE  h \in EntriesOf(d)
    <2>1. h \in {h[1]} \X {t \in EntryPlaces(h[1], d) : Reportable(EntryAt(h[1], d, t))}
      BY <1>2
    <2> QED
      BY <1>2, <2>1 DEF EntriesOf
  <1> QED
    BY <1>1, <1>2

\* A worker has finitely many entries a day.
LEMMA PlacesFinite ==
    ASSUME NEW w \in Workers, NEW d \in Days
    PROVE  IsFiniteSet(EntryPlaces(w, d))
  <1> DEFINE day1 == 1 .. Len(Schedule[w][d])
             F == [p \in day1 |-> {p} \X (1 .. Len(Schedule[w][d][p].log))]
  <1>1. Len(Schedule[w][d]) \in Nat /\ \A p \in day1 : Len(Schedule[w][d][p].log) \in Nat
    <2>1. Schedule[w][d] \in Seq(Commands)
      BY ReportAssumption
    <2>2. Len(Schedule[w][d]) \in Nat /\ \A p \in day1 : Schedule[w][d][p] \in Commands
      BY <2>1
    <2> QED
      BY <2>2 DEF Commands
  <1>2. IsFiniteSet(day1)
    BY <1>1, FS_Interval
  <1>3. ASSUME NEW p \in day1 PROVE IsFiniteSet(F[p])
    <2> DEFINE n == Len(Schedule[w][d][p].log)
    <2>0. n \in Int
      BY <1>1
    <2> HIDE DEF n
    <2>1. IsFiniteSet(1 .. n)
      BY <2>0, FS_Interval
    <2> USE DEF n
    <2>2. IsFiniteSet({p})
      BY FS_Singleton
    <2> QED
      BY <2>1, <2>2, FS_Product
  <1>4. EntryPlaces(w, d) = UNION {F[p] : p \in day1}
    BY DEF EntryPlaces
  <1> HIDE DEF F, day1
  <1> QED
    BY <1>2, <1>3, <1>4, UnionFinite

\* There are finitely many of them.
LEMMA EntriesFinite ==
    ASSUME NEW d \in Days
    PROVE  IsFiniteSet(EntriesOf(d))
  <1> DEFINE large(w) == {t \in EntryPlaces(w, d) : Reportable(EntryAt(w, d, t))}
             F == [w \in Workers |-> {w} \X large(w)]
  <1>1. ASSUME NEW w \in Workers PROVE IsFiniteSet(F[w])
    <2>1. IsFiniteSet(large(w))
      BY PlacesFinite, FS_Subset
    <2>2. IsFiniteSet({w})
      BY FS_Singleton
    <2> QED
      BY <2>1, <2>2, FS_Product
  <1>2. EntriesOf(d) = UNION {F[w] : w \in Workers}
    BY DEF EntriesOf
  <1> HIDE DEF F
  <1> QED
    BY <1>1, <1>2, WorkersAssumption, UnionFinite

\* What is counted is finite.
LEMMA CountedFinite ==
    ASSUME NEW S \in SUBSET EntriesOf(1)
    PROVE  /\ IsFiniteSet(S) /\ Cardinality(S) \in Nat
           /\ \A e : IsFiniteSet(EqualTo(e, S)) /\ Cardinality(EqualTo(e, S)) \in Nat
  <1>1. 1 \in Days
    BY ReportAssumption DEF Days
  <1>2. IsFiniteSet(S)
    BY <1>1, EntriesFinite, FS_Subset
  <1>3. \A e : EqualTo(e, S) \in SUBSET S
    BY DEF EqualTo
  <1> QED
    BY <1>2, <1>3, FS_Subset, FS_CardinalityType

\* On the first day: the workers are where that day puts them.
FirstDay == \A v \in Workers : day[v] = 1

\* A step handles at most the entry that a worker is at.
LEMMA HandledGrows ==
    ASSUME ReportInv, PlaceInv, FirstDay, NEW w \in Workers, Step(w)
    PROVE  /\ Decides(w) /\ Reportable(Entry(w)) =>
                 /\ <<w, Current(w)>> \in EntriesOf(1) \ HandledEntries
                 /\ EntryOf(<<w, Current(w)>>) = Entry(w)
                 /\ HandledEntries' = HandledEntries \cup {<<w, Current(w)>>}
           /\ ~(Decides(w) /\ Reportable(Entry(w))) => HandledEntries' = HandledEntries
  <1>1. 1 \in Days
    BY ReportAssumption DEF Days
  <1>2. day[w] = 1
    BY DEF FirstDay
  <1>3. ASSUME NEW h \in EntriesOf(1)
        PROVE  /\ h \in HandledEntries' <=>
                     h \in HandledEntries \/ (Decides(w) /\ h = <<w, Current(w)>>)
               /\ h = <<w, Current(w)>> /\ Decides(w) => Reportable(Entry(w))
    <2>1. /\ h = <<h[1], h[2]>> /\ h[1] \in Workers /\ h[2] \in EntryPlaces(h[1], 1)
          /\ Reportable(EntryAt(h[1], 1, h[2]))
      BY <1>1, EntryFacts
    <2>2. Handled(h[1], 1, h[2])' <=>
             Handled(h[1], 1, h[2]) \/ (Decides(w) /\ h[1] = w /\ h[2] = Current(w))
      BY <1>1, <1>2, <2>1, HandledStep
    <2>3. h \in HandledEntries' <=> Handled(h[1], 1, h[2])'
      BY DEF HandledEntries
    <2>4. h \in HandledEntries <=> Handled(h[1], 1, h[2])
      BY DEF HandledEntries
    <2>5. ASSUME h = <<w, Current(w)>>, Decides(w)
          PROVE  Reportable(Entry(w))
      <3>1. pc[w] \in Recording
        BY <2>5 DEF Decides, SkipRecord, Overflow, AppendEntry, Recording
      <3>2. EntryAt(w, 1, Current(w)) = Entry(w)
        BY <1>2, <3>1, CurrentPlace
      <3>3. h[1] = w /\ h[2] = Current(w)
        BY <2>5
      <3> QED
        BY <2>1, <3>2, <3>3
    <2> QED
      BY <2>1, <2>2, <2>3, <2>4, <2>5
  <1>4. HandledEntries \subseteq EntriesOf(1) /\ HandledEntries' \subseteq EntriesOf(1)
    BY DEF HandledEntries
  <1>5. ASSUME Decides(w), Reportable(Entry(w))
        PROVE  /\ <<w, Current(w)>> \in EntriesOf(1) \ HandledEntries
               /\ EntryOf(<<w, Current(w)>>) = Entry(w)
    <2>1. pc[w] \in Recording /\ pc[w] \notin {"unlockTransfer", "unlockLog"}
      BY <1>5 DEF Decides, SkipRecord, Overflow, AppendEntry, Recording
    <2>2. /\ Current(w) \in EntryPlaces(w, 1) /\ EntryAt(w, 1, Current(w)) = Entry(w)
          /\ ~Handled(w, 1, Current(w))
      BY <1>2, <2>1, CurrentPlace
    <2>3. <<w, Current(w)>> \in EntriesOf(1)
      <3> DEFINE h == <<w, Current(w)>>
      <3>1. h = <<h[1], h[2]>> /\ h[1] = w /\ h[2] = Current(w)
        OBVIOUS
      <3> HIDE DEF h
      <3>2. h \in EntriesOf(1)
        BY <1>1, <1>5, <2>2, <3>1, EntryFacts
      <3> QED
        BY <3>2 DEF h
    <2>4. <<w, Current(w)>> \notin HandledEntries
      BY <2>2 DEF HandledEntries
    <2> QED
      BY <2>2, <2>3, <2>4 DEF EntryOf
  <1>6. CASE Decides(w) /\ Reportable(Entry(w))
    <2>1. <<w, Current(w)>> \in EntriesOf(1)
      BY <1>5, <1>6
    <2>2. HandledEntries' = HandledEntries \cup {<<w, Current(w)>>}
      BY <1>3, <1>4, <1>6, <2>1
    <2> QED
      BY <1>5, <1>6, <2>2
  <1>7. CASE ~(Decides(w) /\ Reportable(Entry(w)))
    <2>1. HandledEntries' = HandledEntries
      BY <1>3, <1>4, <1>7
    <2> QED
      BY <1>7, <2>1
  <1> QED
    BY <1>6, <1>7

\* A log and a set of entries grow by the same entry.
LEMMA TallyAppend ==
    ASSUME NEW S \in SUBSET EntriesOf(1), NEW h \in EntriesOf(1) \ S,
           NEW n \in Nat, NEW f, NEW g, NEW e,
           Times(e, f, n) = Cardinality(EqualTo(e, S)),
           g[n] = EntryOf(h), \A s \in 0 .. (n - 1) : g[s] = f[s]
    PROVE  Times(e, g, n + 1) = Cardinality(EqualTo(e, S \cup {h}))
  <1> DEFINE before == {s \in 0 .. (n - 1) : f[s] = e}
             after == {s \in 0 .. ((n + 1) - 1) : g[s] = e}
  <1>1. IsFiniteSet(before) /\ n \notin before
    <2> DEFINE last == n - 1
    <2>a. last \in Int
      OBVIOUS
    <2> HIDE DEF last
    <2>b. IsFiniteSet(0 .. last)
      BY <2>a, FS_Interval
    <2>1. IsFiniteSet(0 .. (n - 1))
      BY <2>b DEF last
    <2>2. before \in SUBSET (0 .. (n - 1))
      OBVIOUS
    <2>3. n \notin 0 .. (n - 1)
      OBVIOUS
    <2>4. n \notin before
      BY <2>2, <2>3
    <2> HIDE DEF before
    <2>5. IsFiniteSet(before)
      BY <2>1, <2>2, FS_Subset
    <2> QED
      BY <2>4, <2>5
  <1>2. IsFiniteSet(EqualTo(e, S)) /\ h \notin EqualTo(e, S)
    BY CountedFinite DEF EqualTo
  <1>3. Times(e, f, n) = Cardinality(before) /\ Times(e, g, n + 1) = Cardinality(after)
    BY DEF Times
  <1>4. CASE EntryOf(h) = e
    <2>1. after = before \cup {n}
      BY <1>4
    <2>2. EqualTo(e, S \cup {h}) = EqualTo(e, S) \cup {h}
      BY <1>4 DEF EqualTo
    <2> HIDE DEF before, after
    <2>3. Cardinality(after) = Cardinality(before) + 1
      BY <1>1, <2>1, FS_AddElement
    <2>4. Cardinality(EqualTo(e, S \cup {h})) = Cardinality(EqualTo(e, S)) + 1
      BY <1>2, <2>2, FS_AddElement
    <2> QED
      BY <1>3, <2>3, <2>4
  <1>5. CASE EntryOf(h) # e
    <2>1. after = before
      BY <1>5
    <2>2. EqualTo(e, S \cup {h}) = EqualTo(e, S)
      BY <1>5 DEF EqualTo
    <2> QED
      BY <1>3, <2>1, <2>2
  <1> QED
    BY <1>4, <1>5

\* Until the first report is written, its log holds what has been handled.
LEMMA TallyStep ==
    ASSUME ReportInv, PlaceInv, FirstDay, numReports = 0, MaxReports > 0,
           Tally(HandledEntries), NEW w \in Workers, Step(w)
    PROVE  Tally(HandledEntries)'
  <1>a. TypeOK /\ ReadsHold(w) /\ OverflowOnlyWhenFull /\ 0 \in Reports
    BY ReportAssumption DEF ReportInv, Reports
  <1>b. /\ numLogEntries[0] \in 0 .. MaxEntries /\ hasOverflowed[0] \in BOOLEAN
        /\ hasOverflowed[0] => numLogEntries[0] = MaxEntries
    BY <1>a DEF TypeOK, OverflowOnlyWhenFull
  <1>c. HandledEntries \in SUBSET EntriesOf(1)
    BY DEF HandledEntries
  <1> DEFINE h == <<w, Current(w)>>
             S == HandledEntries
             n == numLogEntries[0]
  <1>d. IsFiniteSet(S) /\ Cardinality(S) \in Nat
    BY <1>c, CountedFinite
  <1>1. CASE ~(AppendEntry(w) \/ Overflow(w))
    <2>1. UNCHANGED <<hasOverflowed, numLogEntries, transferLog>>
      BY <1>1 DEF Step, DoCommand, EndOfDay, Done, LockTransfer, LockLog, SkipRecord, Overflow,
       FindSlot, AppendEntry, UnlockTransfer, UnlockLog, LockReport, LockToClose, Test, Close,
       Refuse, Bump, UnlockToPost, Post, UnlockReport, ResetCounter, Decrement, UnlockToWait,
       LeaveReport, Wait, report, log
    <2>2. ~(Decides(w) /\ Reportable(Entry(w)))
      BY <1>1, <1>a, ReportAssumption DEF Decides, SkipRecord
    <2>3. HandledEntries' = HandledEntries
      BY <2>2, HandledGrows
    <2> QED
      BY <2>1, <2>3 DEF Tally
  <1>2. CASE AppendEntry(w) \/ Overflow(w)
    <2>1. Decides(w) /\ Reportable(Entry(w))
      BY <1>2 DEF Decides, AppendEntry, Overflow, PlaceInv
    <2>2. /\ h \in EntriesOf(1) \ S /\ EntryOf(h) = Entry(w)
          /\ HandledEntries' = S \cup {h}
      BY <2>1, HandledGrows
    <2> HIDE DEF h
    <2>3. Cardinality(HandledEntries') = Cardinality(S) + 1
      BY <1>d, <2>2, FS_AddElement
    <2>4. CASE Overflow(w)
      <3>1. hasOverflowed'[0] = TRUE /\ numLogEntries[0] >= MaxEntries
        BY <1>a, <2>4 DEF Overflow, TypeOK
      <3>2. Cardinality(S) + 1 > MaxEntries
        BY <1>b, <1>d, <3>1, ReportAssumption DEF Tally
      <3> QED
        BY <2>3, <3>1, <3>2 DEF Tally
    <2>5. CASE AppendEntry(w)
      <3>1. /\ rep[w] = 0 /\ num[w] = n /\ n < MaxEntries /\ n \in Nat
            /\ UNCHANGED hasOverflowed
        BY <1>a, <1>b, <2>5 DEF AppendEntry, ReadsHold
      <3>2. ~hasOverflowed[0]
        BY <1>b, <3>1
      <3>3. numLogEntries'[0] = n + 1
        BY <1>a, <2>5, <3>1 DEF AppendEntry, TypeOK
      <3>4. /\ transferLog'[0][n] = Entry(w)
            /\ \A s \in 0 .. (n - 1) : transferLog'[0][s] = transferLog[0][s]
        <4>1. n \in Slots /\ 0 .. (n - 1) \subseteq Slots
          BY <3>1, ReportAssumption DEF Slots
        <4>2. transferLog[0] \in [Slots -> Entries \cup {NoEntry}]
          BY <1>a DEF TypeOK
        <4>3. transferLog'[0] = [transferLog[0] EXCEPT ![n] = Entry(w)]
          BY <1>a, <2>5, <3>1 DEF AppendEntry, TypeOK
        <4> QED
          BY <3>1, <4>1, <4>2, <4>3
      <3>5. Cardinality(S) = n /\ \A e : Times(e, transferLog[0], n) = Cardinality(EqualTo(e, S))
        BY <3>2 DEF Tally
      <3> HIDE DEF n, S
      <3>6. ASSUME NEW e
            PROVE  Times(e, transferLog'[0], n + 1) = Cardinality(EqualTo(e, S \cup {h}))
        BY <1>c, <2>2, <3>1, <3>4, <3>5, TallyAppend DEF S
      <3>7. Tally(HandledEntries)' <=>
               /\ hasOverflowed'[0] => Cardinality(HandledEntries') > MaxEntries
               /\ ~hasOverflowed'[0] =>
                     /\ Cardinality(HandledEntries') = numLogEntries'[0]
                     /\ \A e : Times(e, transferLog'[0], numLogEntries'[0])
                                  = Cardinality(EqualTo(e, HandledEntries'))
        BY DEF Tally, EqualTo, Times, EntryOf, EntryAt
      <3> QED
        BY <2>2, <2>3, <3>1, <3>2, <3>3, <3>5, <3>6, <3>7
    <2> QED
      BY <1>2, <2>4, <2>5
  <1> QED
    BY <1>1, <1>2

\* A command of the first day moves the balance, and no other step does.
LEMMA BalanceStep ==
    ASSUME ReportInv, FirstDay, FirstDay', NEW w \in Workers, Step(w),
           bankBalance = SumFunctionOnSet(FlowOf(1), ExecutedCommands)
    PROVE  bankBalance' = SumFunctionOnSet(FlowOf(1), ExecutedCommands')
  <1>a. TypeOK /\ InSchedule(w) /\ 1 \in Days
    BY ReportAssumption DEF ReportInv, Days
  <1>b. /\ day[w] = 1 /\ Today(w) = Schedule[w][1]
        /\ pos[w] \in Nat \ {0} /\ leg[w] \in Nat \ {0}
    BY <1>a DEF FirstDay, Today, TypeOK
  <1>c. ExecutedCommands \subseteq CommandsOf(1) /\ ExecutedCommands' \subseteq CommandsOf(1)
    BY DEF ExecutedCommands
  <1>d. ASSUME NEW c \in CommandsOf(1)
        PROVE  /\ c[1] \in Workers /\ c = <<c[1], c[2]>> /\ c[2] \in Int
               /\ c \in ExecutedCommands <=>
                     c[2] < pos[c[1]] \/ (c[2] = pos[c[1]] /\ pc[c[1]] \in Recording)
               /\ c \in ExecutedCommands' <=>
                     c[2] < pos'[c[1]] \/ (c[2] = pos'[c[1]] /\ pc'[c[1]] \in Recording)
    <2>1. c[1] \in Workers /\ c = <<c[1], c[2]>> /\ c[2] \in 1 .. Len(Schedule[c[1]][1])
      BY <1>a, CommandFacts
    <2> QED
      BY <2>1 DEF ExecutedCommands
  <1>e. ASSUME NEW c \in CommandsOf(1), c[1] # w
        PROVE  c \in ExecutedCommands' <=> c \in ExecutedCommands
    <2>1. pos'[c[1]] = pos[c[1]] /\ pc'[c[1]] = pc[c[1]]
      BY <1>a, <1>d, <1>e, OthersStay
    <2> QED
      BY <1>d, <2>1
  <1>1. CASE DoCommand(w)
    <2> DEFINE c == <<w, pos[w]>>
    <2>1. /\ pos[w] \in 1 .. Len(Schedule[w][1]) /\ pc[w] = "work" /\ pc'[w] = "lockTransfer"
          /\ pos'[w] = pos[w]
          /\ bankBalance' = bankBalance + Schedule[w][1][pos[w]].flow
      <3>1. Len(Today(w)) \in Nat
        BY <1>a, DayTypes
      <3> QED
        BY <1>1, <1>a, <1>b, <3>1 DEF DoCommand, Goto, TypeOK, place
    <2>2. c \in {w} \X (1 .. Len(Schedule[w][1])) /\ c[1] = w /\ c[2] = pos[w]
      BY <2>1
    <2>3. c \in CommandsOf(1)
      BY <2>2 DEF CommandsOf
    <2>4. FlowOf(1)[c] = Schedule[w][1][pos[w]].flow
      BY <1>a, <2>2, <2>3, CommandFacts
    <2> HIDE DEF c
    <2>5. c \notin ExecutedCommands /\ c \in ExecutedCommands'
      BY <1>b, <1>d, <2>1, <2>2, <2>3 DEF Recording
    <2>6. ASSUME NEW x \in CommandsOf(1), x # c
          PROVE  x \in ExecutedCommands' <=> x \in ExecutedCommands
      <3>1. CASE x[1] = w
        <4>1. x[2] # pos[w]
          BY <1>d, <2>2, <2>3, <2>6, <3>1
        <4> QED
          BY <1>d, <2>1, <3>1, <4>1
      <3> QED
        BY <1>e, <3>1
    <2>7. ExecutedCommands' \ {c} = ExecutedCommands
      BY <1>c, <2>5, <2>6
    <2>8. IsFiniteSet(ExecutedCommands')
      BY <1>a, <1>c, CommandsFinite, FS_Subset
    <2>9. \A x \in ExecutedCommands' : FlowOf(1)[x] \in Int
      BY <1>a, <1>c, CommandFacts
    <2>10. SumFunctionOnSet(FlowOf(1), ExecutedCommands') =
              FlowOf(1)[c] + SumFunctionOnSet(FlowOf(1), ExecutedCommands' \ {c})
      <3> DEFINE E == ExecutedCommands'
                 f == FlowOf(1)
      <3>1. IsFiniteSet(E) /\ c \in E /\ \A x \in E : f[x] \in Int
        BY <2>5, <2>8, <2>9
      <3> HIDE DEF E, f
      <3>2. SumFunctionOnSet(f, E) = f[c] + SumFunctionOnSet(f, E \ {c})
        BY <3>1, SumTake
      <3> QED
        BY <3>2 DEF E, f
    <2>11. FlowOf(1)[c] \in Int /\ bankBalance \in Int
      BY <1>a, <2>3, CommandFacts DEF TypeOK
    <2>12. SumFunctionOnSet(FlowOf(1), ExecutedCommands' \ {c}) = bankBalance
      BY <2>7
    <2>13. bankBalance' = bankBalance + FlowOf(1)[c]
      BY <2>1, <2>4
    <2>14. bankBalance' = FlowOf(1)[c] + bankBalance
      BY <2>11, <2>13
    <2> QED
      BY <2>10, <2>12, <2>14
  <1>2. CASE UnlockLog(w)
    <2>1. bankBalance' = bankBalance
      BY <1>2 DEF UnlockLog
    <2>2. \/ pc'[w] \in Recording /\ pos'[w] = pos[w]
          \/ pc'[w] = "work" /\ pos'[w] = pos[w] + 1
      BY <1>2, <1>a DEF UnlockLog, Goto, TypeOK, Recording
    <2>3. pc[w] \in Recording
      BY <1>2 DEF UnlockLog, Recording
    <2>4. ASSUME NEW x \in CommandsOf(1), x[1] = w
          PROVE  x \in ExecutedCommands' <=> x \in ExecutedCommands
      <3>1. "work" \notin Recording
        BY DEF Recording
      <3> QED
        BY <1>b, <1>d, <2>2, <2>3, <2>4, <3>1
    <2>5. ExecutedCommands' = ExecutedCommands
      BY <1>c, <1>e, <2>4
    <2> QED
      BY <2>1, <2>5
  <1>3. CASE ~DoCommand(w) /\ ~UnlockLog(w)
    <2>1. /\ bankBalance' = bankBalance /\ pos'[w] = pos[w]
          /\ pc'[w] \in Recording <=> pc[w] \in Recording
      <3>0. day'[w] = 1
        BY DEF FirstDay
      <3>1. CASE EndOfDay(w) \/ Done(w) \/ LockTransfer(w) \/ LockLog(w)
        BY <1>a, <3>1 DEF EndOfDay, Done, LockTransfer, LockLog, Goto, TypeOK, Recording, place
      <3>2. CASE SkipRecord(w) \/ Overflow(w) \/ FindSlot(w) \/ AppendEntry(w) \/ UnlockTransfer(w)
        BY <1>a, <3>2
        DEF SkipRecord, Overflow, FindSlot, AppendEntry, UnlockTransfer, Goto, TypeOK, Recording,
            place
      <3>3. CASE LockReport(w) \/ LockToClose(w) \/ Test(w) \/ Close(w) \/ Refuse(w) \/ Bump(w) \/ UnlockToPost(w)
        BY <1>a, <3>3
        DEF LockReport, LockToClose, Test, Close, Refuse, Bump, UnlockToPost, Goto, TypeOK,
            Recording, place
      <3>4. CASE Post(w) \/ UnlockReport(w) \/ Decrement(w) \/ UnlockToWait(w) \/ LeaveReport(w)
        BY <1>a, <3>4
        DEF Post, UnlockReport, Decrement, UnlockToWait, LeaveReport, Goto, TypeOK, Recording,
            place
      <3>5. CASE ResetCounter(w) \/ Wait(w)
        <4>1. day'[w] = day[w] + 1
          BY <1>a, <3>5 DEF ResetCounter, Wait, NextDay, TypeOK
        <4> QED
          BY <1>b, <3>0, <4>1
      <3> QED
        BY <1>3, <3>1, <3>2, <3>3, <3>4, <3>5 DEF Step
    <2>2. ASSUME NEW x \in CommandsOf(1), x[1] = w
          PROVE  x \in ExecutedCommands' <=> x \in ExecutedCommands
      BY <1>d, <2>1, <2>2
    <2>3. ExecutedCommands' = ExecutedCommands
      BY <1>c, <1>e, <2>2
    <2> QED
      BY <2>1, <2>3
  <1> QED
    BY <1>1, <1>2, <1>3

\* When all report, or wait for the report, the first day is over.
LEMMA AllDoneThen ==
    ASSUME ReportInv, PlaceInv, FirstDay, \A v \in Workers : pc[v] \in Reporting
    PROVE  ExecutedCommands = CommandsOf(1) /\ HandledEntries = EntriesOf(1)
  <1>a. 1 \in Days /\ TypeOK
    BY ReportAssumption DEF Days, ReportInv
  <1>1. \A v \in Workers : pos[v] \in Int /\ day[v] = 1 /\ pos[v] > Len(Schedule[v][1])
    <2> SUFFICES ASSUME NEW v \in Workers
                 PROVE  pos[v] \in Int /\ day[v] = 1 /\ pos[v] > Len(Schedule[v][1])
      OBVIOUS
    <2>1. pos[v] \in Int
      BY <1>a DEF TypeOK
    <2>2. day[v] = 1
      BY DEF FirstDay
    <2>3. pos[v] > Len(Schedule[v][day[v]])
      BY DEF PlaceInv, Today
    <2> QED
      BY <2>1, <2>2, <2>3
  <1>2. ASSUME NEW c \in CommandsOf(1) PROVE c \in ExecutedCommands
    <2>1. c[1] \in Workers /\ c[2] \in 1 .. Len(Schedule[c[1]][1]) /\ Len(Schedule[c[1]][1]) \in Nat
      BY <1>a, CommandFacts
    <2> QED
      BY <1>1, <2>1 DEF ExecutedCommands
  <1>3. ASSUME NEW h \in EntriesOf(1) PROVE h \in HandledEntries
    <2>1. h[1] \in Workers /\ h[2] \in EntryPlaces(h[1], 1)
      BY <1>a, EntryFacts
    <2>2. /\ h[2][1] \in 1 .. Len(Schedule[h[1]][1])
          /\ Len(Schedule[h[1]][1]) \in Nat
      BY <1>a, <2>1, PlaceTypes
    <2>3. h[2][1] < pos[h[1]] /\ day[h[1]] = 1
      BY <1>1, <2>1, <2>2
    <2> QED
      BY <2>3 DEF HandledEntries, Handled, Passed
  <1> QED
    BY <1>2, <1>3 DEF ExecutedCommands, HandledEntries

\* Nothing is done of the first day when the workers start.
LEMMA FirstInit == Init => FirstInv
  <1> SUFFICES ASSUME Init, MaxReports > 0
               PROVE  /\ Tally(HandledEntries)
                      /\ bankBalance = SumFunctionOnSet(FlowOf(1), ExecutedCommands)
    BY DEF Init, FirstInv
  <1>a. 1 \in Days /\ 0 \in Reports
    BY ReportAssumption DEF Days, Reports
  <1>1. HandledEntries = {}
    <2> SUFFICES ASSUME NEW h \in EntriesOf(1) PROVE ~Handled(h[1], 1, h[2])
      BY DEF HandledEntries
    <2>1. h[1] \in Workers /\ h[2] \in EntryPlaces(h[1], 1)
      BY <1>a, EntryFacts
    <2>2. /\ h[2][1] \in 1 .. Len(Schedule[h[1]][1])
          /\ h[2][2] \in 1 .. Len(Schedule[h[1]][1][h[2][1]].log)
      BY <1>a, <2>1, PlaceTypes
    <2>3. h[2][1] \in Int /\ h[2][1] >= 1 /\ h[2][2] \in Int /\ h[2][2] >= 1
      BY <2>2
    <2>4. pos[h[1]] = 1 /\ leg[h[1]] = 1 /\ day[h[1]] = 1 /\ pc[h[1]] = "work"
      BY <2>1 DEF Init
    <2> QED
      BY <2>3, <2>4 DEF Handled, Passed
  <1>2. ExecutedCommands = {}
    <2> SUFFICES ASSUME NEW c \in CommandsOf(1)
                 PROVE  ~(c[2] < pos[c[1]] \/ (c[2] = pos[c[1]] /\ pc[c[1]] \in Recording))
      BY DEF ExecutedCommands
    <2>1. c[1] \in Workers /\ c[2] \in 1 .. Len(Schedule[c[1]][1])
      BY <1>a, CommandFacts
    <2> QED
      BY <2>1 DEF Init, Recording
  <1>3. Tally({})
    <2>1. hasOverflowed[0] = FALSE /\ numLogEntries[0] = 0
      BY <1>a DEF Init
    <2>2. \A e : EqualTo(e, {}) = {}
      BY DEF EqualTo
    <2>3. \A e, f : {s \in 0 .. (0 - 1) : f[s] = e} = {}
      OBVIOUS
    <2>4. \A e, f : Times(e, f, 0) = 0
      BY <2>3, FS_EmptySet DEF Times
    <2> QED
      BY <2>1, <2>2, <2>4, FS_EmptySet DEF Tally
  <1>4. SumFunctionOnSet(FlowOf(1), {}) = 0
    BY SumPick, FS_EmptySet
  <1> QED
    BY <1>1, <1>2, <1>3, <1>4 DEF Init

\* While no report is written, the first day is not over.
LEMMA StillFirstDay ==
    ASSUME NightInv, numReports = 0, MaxReports > 0
    PROVE  /\ FirstDay
           /\ \A w \in Workers : Closing(w) => \A v \in Workers : v # w => Waiting(v)
  BY DEF NightInv, DayOpen, DayClosing, DayClosed, FirstDay, Closing, Waiting

\* The same of the state after a step.
LEMMA StillFirstDayNext == NightInv' /\ numReports' = 0 /\ MaxReports > 0 => FirstDay'
  BY DEF NightInv, DayOpen, DayClosing, DayClosed, FirstDay, Closing, Waiting

\* Only the worker that has stored the balance counts the report.
LEMMA BumpFromClose ==
    ASSUME TypeOK, NEW w \in Workers, Step(w), ~Close(w)
    PROVE  pc'[w] # "bump"
  <1>1. CASE DoCommand(w) \/ EndOfDay(w) \/ Done(w) \/ LockTransfer(w) \/ LockLog(w)
    BY <1>1 DEF DoCommand, EndOfDay, Done, LockTransfer, LockLog, Goto, TypeOK
  <1>2. CASE SkipRecord(w) \/ Overflow(w) \/ FindSlot(w) \/ AppendEntry(w) \/ UnlockTransfer(w) \/ UnlockLog(w)
    BY <1>2 DEF SkipRecord, Overflow, FindSlot, AppendEntry, UnlockTransfer, UnlockLog, Goto, TypeOK
  <1>3. CASE LockReport(w) \/ LockToClose(w) \/ Test(w) \/ Refuse(w) \/ Bump(w) \/ UnlockToPost(w)
    BY <1>3 DEF LockReport, LockToClose, Test, Refuse, Bump, UnlockToPost, Goto, TypeOK
  <1>4. CASE Post(w) \/ UnlockReport(w) \/ ResetCounter(w) \/ Decrement(w) \/ UnlockToWait(w) \/ LeaveReport(w) \/ Wait(w)
    BY <1>4
    DEF Post, UnlockReport, ResetCounter, Decrement, UnlockToWait, LeaveReport, Wait, Goto, NextDay,
        TypeOK
  <1> QED
    BY <1>1, <1>2, <1>3, <1>4 DEF Step

\* The last worker writes what has been done, and a report that is written stays.
LEMMA FirstStep ==
    ASSUME ReportInv, ReportInv', PlaceInv, NightInv, NightInv', FirstInv,
           NEW w \in Workers, Step(w)
    PROVE  FirstInv'
  <1>a. TypeOK /\ ReadsHold(w)
    BY DEF ReportInv
  <1>b. numReports \in 0 .. MaxReports /\ MaxReports \in Nat
    BY <1>a, ReportAssumption DEF TypeOK
  <1>c. ~Bump(w) => numReports' = numReports
    BY DEF Step, DoCommand, EndOfDay, Done, LockTransfer, LockLog, SkipRecord, Overflow,
       FindSlot, AppendEntry, UnlockTransfer, UnlockLog, LockReport, LockToClose, Test, Close,
       Refuse, Bump, UnlockToPost, Post, UnlockReport, ResetCounter, Decrement, UnlockToWait,
       LeaveReport, Wait, report
  <1>d. Bump(w) => /\ numReports' = numReports + 1 /\ numReports < MaxReports
                   /\ UNCHANGED <<reportBalance, hasOverflowed, numLogEntries, transferLog>>
    BY <1>a DEF Bump, ReadsHold, log
  <1>e. ~Close(w) => UNCHANGED reportBalance
    BY DEF Step, DoCommand, EndOfDay, Done, LockTransfer, LockLog, SkipRecord, Overflow,
       FindSlot, AppendEntry, UnlockTransfer, UnlockLog, LockReport, LockToClose, Test, Close,
       Refuse, Bump, UnlockToPost, Post, UnlockReport, ResetCounter, Decrement, UnlockToWait,
       LeaveReport, Wait, report
  <1>1. CASE numReports > 0
    <2>1. 0 \in 0 .. (numReports - 1)
      BY <1>b, <1>1
    <2>2. /\ reportBalance'[0] = reportBalance[0] /\ numLogEntries'[0] = numLogEntries[0]
          /\ hasOverflowed'[0] = hasOverflowed[0] /\ transferLog'[0] = transferLog[0]
      BY <2>1, FrozenStep
    <2>3. Tally(EntriesOf(1)) /\ reportBalance[0] = SumFunctionOnSet(FlowOf(1), CommandsOf(1))
      BY <1>1 DEF FirstInv
    <2>4. Tally(EntriesOf(1))'
      BY <2>2, <2>3 DEF Tally
    <2>5. numReports' > 0 /\ numReports' # 0
      BY <1>1, <1>b, <1>c, <1>d
    <2> QED
      BY <2>2, <2>3, <2>4, <2>5 DEF FirstInv
  <1>2. CASE numReports = 0 /\ MaxReports = 0
    <2>1. numReports' = 0
      BY <1>2, <1>c, <1>d
    <2> QED
      BY <1>2, <2>1 DEF FirstInv
  <1>3. CASE numReports = 0 /\ MaxReports > 0
    <2>a. /\ Tally(HandledEntries)
          /\ bankBalance = SumFunctionOnSet(FlowOf(1), ExecutedCommands)
          /\ \A v \in Workers : pc[v] = "bump" =>
                reportBalance[0] = SumFunctionOnSet(FlowOf(1), CommandsOf(1))
      BY <1>3 DEF FirstInv
    <2>b. FirstDay /\ \A v \in Workers : Closing(v) => \A u \in Workers : u # v => Waiting(u)
      BY <1>3, StillFirstDay
    <2>c. Closing(w) => ExecutedCommands = CommandsOf(1) /\ HandledEntries = EntriesOf(1)
      <3>1. ASSUME Closing(w) PROVE \A v \in Workers : pc[v] \in Reporting
        BY <2>b, <3>1 DEF Closing, Waiting, Reporting
      <3> QED
        BY <2>b, <3>1, AllDoneThen
    <2>1. CASE Bump(w)
      <3>1. Closing(w) /\ pc[w] = "bump"
        BY <2>1 DEF Bump, Closing
      <3>2. Tally(EntriesOf(1)) /\ reportBalance[0] = SumFunctionOnSet(FlowOf(1), CommandsOf(1))
        BY <2>a, <2>c, <3>1
      <3>3. Tally(EntriesOf(1))' /\ reportBalance' = reportBalance
        BY <1>d, <2>1, <3>2 DEF Tally
      <3>4. numReports' = 1
        BY <1>3, <1>d, <2>1
      <3> QED
        BY <3>2, <3>3, <3>4 DEF FirstInv
    <2>2. CASE ~Bump(w)
      <3>1. numReports' = 0
        BY <1>3, <1>c, <2>2
      <3>2. FirstDay'
        BY <1>3, <3>1, StillFirstDayNext
      <3>3. Tally(HandledEntries)'
        BY <1>3, <2>a, <2>b, TallyStep
      <3>4. bankBalance' = SumFunctionOnSet(FlowOf(1), ExecutedCommands')
        BY <2>a, <2>b, <3>2, BalanceStep
      <3>5. ASSUME NEW v \in Workers, pc'[v] = "bump"
            PROVE  reportBalance'[0] = SumFunctionOnSet(FlowOf(1), CommandsOf(1))
        <4>1. CASE Close(w)
          <5>1. reportBalance'[0] = bankBalance /\ Closing(w)
            <6>1. 0 \in Reports
              BY <1>3, ReportAssumption DEF Reports
            <6> QED
              BY <1>3, <1>a, <4>1, <6>1 DEF Close, Closing, TypeOK
          <5> QED
            BY <2>a, <2>c, <5>1
        <4>2. CASE ~Close(w)
          <5>1. pc[v] = "bump"
            <6>1. v # w => pc'[v] = pc[v]
              BY <1>a, OthersStay
            <6>2. pc'[w] # "bump"
              BY <1>a, <2>2, <4>2, BumpFromClose
            <6> QED
              BY <3>5, <6>1, <6>2
          <5> QED
            BY <1>e, <2>a, <4>2, <5>1
        <4> QED
          BY <4>1, <4>2
      <3> QED
        BY <3>1, <3>3, <3>4, <3>5 DEF FirstInv
    <2> QED
      BY <2>1, <2>2
  <1> QED
    BY <1>1, <1>2, <1>3, <1>b

\* Whatever the order in which a lone worker has logged the entries of the first
\* day, it has logged each as often as it occurs.
LEMMA OrderedTimes ==
    ASSUME NEW S, IsFiniteSet(S), NEW n \in Nat, NEW order \in Bijection(0 .. (n - 1), S),
           NEW f, \A s \in 0 .. (n - 1) : f[s] = EntryOf(order[s]), NEW e
    PROVE  Times(e, f, n) = Cardinality(EqualTo(e, S))
  <1> DEFINE A == {s \in 0 .. (n - 1) : f[s] = e}
             B == EqualTo(e, S)
             g == [s \in A |-> order[s]]
  <1>1. /\ \A s \in 0 .. (n - 1) : order[s] \in S
        /\ \A s, t \in 0 .. (n - 1) : order[s] = order[t] => s = t
        /\ \A x \in S : \E s \in 0 .. (n - 1) : order[s] = x
    BY DEF Bijection, Injection, IsInjective, Surjection
  <1>2. g \in [A -> B]
    BY <1>1 DEF EqualTo
  <1>3. \A s, t \in A : g[s] = g[t] => s = t
    BY <1>1
  <1>4. \A x \in B : \E s \in A : g[s] = x
    BY <1>1 DEF EqualTo
  <1>5. g \in Bijection(A, B)
    BY <1>2, <1>3, <1>4 DEF Bijection, Injection, IsInjective, Surjection
  <1>6. IsFiniteSet(A)
    <2>1. IsFiniteSet(0 .. (n - 1))
      BY FS_Interval
    <2> QED
      BY <2>1, FS_Subset
  <1>7. Times(e, f, n) = Cardinality(A)
    BY DEF Times
  <1> HIDE DEF A, B, g
  <1>8. Cardinality(B) = Cardinality(A)
    BY <1>5, <1>6, FS_Bijection DEF ExistsBijection
  <1> QED
    BY <1>7, <1>8 DEF B

\* What the invariant says of the first report.
LEMMA FirstShown == ReportInv /\ FirstInv => FirstReportIsSequential
  <1> SUFFICES ASSUME ReportInv, FirstInv, numReports > 0
               PROVE  /\ \A other \in SequentialReports : SameReport(0, other)
                      /\ hasOverflowed[0] <=> Cardinality(EntriesOf(1)) > MaxEntries
    BY DEF FirstReportIsSequential
  <1> DEFINE n == Cardinality(EntriesOf(1))
  <1>1. Tally(EntriesOf(1)) /\ reportBalance[0] = SumFunctionOnSet(FlowOf(1), CommandsOf(1))
    BY DEF FirstInv
  <1>2. 0 \in Reports /\ 1 \in Days /\ MaxEntries \in Nat
    <2>1. numReports \in 0 .. MaxReports /\ MaxReports \in Nat
      BY ReportAssumption DEF ReportInv, TypeOK
    <2> QED
      BY <2>1, ReportAssumption DEF Reports, Days
  <1>3. /\ numLogEntries[0] \in 0 .. MaxEntries /\ hasOverflowed[0] \in BOOLEAN
        /\ hasOverflowed[0] => numLogEntries[0] = MaxEntries
    BY <1>2 DEF ReportInv, TypeOK, OverflowOnlyWhenFull
  <1>4. IsFiniteSet(EntriesOf(1)) /\ n \in Nat
    BY CountedFinite
  <1>5. hasOverflowed[0] => n > MaxEntries
    BY <1>1 DEF Tally
  <1>6. ~hasOverflowed[0] =>
           /\ n = numLogEntries[0]
           /\ \A e : Times(e, transferLog[0], n) = Cardinality(EqualTo(e, EntriesOf(1)))
    BY <1>1 DEF Tally
  <1> HIDE DEF n
  <1>7. hasOverflowed[0] <=> n > MaxEntries
    BY <1>2, <1>3, <1>4, <1>5, <1>6
  <1>8. numLogEntries[0] = IF n < MaxEntries THEN n ELSE MaxEntries
    BY <1>2, <1>3, <1>4, <1>5, <1>6
  <1>9. ASSUME NEW other \in SequentialReports
        PROVE  SameReport(0, other)
    <2>1. PICK order \in Bijection(0 .. (n - 1), EntriesOf(1)) :
             other = [balance |-> SumFunctionOnSet(FlowOf(1), CommandsOf(1)),
                      numLogEntries |-> IF n < MaxEntries THEN n ELSE MaxEntries,
                      transferLog |-> [s \in Slots |-> IF s < n
                                                       THEN EntryAt(order[s][1], 1, order[s][2])
                                                       ELSE NoEntry]]
      BY DEF SequentialReports, n
    <2>2. /\ other.balance = SumFunctionOnSet(FlowOf(1), CommandsOf(1))
          /\ other.numLogEntries = IF n < MaxEntries THEN n ELSE MaxEntries
          /\ other.transferLog = [s \in Slots |-> IF s < n
                                                  THEN EntryAt(order[s][1], 1, order[s][2])
                                                  ELSE NoEntry]
      BY <2>1
    <2>3. ASSUME ~hasOverflowed[0]
          PROVE  SortedAlike(transferLog[0], other.transferLog, numLogEntries[0])
      <3>1. n = numLogEntries[0] /\ n <= MaxEntries
        BY <1>3, <1>6, <2>3
      <3>2. \A s \in 0 .. (n - 1) : s \in Slots /\ s < n
        BY <1>2, <1>4, <3>1 DEF Slots
      <3>3. \A s \in 0 .. (n - 1) : other.transferLog[s] = EntryOf(order[s])
        BY <2>2, <3>2 DEF EntryOf
      <3>4. \A e : Times(e, other.transferLog, n) = Cardinality(EqualTo(e, EntriesOf(1)))
        BY <1>4, <3>3, OrderedTimes
      <3> QED
        BY <1>6, <2>3, <3>1, <3>4 DEF SortedAlike
    <2> QED
      BY <1>1, <1>8, <2>2, <2>3 DEF SameReport
  <1> QED
    BY <1>7, <1>9 DEF n

\* The first report of many workers is the one that Report_Compare expects of a
\* worker that has done the first day alone: the same balance, as many entries, and
\* the same log unless it overflowed, which it does in both banks or in neither.
THEOREM FirstReportIsRight == Spec => []FirstReportIsSequential
  <1>1. /\ ReportInv /\ ReportInv' /\ PlaceInv /\ NightInv /\ NightInv' /\ FirstInv
        /\ [Next]_vars
        => FirstInv'
    <2> SUFFICES ASSUME ReportInv, ReportInv', PlaceInv, NightInv, NightInv', FirstInv,
                        [Next]_vars
                 PROVE  FirstInv'
      OBVIOUS
    <2>1. CASE UNCHANGED vars
      <3>1. UNCHANGED <<bankBalance, numReports, reportBalance, hasOverflowed, numLogEntries,
                        transferLog, pc, day, pos, leg>>
        BY <2>1 DEF vars, report, log, place
      <3>2. HandledEntries' = HandledEntries /\ ExecutedCommands' = ExecutedCommands
        BY <3>1 DEF HandledEntries, ExecutedCommands, Handled, Passed
      <3>3. \A S : Tally(S)' <=> Tally(S)
        BY <3>1 DEF Tally
      <3>4. Tally(HandledEntries)' <=> Tally(HandledEntries)
        BY <3>1, <3>2 DEF Tally
      <3> QED
        BY <3>1, <3>2, <3>3, <3>4 DEF FirstInv
    <2> QED
      BY <2>1, FirstStep DEF Next, Finished
  <1>2. Init => PlaceInv
    BY LoggedInit
  <1> QED
    BY <1>1, <1>2, FirstInit, FirstShown, PlaceStep, FirstNight, ReportInvariant, PTL DEF Spec
=============================================================================
