---------------------------- MODULE DriverProofs ----------------------------
(***************************************************************************)
(* Proofs about ActionSchedule, AccountNumbers and BankDriver.  No two     *)
(* workers draw from one seed, all of them report three times, and test 2  *)
(* gives them the commands of test 1.  An account number leads to its      *)
(* account and is ordered as the pair is.  The driver lets the command     *)
(* generator do nothing but what ActionSchedule says, so that what is      *)
(* proved there holds while the commands are executed; and the two banks   *)
(* that TestBank compares are equal, whatever the scheduler does.          *)
(***************************************************************************)
EXTENDS BankDriver, LibraryProofs

-----------------------------------------------------------------------------
(***************************************************************************)
(* Arithmetic                                                              *)
(***************************************************************************)
\* C's division undoes a multiplication.
LEMMA DivideProduct ==
    ASSUME NEW n \in Nat \ {0}, NEW q \in Nat
    PROVE  (n * q) \div n = q
  OBVIOUS

\* Reducing a number that rand_r returned.
LEMMA Reduced ==
    ASSUME NEW x \in Nat, NEW m \in Nat \ {0}
    PROVE  x % m \in 0 .. (m - 1)
  BY Remainder

\* The seeds are shared out evenly.
LEMMA SeedsDivide ==
    ASSUME NEW n \in {1, NumWorkers}
    PROVE  n \in Nat \ {0} /\ \E k \in Nat : MaxWorkers = n * k
  <1>1. CASE n = 1
    <2>1. MaxWorkers \in Nat /\ MaxWorkers = 1 * MaxWorkers
      BY ScheduleAssumption
    <2> QED
      BY <1>1, <2>1
  <1>2. CASE n = NumWorkers
    BY <1>2, ScheduleAssumption
  <1> QED
    BY <1>1, <1>2

\* Two workers are given seeds that differ, wherever they are in their lists.
LEMMA SeedsDiffer ==
    ASSUME NEW n \in {1, NumWorkers}, NEW v \in 0 .. (n - 1), NEW w \in 0 .. (n - 1), v # w,
           NEW i \in Nat, NEW j \in Nat
    PROVE  (v + i * n) % MaxWorkers # (w + j * n) % MaxWorkers
  <1>1. n \in Nat \ {0} /\ MaxWorkers \in Nat \ {0}
    BY ScheduleAssumption
  <1>2. PICK k \in Nat : MaxWorkers = n * k
    BY SeedsDivide
  <1>3. v + i * n \in Nat /\ w + j * n \in Nat
    BY <1>1
  <1> DEFINE p == (v + i * n) \div MaxWorkers
             q == (w + j * n) \div MaxWorkers
             t == (j - i) + k * (p - q)
  <1>4. p \in Nat /\ q \in Nat
    BY <1>1, <1>3, Remainder
  <1>5. (v + i * n) % MaxWorkers = v + i * n - MaxWorkers * p
    BY <1>1, <1>3, Remainder
  <1>6. (w + j * n) % MaxWorkers = w + j * n - MaxWorkers * q
    BY <1>1, <1>3, Remainder
  <1>7. SUFFICES ASSUME (v + i * n) % MaxWorkers = (w + j * n) % MaxWorkers
                 PROVE  FALSE
    OBVIOUS
  <1>8. v + i * n - (n * k) * p = w + j * n - (n * k) * q
    BY <1>2, <1>5, <1>6, <1>7
  <1> HIDE DEF p, q
  <1>9. t \in Int /\ v - w = n * t
    BY <1>1, <1>2, <1>4, <1>8
  <1>10. n * t < n /\ -n < n * t
    BY <1>1, <1>9
  <1>11. t = 0
    BY <1>1, <1>9, <1>10, SmallMultiple
  <1> QED
    BY <1>1, <1>9, <1>11

\* The commands divide evenly: four days of equal length for every worker.
LEMMA PlanFacts ==
    ASSUME NEW n \in {1, NumWorkers}
    PROVE  /\ n \in Nat \ {0}
           /\ PerDay(n) \in Nat \ {0}
           /\ PerWorker(n) = 4 * PerDay(n)
           /\ NumCommands = n * PerWorker(n)
  <1>1. PICK c \in 1 .. NumCommands : NumCommands = 4 * (NumWorkers * c)
    BY ScheduleAssumption
  <1>2. NumWorkers \in Nat \ {0} /\ c \in Nat \ {0}
    BY <1>1, ScheduleAssumption
  <1>3. NumWorkers * c \in Nat \ {0}
    BY <1>2
  <1>4. NumCommands \div 4 = NumWorkers * c
    BY <1>1, <1>3, DivideProduct
  <1>5. CASE n = NumWorkers
    <2>1. PerDay(n) = c
      BY <1>2, <1>4, <1>5, DivideProduct DEF PerDay
    <2>2. NumCommands = NumWorkers * (4 * c)
      BY <1>1, <1>2
    <2>3. PerWorker(n) = 4 * c
      BY <1>2, <1>5, <2>2, DivideProduct DEF PerWorker
    <2> QED
      BY <1>2, <1>5, <2>1, <2>2, <2>3
  <1>6. CASE n = 1
    <2>1. PerDay(n) = NumWorkers * c
      BY <1>3, <1>4, <1>6 DEF PerDay
    <2>2. PerWorker(n) = 4 * (NumWorkers * c)
      BY <1>1, <1>3, <1>6 DEF PerWorker
    <2> QED
      BY <1>1, <1>3, <1>6, <2>1, <2>2
  <1> QED
    BY <1>5, <1>6

\* The loop of Action_Init gives work to every worker.
LEMMA AllPlanned ==
    ASSUME NEW n \in {1, NumWorkers}, NEW w \in 0 .. (n - 1)
    PROVE  w \in Planned(n) /\ w \in Slots
  <1>1. PICK k \in 1 .. MaxWorkers : MaxWorkers = NumWorkers * k
    BY ScheduleAssumption
  <1>2. n <= MaxWorkers
    <2>1. NumWorkers * k >= NumWorkers
      BY <1>1, ScheduleAssumption
    <2> QED
      BY <1>1, <2>1, ScheduleAssumption
  <1>3. w \in Slots
    BY <1>2, ScheduleAssumption DEF Slots
  <1>4. NumCommands > w * PerWorker(n)
    <2>1. PerWorker(n) \in Nat \ {0} /\ NumCommands = n * PerWorker(n)
      BY PlanFacts
    <2>2. n \in Nat /\ w \in Nat /\ w + 1 <= n
      BY PlanFacts
    <2>3. n * PerWorker(n) >= (w + 1) * PerWorker(n)
      BY <2>1, <2>2
    <2>4. (w + 1) * PerWorker(n) = w * PerWorker(n) + PerWorker(n)
      BY <2>1, <2>2
    <2>5. w * PerWorker(n) \in Nat
      BY <2>1, <2>2
    <2> QED
      BY <2>1, <2>3, <2>4, <2>5
  <1> QED
    BY <1>3, <1>4 DEF Planned

-----------------------------------------------------------------------------
(***************************************************************************)
(* The inductive invariant                                                 *)
(***************************************************************************)
\* The generator is set up for the workers that run.
PlanInv ==
    /\ numWorkers \in {1, NumWorkers}
    /\ cmdsPerReportPerWorker = PerDay(numWorkers)
    /\ seedList = SeedList(numWorkers)
    /\ nextSeed \in [Slots -> Nat]

CountTypes ==
    /\ cmdCount \in [Slots -> Int]
    /\ nextReport \in [Slots -> Int]
    /\ reports \in [Slots -> Int]
    /\ pc \in [Slots -> {"ask", "draw", "done"}]

\* After r reports, the next one is due when 3 - r days of commands are left; it
\* has not been missed; nothing is left when a worker is done.
CountInv(w) ==
    /\ reports[w] \in 0 .. 3
    /\ nextReport[w] = (3 - reports[w]) * cmdsPerReportPerWorker
    /\ cmdCount[w] >= nextReport[w]
    /\ pc[w] = "done" => cmdCount[w] <= 0

ScheduleInv ==
    /\ PlanInv
    /\ CountTypes
    /\ \A w \in Running : CountInv(w)

\* Workers have a slot in workerState.
LEMMA RunningSlots ==
    ASSUME PlanInv
    PROVE  /\ Running \subseteq Slots
           /\ cmdsPerReportPerWorker \in Nat \ {0}
  BY AllPlanned, PlanFacts DEF PlanInv, Running

\* What Action_Init writes for n workers starts the count of each of them.
LEMMA PlanCounts ==
    ASSUME NEW n \in {1, NumWorkers}, NEW w \in 0 .. (n - 1)
    PROVE  /\ PerWorker(n) - PerDay(n) = (3 - 0) * PerDay(n)
           /\ PerWorker(n) >= PerWorker(n) - PerDay(n)
           /\ PerWorker(n) \in Int /\ PerDay(n) \in Int
  BY PlanFacts

\* The first run is set up for the workers.
LEMMA ScheduleInit == Init => ScheduleInv
  <1> SUFFICES ASSUME Init PROVE ScheduleInv
    OBVIOUS
  <1>1. PerWorker(NumWorkers) \in Int /\ PerDay(NumWorkers) \in Int
    BY PlanFacts
  <1>2. PlanInv
    BY DEF Init, PlanInv, NoWork
  <1>3. CountTypes
    BY <1>1 DEF Init, CountTypes, NoWork
  <1>4. ASSUME NEW w \in Running PROVE CountInv(w)
    <2>1. w \in Planned(NumWorkers) /\ w \in Slots
      BY AllPlanned DEF Init, Running
    <2>2. /\ cmdCount[w] = PerWorker(NumWorkers)
          /\ nextReport[w] = PerWorker(NumWorkers) - PerDay(NumWorkers)
          /\ reports[w] = 0 /\ pc[w] = "ask"
          /\ cmdsPerReportPerWorker = PerDay(NumWorkers)
      BY <2>1 DEF Init, NoWork
    <2>3. w \in 0 .. (NumWorkers - 1)
      BY DEF Init, Running
    <2> QED
      BY <2>2, <2>3, PlanCounts DEF CountInv
  <1> QED
    BY <1>2, <1>3, <1>4 DEF ScheduleInv

\* TestBank sets it up again for one worker.
LEMMA TestBankStep ==
    ASSUME ScheduleInv, TestBank
    PROVE  ScheduleInv'
  <1>1. PerWorker(1) \in Int /\ PerDay(1) \in Int
    BY PlanFacts
  <1>2. PlanInv'
    BY DEF TestBank, PlanInv, NoWork
  <1>3. CountTypes'
    <2>1. CountTypes
      BY DEF ScheduleInv
    <2>2. cmdCount' \in [Slots -> Int] /\ nextReport' \in [Slots -> Int]
      BY <1>1, <2>1 DEF TestBank, CountTypes
    <2>3. reports' \in [Slots -> Int]
      BY DEF TestBank, NoWork
    <2>4. pc' \in [Slots -> {"ask", "draw", "done"}]
      BY <2>1 DEF TestBank, CountTypes
    <2> QED
      BY <2>2, <2>3, <2>4 DEF CountTypes
  <1>4. Running' = {0}
    BY DEF TestBank, Running
  <1>5. CountInv(0)'
    <2>1. 0 \in 0 .. (1 - 1) /\ 0 \in Planned(1) /\ 0 \in Slots
      BY AllPlanned
    <2>2. /\ cmdCount'[0] = PerWorker(1) /\ nextReport'[0] = PerWorker(1) - PerDay(1)
          /\ reports'[0] = 0 /\ pc'[0] = "ask" /\ cmdsPerReportPerWorker' = PerDay(1)
      BY <2>1 DEF ScheduleInv, CountTypes, TestBank, NoWork
    <2> QED
      BY <2>1, <2>2, PlanCounts DEF CountInv
  <1> QED
    BY <1>2, <1>3, <1>4, <1>5 DEF ScheduleInv

\* A step of a worker counts its own commands and reports, and no other's.
LEMMA CountStep ==
    ASSUME ScheduleInv, NEW w \in Running, Step(w)
    PROVE  CountTypes' /\ \A v \in Running : CountInv(v)'
  <1>a. /\ PlanInv /\ CountTypes /\ CountInv(w) /\ w \in Slots /\ Running \subseteq Slots
        /\ cmdsPerReportPerWorker \in Nat \ {0}
    BY RunningSlots DEF ScheduleInv
  <1>b. cmdsPerReportPerWorker' = cmdsPerReportPerWorker
    BY DEF Step, Done, AskReport, BeginCommand, Draw, HandOut, plan
  <1>1. CountTypes'
    <2>1. cmdCount' \in [Slots -> Int] /\ pc' \in [Slots -> {"ask", "draw", "done"}]
      BY <1>a DEF Step, Done, AskReport, BeginCommand, Draw, HandOut, CountTypes
    <2>2. nextReport' \in [Slots -> Int] /\ reports' \in [Slots -> Int]
      <3>1. CASE AskReport(w)
        BY <1>a, <3>1 DEF AskReport, CountTypes
      <3>2. CASE UNCHANGED <<nextReport, reports>>
        BY <1>a, <3>2 DEF CountTypes
      <3> QED
        BY <3>1, <3>2 DEF Step, Done, BeginCommand, Draw, HandOut
    <2> QED
      BY <2>1, <2>2 DEF CountTypes
  <1>2. ASSUME NEW v \in Running, v # w PROVE CountInv(v)'
    <2>1. /\ pc'[v] = pc[v] /\ cmdCount'[v] = cmdCount[v]
          /\ nextReport'[v] = nextReport[v] /\ reports'[v] = reports[v]
      BY <1>a, <1>2 DEF Step, Done, AskReport, BeginCommand, Draw, HandOut, CountTypes
    <2> QED
      BY <1>b, <2>1 DEF ScheduleInv, CountInv
  <1>3. CountInv(w)'
    <2>1. CASE AskReport(w)
      <3>1. /\ nextReport'[w] = nextReport[w] - cmdsPerReportPerWorker
            /\ reports'[w] = reports[w] + 1
            /\ cmdCount'[w] = cmdCount[w] /\ pc'[w] = "ask"
            /\ cmdCount[w] > 0 /\ cmdCount[w] = nextReport[w]
        BY <1>a, <2>1 DEF AskReport, CountTypes
      <3>2. reports[w] \in 0 .. 2
        BY <1>a, <3>1 DEF CountInv
      <3>3. nextReport'[w] = (3 - reports'[w]) * cmdsPerReportPerWorker
        BY <1>a, <3>1, <3>2 DEF CountInv
      <3> QED
        BY <1>a, <1>b, <3>1, <3>2, <3>3 DEF CountInv
    <2>2. CASE BeginCommand(w)
      <3>1. /\ nextReport'[w] = nextReport[w] /\ reports'[w] = reports[w]
            /\ cmdCount'[w] = cmdCount[w] - 1 /\ pc'[w] = "draw"
            /\ cmdCount[w] # nextReport[w]
            /\ cmdCount[w] \in Int /\ nextReport[w] \in Int
        BY <1>a, <2>2 DEF BeginCommand, CountTypes
      <3> QED
        BY <1>a, <1>b, <3>1 DEF CountInv
    <2>3. CASE Done(w) \/ Draw(w) \/ HandOut(w)
      <3>1. /\ nextReport'[w] = nextReport[w] /\ reports'[w] = reports[w]
            /\ cmdCount'[w] = cmdCount[w]
            /\ pc'[w] = "done" => cmdCount[w] <= 0
        BY <1>a, <2>3 DEF Done, Draw, HandOut, CountTypes
      <3> QED
        BY <1>a, <1>b, <3>1 DEF CountInv
    <2> QED
      BY <2>1, <2>2, <2>3 DEF Step
  <1> QED
    BY <1>1, <1>2, <1>3

\* The invariant is inductive.
LEMMA ScheduleStep == ScheduleInv /\ [Next]_vars => ScheduleInv'
  <1> SUFFICES ASSUME ScheduleInv, [Next]_vars PROVE ScheduleInv'
    OBVIOUS
  <1>1. ASSUME NEW w \in Running, Step(w) PROVE ScheduleInv'
    <2>1. PlanInv' /\ Running' = Running
      BY <1>1, RunningSlots
      DEF ScheduleInv, PlanInv, Step, Done, AskReport, BeginCommand, Draw, HandOut, plan, Running
    <2> QED
      BY <1>1, <2>1, CountStep DEF ScheduleInv
  <1>2. CASE UNCHANGED vars
    BY <1>2 DEF ScheduleInv, PlanInv, CountTypes, CountInv, Running, vars, plan
  <1> QED
    BY <1>1, <1>2, TestBankStep DEF Next, Finished

-----------------------------------------------------------------------------
(***************************************************************************)
(* Theorems                                                                *)
(***************************************************************************)
\* Action_Init and Action_GetNext keep the invariant.
THEOREM ScheduleInvariant == Spec => []ScheduleInv
  <1> QED
    BY ScheduleInit, ScheduleStep, PTL DEF Spec

\* Two workers never draw from one seed at the same time, whatever they draw.
THEOREM SeedsAreDisjoint == Spec => []NoSharedSeed
  <1>1. ScheduleInv => NoSharedSeed
    <2> SUFFICES ASSUME ScheduleInv, NEW v \in Running, NEW w \in Running, v # w
                 PROVE  SeedOf(v) # SeedOf(w)
      BY DEF NoSharedSeed
    <2>1. v \in Slots /\ w \in Slots /\ PlanInv
      BY RunningSlots DEF ScheduleInv
    <2>2. ASSUME NEW u \in Slots
          PROVE  /\ nextSeed[u] % MaxWorkers \in Slots
                 /\ SeedOf(u) = (u + (nextSeed[u] % MaxWorkers) * numWorkers) % MaxWorkers
      <3>1. nextSeed[u] % MaxWorkers \in Slots
        BY <2>1, Remainder, ScheduleAssumption DEF PlanInv, Slots
      <3> QED
        BY <2>1, <3>1 DEF PlanInv, SeedOf, SeedList
    <2>3. /\ numWorkers \in {1, NumWorkers}
          /\ v \in 0 .. (numWorkers - 1) /\ w \in 0 .. (numWorkers - 1)
      BY <2>1 DEF PlanInv, Running
    <2> DEFINE i == nextSeed[v] % MaxWorkers
               j == nextSeed[w] % MaxWorkers
    <2>4. i \in Nat /\ j \in Nat
      BY <2>1, <2>2 DEF Slots
    <2>5. SeedOf(v) = (v + i * numWorkers) % MaxWorkers
      BY <2>1, <2>2
    <2>6. SeedOf(w) = (w + j * numWorkers) % MaxWorkers
      BY <2>1, <2>2
    <2> HIDE DEF i, j
    <2>7. (v + i * numWorkers) % MaxWorkers # (w + j * numWorkers) % MaxWorkers
      BY <2>3, <2>4, SeedsDiffer
    <2> QED
      BY <2>5, <2>6, <2>7
  <1> QED
    BY <1>1, ScheduleInvariant, PTL

\* Every worker is asked for exactly three reports before it is done.
THEOREM ReportsAreThree == Spec => []ThreeReports
  <1>1. ScheduleInv => ThreeReports
    <2> SUFFICES ASSUME ScheduleInv, NEW w \in Running, pc[w] = "done"
                 PROVE  reports[w] = 3
      BY DEF ThreeReports
    <2>1. CountInv(w) /\ cmdsPerReportPerWorker \in Nat \ {0} /\ cmdCount[w] \in Int
      BY RunningSlots DEF ScheduleInv, CountTypes
    <2> QED
      BY <2>1 DEF CountInv
  <1> QED
    BY <1>1, ScheduleInvariant, PTL

-----------------------------------------------------------------------------
(***************************************************************************)
(* Types: a seed is drawn from as often as the assumption on rand_r allows *)
(***************************************************************************)
\* The seeds of a worker are those that leave it as the remainder.
LEMMA SeedOwner ==
    ASSUME NEW n \in {1, NumWorkers}, NEW w \in 0 .. (n - 1), NEW i \in Nat
    PROVE  /\ (w + i * n) % MaxWorkers \in Slots
           /\ ((w + i * n) % MaxWorkers) % n = w
  <1>1. n \in Nat \ {0} /\ MaxWorkers \in Nat \ {0} /\ w \in Nat /\ w < n
    BY ScheduleAssumption
  <1>2. PICK k \in Nat : MaxWorkers = n * k
    BY SeedsDivide
  <1> DEFINE g == w + i * n
             q == g \div MaxWorkers
             s == g % MaxWorkers
  <1>3. g \in Nat
    BY <1>1
  <1>4. q \in Nat /\ s = g - MaxWorkers * q /\ s \in 0 .. (MaxWorkers - 1)
    BY <1>1, <1>3, Remainder
  <1> HIDE DEF q, s
  <1>5. s = w + n * (i - k * q)
    BY <1>1, <1>2, <1>4
  <1> DEFINE m == i - k * q
  <1>6. m \in Int /\ s \in Nat /\ s = w + n * m
    BY <1>1, <1>2, <1>4, <1>5
  <1> DEFINE e == s \div n
  <1>7. e \in Nat /\ s % n = s - n * e /\ s % n \in 0 .. (n - 1)
    BY <1>1, <1>6, Remainder
  <1> HIDE DEF m, e
  <1> DEFINE t == m - e
  <1>8. t \in Int /\ (s % n) - w = n * t
    BY <1>1, <1>6, <1>7
  <1>9. n * t < n /\ -n < n * t
    BY <1>1, <1>7, <1>8
  <1>10. t = 0
    BY <1>1, <1>8, <1>9, SmallMultiple
  <1>11. s % n = w
    BY <1>1, <1>7, <1>8, <1>10
  <1> QED
    BY <1>4, <1>11 DEF s, Slots

\* Action_Init fills the seed lists with seeds.
LEMMA SeedListType ==
    ASSUME NEW n \in Nat
    PROVE  SeedList(n) \in [Slots -> [Slots -> Slots]]
  <1>1. ASSUME NEW w \in Slots, NEW i \in Slots PROVE (w + i * n) % MaxWorkers \in Slots
    <2>1. w + i * n \in Nat
      BY DEF Slots
    <2> QED
      BY <2>1, Reduced, ScheduleAssumption DEF Slots
  <1> QED
    BY <1>1 DEF SeedList

\* How many commands a worker has begun.
Begun(w) == PerWorker(numWorkers) - cmdCount[w]

\* No command draws more than MaxDraws numbers, and each from a seed of its worker.
DrawInv ==
    \A w \in Running :
       /\ Begun(w) \in Nat
       /\ pc[w] = "draw" => Len(draws[w]) <= MaxDraws
       /\ \A s \in Slots : s % numWorkers = w =>
             seed[s] + (IF pc[w] = "draw" THEN MaxDraws - Len(draws[w]) ELSE 0)
                <= MaxDraws * Begun(w)

\* GetRandom draws from a seed of its worker.
LEMMA SeedOfOwner ==
    ASSUME ScheduleInv, NEW w \in Running
    PROVE  /\ SeedOf(w) \in Slots
           /\ SeedOf(w) % numWorkers = w
           /\ SeedOf(w) = (w + (nextSeed[w] % MaxWorkers) * numWorkers) % MaxWorkers
  <1>1. w \in Slots /\ PlanInv
    BY RunningSlots DEF ScheduleInv
  <1>a. nextSeed[w] \in Nat /\ MaxWorkers \in Nat \ {0}
    BY <1>1, ScheduleAssumption DEF PlanInv
  <1>b. nextSeed[w] % MaxWorkers \in 0 .. (MaxWorkers - 1)
    BY <1>a, Reduced
  <1>2. nextSeed[w] % MaxWorkers \in Slots /\ nextSeed[w] % MaxWorkers \in Nat
    BY <1>b DEF Slots
  <1>3. SeedOf(w) = (w + (nextSeed[w] % MaxWorkers) * numWorkers) % MaxWorkers
    BY <1>1, <1>2 DEF PlanInv, SeedOf, SeedList
  <1>4. numWorkers \in {1, NumWorkers} /\ w \in 0 .. (numWorkers - 1)
    BY <1>1 DEF PlanInv, Running
  <1> DEFINE i == nextSeed[w] % MaxWorkers
  <1>5. i \in Nat
    BY <1>2
  <1>6. SeedOf(w) = (w + i * numWorkers) % MaxWorkers
    BY <1>3
  <1> HIDE DEF i
  <1>7. /\ (w + i * numWorkers) % MaxWorkers \in Slots
        /\ ((w + i * numWorkers) % MaxWorkers) % numWorkers = w
    BY <1>4, <1>5, SeedOwner
  <1> QED
    BY <1>3, <1>6, <1>7

\* The selector of a command is one of eight, and decides how much it draws.
LEMMA DrawFacts ==
    ASSUME NEW d \in Seq(Nat)
    PROVE  /\ DrawsNeeded(d) \in 1 .. MaxDraws
           /\ d # <<>> => Sel(d) \in 0 .. 7
           /\ \A i \in 1 .. Len(d) : d[i] \in Nat
           /\ Len(d) = DrawsNeeded(d) => d # <<>>
  <1>1. d # <<>> => Len(d) \in Nat \ {0} /\ d[1] \in Nat
    BY EmptySeq
  <1>2. d # <<>> => Sel(d) \in 0 .. 7
    <2>1. \A x \in Nat : x % 8 \in 0 .. 7
      OBVIOUS
    <2> QED
      BY <1>1, <2>1 DEF Sel
  <1>3. DrawsNeeded(d) \in 1 .. MaxDraws
    <2>1. CASE d = <<>>
      BY <2>1 DEF DrawsNeeded, MaxDraws
    <2>2. CASE d # <<>>
      <3>1. DrawsNeeded(d) \in {1, 2, 6, 8}
        BY <1>2, <2>2 DEF DrawsNeeded
      <3> QED
        BY <3>1 DEF MaxDraws
    <2> QED
      BY <2>1, <2>2
  <1>4. Len(d) = DrawsNeeded(d) => d # <<>>
    <2>1. Len(<<>>) = 0
      OBVIOUS
    <2> QED
      BY <1>3, <2>1 DEF MaxDraws
  <1> QED
    BY <1>2, <1>3, <1>4

\* The mean of three reduced numbers.
LEMMA BellType ==
    ASSUME NEW d, NEW i, d[i] \in Nat, d[i + 1] \in Nat, d[i + 2] \in Nat
    PROVE  Bell(d, i) \in Nat /\ Bell(d, i) < MaxTransaction
  <1>1. MaxTransaction \in Nat \ {0}
    BY ScheduleAssumption
  <1>2. d[i] % MaxTransaction \in 0 .. (MaxTransaction - 1)
    BY <1>1, Reduced
  <1>3. d[i + 1] % MaxTransaction \in 0 .. (MaxTransaction - 1)
    BY <1>1, Reduced
  <1>4. d[i + 2] % MaxTransaction \in 0 .. (MaxTransaction - 1)
    BY <1>1, Reduced
  <1> DEFINE sum == (d[i] % MaxTransaction) + (d[i + 1] % MaxTransaction)
                      + (d[i + 2] % MaxTransaction)
  <1>5. sum \in Nat /\ sum < 3 * MaxTransaction
    BY <1>1, <1>2, <1>3, <1>4
  <1>6. Bell(d, i) = sum \div 3
    BY DEF Bell
  <1> HIDE DEF sum
  <1> QED
    BY <1>1, <1>5, <1>6

\* Action_GetNext hands out commands that the tellers understand.
LEMMA CommandType ==
    ASSUME NEW d \in Seq(Nat), Len(d) = DrawsNeeded(d)
    PROVE  Command(d) \in CallSet
  <1>1. d # <<>> /\ Sel(d) \in 0 .. 7 /\ Len(d) \in Nat
    BY DrawFacts
  <1>a. \A i \in 1 .. Len(d) : d[i] \in Nat
    BY DrawFacts
  <1>2. ASSUME NEW x \in Nat, NEW y \in Nat
        PROVE  AccountOf(x, y) \in Accounts /\ BranchOf(x) \in Branches
    <2>1. x % NumBranches \in 0 .. (NumBranches - 1)
      BY Reduced, BankAssumption
    <2>2. y % AcctsPerBranch \in 0 .. (AcctsPerBranch - 1)
      BY Reduced, BankAssumption
    <2> QED
      BY <2>1, <2>2 DEF AccountOf, BranchOf, Accounts, Branches
  <1>3. CASE Sel(d) \in {0, 1, 2}
    <2>1. Len(d) = 6
      BY <1>1, <1>3 DEF DrawsNeeded
    <2>2. d[2] \in Nat /\ d[3] \in Nat
      BY <1>a, <2>1
    <2>3. Bell(d, 4) \in Nat
      <3>1. d[4] \in Nat /\ d[4 + 1] \in Nat /\ d[4 + 2] \in Nat
        BY <1>a, <2>1
      <3> QED
        BY <3>1, BellType
    <2>4. AccountOf(d[3], d[2]) \in Accounts
      BY <1>2, <2>2
    <2>5. OneAccount(d) \in CallSet
      BY <2>3, <2>4 DEF OneAccount, CallSet, Kinds
    <2> QED
      BY <1>3, <2>5 DEF Command
  <1>4. CASE Sel(d) \in {3, 4, 5}
    <2>1. Len(d) = 8
      BY <1>1, <1>4 DEF DrawsNeeded
    <2>2. d[2] \in Nat /\ d[3] \in Nat /\ d[4] \in Nat /\ d[5] \in Nat
      BY <1>a, <2>1
    <2>3. Bell(d, 6) \in Nat
      <3>1. d[6] \in Nat /\ d[6 + 1] \in Nat /\ d[6 + 2] \in Nat
        BY <1>a, <2>1
      <3> QED
        BY <3>1, BellType
    <2>4. /\ AccountOf(d[3], d[2]) \in Accounts
          /\ AccountOf(d[3], d[5]) \in Accounts
          /\ AccountOf(d[4], d[5]) \in Accounts
      BY <1>2, <2>2
    <2>5. TwoAccounts(d) \in CallSet
      BY <2>3, <2>4 DEF TwoAccounts, CallSet, Kinds
    <2> QED
      BY <1>4, <2>5 DEF Command
  <1>5. CASE Sel(d) \in {6, 7}
    <2>0. \A b \in Branches : <<b, 0>> \in Accounts
      BY BankAssumption DEF Accounts
    <2>1. CASE Len(d) = 2
      <3>1. d[2] \in Nat
        BY <1>a, <2>1
      <3>2. <<BranchOf(d[2]), 0>> \in Accounts
        BY <1>2, <2>0, <3>1
      <3>3. OneBranch(d) \in CallSet
        BY <3>2 DEF OneBranch, CallSet, Kinds
      <3> QED
        BY <1>5, <2>1, <3>3 DEF Command
    <2>2. CASE Len(d) # 2
      <3>1. <<0, 0>> \in Accounts
        BY <2>0, BankAssumption DEF Branches
      <3>2. NoCall \in CallSet
        BY <3>1 DEF NoCall, CallSet, Kinds
      <3> QED
        BY <1>5, <2>2, <3>2 DEF Command
    <2> QED
      BY <2>1, <2>2
  <1> QED
    BY <1>1, <1>3, <1>4, <1>5

\* The generator starts with the types that action.h declares.
LEMMA TypesInit == Init => TypeOK /\ DrawInv
  <1> SUFFICES ASSUME Init PROVE TypeOK /\ DrawInv
    OBVIOUS
  <1>1. /\ PerWorker(NumWorkers) \in Nat /\ PerDay(NumWorkers) \in Nat \ {0}
        /\ PerWorker(NumWorkers) - PerDay(NumWorkers) \in Nat
    BY PlanFacts
  <1>2. SeedList(NumWorkers) \in [Slots -> [Slots -> Slots]]
    BY SeedListType, ScheduleAssumption
  <1>3. actionControl \subseteq Flags
    BY DEF Init, Control
  <1>4. \A w \in Slots : draws[w] = <<>> /\ issued[w] = <<>> /\ issuedBefore[w] = <<>>
    BY DEF Init
  <1>5. TypeOK
    <2>1. cmdCount \in [Slots -> Nat] /\ nextReport \in [Slots -> Nat]
      BY <1>1 DEF Init
    <2>2. /\ draws \in [Slots -> Seq(Nat)]
          /\ issued \in [Slots -> Seq([call : CallSet, day : Nat])]
          /\ issuedBefore \in [Slots -> Seq([call : CallSet, day : Nat])]
      BY DEF Init
    <2> QED
      BY <1>1, <1>2, <1>3, <2>1, <2>2 DEF Init, TypeOK, NoWork
  <1>6. ASSUME NEW w \in Running PROVE Begun(w) = 0 /\ pc[w] = "ask"
    <2>1. w \in Planned(NumWorkers) /\ w \in Slots
      BY AllPlanned DEF Init, Running
    <2> QED
      BY <1>1, <2>1 DEF Init, Begun
  <1>7. \A s \in Slots : seed[s] = 0
    BY DEF Init, NoWork
  <1> QED
    BY <1>5, <1>6, <1>7 DEF DrawInv, MaxDraws

\* And so does the second run.
LEMMA TypesTestBank ==
    ASSUME ScheduleInv, TypeOK, TestBank
    PROVE  TypeOK' /\ DrawInv'
  <1>1. /\ PerWorker(1) \in Nat /\ PerDay(1) \in Nat \ {0}
        /\ PerWorker(1) - PerDay(1) \in Nat
    BY PlanFacts
  <1>2. SeedList(1) \in [Slots -> [Slots -> Slots]]
    BY SeedListType
  <1>5. TypeOK'
    <2>1. cmdCount' \in [Slots -> Nat] /\ nextReport' \in [Slots -> Nat]
      BY <1>1 DEF TestBank, TypeOK
    <2>2. issued' \in [Slots -> Seq([call : CallSet, day : Nat])]
      BY DEF TestBank
    <2>3. issuedBefore' \in [Slots -> Seq([call : CallSet, day : Nat])]
      BY DEF TestBank, TypeOK
    <2>4. nextSeed' \in [Slots -> Nat] /\ seed' \in [Slots -> Nat] /\ reports' \in [Slots -> Nat]
      BY DEF TestBank, NoWork
    <2>5. pc' \in [Slots -> {"ask", "draw", "done"}] /\ draws' \in [Slots -> Seq(Nat)]
      BY DEF TestBank, TypeOK
    <2>6. /\ numWorkers' \in {1, NumWorkers} /\ actionControl' \subseteq Flags
          /\ cmdsPerReportPerWorker' \in Nat \ {0}
          /\ seedList' \in [Slots -> [Slots -> Slots]]
      BY <1>1, <1>2 DEF TestBank, TypeOK
    <2> QED
      BY <2>1, <2>2, <2>3, <2>4, <2>5, <2>6 DEF TypeOK
  <1>6. ASSUME NEW w \in Running' PROVE Begun(w)' = 0 /\ pc'[w] = "ask"
    <2>1. w = 0
      BY DEF TestBank, Running
    <2>2. 0 \in 0 .. (1 - 1) /\ 0 \in Planned(1) /\ 0 \in Slots
      BY AllPlanned
    <2> QED
      BY <1>1, <2>1, <2>2 DEF TestBank, Begun, TypeOK
  <1>7. \A s \in Slots : seed'[s] = 0
    BY DEF TestBank, NoWork
  <1> QED
    BY <1>5, <1>6, <1>7 DEF DrawInv, MaxDraws

\* The numbers that Action_GetNext draws are those that the assumption speaks of.
LEMMA DrawnType ==
    ASSUME ScheduleInv, TypeOK, DrawInv, NEW w \in Running, Draw(w)
    PROVE  RandR(SeedOf(w), seed[SeedOf(w)]) \in Nat
  <1>1. SeedOf(w) \in Slots /\ SeedOf(w) % numWorkers = w /\ w \in Slots
    BY SeedOfOwner, RunningSlots DEF ScheduleInv
  <1>2. /\ pc[w] = "draw" /\ draws[w] \in Seq(Nat)
        /\ Len(draws[w]) < DrawsNeeded(draws[w]) /\ Len(draws[w]) \in Nat
    BY <1>1 DEF Draw, TypeOK
  <1>3. Len(draws[w]) < MaxDraws
    BY <1>2, DrawFacts DEF MaxDraws
  <1>4. seed[SeedOf(w)] \in Nat /\ cmdCount[w] \in Nat
    BY <1>1 DEF TypeOK
  <1>5. seed[SeedOf(w)] + (MaxDraws - Len(draws[w])) <= MaxDraws * Begun(w) /\ Begun(w) \in Nat
    BY <1>1, <1>2 DEF DrawInv
  <1>6. /\ PerWorker(numWorkers) \in Nat /\ numWorkers \in Nat \ {0}
        /\ NumCommands = numWorkers * PerWorker(numWorkers)
    BY PlanFacts DEF ScheduleInv, PlanInv
  <1>7. Begun(w) <= NumCommands
    <2>1. Begun(w) <= PerWorker(numWorkers)
      BY <1>4, <1>6 DEF Begun
    <2>2. PerWorker(numWorkers) <= NumCommands
      BY <1>6
    <2> QED
      BY <1>5, <1>6, <2>1, <2>2
  <1>8. NumCommands \in Nat
    BY ScheduleAssumption
  <1>9. seed[SeedOf(w)] \in 0 .. (MaxDraws * NumCommands)
    BY <1>2, <1>3, <1>4, <1>5, <1>7, <1>8 DEF MaxDraws
  <1> QED
    BY <1>1, <1>9, RandAssumption

\* A step of a worker keeps the types.
LEMMA TypesStep ==
    ASSUME ScheduleInv, TypeOK, DrawInv, NEW w \in Running, Step(w)
    PROVE  TypeOK'
  <1>1. w \in Slots /\ Running \subseteq Slots
    BY RunningSlots DEF ScheduleInv
  <1>2. CountTypes' /\ CountInv(w)' /\ CountInv(w) /\ cmdsPerReportPerWorker \in Nat \ {0}
    BY CountStep, RunningSlots DEF ScheduleInv
  <1>3. CASE Done(w)
    BY <1>1, <1>3 DEF Done, TypeOK, plan
  <1>4. CASE AskReport(w)
    <2>1. nextReport'[w] = nextReport[w] - cmdsPerReportPerWorker /\ reports'[w] \in 0 .. 3
          /\ cmdsPerReportPerWorker' = cmdsPerReportPerWorker
          /\ nextReport'[w] = (3 - reports'[w]) * cmdsPerReportPerWorker
      BY <1>1, <1>2, <1>4 DEF AskReport, TypeOK, CountInv, plan
    <2>2. nextReport'[w] \in Nat
      BY <1>2, <2>1
    <2>3. nextReport' \in [Slots -> Nat]
      BY <1>1, <1>4, <2>2 DEF AskReport, TypeOK
    <2>4. reports' \in [Slots -> Nat]
      BY <1>1, <1>4 DEF AskReport, TypeOK
    <2> QED
      BY <1>4, <2>3, <2>4 DEF AskReport, TypeOK, plan
  <1>5. CASE BeginCommand(w)
    <2>1. cmdCount' \in [Slots -> Nat]
      BY <1>1, <1>5 DEF BeginCommand, TypeOK
    <2>2. draws' \in [Slots -> Seq(Nat)] /\ pc' \in [Slots -> {"ask", "draw", "done"}]
      BY <1>1, <1>5 DEF BeginCommand, TypeOK
    <2> QED
      BY <1>5, <2>1, <2>2 DEF BeginCommand, TypeOK, plan
  <1>6. CASE Draw(w)
    <2>1. RandR(SeedOf(w), seed[SeedOf(w)]) \in Nat
      BY <1>6, DrawnType
    <2>2. draws' \in [Slots -> Seq(Nat)]
      BY <1>1, <1>6, <2>1 DEF Draw, TypeOK
    <2>3. seed' \in [Slots -> Nat]
      BY <1>6, SeedOfOwner DEF Draw, TypeOK
    <2> QED
      BY <1>6, <2>2, <2>3 DEF Draw, TypeOK, plan
  <1>7. CASE HandOut(w)
    <2>1. Command(draws[w]) \in CallSet
      BY <1>1, <1>7, CommandType DEF HandOut, TypeOK
    <2>2. [call |-> Command(draws[w]), day |-> reports[w]] \in [call : CallSet, day : Nat]
      BY <1>1, <2>1 DEF TypeOK
    <2> DEFINE R == [call : CallSet, day : Nat]
               c == [call |-> Command(draws[w]), day |-> reports[w]]
    <2>a. c \in R /\ issued \in [Slots -> Seq(R)] /\ issued' = [issued EXCEPT ![w] = Append(@, c)]
      BY <1>7, <2>2 DEF HandOut, TypeOK
    <2> HIDE DEF R, c
    <2>b. issued' \in [Slots -> Seq(R)]
      BY <1>1, <2>a
    <2>3. issued' \in [Slots -> Seq([call : CallSet, day : Nat])]
      BY <2>b DEF R
    <2>4. nextSeed' \in [Slots -> Nat] /\ pc' \in [Slots -> {"ask", "draw", "done"}]
      BY <1>1, <1>7 DEF HandOut, TypeOK
    <2> QED
      BY <1>7, <2>3, <2>4 DEF HandOut, TypeOK, plan
  <1> QED
    BY <1>3, <1>4, <1>5, <1>6, <1>7 DEF Step

\* A step of a worker draws from its own seeds only, and no more than it may.
LEMMA DrawStep ==
    ASSUME ScheduleInv, TypeOK, DrawInv, NEW w \in Running, Step(w)
    PROVE  DrawInv'
  <1>1. w \in Slots /\ Running \subseteq Slots
    BY RunningSlots DEF ScheduleInv
  <1>2. Running' = Running /\ numWorkers' = numWorkers
    BY DEF Step, Done, AskReport, BeginCommand, Draw, HandOut, plan, Running
  <1>3. PerWorker(numWorkers) \in Nat /\ numWorkers \in Nat \ {0}
    BY PlanFacts DEF ScheduleInv, PlanInv
  <1>4. TypeOK'
    BY TypesStep
  <1>5. ASSUME NEW v \in Running, v # w
        PROVE  /\ Begun(v)' = Begun(v) /\ pc'[v] = pc[v] /\ draws'[v] = draws[v]
               /\ \A s \in Slots : s % numWorkers = v => seed'[s] = seed[s]
    <2>1. Begun(v)' = Begun(v) /\ pc'[v] = pc[v] /\ draws'[v] = draws[v]
      BY <1>1, <1>2, <1>5
      DEF Step, Done, AskReport, BeginCommand, Draw, HandOut, TypeOK, Begun
    <2>2. ASSUME NEW s \in Slots, s % numWorkers = v PROVE seed'[s] = seed[s]
      <3>1. CASE Draw(w)
        <4>1. s # SeedOf(w)
          BY <1>5, <2>2, SeedOfOwner
        <4> QED
          BY <3>1, <4>1 DEF Draw, TypeOK
      <3>2. CASE UNCHANGED seed
        BY <3>2
      <3> QED
        BY <3>1, <3>2 DEF Step, Done, AskReport, BeginCommand, HandOut
    <2> QED
      BY <2>1, <2>2
  <1>6. /\ Begun(w) \in Nat /\ cmdCount[w] \in Nat
        /\ pc[w] = "draw" => Len(draws[w]) <= MaxDraws
        /\ draws[w] \in Seq(Nat) /\ Len(draws[w]) \in Nat
    BY <1>1 DEF DrawInv, TypeOK
  <1>a. ASSUME NEW s \in Slots, s % numWorkers = w
        PROVE  seed[s] \in Nat
               /\ seed[s] + (IF pc[w] = "draw" THEN MaxDraws - Len(draws[w]) ELSE 0)
                     <= MaxDraws * Begun(w)
    BY <1>a DEF DrawInv, TypeOK
  <1>7. /\ Begun(w)' \in Nat
        /\ pc'[w] = "draw" => Len(draws'[w]) <= MaxDraws
        /\ \A s \in Slots : s % numWorkers = w =>
              seed'[s] + (IF pc'[w] = "draw" THEN MaxDraws - Len(draws'[w]) ELSE 0)
                 <= MaxDraws * Begun(w)'
    <2>1. CASE Done(w) \/ AskReport(w)
      <3>1. /\ Begun(w)' = Begun(w) /\ pc'[w] # "draw" /\ pc[w] # "draw"
            /\ seed' = seed
        BY <1>1, <1>2, <2>1 DEF Done, AskReport, Begun, TypeOK
      <3> QED
        BY <1>6, <1>a, <3>1
    <2>2. CASE BeginCommand(w)
      <3>1. /\ cmdCount'[w] = cmdCount[w] - 1 /\ pc'[w] = "draw" /\ pc[w] # "draw"
            /\ seed' = seed /\ draws'[w] = <<>>
        BY <1>1, <2>2 DEF BeginCommand, TypeOK
      <3>2. Begun(w)' = Begun(w) + 1 /\ Len(draws'[w]) = 0
        BY <1>2, <1>3, <1>6, <3>1 DEF Begun
      <3> QED
        BY <1>6, <1>a, <3>1, <3>2 DEF MaxDraws
    <2>3. CASE Draw(w)
      <3>1. /\ Begun(w)' = Begun(w) /\ pc'[w] = "draw" /\ pc[w] = "draw"
            /\ Len(draws'[w]) = Len(draws[w]) + 1
            /\ Len(draws[w]) < DrawsNeeded(draws[w])
        BY <1>1, <1>2, <1>6, <2>3 DEF Draw, Begun, TypeOK
      <3>2. Len(draws'[w]) <= MaxDraws
        BY <1>6, <3>1, DrawFacts DEF MaxDraws
      <3>3. ASSUME NEW s \in Slots, s % numWorkers = w
            PROVE  seed'[s] <= seed[s] + 1 /\ seed'[s] \in Nat /\ seed[s] \in Nat
        <4>1. seed \in [Slots -> Nat] /\ SeedOf(w) \in Slots
          BY SeedOfOwner DEF TypeOK
        <4>2. seed' = [seed EXCEPT ![SeedOf(w)] = @ + 1]
          BY <2>3 DEF Draw
        <4> QED
          BY <4>1, <4>2
      <3>4. ASSUME NEW s \in Slots, s % numWorkers = w
            PROVE  seed'[s] + (MaxDraws - Len(draws'[w])) <= MaxDraws * Begun(w)'
        <4>1. seed[s] + (MaxDraws - Len(draws[w])) <= MaxDraws * Begun(w)
          BY <1>a, <3>1, <3>4
        <4>2. seed'[s] + (MaxDraws - Len(draws'[w])) <= seed[s] + (MaxDraws - Len(draws[w]))
          BY <1>6, <3>1, <3>3, <3>4 DEF MaxDraws
        <4> QED
          BY <1>6, <3>1, <3>3, <3>4, <4>1, <4>2 DEF MaxDraws
      <3>5. Begun(w)' \in Nat
        BY <1>6, <3>1
      <3> QED
        BY <3>1, <3>2, <3>4, <3>5
    <2>4. CASE HandOut(w)
      <3>1. /\ Begun(w)' = Begun(w) /\ pc'[w] # "draw" /\ pc[w] = "draw"
            /\ seed' = seed
        BY <1>1, <1>2, <2>4 DEF HandOut, Begun, TypeOK
      <3> QED
        BY <1>6, <1>a, <3>1 DEF MaxDraws
    <2> QED
      BY <2>1, <2>2, <2>3, <2>4 DEF Step
  <1> QED
    BY <1>2, <1>5, <1>7 DEF DrawInv

\* The types and the bound on the draws are inductive.
LEMMA TypesNext == ScheduleInv /\ TypeOK /\ DrawInv /\ [Next]_vars => TypeOK' /\ DrawInv'
  <1> SUFFICES ASSUME ScheduleInv, TypeOK, DrawInv, [Next]_vars PROVE TypeOK' /\ DrawInv'
    OBVIOUS
  <1>1. ASSUME NEW w \in Running, Step(w) PROVE TypeOK' /\ DrawInv'
    BY <1>1, TypesStep, DrawStep
  <1>2. CASE UNCHANGED vars
    <2>1. TypeOK'
      BY <1>2 DEF TypeOK, vars, plan
    <2>2. DrawInv'
      BY <1>2 DEF DrawInv, Begun, Running, vars, plan
    <2> QED
      BY <2>1, <2>2
  <1> QED
    BY <1>1, <1>2, TypesTestBank DEF Next, Finished

\* The generator keeps its types, and with them the range of every number that it
\* asks rand_r for: the assumption on rand_r is needed for no number beyond
\* MaxDraws for each command.
THEOREM TypeCorrect == Spec => [](TypeOK /\ DrawInv)
  <1> QED
    BY ScheduleInit, ScheduleStep, TypesInit, TypesNext, PTL DEF Spec

\* The type invariant alone.
THEOREM TypesHold == Spec => []TypeOK
  <1> QED
    BY TypeCorrect, PTL

-----------------------------------------------------------------------------
(***************************************************************************)
(* What is drawn, whatever the order in which the workers draw             *)
(*                                                                         *)
(* Command g, counted from 0, is drawn from seed g % MaxWorkers, which has *)
(* been drawn from by the commands g - MaxWorkers, g - 2 * MaxWorkers ...  *)
(* before.  A function f gives, for every command, how often that was; it  *)
(* mentions no worker, and so the commands that it leads to are the same   *)
(* for one worker as for many.                                             *)
(***************************************************************************)
\* The first l numbers of seed s from its number p on.
Numbers(s, p, l) == [j \in 1 .. l |-> RandR(s, p + j - 1)]

\* How many numbers command g draws.
DrawsOf(f, g) == DrawsNeeded(<<RandR(g % MaxWorkers, f[g])>>)

\* Command g.
Generated(f, g) == Command(Numbers(g % MaxWorkers, f[g], DrawsOf(f, g)))

\* The commands for which f is needed: those that are handed out, and the next ones.
LastOffset == NumCommands + MaxWorkers

\* f gives the offsets of the commands below k.
Upto(f, k) ==
    \A g \in Nat : g < k /\ g < LastOffset =>
       /\ f[g] \in 0 .. (MaxDraws * g)
       /\ f[g] = IF g < MaxWorkers THEN 0 ELSE f[g - MaxWorkers] + DrawsOf(f, g - MaxWorkers)

Offsets(f) == Upto(f, LastOffset)

\* What the first number decides does not depend on the others.
LEMMA FirstDecides ==
    ASSUME NEW d \in Seq(Nat), d # <<>>
    PROVE  DrawsNeeded(d) = DrawsNeeded(<<d[1]>>)
  <1>1. <<d[1]>> # <<>> /\ Sel(<<d[1]>>) = Sel(d)
    BY DEF Sel
  <1> QED
    BY <1>1 DEF DrawsNeeded

\* The first number of a command lets it draw between one number and MaxDraws.
LEMMA DrawsOfType ==
    ASSUME NEW f, NEW g \in 0 .. (NumCommands - 1), f[g] \in 0 .. (MaxDraws * g)
    PROVE  /\ DrawsOf(f, g) \in 1 .. MaxDraws
           /\ g % MaxWorkers \in Slots
           /\ RandR(g % MaxWorkers, f[g]) \in Nat
  <1>1. NumCommands \in Nat /\ MaxWorkers \in Nat \ {0} /\ g \in Nat
    BY ScheduleAssumption
  <1>2. g % MaxWorkers \in Slots
    BY <1>1, Reduced DEF Slots
  <1>3. f[g] \in 0 .. (MaxDraws * NumCommands)
    BY <1>1 DEF MaxDraws
  <1>4. RandR(g % MaxWorkers, f[g]) \in Nat
    BY <1>2, <1>3, RandAssumption
  <1>5. <<RandR(g % MaxWorkers, f[g])>> \in Seq(Nat)
    BY <1>4
  <1> QED
    BY <1>2, <1>4, <1>5, DrawFacts DEF DrawsOf

\* There are such offsets.
LEMMA OffsetsExist == \E f : Offsets(f)
  <1>0. NumCommands \in Nat /\ MaxWorkers \in Nat \ {0} /\ LastOffset \in Nat
    BY ScheduleAssumption DEF LastOffset
  <1> DEFINE S == {k \in Nat : \E f : Upto(f, k)}
  <1>1. 0 \in S
    <2>1. Upto(<<>>, 0)
      BY DEF Upto
    <2> QED
      BY <2>1
  <1>2. ASSUME NEW k \in Nat, k \in S PROVE k + 1 \in S
    <2>1. PICK f : Upto(f, k)
      BY <1>2
    <2> DEFINE new == IF k < MaxWorkers THEN 0 ELSE f[k - MaxWorkers] + DrawsOf(f, k - MaxWorkers)
               h == [g \in Nat |-> IF g < k THEN f[g] ELSE new]
    <2>2. k < LastOffset => new \in 0 .. (MaxDraws * k)
      <3>1. CASE k < MaxWorkers
        BY <3>1 DEF MaxDraws
      <3>2. CASE k >= MaxWorkers /\ k < LastOffset
        <4> DEFINE g == k - MaxWorkers
        <4>1. g \in 0 .. (NumCommands - 1) /\ g \in Nat /\ g < k /\ g < LastOffset /\ g + 1 <= k
          BY <1>0, <3>2 DEF LastOffset
        <4>2. f[g] \in 0 .. (MaxDraws * g)
          BY <2>1, <4>1 DEF Upto
        <4>3. DrawsOf(f, g) \in 1 .. MaxDraws
          BY <4>1, <4>2, DrawsOfType
        <4>4. new = f[g] + DrawsOf(f, g)
          BY <1>0, <3>2
        <4> HIDE DEF g, new
        <4> QED
          BY <4>1, <4>2, <4>3, <4>4 DEF MaxDraws
      <3> QED
        BY <1>0, <3>1, <3>2
    <2>3. ASSUME NEW g \in Nat, g < k PROVE h[g] = f[g] /\ DrawsOf(h, g) = DrawsOf(f, g)
      <3>1. h[g] = f[g]
        BY <2>3
      <3> HIDE DEF h
      <3> QED
        BY <3>1 DEF DrawsOf
    <2>4. h[k] = new
      OBVIOUS
    <2> HIDE DEF h
    <2>5. k >= MaxWorkers =>
             h[k - MaxWorkers] + DrawsOf(h, k - MaxWorkers) = new
      <3>1. k >= MaxWorkers => k - MaxWorkers \in Nat /\ k - MaxWorkers < k
        BY <1>0
      <3> QED
        BY <1>0, <2>3, <3>1
    <2>6. ASSUME NEW g \in Nat, g < k + 1, g < LastOffset
          PROVE  /\ h[g] \in 0 .. (MaxDraws * g)
                 /\ h[g] = IF g < MaxWorkers THEN 0
                           ELSE h[g - MaxWorkers] + DrawsOf(h, g - MaxWorkers)
      <3>1. CASE g = k
        <4>1. h[g] \in 0 .. (MaxDraws * g)
          BY <2>2, <2>4, <2>6, <3>1
        <4>2. h[g] = IF g < MaxWorkers THEN 0
                     ELSE h[g - MaxWorkers] + DrawsOf(h, g - MaxWorkers)
          BY <1>0, <2>4, <2>5, <3>1
        <4> QED
          BY <4>1, <4>2
      <3>2. CASE g < k
        <4>1. /\ f[g] \in 0 .. (MaxDraws * g)
              /\ f[g] = IF g < MaxWorkers THEN 0
                        ELSE f[g - MaxWorkers] + DrawsOf(f, g - MaxWorkers)
          BY <2>1, <2>6, <3>2 DEF Upto
        <4>2. g >= MaxWorkers => g - MaxWorkers \in Nat /\ g - MaxWorkers < k
          BY <1>0, <3>2
        <4>3. g >= MaxWorkers => /\ h[g - MaxWorkers] = f[g - MaxWorkers]
                                 /\ DrawsOf(h, g - MaxWorkers) = DrawsOf(f, g - MaxWorkers)
          BY <2>3, <4>2
        <4>4. h[g] = f[g]
          BY <2>3, <3>2
        <4> QED
          BY <1>0, <4>1, <4>3, <4>4
      <3> QED
        BY <2>6, <3>1, <3>2
    <2>7. Upto(h, k + 1)
      BY <2>6 DEF Upto
    <2> QED
      BY <2>7
  <1> HIDE DEF S
  <1>3. Nat \subseteq S
    BY <1>1, <1>2, NatClosed
  <1>4. LastOffset \in S
    BY <1>0, <1>3
  <1> QED
    BY <1>4 DEF S, Offsets

(***************************************************************************)
(* More arithmetic                                                         *)
(***************************************************************************)
\* The quotient, from its bounds.
LEMMA Quotient ==
    ASSUME NEW p \in Nat \ {0}, NEW r \in Nat, NEW i \in Nat, r * p <= i, i < (r + 1) * p
    PROVE  i \div p = r
  <1> DEFINE q == i \div p
             t == r - q
  <1>1. q \in Nat /\ i % p = i - p * q /\ i % p \in 0 .. (p - 1)
    BY Remainder
  <1> HIDE DEF q
  <1>2. t \in Int /\ p * t = p * r - p * q
    BY <1>1
  <1>3. p * t < p /\ -p < p * t
    <2>1. p * q <= i /\ i < p * q + p
      BY <1>1
    <2>2. p * r <= i /\ i < p * r + p
      OBVIOUS
    <2>3. p * q \in Int /\ p * r \in Int
      BY <1>1
    <2> QED
      BY <1>2, <2>1, <2>2, <2>3
  <1>4. t = 0
    BY <1>2, <1>3, SmallMultiple
  <1> QED
    BY <1>1, <1>4 DEF q

\* Dividing twice is dividing by the product.
LEMMA DivideTwice ==
    ASSUME NEW m \in Nat \ {0}, NEW p \in Nat \ {0}, NEW x \in Nat
    PROVE  (x \div m) \div p = x \div (m * p)
  <1> DEFINE q == x \div m
  <1>1. q \in Nat /\ m * q <= x /\ x < m * q + m
    BY Remainder
  <1> HIDE DEF q
  <1> DEFINE r == q \div p
  <1>a. r \in Nat /\ q % p = q - p * r /\ q % p \in 0 .. (p - 1)
    BY <1>1, Remainder
  <1> HIDE DEF r
  <1>2. r \in Nat /\ p * r <= q /\ q < p * r + p
    <2>1. p * r \in Int
      BY <1>a
    <2> QED
      BY <1>1, <1>a, <2>1
  <1>3. m * p \in Nat \ {0}
    OBVIOUS
  <1>4. r * (m * p) <= x
    <2>1. m * (p * r) <= m * q
      BY <1>1, <1>2
    <2> QED
      BY <1>1, <1>2, <2>1
  <1>5. x < (r + 1) * (m * p)
    <2>1. q + 1 <= p * r + p
      BY <1>1, <1>2
    <2>2. m * (q + 1) <= m * (p * r + p)
      BY <1>1, <1>2, <2>1
    <2> QED
      BY <1>1, <1>2, <2>2
  <1>6. x \div (m * p) = r
    BY <1>2, <1>3, <1>4, <1>5, Quotient
  <1> QED
    BY <1>6 DEF q, r

\* A worker takes its seeds in turns: seed number i of n is that of its command i.
LEMMA SeedOfCommand ==
    ASSUME NEW n \in {1, NumWorkers}, NEW w \in Nat, NEW i \in Nat
    PROVE  (w + (i % MaxWorkers) * n) % MaxWorkers = (w + i * n) % MaxWorkers
  <1>1. MaxWorkers \in Nat \ {0} /\ n \in Nat
    BY ScheduleAssumption
  <1> DEFINE q == i \div MaxWorkers
             r == i % MaxWorkers
  <1>a. r \in 0 .. (MaxWorkers - 1)
    BY <1>1, Reduced
  <1>b. q \in Nat /\ r = i - MaxWorkers * q
    BY <1>1, Remainder
  <1>2. q \in Nat /\ r \in Nat /\ r = i - MaxWorkers * q
    BY <1>1, <1>a, <1>b
  <1> HIDE DEF q, r
  <1>3. w + i * n = (w + r * n) + MaxWorkers * (q * n)
    BY <1>1, <1>2
  <1>4. w + r * n \in Nat /\ w + i * n \in Nat /\ q * n \in Int
    BY <1>1, <1>2
  <1>5. (w + i * n) % MaxWorkers = (w + r * n) % MaxWorkers
    BY <1>1, <1>3, <1>4, SameRemainder
  <1> QED
    BY <1>5 DEF r

\* The next commands of a worker have seeds that differ.
LEMMA WindowDiffers ==
    ASSUME NEW n \in {1, NumWorkers}, NEW w \in Nat, NEW i \in Nat, NEW c \in Nat,
           i < c, (c - i) * n < MaxWorkers
    PROVE  (w + c * n) % MaxWorkers # (w + i * n) % MaxWorkers
  <1>1. MaxWorkers \in Nat \ {0} /\ n \in Nat \ {0}
    BY ScheduleAssumption
  <1>2. w + c * n \in Nat /\ w + i * n \in Nat
    BY <1>1
  <1> DEFINE p == (w + i * n) \div MaxWorkers
             q == (w + c * n) \div MaxWorkers
             t == q - p
  <1>3. p \in Nat /\ (w + i * n) % MaxWorkers = (w + i * n) - MaxWorkers * p
    BY <1>1, <1>2, Remainder
  <1>4. q \in Nat /\ (w + c * n) % MaxWorkers = (w + c * n) - MaxWorkers * q
    BY <1>1, <1>2, Remainder
  <1> SUFFICES ASSUME (w + c * n) % MaxWorkers = (w + i * n) % MaxWorkers PROVE FALSE
    OBVIOUS
  <1> HIDE DEF p, q
  <1>5. t \in Int /\ (c - i) * n = MaxWorkers * t
    BY <1>1, <1>3, <1>4
  <1>6. (c - i) * n >= n
    <2>1. c - i \in Nat /\ c - i >= 1
      OBVIOUS
    <2> QED
      BY <1>1, <2>1
  <1>7. MaxWorkers * t < MaxWorkers /\ -MaxWorkers < MaxWorkers * t
    BY <1>1, <1>5, <1>6
  <1>8. t = 0
    BY <1>1, <1>5, <1>7, SmallMultiple
  <1> QED
    BY <1>1, <1>5, <1>6, <1>8

\* The first command of a worker beyond the window uses the seed of the first in it.
LEMMA NextWindow ==
    ASSUME NEW n \in {1, NumWorkers}, NEW w \in Nat, NEW i \in Nat, NEW c \in Nat,
           i + 1 <= c, (c - (i + 1)) * n < MaxWorkers, (c - i) * n >= MaxWorkers
    PROVE  w + c * n = (w + i * n) + MaxWorkers
  <1>1. PICK k \in Nat : MaxWorkers = n * k
    BY SeedsDivide
  <1>2. n \in Nat \ {0}
    BY SeedsDivide
  <1> DEFINE t == (c - i) - k
  <1>3. t \in Int /\ n * t = (c - i) * n - n * k
    BY <1>1, <1>2
  <1>4. (c - (i + 1)) * n = (c - i) * n - n
    BY <1>2
  <1>5. n * t < n /\ -n < n * t
    <2>1. (c - i) * n \in Int /\ n * k \in Int
      BY <1>1, <1>2
    <2> QED
      BY <1>1, <1>2, <1>3, <1>4, <2>1
  <1>6. t = 0
    BY <1>2, <1>3, <1>5, SmallMultiple
  <1> QED
    BY <1>1, <1>2, <1>6

-----------------------------------------------------------------------------
(***************************************************************************)
(* The invariant about what has been drawn                                 *)
(***************************************************************************)
\* The command that w draws now, or will draw next.
Current(w) == w + Len(issued[w]) * numWorkers

\* The commands that w has begun and not got yet, and the numbers drawn for them.
Pending(w)  == IF pc[w] = "draw" THEN 1 ELSE 0
DrawnNow(w) == IF pc[w] = "draw" THEN Len(draws[w]) ELSE 0

\* Every command is issued, pending or to be counted down, and not before its day.
ProgressInv(w) ==
    /\ nextSeed[w] = Len(issued[w])
    /\ Len(issued[w]) + cmdCount[w] + Pending(w) = PerWorker(numWorkers)
    /\ cmdCount[w] + Pending(w) <= (4 - reports[w]) * cmdsPerReportPerWorker

\* The i-th command of w is the command w + (i - 1) * numWorkers of all.
IssuedInv(f, w) ==
    \A i \in 1 .. Len(issued[w]) :
       /\ issued[w][i].call = Generated(f, w + (i - 1) * numWorkers)
       /\ issued[w][i].day = (i - 1) \div cmdsPerReportPerWorker

\* The seed of a command has been drawn from as often as f says, until the command
\* itself is drawn: for the commands of w that are next for each of its seeds.
SeedsInv(f, w) ==
    \A c \in Nat :
       Len(issued[w]) <= c /\ (c - Len(issued[w])) * numWorkers < MaxWorkers =>
          f[w + c * numWorkers] = seed[(w + c * numWorkers) % MaxWorkers]
                                    - (IF c = Len(issued[w]) THEN DrawnNow(w) ELSE 0)

\* What has been drawn for the current command are its first numbers.
DrawingInv(f, w) ==
    pc[w] = "draw" =>
       draws[w] = Numbers(Current(w) % MaxWorkers, f[Current(w)], Len(draws[w]))

WorkerInv(f, w) ==
    ProgressInv(w) /\ IssuedInv(f, w) /\ SeedsInv(f, w) /\ DrawingInv(f, w)

\* The same of the workers of the first run, which have got all their commands.
BeforeInv(f) ==
    \A w \in Workers :
       /\ Len(issuedBefore[w]) = PerWorker(NumWorkers)
       /\ \A i \in 1 .. PerWorker(NumWorkers) :
             /\ issuedBefore[w][i].call = Generated(f, w + (i - 1) * NumWorkers)
             /\ issuedBefore[w][i].day = (i - 1) \div PerDay(NumWorkers)

\* The number of workers of the run.
ModeInv == numWorkers = IF Alone THEN 1 ELSE NumWorkers

Follows(f) ==
    /\ Offsets(f)
    /\ \A w \in Running : WorkerInv(f, w)
    /\ Alone => BeforeInv(f)

RunInv == ModeInv /\ \E f : Follows(f)

\* What holds of a worker that runs.
LEMMA WorkerFacts ==
    ASSUME ScheduleInv, TypeOK, NEW w \in Running
    PROVE  /\ w \in Slots /\ w \in Nat /\ w < numWorkers /\ w \in 0 .. (numWorkers - 1)
           /\ numWorkers \in {1, NumWorkers} /\ numWorkers \in Nat \ {0}
           /\ Len(issued[w]) \in Nat /\ cmdCount[w] \in Nat /\ reports[w] \in Nat
           /\ draws[w] \in Seq(Nat) /\ Len(draws[w]) \in Nat
           /\ cmdsPerReportPerWorker \in Nat \ {0}
           /\ cmdsPerReportPerWorker = PerDay(numWorkers)
           /\ PerWorker(numWorkers) = 4 * cmdsPerReportPerWorker
           /\ NumCommands = numWorkers * PerWorker(numWorkers)
  <1>1. PlanInv /\ w \in Slots
    BY RunningSlots DEF ScheduleInv
  <1>2. numWorkers \in {1, NumWorkers} /\ cmdsPerReportPerWorker = PerDay(numWorkers)
    BY <1>1 DEF PlanInv
  <1>3. numWorkers \in Nat \ {0} /\ w \in 0 .. (numWorkers - 1)
    BY <1>2, PlanFacts DEF Running
  <1>4. /\ cmdCount[w] \in Nat /\ reports[w] \in Nat /\ draws[w] \in Seq(Nat)
        /\ issued[w] \in Seq([call : CallSet, day : Nat])
    BY <1>1 DEF TypeOK
  <1>5. Len(issued[w]) \in Nat /\ Len(draws[w]) \in Nat
    BY <1>4
  <1>6. /\ PerDay(numWorkers) \in Nat \ {0}
        /\ PerWorker(numWorkers) = 4 * PerDay(numWorkers)
        /\ NumCommands = numWorkers * PerWorker(numWorkers)
    BY <1>2, PlanFacts
  <1>7. w \in Nat /\ w < numWorkers
    BY <1>3
  <1> QED
    BY <1>1, <1>2, <1>3, <1>4, <1>5, <1>6, <1>7

\* No command changes its numbers: the flags stay as CreateBank has set them.
LEMMA SameFlags ==
    ASSUME actionControl' = actionControl, NEW f
    PROVE  /\ Offsets(f) => Offsets(f)'
           /\ \A g : DrawsOf(f, g)' = DrawsOf(f, g) /\ Generated(f, g)' = Generated(f, g)
  <1>1. ASSUME NEW d PROVE DrawsNeeded(d)' = DrawsNeeded(d)
    BY DEF DrawsNeeded
  <1>2. ASSUME NEW d PROVE Command(d)' = Command(d)
    BY DEF Command, OneAccount, TwoAccounts
  <1>3. ASSUME NEW g PROVE DrawsOf(f, g)' = DrawsOf(f, g)
    BY <1>1 DEF DrawsOf
  <1>4. ASSUME NEW g PROVE Generated(f, g)' = Generated(f, g)
    BY <1>2, <1>3 DEF Generated
  <1>5. Offsets(f) => Offsets(f)'
    BY <1>3 DEF Offsets, Upto
  <1> QED
    BY <1>3, <1>4, <1>5

\* At the start of a run no command of the first window has been drawn for.
LEMMA FirstWindow ==
    ASSUME NEW n \in {1, NumWorkers}, NEW w \in 0 .. (n - 1), NEW c \in Nat,
           c * n < MaxWorkers, NEW f, Offsets(f)
    PROVE  /\ f[w + c * n] = 0
           /\ (w + c * n) % MaxWorkers \in Slots
  <1>1. PICK k \in Nat : MaxWorkers = n * k
    BY SeedsDivide
  <1>2. n \in Nat \ {0} /\ MaxWorkers \in Nat \ {0} /\ NumCommands \in Nat
    BY SeedsDivide, ScheduleAssumption
  <1>3. c + 1 <= k
    <2>1. CASE k <= c
      <3>1. n * k <= n * c
        BY <1>1, <1>2, <2>1
      <3> QED
        BY <1>1, <1>2, <3>1
    <2> QED
      BY <1>1, <2>1
  <1>4. n * (c + 1) <= n * k
    BY <1>1, <1>2, <1>3
  <1>5. w + c * n \in Nat /\ w + c * n < MaxWorkers
    BY <1>1, <1>2, <1>4
  <1>6. (w + c * n) < LastOffset
    BY <1>2, <1>5 DEF LastOffset
  <1> QED
    BY <1>5, <1>6, SeedOwner DEF Offsets, Upto

\* The first run starts so.
LEMMA RunInit == Init => RunInv
  <1> SUFFICES ASSUME Init PROVE RunInv
    OBVIOUS
  <1>1. ScheduleInv /\ TypeOK
    BY ScheduleInit, TypesInit
  <1>2. numWorkers = NumWorkers /\ numWorkers \in {1, NumWorkers}
    BY DEF Init
  <1>3. 0 \in Slots /\ ~Alone
    <2>1. 0 \in Slots
      BY ScheduleAssumption DEF Slots
    <2> QED
      BY <2>1 DEF Init, Alone
  <1>4. PICK f : Offsets(f)
    BY OffsetsExist
  <1>5. ASSUME NEW w \in Running PROVE WorkerInv(f, w)
    <2>1. /\ w \in Slots /\ w \in 0 .. (numWorkers - 1) /\ w \in Planned(NumWorkers)
          /\ numWorkers \in Nat \ {0}
          /\ cmdsPerReportPerWorker \in Nat \ {0}
          /\ PerWorker(numWorkers) = 4 * cmdsPerReportPerWorker
      BY <1>1, <1>2, WorkerFacts, AllPlanned
    <2>2. /\ issued[w] = <<>> /\ Len(issued[w]) = 0 /\ nextSeed[w] = 0 /\ pc[w] = "ask"
          /\ reports[w] = 0 /\ cmdCount[w] = PerWorker(numWorkers)
          /\ \A s \in Slots : seed[s] = 0
      BY <2>1 DEF Init, NoWork
    <2>3. ProgressInv(w)
      BY <2>1, <2>2 DEF ProgressInv, Pending
    <2>4. IssuedInv(f, w)
      BY <2>2 DEF IssuedInv
    <2>5. SeedsInv(f, w)
      <3>1. ASSUME NEW c \in Nat, (c - 0) * numWorkers < MaxWorkers
            PROVE  f[w + c * numWorkers] = seed[(w + c * numWorkers) % MaxWorkers] - 0
        <4>1. c * numWorkers < MaxWorkers
          BY <2>1, <3>1
        <4> QED
          BY <1>2, <1>4, <2>1, <2>2, <4>1, FirstWindow
      <3> QED
        BY <2>2, <3>1 DEF SeedsInv, DrawnNow
    <2>6. DrawingInv(f, w)
      BY <2>2 DEF DrawingInv
    <2> QED
      BY <2>3, <2>4, <2>5, <2>6 DEF WorkerInv
  <1> QED
    BY <1>2, <1>3, <1>4, <1>5 DEF RunInv, ModeInv, Follows

\* A worker that is done has got all its commands.
LEMMA DoneMeansAll ==
    ASSUME ScheduleInv, TypeOK, NEW w \in Running, ProgressInv(w), pc[w] = "done"
    PROVE  Len(issued[w]) = PerWorker(numWorkers)
  <1>1. cmdCount[w] \in Nat /\ cmdCount[w] <= 0
    BY WorkerFacts DEF ScheduleInv, CountInv
  <1> QED
    BY <1>1, WorkerFacts DEF ProgressInv, Pending

\* The second run starts with the commands of the first behind it.
LEMMA RunTestBank ==
    ASSUME ScheduleInv, TypeOK, ModeInv, NEW f, Follows(f), TestBank
    PROVE  ModeInv' /\ Follows(f)' /\ Alone'
  <1>1. Follows(f)
    OBVIOUS
  <1>2. Offsets(f) /\ Offsets(f)' /\ \A g : Generated(f, g)' = Generated(f, g)
    BY <1>1, SameFlags DEF Follows, TestBank
  <1>3. numWorkers = NumWorkers
    BY DEF ModeInv, TestBank
  <1>4. Running = Workers
    BY <1>3, ScheduleAssumption DEF Running
  <1>5. ASSUME NEW w \in Workers
        PROVE  /\ Len(issued[w]) = PerWorker(NumWorkers)
               /\ \A i \in 1 .. PerWorker(NumWorkers) :
                     /\ issued[w][i].call = Generated(f, w + (i - 1) * NumWorkers)
                     /\ issued[w][i].day = (i - 1) \div PerDay(NumWorkers)
    <2>1. w \in Running /\ ProgressInv(w) /\ IssuedInv(f, w) /\ pc[w] = "done"
      BY <1>1, <1>4 DEF Follows, WorkerInv, TestBank, AllDone
    <2>2. Len(issued[w]) = PerWorker(NumWorkers)
      BY <1>3, <2>1, DoneMeansAll
    <2>3. cmdsPerReportPerWorker = PerDay(NumWorkers)
      BY <1>3 DEF ScheduleInv, PlanInv
    <2> QED
      BY <1>3, <2>1, <2>2, <2>3 DEF IssuedInv
  <1>6. BeforeInv(f)'
    BY <1>2, <1>5 DEF BeforeInv, TestBank
  <1>7. Alone'
    <2>1. 0 \in Workers
      BY ScheduleAssumption
    <2>2. Len(issued[0]) = PerWorker(NumWorkers) /\ PerWorker(NumWorkers) \in Nat \ {0}
      BY <1>5, <2>1, PlanFacts
    <2>3. issued[0] # <<>>
      BY <2>2
    <2> QED
      BY <2>3 DEF TestBank, Alone
  <1>8. Running' = {0} /\ numWorkers' = 1
    BY DEF TestBank, Running
  <1>9. WorkerInv(f, 0)'
    <2>1. 0 \in 0 .. (1 - 1) /\ 0 \in Planned(1) /\ 0 \in Slots
      BY AllPlanned
    <2>2. /\ issued'[0] = <<>> /\ Len(issued'[0]) = 0 /\ nextSeed'[0] = 0 /\ pc'[0] = "ask"
          /\ reports'[0] = 0 /\ cmdCount'[0] = PerWorker(1)
          /\ cmdsPerReportPerWorker' = PerDay(1)
          /\ \A s \in Slots : seed'[s] = 0
      BY <2>1 DEF TestBank, NoWork, TypeOK
    <2>3. ProgressInv(0)'
      <3>1. PerWorker(1) = 4 * PerDay(1) /\ PerDay(1) \in Nat
        BY PlanFacts
      <3> QED
        BY <1>8, <2>2, <3>1 DEF ProgressInv, Pending
    <2>4. IssuedInv(f, 0)'
      BY <2>2 DEF IssuedInv
    <2>5. SeedsInv(f, 0)'
      <3>1. ASSUME NEW c \in Nat, (c - 0) * 1 < MaxWorkers
            PROVE  f[0 + c * 1] = seed'[(0 + c * 1) % MaxWorkers] - 0
        <4>1. c * 1 < MaxWorkers
          BY <3>1
        <4> QED
          BY <1>2, <2>1, <2>2, <4>1, FirstWindow
      <3> QED
        BY <1>8, <2>2, <3>1 DEF SeedsInv, DrawnNow
    <2>6. DrawingInv(f, 0)'
      BY <2>2 DEF DrawingInv
    <2> QED
      BY <2>3, <2>4, <2>5, <2>6 DEF WorkerInv
  <1>10. Follows(f)'
    BY <1>2, <1>6, <1>8, <1>9 DEF Follows
  <1> QED
    BY <1>7, <1>8, <1>10 DEF ModeInv

\* The current command is one of those that are to be drawn.
LEMMA CurrentFacts ==
    ASSUME ScheduleInv, TypeOK, NEW w \in Running, ProgressInv(w), pc[w] = "draw",
           NEW f, Offsets(f)
    PROVE  /\ Current(w) \in 0 .. (NumCommands - 1)
           /\ Current(w) % MaxWorkers = SeedOf(w)
           /\ f[Current(w)] \in 0 .. (MaxDraws * Current(w))
           /\ DrawsOf(f, Current(w)) \in 1 .. MaxDraws
  <1> DEFINE n == numWorkers
             i == Len(issued[w])
             P == PerWorker(n)
  <1>1. /\ n \in Nat \ {0} /\ w \in Nat /\ w < n /\ i \in Nat /\ cmdCount[w] \in Nat
        /\ P \in Nat /\ NumCommands = n * P /\ n \in {1, NumWorkers}
    BY WorkerFacts
  <1>2. i + cmdCount[w] + 1 = P /\ nextSeed[w] = i
    BY DEF ProgressInv, Pending
  <1>3. Current(w) = w + i * n
    BY DEF Current
  <1> HIDE DEF n, i, P
  <1>4. i + 1 <= P
    BY <1>1, <1>2
  <1>5. (i + 1) * n <= n * P
    BY <1>1, <1>4
  <1>6. Current(w) \in 0 .. (NumCommands - 1)
    <2>1. (i + 1) * n = i * n + n /\ i * n \in Nat /\ n * P \in Nat
      BY <1>1
    <2> QED
      BY <1>1, <1>3, <1>5, <2>1
  <1>7. Current(w) % MaxWorkers = SeedOf(w)
    <2>1. SeedOf(w) = (w + (i % MaxWorkers) * n) % MaxWorkers
      BY <1>2, SeedOfOwner DEF n
    <2>2. (w + (i % MaxWorkers) * n) % MaxWorkers = (w + i * n) % MaxWorkers
      BY <1>1, SeedOfCommand
    <2> QED
      BY <1>3, <2>1, <2>2
  <1>8. Current(w) \in Nat /\ Current(w) < LastOffset
    BY <1>6, ScheduleAssumption DEF LastOffset
  <1>9. f[Current(w)] \in 0 .. (MaxDraws * Current(w))
    BY <1>8 DEF Offsets, Upto
  <1>10. DrawsOf(f, Current(w)) \in 1 .. MaxDraws
    BY <1>6, <1>9, DrawsOfType
  <1> QED
    BY <1>6, <1>7, <1>9, <1>10

\* A worker that does not step keeps its part: no other worker has its seeds.
LEMMA OthersKeep ==
    ASSUME ScheduleInv, TypeOK, NEW w \in Running, Step(w), NEW v \in Running, v # w,
           NEW f, WorkerInv(f, v)
    PROVE  WorkerInv(f, v)'
  <1>1. v \in Slots /\ w \in Slots
    BY RunningSlots DEF ScheduleInv
  <1>2. /\ numWorkers' = numWorkers /\ cmdsPerReportPerWorker' = cmdsPerReportPerWorker
        /\ actionControl' = actionControl
    BY DEF Step, Done, AskReport, BeginCommand, Draw, HandOut, plan
  <1>3. \A g : Generated(f, g)' = Generated(f, g)
    BY <1>2, SameFlags
  <1>4. /\ issued'[v] = issued[v] /\ pc'[v] = pc[v] /\ draws'[v] = draws[v]
        /\ nextSeed'[v] = nextSeed[v] /\ cmdCount'[v] = cmdCount[v]
        /\ reports'[v] = reports[v]
    BY <1>1 DEF Step, Done, AskReport, BeginCommand, Draw, HandOut, TypeOK
  <1>5. ASSUME NEW s \in Slots, s % numWorkers = v PROVE seed'[s] = seed[s]
    <2>1. CASE Draw(w)
      <3>1. s # SeedOf(w)
        BY <1>5, SeedOfOwner
      <3> QED
        BY <2>1, <3>1 DEF Draw, TypeOK
    <2>2. CASE UNCHANGED seed
      BY <2>2
    <2> QED
      BY <2>1, <2>2 DEF Step, Done, AskReport, BeginCommand, HandOut
  <1>6. ASSUME NEW c \in Nat
        PROVE  seed'[(v + c * numWorkers) % MaxWorkers] = seed[(v + c * numWorkers) % MaxWorkers]
    <2>1. /\ (v + c * numWorkers) % MaxWorkers \in Slots
          /\ ((v + c * numWorkers) % MaxWorkers) % numWorkers = v
      BY WorkerFacts, SeedOwner
    <2> QED
      BY <1>5, <2>1
  <1>7. ProgressInv(v)'
    BY <1>2, <1>4 DEF WorkerInv, ProgressInv, Pending
  <1>8. IssuedInv(f, v)'
    BY <1>2, <1>3, <1>4 DEF WorkerInv, IssuedInv
  <1>9. SeedsInv(f, v)'
    BY <1>2, <1>4, <1>6 DEF WorkerInv, SeedsInv, DrawnNow
  <1>10. DrawingInv(f, v)'
    BY <1>2, <1>4 DEF WorkerInv, DrawingInv, Current
  <1> QED
    BY <1>7, <1>8, <1>9, <1>10 DEF WorkerInv

\* Before it draws a number, a worker has its part whatever it asks for.
LEMMA AskKeeps ==
    ASSUME ScheduleInv, TypeOK, NEW w \in Running, NEW f, WorkerInv(f, w),
           Done(w) \/ AskReport(w) \/ BeginCommand(w)
    PROVE  WorkerInv(f, w)'
  <1>1. w \in Slots
    BY RunningSlots DEF ScheduleInv
  <1>2. /\ numWorkers' = numWorkers /\ cmdsPerReportPerWorker' = cmdsPerReportPerWorker
        /\ actionControl' = actionControl /\ seed' = seed
        /\ issued' = issued /\ nextSeed' = nextSeed
    BY DEF Done, AskReport, BeginCommand, plan
  <1>3. \A g : Generated(f, g)' = Generated(f, g)
    BY <1>2, SameFlags
  <1>4. /\ Len(issued[w]) \in Nat /\ cmdCount[w] \in Nat /\ reports[w] \in Nat
        /\ cmdsPerReportPerWorker \in Nat \ {0} /\ PerWorker(numWorkers) \in Nat
    BY WorkerFacts
  <1>5. Pending(w) = 0 /\ DrawnNow(w) = 0
    BY DEF Done, AskReport, BeginCommand, Pending, DrawnNow
  <1>6. DrawnNow(w)' = 0 /\ (pc'[w] = "draw" => draws'[w] = <<>>)
    BY <1>1 DEF Done, AskReport, BeginCommand, DrawnNow, TypeOK
  <1>7. ProgressInv(w)'
    <2>1. CASE Done(w)
      <3>1. cmdCount' = cmdCount /\ reports' = reports /\ pc'[w] = "done"
        BY <1>1, <2>1 DEF Done, TypeOK
      <3> QED
        BY <1>2, <1>5, <3>1 DEF WorkerInv, ProgressInv, Pending
    <2>2. CASE AskReport(w)
      <3>1. /\ cmdCount' = cmdCount /\ reports'[w] = reports[w] + 1 /\ pc'[w] = "ask"
            /\ cmdCount[w] = nextReport[w]
        BY <1>1, <2>2 DEF AskReport, TypeOK
      <3>2. cmdCount[w] = (3 - reports[w]) * cmdsPerReportPerWorker
        BY <3>1 DEF ScheduleInv, CountInv
      <3>3. 4 - reports'[w] = 3 - reports[w]
        BY <1>4, <3>1
      <3>4. Pending(w)' = 0
        BY <3>1 DEF Pending
      <3>5. cmdCount'[w] + Pending(w)' <= (4 - reports'[w]) * cmdsPerReportPerWorker'
        BY <1>2, <1>4, <3>1, <3>2, <3>3, <3>4
      <3> QED
        BY <1>2, <1>4, <1>5, <3>1, <3>4, <3>5 DEF WorkerInv, ProgressInv
    <2>3. CASE BeginCommand(w)
      <3>1. /\ cmdCount'[w] = cmdCount[w] - 1 /\ reports' = reports /\ pc'[w] = "draw"
        BY <1>1, <2>3 DEF BeginCommand, TypeOK
      <3>2. Pending(w)' = 1
        BY <3>1 DEF Pending
      <3>3. Len(issued[w]) + cmdCount'[w] + Pending(w)' = Len(issued[w]) + cmdCount[w] + Pending(w)
        BY <1>4, <1>5, <3>1, <3>2
      <3>4. cmdCount'[w] + Pending(w)' = cmdCount[w] + Pending(w)
        BY <1>4, <1>5, <3>1, <3>2
      <3> QED
        BY <1>2, <3>1, <3>3, <3>4 DEF WorkerInv, ProgressInv
    <2> QED
      BY <2>1, <2>2, <2>3
  <1>8. IssuedInv(f, w)'
    BY <1>2, <1>3 DEF WorkerInv, IssuedInv
  <1>9. SeedsInv(f, w)'
    BY <1>2, <1>5, <1>6 DEF WorkerInv, SeedsInv
  <1>10. DrawingInv(f, w)'
    <2>1. ASSUME NEW s, NEW p PROVE <<>> = Numbers(s, p, 0)
      BY DEF Numbers
    <2>2. pc'[w] = "draw" => draws'[w] = <<>> /\ Len(draws'[w]) = 0
      BY <1>6
    <2> QED
      BY <1>2, <2>1, <2>2 DEF DrawingInv, Current
  <1> QED
    BY <1>7, <1>8, <1>9, <1>10 DEF WorkerInv

\* One more number is one more draw from the seed of the command.
LEMMA DrawKeeps ==
    ASSUME ScheduleInv, TypeOK, DrawInv, NEW w \in Running, NEW f, Offsets(f),
           WorkerInv(f, w), Draw(w)
    PROVE  WorkerInv(f, w)'
  <1> DEFINE n == numWorkers
             i == Len(issued[w])
             l == Len(draws[w])
             g == Current(w)
             s == SeedOf(w)
  <1>1. w \in Slots /\ pc[w] = "draw" /\ w \in Nat
    BY WorkerFacts DEF Draw
  <1>2. /\ numWorkers' = numWorkers /\ cmdsPerReportPerWorker' = cmdsPerReportPerWorker
        /\ actionControl' = actionControl /\ issued' = issued /\ nextSeed' = nextSeed
        /\ cmdCount' = cmdCount /\ reports' = reports /\ pc' = pc
    BY DEF Draw, plan
  <1>3. \A x : Generated(f, x)' = Generated(f, x)
    BY <1>2, SameFlags
  <1>4. /\ i \in Nat /\ l \in Nat /\ n \in Nat \ {0} /\ n \in {1, NumWorkers}
        /\ draws[w] \in Seq(Nat) /\ MaxWorkers \in Nat \ {0}
    BY WorkerFacts, ScheduleAssumption
  <1>5. g % MaxWorkers = s /\ g = w + i * n
    BY <1>1, CurrentFacts DEF WorkerInv, Current
  <1>6. s \in Slots /\ seed[s] \in Nat /\ seed \in [Slots -> Nat]
    BY SeedOfOwner DEF TypeOK
  <1>7. /\ draws'[w] = Append(draws[w], RandR(s, seed[s]))
        /\ seed' = [seed EXCEPT ![s] = @ + 1]
    BY <1>1 DEF Draw, TypeOK
  <1>8. RandR(s, seed[s]) \in Nat
    BY DrawnType
  <1> HIDE DEF n, i, l, g, s
  <1>9. f[g] = seed[s] - l
    <2>1. i <= i /\ (i - i) * n < MaxWorkers
      BY <1>4
    <2>2. f[w + i * n] = seed[(w + i * n) % MaxWorkers] - DrawnNow(w)
      BY <1>4, <2>1 DEF WorkerInv, SeedsInv, i, n
    <2>3. DrawnNow(w) = l
      BY <1>1 DEF DrawnNow, l
    <2> QED
      BY <1>5, <2>2, <2>3
  <1>10. /\ Len(draws'[w]) = l + 1
         /\ draws'[w] \in Seq(Nat)
         /\ \A j \in 1 .. l : draws'[w][j] = draws[w][j]
         /\ draws'[w][l + 1] = RandR(s, seed[s])
    BY <1>4, <1>7, <1>8 DEF l
  <1>11. ProgressInv(w)'
    BY <1>2 DEF WorkerInv, ProgressInv, Pending
  <1>12. IssuedInv(f, w)'
    BY <1>2, <1>3 DEF WorkerInv, IssuedInv
  <1>13. SeedsInv(f, w)'
    <2>1. ASSUME NEW c \in Nat, i <= c, (c - i) * n < MaxWorkers
          PROVE  f[w + c * n] = seed'[(w + c * n) % MaxWorkers] - (IF c = i THEN l + 1 ELSE 0)
      <3>1. CASE c = i
        <4>1. seed'[s] = seed[s] + 1
          BY <1>6, <1>7
        <4>2. seed'[s] - (l + 1) = seed[s] - l
          BY <1>4, <1>6, <4>1
        <4> QED
          BY <1>5, <1>9, <3>1, <4>2
      <3>2. CASE i < c
        <4>1. (w + c * n) % MaxWorkers # s
          BY <1>1, <1>4, <1>5, <2>1, <3>2, WindowDiffers
        <4>2. (w + c * n) % MaxWorkers \in Slots
          BY WorkerFacts, SeedOwner DEF n
        <4>3. seed'[(w + c * n) % MaxWorkers] = seed[(w + c * n) % MaxWorkers]
          BY <1>6, <1>7, <4>1, <4>2
        <4>4. f[w + c * n] = seed[(w + c * n) % MaxWorkers] - 0
          BY <1>4, <2>1, <3>2 DEF WorkerInv, SeedsInv, i, n
        <4> QED
          BY <1>4, <3>2, <4>3, <4>4
      <3> QED
        BY <1>4, <2>1, <3>1, <3>2
    <2>2. DrawnNow(w)' = l + 1
      BY <1>1, <1>2, <1>10 DEF DrawnNow
    <2> QED
      BY <1>2, <2>1, <2>2 DEF SeedsInv, i, n
  <1>14. DrawingInv(f, w)'
    <2>1. draws[w] = Numbers(s, f[g], l)
      BY <1>1, <1>5 DEF WorkerInv, DrawingInv, g, l
    <2>2. ASSUME NEW j \in 1 .. (l + 1)
          PROVE  draws'[w][j] = Numbers(s, f[g], l + 1)[j]
      <3>1. CASE j \in 1 .. l
        BY <1>10, <2>1, <3>1 DEF Numbers
      <3>2. CASE j = l + 1
        <4>1. f[g] + j - 1 = seed[s]
          BY <1>4, <1>6, <1>9, <3>2
        <4>2. Numbers(s, f[g], l + 1)[j] = RandR(s, f[g] + j - 1)
          BY DEF Numbers
        <4> QED
          BY <1>10, <3>2, <4>1, <4>2
      <3> QED
        BY <1>4, <3>1, <3>2
    <2>3. DOMAIN draws'[w] = 1 .. (l + 1) /\ draws'[w] = [j \in 1 .. (l + 1) |-> draws'[w][j]]
      BY <1>10
    <2>4. draws'[w] = Numbers(s, f[g], l + 1)
      BY <2>2, <2>3 DEF Numbers
    <2>5. Current(w)' = g
      BY <1>2 DEF Current, g
    <2> QED
      BY <1>2, <1>5, <1>10, <2>4, <2>5 DEF DrawingInv
  <1> QED
    BY <1>11, <1>12, <1>13, <1>14 DEF WorkerInv

\* The numbers drawn for a command are those of that command, and no more.
LEMMA CommandIsGenerated ==
    ASSUME ScheduleInv, TypeOK, NEW w \in Running, NEW f, Offsets(f),
           WorkerInv(f, w), HandOut(w)
    PROVE  /\ Command(draws[w]) = Generated(f, Current(w))
           /\ Len(draws[w]) = DrawsOf(f, Current(w))
  <1> DEFINE g == Current(w)
             l == Len(draws[w])
             s == g % MaxWorkers
  <1>1. pc[w] = "draw" /\ l = DrawsNeeded(draws[w]) /\ draws[w] \in Seq(Nat) /\ l \in Nat
    BY WorkerFacts DEF HandOut
  <1>2. draws[w] # <<>> /\ 1 \in 1 .. l
    BY <1>1, DrawFacts DEF MaxDraws
  <1>3. draws[w] = Numbers(s, f[g], l)
    BY <1>1 DEF WorkerInv, DrawingInv
  <1>4. g \in Nat /\ f[g] \in Nat
    BY <1>1, CurrentFacts DEF WorkerInv
  <1> HIDE DEF g, l, s
  <1>5. draws[w][1] = RandR(s, f[g])
    <2>1. f[g] + 1 - 1 = f[g]
      BY <1>4
    <2>2. Numbers(s, f[g], l)[1] = RandR(s, f[g] + 1 - 1)
      BY <1>2 DEF Numbers
    <2> QED
      BY <1>3, <2>1, <2>2
  <1>6. l = DrawsOf(f, g)
    BY <1>1, <1>2, <1>5, FirstDecides DEF DrawsOf, s
  <1> QED
    BY <1>3, <1>6 DEF Generated, g, l, s

\* The day of a command is the number of reports before it.
LEMMA DayOfCommand ==
    ASSUME ScheduleInv, TypeOK, NEW w \in Running, ProgressInv(w), pc[w] = "draw"
    PROVE  reports[w] = Len(issued[w]) \div cmdsPerReportPerWorker
  <1> DEFINE i == Len(issued[w])
             p == cmdsPerReportPerWorker
             r == reports[w]
  <1>1. /\ i \in Nat /\ p \in Nat \ {0} /\ r \in Nat /\ cmdCount[w] \in Nat
        /\ PerWorker(numWorkers) = 4 * p
    BY WorkerFacts
  <1>2. i + cmdCount[w] + 1 = 4 * p /\ cmdCount[w] + 1 <= (4 - r) * p
    BY <1>1 DEF ProgressInv, Pending
  <1>3. cmdCount[w] >= (3 - r) * p
    BY DEF ScheduleInv, CountInv
  <1> HIDE DEF i, p, r
  <1>4. /\ (4 - r) * p = 4 * p - r * p /\ (3 - r) * p = 3 * p - r * p
        /\ (r + 1) * p = r * p + p /\ r * p \in Nat
    BY <1>1
  <1>5. r * p <= i /\ i < (r + 1) * p
    BY <1>1, <1>2, <1>3, <1>4
  <1>6. i \div p = r
    BY <1>1, <1>5, Quotient
  <1> QED
    BY <1>6 DEF i, p, r

\* A command that is handed out is the right one, on the right day.
LEMMA HandOutKeeps ==
    ASSUME ScheduleInv, TypeOK, NEW w \in Running, NEW f, Offsets(f),
           WorkerInv(f, w), HandOut(w)
    PROVE  WorkerInv(f, w)'
  <1> DEFINE n == numWorkers
             i == Len(issued[w])
             g == Current(w)
             new == [call |-> Command(draws[w]), day |-> reports[w]]
  <1>1. w \in Slots /\ pc[w] = "draw" /\ w \in Nat
    BY WorkerFacts DEF HandOut
  <1>2. /\ numWorkers' = numWorkers /\ cmdsPerReportPerWorker' = cmdsPerReportPerWorker
        /\ actionControl' = actionControl /\ cmdCount' = cmdCount /\ reports' = reports
        /\ seed' = seed
    BY DEF HandOut, plan
  <1>3. \A x : Generated(f, x)' = Generated(f, x)
    BY <1>2, SameFlags
  <1>4. /\ i \in Nat /\ n \in Nat \ {0} /\ n \in {1, NumWorkers} /\ cmdCount[w] \in Nat
        /\ MaxWorkers \in Nat \ {0} /\ NumCommands \in Nat
        /\ (4 - reports[w]) * cmdsPerReportPerWorker \in Int /\ PerWorker(n) \in Nat
    BY WorkerFacts, ScheduleAssumption
  <1>5. g = w + i * n /\ g \in 0 .. (NumCommands - 1) /\ f[g] \in Nat
    BY <1>1, CurrentFacts DEF WorkerInv, Current
  <1>6. Command(draws[w]) = Generated(f, g) /\ Len(draws[w]) = DrawsOf(f, g)
    BY CommandIsGenerated
  <1>7. reports[w] = i \div cmdsPerReportPerWorker
    BY <1>1, DayOfCommand DEF WorkerInv
  <1>8. /\ issued'[w] = Append(issued[w], new) /\ nextSeed'[w] = nextSeed[w] + 1
        /\ pc'[w] = "ask"
    BY <1>1 DEF HandOut, TypeOK
  <1>9. /\ Len(issued'[w]) = i + 1
        /\ \A j \in 1 .. i : issued'[w][j] = issued[w][j]
        /\ issued'[w][i + 1] = new
    <2>1. issued[w] \in Seq([call : CallSet, day : Nat])
      BY <1>1 DEF TypeOK
    <2> HIDE DEF new
    <2> QED
      BY <1>8, <2>1
  <1>10. new.call = Generated(f, g) /\ new.day = i \div cmdsPerReportPerWorker
    BY <1>6, <1>7
  <1> HIDE DEF n, i, g, new
  <1>11. ProgressInv(w)'
    <2>1. /\ nextSeed[w] = i /\ i + cmdCount[w] + 1 = PerWorker(n)
          /\ cmdCount[w] + 1 <= (4 - reports[w]) * cmdsPerReportPerWorker
      BY <1>1 DEF WorkerInv, ProgressInv, Pending, i, n
    <2>2. Pending(w)' = 0
      BY <1>8 DEF Pending
    <2>3. PerWorker(numWorkers)' = PerWorker(n)
      BY <1>2 DEF n
    <2>4. nextSeed'[w] = i + 1 /\ (i + 1) + cmdCount[w] + 0 = PerWorker(n)
      BY <1>4, <1>8, <2>1
    <2>5. cmdCount[w] + 0 <= (4 - reports[w]) * cmdsPerReportPerWorker
      BY <1>4, <2>1
    <2> QED
      BY <1>2, <1>9, <2>2, <2>3, <2>4, <2>5 DEF ProgressInv
  <1>12. IssuedInv(f, w)'
    <2>1. ASSUME NEW j \in 1 .. (i + 1)
          PROVE  /\ issued'[w][j].call = Generated(f, w + (j - 1) * n)
                 /\ issued'[w][j].day = (j - 1) \div cmdsPerReportPerWorker
      <3>1. CASE j \in 1 .. i
        BY <1>9, <3>1 DEF WorkerInv, IssuedInv, i, n
      <3>2. CASE j = i + 1
        <4>1. j - 1 = i
          BY <1>4, <3>2
        <4> QED
          BY <1>5, <1>9, <1>10, <3>2, <4>1
      <3> QED
        BY <1>4, <3>1, <3>2
    <2> QED
      BY <1>2, <1>3, <1>9, <2>1 DEF IssuedInv, n
  <1>13. SeedsInv(f, w)'
    <2>1. ASSUME NEW c \in Nat, i + 1 <= c, (c - (i + 1)) * n < MaxWorkers
          PROVE  f[w + c * n] = seed[(w + c * n) % MaxWorkers] - 0
      <3>1. CASE (c - i) * n < MaxWorkers
        <4>1. i <= c /\ c # i
          BY <1>4, <2>1
        <4> QED
          BY <2>1, <3>1, <4>1 DEF WorkerInv, SeedsInv, i, n
      <3>2. CASE (c - i) * n >= MaxWorkers
        <4>a. w \in Nat /\ i \in Nat /\ c \in Nat /\ n \in {1, NumWorkers}
          BY <1>1, <1>4
        <4>b. i + 1 <= c /\ (c - (i + 1)) * n < MaxWorkers /\ (c - i) * n >= MaxWorkers
          BY <2>1, <3>2
        <4>1. w + c * n = (w + i * n) + MaxWorkers
          BY <4>a, <4>b, NextWindow, Zenon
        <4>2. w + c * n = g + MaxWorkers /\ g \in Nat /\ g + MaxWorkers \in Nat
          BY <1>4, <1>5, <4>1
        <4>3. g % MaxWorkers = (g + MaxWorkers) % MaxWorkers
          <5>1. g + MaxWorkers = g + MaxWorkers * 1
            BY <1>4, <4>2
          <5>2. 1 \in Int /\ MaxWorkers \in Nat \ {0}
            BY <1>4
          <5> QED
            BY <4>2, <5>1, <5>2, SameRemainder, Zenon
        <4>4. f[g + MaxWorkers] = f[g] + DrawsOf(f, g)
          <5>1. /\ g + MaxWorkers < LastOffset /\ ~(g + MaxWorkers < MaxWorkers)
                /\ (g + MaxWorkers) - MaxWorkers = g
            BY <1>4, <1>5, <4>2 DEF LastOffset
          <5> QED
            BY <4>2, <5>1 DEF Offsets, Upto
        <4>5. f[g] = seed[g % MaxWorkers] - Len(draws[w])
          <5>1. i <= i /\ (i - i) * n < MaxWorkers
            BY <1>4
          <5>2. f[w + i * n] = seed[(w + i * n) % MaxWorkers] - DrawnNow(w)
            BY <1>4, <5>1 DEF WorkerInv, SeedsInv, i, n
          <5> QED
            BY <1>1, <1>5, <5>2 DEF DrawnNow
        <4>6. seed[g % MaxWorkers] \in Nat /\ Len(draws[w]) \in Nat
          <5>1. g % MaxWorkers \in Slots
            BY <1>4, <4>2, Reduced DEF Slots
          <5> QED
            BY <5>1, WorkerFacts DEF TypeOK
        <4>7. f[g] + DrawsOf(f, g) = seed[g % MaxWorkers] - 0
          BY <1>6, <4>5, <4>6
        <4> QED
          BY <4>2, <4>3, <4>4, <4>7
      <3> QED
        <4>1. (c - i) * n \in Int
          BY <1>4
        <4> QED
          BY <1>4, <3>1, <3>2, <4>1
    <2>2. DrawnNow(w)' = 0
      BY <1>8 DEF DrawnNow
    <2> QED
      BY <1>2, <1>9, <2>1, <2>2 DEF SeedsInv, n
  <1>14. DrawingInv(f, w)'
    BY <1>8 DEF DrawingInv
  <1> QED
    BY <1>11, <1>12, <1>13, <1>14 DEF WorkerInv

\* A step of a worker is a step of the run.
LEMMA RunStep ==
    ASSUME ScheduleInv, TypeOK, DrawInv, ModeInv, NEW f, Follows(f), NEW w \in Running, Step(w)
    PROVE  ModeInv' /\ Follows(f)'
  <1>1. Follows(f)
    OBVIOUS
  <1>2. /\ numWorkers' = numWorkers /\ Running' = Running /\ issuedBefore' = issuedBefore
        /\ actionControl' = actionControl
    BY DEF Step, Done, AskReport, BeginCommand, Draw, HandOut, plan, Running
  <1>3. Offsets(f) /\ Offsets(f)' /\ \A g : Generated(f, g)' = Generated(f, g)
    BY <1>1, <1>2, SameFlags DEF Follows
  <1>4. WorkerInv(f, w)'
    <2>1. WorkerInv(f, w)
      BY <1>1 DEF Follows
    <2>2. CASE Done(w) \/ AskReport(w) \/ BeginCommand(w)
      BY <2>1, <2>2, AskKeeps
    <2>3. CASE Draw(w)
      BY <1>3, <2>1, <2>3, DrawKeeps
    <2>4. CASE HandOut(w)
      BY <1>3, <2>1, <2>4, HandOutKeeps
    <2> QED
      BY <2>2, <2>3, <2>4 DEF Step
  <1>5. ASSUME NEW v \in Running, v # w PROVE WorkerInv(f, v)'
    <2>1. WorkerInv(f, v)
      BY <1>1 DEF Follows
    <2> QED
      BY <1>5, <2>1, OthersKeep
  <1>6. Alone' <=> Alone
    BY <1>2 DEF Alone
  <1>7. BeforeInv(f) => BeforeInv(f)'
    BY <1>2, <1>3 DEF BeforeInv
  <1>8. Follows(f)'
    BY <1>1, <1>2, <1>3, <1>4, <1>5, <1>6, <1>7 DEF Follows
  <1> QED
    BY <1>2, <1>6, <1>8 DEF ModeInv

\* The offsets of a run stay its offsets.
LEMMA OffsetsStay ==
    ASSUME ScheduleInv, TypeOK, DrawInv, ModeInv, NEW f, Follows(f), [Next]_vars
    PROVE  ModeInv' /\ Follows(f)'
  <1>1. ASSUME NEW w \in Running, Step(w) PROVE ModeInv' /\ Follows(f)'
    BY <1>1, RunStep
  <1>2. CASE UNCHANGED vars
    <2>1. Follows(f)
      OBVIOUS
    <2>2. Offsets(f)' /\ \A g : Generated(f, g)' = Generated(f, g)
      BY <1>2, <2>1, SameFlags DEF Follows, vars, plan
    <2>3. ASSUME NEW w \in Running, WorkerInv(f, w) PROVE WorkerInv(f, w)'
      <3>1. ProgressInv(w)' /\ DrawingInv(f, w)'
        BY <1>2, <2>3 DEF WorkerInv, ProgressInv, Pending, DrawingInv, Current, vars, plan
      <3>2. IssuedInv(f, w)'
        BY <1>2, <2>2, <2>3 DEF WorkerInv, IssuedInv, vars, plan
      <3>3. SeedsInv(f, w)'
        BY <1>2, <2>3 DEF WorkerInv, SeedsInv, DrawnNow, vars, plan
      <3> QED
        BY <3>1, <3>2, <3>3 DEF WorkerInv
    <2>4. Running' = Running /\ (Alone' <=> Alone) /\ numWorkers' = numWorkers
      BY <1>2 DEF Running, Alone, vars, plan
    <2>5. BeforeInv(f) => BeforeInv(f)'
      BY <1>2, <2>2 DEF BeforeInv, vars
    <2>6. Follows(f)'
      BY <2>1, <2>2, <2>3, <2>4, <2>5 DEF Follows
    <2> QED
      BY <2>4, <2>6 DEF ModeInv
  <1> QED
    BY <1>1, <1>2, RunTestBank DEF Next, Finished

\* The invariant about the run is inductive.
LEMMA RunNext ==
    ScheduleInv /\ TypeOK /\ DrawInv /\ RunInv /\ [Next]_vars => RunInv'
  <1> SUFFICES ASSUME ScheduleInv, TypeOK, DrawInv, RunInv, [Next]_vars PROVE RunInv'
    OBVIOUS
  <1>1. PICK f : Follows(f)
    BY DEF RunInv
  <1>2. ModeInv' /\ Follows(f)'
    BY <1>1, OffsetsStay DEF RunInv
  <1> QED
    BY <1>2 DEF RunInv

\* Both runs draw what the offsets say.
THEOREM RunInvariant == Spec => [](ScheduleInv /\ TypeOK /\ DrawInv /\ RunInv)
  <1> QED
    BY ScheduleInit, ScheduleStep, TypesInit, TypesNext, RunInit, RunNext, PTL DEF Spec

\* A command of the lone worker, and that of the many workers with the same number.
LEMMA SameNumber ==
    ASSUME ScheduleInv, TypeOK, RunInv, Alone
    PROVE  \E f :
              \A g \in 1 .. Len(issued[0]) :
                 /\ issued[0][g].call = Generated(f, g - 1)
                 /\ Before(g).call = Generated(f, g - 1)
                 /\ issued[0][g].day = (g - 1) \div PerDay(1)
                 /\ Before(g).day = (g - 1) \div PerDay(1)
  <1>1. PICK f : Follows(f)
    BY DEF RunInv
  <1>2. numWorkers = 1 /\ 0 \in Running
    BY DEF RunInv, ModeInv, Running
  <1>3. WorkerInv(f, 0) /\ BeforeInv(f)
    BY <1>1, <1>2 DEF Follows
  <1> DEFINE N == NumWorkers
             P == PerWorker(NumWorkers)
             D == PerDay(NumWorkers)
             L == Len(issued[0])
  <1>4. /\ N \in Nat \ {0} /\ P \in Nat /\ D \in Nat \ {0}
        /\ P = 4 * D /\ NumCommands = N * P
    BY PlanFacts
  <1>5. /\ PerDay(1) \in Nat \ {0} /\ PerWorker(1) = 4 * PerDay(1)
        /\ NumCommands = 1 * PerWorker(1) /\ PerWorker(1) \in Nat
    BY PlanFacts
  <1>6. PerDay(1) = N * D
    <2>1. N * P = 4 * (N * D) /\ N * D \in Nat
      BY <1>4
    <2> QED
      BY <1>4, <1>5, <2>1
  <1>7. L \in Nat /\ L <= NumCommands /\ cmdsPerReportPerWorker = PerDay(1)
    <2>1. /\ Len(issued[0]) \in Nat /\ cmdCount[0] \in Nat
          /\ cmdsPerReportPerWorker = PerDay(numWorkers)
      BY <1>2, WorkerFacts
    <2>2. Pending(0) \in Nat
      BY DEF Pending
    <2>3. Len(issued[0]) + cmdCount[0] + Pending(0) = PerWorker(1)
      BY <1>2, <1>3 DEF WorkerInv, ProgressInv
    <2> QED
      BY <1>2, <1>5, <2>1, <2>2, <2>3
  <1>8. ASSUME NEW g \in 1 .. L
        PROVE  /\ issued[0][g].call = Generated(f, g - 1)
               /\ Before(g).call = Generated(f, g - 1)
               /\ issued[0][g].day = (g - 1) \div PerDay(1)
               /\ Before(g).day = (g - 1) \div PerDay(1)
    <2>1. issued[0][g].call = Generated(f, g - 1) /\ issued[0][g].day = (g - 1) \div PerDay(1)
      <3>1. 0 + (g - 1) * 1 = g - 1
        BY <1>7
      <3>2. /\ issued[0][g].call = Generated(f, 0 + (g - 1) * 1)
            /\ issued[0][g].day = (g - 1) \div PerDay(1)
        BY <1>2, <1>3, <1>7 DEF WorkerInv, IssuedInv
      <3> QED
        BY <3>1, <3>2
    <2> DEFINE x == g - 1
               q == x \div N
               r == x % N
    <2>2. x \in Nat /\ x < N * P
      BY <1>4, <1>7
    <2> HIDE DEF N, P, D, L, x
    <2>3. q \in Nat /\ r = x - N * q /\ r \in 0 .. (N - 1)
      BY <1>4, <2>2, Remainder
    <2> HIDE DEF q, r
    <2>4. q + 1 \in 1 .. P
      <3>1. CASE q >= P
        <4>1. N * q >= N * P
          BY <1>4, <2>3, <3>1
        <4> QED
          BY <1>4, <2>2, <2>3, <4>1
      <3> QED
        BY <1>4, <2>3, <3>1
    <2>5. r + ((q + 1) - 1) * N = x
      BY <1>4, <2>2, <2>3
    <2>6. r \in Workers
      BY <2>3, ScheduleAssumption DEF N
    <2>7. Before(g) = issuedBefore[r][q + 1]
      BY DEF Before, r, q, x, N
    <2>8. /\ issuedBefore[r][q + 1].call = Generated(f, r + ((q + 1) - 1) * N)
          /\ issuedBefore[r][q + 1].day = ((q + 1) - 1) \div D
      BY <1>3, <2>4, <2>6 DEF BeforeInv, N, P, D
    <2>9. ((q + 1) - 1) \div D = x \div PerDay(1)
      <3>1. (q + 1) - 1 = q
        BY <2>3
      <3>2. q \div D = x \div (N * D)
        BY <1>4, <2>2, DivideTwice DEF q
      <3> QED
        BY <1>6, <3>1, <3>2
    <2> QED
      BY <2>1, <2>5, <2>7, <2>8, <2>9 DEF x
  <1> QED
    BY <1>8

\* The lone worker gets the commands that the workers have got together, in turns,
\* however the scheduler has mixed their draws: what Action_Init does with the
\* seeds makes the comparison of the two banks in TestBank sound.
THEOREM CommandsAreSame == Spec => []SameCommands
  <1>1. ScheduleInv /\ TypeOK /\ RunInv => SameCommands
    <2> SUFFICES ASSUME ScheduleInv, TypeOK, RunInv, Alone
                 PROVE  /\ \A g \in 1 .. Len(issued[0]) : issued[0][g].call = Before(g).call
                        /\ AllDone => \A w \in Workers :
                              NumWorkers * Len(issuedBefore[w]) = Len(issued[0])
      BY DEF SameCommands
    <2>1. \A g \in 1 .. Len(issued[0]) : issued[0][g].call = Before(g).call
      BY SameNumber
    <2>2. ASSUME AllDone, NEW w \in Workers
          PROVE  NumWorkers * Len(issuedBefore[w]) = Len(issued[0])
      <3>1. PICK f : Follows(f)
        BY DEF RunInv
      <3>2. numWorkers = 1 /\ 0 \in Running
        BY DEF RunInv, ModeInv, Running
      <3>3. ProgressInv(0) /\ Len(issuedBefore[w]) = PerWorker(NumWorkers)
        BY <2>2, <3>1, <3>2 DEF Follows, WorkerInv, BeforeInv
      <3>4. Len(issued[0]) = PerWorker(1)
        BY <2>2, <3>2, <3>3, DoneMeansAll DEF AllDone
      <3>5. NumCommands = NumWorkers * PerWorker(NumWorkers)
        BY PlanFacts
      <3>6. NumCommands = PerWorker(1)
        <4>1. NumCommands = 1 * PerWorker(1) /\ PerWorker(1) = 4 * PerDay(1) /\ PerDay(1) \in Nat
          BY PlanFacts
        <4> QED
          BY <4>1
      <3> QED
        BY <3>3, <3>4, <3>5, <3>6
    <2> QED
      BY <2>1, <2>2
  <1> QED
    BY <1>1, RunInvariant, PTL

\* A command belongs to the same day in both runs, so that the reports of TestBank
\* can be compared night by night.
THEOREM DaysAreSame == Spec => []SameDays
  <1>1. ScheduleInv /\ TypeOK /\ RunInv => SameDays
    <2> SUFFICES ASSUME ScheduleInv, TypeOK, RunInv, Alone
                 PROVE  \A g \in 1 .. Len(issued[0]) : issued[0][g].day = Before(g).day
      BY DEF SameDays
    <2> QED
      BY SameNumber
  <1> QED
    BY <1>1, RunInvariant, PTL

-----------------------------------------------------------------------------
(***************************************************************************)
(* Account numbers                                                         *)
(***************************************************************************)
\* Quotient and remainder are the only such numbers.
LEMMA QuotientAndRemainder ==
    ASSUME NEW m \in Nat \ {0}, NEW q \in Nat, NEW r \in 0 .. (m - 1)
    PROVE  (q * m + r) \div m = q /\ (q * m + r) % m = r
  <1> DEFINE n == q * m + r
             p == n \div m
             t == q - p
  <1>1. n \in Nat /\ m * q = q * m
    OBVIOUS
  <1>2. p \in Nat /\ n % m = n - m * p /\ n % m \in 0 .. (m - 1)
    BY <1>1, Remainder
  <1> HIDE DEF p
  <1>3. t \in Int /\ m * t = m * q - m * p
    BY <1>2
  <1>4. m * t = (n % m) - r
    BY <1>1, <1>2, <1>3
  <1>5. m * t < m /\ -m < m * t
    BY <1>2, <1>4
  <1>6. t = 0
    BY <1>3, <1>5, SmallMultiple
  <1> QED
    BY <1>2, <1>4, <1>6 DEF p

\* The two parts of a number.
LEMMA Parts ==
    ASSUME NEW a \in Accounts
    PROVE  /\ a = <<GetBranchID(a), Subaccount(a)>>
           /\ GetBranchID(a) \in Nat
           /\ Subaccount(a) \in 0 .. (SubaccountRange - 1)
           /\ Subaccount(a) \in 0 .. (BranchShift - 1)
           /\ BranchShift \in Nat \ {0} /\ SubaccountRange \in Nat \ {0}
           /\ NumberOf(a) = GetBranchID(a) * BranchShift + Subaccount(a)
  <1>1. /\ SubaccountRange \in Nat /\ AcctsPerBranch \in Nat \ {0}
        /\ NumBranches \in Nat \ {0} /\ AcctsPerBranch <= SubaccountRange
    BY NumbersAssumption, BankAssumption
  <1>2. PICK k \in 1 .. BranchShift : BranchShift = k * SubaccountRange
    BY NumbersAssumption
  <1>3. SubaccountRange \in Nat \ {0}
    BY <1>1
  <1>4. k \in Nat \ {0} /\ BranchShift >= SubaccountRange /\ BranchShift \in Nat \ {0}
    <2>1. k \in Int /\ k >= 1
      BY <1>2
    <2>2. k * SubaccountRange >= 1 * SubaccountRange
      BY <1>3, <2>1
    <2> QED
      BY <1>2, <1>3, <2>1, <2>2
  <1>5. /\ a = <<GetBranchID(a), Subaccount(a)>>
        /\ GetBranchID(a) \in 0 .. (NumBranches - 1)
        /\ Subaccount(a) \in 0 .. (AcctsPerBranch - 1)
    BY DEF Accounts, Branches, GetBranchID, Subaccount
  <1> QED
    BY <1>1, <1>3, <1>4, <1>5 DEF NumberOf, MakeAccountNum

\* Account_LookupByNumber finds the account that a number was made for, whatever the
\* two widths, as long as the smaller one divides the greater.
THEOREM LookupFindsAccount ==
    \A a \in Accounts : LookupByNumber(NumberOf(a)) = a
  <1> SUFFICES ASSUME NEW a \in Accounts PROVE LookupByNumber(NumberOf(a)) = a
    OBVIOUS
  <1> DEFINE b == GetBranchID(a)
             s == Subaccount(a)
  <1>1. PICK k \in 1 .. BranchShift : BranchShift = k * SubaccountRange
    BY NumbersAssumption
  <1>2. /\ b \in Nat /\ s \in 0 .. (SubaccountRange - 1) /\ s \in 0 .. (BranchShift - 1)
        /\ BranchShift \in Nat \ {0} /\ SubaccountRange \in Nat \ {0} /\ k \in Nat
        /\ NumberOf(a) = b * BranchShift + s /\ a = <<b, s>>
    BY <1>1, Parts
  <1> HIDE DEF b, s
  <1>3. NumGetBranchID(NumberOf(a)) = b
    BY <1>2, QuotientAndRemainder DEF NumGetBranchID
  <1>4. NumSubaccount(NumberOf(a)) = s
    <2>1. b * k \in Nat /\ b * BranchShift = (b * k) * SubaccountRange
      BY <1>1, <1>2
    <2>2. ((b * k) * SubaccountRange + s) % SubaccountRange = s
      BY <1>2, <2>1, QuotientAndRemainder
    <2> QED
      BY <1>2, <2>1, <2>2 DEF NumSubaccount
  <1> QED
    BY <1>2, <1>3, <1>4 DEF LookupByNumber

\* Numbers are in the order of the pairs: the order in which Teller_DoTransfer takes
\* its locks is the one that module Teller gives to pairs.
THEOREM NumbersAreOrdered ==
    \A a, b \in Accounts : NumberOf(a) < NumberOf(b) <=> AcctLess(a, b)
  <1> SUFFICES ASSUME NEW a \in Accounts, NEW b \in Accounts
               PROVE  NumberOf(a) < NumberOf(b) <=> AcctLess(a, b)
    OBVIOUS
  <1> DEFINE i == GetBranchID(a)
             j == GetBranchID(b)
             s == Subaccount(a)
             t == Subaccount(b)
  <1>1. /\ i \in Nat /\ j \in Nat /\ BranchShift \in Nat \ {0}
        /\ s \in 0 .. (BranchShift - 1) /\ t \in 0 .. (BranchShift - 1)
        /\ NumberOf(a) = i * BranchShift + s /\ NumberOf(b) = j * BranchShift + t
    BY Parts
  <1>2. AcctLess(a, b) <=> i < j \/ (i = j /\ s < t)
    BY DEF AcctLess
  <1> HIDE DEF i, j, s, t
  <1>3. CASE i < j
    <2>1. (i + 1) * BranchShift <= j * BranchShift
      BY <1>1, <1>3
    <2>2. (i + 1) * BranchShift = i * BranchShift + BranchShift
      BY <1>1
    <2>3. i * BranchShift \in Nat /\ j * BranchShift \in Nat
      BY <1>1
    <2> QED
      BY <1>1, <1>2, <1>3, <2>1, <2>2, <2>3
  <1>4. CASE j < i
    <2>1. (j + 1) * BranchShift <= i * BranchShift
      BY <1>1, <1>4
    <2>2. (j + 1) * BranchShift = j * BranchShift + BranchShift
      BY <1>1
    <2>3. i * BranchShift \in Nat /\ j * BranchShift \in Nat
      BY <1>1
    <2> QED
      BY <1>1, <1>2, <1>4, <2>1, <2>2, <2>3
  <1>5. CASE i = j
    <2>1. j * BranchShift \in Nat
      BY <1>1
    <2> QED
      BY <1>1, <1>2, <1>5, <2>1
  <1> QED
    BY <1>1, <1>3, <1>4, <1>5

-----------------------------------------------------------------------------
(***************************************************************************)
(* The driver and the command generator                                    *)
(***************************************************************************)
\* A step of the driver is one of the generator, or leaves the generator alone.
LEMMA DriverStep == [DriverNext]_driverVars => [Next]_vars
  <1> SUFFICES ASSUME [DriverNext]_driverVars PROVE [Next]_vars
    OBVIOUS
  <1>1. CASE TestTheBank
    BY <1>1 DEF TestTheBank, Next
  <1>2. CASE DriverFinished
    BY <1>2 DEF DriverFinished, driverVars
  <1>3. ASSUME NEW w \in Running, Generate(w) \/ Execute(w) \/ Exit(w)
        PROVE  Next
    BY <1>3 DEF Generate, Execute, Exit, Next, Step
  <1>4. CASE UNCHANGED driverVars
    BY <1>4 DEF driverVars
  <1> QED
    BY <1>1, <1>2, <1>3, <1>4 DEF DriverNext

\* What the driver executes is what the generator hands out: BankDriver implements
\* ActionSchedule.
THEOREM DriverImplementsSchedule == DriverSpec => Spec
  <1>1. DriverInit => Init
    BY DEF DriverInit
  <1> QED
    BY <1>1, DriverStep, PTL DEF DriverSpec, Spec

\* While commands are executed, in whatever order, no two workers draw from one seed,
\* every worker that ends was asked for three reports, and the lone worker executes
\* the commands that the many have executed, on the same days.
THEOREM DriverKeepsSchedule ==
    DriverSpec => [](TypeOK /\ NoSharedSeed /\ ThreeReports /\ SameCommands /\ SameDays)
  BY DriverImplementsSchedule, TypesHold, SeedsAreDisjoint, ReportsAreThree,
     CommandsAreSame, DaysAreSame, PTL

-----------------------------------------------------------------------------
(***************************************************************************)
(* The balance of the bank                                                 *)
(***************************************************************************)
\* The sum over the legs of a command.
LEMMA SumOfLegs ==
    ASSUME NEW g, NEW n \in {1, 2}, \A i \in 1 .. n : g[i] \in Int
    PROVE  SumFunctionOnSet(g, 1 .. n) = IF n = 1 THEN g[1] ELSE g[1] + g[2]
  <1>1. IsFiniteSet({}) /\ IsFiniteSet({1})
    BY FS_EmptySet, FS_Singleton
  <1>2. SumFunctionOnSet(g, {}) = 0
    BY <1>1, SumPick
  <1>3. g[1] \in Int
    OBVIOUS
  <1>4. SumFunctionOnSet(g, {1}) = g[1]
    <2>1. SumFunctionOnSet(g, {1}) = g[1] + SumFunctionOnSet(g, {1} \ {1})
      BY <1>1, <1>3, SumTake
    <2>2. {1} \ {1} = {}
      OBVIOUS
    <2> QED
      BY <1>2, <1>3, <2>1, <2>2
  <1>5. CASE n = 1
    <2>1. 1 .. n = {1}
      BY <1>5
    <2> QED
      BY <1>4, <1>5, <2>1
  <1>6. CASE n = 2
    <2>1. 1 .. n = {1, 2} /\ {1, 2} \ {2} = {1}
      BY <1>6
    <2>2. IsFiniteSet({1, 2})
      BY <1>1, <2>1, FS_AddElement
    <2>3. g[1] \in Int /\ g[2] \in Int
      BY <1>6
    <2>4. SumFunctionOnSet(g, {1, 2}) = g[2] + SumFunctionOnSet(g, {1, 2} \ {2})
      BY <2>2, <2>3, SumTake
    <2>5. SumFunctionOnSet(g, {1, 2}) = g[2] + g[1]
      BY <1>4, <2>1, <2>4
    <2>a. SumFunctionOnSet(g, 1 .. n) = g[2] + g[1]
      BY <2>1, <2>5, Zenon
    <2>6. SumFunctionOnSet(g, 1 .. n) = g[1] + g[2]
      BY <2>3, <2>a
    <2> QED
      BY <1>6, <2>6
  <1> QED
    BY <1>5, <1>6

\* The branches of a bank are finitely many.
LEMMA FiniteBranches == IsFiniteSet(Branches)
  BY FS_Interval, BankAssumption DEF Branches

\* When no funds may flow, the commands that move money are transfers.
LEMMA NoFunds ==
    ASSUME "noFundsFlow" \in actionControl, NEW d \in Seq(Nat), Len(d) = DrawsNeeded(d),
           Moves(Command(d))
    PROVE  Command(d).kind = "transfer"
  <1>1. Sel(d) \in 0 .. 7
    BY DrawFacts
  <1>2. CASE Sel(d) \in {0, 1, 2}
    <2>1. Command(d) = OneAccount(d)
      BY <1>2 DEF Command
    <2>2. /\ Command(d).amt = 0
          /\ Command(d).kind \in {"withdraw", "deposit"}
      BY <2>1 DEF OneAccount
    <2> QED
      BY <2>2 DEF Moves, NothingToDo
  <1>3. CASE Sel(d) \in {3, 4, 5}
    <2>1. Command(d) = TwoAccounts(d)
      BY <1>3 DEF Command
    <2> QED
      BY <2>1 DEF TwoAccounts
  <1>4. CASE Sel(d) \in {6, 7}
    <2>1. Command(d) = OneBranch(d) \/ Command(d) = NoCall
      BY <1>4 DEF Command
    <2>2. Command(d).kind \in {"branchBalance", "bankBalance"}
      BY <2>1 DEF OneBranch, NoCall
    <2> QED
      BY <2>2 DEF Moves
  <1> QED
    BY <1>1, <1>2, <1>3, <1>4

\* What a command adds to an account and to a branch.
LEMMA GainOfLegs ==
    ASSUME NEW c \in CallSet
    PROVE  /\ LegAmount(c, 1) \in Int
           /\ \A a \in Accounts : AccountGain(c, a) =
                 (IF a = c.src THEN LegAmount(c, 1) ELSE 0)
                    + (IF c.kind = "transfer" /\ a = c.dst THEN c.amt ELSE 0)
           /\ \A b \in Branches : BranchGain(c, b) =
                 IF ~UpdatesBranch(c) THEN 0
                 ELSE (IF b = c.src[1] THEN LegAmount(c, 1) ELSE 0)
                         + (IF c.kind = "transfer" /\ b = c.dst[1] THEN c.amt ELSE 0)
  <1>1. c.src \in Accounts /\ c.dst \in Accounts /\ c.amt \in Nat
    BY DEF CallSet
  <1>2. Found(c, 1) = c.src /\ Found(c, 2) = c.dst
    BY <1>1, LookupFindsAccount DEF Found, LegAccount
  <1>3. LegAmount(c, 1) \in Int /\ LegAmount(c, 2) = c.amt
    BY <1>1 DEF LegAmount
  <1> DEFINE n == NumLegs(c)
  <1>4. n \in {1, 2} /\ (n = 2 <=> c.kind = "transfer")
    BY DEF NumLegs
  <1> HIDE DEF n
  <1>5. ASSUME NEW a \in Accounts
        PROVE  AccountGain(c, a) =
                  (IF a = c.src THEN LegAmount(c, 1) ELSE 0)
                     + (IF c.kind = "transfer" /\ a = c.dst THEN c.amt ELSE 0)
    <2> DEFINE g == [i \in 1 .. n |-> IF Found(c, i) = a THEN LegAmount(c, i) ELSE 0]
    <2>1. AccountGain(c, a) = SumFunctionOnSet(g, 1 .. n)
      BY DEF AccountGain, SumFunction, n
    <2>2. /\ g[1] = IF a = c.src THEN LegAmount(c, 1) ELSE 0
          /\ n = 2 => g[2] = IF a = c.dst THEN c.amt ELSE 0
      BY <1>2, <1>3, <1>4
    <2> HIDE DEF g
    <2>3. \A i \in 1 .. n : g[i] \in Int
      BY <1>1, <1>3, <1>4, <2>2
    <2>4. SumFunctionOnSet(g, 1 .. n) = IF n = 1 THEN g[1] ELSE g[1] + g[2]
      BY <1>4, <2>3, SumOfLegs
    <2> QED
      BY <1>1, <1>3, <1>4, <2>1, <2>2, <2>4
  <1>6. ASSUME NEW b \in Branches
        PROVE  BranchGain(c, b) =
                  IF ~UpdatesBranch(c) THEN 0
                  ELSE (IF b = c.src[1] THEN LegAmount(c, 1) ELSE 0)
                          + (IF c.kind = "transfer" /\ b = c.dst[1] THEN c.amt ELSE 0)
    <2> DEFINE g == [i \in 1 .. n |-> IF UpdatesBranch(c) /\ Found(c, i)[1] = b
                                      THEN LegAmount(c, i) ELSE 0]
    <2>1. BranchGain(c, b) = SumFunctionOnSet(g, 1 .. n)
      BY DEF BranchGain, SumFunction, n
    <2>2. /\ g[1] = IF UpdatesBranch(c) /\ b = c.src[1] THEN LegAmount(c, 1) ELSE 0
          /\ n = 2 => g[2] = IF UpdatesBranch(c) /\ b = c.dst[1] THEN c.amt ELSE 0
      BY <1>2, <1>3, <1>4
    <2> HIDE DEF g
    <2>3. \A i \in 1 .. n : g[i] \in Int
      BY <1>1, <1>3, <1>4, <2>2
    <2>4. SumFunctionOnSet(g, 1 .. n) = IF n = 1 THEN g[1] ELSE g[1] + g[2]
      BY <1>4, <2>3, SumOfLegs
    <2> QED
      BY <1>1, <1>3, <1>4, <2>1, <2>2, <2>4
  <1> QED
    BY <1>3, <1>5, <1>6

\* Both are whole numbers.
LEMMA GainTypes ==
    ASSUME NEW c \in CallSet
    PROVE  /\ \A a \in Accounts : AccountGain(c, a) \in Int
           /\ \A b \in Branches : BranchGain(c, b) \in Int
  <1>1. c.amt \in Int
    BY DEF CallSet
  <1> QED
    BY <1>1, GainOfLegs

\* A transfer gives to one branch what it takes from another.
LEMMA TransferGain ==
    ASSUME NEW c \in CallSet, c.kind = "transfer", NEW b \in Branches
    PROVE  BranchGain(c, b) =
              IF ~UpdatesBranch(c) THEN 0
              ELSE IF b = c.src[1] THEN -c.amt
              ELSE IF b = c.dst[1] THEN c.amt ELSE 0
  <1>1. LegAmount(c, 1) = -c.amt /\ c.amt \in Nat
    BY DEF LegAmount, CallSet
  <1>2. UpdatesBranch(c) => c.src[1] # c.dst[1]
    BY DEF UpdatesBranch, IsSameBranch, GetBranchID
  <1> QED
    BY <1>1, <1>2, GainOfLegs

\* It leaves the sum of the branches.
LEMMA TransferKeepsSum ==
    ASSUME NEW c \in CallSet, c.kind = "transfer",
           \A b \in Branches : bank.branch[b] \in Int
    PROVE  /\ \A b \in Branches : Moved(c).branch[b] \in Int
           /\ Bank_Balance(Moved(c)) = Bank_Balance(bank)
  <1> DEFINE from == c.src[1]
             to == c.dst[1]
             f == bank.branch
             k == Moved(c).branch
             taken == -c.amt
             h == [b \in Branches |-> IF b = from THEN f[b] + taken ELSE f[b]]
  <1>1. from \in Branches /\ to \in Branches /\ c.amt \in Nat /\ taken \in Int
    BY DEF CallSet, Accounts
  <1>2. \A b \in Branches : k[b] = f[b] + BranchGain(c, b)
    BY DEF Moved
  <1>3. \A b \in Branches : f[b] \in Int
    OBVIOUS
  <1>4. \A b \in Branches : BranchGain(c, b) =
           IF ~UpdatesBranch(c) THEN 0
           ELSE IF b = from THEN -c.amt ELSE IF b = to THEN c.amt ELSE 0
    BY TransferGain
  <1>5. \A b \in Branches : k[b] \in Int
    BY <1>1, <1>2, <1>3, <1>4
  <1>6. IsFiniteSet(Branches)
    BY FiniteBranches
  <1>7. SumFunctionOnSet(k, Branches) = SumFunctionOnSet(f, Branches)
    <2>1. CASE ~UpdatesBranch(c)
      <3>1. \A b \in Branches : k[b] = f[b]
        <4>1. \A b \in Branches : k[b] = f[b] + 0
          BY <1>2, <1>4, <2>1
        <4> QED
          BY <1>3, <4>1
      <3> HIDE DEF k, f
      <3> QED
        BY <1>6, <3>1, SumSame
    <2>2. CASE UpdatesBranch(c)
      <3>1. from # to
        BY <2>2 DEF UpdatesBranch, IsSameBranch, GetBranchID
      <3>2. Gains(f, h, Branches, from, taken)
        BY DEF Gains
      <3>3. \A b \in Branches : h[b] \in Int
        BY <1>1, <1>3
      <3>4. Gains(h, k, Branches, to, c.amt)
        <4> HIDE DEF from, to, f, k
        <4>1. ASSUME NEW b \in Branches
              PROVE  k[b] = IF b = to THEN h[b] + c.amt ELSE h[b]
          BY <1>1, <1>2, <1>3, <1>4, <2>2, <3>1
        <4> QED
          BY <4>1 DEF Gains
      <3>5. taken \in Int /\ c.amt \in Int /\ taken = -c.amt
        BY <1>1
      <3> HIDE DEF from, to, f, k, h, taken
      <3>6. /\ SumFunctionOnSet(f, Branches) \in Int
            /\ SumFunctionOnSet(h, Branches) =
                  SumFunctionOnSet(f, Branches) + (IF from \in Branches THEN taken ELSE 0)
        BY <1>3, <1>6, <3>2, <3>5, SumChange
      <3>7. SumFunctionOnSet(k, Branches) =
               SumFunctionOnSet(h, Branches) + (IF to \in Branches THEN c.amt ELSE 0)
        BY <1>6, <3>3, <3>4, <3>5, SumChange
      <3> QED
        BY <1>1, <3>5, <3>6, <3>7
    <2> QED
      BY <2>1, <2>2
  <1> QED
    BY <1>5, <1>7 DEF Bank_Balance

\* Whatever a command moves, it is a whole number.
LEMMA MovedType ==
    ASSUME NEW c \in CallSet, \A b \in Branches : bank.branch[b] \in Int, NEW b \in Branches
    PROVE  Moved(c).branch[b] \in Int
  BY GainTypes DEF Moved

\* No worker has counted an error, and the balance is what it was at the start, if
\* the test lets no funds flow.
BalanceInv ==
    /\ \A b \in Branches : bank.branch[b] \in Int
    /\ numBalanceErrors \in [Slots -> Int]
    /\ workerBalanceErrors \in [Slots -> Int]
    /\ \A w \in Slots : numBalanceErrors[w] = 0 /\ workerBalanceErrors[w] = 0
    /\ balanceCmdErrors = 0
    /\ testbankbalance => Bank_Balance(bank) = fixedBankBalance

\* A new bank has whole numbers in its branches.
LEMMA NewBankType == \A b \in Branches : NewBank.branch[b] \in Int
  <1>1. AcctsPerBranch + 3 \in Nat
    BY BankAssumption
  <1>2. (AcctsPerBranch + 3) \div 4 \in Int
    BY <1>1
  <1>3. OpeningBranchBalance \in Int
    BY <1>2, BankAssumption DEF OpeningBranchBalance
  <1> QED
    BY <1>3 DEF NewBank

\* CreateBank starts so.
LEMMA BalanceInit == DriverInit => BalanceInv
  BY NewBankType DEF DriverInit, BalanceInv, NoWork

\* No step of the driver changes that.
LEMMA BalanceStep ==
    TypeOK /\ ScheduleInv /\ BalanceInv /\ [DriverNext]_driverVars => BalanceInv'
  <1> SUFFICES ASSUME TypeOK, ScheduleInv, BalanceInv, [DriverNext]_driverVars
               PROVE  BalanceInv'
    OBVIOUS
  <1>1. CASE UNCHANGED driverVars
    BY <1>1 DEF driverVars, vars, plan, errors, BalanceInv, testbankbalance, Bank_Balance
  <1>2. ASSUME NEW w \in Running, Generate(w) PROVE BalanceInv'
    <2>1. actionControl' = actionControl
      BY <1>2 DEF Generate, AskReport, BeginCommand, Draw, plan
    <2> QED
      BY <1>2, <2>1 DEF Generate, errors, BalanceInv, testbankbalance, Bank_Balance
  <1>3. ASSUME NEW w \in Running, Exit(w) PROVE BalanceInv'
    <2>1. actionControl' = actionControl /\ w \in Slots
      BY <1>3, RunningSlots DEF Exit, Done, plan, ScheduleInv
    <2> QED
      BY <1>3, <2>1 DEF Exit, BalanceInv, testbankbalance, Bank_Balance
  <1>4. CASE TestTheBank
    <2>1. actionControl' = actionControl
      BY <1>4 DEF TestTheBank, TestBank
    <2>2. SumFunctionOnSet(workerBalanceErrors, Slots) = 0
      <3>1. MaxWorkers \in Nat /\ MaxWorkers - 1 \in Int
        BY ScheduleAssumption
      <3>2. IsFiniteSet(Slots)
        BY <3>1, FS_Interval DEF Slots
      <3>3. \A w \in Slots : workerBalanceErrors[w] = 0
        BY DEF BalanceInv
      <3>4. SumFunctionOnSet(workerBalanceErrors, Slots) = Cardinality(Slots) * 0
        BY <3>2, <3>3, SumConstant
      <3>5. Cardinality(Slots) \in Nat
        BY <3>2, FS_CardinalityType
      <3> QED
        BY <3>4, <3>5
    <2>3. \A b \in Branches : bank'.branch[b] \in Int
      BY <1>4, NewBankType DEF TestTheBank
    <2>4. testbankbalance' => Bank_Balance(bank)' = fixedBankBalance'
      BY <1>4, <2>1 DEF TestTheBank, testbankbalance, Bank_Balance
    <2>5. /\ numBalanceErrors' \in [Slots -> Int] /\ workerBalanceErrors' \in [Slots -> Int]
          /\ \A w \in Slots : numBalanceErrors'[w] = 0 /\ workerBalanceErrors'[w] = 0
      BY <1>4 DEF TestTheBank, BalanceInv
    <2> QED
      BY <1>4, <2>2, <2>3, <2>4, <2>5 DEF TestTheBank, BalanceInv
  <1>5. ASSUME NEW w \in Running, Execute(w) PROVE BalanceInv'
    <2> DEFINE c == Command(draws[w])
    <2>1. w \in Slots /\ draws[w] \in Seq(Nat) /\ Len(draws[w]) = DrawsNeeded(draws[w])
      BY <1>5, RunningSlots DEF Execute, HandOut, TypeOK, ScheduleInv
    <2>2. c \in CallSet
      BY <2>1, CommandType
    <2>3. /\ actionControl' = actionControl
          /\ bank' = IF Moves(c) THEN Moved(c) ELSE bank
          /\ numBalanceErrors' = [numBalanceErrors EXCEPT ![w] = IF IsWrong(c) THEN @ + 1 ELSE @]
          /\ UNCHANGED <<fixedBankBalance, workerBalanceErrors, balanceCmdErrors>>
      BY <1>5 DEF Execute, HandOut, plan
    <2>4. ~IsWrong(c)
      BY DEF IsWrong, BalanceInv
    <2>5. numBalanceErrors' \in [Slots -> Int] /\ \A v \in Slots : numBalanceErrors'[v] = 0
      BY <2>1, <2>3, <2>4 DEF BalanceInv
    <2> HIDE DEF c
    <2>6. \A b \in Branches : bank'.branch[b] \in Int
      <3>1. CASE Moves(c)
        <4>1. bank' = Moved(c)
          BY <2>3, <3>1
        <4> QED
          BY <2>2, <4>1, MovedType DEF BalanceInv
      <3>2. CASE ~Moves(c)
        BY <2>3, <3>2 DEF BalanceInv
      <3> QED
        BY <3>1, <3>2
    <2>7. testbankbalance => Bank_Balance(bank') = Bank_Balance(bank)
      <3>1. CASE Moves(c) /\ testbankbalance
        <4>1. c.kind = "transfer"
          BY <2>1, <3>1, NoFunds DEF c, testbankbalance
        <4>2. \A b \in Branches : bank.branch[b] \in Int
          BY DEF BalanceInv
        <4>3. Bank_Balance(Moved(c)) = Bank_Balance(bank)
          BY <2>2, <4>1, <4>2, TransferKeepsSum
        <4> QED
          BY <2>3, <3>1, <4>3
      <3>2. CASE ~Moves(c)
        BY <2>3, <3>2
      <3> QED
        BY <3>1, <3>2
    <2>8. testbankbalance' => Bank_Balance(bank)' = fixedBankBalance'
      BY <2>3, <2>7 DEF BalanceInv, testbankbalance, Bank_Balance
    <2> QED
      BY <2>3, <2>5, <2>6, <2>8 DEF BalanceInv
  <1> QED
    BY <1>1, <1>2, <1>3, <1>4, <1>5 DEF DriverNext, DriverFinished

\* When no funds flow in or out, every bank balance that a worker asks for is the one
\* that CreateBank has computed, and TestBank counts no error: for every number of
\* workers, branches, accounts and commands, and whatever rand_r returns.
THEOREM BalancesAreRight == DriverSpec => []NoBalanceErrors
  <1>1. DriverSpec => [](TypeOK /\ ScheduleInv)
    BY DriverImplementsSchedule, RunInvariant, PTL
  <1>2. DriverSpec => []BalanceInv
    BY <1>1, BalanceInit, BalanceStep, PTL DEF DriverSpec
  <1>3. BalanceInv => NoBalanceErrors
    BY DEF BalanceInv, NoBalanceErrors
  <1> QED
    BY <1>2, <1>3, PTL

-----------------------------------------------------------------------------
(***************************************************************************)
(* The books.  A command adds to a branch what it adds to its accounts,    *)
(* and none adds anything to an account that is to stay overdrawn.         *)
(***************************************************************************)
\* The accounts of a branch.
AccountsIn(b) == {a \in Accounts : GetBranchID(a) = b}

\* Each has as many as the others, in a row.
LEMMA AccountRows ==
    ASSUME NEW b \in Branches
    PROVE  /\ AccountsIn(b) = {b} \X (0 .. (AcctsPerBranch - 1))
           /\ IsFiniteSet(AccountsIn(b))
           /\ AccountsIn(b) \subseteq Accounts
  <1>1. AccountsIn(b) = {b} \X (0 .. (AcctsPerBranch - 1)) /\ AccountsIn(b) \subseteq Accounts
    BY DEF AccountsIn, Accounts, GetBranchID
  <1>2. IsFiniteSet(0 .. (AcctsPerBranch - 1))
    BY BankAssumption, FS_Interval
  <1>3. IsFiniteSet({b})
    BY FS_Singleton
  <1>4. IsFiniteSet({b} \X (0 .. (AcctsPerBranch - 1)))
    BY <1>2, <1>3, FS_Product
  <1> QED
    BY <1>1, <1>4

\* An account starts with a whole number.
LEMMA OpeningInt == \A a \in Accounts : OpeningBalance(a) \in Int
  BY BankAssumption DEF OpeningBalance

\* The closed form that Branch_Init computes is the sum of the accounts.
LEMMA NewBooks == Bank_Validate(NewBank)
  <1> SUFFICES ASSUME NEW b \in Branches
               PROVE  OpeningBranchBalance = SumFunctionOnSet(NewBank.account, AccountsIn(b))
    BY DEF Bank_Validate, Branch_Validate, AccountsIn, NewBank
  <1> DEFINE n == AcctsPerBranch
             k == Fourths(n)
             low == IF TestFailureCode THEN -1 ELSE InitialAmount
             f == NewBank.account
  <1>1. n \in Nat /\ InitialAmount \in Int /\ low \in Int /\ k \in Int
    BY BankAssumption DEF Fourths
  <1>2. IsRow(f, b, n, low, InitialAmount)
    <2>1. ASSUME NEW i \in 0 .. (n - 1)
          PROVE  f[<<b, i>>] = IF i % 4 = 0 THEN low ELSE InitialAmount
      <3>1. <<b, i>> \in Accounts /\ Subaccount(<<b, i>>) = i
        BY DEF Accounts, Subaccount
      <3> QED
        BY <3>1 DEF OpeningBalance, NewBank
    <2> QED
      BY <2>1 DEF IsRow
  <1>3. SumFunctionOnSet(f, AccountsIn(b)) = (n - k) * InitialAmount + k * low
    <2>1. AccountsIn(b) = {b} \X (0 .. (n - 1))
      BY AccountRows
    <2> HIDE DEF low, n, f
    <2>2. SumFunctionOnSet(f, {b} \X (0 .. (n - 1))) = RowSum(n, low, InitialAmount)
      BY <1>1, <1>2, SumOfRow
    <2> QED
      BY <2>1, <2>2 DEF RowSum
  <1>4. CASE TestFailureCode
    <2>1. OpeningBranchBalance = (n - k) * InitialAmount - k /\ low = -1
      BY <1>4 DEF OpeningBranchBalance, Fourths
    <2>2. (n - k) * InitialAmount \in Int
      BY <1>1
    <2> HIDE DEF k, low, n, f
    <2>3. k * low = -k
      BY <1>1, <2>1
    <2> QED
      BY <1>1, <1>3, <2>1, <2>2, <2>3 DEF f
  <1>5. CASE ~TestFailureCode
    <2>1. OpeningBranchBalance = (n - 0) * InitialAmount - 0 /\ low = InitialAmount
      BY <1>5 DEF OpeningBranchBalance
    <2> HIDE DEF k, low, n, f
    <2>2. (n - k) * InitialAmount + k * InitialAmount = n * InitialAmount
      BY <1>1
    <2> QED
      BY <1>1, <1>3, <2>1, <2>2 DEF f
  <1> QED
    BY <1>4, <1>5

\* What a command adds to the accounts of a branch, it adds to the branch.
LEMMA MovedBooks ==
    ASSUME NEW c \in CallSet, Bank_Validate(bank),
           \A a \in Accounts : bank.account[a] \in Int
    PROVE  Bank_Validate(Moved(c))
  <1> SUFFICES ASSUME NEW b \in Branches
               PROVE  Moved(c).branch[b] = SumFunctionOnSet(Moved(c).account, AccountsIn(b))
    BY DEF Bank_Validate, Branch_Validate, AccountsIn
  <1> DEFINE S == AccountsIn(b)
             f == bank.account
             k == Moved(c).account
             d == LegAmount(c, 1)
             e == IF c.kind = "transfer" THEN c.amt ELSE 0
             h == [a \in Accounts |-> IF a = c.src THEN f[a] + d ELSE f[a]]
  <1>1. /\ c.src \in Accounts /\ c.dst \in Accounts /\ c.amt \in Nat
        /\ d \in Int /\ e \in Int
        /\ c.kind = "transfer" => d = -c.amt
    BY GainOfLegs DEF CallSet, LegAmount
  <1>2. S \subseteq Accounts /\ IsFiniteSet(S)
    BY AccountRows
  <1>3. \A a \in S : f[a] \in Int
    BY <1>2
  <1>4. \A a \in S : h[a] = IF a = c.src THEN f[a] + d ELSE f[a]
    BY <1>2
  <1>5. \A a \in S : h[a] \in Int
    BY <1>1, <1>3, <1>4
  <1>6. \A a \in S : k[a] = IF a = c.dst THEN h[a] + e ELSE h[a]
    <2>1. ASSUME NEW a \in S
          PROVE  k[a] = IF a = c.dst THEN h[a] + e ELSE h[a]
      <3>1. a \in Accounts /\ f[a] \in Int
        BY <1>2, <1>3
      <3>2. k[a] = f[a] + AccountGain(c, a)
        BY <3>1 DEF Moved
      <3>3. AccountGain(c, a) = (IF a = c.src THEN d ELSE 0)
                                  + (IF c.kind = "transfer" /\ a = c.dst THEN c.amt ELSE 0)
        BY <3>1, GainOfLegs
      <3>4. h[a] = IF a = c.src THEN f[a] + d ELSE f[a]
        BY <3>1
      <3> HIDE DEF k, f, h, d, S
      <3> QED
        BY <1>1, <3>1, <3>2, <3>3, <3>4
    <2> QED
      BY <2>1
  <1>7. Gains(f, h, S, c.src, d) /\ Gains(h, k, S, c.dst, e)
    BY <1>4, <1>6 DEF Gains
  <1>8. SumFunctionOnSet(f, S) = bank.branch[b]
    BY DEF Bank_Validate, Branch_Validate, AccountsIn
  <1>9. Moved(c).branch[b] = bank.branch[b] + BranchGain(c, b)
    BY DEF Moved
  <1>10. /\ c.src \in S <=> b = c.src[1]
         /\ c.dst \in S <=> b = c.dst[1]
    BY <1>1 DEF AccountsIn, GetBranchID
  <1>11. BranchGain(c, b) = (IF c.src \in S THEN d ELSE 0) + (IF c.dst \in S THEN e ELSE 0)
    <2>1. BranchGain(c, b) =
             IF ~UpdatesBranch(c) THEN 0
             ELSE (IF b = c.src[1] THEN d ELSE 0)
                     + (IF c.kind = "transfer" /\ b = c.dst[1] THEN c.amt ELSE 0)
      BY GainOfLegs
    <2>2. ~UpdatesBranch(c) => c.kind = "transfer" /\ c.src[1] = c.dst[1]
      BY DEF UpdatesBranch, IsSameBranch, GetBranchID
    <2> HIDE DEF d, S
    <2> QED
      BY <1>1, <1>10, <2>1, <2>2
  <1> HIDE DEF S, f, k, d, e, h
  <1>12. /\ SumFunctionOnSet(f, S) \in Int
         /\ SumFunctionOnSet(h, S) = SumFunctionOnSet(f, S) + (IF c.src \in S THEN d ELSE 0)
    BY <1>1, <1>2, <1>3, <1>7, SumChange
  <1>13. SumFunctionOnSet(k, S) = SumFunctionOnSet(h, S) + (IF c.dst \in S THEN e ELSE 0)
    BY <1>1, <1>2, <1>5, <1>7, SumChange
  <1>14. SumFunctionOnSet(k, S) = bank.branch[b] + BranchGain(c, b)
    BY <1>1, <1>8, <1>11, <1>12, <1>13
  <1> QED
    BY <1>9, <1>14 DEF S, k

\* No command gives money to an account that is to stay overdrawn.
LEMMA CommandSpares ==
    ASSUME NEW d \in Seq(Nat), Len(d) = DrawsNeeded(d),
           Command(d).kind \in {"deposit", "transfer"}, TestsFailure(Command(d).dst)
    PROVE  Command(d).amt = 0
  <1>1. Sel(d) \in 0 .. 7
    BY DrawFacts
  <1>2. CASE Sel(d) \in {0, 1, 2}
    <2>1. Command(d) = OneAccount(d)
      BY <1>2 DEF Command
    <2>2. Sel(d) # 0 /\ TestsFailure(AccountOf(d[3], d[2]))
      BY <2>1 DEF OneAccount
    <2> QED
      BY <2>1, <2>2 DEF OneAccount
  <1>3. CASE Sel(d) \in {3, 4, 5}
    <2>1. Command(d) = TwoAccounts(d)
      BY <1>3 DEF Command
    <2> QED
      BY <2>1 DEF TwoAccounts
  <1>4. CASE Sel(d) \in {6, 7}
    <2>1. Command(d) = OneBranch(d) \/ Command(d) = NoCall
      BY <1>4 DEF Command
    <2> QED
      BY <2>1 DEF OneBranch, NoCall
  <1> QED
    BY <1>1, <1>2, <1>3, <1>4

\* The books balance, and what -f makes overdrawn is still so.
BooksInv ==
    /\ \A a \in Accounts : bank.account[a] \in Int
    /\ \A b \in Branches : bank.branch[b] \in Int
    /\ Bank_Validate(bank)
    /\ \A a \in Accounts : TestsFailure(a) => bank.account[a] = -1

\* A new bank is like that.
LEMMA NewBankBooks ==
    /\ \A a \in Accounts : NewBank.account[a] \in Int
    /\ \A b \in Branches : NewBank.branch[b] \in Int
    /\ Bank_Validate(NewBank)
    /\ \A a \in Accounts : TestsFailure(a) => NewBank.account[a] = -1
  <1>1. \A a \in Accounts : NewBank.account[a] = OpeningBalance(a)
    BY DEF NewBank
  <1>2. \A a \in Accounts : TestsFailure(a) => OpeningBalance(a) = -1
    BY DEF TestsFailure, OpeningBalance
  <1> QED
    BY <1>1, <1>2, OpeningInt, NewBankType, NewBooks

\* A command that is executed is what the draws say, and is well formed.
LEMMA ExecutedCommand ==
    ASSUME TypeOK, ScheduleInv, NEW w \in Running, Execute(w)
    PROVE  /\ w \in Slots /\ draws[w] \in Seq(Nat) /\ Len(draws[w]) = DrawsNeeded(draws[w])
           /\ Command(draws[w]) \in CallSet
           /\ HandOut(w)
           /\ bank' = IF Moves(Command(draws[w])) THEN Moved(Command(draws[w])) ELSE bank
           /\ bankmulti' = bankmulti
  <1>1. w \in Slots /\ draws[w] \in Seq(Nat) /\ Len(draws[w]) = DrawsNeeded(draws[w])
    BY RunningSlots DEF Execute, HandOut, TypeOK, ScheduleInv
  <1>2. Command(draws[w]) \in CallSet
    BY <1>1, CommandType
  <1> QED
    BY <1>1, <1>2 DEF Execute

\* An overdrawn account has nothing that a command could take, and is given nothing.
LEMMA OverdrawnStays ==
    ASSUME BooksInv, NEW d \in Seq(Nat), Len(d) = DrawsNeeded(d), Command(d) \in CallSet,
           Moves(Command(d)), NEW a \in Accounts, TestsFailure(a)
    PROVE  AccountGain(Command(d), a) = 0
  <1> DEFINE c == Command(d)
  <1>1. c.src \in Accounts /\ c.dst \in Accounts /\ c.amt \in Nat /\ c.kind \in Kinds
    BY DEF CallSet
  <1>2. c.kind \in {"deposit", "withdraw", "transfer"} /\ c.amt # 0
    BY DEF Moves, NothingToDo
  <1>3. ChecksFunds(c) => a # c.src
    <2>1. bank.account[a] = -1
      BY DEF BooksInv
    <2>2. Found(c, 1) = c.src
      BY <1>1, LookupFindsAccount DEF Found, LegAccount
    <2>3. c.amt > -1
      BY <1>1
    <2> QED
      BY <2>1, <2>2, <2>3 DEF Moves, Refused
  <1>4. c.kind \in {"deposit", "transfer"} => a # c.dst
    BY <1>2, CommandSpares
  <1>5. c.kind = "deposit" => c.dst = c.src
    BY DEF CallSet
  <1>6. a # c.src /\ (c.kind = "transfer" => a # c.dst)
    BY <1>2, <1>3, <1>4, <1>5 DEF ChecksFunds
  <1> HIDE DEF c
  <1>7. AccountGain(c, a) = (IF a = c.src THEN LegAmount(c, 1) ELSE 0)
                              + (IF c.kind = "transfer" /\ a = c.dst THEN c.amt ELSE 0)
    BY GainOfLegs DEF c
  <1> QED
    BY <1>6, <1>7 DEF c

\* No step of the driver disturbs the books.
LEMMA BooksStep ==
    TypeOK /\ ScheduleInv /\ BooksInv /\ [DriverNext]_driverVars => BooksInv'
  <1> SUFFICES ASSUME TypeOK, ScheduleInv, BooksInv, [DriverNext]_driverVars
               PROVE  BooksInv'
    OBVIOUS
  <1>1. CASE bank' = bank
    BY <1>1 DEF BooksInv, Bank_Validate, Branch_Validate
  <1>2. CASE bank' = NewBank
    BY <1>2, NewBankBooks DEF BooksInv, Bank_Validate, Branch_Validate
  <1>3. ASSUME NEW w \in Running, Execute(w) PROVE BooksInv'
    <2> DEFINE c == Command(draws[w])
    <2>1. /\ draws[w] \in Seq(Nat) /\ Len(draws[w]) = DrawsNeeded(draws[w]) /\ c \in CallSet
          /\ bank' = IF Moves(c) THEN Moved(c) ELSE bank
      BY <1>3, ExecutedCommand
    <2>2. CASE Moves(c)
      <3> DEFINE bk == Moved(c)
      <3>1. \A a \in Accounts : TestsFailure(a) => AccountGain(c, a) = 0
        BY <2>1, <2>2, OverdrawnStays
      <3> HIDE DEF c
      <3>2. /\ \A a \in Accounts : bk.account[a] = bank.account[a] + AccountGain(c, a)
            /\ \A b \in Branches : bk.branch[b] = bank.branch[b] + BranchGain(c, b)
        BY DEF Moved
      <3>3. Bank_Validate(bk)
        BY <2>1, MovedBooks DEF BooksInv
      <3>4. /\ \A a \in Accounts : bk.account[a] \in Int
            /\ \A b \in Branches : bk.branch[b] \in Int
        <4> HIDE DEF bk
        <4> QED
          BY <2>1, <3>2, GainTypes DEF BooksInv
      <3>5. \A a \in Accounts : TestsFailure(a) => bk.account[a] = -1
        BY <3>1, <3>2 DEF BooksInv
      <3>6. bank' = bk
        BY <2>1, <2>2
      <3> HIDE DEF bk
      <3> QED
        BY <3>3, <3>4, <3>5, <3>6 DEF BooksInv, Bank_Validate, Branch_Validate
    <2>3. CASE ~Moves(c)
      BY <1>1, <2>1, <2>3
    <2> QED
      BY <2>2, <2>3
  <1> QED
    BY <1>1, <1>2, <1>3
       DEF DriverNext, TestTheBank, DriverFinished, Generate, Exit, driverVars

\* In every state of both runs the balance of a branch is the sum of its accounts, so
\* that Bank_Validate finds nothing, and the accounts that -f makes overdrawn are as
\* they were opened, whatever commands are drawn and in whichever order.
THEOREM BooksAreKept ==
    DriverSpec => [](/\ Bank_Validate(bank)
                     /\ \A a \in Accounts : TestsFailure(a) => bank.account[a] = -1)
  <1>1. DriverSpec => [](TypeOK /\ ScheduleInv)
    BY DriverImplementsSchedule, RunInvariant, PTL
  <1>2. DriverInit => BooksInv
    BY NewBankBooks DEF DriverInit, BooksInv
  <1>3. DriverSpec => []BooksInv
    BY <1>1, <1>2, BooksStep, PTL DEF DriverSpec
  <1>4. BooksInv => /\ Bank_Validate(bank)
                    /\ \A a \in Accounts : TestsFailure(a) => bank.account[a] = -1
    BY DEF BooksInv
  <1> QED
    BY <1>3, <1>4, PTL

-----------------------------------------------------------------------------
(***************************************************************************)
(* The ledger.  Which commands move money is decided by the commands       *)
(* alone, as long as only overdrawn accounts refuse to pay.  A bank is     *)
(* then what it was opened with and the sum of what the executed commands  *)
(* add, in whichever order they came; and both runs execute the same       *)
(* commands, those that the offsets of the schedule generate.              *)
(***************************************************************************)
\* No withdrawal and no transfer is refused for lack of money, but on the accounts
\* that -f makes overdrawn.
OnlyOverdrawnRefuse ==
    \A w \in Running :
       (/\ pc[w] = "draw"
        /\ Len(draws[w]) = DrawsNeeded(draws[w])
        /\ Refused(Command(draws[w]))) => TestsFailure(Command(draws[w]).src)

\* The commands that move money then.
Effective(c) ==
    /\ c.kind \in {"deposit", "withdraw", "transfer"}
    /\ ~NothingToDo(c)
    /\ ~(ChecksFunds(c) /\ TestsFailure(c.src))

CommandNumbers == 0 .. (NumCommands - 1)

\* The numbers of the commands that the workers have got: worker w has the numbers w,
\* w + numWorkers, w + 2 * numWorkers ...
Executed == {g \in CommandNumbers : g \div numWorkers < Len(issued[g % numWorkers])}

\* What each command adds to an account and to a branch.
AccountEntries(f, a) ==
    [g \in CommandNumbers |->
        IF Effective(Generated(f, g)) THEN AccountGain(Generated(f, g), a) ELSE 0]

BranchEntries(f, b) ==
    [g \in CommandNumbers |->
        IF Effective(Generated(f, g)) THEN BranchGain(Generated(f, g), b) ELSE 0]

\* A bank in which the commands G have been executed, and no others.
Booked(bk, f, G) ==
    /\ \A a \in Accounts :
          bk.account[a] = OpeningBalance(a) + SumFunctionOnSet(AccountEntries(f, a), G)
    /\ \A b \in Branches :
          bk.branch[b] = OpeningBranchBalance + SumFunctionOnSet(BranchEntries(f, b), G)

\* Both banks are booked, by the same commands.
Ledger(f) ==
    /\ Follows(f)
    /\ Booked(bank, f, Executed)
    /\ Alone => Booked(bankmulti, f, CommandNumbers)

LedgerInv == ModeInv /\ \E f : Ledger(f)

\* The numbers drawn for a command make one that the tellers understand.
LEMMA GeneratedType ==
    ASSUME NEW f, Offsets(f), NEW g \in CommandNumbers
    PROVE  /\ Generated(f, g) \in CallSet
           /\ \E d \in Seq(Nat) : Len(d) = DrawsNeeded(d) /\ Generated(f, g) = Command(d)
  <1> DEFINE s == g % MaxWorkers
             l == DrawsOf(f, g)
             d == Numbers(s, f[g], l)
  <1>1. g \in 0 .. (NumCommands - 1) /\ NumCommands \in Nat /\ MaxWorkers \in Nat \ {0}
    BY ScheduleAssumption DEF CommandNumbers
  <1>2. g \in Nat /\ g < LastOffset
    BY <1>1 DEF LastOffset
  <1>3. f[g] \in 0 .. (MaxDraws * g)
    BY <1>2 DEF Offsets, Upto
  <1>4. l \in 1 .. MaxDraws /\ s \in Slots
    BY <1>1, <1>3, DrawsOfType
  <1>5. \A j \in 1 .. l : f[g] + j - 1 \in 0 .. (MaxDraws * NumCommands)
    <2> HIDE DEF l
    <2> QED
      BY <1>1, <1>3, <1>4 DEF MaxDraws
  <1>6. \A j \in 1 .. l : RandR(s, f[g] + j - 1) \in Nat
    BY <1>4, <1>5, RandAssumption
  <1>7. d \in Seq(Nat) /\ Len(d) = l /\ d # <<>> /\ d[1] = RandR(s, f[g])
    <2> HIDE DEF l, s
    <2>1. l \in Nat /\ 1 \in 1 .. l
      BY <1>4 DEF MaxDraws
    <2>2. d = [j \in 1 .. l |-> RandR(s, f[g] + j - 1)]
      BY DEF Numbers
    <2>3. d \in [1 .. l -> Nat]
      BY <1>6, <2>2
    <2>4. d \in Seq(Nat)
      BY <2>1, <2>3
    <2>5. Len(d) = l
      BY <2>1, <2>3, <2>4
    <2>6. f[g] + 1 - 1 = f[g]
      BY <1>2, <1>3
    <2>7. d[1] = RandR(s, f[g] + 1 - 1)
      BY <2>1, <2>2
    <2> HIDE DEF d
    <2> QED
      BY <2>1, <2>4, <2>5, <2>6, <2>7
  <1>8. DrawsNeeded(d) = l
    <2> HIDE DEF d
    <2>1. DrawsNeeded(d) = DrawsNeeded(<<d[1]>>)
      BY <1>7, FirstDecides
    <2> QED
      BY <1>7, <2>1 DEF DrawsOf
  <1>9. Generated(f, g) = Command(d)
    BY DEF Generated
  <1> HIDE DEF d, l
  <1> QED
    BY <1>7, <1>8, <1>9, CommandType

\* So the entries are whole numbers.
LEMMA EntryTypes ==
    ASSUME NEW f, Offsets(f)
    PROVE  /\ \A a \in Accounts : \A g \in CommandNumbers : AccountEntries(f, a)[g] \in Int
           /\ \A b \in Branches : \A g \in CommandNumbers : BranchEntries(f, b)[g] \in Int
  <1>1. ASSUME NEW a \in Accounts, NEW g \in CommandNumbers
        PROVE  AccountEntries(f, a)[g] \in Int
    <2>1. AccountGain(Generated(f, g), a) \in Int
      BY GeneratedType, GainTypes
    <2> QED
      BY <2>1 DEF AccountEntries
  <1>2. ASSUME NEW b \in Branches, NEW g \in CommandNumbers
        PROVE  BranchEntries(f, b)[g] \in Int
    <2>1. BranchGain(Generated(f, g), b) \in Int
      BY GeneratedType, GainTypes
    <2> QED
      BY <2>1 DEF BranchEntries
  <1> QED
    BY <1>1, <1>2

\* There are finitely many commands.
LEMMA CommandsFinite ==
    /\ IsFiniteSet(CommandNumbers) /\ Cardinality(CommandNumbers) = NumCommands
    /\ IsFiniteSet(Executed) /\ Executed \subseteq CommandNumbers
  <1>1. NumCommands \in Nat
    BY ScheduleAssumption
  <1>2. IsFiniteSet(CommandNumbers) /\ Cardinality(CommandNumbers) = NumCommands
    <2>1. 0 \in Int /\ NumCommands - 1 \in Int
      BY <1>1
    <2>2. /\ IsFiniteSet(0 .. (NumCommands - 1))
          /\ Cardinality(0 .. (NumCommands - 1)) =
                IF 0 > NumCommands - 1 THEN 0 ELSE (NumCommands - 1) - 0 + 1
      BY <2>1, FS_Interval
    <2> QED
      BY <1>1, <2>2 DEF CommandNumbers
  <1>3. Executed \subseteq CommandNumbers
    BY DEF Executed
  <1> QED
    BY <1>2, <1>3, FS_Subset

\* A run begins.
Begins == PlanInv /\ \A w \in Running : issued[w] = <<>>

\* Nothing is executed then.
LEMMA NothingExecuted == Begins => Executed = {}
  <1> SUFFICES ASSUME PlanInv, \A w \in Running : issued[w] = <<>>
               PROVE  Executed = {}
    BY DEF Begins
  <1>1. NumCommands \in Nat /\ numWorkers \in Nat \ {0}
    BY PlanFacts, ScheduleAssumption DEF PlanInv
  <1>2. ASSUME NEW g \in CommandNumbers PROVE ~(g \div numWorkers < Len(issued[g % numWorkers]))
    <2>1. g \in Nat
      BY <1>1 DEF CommandNumbers
    <2>2. g % numWorkers \in Running /\ g \div numWorkers \in Nat
      BY <1>1, <2>1, Remainder DEF Running
    <2>3. Len(issued[g % numWorkers]) = 0
      BY <2>2
    <2> QED
      BY <2>2, <2>3
  <1> QED
    BY <1>2 DEF Executed

\* When all workers are done, every command has been executed.
LEMMA AllExecuted ==
    ASSUME ScheduleInv, TypeOK, NEW f, Follows(f), AllDone
    PROVE  Executed = CommandNumbers
  <1> DEFINE n == numWorkers
             P == PerWorker(n)
  <1>1. NumCommands \in Nat /\ n \in Nat \ {0} /\ P \in Nat /\ NumCommands = n * P
    BY PlanFacts, ScheduleAssumption DEF ScheduleInv, PlanInv
  <1>2. ASSUME NEW g \in CommandNumbers PROVE g \div n < Len(issued[g % n])
    <2>1. g \in Nat /\ g < NumCommands
      BY <1>1 DEF CommandNumbers
    <2> HIDE DEF n, P
    <2>2. g % n \in 0 .. (n - 1) /\ g \div n \in Nat /\ g % n = g - n * (g \div n)
      BY <1>1, <2>1, Remainder
    <2>3. g % n \in Running
      BY <2>2 DEF Running, n
    <2>4. Len(issued[g % n]) = P
      BY <2>3, DoneMeansAll DEF Follows, WorkerInv, AllDone, n, P
    <2>5. CASE g \div n >= P
      <3>1. n * (g \div n) >= n * P
        BY <1>1, <2>2, <2>5
      <3>2. n * (g \div n) \in Nat
        BY <1>1, <2>2
      <3> QED
        BY <1>1, <2>1, <2>2, <3>1, <3>2
    <2> QED
      BY <1>1, <2>2, <2>4, <2>5
  <1> QED
    BY <1>2 DEF Executed

\* The command that a worker is drawing has its number, and is not executed yet.
LEMMA CurrentCommand ==
    ASSUME ScheduleInv, TypeOK, NEW f, Follows(f), NEW w \in Running, pc[w] = "draw"
    PROVE  /\ Current(w) \in CommandNumbers
           /\ Current(w) \notin Executed
           /\ Current(w) = Len(issued[w]) * numWorkers + w
           /\ Current(w) \div numWorkers = Len(issued[w])
           /\ Current(w) % numWorkers = w
  <1> DEFINE n == numWorkers
             i == Len(issued[w])
             x == Current(w)
  <1>1. n \in Nat \ {0} /\ w \in Nat /\ w \in 0 .. (n - 1) /\ i \in Nat /\ w \in Slots
    BY WorkerFacts
  <1>2. x \in CommandNumbers
    <2>1. ProgressInv(w) /\ Offsets(f)
      BY DEF Follows, WorkerInv
    <2> QED
      BY <2>1, CurrentFacts DEF CommandNumbers
  <1>3. x = i * n + w /\ x \div n = i /\ x % n = w
    <2>1. x = i * n + w
      BY <1>1 DEF Current
    <2> HIDE DEF n, i, x
    <2> QED
      BY <1>1, <2>1, QuotientAndRemainder
  <1>4. x \notin Executed
    BY <1>1, <1>3 DEF Executed
  <1> QED
    BY <1>2, <1>3, <1>4

\* It, and no other, comes to those that are executed.
LEMMA ExecutedGrows ==
    ASSUME ScheduleInv, TypeOK, NEW f, Follows(f), NEW w \in Running, HandOut(w)
    PROVE  /\ Current(w) \in CommandNumbers
           /\ Current(w) \notin Executed
           /\ Executed' = Executed \cup {Current(w)}
  <1> DEFINE n == numWorkers
             i == Len(issued[w])
             x == Current(w)
  <1>1. n \in Nat \ {0} /\ w \in Nat /\ w \in 0 .. (n - 1) /\ i \in Nat /\ w \in Slots
    BY WorkerFacts
  <1>2. x \in CommandNumbers /\ x \notin Executed /\ NumCommands \in Nat
    BY CurrentCommand, ScheduleAssumption DEF HandOut
  <1>3. x = i * n + w /\ x \div n = i /\ x % n = w
    BY CurrentCommand DEF HandOut
  <1>5. numWorkers' = n /\ Running' = Running
    BY DEF HandOut, plan, Running
  <1>6. Len(issued'[w]) = i + 1
    <2>1. issued[w] \in Seq([call : CallSet, day : Nat]) /\ issued \in [Slots -> Seq([call : CallSet, day : Nat])]
      BY <1>1 DEF TypeOK
    <2>2. issued'[w] = Append(issued[w], [call |-> Command(draws[w]), day |-> reports[w]])
      BY <1>1, <2>1 DEF HandOut
    <2> QED
      BY <2>1, <2>2
  <1>7. \A v \in Running : v # w => issued'[v] = issued[v]
    <2>1. Running \subseteq Slots
      BY RunningSlots DEF ScheduleInv
    <2> QED
      BY <2>1 DEF HandOut, TypeOK
  <1>8. ASSUME NEW g \in CommandNumbers
        PROVE  g \div n < Len(issued'[g % n]) <=> g \div n < Len(issued[g % n]) \/ g = x
    <2>1. g \in Nat
      BY <1>2 DEF CommandNumbers
    <2>2. g % n \in 0 .. (n - 1) /\ g \div n \in Nat /\ g % n = g - n * (g \div n)
      <3> HIDE DEF n
      <3> QED
        BY <1>1, <2>1, Remainder
    <2>3. g % n \in Running
      BY <2>2 DEF Running
    <2>4. CASE g % n # w
      <3>1. issued'[g % n] = issued[g % n] /\ g # x
        BY <1>3, <1>7, <2>3, <2>4
      <3> QED
        BY <3>1
    <2>5. CASE g % n = w
      <3> DEFINE q == g \div n
      <3>1. q < Len(issued'[w]) <=> q < i \/ q = i
        <4> HIDE DEF q, i
        <4>1. q \in Nat
          BY <2>2 DEF q
        <4> QED
          BY <1>1, <1>6, <4>1
      <3>2. q = i <=> g = x
        <4>1. q = i => g = x
          <5>1. ASSUME q = i PROVE g = x
            <6>1. w = g - n * i
              BY <2>2, <2>5, <5>1
            <6>2. n * i = i * n /\ n * i \in Nat
              BY <1>1
            <6> HIDE DEF n, i, x, q
            <6> QED
              BY <1>1, <1>3, <2>1, <6>1, <6>2
          <5> QED
            BY <5>1
        <4> QED
          BY <1>3, <4>1
      <3> QED
        BY <2>5, <3>1, <3>2
    <2> QED
      BY <2>4, <2>5
  <1>9. Executed' = {g \in CommandNumbers : g \div n < Len(issued'[g % n])}
    BY <1>5 DEF Executed
  <1> QED
    BY <1>2, <1>8, <1>9 DEF Executed

\* The entries of the ledger do not change while the flags do not.
LEMMA SameEntries ==
    ASSUME actionControl' = actionControl, NEW f
    PROVE  /\ \A a : AccountEntries(f, a)' = AccountEntries(f, a)
           /\ \A b : BranchEntries(f, b)' = BranchEntries(f, b)
  <1>1. \A g : Generated(f, g)' = Generated(f, g)
    BY SameFlags
  <1>2. ASSUME NEW a PROVE AccountEntries(f, a)' = AccountEntries(f, a)
    BY <1>1 DEF AccountEntries
  <1>3. ASSUME NEW b PROVE BranchEntries(f, b)' = BranchEntries(f, b)
    BY <1>1 DEF BranchEntries
  <1> QED
    BY <1>2, <1>3

\* One more entry in the ledger.
LEMMA BookedMore ==
    ASSUME NEW f, Offsets(f), NEW bk, NEW next, NEW G \in SUBSET CommandNumbers,
           Booked(bk, f, G), NEW x \in CommandNumbers \ G,
           \A a \in Accounts : next.account[a] = bk.account[a] + AccountEntries(f, a)[x],
           \A b \in Branches : next.branch[b] = bk.branch[b] + BranchEntries(f, b)[x]
    PROVE  Booked(next, f, G \cup {x})
  <1>1. IsFiniteSet(G) /\ IsFiniteSet(G \cup {x}) /\ (G \cup {x}) \ {x} = G
    <2>1. IsFiniteSet(G)
      BY CommandsFinite, FS_Subset
    <2>2. IsFiniteSet(G \cup {x})
      BY <2>1, FS_AddElement
    <2> QED
      BY <2>1, <2>2
  <1>2. ASSUME NEW h, \A g \in CommandNumbers : h[g] \in Int
        PROVE  /\ SumFunctionOnSet(h, G) \in Int /\ h[x] \in Int
               /\ SumFunctionOnSet(h, G \cup {x}) = h[x] + SumFunctionOnSet(h, G)
    <2>1. (\A g \in G : h[g] \in Int) /\ (\A g \in G \cup {x} : h[g] \in Int) /\ h[x] \in Int
      BY <1>2
    <2>2. SumFunctionOnSet(h, G) \in Int
      BY <1>1, <2>1, SumType
    <2>3. x \in G \cup {x}
      OBVIOUS
    <2>4. SumFunctionOnSet(h, G \cup {x}) = h[x] + SumFunctionOnSet(h, (G \cup {x}) \ {x})
      BY <1>1, <2>1, <2>3, SumTake
    <2> QED
      BY <1>1, <2>1, <2>2, <2>4
  <1>3. ASSUME NEW a \in Accounts
        PROVE  next.account[a] =
                  OpeningBalance(a) + SumFunctionOnSet(AccountEntries(f, a), G \cup {x})
    <2> DEFINE h == AccountEntries(f, a)
    <2>1. \A g \in CommandNumbers : h[g] \in Int
      BY EntryTypes
    <2>2. /\ bk.account[a] = OpeningBalance(a) + SumFunctionOnSet(h, G)
          /\ next.account[a] = bk.account[a] + h[x]
          /\ OpeningBalance(a) \in Int
      BY OpeningInt DEF Booked
    <2> HIDE DEF h
    <2>3. /\ SumFunctionOnSet(h, G) \in Int /\ h[x] \in Int
          /\ SumFunctionOnSet(h, G \cup {x}) = h[x] + SumFunctionOnSet(h, G)
      BY <1>2, <2>1
    <2>4. next.account[a] = OpeningBalance(a) + SumFunctionOnSet(h, G \cup {x})
      BY <2>2, <2>3
    <2> QED
      BY <2>4 DEF h
  <1>4. ASSUME NEW b \in Branches
        PROVE  next.branch[b] =
                  OpeningBranchBalance + SumFunctionOnSet(BranchEntries(f, b), G \cup {x})
    <2> DEFINE h == BranchEntries(f, b)
    <2>1. \A g \in CommandNumbers : h[g] \in Int
      BY EntryTypes
    <2>2. /\ bk.branch[b] = OpeningBranchBalance + SumFunctionOnSet(h, G)
          /\ next.branch[b] = bk.branch[b] + h[x]
          /\ OpeningBranchBalance \in Int
      BY NewBankType DEF Booked, NewBank
    <2> HIDE DEF h
    <2>3. /\ SumFunctionOnSet(h, G) \in Int /\ h[x] \in Int
          /\ SumFunctionOnSet(h, G \cup {x}) = h[x] + SumFunctionOnSet(h, G)
      BY <1>2, <2>1
    <2>4. next.branch[b] = OpeningBranchBalance + SumFunctionOnSet(h, G \cup {x})
      BY <2>2, <2>3
    <2> QED
      BY <2>4 DEF h
  <1> QED
    BY <1>3, <1>4 DEF Booked

\* An overdrawn account refuses every command that would take from it, and no other
\* account refuses any: what moves money does not depend on the state.
LEMMA MovesIfEffective ==
    ASSUME TypeOK, ScheduleInv, BooksInv, OnlyOverdrawnRefuse, NEW w \in Running, Execute(w)
    PROVE  Moves(Command(draws[w])) <=> Effective(Command(draws[w]))
  <1> DEFINE c == Command(draws[w])
  <1>1. c \in CallSet /\ pc[w] = "draw" /\ Len(draws[w]) = DrawsNeeded(draws[w])
    BY ExecutedCommand DEF HandOut
  <1>2. c.src \in Accounts /\ c.amt \in Nat
    BY <1>1 DEF CallSet
  <1>3. Found(c, 1) = c.src
    BY <1>2, LookupFindsAccount DEF Found, LegAccount
  <1>4. Refused(c) => ChecksFunds(c) /\ TestsFailure(c.src)
    BY <1>1 DEF Refused, OnlyOverdrawnRefuse
  <1>5. ChecksFunds(c) /\ TestsFailure(c.src) => Refused(c)
    <2> SUFFICES ASSUME ChecksFunds(c), TestsFailure(c.src) PROVE Refused(c)
      OBVIOUS
    <2>1. bank.account[c.src] = -1
      BY <1>2 DEF BooksInv
    <2>2. c.amt > -1
      BY <1>2
    <2> QED
      BY <1>3, <2>1, <2>2 DEF Refused
  <1> HIDE DEF c
  <1>6. Moves(c) <=> Effective(c)
    BY <1>4, <1>5 DEF Moves, Effective
  <1> QED
    BY <1>6 DEF c

\* A step that changes neither what is executed nor the banks leaves the ledger.
LEMMA LedgerStays ==
    ASSUME NEW f, Ledger(f), Follows(f)', actionControl' = actionControl,
           UNCHANGED <<issued, issuedBefore, numWorkers, bank, bankmulti>>
    PROVE  Ledger(f)'
  <1>1. Executed' = Executed /\ (Alone' <=> Alone)
    BY DEF Executed, Alone
  <1>2. Booked(bank, f, Executed)' <=> Booked(bank, f, Executed)
    BY <1>1, SameEntries DEF Booked
  <1>3. Booked(bankmulti, f, CommandNumbers)' <=> Booked(bankmulti, f, CommandNumbers)
    BY SameEntries DEF Booked
  <1> QED
    BY <1>1, <1>2, <1>3 DEF Ledger

\* A command that is executed is entered.
LEMMA LedgerExecute ==
    ASSUME TypeOK, ScheduleInv, BooksInv, OnlyOverdrawnRefuse, NEW f, Ledger(f), Follows(f)',
           NEW w \in Running, Execute(w)
    PROVE  Ledger(f)'
  <1> DEFINE c == Command(draws[w])
             x == Current(w)
             next == IF Moves(c) THEN Moved(c) ELSE bank
  <1>1. /\ c \in CallSet /\ HandOut(w) /\ bank' = next /\ bankmulti' = bankmulti
        /\ actionControl' = actionControl /\ issuedBefore' = issuedBefore
    BY ExecutedCommand DEF HandOut, plan
  <1>2. Follows(f) /\ Offsets(f) /\ WorkerInv(f, w)
    BY DEF Ledger, Follows
  <1>3. x \in CommandNumbers /\ x \notin Executed /\ Executed' = Executed \cup {x}
    BY <1>1, <1>2, ExecutedGrows
  <1>4. c = Generated(f, x)
    BY <1>1, <1>2, CommandIsGenerated
  <1>5. Moves(c) <=> Effective(c)
    BY MovesIfEffective
  <1>6. /\ \A a \in Accounts : AccountEntries(f, a)[x] = IF Moves(c) THEN AccountGain(c, a) ELSE 0
        /\ \A b \in Branches : BranchEntries(f, b)[x] = IF Moves(c) THEN BranchGain(c, b) ELSE 0
    <2> HIDE DEF c, x
    <2> QED
      BY <1>3, <1>4, <1>5 DEF AccountEntries, BranchEntries
  <1>7. /\ \A a \in Accounts : next.account[a] = bank.account[a] + AccountEntries(f, a)[x]
        /\ \A b \in Branches : next.branch[b] = bank.branch[b] + BranchEntries(f, b)[x]
    <2>1. CASE Moves(c)
      <3>1. next = Moved(c)
        BY <2>1
      <3> HIDE DEF c, x, next
      <3> QED
        BY <1>6, <2>1, <3>1 DEF Moved
    <2>2. CASE ~Moves(c)
      <3>1. next = bank
        BY <2>2
      <3> HIDE DEF c, x, next
      <3> QED
        BY <1>6, <2>2, <3>1 DEF BooksInv
    <2> QED
      BY <2>1, <2>2
  <1> HIDE DEF c, x, next
  <1>8. Booked(bank, f, Executed) /\ Executed \in SUBSET CommandNumbers /\ x \in CommandNumbers \ Executed
    BY <1>3, CommandsFinite DEF Ledger
  <1>9. Booked(next, f, Executed \cup {x})
    BY <1>2, <1>7, <1>8, BookedMore
  <1>10. Booked(bank, f, Executed)'
    BY <1>1, <1>3, <1>9, SameEntries DEF Booked
  <1>11. Booked(bankmulti, f, CommandNumbers)' <=> Booked(bankmulti, f, CommandNumbers)
    BY <1>1, SameEntries DEF Booked
  <1>12. Alone' <=> Alone
    BY <1>1 DEF Alone
  <1> QED
    BY <1>10, <1>11, <1>12 DEF Ledger

\* A new bank is booked with nothing.
LEMMA NewBankBooked ==
    ASSUME NEW f PROVE Booked(NewBank, f, {})
  <1>1. IsFiniteSet({})
    BY FS_EmptySet
  <1>2. \A h : SumFunctionOnSet(h, {}) = 0
    BY <1>1, SumPick
  <1>3. /\ \A a \in Accounts : NewBank.account[a] = OpeningBalance(a)
        /\ \A b \in Branches : NewBank.branch[b] = OpeningBranchBalance
    BY DEF NewBank
  <1>4. OpeningBranchBalance \in Int
    <2>1. 0 \in Branches
      BY BankAssumption DEF Branches
    <2> QED
      BY <1>3, <2>1, NewBankType
  <1> QED
    BY <1>2, <1>3, <1>4, OpeningInt DEF Booked

\* The same of the next state.
LEMMA NothingExecutedNext == Begins' => Executed' = {}
  <1>1. (Begins => Executed = {})'
    BY NothingExecuted, PTL
  <1> QED
    BY <1>1

\* TestBank keeps the first bank, in which every command has been executed.
LEMMA LedgerTestBank ==
    ASSUME TypeOK, ScheduleInv, ScheduleInv', ModeInv, NEW f, Ledger(f), Follows(f)', TestTheBank
    PROVE  Ledger(f)'
  <1>1. /\ AllDone /\ actionControl' = actionControl
        /\ bankmulti' = bank /\ bank' = NewBank
    BY DEF TestTheBank, TestBank
  <1>2. Executed = CommandNumbers
    BY <1>1, AllExecuted DEF Ledger
  <1>3. Booked(bank, f, CommandNumbers)
    BY <1>2 DEF Ledger
  <1>4. Booked(bankmulti, f, CommandNumbers)'
    BY <1>1, <1>3, SameEntries DEF Booked
  <1>5. Executed' = {}
    <2>1. Begins'
      <3>1. Running' = {0} /\ 0 \in Slots /\ issued' = [w \in Slots |-> <<>>]
        BY ScheduleAssumption DEF TestTheBank, TestBank, Running, Slots
      <3> QED
        BY <3>1 DEF Begins, ScheduleInv
    <2> QED
      BY <2>1, NothingExecutedNext
  <1>6. Booked(bank, f, Executed)'
    BY <1>1, <1>5, NewBankBooked, SameEntries DEF Booked
  <1> QED
    BY <1>4, <1>6 DEF Ledger

\* When the driver starts, the ledger is empty.
LEMMA LedgerInit == DriverInit => LedgerInv
  <1> SUFFICES ASSUME DriverInit PROVE LedgerInv
    OBVIOUS
  <1>1. ScheduleInv /\ ModeInv /\ bank = NewBank /\ ~Alone
    <2>1. 0 \in Slots
      BY ScheduleAssumption DEF Slots
    <2>2. ~Alone
      BY <2>1 DEF DriverInit, Init, Alone
    <2> QED
      BY <2>2, ScheduleInit, RunInit DEF DriverInit, RunInv
  <1>2. PICK f : Follows(f)
    BY RunInit DEF DriverInit, RunInv
  <1>3. Executed = {}
    <2>1. Begins
      BY <1>1, RunningSlots DEF Begins, ScheduleInv, DriverInit, Init
    <2> QED
      BY <2>1, NothingExecuted
  <1>4. Ledger(f)
    BY <1>1, <1>2, <1>3, NewBankBooked DEF Ledger
  <1> QED
    BY <1>1, <1>4 DEF LedgerInv

\* Every step keeps it.
LEMMA LedgerStep ==
    /\ ScheduleInv /\ ScheduleInv' /\ TypeOK /\ DrawInv /\ BooksInv
    /\ OnlyOverdrawnRefuse
    /\ LedgerInv
    /\ [DriverNext]_driverVars
    => LedgerInv'
  <1> SUFFICES ASSUME ScheduleInv, ScheduleInv', TypeOK, DrawInv, BooksInv,
                      OnlyOverdrawnRefuse, LedgerInv, [DriverNext]_driverVars
               PROVE  LedgerInv'
    OBVIOUS
  <1>1. PICK f : Ledger(f)
    BY DEF LedgerInv
  <1>2. ModeInv' /\ Follows(f)'
    <2>1. ModeInv /\ Follows(f) /\ [Next]_vars
      BY <1>1, DriverStep DEF LedgerInv, Ledger
    <2> QED
      BY <2>1, OffsetsStay
  <1>3. Ledger(f)'
    <2>1. CASE UNCHANGED driverVars
      <3>1. /\ actionControl' = actionControl
            /\ UNCHANGED <<issued, issuedBefore, numWorkers, bank, bankmulti>>
        BY <2>1 DEF driverVars, vars, plan
      <3> QED
        BY <1>1, <1>2, <3>1, LedgerStays
    <2>2. ASSUME NEW w \in Running, Generate(w) \/ Exit(w) PROVE Ledger(f)'
      <3>1. /\ actionControl' = actionControl
            /\ UNCHANGED <<issued, issuedBefore, numWorkers, bank, bankmulti>>
        BY <2>2 DEF Generate, AskReport, BeginCommand, Draw, Exit, Done, plan
      <3> QED
        BY <1>1, <1>2, <3>1, LedgerStays
    <2>3. ASSUME NEW w \in Running, Execute(w) PROVE Ledger(f)'
      BY <1>1, <1>2, <2>3, LedgerExecute
    <2>4. CASE TestTheBank
      BY <1>1, <1>2, <2>4, LedgerTestBank DEF LedgerInv
    <2> QED
      BY <2>1, <2>2, <2>3, <2>4 DEF DriverNext, DriverFinished
  <1> QED
    BY <1>2, <1>3 DEF LedgerInv

\* When the lone worker is done, both banks have booked every command.
LEMMA BooksAgree == ScheduleInv /\ TypeOK /\ BooksInv /\ LedgerInv => BanksAgree
  <1> SUFFICES ASSUME ScheduleInv, TypeOK, BooksInv, LedgerInv, Alone, AllDone
               PROVE  Bank_Compare(bank, bankmulti) /\ Bank_Validate(bank)
    BY DEF BanksAgree
  <1>1. PICK f : Ledger(f)
    BY DEF LedgerInv
  <1>2. Executed = CommandNumbers
    BY <1>1, AllExecuted DEF Ledger
  <1>3. Booked(bank, f, CommandNumbers) /\ Booked(bankmulti, f, CommandNumbers)
    BY <1>1, <1>2 DEF Ledger
  <1>4. /\ \A a \in Accounts : bank.account[a] = bankmulti.account[a]
        /\ \A b \in Branches : bank.branch[b] = bankmulti.branch[b]
    BY <1>3 DEF Booked
  <1> QED
    BY <1>4 DEF Bank_Compare, Branch_Compare, BooksInv

\* The bank of the lone worker ends as the bank of the many workers did, account by
\* account and branch by branch, in whichever order these executed their commands,
\* provided that no account but an overdrawn one ever refuses to pay: what TestBank
\* compares are equal banks, for all numbers of workers, branches, accounts and
\* commands, and whatever rand_r returns.
THEOREM BanksAreEqual == DriverSpec /\ []OnlyOverdrawnRefuse => []BanksAgree
  <1>1. DriverSpec => [](ScheduleInv /\ TypeOK /\ DrawInv)
    BY DriverImplementsSchedule, RunInvariant, PTL
  <1>2. DriverSpec => []BooksInv
    <2>1. DriverInit => BooksInv
      BY NewBankBooks DEF DriverInit, BooksInv
    <2> QED
      BY <1>1, <2>1, BooksStep, PTL DEF DriverSpec
  <1>3. DriverSpec /\ []OnlyOverdrawnRefuse => []LedgerInv
    BY <1>1, <1>2, LedgerInit, LedgerStep, PTL DEF DriverSpec
  <1> QED
    BY <1>1, <1>2, <1>3, BooksAgree, PTL
=============================================================================
