---------------------------- MODULE TellerProofs ----------------------------
(***************************************************************************)
(* Proofs about Teller for every number of workers, branches and accounts, *)
(* every set of commands and every number of commands per worker: locks,   *)
(* types and overdraft first, then the refinement of AtomicBank and what   *)
(* follows for the balances.                                               *)
(***************************************************************************)
EXTENDS Teller, LibraryProofs

(***************************************************************************)
(* Facts about commands                                                    *)
(***************************************************************************)
\* The legs of a command are about accounts and branches of the bank.
LEMMA LegTypes ==
    ASSUME NEW c \in CallSet, NEW i \in {1, 2}
    PROVE  /\ LegAccount(c, i) \in Accounts
           /\ LegBranch(c, i) \in Branches
           /\ LegAmount(c, i) \in Int
           /\ AccountToLock(c, i) \in Accounts
           /\ BranchToLock(c, i) \in Branches
  <1>1. /\ c.src \in Accounts /\ c.dst \in Accounts /\ c.amt \in Int
        /\ i \in Int /\ 3 - i \in {1, 2}
    BY DEF CallSet
  <1>2. \A a \in Accounts : GetBranchID(a) \in Branches
    BY DEF Accounts, GetBranchID
  <1>3. \A j \in {1, 2} : LegAccount(c, j) \in Accounts
    BY <1>1 DEF LegAccount
  <1>4. \A j \in {1, 2} : LegBranch(c, j) \in Branches
    BY <1>2, <1>3 DEF LegBranch
  <1>5. AccountToLock(c, i) \in Accounts
    BY <1>1, <1>3 DEF AccountToLock
  <1>6. BranchToLock(c, i) \in Branches
    BY <1>1, <1>4 DEF BranchToLock
  <1> QED
    BY <1>1, <1>3, <1>4, <1>5, <1>6 DEF LegAmount

\* A command has one leg, a transfer two.
LEMMA LegRange ==
    ASSUME NEW c \in CallSet
    PROVE  /\ NumLegs(c) \in {1, 2}
           /\ Legs(c) = IF c.kind = "transfer" THEN {1, 2} ELSE {1}
           /\ NumLegs(c) = IF c.kind = "transfer" THEN 2 ELSE 1
           /\ c.kind # "transfer" => c.dst = c.src
  <1>1. /\ NumLegs(c) = IF c.kind = "transfer" THEN 2 ELSE 1
        /\ c.kind # "transfer" => c.dst = c.src
    BY DEF CallSet, NumLegs
  <1>2. 1 .. 1 = {1} /\ 1 .. 2 = {1, 2}
    OBVIOUS
  <1> QED
    BY <1>1, <1>2 DEF Legs

\* Account numbers are totally ordered.
LEMMA AccountOrder ==
    ASSUME NEW a \in Accounts, NEW b \in Accounts
    PROVE  /\ a # b => AcctLess(a, b) \/ AcctLess(b, a)
           /\ ~(AcctLess(a, b) /\ AcctLess(b, a))
  <1>1. /\ a = <<a[1], a[2]>> /\ b = <<b[1], b[2]>>
        /\ a[1] \in Int /\ a[2] \in Int /\ b[1] \in Int /\ b[2] \in Int
    BY BankAssumption DEF Accounts, Branches
  <1>2. a # b => a[1] # b[1] \/ a[2] # b[2]
    BY <1>1
  <1> QED
    BY <1>1, <1>2 DEF AcctLess, GetBranchID, Subaccount

\* The slot of a worker without a command holds a legal call.
LEMMA NoCallType == NoCall \in CallSet
  BY BankAssumption DEF NoCall, CallSet, Kinds, Accounts, Branches

\* Account_Init and Branch_Init start with integers.
LEMMA OpeningTypes ==
    /\ \A a \in Accounts : OpeningBalance(a) \in Int
    /\ OpeningBranchBalance \in Int
  BY BankAssumption DEF OpeningBalance, OpeningBranchBalance

-----------------------------------------------------------------------------
(***************************************************************************)
(* Types                                                                   *)
(***************************************************************************)
\* A jump to a round of the target label keeps pc and ix in their types.
LEMMA GoToType ==
    ASSUME TypeOK, NEW w \in Workers, NEW l \in Labels, NEW r \in Rounds(l), GoTo(w, l, r)
    PROVE  /\ pc' \in [Workers -> Labels]
           /\ ix' \in [Workers -> Nat]
           /\ \A v \in Workers : ix'[v] \in Rounds(pc'[v])
  <1>1. r \in Nat
    BY BankAssumption DEF Rounds, Branches
  <1> QED
    BY <1>1 DEF TypeOK, GoTo

\* The bank that main sets up has the types.
LEMMA TypeInit == Init => TypeOK
  <1> SUFFICES ASSUME Init PROVE TypeOK
    OBVIOUS
  <1> QED
    BY OpeningTypes, NoCallType, TellerAssumption DEF Init, TypeOK, Labels, Rounds

\* Where a worker is on a leg or a branch, as its label says.
LEMMA RoundTypes ==
    ASSUME TypeOK, NEW w \in Workers
    PROVE  /\ call[w] \in CallSet
           /\ pc[w] \in TellerLabels \cup {"idle", "return", "branchBalance", "done"}
                 => ix[w] \in {1, 2}
           /\ pc[w] \in {"lockAll", "sum", "unlockAll"} => ix[w] \in Branches
  <1>1. ix[w] \in Rounds(pc[w]) /\ call[w] \in CallSet
    BY DEF TypeOK
  <1> QED
    BY <1>1 DEF Rounds, TellerLabels, Middle, Moving

\* The first step of a command is a place in the code.
LEMMA EntryType ==
    ASSUME NEW c \in CallSet
    PROVE  Entry(c)[1] \in Labels /\ Entry(c)[2] \in Rounds(Entry(c)[1])
  <1>1. 0 \in Branches
    BY BankAssumption DEF Branches
  <1> QED
    BY <1>1 DEF Entry, Labels, Rounds

\* What follows an adjustment is a place in the code.
LEMMA AfterLegType ==
    ASSUME TypeOK, NEW w \in Workers, ix[w] \in {1, 2}, AfterLeg(w)
    PROVE  /\ pc' \in [Workers -> Labels]
           /\ ix' \in [Workers -> Nat]
           /\ \A v \in Workers : ix'[v] \in Rounds(pc'[v])
  <1> call[w] \in CallSet
    BY DEF TypeOK
  <1>1. CASE ix[w] < NumLegs(call[w])
    <2>1. GoTo(w, "readAccount", ix[w] + 1) /\ ix[w] + 1 \in Rounds("readAccount")
      BY <1>1, LegRange DEF AfterLeg, Rounds
    <2> QED
      BY <2>1, GoToType DEF Labels
  <1>2. CASE ~(ix[w] < NumLegs(call[w]))
    <2>1. /\ GoTo(w, "unlockBranch", 1) \/ GoTo(w, "unlockAccount", 1)
          /\ 1 \in Rounds("unlockBranch") /\ 1 \in Rounds("unlockAccount")
      BY <1>2 DEF AfterLeg, Rounds
    <2> QED
      BY <2>1, GoToType DEF Labels
  <1> QED
    BY <1>1, <1>2

\* The loops of Bank_Balance stay within the branches.
LEMMA NextBranchType ==
    ASSUME TypeOK, NEW w \in Workers, ix[w] \in Branches,
           NEW l \in {"lockAll", "sum", "unlockAll"},
           NEW m \in {"sum", "unlockAll", "idle"}, NextBranch(w, l, m)
    PROVE  /\ pc' \in [Workers -> Labels]
           /\ ix' \in [Workers -> Nat]
           /\ \A v \in Workers : ix'[v] \in Rounds(pc'[v])
  <1>1. CASE ix[w] + 1 < NumBranches
    <2>1. GoTo(w, l, ix[w] + 1) /\ ix[w] + 1 \in Rounds(l) /\ l \in Labels
      BY <1>1, BankAssumption DEF NextBranch, Rounds, Branches, Labels
    <2> QED
      BY <2>1, GoToType
  <1>2. CASE ~(ix[w] + 1 < NumBranches)
    <2>1. /\ GoTo(w, m, IF m = "idle" THEN 1 ELSE 0) /\ m \in Labels
          /\ (IF m = "idle" THEN 1 ELSE 0) \in Rounds(m)
      BY <1>2, BankAssumption DEF NextBranch, Rounds, Branches, Labels
    <2> QED
      BY <2>1, GoToType
  <1> QED
    BY <1>1, <1>2

\* Every step keeps the types.
LEMMA TypeStep == TypeOK /\ [Next]_vars => TypeOK'
  <1> SUFFICES ASSUME TypeOK, [Next]_vars PROVE TypeOK'
    OBVIOUS
  <1> USE DEF money, locks, job
  <1>1. CASE UNCHANGED vars
    BY <1>1 DEF TypeOK, vars
  <1>2. CASE Finished
    BY <1>2 DEF Finished, TypeOK, vars
  <1>3. ASSUME NEW w \in Workers, Step(w) PROVE TypeOK'
    <2> DEFINE C == /\ pc' \in [Workers -> Labels]
                    /\ ix' \in [Workers -> Nat]
                    /\ \A v \in Workers : ix'[v] \in Rounds(pc'[v])
    <2>a. /\ call[w] \in CallSet
          /\ pc[w] \in TellerLabels \cup {"idle", "return", "branchBalance", "done"}
                 => ix[w] \in {1, 2}
          /\ pc[w] \in {"lockAll", "sum", "unlockAll"} => ix[w] \in Branches
      BY RoundTypes
    <2>b. \A l \in Labels : l \notin {"lockAll", "sum", "unlockAll"} => Rounds(l) = {1, 2}
      BY DEF Rounds
    <2>c. GetBranchID(call[w].src) \in Branches
      BY <2>a, LegTypes DEF LegBranch, LegAccount
    <2>1. CASE \E c \in Calls : GetNext(w, c)
      <3>1. PICK c \in Calls : GetNext(w, c)
        BY <2>1
      <3>2. c \in CallSet
        BY BankAssumption
      <3>3. C
        BY <3>1, <3>2, EntryType, GoToType DEF GetNext
      <3>4. cmdCount' \in [Workers -> Nat]
        BY <3>1 DEF GetNext, TypeOK
      <3>5. call' \in [Workers -> CallSet]
        BY <3>1, <3>2 DEF GetNext, TypeOK
      <3>6. outcome' \in [Workers -> {"pending", "success", "insufficient"}]
        BY <3>1 DEF GetNext, TypeOK
      <3>7. UNCHANGED <<balance, branchBalance, acctLock, branchLock, reg, read>>
        BY <3>1 DEF GetNext
      <3> QED
        BY <3>3, <3>4, <3>5, <3>6, <3>7 DEF TypeOK
    <2>2. CASE Done(w)
      <3>1. C
        BY <2>2, <2>b, GoToType DEF Done, Labels
      <3> QED
        BY <2>2, <3>1 DEF Done, TypeOK
    <2>3. CASE ReturnAtOnce(w)
      <3>1. C
        BY <2>3, <2>b, GoToType DEF ReturnAtOnce, Labels
      <3> QED
        BY <2>3, <3>1 DEF ReturnAtOnce, TypeOK
    <2>4. CASE LockAccount(w)
      <3>1. ix[w] \in {1, 2}
        BY <2>4, <2>a DEF LockAccount, TellerLabels, Middle
      <3>2. \/ GoTo(w, "lockAccount", ix[w] + 1) /\ ix[w] + 1 \in {1, 2}
            \/ GoTo(w, "checkFunds", 1)
            \/ GoTo(w, "lockBranch", 1)
        BY <2>4, <2>a, <3>1, LegRange DEF LockAccount
      <3>3. C
        BY <3>2, <2>b, GoToType DEF Labels
      <3> QED
        BY <2>4, <2>a, <3>1, <3>3, LegTypes DEF LockAccount, TypeOK
    <2>5. CASE LockBranch(w)
      <3>1. ix[w] \in {1, 2}
        BY <2>5, <2>a DEF LockBranch, TellerLabels, Middle
      <3>2. \/ GoTo(w, "lockBranch", ix[w] + 1) /\ ix[w] + 1 \in {1, 2}
            \/ GoTo(w, "checkFunds", 1)
            \/ GoTo(w, "readAccount", 1)
        BY <2>5, <2>a, <3>1, LegRange DEF LockBranch
      <3>3. C
        BY <3>2, <2>b, GoToType DEF Labels
      <3> QED
        BY <2>5, <2>a, <3>1, <3>3, LegTypes DEF LockBranch, TypeOK
    <2>6. CASE FundsSuffice(w)
      <3>1. GoTo(w, "lockBranch", 1) \/ GoTo(w, "readAccount", 1)
        BY <2>6 DEF FundsSuffice
      <3>2. C
        BY <3>1, <2>b, GoToType DEF Labels
      <3> QED
        BY <2>6, <3>2 DEF FundsSuffice, TypeOK
    <2>7. CASE FundsInsufficient(w)
      <3>1. GoTo(w, "unlockAccount", 1) \/ GoTo(w, "unlockBranch", 1)
        BY <2>7 DEF FundsInsufficient
      <3>2. C
        BY <3>1, <2>b, GoToType DEF Labels
      <3> QED
        BY <2>7, <3>2 DEF FundsInsufficient, TypeOK
    <2>8. CASE ReadAccount(w)
      <3>1. ix[w] \in {1, 2}
        BY <2>8, <2>a DEF ReadAccount, TellerLabels, Middle, Moving
      <3>2. C
        BY <2>8, <3>1, <2>b, GoToType DEF ReadAccount, Labels
      <3> QED
        BY <2>8, <2>a, <3>1, <3>2, LegTypes DEF ReadAccount, TypeOK
    <2>9. CASE WriteAccount(w)
      <3>1. ix[w] \in {1, 2}
        BY <2>9, <2>a DEF WriteAccount, TellerLabels, Middle, Moving
      <3>2. C
        BY <2>9, <3>1, <2>b, GoToType, AfterLegType DEF WriteAccount, Labels
      <3> QED
        BY <2>9, <2>a, <3>1, <3>2, LegTypes DEF WriteAccount, TypeOK
    <2>10. CASE ReadBranch(w)
      <3>1. ix[w] \in {1, 2}
        BY <2>10, <2>a DEF ReadBranch, TellerLabels, Middle, Moving
      <3>2. C
        BY <2>10, <3>1, <2>b, GoToType DEF ReadBranch, Labels
      <3> QED
        BY <2>10, <2>a, <3>1, <3>2, LegTypes DEF ReadBranch, TypeOK
    <2>11. CASE WriteBranch(w)
      <3>1. ix[w] \in {1, 2}
        BY <2>11, <2>a DEF WriteBranch, TellerLabels, Middle, Moving
      <3>2. C
        BY <2>11, <3>1, AfterLegType DEF WriteBranch
      <3> QED
        BY <2>11, <2>a, <3>1, <3>2, LegTypes DEF WriteBranch, TypeOK
    <2>12. CASE UnlockBranch(w)
      <3>1. ix[w] \in {1, 2}
        BY <2>12, <2>a DEF UnlockBranch, TellerLabels, Middle
      <3>2. \/ GoTo(w, "unlockBranch", ix[w] + 1) /\ ix[w] + 1 \in {1, 2}
            \/ GoTo(w, "unlockAccount", 1)
        BY <2>12, <2>a, <3>1, LegRange DEF UnlockBranch
      <3>3. C
        BY <3>2, <2>b, GoToType DEF Labels
      <3> QED
        BY <2>12, <3>3 DEF UnlockBranch, TypeOK
    <2>13. CASE UnlockAccount(w)
      <3>1. ix[w] \in {1, 2}
        BY <2>13, <2>a DEF UnlockAccount, TellerLabels, Middle
      <3>2. \/ GoTo(w, "unlockAccount", ix[w] + 1) /\ ix[w] + 1 \in {1, 2}
            \/ GoTo(w, "idle", 1)
        BY <2>13, <2>a, <3>1, LegRange DEF UnlockAccount
      <3>3. C
        BY <3>2, <2>b, GoToType DEF Labels
      <3> QED
        BY <2>13, <3>3 DEF UnlockAccount, TypeOK
    <2>14. CASE ReadBranchBalance(w)
      <3>1. C
        BY <2>14, <2>b, GoToType DEF ReadBranchBalance, Labels
      <3> QED
        BY <2>14, <2>c, <3>1 DEF ReadBranchBalance, TypeOK
    <2>15. CASE LockNextBranch(w)
      <3>1. ix[w] \in Branches
        BY <2>15, <2>a DEF LockNextBranch
      <3>2. C
        BY <2>15, <3>1, NextBranchType DEF LockNextBranch
      <3> QED
        BY <2>15, <3>2 DEF LockNextBranch, TypeOK
    <2>16. CASE AddNextBranch(w)
      <3>1. ix[w] \in Branches
        BY <2>16, <2>a DEF AddNextBranch
      <3>2. C
        BY <2>16, <3>1, NextBranchType DEF AddNextBranch
      <3> QED
        BY <2>16, <3>1, <3>2 DEF AddNextBranch, TypeOK
    <2>17. CASE UnlockNextBranch(w)
      <3>1. ix[w] \in Branches
        BY <2>17, <2>a DEF UnlockNextBranch
      <3>2. C
        BY <2>17, <3>1, NextBranchType DEF UnlockNextBranch
      <3> QED
        BY <2>17, <3>2 DEF UnlockNextBranch, TypeOK
    <2> QED
      BY <1>3, <2>1, <2>2, <2>3, <2>4, <2>5, <2>6, <2>7, <2>8, <2>9, <2>10, <2>11, <2>12,
         <2>13, <2>14, <2>15, <2>16, <2>17 DEF Step
  <1> QED
    BY <1>1, <1>2, <1>3 DEF Next

\* Every variable keeps its type in every execution: the balances stay
\* integers, the locks are owned by workers, and every worker is in a round that
\* its place in the code has.
THEOREM TellerTypes == Spec => []TypeOK
  BY TypeInit, TypeStep, PTL DEF Spec

-----------------------------------------------------------------------------
(***************************************************************************)
(* Control                                                                 *)
(***************************************************************************)
\* A step of one worker leaves the control state of the others alone.
LEMMA OthersStay ==
    ASSUME TypeOK, NEW w \in Workers, Step(w), NEW v \in Workers, v # w
    PROVE  /\ pc'[v] = pc[v] /\ ix'[v] = ix[v] /\ call'[v] = call[v]
           /\ reg'[v] = reg[v] /\ read'[v] = read[v] /\ outcome'[v] = outcome[v]
  <1> USE DEF TypeOK, money, locks, job, GoTo
  <1>1. CASE \E c \in Calls : GetNext(w, c)
    BY <1>1 DEF GetNext
  <1>2. CASE Done(w) \/ ReturnAtOnce(w)
    BY <1>2 DEF Done, ReturnAtOnce
  <1>3. CASE LockAccount(w) \/ LockBranch(w)
    BY <1>3 DEF LockAccount, LockBranch
  <1>4. CASE FundsSuffice(w) \/ FundsInsufficient(w)
    BY <1>4 DEF FundsSuffice, FundsInsufficient
  <1>5. CASE ReadAccount(w) \/ ReadBranch(w)
    BY <1>5 DEF ReadAccount, ReadBranch
  <1>6. CASE WriteAccount(w) \/ WriteBranch(w)
    BY <1>6 DEF WriteAccount, WriteBranch, AfterLeg
  <1>7. CASE UnlockBranch(w) \/ UnlockAccount(w)
    BY <1>7 DEF UnlockBranch, UnlockAccount
  <1>8. CASE ReadBranchBalance(w)
    BY <1>8 DEF ReadBranchBalance
  <1>9. CASE LockNextBranch(w) \/ AddNextBranch(w) \/ UnlockNextBranch(w)
    BY <1>9 DEF LockNextBranch, AddNextBranch, UnlockNextBranch, NextBranch
  <1> QED
    BY <1>1, <1>2, <1>3, <1>4, <1>5, <1>6, <1>7, <1>8, <1>9 DEF Step

\* Where a jump leads.
LEMMA GoToValue ==
    ASSUME TypeOK, NEW w \in Workers, NEW l, NEW r, GoTo(w, l, r)
    PROVE  pc'[w] = l /\ ix'[w] = r
  BY DEF TypeOK, GoTo

\* Where a worker goes after an adjustment: to the other leg, or to the unlocks.
LEMMA AfterLegValue ==
    ASSUME TypeOK, NEW w \in Workers, AfterLeg(w)
    PROVE  \/ pc'[w] = "readAccount" /\ ix'[w] = ix[w] + 1 /\ ix[w] < NumLegs(call[w])
           \/ pc'[w] = "unlockBranch" /\ ix'[w] = 1 /\ UpdatesBranch(call[w])
                 /\ ~(ix[w] < NumLegs(call[w]))
           \/ pc'[w] = "unlockAccount" /\ ix'[w] = 1 /\ ~UpdatesBranch(call[w])
                 /\ ~(ix[w] < NumLegs(call[w]))
  BY GoToValue DEF AfterLeg

\* Where a loop of Bank_Balance goes: to the next branch, or on from the last.
LEMMA NextBranchValue ==
    ASSUME TypeOK, NEW w \in Workers, ix[w] \in Branches, NEW l, NEW m, NextBranch(w, l, m)
    PROVE  \/ pc'[w] = l /\ ix'[w] = ix[w] + 1 /\ ix[w] + 1 < NumBranches
           \/ pc'[w] = m /\ ix[w] + 1 = NumBranches /\ (m # "idle" => ix'[w] = 0)
  BY GoToValue, BankAssumption DEF NextBranch, Branches

\* No step takes a worker where its command cannot be.
LEMMA ControlStep ==
    ASSUME TypeOK, NEW w \in Workers, Control(w), Step(w)
    PROVE  Control(w)'
  <1>a. call[w] \in CallSet /\ call' \in [Workers -> CallSet]
    BY TypeStep DEF TypeOK, Next
  <1>b. /\ Legs(call[w]) = IF call[w].kind = "transfer" THEN {1, 2} ELSE {1}
        /\ NumLegs(call[w]) = IF call[w].kind = "transfer" THEN 2 ELSE 1
    BY <1>a, LegRange
  <1> USE DEF TypeOK, money, locks, job, TellerLabels, Middle, Moving
  <1>1. CASE \E c \in Calls : GetNext(w, c)
    <2>1. PICK c \in Calls : GetNext(w, c)
      BY <1>1
    <2>2. /\ call'[w] = c /\ c \in CallSet /\ outcome'[w] = "pending"
          /\ pc'[w] = Entry(c)[1] /\ ix'[w] = Entry(c)[2]
      BY <2>1, BankAssumption, GoToValue DEF GetNext
    <2>3. c.kind \in Kinds
      BY <2>2 DEF CallSet
    <2>4. 1 \in Legs(c)
      BY <2>2, LegRange
    <2> QED
      BY <2>2, <2>3, <2>4 DEF Control, Entry, Kinds
  <1>2. CASE Done(w)
    BY <1>2, GoToValue DEF Done, Control
  <1>3. CASE ReturnAtOnce(w)
    BY <1>3, GoToValue DEF ReturnAtOnce, Control
  <1>4. CASE LockAccount(w)
    BY <1>4, <1>b, GoToValue DEF LockAccount, Control, ChecksFunds, UpdatesBranch
  <1>5. CASE LockBranch(w)
    BY <1>5, <1>b, GoToValue DEF LockBranch, Control, ChecksFunds
  <1>6. CASE FundsSuffice(w)
    BY <1>6, <1>b, GoToValue DEF FundsSuffice, Control
  <1>7. CASE FundsInsufficient(w)
    BY <1>7, <1>b, GoToValue DEF FundsInsufficient, Control, ChecksFunds, UpdatesBranch
  <1>8. CASE ReadAccount(w)
    BY <1>8, <1>b, GoToValue DEF ReadAccount, Control
  <1>9. CASE WriteAccount(w)
    BY <1>9, <1>b, GoToValue, AfterLegValue DEF WriteAccount, Control
  <1>10. CASE ReadBranch(w)
    BY <1>10, <1>b, GoToValue DEF ReadBranch, Control
  <1>11. CASE WriteBranch(w)
    BY <1>11, <1>b, AfterLegValue DEF WriteBranch, Control
  <1>12. CASE UnlockBranch(w)
    BY <1>12, <1>b, GoToValue DEF UnlockBranch, Control
  <1>13. CASE UnlockAccount(w)
    BY <1>13, <1>b, GoToValue DEF UnlockAccount, Control
  <1>14. CASE ReadBranchBalance(w)
    BY <1>14, GoToValue DEF ReadBranchBalance, Control
  <1>15. CASE LockNextBranch(w)
    BY <1>15, RoundTypes, NextBranchValue DEF LockNextBranch, Control
  <1>16. CASE AddNextBranch(w)
    BY <1>16, RoundTypes, NextBranchValue DEF AddNextBranch, Control
  <1>17. CASE UnlockNextBranch(w)
    BY <1>17, RoundTypes, NextBranchValue DEF UnlockNextBranch, Control
  <1> QED
    BY <1>1, <1>2, <1>3, <1>4, <1>5, <1>6, <1>7, <1>8, <1>9, <1>10, <1>11, <1>12,
       <1>13, <1>14, <1>15, <1>16, <1>17 DEF Step

\* Where a step takes a worker, label by label.
LEMMA Flow ==
    ASSUME TypeOK, NEW w \in Workers, Control(w), Step(w)
    PROVE  LET l == pc[w]
               m == pc'[w]
               r == ix[w]
               c == call[w]
               two == c.kind = "transfer"
           IN  /\ l # "idle" => call'[w] = c
               /\ l = "idle" => m \in {"return", "branchBalance", "done"}
                                \/ (m \in {"lockAccount"} /\ ix'[w] = 1)
                                \/ (m = "lockAll" /\ ix'[w] = 0)
               /\ l \in {"return", "branchBalance"} => m = "idle"
               /\ l = "lockAccount" =>
                     \/ two /\ r = 1 /\ m = "lockAccount" /\ ix'[w] = 2
                     \/ two /\ r = 2 /\ m = "checkFunds"
                     \/ ~two /\ r = 1 /\ m = "lockBranch" /\ ix'[w] = 1
               /\ l = "lockBranch" =>
                     \/ two /\ r = 1 /\ m = "lockBranch" /\ ix'[w] = 2
                     \/ two /\ r = 2 /\ m = "readAccount" /\ ix'[w] = 1
                     \/ ~two /\ r = 1 /\ m = "checkFunds" /\ c.kind = "withdraw"
                     \/ ~two /\ r = 1 /\ m = "readAccount" /\ ix'[w] = 1 /\ c.kind = "deposit"
               /\ l = "checkFunds" =>
                     \/ two /\ UpdatesBranch(c) /\ m = "lockBranch" /\ ix'[w] = 1 /\ HasFunds(w)
                     \/ two /\ ~UpdatesBranch(c) /\ m = "readAccount" /\ ix'[w] = 1 /\ HasFunds(w)
                     \/ two /\ m = "unlockAccount" /\ ix'[w] = 1
                     \/ ~two /\ m = "readAccount" /\ ix'[w] = 1 /\ HasFunds(w)
                     \/ ~two /\ m = "unlockBranch" /\ ix'[w] = 1
               /\ l = "readAccount" => m = "writeAccount" /\ ix'[w] = r
               /\ l = "readBranch" => m = "writeBranch" /\ ix'[w] = r
               /\ l = "writeAccount" /\ UpdatesBranch(c) => m = "readBranch" /\ ix'[w] = r
               /\ l \in {"writeAccount", "writeBranch"} =>
                     \/ l = "writeAccount" /\ UpdatesBranch(c)
                     \/ two /\ r = 1 /\ m = "readAccount" /\ ix'[w] = 2
                     \/ UpdatesBranch(c) /\ m = "unlockBranch" /\ ix'[w] = 1 /\ (two => r = 2)
                     \/ ~UpdatesBranch(c) /\ m = "unlockAccount" /\ ix'[w] = 1 /\ r = 2
               /\ l = "unlockBranch" =>
                     \/ two /\ r = 1 /\ m = "unlockBranch" /\ ix'[w] = 2
                     \/ two /\ r = 2 /\ m = "unlockAccount" /\ ix'[w] = 1
                     \/ ~two /\ r = 1 /\ m = "unlockAccount" /\ ix'[w] = 1
               /\ l = "unlockAccount" =>
                     \/ two /\ r = 1 /\ m = "unlockAccount" /\ ix'[w] = 2
                     \/ two /\ r = 2 /\ m = "idle"
                     \/ ~two /\ r = 1 /\ m = "idle"
               /\ l = "lockAll" =>
                     \/ r + 1 < NumBranches /\ m = "lockAll" /\ ix'[w] = r + 1
                     \/ r + 1 = NumBranches /\ m = "sum" /\ ix'[w] = 0
               /\ l = "sum" =>
                     \/ r + 1 < NumBranches /\ m = "sum" /\ ix'[w] = r + 1
                     \/ r + 1 = NumBranches /\ m = "unlockAll" /\ ix'[w] = 0
               /\ l = "unlockAll" =>
                     \/ r + 1 < NumBranches /\ m = "unlockAll" /\ ix'[w] = r + 1
                     \/ r + 1 = NumBranches /\ m = "idle"
               /\ l # "done"
  <1>a. call[w] \in CallSet
    BY DEF TypeOK
  <1>b. /\ Legs(call[w]) = IF call[w].kind = "transfer" THEN {1, 2} ELSE {1}
        /\ NumLegs(call[w]) = IF call[w].kind = "transfer" THEN 2 ELSE 1
    BY <1>a, LegRange
  <1>c. ~UpdatesBranch(call[w]) => call[w].kind = "transfer"
    BY DEF UpdatesBranch
  <1> USE DEF money, locks, job
  <1>1. CASE \E d \in Calls : GetNext(w, d)
    <2>1. PICK d \in Calls : GetNext(w, d)
      BY <1>1
    <2>2. pc[w] = "idle" /\ pc'[w] = Entry(d)[1] /\ ix'[w] = Entry(d)[2]
      BY <2>1, GoToValue DEF GetNext
    <2> QED
      BY <2>2 DEF Entry
  <1>2. CASE Done(w) \/ ReturnAtOnce(w) \/ ReadBranchBalance(w)
    BY <1>2, GoToValue DEF Done, ReturnAtOnce, ReadBranchBalance
  <1>4. CASE LockAccount(w)
    BY <1>4, <1>b, GoToValue DEF LockAccount, Control, TellerLabels
  <1>5. CASE LockBranch(w)
    BY <1>5, <1>b, GoToValue DEF LockBranch, Control, TellerLabels, Middle
  <1>6. CASE FundsSuffice(w)
    BY <1>6, GoToValue DEF FundsSuffice
  <1>7. CASE FundsInsufficient(w)
    BY <1>7, GoToValue DEF FundsInsufficient
  <1>8. CASE ReadAccount(w) \/ ReadBranch(w)
    BY <1>8, GoToValue DEF ReadAccount, ReadBranch
  <1>9. CASE WriteAccount(w)
    <2>1. ix[w] \in Legs(call[w])
      BY <1>9 DEF Control, TellerLabels, Middle, Moving, WriteAccount
    <2> QED
      BY <1>9, <2>1, <1>b, <1>c, GoToValue, AfterLegValue DEF WriteAccount
  <1>11. CASE WriteBranch(w)
    <2>1. ix[w] \in Legs(call[w]) /\ UpdatesBranch(call[w])
      BY <1>11 DEF Control, TellerLabels, Middle, Moving, WriteBranch
    <2> QED
      BY <1>11, <2>1, <1>b, AfterLegValue DEF WriteBranch
  <1>12. CASE UnlockBranch(w)
    BY <1>12, <1>b, GoToValue DEF UnlockBranch, Control, TellerLabels, Middle
  <1>13. CASE UnlockAccount(w)
    BY <1>13, <1>b, GoToValue DEF UnlockAccount, Control, TellerLabels
  <1>15. CASE LockNextBranch(w)
    BY <1>15, RoundTypes, NextBranchValue DEF LockNextBranch
  <1>16. CASE AddNextBranch(w)
    BY <1>16, RoundTypes, NextBranchValue DEF AddNextBranch
  <1>17. CASE UnlockNextBranch(w)
    BY <1>17, RoundTypes, NextBranchValue DEF UnlockNextBranch
  <1> QED
    BY <1>1, <1>2, <1>4, <1>5, <1>6, <1>7, <1>8, <1>9, <1>11, <1>12,
       <1>13, <1>15, <1>16, <1>17 DEF Step

-----------------------------------------------------------------------------
(***************************************************************************)
(* Locks.  The first lemmas say which locks a command holds at each label; *)
(* they are about values, so they serve both sides of a step.              *)
(***************************************************************************)
\* The accounts that a command holds, label by label.
LEMMA AccountsAt ==
    ASSUME NEW c \in CallSet, NEW a, NEW l, NEW r \in Int,
           l \in {"lockAccount", "unlockAccount"} => r \in Legs(c)
    PROVE  HoldsAccount(l, r, c, a) <=>
              \/ l \in Middle /\ a \in {c.src, c.dst}
              \/ l = "lockAccount" /\ r = 2 /\ a = AccountToLock(c, 1)
              \/ l = "unlockAccount" /\ (a = c.src \/ (r = 1 /\ a = c.dst))
  <1>1. /\ Legs(c) = IF c.kind = "transfer" THEN {1, 2} ELSE {1}
        /\ NumLegs(c) = IF c.kind = "transfer" THEN 2 ELSE 1
        /\ c.kind # "transfer" => c.dst = c.src
    BY LegRange
  <1>2. LegAccount(c, 1) = c.src /\ LegAccount(c, 2) = c.dst
    BY DEF LegAccount
  <1> DEFINE Holds(k) ==
                \/ l = "lockAccount" /\ k < r /\ a = AccountToLock(c, k)
                \/ l = "unlockAccount" /\ k >= r /\ a = AccountToUnlock(c, k)
                \/ l \in Middle /\ a = LegAccount(c, k)
  <1>h. HoldsAccount(l, r, c, a) <=> \E k \in Legs(c) : Holds(k)
    BY DEF HoldsAccount
  <1>m. "lockAccount" \notin Middle /\ "unlockAccount" \notin Middle
    BY DEF Middle, Moving
  <1>3. CASE c.kind = "transfer"
    <2>1. Legs(c) = {1, 2} /\ NumLegs(c) = 2
      BY <1>1, <1>3
    <2>2. AccountToUnlock(c, 1) = c.dst /\ AccountToUnlock(c, 2) = c.src
      BY <2>1, <1>2 DEF AccountToUnlock
    <2>3. HoldsAccount(l, r, c, a) <=> Holds(1) \/ Holds(2)
      BY <1>h, <2>1
    <2>4. CASE l \in {"lockAccount", "unlockAccount"}
      <3>1. r = 1 \/ r = 2
        BY <2>1, <2>4
      <3>2. CASE r = 1
        BY <1>2, <1>m, <2>2, <2>3, <2>4, <3>2
      <3>3. CASE r = 2
        BY <1>2, <1>m, <2>2, <2>3, <2>4, <3>3
      <3> QED
        BY <3>1, <3>2, <3>3
    <2>5. CASE l \notin {"lockAccount", "unlockAccount"}
      BY <1>2, <2>3, <2>5
    <2> QED
      BY <2>4, <2>5
  <1>4. CASE c.kind # "transfer"
    <2>1. Legs(c) = {1} /\ NumLegs(c) = 1 /\ c.dst = c.src
      BY <1>1, <1>4
    <2>2. AccountToUnlock(c, 1) = c.src
      BY <2>1, <1>2 DEF AccountToUnlock
    <2>3. HoldsAccount(l, r, c, a) <=> Holds(1)
      BY <1>h, <2>1
    <2>4. CASE l \in {"lockAccount", "unlockAccount"}
      <3>1. r = 1
        BY <2>1, <2>4
      <3> QED
        BY <1>2, <1>m, <2>1, <2>2, <2>3, <2>4, <3>1
    <2>5. CASE l \notin {"lockAccount", "unlockAccount"}
      BY <1>2, <2>1, <2>3, <2>5
    <2> QED
      BY <2>4, <2>5
  <1> QED
    BY <1>3, <1>4

\* The two accounts that a transfer locks are its source and its destination.
LEMMA AccountLockOrder ==
    ASSUME NEW c \in CallSet
    PROVE  /\ c.kind = "transfer" =>
                 {AccountToLock(c, 1), AccountToLock(c, 2)} = {c.src, c.dst}
           /\ (c.kind = "transfer" /\ c.src # c.dst) =>
                 /\ AccountToLock(c, 1) # AccountToLock(c, 2)
                 /\ AcctLess(AccountToLock(c, 1), AccountToLock(c, 2))
           /\ c.kind # "transfer" => AccountToLock(c, 1) = c.src
  <1>1. c.src \in Accounts /\ c.dst \in Accounts
    BY DEF CallSet
  <1>2. 3 - 1 = 2 /\ 3 - 2 = 1 /\ 1 # 2
    OBVIOUS
  <1>3. LegAccount(c, 1) = c.src /\ LegAccount(c, 2) = c.dst
    BY DEF LegAccount
  <1> QED
    BY <1>1, <1>2, <1>3, AccountOrder DEF AccountToLock

\* A step whose label names its action.
LEMMA ActionOfLabel ==
    ASSUME NEW w \in Workers, Step(w)
    PROVE  /\ pc[w] = "lockAccount" <=> LockAccount(w)
           /\ pc[w] = "unlockAccount" <=> UnlockAccount(w)
           /\ pc[w] = "lockBranch" <=> LockBranch(w)
           /\ pc[w] = "unlockBranch" <=> UnlockBranch(w)
           /\ pc[w] = "lockAll" <=> LockNextBranch(w)
           /\ pc[w] = "unlockAll" <=> UnlockNextBranch(w)
           /\ pc[w] = "writeAccount" <=> WriteAccount(w)
           /\ pc[w] = "writeBranch" <=> WriteBranch(w)
           /\ pc[w] = "readAccount" <=> ReadAccount(w)
           /\ pc[w] = "readBranch" <=> ReadBranch(w)
  BY DEF Step, GetNext, Done, ReturnAtOnce, LockAccount, LockBranch, FundsSuffice,
     FundsInsufficient, ReadAccount, WriteAccount, ReadBranch, WriteBranch, UnlockBranch,
     UnlockAccount, ReadBranchBalance, LockNextBranch, AddNextBranch, UnlockNextBranch

\* Locking an account adds it to those that the worker holds, unlocking takes
\* it away, and no other step changes them.
LEMMA AccountsHeldStep ==
    ASSUME TypeOK, NEW w \in Workers, Control(w), Step(w), NEW a \in Accounts
    PROVE  LET c      == call[w]
               before == HoldsAccount(pc[w], ix[w], c, a)
               after  == HoldsAccount(pc'[w], ix'[w], call'[w], a)
           IN  /\ pc[w] = "lockAccount" =>
                     (after <=> before \/ a = AccountToLock(c, ix[w]))
               /\ pc[w] = "unlockAccount" =>
                     /\ after <=> before /\ a # AccountToUnlock(c, ix[w])
                     /\ a = AccountToUnlock(c, ix[w]) => before
               /\ pc[w] \notin {"lockAccount", "unlockAccount"} => (after <=> before)
  <1> DEFINE c == call[w]
  <1>a. /\ c \in CallSet /\ call'[w] \in CallSet
        /\ ix[w] \in Int /\ ix'[w] \in Int
        /\ pc[w] \in Labels
    BY TypeStep DEF TypeOK, Next
  <1>b. /\ NumLegs(c) = IF c.kind = "transfer" THEN 2 ELSE 1
        /\ Legs(c) = IF c.kind = "transfer" THEN {1, 2} ELSE {1}
        /\ c.kind # "transfer" => c.dst = c.src
    BY <1>a, LegRange
  <1>c. pc[w] \in TellerLabels => ix[w] \in Legs(c) /\ (c.kind = "transfer" => c.src # c.dst)
    BY DEF Control, NothingToDo
  <1>d. HoldsAccount(pc[w], ix[w], c, a) <=>
           \/ pc[w] \in Middle /\ a \in {c.src, c.dst}
           \/ pc[w] = "lockAccount" /\ ix[w] = 2 /\ a = AccountToLock(c, 1)
           \/ pc[w] = "unlockAccount" /\ (a = c.src \/ (ix[w] = 1 /\ a = c.dst))
    BY <1>a, <1>c, AccountsAt DEF TellerLabels
  <1>e. HoldsAccount(pc'[w], ix'[w], call'[w], a) <=>
           \/ pc'[w] \in Middle /\ a \in {call'[w].src, call'[w].dst}
           \/ pc'[w] = "lockAccount" /\ ix'[w] = 2 /\ a = AccountToLock(call'[w], 1)
           \/ /\ pc'[w] = "unlockAccount"
              /\ a = call'[w].src \/ (ix'[w] = 1 /\ a = call'[w].dst)
    <2>1. pc'[w] \in TellerLabels => ix'[w] \in Legs(call'[w])
      BY ControlStep DEF Control
    <2> QED
      BY <2>1, <1>a, AccountsAt DEF TellerLabels
  <1> USE DEF Middle, Moving
  <1>1. CASE pc[w] \in {"idle", "return", "branchBalance", "lockAll", "sum", "unlockAll", "done"}
    BY <1>1, <1>d, <1>e, Flow
  <1>2. CASE pc[w] = "lockAccount"
    <2>1. call'[w] = c
      BY <1>2, Flow
    <2>2. CASE c.kind = "transfer" /\ ix[w] = 1
      BY <1>2, <2>1, <2>2, <1>d, <1>e, Flow
    <2>3. CASE c.kind = "transfer" /\ ix[w] = 2
      <3>1. {AccountToLock(c, 1), AccountToLock(c, 2)} = {c.src, c.dst}
        BY <1>a, <2>3, AccountLockOrder
      <3>2. pc'[w] = "checkFunds"
        BY <1>2, <2>3, Flow
      <3> QED
        BY <1>2, <2>1, <2>3, <3>1, <3>2, <1>d, <1>e
    <2>4. CASE c.kind # "transfer"
      <3>1. AccountToLock(c, 1) = c.src /\ c.dst = c.src
        BY <1>a, <1>b, <2>4, AccountLockOrder
      <3>2. ix[w] = 1 /\ pc'[w] = "lockBranch"
        BY <1>2, <2>4, Flow
      <3> QED
        BY <1>2, <2>1, <3>1, <3>2, <1>d, <1>e
    <2> QED
      BY <1>2, <2>2, <2>3, <2>4, <1>b, <1>c DEF TellerLabels
  <1>3. CASE pc[w] = "unlockAccount"
    <2>1. call'[w] = c
      BY <1>3, Flow
    <2>2. /\ c.kind = "transfer" => AccountToUnlock(c, 1) = c.dst /\ AccountToUnlock(c, 2) = c.src
          /\ c.kind # "transfer" => AccountToUnlock(c, 1) = c.src
      BY <1>b DEF AccountToUnlock, LegAccount
    <2>3. c.kind = "transfer" => c.src # c.dst
      BY <1>3, <1>c DEF TellerLabels
    <2>4. CASE c.kind = "transfer"
      BY <1>3, <2>1, <2>2, <2>3, <2>4, <1>d, <1>e, Flow
    <2>5. CASE c.kind # "transfer"
      BY <1>3, <2>1, <2>2, <2>5, <1>b, <1>d, <1>e, Flow
    <2> QED
      BY <2>4, <2>5
  <1>4. CASE pc[w] \in Middle
    <2>1. call'[w] = c
      BY <1>4, Flow
    <2>2. pc'[w] \in Middle \/ (pc'[w] = "unlockAccount" /\ ix'[w] = 1)
      BY <1>4, Flow
    <2> QED
      BY <1>4, <2>1, <2>2, <1>d, <1>e
  <1> QED
    BY <1>1, <1>2, <1>3, <1>4, <1>a DEF Labels

\* The branches that a command holds, label by label.
LEMMA BranchesAt ==
    ASSUME NEW c \in CallSet, NEW b, NEW l, NEW r \in Int,
           l \in {"lockBranch", "unlockBranch"} => r \in Legs(c)
    PROVE  HoldsBranch(l, r, c, b) <=>
              \/ l = "lockBranch" /\ r = 2 /\ b = BranchToLock(c, 1)
              \/ /\ l = "unlockBranch"
                 /\ b = LegBranch(c, 2) \/ (r = 1 /\ b = LegBranch(c, 1))
              \/ /\ \/ l = "checkFunds" /\ c.kind = "withdraw"
                    \/ l \in Moving /\ UpdatesBranch(c)
                 /\ b \in {LegBranch(c, 1), LegBranch(c, 2)}
              \/ l = "lockAll" /\ b < r
              \/ l = "sum"
              \/ l = "unlockAll" /\ b >= r
  <1>1. /\ Legs(c) = IF c.kind = "transfer" THEN {1, 2} ELSE {1}
        /\ c.kind # "transfer" => c.dst = c.src
    BY LegRange
  <1> DEFINE Holds(k) ==
                \/ l = "lockBranch" /\ k < r /\ b = BranchToLock(c, k)
                \/ l = "unlockBranch" /\ k >= r /\ b = LegBranch(c, k)
                \/ /\ \/ l = "checkFunds" /\ c.kind = "withdraw"
                      \/ l \in Moving /\ UpdatesBranch(c)
                   /\ b = LegBranch(c, k)
             Sums == \/ l = "lockAll" /\ b < r
                     \/ l = "sum"
                     \/ l = "unlockAll" /\ b >= r
  <1>h. HoldsBranch(l, r, c, b) <=> (\E k \in Legs(c) : Holds(k)) \/ Sums
    BY DEF HoldsBranch
  <1>m. "lockBranch" \notin Moving /\ "unlockBranch" \notin Moving
    BY DEF Moving
  <1>3. CASE c.kind = "transfer"
    <2>1. Legs(c) = {1, 2}
      BY <1>1, <1>3
    <2>2. (\E k \in Legs(c) : Holds(k)) <=> Holds(1) \/ Holds(2)
      BY <2>1
    <2>3. CASE l \in {"lockBranch", "unlockBranch"}
      <3>1. r = 1 \/ r = 2
        BY <2>1, <2>3
      <3>2. CASE r = 1
        BY <1>h, <1>m, <2>2, <2>3, <3>2
      <3>3. CASE r = 2
        BY <1>h, <1>m, <2>2, <2>3, <3>3
      <3> QED
        BY <3>1, <3>2, <3>3
    <2>4. CASE l \notin {"lockBranch", "unlockBranch"}
      BY <1>h, <2>2, <2>4
    <2> QED
      BY <2>3, <2>4
  <1>4. CASE c.kind # "transfer"
    <2>1. Legs(c) = {1} /\ LegBranch(c, 2) = LegBranch(c, 1)
      BY <1>1, <1>4 DEF LegBranch, LegAccount
    <2>2. (\E k \in Legs(c) : Holds(k)) <=> Holds(1)
      BY <2>1
    <2>3. CASE l \in {"lockBranch", "unlockBranch"}
      <3>1. r = 1
        BY <2>1, <2>3
      <3> QED
        BY <1>h, <1>m, <2>1, <2>2, <2>3, <3>1
    <2>4. CASE l \notin {"lockBranch", "unlockBranch"}
      BY <1>h, <2>1, <2>2, <2>4
    <2> QED
      BY <2>3, <2>4
  <1> QED
    BY <1>3, <1>4

\* The branches that a transfer between two branches locks are those of its
\* legs, the smaller one first.
LEMMA BranchLockOrder ==
    ASSUME NEW c \in CallSet
    PROVE  /\ c.kind = "transfer" =>
                 {BranchToLock(c, 1), BranchToLock(c, 2)} = {LegBranch(c, 1), LegBranch(c, 2)}
           /\ (c.kind = "transfer" /\ UpdatesBranch(c)) =>
                 /\ LegBranch(c, 1) # LegBranch(c, 2)
                 /\ BranchToLock(c, 1) < BranchToLock(c, 2)
           /\ c.kind # "transfer" =>
                 /\ UpdatesBranch(c)
                 /\ BranchToLock(c, 1) = LegBranch(c, 1)
                 /\ LegBranch(c, 2) = LegBranch(c, 1)
  <1>1. /\ LegBranch(c, 1) \in Int /\ LegBranch(c, 2) \in Int
        /\ LegBranch(c, 1) = GetBranchID(c.src) /\ LegBranch(c, 2) = GetBranchID(c.dst)
    BY LegTypes DEF LegBranch, LegAccount, Branches
  <1>2. 3 - 1 = 2 /\ 3 - 2 = 1 /\ 1 # 2
    OBVIOUS
  <1>3. c.kind # "transfer" => c.dst = c.src
    BY LegRange
  <1> QED
    BY <1>1, <1>2, <1>3 DEF BranchToLock, UpdatesBranch, IsSameBranch

\* Locking a branch adds it to those that the worker holds, unlocking takes it
\* away, and no other step changes them.
LEMMA BranchesHeldStep ==
    ASSUME TypeOK, NEW w \in Workers, Control(w), Step(w), NEW b \in Branches
    PROVE  LET c      == call[w]
               before == HoldsBranch(pc[w], ix[w], c, b)
               after  == HoldsBranch(pc'[w], ix'[w], call'[w], b)
           IN  /\ pc[w] = "lockBranch" => (after <=> before \/ b = BranchToLock(c, ix[w]))
               /\ pc[w] = "lockAll" => (after <=> before \/ b = ix[w])
               /\ pc[w] = "unlockBranch" =>
                     /\ after <=> before /\ b # LegBranch(c, ix[w])
                     /\ b = LegBranch(c, ix[w]) => before
               /\ pc[w] = "unlockAll" =>
                     /\ after <=> before /\ b # ix[w]
                     /\ b = ix[w] => before
               /\ pc[w] \notin {"lockBranch", "unlockBranch", "lockAll", "unlockAll"} =>
                     (after <=> before)
  <1> DEFINE c == call[w]
  <1>a. /\ c \in CallSet /\ call'[w] \in CallSet
        /\ ix[w] \in Int /\ ix'[w] \in Int
        /\ pc[w] \in Labels
    BY TypeStep DEF TypeOK, Next
  <1>b. Legs(c) = IF c.kind = "transfer" THEN {1, 2} ELSE {1}
    BY <1>a, LegRange
  <1>c. /\ pc[w] \in {"lockBranch", "unlockBranch"} => ix[w] \in Legs(c) /\ UpdatesBranch(c)
        /\ pc[w] = "checkFunds" => ChecksFunds(c)
        /\ pc[w] \in {"readBranch", "writeBranch"} => UpdatesBranch(c)
    BY DEF Control, TellerLabels, Middle, Moving
  <1>d. HoldsBranch(pc[w], ix[w], c, b) <=>
           \/ pc[w] = "lockBranch" /\ ix[w] = 2 /\ b = BranchToLock(c, 1)
           \/ /\ pc[w] = "unlockBranch"
              /\ b = LegBranch(c, 2) \/ (ix[w] = 1 /\ b = LegBranch(c, 1))
           \/ /\ \/ pc[w] = "checkFunds" /\ c.kind = "withdraw"
                 \/ pc[w] \in Moving /\ UpdatesBranch(c)
              /\ b \in {LegBranch(c, 1), LegBranch(c, 2)}
           \/ pc[w] = "lockAll" /\ b < ix[w]
           \/ pc[w] = "sum"
           \/ pc[w] = "unlockAll" /\ b >= ix[w]
    BY <1>a, <1>c, BranchesAt
  <1>e. HoldsBranch(pc'[w], ix'[w], call'[w], b) <=>
           \/ pc'[w] = "lockBranch" /\ ix'[w] = 2 /\ b = BranchToLock(call'[w], 1)
           \/ /\ pc'[w] = "unlockBranch"
              /\ b = LegBranch(call'[w], 2) \/ (ix'[w] = 1 /\ b = LegBranch(call'[w], 1))
           \/ /\ \/ pc'[w] = "checkFunds" /\ call'[w].kind = "withdraw"
                 \/ pc'[w] \in Moving /\ UpdatesBranch(call'[w])
              /\ b \in {LegBranch(call'[w], 1), LegBranch(call'[w], 2)}
           \/ pc'[w] = "lockAll" /\ b < ix'[w]
           \/ pc'[w] = "sum"
           \/ pc'[w] = "unlockAll" /\ b >= ix'[w]
    <2>1. pc'[w] \in {"lockBranch", "unlockBranch"} => ix'[w] \in Legs(call'[w])
      BY ControlStep DEF Control, TellerLabels, Middle
    <2> QED
      BY <2>1, <1>a, BranchesAt
  <1>f. /\ c.kind = "transfer" =>
              {BranchToLock(c, 1), BranchToLock(c, 2)} = {LegBranch(c, 1), LegBranch(c, 2)}
        /\ (c.kind = "transfer" /\ UpdatesBranch(c)) => LegBranch(c, 1) # LegBranch(c, 2)
        /\ c.kind # "transfer" =>
              /\ UpdatesBranch(c)
              /\ BranchToLock(c, 1) = LegBranch(c, 1)
              /\ LegBranch(c, 2) = LegBranch(c, 1)
    BY <1>a, BranchLockOrder
  <1>g. b \in Int /\ b >= 0 /\ b < NumBranches /\ NumBranches \in Int
    BY BankAssumption DEF Branches
  <1>1. CASE pc[w] \in {"idle", "return", "branchBalance", "lockAccount", "done"}
    BY <1>1, <1>d, <1>e, <1>g, Flow DEF Moving
  <1>2. CASE pc[w] = "lockBranch"
    <2>1. call'[w] = c /\ UpdatesBranch(c)
      BY <1>2, <1>c, Flow
    <2>2. CASE c.kind = "transfer" /\ ix[w] = 1
      BY <1>2, <2>1, <2>2, <1>d, <1>e, Flow DEF Moving
    <2>3. CASE c.kind = "transfer" /\ ix[w] = 2
      <3>1. pc'[w] = "readAccount"
        BY <1>2, <2>3, Flow
      <3> QED
        BY <1>2, <2>1, <2>3, <3>1, <1>d, <1>e, <1>f DEF Moving
    <2>4. CASE c.kind # "transfer"
      <3>1. ix[w] = 1 /\ (pc'[w] = "readAccount" \/ (pc'[w] = "checkFunds" /\ c.kind = "withdraw"))
        BY <1>2, <2>4, Flow
      <3> QED
        BY <1>2, <2>1, <2>4, <3>1, <1>d, <1>e, <1>f DEF Moving
    <2> QED
      BY <1>2, <2>2, <2>3, <2>4, <1>b, <1>c
  <1>3. CASE pc[w] = "checkFunds"
    <2>1. call'[w] = c /\ (c.kind = "withdraw" \/ c.kind = "transfer")
      BY <1>3, <1>c, Flow DEF ChecksFunds
    <2>2. CASE c.kind = "transfer"
      BY <1>3, <2>1, <2>2, <1>d, <1>e, Flow DEF Moving
    <2>3. CASE c.kind = "withdraw"
      BY <1>3, <2>1, <2>3, <1>d, <1>e, <1>f, Flow DEF Moving
    <2> QED
      BY <2>1, <2>2, <2>3
  <1>4. CASE pc[w] \in Moving
    <2>1. call'[w] = c
      BY <1>4, Flow DEF Moving
    <2>2. \/ pc'[w] \in Moving
          \/ UpdatesBranch(c) /\ pc'[w] = "unlockBranch" /\ ix'[w] = 1
          \/ ~UpdatesBranch(c) /\ pc'[w] = "unlockAccount"
      BY <1>4, <1>c, Flow DEF Moving
    <2> QED
      BY <1>4, <2>1, <2>2, <1>d, <1>e DEF Moving
  <1>5. CASE pc[w] = "unlockBranch"
    <2>1. call'[w] = c /\ UpdatesBranch(c)
      BY <1>5, <1>c, Flow
    <2>2. CASE c.kind = "transfer"
      BY <1>5, <2>1, <2>2, <1>d, <1>e, <1>f, Flow DEF Moving
    <2>3. CASE c.kind # "transfer"
      BY <1>5, <2>1, <2>3, <1>d, <1>e, <1>f, Flow DEF Moving
    <2> QED
      BY <2>2, <2>3
  <1>6. CASE pc[w] = "unlockAccount"
    BY <1>6, <1>d, <1>e, Flow DEF Moving
  <1>7. CASE pc[w] \in {"lockAll", "sum", "unlockAll"}
    BY <1>7, <1>a, <1>d, <1>e, <1>g, Flow DEF Moving
  <1> QED
    BY <1>1, <1>2, <1>3, <1>4, <1>5, <1>6, <1>7, <1>a DEF Labels, Moving

\* Which lock or balance a step changes, by the label at which it is taken.
LEMMA Effects ==
    ASSUME NEW w \in Workers, Step(w)
    PROVE  LET l == pc[w]
               r == ix[w]
               c == call[w]
           IN  /\ l = "lockAccount" =>
                     /\ acctLock[AccountToLock(c, r)] = NoOwner
                     /\ acctLock' = [acctLock EXCEPT ![AccountToLock(c, r)] = w]
               /\ l = "unlockAccount" =>
                     acctLock' = [acctLock EXCEPT ![AccountToUnlock(c, r)] = NoOwner]
               /\ l \notin {"lockAccount", "unlockAccount"} => acctLock' = acctLock
               /\ l = "lockBranch" =>
                     /\ branchLock[BranchToLock(c, r)] = NoOwner
                     /\ branchLock' = [branchLock EXCEPT ![BranchToLock(c, r)] = w]
               /\ l = "lockAll" =>
                     /\ branchLock[r] = NoOwner
                     /\ branchLock' = [branchLock EXCEPT ![r] = w]
               /\ l = "unlockBranch" =>
                     branchLock' = [branchLock EXCEPT ![LegBranch(c, r)] = NoOwner]
               /\ l = "unlockAll" => branchLock' = [branchLock EXCEPT ![r] = NoOwner]
               /\ l \notin {"lockBranch", "unlockBranch", "lockAll", "unlockAll"} =>
                     branchLock' = branchLock
               /\ l = "writeAccount" =>
                     balance' = [balance EXCEPT ![LegAccount(c, r)] = reg[w] + LegAmount(c, r)]
               /\ l # "writeAccount" => balance' = balance
               /\ l = "writeBranch" =>
                     branchBalance' = [branchBalance EXCEPT ![LegBranch(c, r)] =
                                          reg[w] + LegAmount(c, r)]
               /\ l # "writeBranch" => branchBalance' = branchBalance
  <1> USE DEF money, locks, job
  <1>1. CASE \E c \in Calls : GetNext(w, c)
    BY <1>1 DEF GetNext
  <1>2. CASE Done(w) \/ ReturnAtOnce(w) \/ ReadBranchBalance(w)
    BY <1>2 DEF Done, ReturnAtOnce, ReadBranchBalance
  <1>3. CASE LockAccount(w) \/ UnlockAccount(w)
    BY <1>3 DEF LockAccount, UnlockAccount
  <1>4. CASE LockBranch(w) \/ UnlockBranch(w)
    BY <1>4 DEF LockBranch, UnlockBranch
  <1>5. CASE FundsSuffice(w) \/ FundsInsufficient(w)
    BY <1>5 DEF FundsSuffice, FundsInsufficient
  <1>6. CASE ReadAccount(w) \/ ReadBranch(w) \/ AddNextBranch(w)
    BY <1>6 DEF ReadAccount, ReadBranch, AddNextBranch
  <1>7. CASE WriteAccount(w) \/ WriteBranch(w)
    BY <1>7 DEF WriteAccount, WriteBranch
  <1>8. CASE LockNextBranch(w) \/ UnlockNextBranch(w)
    BY <1>8 DEF LockNextBranch, UnlockNextBranch
  <1> QED
    BY <1>1, <1>2, <1>3, <1>4, <1>5, <1>6, <1>7, <1>8 DEF Step

\* A step keeps the ownership of the account locks in line with the places of
\* the workers.
LEMMA AccountsHeldKept ==
    ASSUME TypeOK, AccountsHeld, NEW w \in Workers, Control(w), Step(w)
    PROVE  AccountsHeld'
  <1> SUFFICES ASSUME NEW v \in Workers, NEW a \in Accounts
               PROVE  acctLock'[a] = v <=> HoldsAccount(pc'[v], ix'[v], call'[v], a)
    BY DEF AccountsHeld
  <1> DEFINE c == call[w]
  <1>1. /\ acctLock \in [Accounts -> Workers \cup {NoOwner}]
        /\ NoOwner \notin Workers
        /\ acctLock[a] = v <=> HoldsAccount(pc[v], ix[v], call[v], a)
        /\ acctLock[a] = w <=> HoldsAccount(pc[w], ix[w], c, a)
    BY TellerAssumption DEF TypeOK, AccountsHeld
  <1>2. v # w => (HoldsAccount(pc'[v], ix'[v], call'[v], a)
                     <=> HoldsAccount(pc[v], ix[v], call[v], a))
    BY OthersStay
  <1>3. CASE pc[w] = "lockAccount"
    <2>1. /\ acctLock'[a] = IF a = AccountToLock(c, ix[w]) THEN w ELSE acctLock[a]
          /\ a = AccountToLock(c, ix[w]) => acctLock[a] = NoOwner
      BY <1>3, <1>1, Effects
    <2>2. HoldsAccount(pc'[w], ix'[w], call'[w], a)
             <=> HoldsAccount(pc[w], ix[w], c, a) \/ a = AccountToLock(c, ix[w])
      BY <1>3, AccountsHeldStep
    <2> QED
      BY <1>1, <1>2, <2>1, <2>2
  <1>4. CASE pc[w] = "unlockAccount"
    <2>1. acctLock'[a] = IF a = AccountToUnlock(c, ix[w]) THEN NoOwner ELSE acctLock[a]
      BY <1>4, <1>1, Effects
    <2>2. /\ HoldsAccount(pc'[w], ix'[w], call'[w], a)
                <=> HoldsAccount(pc[w], ix[w], c, a) /\ a # AccountToUnlock(c, ix[w])
          /\ a = AccountToUnlock(c, ix[w]) => HoldsAccount(pc[w], ix[w], c, a)
      BY <1>4, AccountsHeldStep
    <2> QED
      BY <1>1, <1>2, <2>1, <2>2
  <1>5. CASE pc[w] \notin {"lockAccount", "unlockAccount"}
    <2>1. acctLock' = acctLock
      BY <1>5, Effects
    <2>2. HoldsAccount(pc'[w], ix'[w], call'[w], a) <=> HoldsAccount(pc[w], ix[w], c, a)
      BY <1>5, AccountsHeldStep
    <2> QED
      BY <1>1, <1>2, <2>1, <2>2
  <1> QED
    BY <1>3, <1>4, <1>5

\* The same for the branch locks.
LEMMA BranchesHeldKept ==
    ASSUME TypeOK, BranchesHeld, NEW w \in Workers, Control(w), Step(w)
    PROVE  BranchesHeld'
  <1> SUFFICES ASSUME NEW v \in Workers, NEW b \in Branches
               PROVE  branchLock'[b] = v <=> HoldsBranch(pc'[v], ix'[v], call'[v], b)
    BY DEF BranchesHeld
  <1> DEFINE c == call[w]
  <1>1. /\ branchLock \in [Branches -> Workers \cup {NoOwner}]
        /\ NoOwner \notin Workers
        /\ branchLock[b] = v <=> HoldsBranch(pc[v], ix[v], call[v], b)
        /\ branchLock[b] = w <=> HoldsBranch(pc[w], ix[w], c, b)
    BY TellerAssumption DEF TypeOK, BranchesHeld
  <1>2. v # w => (HoldsBranch(pc'[v], ix'[v], call'[v], b)
                     <=> HoldsBranch(pc[v], ix[v], call[v], b))
    BY OthersStay
  <1>3. ASSUME NEW x, \/ pc[w] = "lockBranch" /\ x = BranchToLock(c, ix[w])
                      \/ pc[w] = "lockAll" /\ x = ix[w]
        PROVE  branchLock'[b] = v <=> HoldsBranch(pc'[v], ix'[v], call'[v], b)
    <2>1. /\ branchLock'[b] = IF b = x THEN w ELSE branchLock[b]
          /\ b = x => branchLock[b] = NoOwner
      BY <1>3, <1>1, Effects
    <2>2. HoldsBranch(pc'[w], ix'[w], call'[w], b) <=> HoldsBranch(pc[w], ix[w], c, b) \/ b = x
      BY <1>3, BranchesHeldStep
    <2> QED
      BY <1>1, <1>2, <2>1, <2>2
  <1>4. ASSUME NEW x, \/ pc[w] = "unlockBranch" /\ x = LegBranch(c, ix[w])
                      \/ pc[w] = "unlockAll" /\ x = ix[w]
        PROVE  branchLock'[b] = v <=> HoldsBranch(pc'[v], ix'[v], call'[v], b)
    <2>1. branchLock'[b] = IF b = x THEN NoOwner ELSE branchLock[b]
      BY <1>4, <1>1, Effects
    <2>2. /\ HoldsBranch(pc'[w], ix'[w], call'[w], b)
                <=> HoldsBranch(pc[w], ix[w], c, b) /\ b # x
          /\ b = x => HoldsBranch(pc[w], ix[w], c, b)
      BY <1>4, BranchesHeldStep
    <2> QED
      BY <1>1, <1>2, <2>1, <2>2
  <1>5. CASE pc[w] \notin {"lockBranch", "unlockBranch", "lockAll", "unlockAll"}
    <2>1. branchLock' = branchLock
      BY <1>5, Effects
    <2>2. HoldsBranch(pc'[w], ix'[w], call'[w], b) <=> HoldsBranch(pc[w], ix[w], c, b)
      BY <1>5, BranchesHeldStep
    <2> QED
      BY <1>1, <1>2, <2>1, <2>2
  <1> QED
    BY <1>3, <1>4, <1>5

-----------------------------------------------------------------------------
(***************************************************************************)
(* Exclusion                                                               *)
(***************************************************************************)
\* A worker in the middle of a command owns the locks of its accounts, and of
\* their branches where it updates these.
LEMMA OwnsLegs ==
    ASSUME TypeOK, HeldLocks, NEW w \in Workers, Control(w), NEW i \in Legs(call[w])
    PROVE  /\ pc[w] \in Middle => acctLock[LegAccount(call[w], i)] = w
           /\ pc[w] \in Moving /\ UpdatesBranch(call[w]) =>
                 branchLock[LegBranch(call[w], i)] = w
  <1>1. call[w] \in CallSet /\ i \in {1, 2}
    BY LegRange DEF TypeOK
  <1>2. LegAccount(call[w], i) \in Accounts /\ LegBranch(call[w], i) \in Branches
    BY <1>1, LegTypes
  <1>3. pc[w] \in Middle => HoldsAccount(pc[w], ix[w], call[w], LegAccount(call[w], i))
    BY DEF HoldsAccount
  <1>4. pc[w] \in Moving /\ UpdatesBranch(call[w]) =>
           HoldsBranch(pc[w], ix[w], call[w], LegBranch(call[w], i))
    BY DEF HoldsBranch
  <1> QED
    BY <1>2, <1>3, <1>4 DEF HeldLocks, AccountsHeld, BranchesHeld

\* The balance of an account that one worker has locked is not changed by a
\* step of another, nor is the balance of a branch.
LEMMA Exclusion ==
    ASSUME TypeOK, HeldLocks, NEW w \in Workers, Control(w), Step(w),
           NEW v \in Workers, v # w
    PROVE  /\ \A a \in Accounts : acctLock[a] = v => balance'[a] = balance[a]
           /\ \A b \in Branches : branchLock[b] = v => branchBalance'[b] = branchBalance[b]
  <1> DEFINE c == call[w]
  <1>1. pc[w] \in TellerLabels => ix[w] \in Legs(c)
    BY DEF Control
  <1>2. pc[w] = "writeBranch" => UpdatesBranch(c)
    BY DEF Control
  <1>3. CASE pc[w] = "writeAccount"
    <2>1. acctLock[LegAccount(c, ix[w])] = w
      BY <1>1, <1>3, OwnsLegs DEF TellerLabels, Middle, Moving
    <2>2. \A a \in Accounts : a # LegAccount(c, ix[w]) => balance'[a] = balance[a]
      BY <1>3, Effects DEF TypeOK
    <2>3. branchBalance' = branchBalance
      BY <1>3, Effects
    <2> QED
      BY <2>1, <2>2, <2>3
  <1>4. CASE pc[w] = "writeBranch"
    <2>1. branchLock[LegBranch(c, ix[w])] = w
      BY <1>1, <1>2, <1>4, OwnsLegs DEF TellerLabels, Middle, Moving
    <2>2. \A b \in Branches : b # LegBranch(c, ix[w]) => branchBalance'[b] = branchBalance[b]
      BY <1>4, Effects DEF TypeOK
    <2>3. balance' = balance
      BY <1>4, Effects
    <2> QED
      BY <2>1, <2>2, <2>3
  <1>5. CASE pc[w] \notin {"writeAccount", "writeBranch"}
    BY <1>5, Effects
  <1> QED
    BY <1>3, <1>4, <1>5

\* What Account_Adjust and Branch_UpdateBalance have read cannot change before
\* they write.
LEMMA FreshStep ==
    ASSUME TypeOK, HeldLocks, NEW w \in Workers, Control(w), Step(w),
           NEW v \in Workers, Control(v), Fresh(v)
    PROVE  Fresh(v)'
  <1> DEFINE c == call[v]
  <1>1. CASE v # w
    <2>1. /\ pc'[v] = pc[v] /\ ix'[v] = ix[v] /\ call'[v] = c /\ reg'[v] = reg[v]
      BY <1>1, OthersStay
    <2>2. pc[v] \in {"writeAccount", "writeBranch"} =>
             ix[v] \in Legs(c) /\ ix[v] \in {1, 2} /\ c \in CallSet
      BY RoundTypes DEF Control, TellerLabels, Middle, Moving
    <2>3. ASSUME pc[v] = "writeAccount"
          PROVE  balance'[LegAccount(c, ix[v])] = balance[LegAccount(c, ix[v])]
      <3>1. acctLock[LegAccount(c, ix[v])] = v
        BY <2>2, <2>3, OwnsLegs DEF Middle, Moving
      <3>2. LegAccount(c, ix[v]) \in Accounts
        BY <2>2, <2>3, LegTypes
      <3> QED
        BY <1>1, <3>1, <3>2, Exclusion
    <2>4. ASSUME pc[v] = "writeBranch"
          PROVE  branchBalance'[LegBranch(c, ix[v])] = branchBalance[LegBranch(c, ix[v])]
      <3>1. branchLock[LegBranch(c, ix[v])] = v
        BY <2>2, <2>4, OwnsLegs DEF Control, Middle, Moving
      <3>2. LegBranch(c, ix[v]) \in Branches
        BY <2>2, <2>4, LegTypes
      <3> QED
        BY <1>1, <3>1, <3>2, Exclusion
    <2>5. /\ pc[v] = "writeAccount" => reg'[v] = balance'[LegAccount(c, ix[v])]
          /\ pc[v] = "writeBranch" => reg'[v] = branchBalance'[LegBranch(c, ix[v])]
      BY <2>1, <2>3, <2>4 DEF Fresh
    <2> QED
      BY <2>1, <2>5 DEF Fresh
  <1>2. CASE v = w
    <2>1. /\ pc'[v] = "writeAccount" => pc[v] = "readAccount"
          /\ pc'[v] = "writeBranch" => pc[v] = "readBranch"
      <3>1. pc[v] \in Labels
        BY DEF TypeOK
      <3> QED
        BY <1>2, <3>1, Flow DEF Labels
    <2>2. CASE pc[v] = "readAccount"
      <3>1. ReadAccount(v) /\ pc'[v] = "writeAccount" /\ ix'[v] = ix[v] /\ call'[v] = c
        BY <1>2, <2>2, ActionOfLabel, Flow
      <3>2. reg'[v] = balance[LegAccount(c, ix[v])] /\ balance' = balance
        BY <3>1 DEF ReadAccount, TypeOK, money
      <3> QED
        BY <3>1, <3>2 DEF Fresh
    <2>3. CASE pc[v] = "readBranch"
      <3>1. ReadBranch(v) /\ pc'[v] = "writeBranch" /\ ix'[v] = ix[v] /\ call'[v] = c
        BY <1>2, <2>3, ActionOfLabel, Flow
      <3>2. reg'[v] = branchBalance[LegBranch(c, ix[v])] /\ branchBalance' = branchBalance
        BY <3>1 DEF ReadBranch, TypeOK, money
      <3> QED
        BY <3>1, <3>2 DEF Fresh
    <2> QED
      BY <2>1, <2>2, <2>3 DEF Fresh
  <1> QED
    BY <1>1, <1>2

\* The funds that a command has found cannot leave its source account before it
\* takes them.
LEMMA ReservedStep ==
    ASSUME TypeOK, HeldLocks, NEW w \in Workers, Control(w), Step(w),
           NEW v \in Workers, Control(v), Reserved(v)
    PROVE  Reserved(v)'
  <1> DEFINE c == call[v]
  <1>a. c \in CallSet /\ c.src \in Accounts /\ LegAccount(c, 1) = c.src /\ 1 \in Legs(c)
    BY LegRange DEF TypeOK, CallSet, LegAccount
  <1>1. CASE v # w
    <2>1. pc'[v] = pc[v] /\ ix'[v] = ix[v] /\ call'[v] = c
      BY <1>1, OthersStay
    <2>2. ASSUME pc[v] \in Middle PROVE balance'[c.src] = balance[c.src]
      <3>1. acctLock[c.src] = v
        BY <1>a, <2>2, OwnsLegs
      <3> QED
        BY <1>1, <1>a, <3>1, Exclusion
    <2>3. (/\ ChecksFunds(c)
           /\ \/ pc[v] = "lockBranch" /\ c.kind = "transfer"
              \/ pc[v] \in {"readAccount", "writeAccount"} /\ ix[v] = 1)
          => c.amt <= balance'[c.src]
      BY <2>2 DEF Reserved, HasFunds, Middle, Moving
    <2> QED
      BY <2>1, <2>3 DEF Reserved, HasFunds
  <1>2. CASE v = w
    <2> DEFINE checked(l, r) == /\ ChecksFunds(c)
                                /\ \/ l = "lockBranch" /\ c.kind = "transfer"
                                   \/ l \in {"readAccount", "writeAccount"} /\ r = 1
    <2>1. pc'[v] \in {"lockBranch", "readAccount", "writeAccount"} => pc[v] # "idle"
      BY <1>2, Flow
    <2>2. pc[v] # "idle" => call'[v] = c
      BY <1>2, Flow
    <2>3. checked(pc'[v], ix'[v]) /\ pc[v] # "idle" =>
             c.amt <= balance[c.src] /\ pc[v] # "writeAccount"
      <3>1. pc[v] \in Labels
        BY DEF TypeOK
      <3>2. CASE pc[v] = "lockAccount"
        BY <1>2, <3>2, Flow
      <3>3. CASE pc[v] = "lockBranch"
        BY <1>2, <3>3, Flow DEF Reserved, HasFunds, ChecksFunds
      <3>4. CASE pc[v] = "checkFunds"
        BY <1>2, <3>4, Flow DEF HasFunds
      <3>5. CASE pc[v] = "readAccount"
        BY <1>2, <3>5, Flow DEF Reserved, HasFunds
      <3>6. CASE pc[v] \notin {"idle", "lockAccount", "lockBranch", "checkFunds", "readAccount"}
        BY <1>2, <3>1, <3>6, Flow DEF Labels
      <3> QED
        BY <3>2, <3>3, <3>4, <3>5, <3>6
    <2>4. pc[v] # "writeAccount" => balance' = balance
      BY <1>2, Effects
    <2>5. checked(pc'[v], ix'[v]) /\ pc[v] # "idle" => c.amt <= balance'[c.src]
      BY <2>3, <2>4
    <2> QED
      BY <2>1, <2>2, <2>5 DEF Reserved, HasFunds
  <1> QED
    BY <1>1, <1>2

-----------------------------------------------------------------------------
(***************************************************************************)
(* The invariant and what follows from it                                  *)
(***************************************************************************)
\* The bank opens with no lock owned and every worker idle.
LEMMA InvInit == Init => TellerInv
  <1> SUFFICES ASSUME Init PROVE TellerInv
    OBVIOUS
  <1>1. TypeOK
    BY TypeInit
  <1>2. HeldLocks
    <2>1. \A w \in Workers : pc[w] = "idle"
      BY DEF Init
    <2>2. \A w \in Workers, a \in Accounts :
             acctLock[a] # w /\ ~HoldsAccount(pc[w], ix[w], call[w], a)
      BY <2>1, TellerAssumption DEF Init, HoldsAccount, Middle, Moving
    <2>3. \A w \in Workers, b \in Branches :
             branchLock[b] # w /\ ~HoldsBranch(pc[w], ix[w], call[w], b)
      BY <2>1, TellerAssumption DEF Init, HoldsBranch, Moving
    <2> QED
      BY <2>2, <2>3 DEF HeldLocks, AccountsHeld, BranchesHeld
  <1>3. \A w \in Workers : Control(w) /\ Fresh(w) /\ Reserved(w)
    BY DEF Init, Control, Fresh, Reserved, TellerLabels, Middle, Moving
  <1> QED
    BY <1>1, <1>2, <1>3 DEF TellerInv

\* Every step keeps the invariant.
LEMMA InvStep == TellerInv /\ [Next]_vars => TellerInv'
  <1> SUFFICES ASSUME TellerInv, [Next]_vars PROVE TellerInv'
    OBVIOUS
  <1>1. TypeOK'
    BY TypeStep DEF TellerInv
  <1>2. CASE UNCHANGED vars \/ Finished
    <2>1. /\ UNCHANGED <<balance, branchBalance, acctLock, branchLock>>
          /\ UNCHANGED <<pc, ix, call, reg, read, outcome>>
      BY <1>2 DEF Finished, vars
    <2>2. HeldLocks'
      BY <2>1 DEF TellerInv, HeldLocks, AccountsHeld, BranchesHeld
    <2>3. \A w \in Workers : Control(w)' /\ Fresh(w)' /\ Reserved(w)'
      BY <2>1 DEF TellerInv, Control, Fresh, Reserved, HasFunds
    <2> QED
      BY <1>1, <2>2, <2>3 DEF TellerInv
  <1>3. ASSUME NEW w \in Workers, Step(w) PROVE TellerInv'
    <2>1. TypeOK /\ HeldLocks /\ AccountsHeld /\ BranchesHeld
      BY DEF TellerInv, HeldLocks
    <2>2. \A v \in Workers : Control(v) /\ Fresh(v) /\ Reserved(v)
      BY DEF TellerInv
    <2>3. HeldLocks'
      BY <1>3, <2>1, <2>2, AccountsHeldKept, BranchesHeldKept DEF HeldLocks
    <2>4. ASSUME NEW v \in Workers PROVE Control(v)' /\ Fresh(v)' /\ Reserved(v)'
      <3>1. ASSUME v # w PROVE Control(v)'
        <4>1. pc'[v] = pc[v] /\ ix'[v] = ix[v] /\ call'[v] = call[v] /\ outcome'[v] = outcome[v]
          BY <1>3, <2>1, <3>1, OthersStay
        <4> QED
          BY <2>2, <4>1 DEF Control
      <3>2. ASSUME v = w PROVE Control(v)'
        BY <1>3, <2>1, <2>2, <3>2, ControlStep
      <3>3. Fresh(v)'
        BY <1>3, <2>1, <2>2, FreshStep
      <3>4. Reserved(v)'
        BY <1>3, <2>1, <2>2, ReservedStep
      <3> QED
        BY <3>1, <3>2, <3>3, <3>4
    <2> QED
      BY <1>1, <2>3, <2>4 DEF TellerInv
  <1> QED
    BY <1>2, <1>3 DEF Next

\* The inductive invariant holds in every reachable state.
THEOREM TellerInvariant == Spec => []TellerInv
  BY InvInit, InvStep, PTL DEF Spec

\* At every moment each mutex of the bank is owned by exactly the worker whose
\* place in the code says so.
THEOREM LocksAreHeld == Spec => []HeldLocks
  <1>1. TellerInv => HeldLocks
    BY DEF TellerInv
  <1> QED
    BY <1>1, TellerInvariant, PTL

\* The invariant fixes what a worker that waits holds: only smaller locks.
LEMMA InvAscends == TellerInv => LocksAscend
  <1> SUFFICES ASSUME TellerInv, NEW w \in Workers
               PROVE  /\ pc[w] = "lockAccount" =>
                            /\ \A b \in Branches : branchLock[b] # w
                            /\ \A a \in Accounts :
                                  acctLock[a] = w => AcctLess(a, AccountToLock(call[w], ix[w]))
                      /\ pc[w] = "lockBranch" =>
                            \A b \in Branches :
                               branchLock[b] = w => b < BranchToLock(call[w], ix[w])
                      /\ pc[w] = "lockAll" =>
                            \A b \in Branches : branchLock[b] = w => b < ix[w]
    BY DEF LocksAscend
  <1> DEFINE c == call[w]
  <1>1. /\ TypeOK /\ Control(w)
        /\ \A a \in Accounts : acctLock[a] = w => HoldsAccount(pc[w], ix[w], c, a)
        /\ \A b \in Branches : branchLock[b] = w => HoldsBranch(pc[w], ix[w], c, b)
    BY DEF TellerInv, HeldLocks, AccountsHeld, BranchesHeld
  <1>2. /\ c \in CallSet /\ ix[w] \in Int
        /\ Legs(c) = IF c.kind = "transfer" THEN {1, 2} ELSE {1}
    BY <1>1, LegRange DEF TypeOK
  <1>3. CASE pc[w] = "lockAccount"
    <2>1. ix[w] \in Legs(c) /\ (c.kind = "transfer" => c.src # c.dst)
      BY <1>1, <1>3 DEF Control, TellerLabels, NothingToDo
    <2>2. \A b \in Branches : branchLock[b] # w
      <3>1. \A b \in Branches : ~HoldsBranch(pc[w], ix[w], c, b)
        BY <1>3 DEF HoldsBranch, Moving
      <3> QED
        BY <1>1, <3>1
    <2>3. ASSUME NEW a \in Accounts, acctLock[a] = w
          PROVE  AcctLess(a, AccountToLock(c, ix[w]))
      <3>1. ix[w] = 2 /\ a = AccountToLock(c, 1) /\ c.kind = "transfer"
        BY <1>1, <1>2, <1>3, <2>1, <2>3, AccountsAt DEF Middle, Moving
      <3> QED
        BY <1>2, <2>1, <3>1, AccountLockOrder
    <2> QED
      BY <1>3, <2>2, <2>3
  <1>4. CASE pc[w] = "lockBranch"
    <2>1. ix[w] \in Legs(c) /\ UpdatesBranch(c)
      BY <1>1, <1>4 DEF Control, TellerLabels, Middle
    <2>2. ASSUME NEW b \in Branches, branchLock[b] = w
          PROVE  b < BranchToLock(c, ix[w])
      <3>1. ix[w] = 2 /\ b = BranchToLock(c, 1) /\ c.kind = "transfer"
        BY <1>1, <1>2, <1>4, <2>1, <2>2, BranchesAt DEF Moving
      <3> QED
        BY <1>2, <2>1, <3>1, BranchLockOrder
    <2> QED
      BY <1>4, <2>2
  <1>5. CASE pc[w] = "lockAll"
    BY <1>1, <1>2, <1>5, BranchesAt DEF Moving
  <1> QED
    BY <1>3, <1>4, <1>5

\* A worker that waits for a mutex holds only smaller ones, accounts before
\* branches: no circle of waiting workers can arise.
THEOREM LocksAreOrdered == Spec => []LocksAscend
  BY InvAscends, TellerInvariant, PTL

\* A step that takes money from an account leaves it at zero or above.
LEMMA NotOverdrawnStep ==
    TellerInv /\ [Next]_vars =>
       [\A a \in Accounts : balance'[a] < balance[a] => balance'[a] >= 0]_vars
  <1> SUFFICES ASSUME TellerInv, [Next]_vars, ~UNCHANGED vars,
                      NEW a \in Accounts, balance'[a] < balance[a]
               PROVE  balance'[a] >= 0
    OBVIOUS
  <1>1. ~Finished
    BY DEF Finished
  <1>2. PICK w \in Workers : Step(w)
    BY <1>1 DEF Next
  <1> DEFINE c == call[w]
  <1>3. TypeOK /\ Control(w) /\ Fresh(w) /\ Reserved(w)
    BY DEF TellerInv
  <1>4. balance \in [Accounts -> Int] /\ balance[a] \in Int /\ c \in CallSet
    BY <1>3 DEF TypeOK
  <1>5. pc[w] = "writeAccount"
    BY <1>2, <1>4, Effects
  <1>6. /\ ix[w] \in Legs(c) /\ ix[w] \in {1, 2}
        /\ c.kind \in {"deposit", "withdraw", "transfer"}
    BY <1>3, <1>4, <1>5, LegRange DEF Control, TellerLabels, Middle, Moving
  <1>7. /\ a = LegAccount(c, ix[w])
        /\ balance'[a] = balance[a] + LegAmount(c, ix[w])
    <2>1. balance' = [balance EXCEPT ![LegAccount(c, ix[w])] = reg[w] + LegAmount(c, ix[w])]
      BY <1>2, <1>5, Effects
    <2>2. reg[w] = balance[LegAccount(c, ix[w])]
      BY <1>3, <1>5 DEF Fresh
    <2>3. a = LegAccount(c, ix[w])
      BY <1>4, <2>1
    <2> QED
      BY <1>4, <2>1, <2>2, <2>3
  <1>8. LegAmount(c, ix[w]) \in Int /\ c.amt \in Nat
    BY <1>4, <1>6, LegTypes DEF CallSet
  <1>9. /\ c.kind # "deposit" /\ ix[w] = 1
        /\ LegAmount(c, ix[w]) = -c.amt /\ a = c.src
    BY <1>4, <1>6, <1>7, <1>8 DEF LegAmount, LegAccount
  <1>10. c.amt <= balance[c.src]
    BY <1>3, <1>5, <1>6, <1>9 DEF Reserved, ChecksFunds, HasFunds
  <1> QED
    BY <1>4, <1>7, <1>8, <1>9, <1>10

\* No command takes more than the account holds, whatever the other workers do
\* between its check and its withdrawal.
THEOREM NoAccountOverdrawn == Spec => NeverOverdrawn
  <1>1. Spec => [][Next]_vars
    BY DEF Spec
  <1> QED
    BY <1>1, TellerInvariant, NotOverdrawnStep, PTL DEF NeverOverdrawn

-----------------------------------------------------------------------------
(***************************************************************************)
(* Teller implements AtomicBank: the refinement mapping of module Teller   *)
(* takes every step of a worker to a step of the atomic bank or to none.   *)
(***************************************************************************)

(***************************************************************************)
(* What a worker owes, by its place in the code                            *)
(***************************************************************************)
\* A command c in round r of label l has still to add this to account a.
DueAccount(l, r, c, a) ==
    IF /\ c.kind = "transfer" /\ a = c.dst
       /\ \/ l \in {"readBranch", "writeBranch"} /\ r = 1
          \/ l \in {"readAccount", "writeAccount"} /\ r = 2
    THEN c.amt ELSE 0

\* It has still to update the branch of leg i.
LegDue(l, r, c, i) ==
    /\ UpdatesBranch(c) /\ i \in Legs(c)
    /\ \/ l \in {"readBranch", "writeBranch"} /\ r <= i
       \/ l \in {"readAccount", "writeAccount"} /\ r = 2 /\ i = 2

DueBranch(l, r, c, b) ==
    IF LegDue(l, r, c, 1) /\ b = LegBranch(c, 1) THEN LegAmount(c, 1)
    ELSE IF LegDue(l, r, c, 2) /\ b = LegBranch(c, 2) THEN LegAmount(c, 2) ELSE 0

Mine(w, lock) == lock \in {w, NoOwner}

\* What is pending for an account that no other worker has locked is what the
\* worker itself owes it.
LEMMA PendingAccountMine ==
    TellerInv => \A w \in Workers, a \in Accounts :
       Mine(w, acctLock[a]) => PendingAccount(a) = DueAccount(pc[w], ix[w], call[w], a)
  <1> SUFFICES ASSUME TellerInv, NEW w \in Workers, NEW a \in Accounts, Mine(w, acctLock[a])
               PROVE  PendingAccount(a) = DueAccount(pc[w], ix[w], call[w], a)
    OBVIOUS
  <1> DEFINE c == call[w]
  <1>1. TypeOK /\ HeldLocks /\ Control(w) /\ c \in CallSet /\ w # NoOwner
    BY TellerAssumption DEF TellerInv, TypeOK
  <1>2. OwesAccount(w) /\ a = c.dst => acctLock[a] = w
    <2> SUFFICES ASSUME OwesAccount(w), a = c.dst PROVE acctLock[a] = w
      OBVIOUS
    <2>1. 2 \in Legs(c) /\ LegAccount(c, 2) = a /\ pc[w] \in Middle
      BY <1>1, LegRange DEF OwesAccount, LegAccount, Middle, Moving
    <2> QED
      BY <1>1, <2>1, OwnsLegs
  <1>3. CASE acctLock[a] = w
    BY <1>1, <1>3 DEF PendingAccount, DueAccount, OwesAccount
  <1>4. CASE acctLock[a] = NoOwner
    <2>1. ~(OwesAccount(w) /\ a = c.dst)
      BY <1>1, <1>2, <1>4
    <2>2. PendingAccount(a) = 0
      BY <1>4 DEF PendingAccount
    <2> QED
      BY <2>1, <2>2 DEF DueAccount, OwesAccount
  <1> QED
    BY <1>3, <1>4 DEF Mine

\* And so for a branch.
LEMMA PendingBranchMine ==
    TellerInv => \A w \in Workers, b \in Branches :
       Mine(w, branchLock[b]) => PendingBranch(b) = DueBranch(pc[w], ix[w], call[w], b)
  <1> SUFFICES ASSUME TellerInv, NEW w \in Workers, NEW b \in Branches, Mine(w, branchLock[b])
               PROVE  PendingBranch(b) = DueBranch(pc[w], ix[w], call[w], b)
    OBVIOUS
  <1> DEFINE c == call[w]
  <1>1. TypeOK /\ HeldLocks /\ Control(w) /\ c \in CallSet /\ w # NoOwner
    BY TellerAssumption DEF TellerInv, TypeOK
  <1>o. \A i \in {1, 2} : OwesBranch(w, i) <=> LegDue(pc[w], ix[w], c, i)
    BY DEF OwesBranch, LegDue
  <1>2. ASSUME NEW i \in {1, 2}, OwesBranch(w, i), b = LegBranch(c, i) PROVE branchLock[b] = w
    <2>1. i \in Legs(c) /\ UpdatesBranch(c) /\ pc[w] \in Moving
      BY <1>2 DEF OwesBranch, Moving
    <2> QED
      BY <1>1, <1>2, <2>1, OwnsLegs
  <1>3. CASE branchLock[b] = w
    <2> DEFINE first  == w # NoOwner /\ OwesBranch(w, 1) /\ b = LegBranch(c, 1)
               second == w # NoOwner /\ OwesBranch(w, 2) /\ b = LegBranch(c, 2)
    <2>1. PendingBranch(b) = CASE first -> LegAmount(c, 1) [] second -> LegAmount(c, 2)
                               [] OTHER -> 0
      BY <1>3 DEF PendingBranch
    <2>2. ~(first /\ second)
      <3>1. SUFFICES ASSUME first, second PROVE FALSE
        OBVIOUS
      <3>2. c.kind = "transfer" /\ UpdatesBranch(c)
        BY <1>1, <3>1, LegRange DEF OwesBranch
      <3> QED
        BY <1>1, <3>1, <3>2, BranchLockOrder
    <2> HIDE DEF first, second
    <2>3. PendingBranch(b) = IF first THEN LegAmount(c, 1)
                             ELSE IF second THEN LegAmount(c, 2) ELSE 0
      BY <2>1, <2>2
    <2> USE DEF first, second
    <2> QED
      BY <1>1, <1>o, <2>3 DEF DueBranch
  <1>4. CASE branchLock[b] = NoOwner
    <2>1. \A i \in {1, 2} : ~(OwesBranch(w, i) /\ b = LegBranch(c, i))
      BY <1>1, <1>2, <1>4
    <2>2. PendingBranch(b) = 0
      BY <1>4 DEF PendingBranch
    <2> QED
      BY <1>o, <2>1, <2>2 DEF DueBranch
  <1> QED
    BY <1>3, <1>4 DEF Mine

\* Both, after a step.
LEMMA PendingAccountMineNext ==
    TellerInv' => (\A w \in Workers, a \in Accounts :
       Mine(w, acctLock[a]) => PendingAccount(a) = DueAccount(pc[w], ix[w], call[w], a))'
  BY PendingAccountMine, PTL

\* And for a branch.
LEMMA PendingBranchMineNext ==
    TellerInv' => (\A w \in Workers, b \in Branches :
       Mine(w, branchLock[b]) => PendingBranch(b) = DueBranch(pc[w], ix[w], call[w], b))'
  BY PendingBranchMine, PTL

-----------------------------------------------------------------------------
(***************************************************************************)
(* A step of worker w, seen through the mapping                            *)
(***************************************************************************)
\* Where another worker has locked an account, a step of w changes neither its
\* balance nor what is pending; elsewhere all that is pending is due from w.
LEMMA AccountSeen ==
    ASSUME TellerInv, TellerInv', NEW w \in Workers, Step(w), NEW a \in Accounts
    PROVE  \/ /\ ~Mine(w, acctLock[a])
              /\ AtomicBalance'[a] = AtomicBalance[a]
           \/ /\ AtomicBalance[a] = balance[a] + DueAccount(pc[w], ix[w], call[w], a)
              /\ AtomicBalance'[a] = balance'[a] + DueAccount(pc'[w], ix'[w], call'[w], a)
  <1> DEFINE v == acctLock[a]
  <1>1. /\ TypeOK /\ HeldLocks /\ w # NoOwner /\ NoOwner \notin Workers
        /\ \A u \in Workers : Control(u)
        /\ v \in Workers \cup {NoOwner}
        /\ acctLock'[a] \in Workers \cup {NoOwner}
    BY TellerAssumption DEF TellerInv, TypeOK
  <1>2. /\ AtomicBalance[a] = balance[a] + PendingAccount(a)
        /\ AtomicBalance'[a] = balance'[a] + PendingAccount(a)'
    BY DEF AtomicBalance
  <1>3. ASSUME NEW u \in Workers, u # w PROVE acctLock'[a] = u <=> acctLock[a] = u
    <2>1. /\ acctLock[a] = u <=> HoldsAccount(pc[u], ix[u], call[u], a)
          /\ acctLock'[a] = u <=> HoldsAccount(pc'[u], ix'[u], call'[u], a)
      BY DEF TellerInv, HeldLocks, AccountsHeld
    <2>2. pc'[u] = pc[u] /\ ix'[u] = ix[u] /\ call'[u] = call[u]
      BY <1>1, <1>3, OthersStay
    <2> QED
      BY <2>1, <2>2
  <1>4. CASE Mine(w, v)
    <2>1. Mine(w, acctLock'[a])
      BY <1>1, <1>3, <1>4 DEF Mine
    <2>2. PendingAccount(a) = DueAccount(pc[w], ix[w], call[w], a)
      BY <1>4, PendingAccountMine
    <2>4. PendingAccount(a)' = DueAccount(pc'[w], ix'[w], call'[w], a)
      BY <2>1, PendingAccountMineNext DEF Mine
    <2> QED
      BY <1>2, <2>2, <2>4
  <1>5. CASE ~Mine(w, v)
    <2>1. v \in Workers /\ v # w
      BY <1>1, <1>5 DEF Mine
    <2>2. acctLock'[a] = v
      BY <1>3, <2>1
    <2>3. pc'[v] = pc[v] /\ ix'[v] = ix[v] /\ call'[v] = call[v]
      BY <1>1, <2>1, OthersStay
    <2>4. balance'[a] = balance[a]
      BY <1>1, <2>1, Exclusion
    <2>5. PendingAccount(a)' = PendingAccount(a)
      <3> DEFINE owes(l, r, c) ==
                    /\ c.kind = "transfer"
                    /\ \/ l \in {"readBranch", "writeBranch"} /\ r = 1
                       \/ l \in {"readAccount", "writeAccount"} /\ r = 2
      <3>1. PendingAccount(a) =
               IF v # NoOwner /\ owes(pc[v], ix[v], call[v]) /\ a = call[v].dst
               THEN call[v].amt ELSE 0
        BY DEF PendingAccount, OwesAccount
      <3>2. PendingAccount(a)' =
               IF v # NoOwner /\ owes(pc'[v], ix'[v], call'[v]) /\ a = call'[v].dst
               THEN call'[v].amt ELSE 0
        BY <2>2 DEF PendingAccount, OwesAccount
      <3> QED
        BY <2>3, <3>1, <3>2
    <2> QED
      BY <1>2, <1>5, <2>4, <2>5
  <1> QED
    BY <1>4, <1>5

\* And so for a branch.
LEMMA BranchSeen ==
    ASSUME TellerInv, TellerInv', NEW w \in Workers, Step(w), NEW b \in Branches
    PROVE  \/ /\ ~Mine(w, branchLock[b])
              /\ AtomicBranchTotal'[b] = AtomicBranchTotal[b]
           \/ /\ AtomicBranchTotal[b] = branchBalance[b] + DueBranch(pc[w], ix[w], call[w], b)
              /\ AtomicBranchTotal'[b] =
                    branchBalance'[b] + DueBranch(pc'[w], ix'[w], call'[w], b)
  <1> DEFINE v == branchLock[b]
  <1>1. /\ TypeOK /\ HeldLocks /\ w # NoOwner /\ NoOwner \notin Workers
        /\ \A u \in Workers : Control(u)
        /\ v \in Workers \cup {NoOwner}
        /\ branchLock'[b] \in Workers \cup {NoOwner}
    BY TellerAssumption DEF TellerInv, TypeOK
  <1>2. /\ AtomicBranchTotal[b] = branchBalance[b] + PendingBranch(b)
        /\ AtomicBranchTotal'[b] = branchBalance'[b] + PendingBranch(b)'
    BY DEF AtomicBranchTotal
  <1>3. ASSUME NEW u \in Workers, u # w PROVE branchLock'[b] = u <=> branchLock[b] = u
    <2>1. /\ branchLock[b] = u <=> HoldsBranch(pc[u], ix[u], call[u], b)
          /\ branchLock'[b] = u <=> HoldsBranch(pc'[u], ix'[u], call'[u], b)
      BY DEF TellerInv, HeldLocks, BranchesHeld
    <2>2. pc'[u] = pc[u] /\ ix'[u] = ix[u] /\ call'[u] = call[u]
      BY <1>1, <1>3, OthersStay
    <2> QED
      BY <2>1, <2>2
  <1>4. CASE Mine(w, v)
    <2>1. Mine(w, branchLock'[b])
      BY <1>1, <1>3, <1>4 DEF Mine
    <2>2. PendingBranch(b) = DueBranch(pc[w], ix[w], call[w], b)
      BY <1>4, PendingBranchMine
    <2>4. PendingBranch(b)' = DueBranch(pc'[w], ix'[w], call'[w], b)
      BY <2>1, PendingBranchMineNext DEF Mine
    <2> QED
      BY <1>2, <2>2, <2>4
  <1>5. CASE ~Mine(w, v)
    <2>1. v \in Workers /\ v # w
      BY <1>1, <1>5 DEF Mine
    <2>2. branchLock'[b] = v
      BY <1>3, <2>1
    <2>3. pc'[v] = pc[v] /\ ix'[v] = ix[v] /\ call'[v] = call[v]
      BY <1>1, <2>1, OthersStay
    <2>4. branchBalance'[b] = branchBalance[b]
      BY <1>1, <2>1, Exclusion
    <2>5. PendingBranch(b)' = PendingBranch(b)
      <3> DEFINE owes(l, r, c, i) == v # NoOwner /\ LegDue(l, r, c, i) /\ b = LegBranch(c, i)
                 due(l, r, c) == CASE owes(l, r, c, 1) -> LegAmount(c, 1)
                                   [] owes(l, r, c, 2) -> LegAmount(c, 2)
                                   [] OTHER -> 0
      <3>1. PendingBranch(b) = due(pc[v], ix[v], call[v])
        BY DEF PendingBranch, OwesBranch, LegDue
      <3>2. PendingBranch(b)' = due(pc'[v], ix'[v], call'[v])
        BY <2>2 DEF PendingBranch, OwesBranch, LegDue
      <3> HIDE DEF due
      <3> QED
        BY <2>3, <3>1, <3>2
    <2> QED
      BY <1>2, <1>5, <2>4, <2>5
  <1> QED
    BY <1>4, <1>5

\* What a command brings to an account and to a branch when it takes effect.
AccountGain(c, a) ==
    IF a = c.src THEN LegAmount(c, 1)
    ELSE IF c.kind = "transfer" /\ a = c.dst THEN c.amt ELSE 0

BranchGain(c, b) ==
    IF ~UpdatesBranch(c) THEN 0
    ELSE IF b = LegBranch(c, 1) THEN LegAmount(c, 1)
    ELSE IF c.kind = "transfer" /\ b = LegBranch(c, 2) THEN c.amt ELSE 0

\* The moment at which a command takes effect: it writes its first account.
TakesEffect(w) == pc[w] = "writeAccount" /\ ix[w] = 1

\* What worker w owes an account changes only when it writes one.
LEMMA DueAccountStep ==
    ASSUME TypeOK, NEW w \in Workers, Control(w), Step(w), NEW a
    PROVE  LET c      == call[w]
               before == DueAccount(pc[w], ix[w], c, a)
               after  == DueAccount(pc'[w], ix'[w], call'[w], a)
           IN  /\ TakesEffect(w) => /\ before = 0
                                    /\ after = IF c.kind = "transfer" /\ a = c.dst
                                               THEN c.amt ELSE 0
               /\ pc[w] = "writeAccount" /\ ix[w] = 2 =>
                     /\ before = IF a = c.dst THEN c.amt ELSE 0
                     /\ after = 0
               /\ pc[w] # "writeAccount" => after = before
  <1> DEFINE c == call[w]
             two == c.kind = "transfer"
  <1>a. /\ c \in CallSet
        /\ Legs(c) = IF two THEN {1, 2} ELSE {1}
        /\ ~two => UpdatesBranch(c)
        /\ pc[w] \in Labels
        /\ pc[w] \in TellerLabels => ix[w] \in Legs(c)
    BY LegRange DEF TypeOK, Control, UpdatesBranch
  <1>1. CASE pc[w] \in {"idle", "return", "lockAccount", "lockBranch", "checkFunds",
                        "unlockBranch", "unlockAccount", "branchBalance",
                        "lockAll", "sum", "unlockAll", "done"}
    <2>1. \/ pc'[w] \notin Moving
          \/ pc'[w] \in {"readAccount", "writeAccount"} /\ ix'[w] = 1
      BY <1>1, Flow DEF Moving
    <2> QED
      BY <1>1, <2>1 DEF DueAccount, TakesEffect, Moving
  <1>2. CASE pc[w] \in {"readAccount", "readBranch"}
    BY <1>2, Flow DEF DueAccount, TakesEffect
  <1>3. CASE pc[w] \in {"writeAccount", "writeBranch"}
    <2>1. ix[w] \in Legs(c) /\ call'[w] = c
      BY <1>3, <1>a, Flow DEF TellerLabels, Middle, Moving
    <2>2. CASE pc[w] = "writeAccount" /\ UpdatesBranch(c)
      BY <1>a, <2>1, <2>2, Flow DEF DueAccount, TakesEffect
    <2>3. CASE ~(pc[w] = "writeAccount" /\ UpdatesBranch(c))
      <3>1. \/ two /\ ix[w] = 1 /\ pc'[w] = "readAccount" /\ ix'[w] = 2
            \/ pc'[w] \in {"unlockBranch", "unlockAccount"} /\ (two => ix[w] = 2)
        BY <1>3, <2>3, Flow
      <3> QED
        BY <1>3, <1>a, <2>1, <2>3, <3>1 DEF DueAccount, TakesEffect
    <2> QED
      BY <2>2, <2>3
  <1> QED
    BY <1>1, <1>2, <1>3, <1>a DEF Labels

\* What it owes a branch arises when it takes effect and goes when it writes one.
LEMMA DueBranchStep ==
    ASSUME TypeOK, NEW w \in Workers, Control(w), Step(w), NEW b
    PROVE  LET c      == call[w]
               before == DueBranch(pc[w], ix[w], c, b)
               after  == DueBranch(pc'[w], ix'[w], call'[w], b)
           IN  /\ TakesEffect(w) => before = 0 /\ after = BranchGain(c, b)
               /\ pc[w] = "writeBranch" /\ b = LegBranch(c, ix[w]) =>
                     before = LegAmount(c, ix[w]) /\ after = 0
               /\ pc[w] = "writeBranch" /\ b # LegBranch(c, ix[w]) => after = before
               /\ pc[w] # "writeBranch" /\ ~TakesEffect(w) => after = before
               /\ pc[w] \notin Moving => before = 0
  <1> DEFINE c == call[w]
             two == c.kind = "transfer"
  <1>a. /\ c \in CallSet
        /\ Legs(c) = IF two THEN {1, 2} ELSE {1}
        /\ ~two => UpdatesBranch(c)
        /\ pc[w] \in Labels
        /\ pc[w] \in TellerLabels => ix[w] \in Legs(c)
        /\ pc[w] = "writeBranch" => UpdatesBranch(c)
        /\ two /\ UpdatesBranch(c) => LegBranch(c, 1) # LegBranch(c, 2)
        /\ LegAmount(c, 2) = c.amt
    BY LegRange, BranchLockOrder DEF TypeOK, Control, UpdatesBranch, LegAmount
  <1>z. \A l, r, x : l \notin Moving \/ (l \in {"readAccount", "writeAccount"} /\ r = 1)
                        => DueBranch(l, r, x, b) = 0
    BY DEF DueBranch, LegDue, Moving
  <1>1. CASE pc[w] \in {"idle", "return", "lockAccount", "lockBranch", "checkFunds",
                        "unlockBranch", "unlockAccount", "branchBalance",
                        "lockAll", "sum", "unlockAll", "done"}
    <2>1. \/ pc'[w] \notin Moving
          \/ pc'[w] \in {"readAccount", "writeAccount"} /\ ix'[w] = 1
      BY <1>1, Flow DEF Moving
    <2> QED
      BY <1>1, <1>z, <2>1 DEF TakesEffect, Moving
  <1>2. CASE pc[w] \in {"readAccount", "readBranch"}
    BY <1>2, Flow DEF DueBranch, LegDue, TakesEffect, Moving
  <1>3. CASE pc[w] = "writeAccount"
    <2>1. ix[w] \in Legs(c) /\ call'[w] = c
      BY <1>3, <1>a, Flow DEF TellerLabels, Middle, Moving
    <2>2. CASE UpdatesBranch(c)
      <3>1. pc'[w] = "readBranch" /\ ix'[w] = ix[w]
        BY <1>3, <2>2, Flow
      <3>2. CASE ix[w] = 1
        <4>1. DueBranch(pc[w], ix[w], c, b) = 0
          BY <1>3, <1>z, <3>2
        <4>2. DueBranch("readBranch", 1, c, b) = BranchGain(c, b)
          <5>1. CASE two
            BY <1>a, <2>2, <5>1 DEF DueBranch, LegDue, BranchGain
          <5>2. CASE ~two
            BY <1>a, <2>2, <5>2 DEF DueBranch, LegDue, BranchGain
          <5> QED
            BY <5>1, <5>2
        <4> QED
          BY <1>3, <2>1, <3>1, <3>2, <4>1, <4>2 DEF TakesEffect, Moving
      <3>3. CASE ix[w] = 2
        BY <1>3, <1>a, <2>1, <2>2, <3>1, <3>3 DEF DueBranch, LegDue, TakesEffect, Moving
      <3> QED
        BY <1>a, <2>1, <3>2, <3>3
    <2>3. CASE ~UpdatesBranch(c)
      BY <1>3, <1>a, <2>1, <2>3 DEF DueBranch, LegDue, BranchGain, TakesEffect, Moving
    <2> QED
      BY <2>2, <2>3
  <1>4. CASE pc[w] = "writeBranch"
    <2>1. ix[w] \in Legs(c) /\ call'[w] = c /\ UpdatesBranch(c)
      BY <1>4, <1>a, Flow DEF TellerLabels, Middle, Moving
    <2>2. \/ two /\ ix[w] = 1 /\ pc'[w] = "readAccount" /\ ix'[w] = 2
          \/ pc'[w] = "unlockBranch" /\ (two => ix[w] = 2)
      BY <1>4, <2>1, Flow
    <2>3. CASE two
      BY <1>4, <1>a, <2>1, <2>2, <2>3 DEF DueBranch, LegDue, TakesEffect, Moving
    <2>4. CASE ~two
      BY <1>4, <1>a, <2>1, <2>2, <2>4 DEF DueBranch, LegDue, TakesEffect, Moving
    <2> QED
      BY <2>3, <2>4
  <1> QED
    BY <1>1, <1>2, <1>3, <1>4, <1>a DEF Labels

\* Through the mapping, a step changes the balance of an account exactly when a
\* command takes effect, and then by what the command brings it.
LEMMA BalanceStep ==
    ASSUME TellerInv, TellerInv', NEW w \in Workers, Step(w), NEW a \in Accounts
    PROVE  /\ AtomicBalance'[a] =
                 AtomicBalance[a] + (IF TakesEffect(w) THEN AccountGain(call[w], a) ELSE 0)
           /\ (pc[w] = "checkFunds" \/ TakesEffect(w)) /\ a = call[w].src =>
                 AtomicBalance[a] = balance[a]
  <1> DEFINE c == call[w]
             two == c.kind = "transfer"
             before == DueAccount(pc[w], ix[w], c, a)
             after  == DueAccount(pc'[w], ix'[w], call'[w], a)
  <1>1. /\ TypeOK /\ HeldLocks /\ Control(w) /\ Fresh(w)
        /\ c \in CallSet /\ c.amt \in Int /\ LegAmount(c, 1) \in Int /\ LegAmount(c, 2) = c.amt
        /\ balance \in [Accounts -> Int] /\ balance[a] \in Int /\ balance'[a] \in Int
        /\ Legs(c) = IF two THEN {1, 2} ELSE {1}
        /\ ~two => c.dst = c.src
    BY LegTypes, LegRange DEF TellerInv, TypeOK, CallSet, LegAmount
  <1>2. /\ before \in Int /\ after \in Int
        /\ AccountGain(c, a) \in Int
    BY <1>1 DEF DueAccount, AccountGain, TypeOK, TellerInv, CallSet
  <1>3. pc[w] \in Middle => acctLock[c.src] = w /\ acctLock[c.dst] = w
    <2>1. LegAccount(c, 1) = c.src /\ LegAccount(c, 2) = c.dst
      BY DEF LegAccount
    <2> QED
      BY <1>1, <2>1, OwnsLegs
  <1>4. /\ TakesEffect(w) => /\ before = 0
                             /\ after = IF two /\ a = c.dst THEN c.amt ELSE 0
        /\ pc[w] = "writeAccount" /\ ix[w] = 2 =>
              before = (IF a = c.dst THEN c.amt ELSE 0) /\ after = 0
        /\ pc[w] # "writeAccount" => after = before
    BY <1>1, DueAccountStep
  <1>5. CASE ~Mine(w, acctLock[a]) /\ AtomicBalance'[a] = AtomicBalance[a]
    <2>1. AtomicBalance[a] \in Int
      <3>1. PendingAccount(a) \in Int
        BY <1>5 DEF PendingAccount, Mine, TellerInv, TypeOK, CallSet
      <3> QED
        BY <1>1, <3>1 DEF AtomicBalance
    <2>2. pc[w] \in Middle => a # c.src /\ a # c.dst
      BY <1>3, <1>5 DEF Mine
    <2> QED
      BY <1>5, <2>1, <2>2 DEF AccountGain, TakesEffect, Middle, Moving
  <1>6. CASE AtomicBalance[a] = balance[a] + before /\ AtomicBalance'[a] = balance'[a] + after
    <2>1. CASE pc[w] # "writeAccount"
      <3>1. balance' = balance
        BY <2>1, Effects
      <3>2. ~TakesEffect(w) /\ after = before
        BY <1>4, <2>1 DEF TakesEffect
      <3>3. pc[w] = "checkFunds" => before = 0
        BY DEF DueAccount
      <3> QED
        BY <1>1, <1>2, <1>6, <3>1, <3>2, <3>3
    <2>2. CASE pc[w] = "writeAccount"
      <3>1. /\ balance' = [balance EXCEPT ![LegAccount(c, ix[w])] =
                              balance[LegAccount(c, ix[w])] + LegAmount(c, ix[w])]
            /\ ix[w] \in Legs(c) /\ (two => c.src # c.dst)
        BY <1>1, <2>2, Effects
           DEF Fresh, Control, TellerLabels, Middle, Moving, NothingToDo
      <3>2. CASE ix[w] = 1
        <4>1. balance'[a] = IF a = c.src THEN balance[a] + LegAmount(c, 1) ELSE balance[a]
          BY <1>1, <3>1, <3>2 DEF LegAccount
        <4> QED
          BY <1>1, <1>2, <1>4, <1>6, <2>2, <3>1, <3>2, <4>1 DEF TakesEffect, AccountGain
      <3>3. CASE ix[w] = 2
        <4>1. balance'[a] = IF a = c.dst THEN balance[a] + c.amt ELSE balance[a]
          BY <1>1, <3>1, <3>3 DEF LegAccount
        <4> QED
          BY <1>1, <1>2, <1>4, <1>6, <2>2, <3>3, <4>1 DEF TakesEffect
      <3> QED
        BY <1>1, <3>1, <3>2, <3>3
    <2> QED
      BY <2>1, <2>2
  <1> QED
    BY <1>5, <1>6, AccountSeen

\* And so for a branch.  A command takes effect only on branches that owe
\* nothing; the write of a branch balance settles it; and when Bank_Balance has
\* the last lock, every branch is settled.
LEMMA BranchTotalStep ==
    ASSUME TellerInv, TellerInv', NEW w \in Workers, Step(w), NEW b \in Branches
    PROVE  /\ AtomicBranchTotal'[b] =
                 AtomicBranchTotal[b] + (IF TakesEffect(w) THEN BranchGain(call[w], b) ELSE 0)
           /\ TakesEffect(w) /\ UpdatesBranch(call[w])
                 /\ b \in {LegBranch(call[w], 1), LegBranch(call[w], 2)} =>
                    AtomicBranchTotal[b] = branchBalance[b]
           /\ pc[w] = "writeBranch" /\ b = LegBranch(call[w], ix[w]) =>
                 branchBalance'[b] = AtomicBranchTotal[b]
           /\ pc[w] = "lockAll" /\ pc'[w] = "sum" => AtomicBranchTotal[b] = branchBalance[b]
  <1> DEFINE c == call[w]
             two == c.kind = "transfer"
             before == DueBranch(pc[w], ix[w], c, b)
             after  == DueBranch(pc'[w], ix'[w], call'[w], b)
  <1>1. /\ TypeOK /\ HeldLocks /\ Control(w) /\ Fresh(w)
        /\ c \in CallSet /\ c.amt \in Int /\ LegAmount(c, 1) \in Int /\ LegAmount(c, 2) = c.amt
        /\ branchBalance \in [Branches -> Int]
        /\ branchBalance[b] \in Int /\ branchBalance'[b] \in Int
        /\ Legs(c) = IF two THEN {1, 2} ELSE {1}
        /\ ~two => c.dst = c.src
    BY LegTypes, LegRange DEF TellerInv, TypeOK, CallSet, LegAmount
  <1>2. /\ before \in Int /\ after \in Int /\ BranchGain(c, b) \in Int
    <2>1. \A x \in CallSet : LegAmount(x, 1) \in Int /\ LegAmount(x, 2) \in Int
      BY LegTypes
    <2>2. \A l, r : \A x \in CallSet : DueBranch(l, r, x, b) \in Int
      BY <2>1 DEF DueBranch
    <2> QED
      BY <1>1, <2>2 DEF BranchGain, TellerInv, TypeOK
  <1>3. pc[w] \in Moving /\ UpdatesBranch(c) =>
           branchLock[LegBranch(c, 1)] = w /\ branchLock[LegBranch(c, 2)] = w
    <2>1. ~two => LegBranch(c, 2) = LegBranch(c, 1)
      BY <1>1 DEF LegBranch, LegAccount
    <2> QED
      BY <1>1, <2>1, OwnsLegs
  <1>4. /\ TakesEffect(w) => before = 0 /\ after = BranchGain(c, b)
        /\ pc[w] = "writeBranch" /\ b = LegBranch(c, ix[w]) =>
              before = LegAmount(c, ix[w]) /\ after = 0
        /\ pc[w] = "writeBranch" /\ b # LegBranch(c, ix[w]) => after = before
        /\ pc[w] # "writeBranch" /\ ~TakesEffect(w) => after = before
        /\ pc[w] \notin Moving => before = 0
    BY <1>1, DueBranchStep
  <1>w. pc[w] = "writeBranch" => UpdatesBranch(c) /\ ix[w] \in Legs(c) /\ ~TakesEffect(w)
    BY <1>1 DEF Control, TellerLabels, Middle, Moving, TakesEffect
  <1>5. CASE ~Mine(w, branchLock[b]) /\ AtomicBranchTotal'[b] = AtomicBranchTotal[b]
    <2>1. AtomicBranchTotal[b] \in Int
      <3>1. PendingBranch(b) \in Int
        <4>1. branchLock[b] \in Workers => call[branchLock[b]] \in CallSet
          BY <1>1 DEF TypeOK
        <4>2. branchLock[b] \in Workers
          BY <1>1, <1>5 DEF TypeOK, Mine
        <4>3. LegAmount(call[branchLock[b]], 1) \in Int /\ LegAmount(call[branchLock[b]], 2) \in Int
          BY <4>1, <4>2, LegTypes
        <4> QED
          BY <4>3 DEF PendingBranch
      <3> QED
        BY <1>1, <3>1 DEF AtomicBranchTotal
    <2>2. pc[w] \in Moving /\ UpdatesBranch(c) => b # LegBranch(c, 1) /\ b # LegBranch(c, 2)
      BY <1>3, <1>5 DEF Mine
    <2>3. TakesEffect(w) => BranchGain(c, b) = 0
      BY <2>2 DEF BranchGain, TakesEffect, Moving
    <2>4. pc[w] = "writeBranch" => b # LegBranch(c, ix[w])
      BY <1>1, <1>w, <2>2 DEF Moving
    <2>5. ~(pc[w] = "lockAll" /\ pc'[w] = "sum")
      <3> SUFFICES ASSUME pc[w] = "lockAll", pc'[w] = "sum" PROVE Mine(w, branchLock[b])
        BY <1>5
      <3>1. ix[w] + 1 = NumBranches /\ ix[w] \in Branches
        BY <1>1, Flow, RoundTypes
      <3>2. branchLock[ix[w]] = NoOwner
        BY Effects
      <3>3. b < ix[w] => HoldsBranch(pc[w], ix[w], c, b)
        BY DEF HoldsBranch
      <3>4. b < ix[w] => branchLock[b] = w
        BY <1>1, <3>3 DEF HeldLocks, BranchesHeld
      <3>5. b < ix[w] \/ b = ix[w]
        BY <3>1, BankAssumption DEF Branches
      <3> QED
        BY <3>2, <3>4, <3>5 DEF Mine
    <2>6. ~(TakesEffect(w) /\ UpdatesBranch(c) /\ b \in {LegBranch(c, 1), LegBranch(c, 2)})
      BY <2>2 DEF TakesEffect, Moving
    <2> QED
      BY <1>5, <2>1, <2>3, <2>4, <2>5, <2>6
  <1>6. CASE /\ AtomicBranchTotal[b] = branchBalance[b] + before
             /\ AtomicBranchTotal'[b] = branchBalance'[b] + after
    <2>1. CASE pc[w] # "writeBranch"
      <3>1. branchBalance' = branchBalance
        BY <2>1, Effects
      <3>2. pc[w] = "lockAll" => before = 0
        BY <1>4 DEF Moving
      <3> QED
        BY <1>1, <1>2, <1>4, <1>6, <2>1, <3>1, <3>2
    <2>2. CASE pc[w] = "writeBranch"
      <3>1. branchBalance' = [branchBalance EXCEPT ![LegBranch(c, ix[w])] =
                                 branchBalance[LegBranch(c, ix[w])] + LegAmount(c, ix[w])]
        BY <1>1, <2>2, Effects DEF Fresh
      <3>2. LegAmount(c, ix[w]) \in Int
        BY <1>1, <1>w, <2>2
      <3>3. CASE b = LegBranch(c, ix[w])
        <4>1. branchBalance'[b] = branchBalance[b] + LegAmount(c, ix[w])
          BY <1>1, <3>1, <3>3
        <4> QED
          BY <1>1, <1>2, <1>4, <1>6, <1>w, <2>2, <3>2, <3>3, <4>1
      <3>4. CASE b # LegBranch(c, ix[w])
        <4>1. branchBalance'[b] = branchBalance[b]
          BY <1>1, <3>1, <3>4
        <4> QED
          BY <1>1, <1>2, <1>4, <1>6, <1>w, <2>2, <3>4, <4>1
      <3> QED
        BY <3>3, <3>4
    <2> QED
      BY <2>1, <2>2
  <1> QED
    BY <1>5, <1>6, BranchSeen

-----------------------------------------------------------------------------
(***************************************************************************)
(* Reads and outcomes                                                      *)
(***************************************************************************)
\* A step of w changes neither what another worker has read, a running
\* Bank_Balance included, nor its outcome.
LEMMA OthersSeen ==
    ASSUME TellerInv, NEW w \in Workers, Step(w), NEW v \in Workers, v # w
    PROVE  AtomicRead'[v] = AtomicRead[v] /\ AtomicOutcome'[v] = AtomicOutcome[v]
  <1>1. /\ TypeOK /\ HeldLocks /\ Control(w)
        /\ pc'[v] = pc[v] /\ ix'[v] = ix[v] /\ read'[v] = read[v] /\ outcome'[v] = outcome[v]
    BY OthersStay DEF TellerInv
  <1>2. ASSUME pc[v] = "sum", NEW b \in Branches PROVE branchBalance'[b] = branchBalance[b]
    <2>1. HoldsBranch(pc[v], ix[v], call[v], b)
      BY <1>2 DEF HoldsBranch
    <2>2. branchLock[b] = v
      BY <1>1, <2>1 DEF HeldLocks, BranchesHeld
    <2> QED
      BY <1>1, <2>2, Exclusion
  <1>3. /\ AtomicRead[v] = [b \in Branches |->
              IF pc[v] = "sum" /\ b >= ix[v] THEN branchBalance[b] ELSE read[v][b]]
        /\ AtomicRead'[v] = [b \in Branches |->
              IF pc'[v] = "sum" /\ b >= ix'[v] THEN branchBalance'[b] ELSE read'[v][b]]
    BY DEF AtomicRead
  <1>4. AtomicRead'[v] = AtomicRead[v]
    BY <1>1, <1>2, <1>3
  <1>5. /\ AtomicOutcome[v] = IF TookEffect(v) THEN "success" ELSE outcome[v]
        /\ AtomicOutcome'[v] = IF TookEffect(v)' THEN "success" ELSE outcome'[v]
    BY DEF AtomicOutcome
  <1>6. TookEffect(v)' <=> TookEffect(v)
    BY <1>1 DEF TookEffect
  <1> QED
    BY <1>1, <1>4, <1>5, <1>6

\* What worker w has read, seen through the mapping.
LEMMA MyRead ==
    ASSUME TypeOK, NEW w \in Workers, Control(w), Step(w)
    PROVE  /\ pc[w] = "branchBalance" =>
                 LET b == GetBranchID(call[w].src)
                 IN  AtomicRead'[w] = [AtomicRead[w] EXCEPT ![b] = branchBalance[b]]
           /\ pc[w] = "lockAll" /\ pc'[w] = "sum" => AtomicRead'[w] = branchBalance
           /\ pc[w] # "branchBalance" /\ ~(pc[w] = "lockAll" /\ pc'[w] = "sum") =>
                 AtomicRead'[w] = AtomicRead[w]
  <1> DEFINE seen(l, r, money0, seen0) ==
                [b \in Branches |-> IF l = "sum" /\ b >= r THEN money0[b] ELSE seen0[b]]
  <1>1. /\ AtomicRead[w] = seen(pc[w], ix[w], branchBalance, read[w])
        /\ AtomicRead'[w] = seen(pc'[w], ix'[w], branchBalance', read'[w])
    BY DEF AtomicRead
  <1>2. /\ read \in [Workers -> [Branches -> Int]] /\ branchBalance \in [Branches -> Int]
        /\ GetBranchID(call[w].src) \in Branches
        /\ pc[w] \in Labels
        /\ pc[w] \in {"lockAll", "sum", "unlockAll"} => ix[w] \in Branches
    BY RoundTypes DEF TypeOK, CallSet, Accounts, GetBranchID
  <1>m. \A l, r, m, s : l # "sum" /\ s \in [Branches -> Int] => seen(l, r, m, s) = s
    OBVIOUS
  <1> HIDE DEF seen
  <1>3. CASE pc[w] = "branchBalance"
    <2>1. ReadBranchBalance(w)
      BY <1>3 DEF Step, GetNext, Done, ReturnAtOnce, LockAccount, LockBranch, FundsSuffice,
         FundsInsufficient, ReadAccount, WriteAccount, ReadBranch, WriteBranch, UnlockBranch,
         UnlockAccount, LockNextBranch, AddNextBranch, UnlockNextBranch
    <2> DEFINE b == GetBranchID(call[w].src)
    <2>2. pc'[w] = "idle" /\ read' = [read EXCEPT ![w][b] = branchBalance[b]]
      BY <2>1, <1>3, Flow DEF ReadBranchBalance
    <2>3. /\ read'[w] = [read[w] EXCEPT ![b] = branchBalance[b]]
          /\ read[w] \in [Branches -> Int] /\ read'[w] \in [Branches -> Int]
      BY <1>2, <2>2
    <2>4. AtomicRead[w] = read[w] /\ AtomicRead'[w] = read'[w]
      BY <1>1, <1>3, <1>m, <2>2, <2>3
    <2> QED
      BY <1>3, <2>3, <2>4
  <1>4. CASE pc[w] = "lockAll" /\ pc'[w] = "sum"
    <2>1. ix'[w] = 0 /\ branchBalance' = branchBalance
      BY <1>4, <1>2, Flow, Effects DEF Branches
    <2>2. \A b \in Branches : b >= 0
      BY BankAssumption DEF Branches
    <2>3. seen("sum", 0, branchBalance, read'[w]) = branchBalance
      BY <1>2, <2>2 DEF seen
    <2> QED
      BY <1>1, <1>4, <2>1, <2>3
  <1>5. CASE pc[w] = "sum"
    <2> DEFINE k == ix[w]
    <2>1. AddNextBranch(w)
      BY <1>5 DEF Step, GetNext, Done, ReturnAtOnce, LockAccount, LockBranch, FundsSuffice,
         FundsInsufficient, ReadAccount, WriteAccount, ReadBranch, WriteBranch, UnlockBranch,
         UnlockAccount, LockNextBranch, ReadBranchBalance, UnlockNextBranch
    <2>2. /\ k \in Branches /\ branchBalance' = branchBalance
          /\ read' = [read EXCEPT ![w][k] = branchBalance[k]]
      BY <1>2, <1>5, <2>1, Effects DEF AddNextBranch
    <2>3. /\ read[w] \in [Branches -> Int] /\ read'[w] \in [Branches -> Int]
          /\ \A b \in Branches : read'[w][b] = IF b = k THEN branchBalance[b] ELSE read[w][b]
      BY <1>2, <2>2
    <2>4. CASE k + 1 < NumBranches /\ pc'[w] = "sum" /\ ix'[w] = k + 1
      <3>1. \A b \in Branches : /\ b >= k + 1 => b >= k
                                /\ b >= k /\ ~(b >= k + 1) => b = k
        BY <2>2, BankAssumption DEF Branches
      <3>2. seen("sum", k + 1, branchBalance, read'[w]) = seen("sum", k, branchBalance, read[w])
        <4>1. \A b \in Branches :
                 (IF b >= k + 1 THEN branchBalance[b] ELSE read'[w][b])
                    = (IF b >= k THEN branchBalance[b] ELSE read[w][b])
          <5>1. SUFFICES ASSUME NEW b \in Branches
                         PROVE  (IF b >= k + 1 THEN branchBalance[b] ELSE read'[w][b])
                                   = (IF b >= k THEN branchBalance[b] ELSE read[w][b])
            OBVIOUS
          <5>2. k \in Int /\ b \in Int
            BY <2>2 DEF Branches
          <5>3. read'[w][b] = IF b = k THEN branchBalance[b] ELSE read[w][b]
            BY <2>3
          <5> QED
            BY <3>1, <5>2, <5>3
        <4> QED
          BY <4>1 DEF seen
      <3> QED
        BY <1>1, <1>5, <2>2, <2>4, <3>2
    <2>5. CASE k + 1 = NumBranches /\ pc'[w] = "unlockAll"
      <3>1. \A b \in Branches : b >= k => b = k
        BY <2>2, <2>5, BankAssumption DEF Branches
      <3>2. read'[w] = seen("sum", k, branchBalance, read[w])
        <4>1. k >= k
          BY <2>2 DEF Branches
        <4> QED
          BY <2>2, <2>3, <3>1, <4>1 DEF seen
      <3>3. AtomicRead'[w] = read'[w]
        BY <1>1, <1>m, <2>3, <2>5
      <3> QED
        BY <1>1, <1>5, <3>2, <3>3
    <2>6. \/ k + 1 < NumBranches /\ pc'[w] = "sum" /\ ix'[w] = k + 1
          \/ k + 1 = NumBranches /\ pc'[w] = "unlockAll"
      BY <1>5, Flow
    <2> QED
      BY <1>5, <2>4, <2>5, <2>6
  <1>6. CASE pc[w] \notin {"branchBalance", "sum"} /\ pc'[w] # "sum"
    <2>1. read' = read
      BY <1>6 DEF Step, GetNext, Done, ReturnAtOnce, LockAccount, LockBranch, FundsSuffice,
         FundsInsufficient, ReadAccount, WriteAccount, ReadBranch, WriteBranch, UnlockBranch,
         UnlockAccount, ReadBranchBalance, LockNextBranch, AddNextBranch, UnlockNextBranch
    <2> QED
      BY <1>1, <1>2, <1>6, <1>m, <2>1
  <1>7. pc'[w] = "sum" => pc[w] \in {"lockAll", "sum"}
    BY <1>2, Flow DEF Labels
  <1> QED
    BY <1>3, <1>4, <1>5, <1>6, <1>7

\* Its outcome, seen through the mapping: requested when the command arrives,
\* answered when it takes effect.
LEMMA MyOutcome ==
    ASSUME TypeOK, NEW w \in Workers, Control(w), Control(w)', Step(w)
    PROVE  /\ pc[w] = "idle" => AtomicOutcome[w] # "pending"
           /\ pc[w] = "idle" /\ pc'[w] # "done" => AtomicOutcome'[w] = "pending"
           /\ \/ pc[w] \in {"return", "branchBalance"} \/ TakesEffect(w)
              \/ pc[w] = "lockAll" /\ pc'[w] = "sum"
              => AtomicOutcome[w] = "pending" /\ AtomicOutcome'[w] = "success"
           /\ pc[w] = "checkFunds" /\ pc'[w] \in {"unlockBranch", "unlockAccount"} =>
                 AtomicOutcome[w] = "pending" /\ AtomicOutcome'[w] = "insufficient"
           /\ \/ pc[w] = "idle" /\ pc'[w] = "done"
              \/ pc[w] \in {"lockAccount", "lockBranch", "readAccount", "readBranch",
                            "writeBranch", "unlockBranch", "unlockAccount", "sum", "unlockAll"}
              \/ pc[w] = "checkFunds" /\ pc'[w] \notin {"unlockBranch", "unlockAccount"}
              \/ pc[w] = "writeAccount" /\ ix[w] = 2
              \/ pc[w] = "lockAll" /\ pc'[w] = "lockAll"
              => AtomicOutcome'[w] = AtomicOutcome[w]
  <1>1. /\ AtomicOutcome[w] = IF TookEffect(w) THEN "success" ELSE outcome[w]
        /\ AtomicOutcome'[w] = IF TookEffect(w)' THEN "success" ELSE outcome'[w]
    BY DEF AtomicOutcome
  <1> USE DEF TypeOK, money, locks, job
  <1>2. CASE \E c \in Calls : GetNext(w, c)
    <2>1. /\ pc[w] = "idle" /\ outcome'[w] = "pending"
          /\ pc'[w] \in {"return", "branchBalance", "lockAccount", "lockAll"}
      BY <1>2, GoToValue DEF GetNext, Entry
    <2> QED
      BY <1>1, <2>1 DEF TookEffect, Control, TakesEffect
  <1>3. CASE Done(w)
    BY <1>1, <1>3, GoToValue DEF Done, TookEffect, Control, TakesEffect
  <1>4. CASE ReturnAtOnce(w)
    BY <1>1, <1>4, GoToValue DEF ReturnAtOnce, TookEffect, Control, TakesEffect
  <1>5. CASE LockAccount(w) \/ LockBranch(w)
    <2>1. /\ pc[w] \in {"lockAccount", "lockBranch"} /\ outcome' = outcome
          /\ \/ pc'[w] \in {"lockAccount", "lockBranch", "checkFunds"}
             \/ pc'[w] = "readAccount" /\ ix'[w] = 1
      BY <1>5, Flow DEF LockAccount, LockBranch
    <2> QED
      BY <1>1, <2>1 DEF TookEffect, TakesEffect
  <1>6. CASE FundsSuffice(w)
    BY <1>1, <1>6, GoToValue DEF FundsSuffice, TookEffect, TakesEffect
  <1>7. CASE FundsInsufficient(w)
    BY <1>1, <1>7, GoToValue DEF FundsInsufficient, TookEffect, Control, TakesEffect
  <1>8. CASE ReadAccount(w) \/ ReadBranch(w)
    BY <1>1, <1>8, GoToValue DEF ReadAccount, ReadBranch, TookEffect, TakesEffect
  <1>9. CASE WriteAccount(w)
    <2>1. /\ pc[w] = "writeAccount" /\ outcome' = outcome /\ outcome[w] = "pending"
          /\ ix[w] \in {1, 2}
          /\ \/ pc'[w] \in {"readBranch", "unlockBranch", "unlockAccount"}
             \/ pc'[w] = "readAccount" /\ ix'[w] = 2
      BY <1>9, Flow, RoundTypes DEF WriteAccount, Control, TellerLabels, Middle, Moving
    <2> QED
      BY <1>1, <2>1 DEF TookEffect, TakesEffect
  <1>10. CASE WriteBranch(w)
    <2>1. /\ pc[w] = "writeBranch" /\ outcome' = outcome /\ outcome[w] = "pending"
          /\ \/ pc'[w] \in {"unlockBranch", "unlockAccount"}
             \/ pc'[w] = "readAccount" /\ ix'[w] = 2
      BY <1>10, Flow DEF WriteBranch, Control
    <2> QED
      BY <1>1, <2>1 DEF TookEffect, TakesEffect
  <1>11. CASE UnlockBranch(w)
    <2>1. /\ pc[w] = "unlockBranch" /\ outcome' = outcome
          /\ pc'[w] \in {"unlockBranch", "unlockAccount"}
      BY <1>11, Flow DEF UnlockBranch
    <2> QED
      BY <1>1, <2>1 DEF TookEffect, TakesEffect
  <1>12. CASE UnlockAccount(w)
    <2>1. /\ pc[w] = "unlockAccount"
          /\ \/ pc'[w] = "unlockAccount" /\ outcome' = outcome
             \/ pc'[w] = "idle" /\ outcome'[w] = IF outcome[w] = "pending" THEN "success"
                                                                           ELSE outcome[w]
      BY <1>12, GoToValue DEF UnlockAccount
    <2> QED
      BY <1>1, <2>1 DEF TookEffect, TakesEffect
  <1>13. CASE ReadBranchBalance(w)
    BY <1>1, <1>13, GoToValue DEF ReadBranchBalance, TookEffect, Control, TakesEffect
  <1>14. CASE LockNextBranch(w)
    <2>1. /\ pc[w] = "lockAll" /\ outcome' = outcome /\ outcome[w] = "pending"
          /\ pc'[w] \in {"lockAll", "sum"}
      BY <1>14, Flow DEF LockNextBranch, Control
    <2> QED
      BY <1>1, <2>1 DEF TookEffect, TakesEffect
  <1>15. CASE AddNextBranch(w)
    <2>1. pc[w] = "sum" /\ pc'[w] \in {"sum", "unlockAll"}
      BY <1>15, Flow DEF AddNextBranch
    <2> QED
      BY <1>1, <2>1 DEF TookEffect, TakesEffect
  <1>16. CASE UnlockNextBranch(w)
    <2>1. /\ pc[w] = "unlockAll"
          /\ \/ pc'[w] = "unlockAll"
             \/ pc'[w] = "idle" /\ outcome'[w] = "success"
      BY <1>16, Flow DEF UnlockNextBranch
    <2> QED
      BY <1>1, <2>1 DEF TookEffect, TakesEffect
  <1> QED
    BY <1>2, <1>3, <1>4, <1>5, <1>6, <1>7, <1>8, <1>9, <1>10, <1>11, <1>12, <1>13, <1>14,
       <1>15, <1>16 DEF Step

-----------------------------------------------------------------------------
(***************************************************************************)
(* Every step of a worker is one of the atomic bank, or none               *)
(***************************************************************************)
\* The mapping shows integer balances.
LEMMA SeenTypes ==
    TellerInv => AtomicBalance \in [Accounts -> Int] /\ AtomicBranchTotal \in [Branches -> Int]
  <1> SUFFICES ASSUME TellerInv
               PROVE  /\ AtomicBalance \in [Accounts -> Int]
                      /\ AtomicBranchTotal \in [Branches -> Int]
    OBVIOUS
  <1>1. /\ balance \in [Accounts -> Int] /\ branchBalance \in [Branches -> Int]
        /\ acctLock \in [Accounts -> Workers \cup {NoOwner}]
        /\ branchLock \in [Branches -> Workers \cup {NoOwner}]
        /\ call \in [Workers -> CallSet]
    BY DEF TellerInv, TypeOK
  <1>2. ASSUME NEW a \in Accounts PROVE PendingAccount(a) \in Int
    BY <1>1 DEF PendingAccount, CallSet
  <1>3. ASSUME NEW b \in Branches PROVE PendingBranch(b) \in Int
    <2>1. branchLock[b] # NoOwner =>
             /\ LegAmount(call[branchLock[b]], 1) \in Int
             /\ LegAmount(call[branchLock[b]], 2) \in Int
      BY <1>1, LegTypes
    <2> QED
      BY <2>1 DEF PendingBranch
  <1> QED
    BY <1>1, <1>2, <1>3 DEF AtomicBalance, AtomicBranchTotal

\* Through the mapping, money moves only when a command takes effect.
LEMMA NothingMoves ==
    ASSUME TellerInv, TellerInv', NEW w \in Workers, Step(w), ~TakesEffect(w)
    PROVE  AtomicBalance' = AtomicBalance /\ AtomicBranchTotal' = AtomicBranchTotal
  <1>1. AtomicBalance \in [Accounts -> Int] /\ AtomicBranchTotal \in [Branches -> Int]
    BY SeenTypes
  <1>2. AtomicBalance' = [a \in Accounts |-> AtomicBalance'[a]]
    BY DEF AtomicBalance
  <1>3. AtomicBranchTotal' = [b \in Branches |-> AtomicBranchTotal'[b]]
    BY DEF AtomicBranchTotal
  <1>4. \A a \in Accounts : AtomicBalance'[a] = AtomicBalance[a]
    BY <1>1, BalanceStep
  <1>5. \A b \in Branches : AtomicBranchTotal'[b] = AtomicBranchTotal[b]
    BY <1>1, BranchTotalStep
  <1> QED
    BY <1>1, <1>2, <1>3, <1>4, <1>5

\* A step changes what the mapping shows of its own worker only.
LEMMA OnlyMine ==
    ASSUME TellerInv, TellerInv', NEW w \in Workers, Step(w)
    PROVE  /\ AtomicRead' = [AtomicRead EXCEPT ![w] = AtomicRead'[w]]
           /\ AtomicOutcome' = [AtomicOutcome EXCEPT ![w] = AtomicOutcome'[w]]
           /\ pc[w] # "idle" => call' = call
  <1>1. /\ AtomicRead = [v \in Workers |-> AtomicRead[v]]
        /\ AtomicRead' = [v \in Workers |-> AtomicRead'[v]]
        /\ AtomicOutcome = [v \in Workers |-> AtomicOutcome[v]]
        /\ AtomicOutcome' = [v \in Workers |-> AtomicOutcome'[v]]
    BY DEF AtomicRead, AtomicOutcome
  <1>2. /\ \A v \in Workers : v # w => AtomicRead'[v] = AtomicRead[v]
        /\ \A v \in Workers : v # w => AtomicOutcome'[v] = AtomicOutcome[v]
    BY OthersSeen
  <1>3. ASSUME pc[w] # "idle" PROVE call' = call
    <2>1. call \in [Workers -> CallSet] /\ call' \in [Workers -> CallSet]
      BY DEF TellerInv, TypeOK
    <2>2. call'[w] = call[w]
      BY <1>3, Flow DEF TellerInv
    <2>3. \A v \in Workers : v # w => call'[v] = call[v]
      BY OthersStay DEF TellerInv
    <2> QED
      BY <2>1, <2>2, <2>3
  <1> QED
    BY <1>1, <1>2, <1>3

\* A function that gains d at one place, or loses d at one and gains e at another.
LEMMA GainAt ==
    ASSUME NEW S, NEW f \in [S -> Int], NEW x \in S, NEW d \in Int, NEW h,
           h = [s \in S |-> h[s]],
           \A s \in S : h[s] = f[s] + (IF s = x THEN d ELSE 0)
    PROVE  h = [f EXCEPT ![x] = @ + d]
  <1>1. \A s \in S : f[s] \in Int
    OBVIOUS
  <1>2. \A s \in S : h[s] = IF s = x THEN f[x] + d ELSE f[s]
    BY <1>1
  <1> QED
    BY <1>2

\* The same for a loss of d at one place and a gain of d at another.
LEMMA MoveAt ==
    ASSUME NEW S, NEW f \in [S -> Int], NEW x \in S, NEW y \in S, x # y, NEW d \in Int, NEW h,
           h = [s \in S |-> h[s]],
           \A s \in S : h[s] = f[s] + (IF s = x THEN -d ELSE IF s = y THEN d ELSE 0)
    PROVE  h = [f EXCEPT ![x] = @ - d, ![y] = @ + d]
  <1>1. \A s \in S : f[s] \in Int
    OBVIOUS
  <1>2. \A s \in S : h[s] = IF s = x THEN f[x] - d ELSE IF s = y THEN f[y] + d ELSE f[s]
    BY <1>1
  <1> QED
    BY <1>2

\* The step with which a command takes effect is its step in the atomic bank.
LEMMA EffectStep ==
    ASSUME TellerInv, TellerInv', NEW w \in Workers, Step(w), TakesEffect(w)
    PROVE  Atomic!Deposit(w) \/ Atomic!Withdraw(w) \/ Atomic!Transfer(w)
  <1> DEFINE c == call[w]
             two == c.kind = "transfer"
             from == GetBranchID(c.src)
             to == GetBranchID(c.dst)
  <1>1. /\ TypeOK /\ Control(w) /\ Control(w)' /\ Reserved(w)
        /\ AtomicBalance \in [Accounts -> Int] /\ AtomicBranchTotal \in [Branches -> Int]
    BY SeenTypes DEF TellerInv
  <1>2. /\ c \in CallSet /\ c.src \in Accounts /\ c.dst \in Accounts /\ c.amt \in Nat
        /\ c.kind \in {"deposit", "withdraw", "transfer"}
        /\ ~NothingToDo(c)
        /\ two => c.src # c.dst
        /\ ~two => c.dst = c.src
        /\ from \in Branches /\ to \in Branches
        /\ UpdatesBranch(c) <=> (two => from # to)
    <2>1. c \in CallSet
      BY <1>1 DEF TypeOK
    <2>2. c.kind \in {"deposit", "withdraw", "transfer"} /\ ~NothingToDo(c)
      BY <1>1 DEF Control, TakesEffect, TellerLabels, Middle, Moving
    <2>3. from \in Branches /\ to \in Branches
      BY <2>1 DEF CallSet, Accounts, GetBranchID
    <2> QED
      BY <2>1, <2>2, <2>3 DEF CallSet, NothingToDo, UpdatesBranch, IsSameBranch
  <1>3. LegBranch(c, 1) = from /\ LegBranch(c, 2) = to
    BY DEF LegBranch, LegAccount
  <1>4. /\ pc[w] = "writeAccount" /\ call' = call /\ branchBalance' = branchBalance
        /\ AtomicRead' = AtomicRead
        /\ AtomicOutcome[w] = "pending"
        /\ AtomicOutcome' = [AtomicOutcome EXCEPT ![w] = "success"]
    <2>1. pc[w] = "writeAccount"
      BY DEF TakesEffect
    <2>2. AtomicRead = [v \in Workers |-> AtomicRead[v]]
      BY DEF AtomicRead
    <2>3. AtomicRead'[w] = AtomicRead[w]
      BY <1>1, <2>1, MyRead
    <2>4. AtomicRead' = [AtomicRead EXCEPT ![w] = AtomicRead[w]]
      BY <2>3, OnlyMine
    <2>5. AtomicRead' = AtomicRead
      BY <2>2, <2>4
    <2>6. AtomicOutcome[w] = "pending" /\ AtomicOutcome'[w] = "success"
      BY <1>1, MyOutcome
    <2>7. call' = call /\ branchBalance' = branchBalance
      BY <2>1, OnlyMine, Effects
    <2> QED
      BY <2>1, <2>5, <2>6, <2>7, OnlyMine
  <1>5. /\ AtomicBalance' = [a \in Accounts |-> AtomicBalance'[a]]
        /\ \A a \in Accounts : AtomicBalance'[a] = AtomicBalance[a] + AccountGain(c, a)
        /\ AtomicBranchTotal' = [b \in Branches |-> AtomicBranchTotal'[b]]
        /\ \A b \in Branches : AtomicBranchTotal'[b] = AtomicBranchTotal[b] + BranchGain(c, b)
    <2>1. /\ AtomicBalance' = [a \in Accounts |-> AtomicBalance'[a]]
          /\ AtomicBranchTotal' = [b \in Branches |-> AtomicBranchTotal'[b]]
      BY DEF AtomicBalance, AtomicBranchTotal
    <2>2. \A a \in Accounts : AtomicBalance'[a] = AtomicBalance[a] + AccountGain(c, a)
      BY BalanceStep
    <2>3. \A b \in Branches : AtomicBranchTotal'[b] = AtomicBranchTotal[b] + BranchGain(c, b)
      BY BranchTotalStep
    <2> QED
      BY <2>1, <2>2, <2>3
  <1>6. UpdatesBranch(c) => AtomicBranchTotal[from] = branchBalance[from]
                            /\ AtomicBranchTotal[to] = branchBalance[to]
    BY <1>2, <1>3, BranchTotalStep
  <1>7. ChecksFunds(c) => c.amt <= AtomicBalance[c.src]
    <2>1. AtomicBalance[c.src] = balance[c.src]
      BY <1>2, BalanceStep
    <2> QED
      BY <1>1, <2>1 DEF Reserved, TakesEffect, HasFunds
  <1> DEFINE d == LegAmount(c, 1)
  <1>8. /\ d = IF c.kind = "deposit" THEN c.amt ELSE -c.amt
        /\ d \in Int
    BY <1>2 DEF LegAmount
  <1> HIDE DEF d
  <1>9. CASE ~two
    <2>1. AtomicBalance' = [AtomicBalance EXCEPT ![c.src] = @ + d]
      <3>1. \A a \in Accounts : AccountGain(c, a) = IF a = c.src THEN d ELSE 0
        BY <1>9 DEF AccountGain, d
      <3> QED
        BY <1>1, <1>2, <1>5, <1>8, <3>1, GainAt
    <2>2. AtomicBranchTotal' = [AtomicBranchTotal EXCEPT ![from] = @ + d]
      <3>1. \A b \in Branches : BranchGain(c, b) = IF b = from THEN d ELSE 0
        BY <1>2, <1>3, <1>9 DEF BranchGain, d
      <3> QED
        BY <1>1, <1>2, <1>5, <1>8, <3>1, GainAt
    <2>3. AtomicBranchTotal[from] = branchBalance[from]
      BY <1>2, <1>6, <1>9
    <2>4. CASE c.kind = "deposit"
      <3>1. d = c.amt
        BY <1>8, <2>4
      <3> QED
        BY <1>4, <2>1, <2>2, <2>3, <2>4, <3>1
           DEF Atomic!Deposit, Atomic!Settled, Atomic!Answer, Atomic!GetBranchID, GetBranchID
    <2>5. CASE c.kind = "withdraw"
      <3>1. /\ AtomicBalance' = [AtomicBalance EXCEPT ![c.src] = @ - c.amt]
            /\ AtomicBranchTotal' = [AtomicBranchTotal EXCEPT ![from] = @ - c.amt]
        <4>1. d = -c.amt
          BY <1>8, <2>5
        <4>2. \A x \in Int : x + d = x - c.amt
          BY <1>2, <4>1
        <4> QED
          BY <1>1, <1>2, <2>1, <2>2, <4>2
      <3>2. c.amt <= AtomicBalance[c.src]
        BY <1>7, <2>5 DEF ChecksFunds
      <3> QED
        BY <1>4, <2>3, <2>5, <3>1, <3>2
           DEF Atomic!Withdraw, Atomic!Settled, Atomic!Answer, Atomic!GetBranchID, GetBranchID
    <2> QED
      BY <1>2, <1>9, <2>4, <2>5
  <1>10. CASE two
    <2>1. /\ \A x \in Int : x + d = x - c.amt
          /\ c.src # c.dst
      BY <1>2, <1>8, <1>10
    <2>2. AtomicBalance' = [AtomicBalance EXCEPT ![c.src] = @ - c.amt, ![c.dst] = @ + c.amt]
      <3>1. \A a \in Accounts : AccountGain(c, a) =
               IF a = c.src THEN -c.amt ELSE IF a = c.dst THEN c.amt ELSE 0
        BY <1>8, <1>10 DEF AccountGain, d
      <3> QED
        BY <1>1, <1>2, <1>5, <2>1, <3>1, MoveAt
    <2>3. c.amt <= AtomicBalance[c.src]
      BY <1>7, <1>10 DEF ChecksFunds
    <2>4. CASE from = to
      <3>1. AtomicBranchTotal' = AtomicBranchTotal
        <4>1. \A b \in Branches : BranchGain(c, b) = 0
          BY <1>2, <1>10, <2>4 DEF BranchGain
        <4> QED
          BY <1>1, <1>5, <4>1
      <3> QED
        BY <1>4, <1>10, <2>1, <2>2, <2>3, <2>4, <3>1
           DEF Atomic!Transfer, Atomic!Answer, Atomic!GetBranchID, GetBranchID
    <2>5. CASE from # to
      <3>1. AtomicBranchTotal' = [AtomicBranchTotal EXCEPT ![from] = @ - c.amt, ![to] = @ + c.amt]
        <4>1. \A b \in Branches : BranchGain(c, b) =
                 IF b = from THEN -c.amt ELSE IF b = to THEN c.amt ELSE 0
          BY <1>2, <1>3, <1>8, <1>10, <2>5 DEF BranchGain, d
        <4> QED
          BY <1>1, <1>2, <1>5, <2>5, <4>1, MoveAt
      <3>2. AtomicBranchTotal[from] = branchBalance[from] /\ AtomicBranchTotal[to] = branchBalance[to]
        BY <1>2, <1>6, <2>5
      <3> QED
        BY <1>4, <1>10, <2>1, <2>2, <2>3, <2>5, <3>1, <3>2
           DEF Atomic!Transfer, Atomic!Settled, Atomic!Answer, Atomic!GetBranchID, GetBranchID
    <2> QED
      BY <2>4, <2>5
  <1> QED
    BY <1>9, <1>10

\* A step at a label at which nothing is seen to happen.
LEMMA UnseenStep ==
    ASSUME TellerInv, TellerInv', NEW w \in Workers, Step(w),
           ~TakesEffect(w), pc[w] \notin {"return", "writeBranch", "branchBalance"},
           pc[w] = "idle" => pc'[w] = "done",
           pc[w] = "checkFunds" => pc'[w] \notin {"unlockBranch", "unlockAccount"},
           pc[w] = "lockAll" => pc'[w] = "lockAll"
    PROVE  UNCHANGED Atomic!vars
  <1>1. /\ TypeOK /\ Control(w) /\ Control(w)' /\ pc[w] \in Labels
        /\ pc[w] = "writeAccount" => ix[w] \in {1, 2}
    BY RoundTypes DEF TellerInv, TypeOK, TellerLabels, Middle, Moving
  <1>2. AtomicBalance' = AtomicBalance /\ AtomicBranchTotal' = AtomicBranchTotal
    BY NothingMoves
  <1>3. branchBalance' = branchBalance
    BY Effects
  <1>4. AtomicRead' = AtomicRead
    <2>1. AtomicRead'[w] = AtomicRead[w]
      BY <1>1, MyRead
    <2>2. AtomicRead = [v \in Workers |-> AtomicRead[v]]
      BY DEF AtomicRead
    <2>3. AtomicRead' = [AtomicRead EXCEPT ![w] = AtomicRead[w]]
      BY <2>1, OnlyMine
    <2> QED
      BY <2>2, <2>3
  <1>5. AtomicOutcome' = AtomicOutcome
    <2>1. AtomicOutcome'[w] = AtomicOutcome[w]
      <3>1. \/ pc[w] = "idle" /\ pc'[w] = "done"
            \/ pc[w] \in {"lockAccount", "lockBranch", "readAccount", "readBranch",
                          "unlockBranch", "unlockAccount", "sum", "unlockAll"}
            \/ pc[w] = "checkFunds" /\ pc'[w] \notin {"unlockBranch", "unlockAccount"}
            \/ pc[w] = "writeAccount" /\ ix[w] = 2
            \/ pc[w] = "lockAll" /\ pc'[w] = "lockAll"
        <4>1. pc[w] # "done"
          BY <1>1, Flow
        <4> QED
          BY <1>1, <4>1 DEF Labels, TakesEffect
      <3> QED
        BY <1>1, <3>1, MyOutcome
    <2>2. AtomicOutcome = [v \in Workers |-> AtomicOutcome[v]]
      BY DEF AtomicOutcome
    <2>3. AtomicOutcome' = [AtomicOutcome EXCEPT ![w] = AtomicOutcome[w]]
      BY <2>1, OnlyMine
    <2> QED
      BY <2>2, <2>3
  <1>6. call' = call
    <2>1. CASE pc[w] = "idle"
      <3>1. Done(w)
        <4>1. Done(w) \/ \E c \in Calls : GetNext(w, c)
          BY <2>1 DEF Step, ReturnAtOnce, LockAccount, LockBranch, FundsSuffice,
             FundsInsufficient, ReadAccount, WriteAccount, ReadBranch, WriteBranch, UnlockBranch,
             UnlockAccount, ReadBranchBalance, LockNextBranch, AddNextBranch, UnlockNextBranch
        <4>2. ASSUME NEW c \in Calls, GetNext(w, c) PROVE FALSE
          <5>1. pc'[w] = Entry(c)[1]
            BY <1>1, <4>2, GoToValue DEF GetNext
          <5> QED
            BY <2>1, <5>1 DEF Entry
        <4> QED
          BY <4>1, <4>2
      <3> QED
        BY <3>1 DEF Done, job
    <2>2. CASE pc[w] # "idle"
      BY <2>2, OnlyMine
    <2> QED
      BY <2>1, <2>2
  <1> QED
    BY <1>2, <1>3, <1>4, <1>5, <1>6 DEF Atomic!vars

\* Every step of a worker is a step of the atomic bank, or changes nothing there.
LEMMA WorkerStep ==
    ASSUME TellerInv, TellerInv', NEW w \in Workers, Step(w)
    PROVE  Atomic!Next \/ UNCHANGED Atomic!vars
  <1> DEFINE c == call[w]
             b == GetBranchID(c.src)
  <1>1. /\ TypeOK /\ Control(w) /\ Control(w)' /\ pc[w] \in Labels
        /\ c \in CallSet /\ b \in Branches
    BY DEF TellerInv, TypeOK, CallSet, Accounts, GetBranchID
  <1>r. pc[w] # "branchBalance" /\ ~(pc[w] = "lockAll" /\ pc'[w] = "sum")
           => AtomicRead' = AtomicRead
    <2>1. AtomicRead = [v \in Workers |-> AtomicRead[v]]
      BY DEF AtomicRead
    <2> QED
      BY <1>1, <2>1, MyRead, OnlyMine
  <1>a. ~TakesEffect(w) => AtomicBalance' = AtomicBalance /\ AtomicBranchTotal' = AtomicBranchTotal
    BY NothingMoves
  <1>v. pc[w] # "writeBranch" => branchBalance' = branchBalance
    BY Effects
  <1>c. pc[w] # "idle" => call' = call
    BY OnlyMine
  <1>2. CASE TakesEffect(w)
    BY <1>2, EffectStep DEF Atomic!Next
  <1>3. CASE pc[w] = "idle" /\ pc'[w] # "done"
    <2>1. PICK d \in Calls : GetNext(w, d)
      <3>1. ~Done(w)
        BY <1>1, <1>3, GoToValue DEF Done
      <3> QED
        BY <1>3, <3>1 DEF Step, ReturnAtOnce, LockAccount, LockBranch, FundsSuffice,
           FundsInsufficient, ReadAccount, WriteAccount, ReadBranch, WriteBranch, UnlockBranch,
           UnlockAccount, ReadBranchBalance, LockNextBranch, AddNextBranch, UnlockNextBranch
    <2>2. /\ call' = [call EXCEPT ![w] = d]
          /\ AtomicOutcome[w] # "pending"
          /\ AtomicOutcome' = [AtomicOutcome EXCEPT ![w] = "pending"]
      <3>1. AtomicOutcome[w] # "pending" /\ AtomicOutcome'[w] = "pending"
        BY <1>1, <1>3, MyOutcome
      <3> QED
        BY <2>1, <3>1, OnlyMine DEF GetNext
    <2>3. Atomic!Request(w, d)
      BY <1>3, <1>r, <1>a, <1>v, <2>2 DEF Atomic!Request, TakesEffect
    <2> QED
      BY <2>3 DEF Atomic!Next
  <1>4. CASE pc[w] = "return"
    <2>1. NothingToDo(c)
      BY <1>1, <1>4 DEF Control
    <2>2. AtomicOutcome[w] = "pending" /\ AtomicOutcome' = [AtomicOutcome EXCEPT ![w] = "success"]
      BY <1>1, <1>4, MyOutcome, OnlyMine
    <2>3. Atomic!Nothing(w)
      BY <1>4, <1>r, <1>a, <1>v, <1>c, <2>1, <2>2
         DEF Atomic!Nothing, Atomic!Answer, Atomic!NothingToDo, NothingToDo, TakesEffect
    <2> QED
      BY <2>3 DEF Atomic!Next
  <1>5. CASE pc[w] = "checkFunds" /\ pc'[w] \in {"unlockBranch", "unlockAccount"}
    <2>1. FundsInsufficient(w)
      <3>1. ~FundsSuffice(w)
        BY <1>1, <1>5, GoToValue DEF FundsSuffice
      <3> QED
        BY <1>5, <3>1 DEF Step, GetNext, Done, ReturnAtOnce, LockAccount, LockBranch,
           ReadAccount, WriteAccount, ReadBranch, WriteBranch, UnlockBranch,
           UnlockAccount, ReadBranchBalance, LockNextBranch, AddNextBranch, UnlockNextBranch
    <2>2. ChecksFunds(c) /\ ~NothingToDo(c)
      BY <1>1, <1>5 DEF Control, TellerLabels, Middle
    <2>3. c.amt > AtomicBalance[c.src]
      <3>1. c.src \in Accounts /\ c.amt \in Int /\ balance[c.src] \in Int
        BY <1>1 DEF CallSet, TypeOK
      <3>2. AtomicBalance[c.src] = balance[c.src]
        BY <1>5, <3>1, BalanceStep
      <3>3. ~(c.amt <= balance[c.src])
        BY <2>1 DEF FundsInsufficient, HasFunds
      <3> QED
        BY <3>1, <3>2, <3>3
    <2>4. /\ AtomicOutcome[w] = "pending"
          /\ AtomicOutcome' = [AtomicOutcome EXCEPT ![w] = "insufficient"]
      BY <1>1, <1>5, MyOutcome, OnlyMine
    <2>5. Atomic!Refuse(w)
      BY <1>5, <1>r, <1>a, <1>v, <1>c, <2>2, <2>3, <2>4
         DEF Atomic!Refuse, Atomic!Answer, Atomic!NothingToDo, NothingToDo,
             Atomic!ChecksFunds, ChecksFunds, TakesEffect
    <2> QED
      BY <2>5 DEF Atomic!Next
  <1>6. CASE pc[w] = "writeBranch"
    <2> DEFINE x == LegBranch(c, ix[w])
    <2>1. ix[w] \in {1, 2} /\ x \in Branches
      BY <1>1, <1>6, RoundTypes, LegTypes DEF TellerLabels, Middle, Moving
    <2>2. branchBalance' = [branchBalance EXCEPT ![x] = AtomicBranchTotal[x]]
      <3>1. branchBalance'[x] = AtomicBranchTotal[x]
        BY <1>6, <2>1, BranchTotalStep
      <3>2. branchBalance' = [branchBalance EXCEPT ![x] = reg[w] + LegAmount(c, ix[w])]
        BY <1>6, Effects
      <3>3. branchBalance \in [Branches -> Int]
        BY <1>1 DEF TypeOK
      <3> QED
        BY <2>1, <3>1, <3>2, <3>3
    <2>3. AtomicOutcome' = AtomicOutcome
      <3>1. AtomicOutcome = [v \in Workers |-> AtomicOutcome[v]]
        BY DEF AtomicOutcome
      <3>2. AtomicOutcome'[w] = AtomicOutcome[w]
        BY <1>1, <1>6, MyOutcome
      <3> QED
        BY <3>1, <3>2, OnlyMine
    <2>4. Atomic!Publish(x)
      BY <1>6, <1>r, <1>a, <1>c, <2>2, <2>3 DEF Atomic!Publish, TakesEffect
    <2>5. \E y \in Branches : Atomic!Publish(y)
      BY <2>1, <2>4
    <2> QED
      BY <2>5 DEF Atomic!Next, Atomic!Branches, Branches
  <1>7. CASE pc[w] = "branchBalance"
    <2>1. c.kind = "branchBalance"
      BY <1>1, <1>7 DEF Control
    <2>2. AtomicOutcome[w] = "pending" /\ AtomicOutcome' = [AtomicOutcome EXCEPT ![w] = "success"]
      BY <1>1, <1>7, MyOutcome, OnlyMine
    <2>3. AtomicRead' = [AtomicRead EXCEPT ![w][b] = branchBalance[b]]
      <3>1. AtomicRead'[w] = [AtomicRead[w] EXCEPT ![b] = branchBalance[b]]
        BY <1>1, <1>7, MyRead
      <3> QED
        BY <3>1, OnlyMine
    <2>4. Atomic!BranchBalance(w)
      BY <1>7, <1>a, <1>v, <1>c, <2>1, <2>2, <2>3
         DEF Atomic!BranchBalance, Atomic!Answer, Atomic!GetBranchID, GetBranchID, TakesEffect
    <2> QED
      BY <2>4 DEF Atomic!Next
  <1>8. CASE pc[w] = "lockAll" /\ pc'[w] = "sum"
    <2>1. c.kind = "bankBalance"
      BY <1>1, <1>8 DEF Control
    <2>2. AtomicOutcome[w] = "pending" /\ AtomicOutcome' = [AtomicOutcome EXCEPT ![w] = "success"]
      BY <1>1, <1>8, MyOutcome, OnlyMine
    <2>3. \A y \in Branches : branchBalance[y] = AtomicBranchTotal[y]
      BY <1>8, BranchTotalStep
    <2>4. AtomicRead' = [AtomicRead EXCEPT ![w] = AtomicBranchTotal]
      <3>1. branchBalance \in [Branches -> Int] /\ AtomicBranchTotal \in [Branches -> Int]
        BY <1>1, SeenTypes DEF TypeOK
      <3>2. branchBalance = AtomicBranchTotal
        BY <2>3, <3>1
      <3>3. AtomicRead'[w] = branchBalance
        BY <1>1, <1>8, MyRead
      <3> QED
        BY <3>2, <3>3, OnlyMine
    <2>5. Atomic!BankBalance(w)
      BY <1>8, <1>a, <1>v, <1>c, <2>1, <2>2, <2>3, <2>4
         DEF Atomic!BankBalance, Atomic!Answer, Atomic!Settled, Atomic!Branches, Branches,
             TakesEffect
    <2> QED
      BY <2>5 DEF Atomic!Next
  <1>9. CASE /\ ~TakesEffect(w) /\ pc[w] \notin {"return", "writeBranch", "branchBalance"}
             /\ pc[w] = "idle" => pc'[w] = "done"
             /\ pc[w] = "checkFunds" => pc'[w] \notin {"unlockBranch", "unlockAccount"}
             /\ pc[w] = "lockAll" => pc'[w] # "sum"
    <2>1. pc[w] = "lockAll" => pc'[w] = "lockAll"
      BY <1>1, <1>9, Flow
    <2> QED
      BY <1>9, <2>1, UnseenStep
  <1> QED
    BY <1>2, <1>3, <1>4, <1>5, <1>6, <1>7, <1>8, <1>9

\* The bank opens as the atomic bank does.
LEMMA AtomicInit == Init => Atomic!Init
  <1> SUFFICES ASSUME Init PROVE Atomic!Init
    OBVIOUS
  <1>1. \A w \in Workers : pc[w] = "idle" /\ ~TookEffect(w)
    BY DEF Init, TookEffect
  <1>2. \A a \in Accounts : PendingAccount(a) = 0
    BY DEF Init, PendingAccount
  <1>3. \A b \in Branches : PendingBranch(b) = 0
    BY DEF Init, PendingBranch
  <1>4. AtomicBalance = [a \in Accounts |-> OpeningBalance(a)]
    BY <1>2, OpeningTypes DEF AtomicBalance, Init
  <1>5. AtomicBranchTotal = [b \in Branches |-> OpeningBranchBalance]
    BY <1>3, OpeningTypes DEF AtomicBranchTotal, Init
  <1>6. AtomicRead = [w \in Workers |-> [b \in Branches |-> 0]]
    BY <1>1 DEF AtomicRead, Init
  <1>7. AtomicOutcome = [w \in Workers |-> "success"]
    BY <1>1 DEF AtomicOutcome, Init
  <1>8. /\ \A a \in Accounts : Atomic!OpeningBalance(a) = OpeningBalance(a)
        /\ Atomic!OpeningBranchBalance = OpeningBranchBalance
        /\ Atomic!NoCall = NoCall
        /\ Atomic!Accounts = Accounts /\ Atomic!Branches = Branches
    BY DEF Atomic!OpeningBalance, OpeningBalance, Atomic!OpeningBranchBalance,
       OpeningBranchBalance, Atomic!NoCall, NoCall, Atomic!Accounts, Accounts,
       Atomic!Branches, Branches, Atomic!Subaccount, Subaccount
  <1> QED
    BY <1>4, <1>5, <1>6, <1>7, <1>8 DEF Init, Atomic!Init

\* A step of the bank is a step of the atomic bank, or changes nothing there.
LEMMA AtomicStep == TellerInv /\ TellerInv' /\ [Next]_vars => [Atomic!Next]_Atomic!vars
  <1> SUFFICES ASSUME TellerInv, TellerInv', [Next]_vars
               PROVE  Atomic!Next \/ UNCHANGED Atomic!vars
    OBVIOUS
  <1>1. CASE UNCHANGED vars \/ Finished
    <2>1. UNCHANGED <<balance, branchBalance, acctLock, branchLock, pc, ix, call, read, outcome>>
      BY <1>1 DEF Finished, vars
    <2>2. AtomicBalance' = AtomicBalance
      BY <2>1 DEF AtomicBalance, PendingAccount, OwesAccount
    <2>3. AtomicBranchTotal' = AtomicBranchTotal
      BY <2>1 DEF AtomicBranchTotal, PendingBranch, OwesBranch
    <2>4. AtomicRead' = AtomicRead /\ AtomicOutcome' = AtomicOutcome
      BY <2>1 DEF AtomicRead, AtomicOutcome, TookEffect
    <2> QED
      BY <2>1, <2>2, <2>3, <2>4 DEF Atomic!vars
  <1>2. ASSUME NEW w \in Workers, Step(w) PROVE Atomic!Next \/ UNCHANGED Atomic!vars
    BY <1>2, WorkerStep
  <1> QED
    BY <1>1, <1>2 DEF Next

\* Every command of the workers is atomic, however they interleave: every
\* execution is one of the atomic bank, in which a command takes effect at one
\* moment between its request and its answer.
THEOREM TellerIsAtomic == Spec => CommandsAreAtomic
  <1>1. TellerInv /\ TellerInv' /\ [Next]_vars => [Atomic!Next]_Atomic!vars
    BY AtomicStep
  <1>2. Init => Atomic!Init
    BY AtomicInit
  <1>3. Spec => [][Next]_vars /\ Init
    BY DEF Spec
  <1> QED
    BY <1>1, <1>2, <1>3, TellerInvariant, PTL DEF CommandsAreAtomic, Atomic!Spec

-----------------------------------------------------------------------------
(***************************************************************************)
(* The books.  Seen through the mapping, the balance of a branch is the    *)
(* sum of its accounts in every state: a command takes effect on both at   *)
(* once.  What the code shows differs from it only where a lock is held.   *)
(***************************************************************************)
\* The accounts of a branch are finitely many.
LEMMA FiniteBank ==
    /\ IsFiniteSet(Branches) /\ Cardinality(Branches) = NumBranches
    /\ \A b \in Branches : IsFiniteSet(AccountsOf(b))
  <1>1. /\ IsFiniteSet(0 .. (NumBranches - 1))
        /\ Cardinality(0 .. (NumBranches - 1)) = NumBranches
        /\ IsFiniteSet(0 .. (AcctsPerBranch - 1))
    BY BankAssumption, FS_Interval
  <1>2. IsFiniteSet(Accounts)
    BY <1>1, FS_Product DEF Accounts, Branches
  <1>3. \A b \in Branches : AccountsOf(b) \subseteq Accounts
    BY DEF AccountsOf
  <1> QED
    BY <1>1, <1>2, <1>3, FS_Subset DEF Branches

\* The closed form that Branch_Init uses is the sum of the opening balances.
LEMMA OpeningBooks ==
    ASSUME NEW b \in Branches, NEW f, \A a \in Accounts : f[a] = OpeningBalance(a)
    PROVE  SumFunctionOnSet(f, AccountsOf(b)) = OpeningBranchBalance
  <1> DEFINE n == AcctsPerBranch
             k == Fourths(n)
             low == IF TestFailureCode THEN -1 ELSE InitialAmount
  <1>1. n \in Nat /\ InitialAmount \in Nat /\ low \in Int /\ k \in Int
    BY BankAssumption DEF Fourths
  <1>2. AccountsOf(b) = {b} \X (0 .. (n - 1))
    BY DEF AccountsOf, Accounts, GetBranchID
  <1>3. ASSUME NEW i \in 0 .. (n - 1)
        PROVE  f[<<b, i>>] = IF i % 4 = 0 THEN low ELSE InitialAmount
    <2>1. <<b, i>> \in Accounts /\ Subaccount(<<b, i>>) = i
      BY DEF Accounts, Subaccount
    <2> QED
      BY <2>1 DEF OpeningBalance
  <1>4. SumFunctionOnSet(f, AccountsOf(b)) = (n - k) * InitialAmount + k * low
    <2>1. IsRow(f, b, n, low, InitialAmount)
      BY <1>3 DEF IsRow
    <2>2. InitialAmount \in Int
      BY <1>1
    <2> HIDE DEF low, n
    <2>3. SumFunctionOnSet(f, {b} \X (0 .. (n - 1))) = RowSum(n, low, InitialAmount)
      BY <1>1, <2>1, <2>2, SumOfRow
    <2> QED
      BY <1>2, <2>3 DEF RowSum
  <1>5. CASE TestFailureCode
    <2>1. OpeningBranchBalance = (n - k) * InitialAmount - k
      BY <1>5 DEF OpeningBranchBalance, Fourths
    <2>2. low = -1
      BY <1>5
    <2>3. (n - k) * InitialAmount \in Int
      BY <1>1
    <2> HIDE DEF k, low, n
    <2>4. k * low = -k
      BY <1>1, <2>2
    <2> QED
      BY <1>1, <1>4, <2>1, <2>3, <2>4
  <1>6. CASE ~TestFailureCode
    <2>1. OpeningBranchBalance = (n - 0) * InitialAmount - 0
      BY <1>6 DEF OpeningBranchBalance
    <2>2. low = InitialAmount
      BY <1>6
    <2> HIDE DEF k, low, n
    <2>3. (n - k) * InitialAmount + k * InitialAmount = n * InitialAmount
      BY <1>1
    <2> QED
      BY <1>1, <1>4, <2>1, <2>2, <2>3
  <1> QED
    BY <1>5, <1>6

BooksInv ==
    \A b \in Branches : SumFunctionOnSet(AtomicBalance, AccountsOf(b)) = AtomicBranchTotal[b]

\* The books of the atomic bank balance when it opens.
LEMMA BooksInit == Init => BooksInv
  <1> SUFFICES ASSUME Init, NEW b \in Branches
               PROVE  SumFunctionOnSet(AtomicBalance, AccountsOf(b)) = AtomicBranchTotal[b]
    BY DEF BooksInv
  <1>1. \A a \in Accounts : AtomicBalance[a] = OpeningBalance(a)
    BY OpeningTypes DEF Init, AtomicBalance, PendingAccount
  <1>2. AtomicBranchTotal[b] = OpeningBranchBalance
    BY OpeningTypes DEF Init, AtomicBranchTotal, PendingBranch
  <1> HIDE DEF Init
  <1> QED
    BY <1>1, <1>2, OpeningBooks

\* A command that takes effect keeps them in balance.
LEMMA BooksStep ==
    ASSUME TellerInv, TellerInv', BooksInv, NEW w \in Workers, Step(w)
    PROVE  BooksInv'
  <1> SUFFICES ASSUME NEW b \in Branches
               PROVE  SumFunctionOnSet(AtomicBalance', AccountsOf(b)) = AtomicBranchTotal'[b]
    BY DEF BooksInv
  <1>1. /\ SumFunctionOnSet(AtomicBalance, AccountsOf(b)) = AtomicBranchTotal[b]
        /\ AtomicBalance \in [Accounts -> Int] /\ AtomicBranchTotal[b] \in Int
    BY SeenTypes DEF BooksInv
  <1>2. CASE ~TakesEffect(w)
    BY <1>1, <1>2, NothingMoves
  <1>3. CASE TakesEffect(w)
    <2> DEFINE c == call[w]
               S == AccountsOf(b)
               two == c.kind = "transfer"
               d == LegAmount(c, 1)
               h == [a \in Accounts |-> IF a = c.src THEN AtomicBalance[a] + d ELSE AtomicBalance[a]]
               e == IF two THEN c.amt ELSE 0
    <2>1. /\ c \in CallSet /\ c.src \in Accounts /\ c.dst \in Accounts /\ c.amt \in Nat
          /\ ~NothingToDo(c) /\ d \in Int /\ e \in Int
          /\ ~two => c.dst = c.src
          /\ two => c.src # c.dst /\ d = -c.amt
          /\ UpdatesBranch(c) <=> (two => GetBranchID(c.src) # GetBranchID(c.dst))
          /\ LegBranch(c, 1) = GetBranchID(c.src) /\ LegBranch(c, 2) = GetBranchID(c.dst)
      <3>1. c \in CallSet /\ Control(w)
        BY DEF TellerInv, TypeOK
      <3>2. c.kind \in {"deposit", "withdraw", "transfer"} /\ ~NothingToDo(c)
        BY <1>3, <3>1 DEF Control, TakesEffect, TellerLabels, Middle, Moving
      <3> QED
        BY <3>1, <3>2, LegTypes
           DEF CallSet, NothingToDo, UpdatesBranch, IsSameBranch, LegBranch, LegAccount, LegAmount
    <2>2. \A a \in Accounts : AtomicBalance'[a] = AtomicBalance[a] + AccountGain(c, a)
      BY <1>3, BalanceStep
    <2>3. AtomicBranchTotal'[b] = AtomicBranchTotal[b] + BranchGain(c, b)
      BY <1>3, BranchTotalStep
    <2>4. S \subseteq Accounts /\ IsFiniteSet(S)
      BY FiniteBank DEF AccountsOf
    <2>5. \A a \in S : AtomicBalance[a] \in Int
      BY <1>1, <2>4
    <2>h. \A a \in S : h[a] = IF a = c.src THEN AtomicBalance[a] + d ELSE AtomicBalance[a]
      BY <2>4
    <2>6. Gains(AtomicBalance, h, S, c.src, d)
      BY <2>h DEF Gains
    <2>7. \A a \in S : h[a] \in Int
      BY <2>1, <2>5, <2>h
    <2>8. Gains(h, AtomicBalance', S, c.dst, e)
      <3>1. \A a \in S : AtomicBalance'[a] = IF a = c.dst THEN h[a] + e ELSE h[a]
        BY <2>1, <2>2, <2>4, <2>5, <2>h DEF AccountGain
      <3> QED
        BY <3>1 DEF Gains
    <2> HIDE DEF h, S, d, e
    <2>9. SumFunctionOnSet(h, S) =
             SumFunctionOnSet(AtomicBalance, S) + (IF c.src \in S THEN d ELSE 0)
      BY <2>1, <2>4, <2>5, <2>6, SumChange
    <2>10. SumFunctionOnSet(AtomicBalance', S) =
              SumFunctionOnSet(h, S) + (IF c.dst \in S THEN e ELSE 0)
      BY <2>1, <2>4, <2>7, <2>8, SumChange
    <2>11. /\ c.src \in S <=> b = GetBranchID(c.src)
           /\ c.dst \in S <=> b = GetBranchID(c.dst)
      BY <2>1 DEF S, AccountsOf
    <2>12. BranchGain(c, b) = (IF c.src \in S THEN d ELSE 0) + (IF c.dst \in S THEN e ELSE 0)
      <3>1. CASE two
        BY <2>1, <2>11, <3>1 DEF BranchGain, d, e
      <3>2. CASE ~two
        BY <2>1, <2>11, <3>2 DEF BranchGain, d, e
      <3> QED
        BY <3>1, <3>2
    <2>13. SumFunctionOnSet(AtomicBalance, S) = AtomicBranchTotal[b]
      BY <1>1 DEF S
    <2>14. SumFunctionOnSet(AtomicBalance', S) = AtomicBranchTotal'[b]
      BY <1>1, <2>1, <2>3, <2>9, <2>10, <2>12, <2>13
    <2> QED
      BY <2>14 DEF S
  <1> QED
    BY <1>2, <1>3

\* Where no lock is held, nothing is pending.
LEMMA BooksShown == TellerInv /\ BooksInv => BooksBalance
  <1> SUFFICES ASSUME BooksInv, NEW b \in Branches, TellerInv,
                      branchLock[b] = NoOwner, \A a \in AccountsOf(b) : acctLock[a] = NoOwner
               PROVE  branchBalance[b] = SumFunctionOnSet(balance, AccountsOf(b))
    BY DEF BooksBalance
  <1>1. AccountsOf(b) \subseteq Accounts /\ IsFiniteSet(AccountsOf(b))
    BY FiniteBank DEF AccountsOf
  <1>2. \A a \in AccountsOf(b) : AtomicBalance[a] = balance[a]
    BY <1>1 DEF AtomicBalance, PendingAccount, TellerInv, TypeOK
  <1>3. AtomicBranchTotal[b] = branchBalance[b]
    BY DEF AtomicBranchTotal, PendingBranch, TellerInv, TypeOK
  <1>4. SumFunctionOnSet(AtomicBalance, AccountsOf(b)) = SumFunctionOnSet(balance, AccountsOf(b))
    BY <1>1, <1>2, SumSame
  <1> QED
    BY <1>3, <1>4 DEF BooksInv

\* A step that changes nothing leaves the view alone.
LEMMA ViewStutter ==
    UNCHANGED vars \/ Finished =>
       UNCHANGED <<AtomicBalance, AtomicBranchTotal, AtomicRead, AtomicOutcome, call, cmdCount>>
  <1> SUFFICES ASSUME UNCHANGED vars \/ Finished
               PROVE  UNCHANGED <<AtomicBalance, AtomicBranchTotal, AtomicRead, AtomicOutcome,
                                  call, cmdCount>>
    OBVIOUS
  <1>1. UNCHANGED <<balance, branchBalance, acctLock, branchLock, pc, ix, call, cmdCount,
                    read, outcome>>
    BY DEF Finished, vars
  <1>2. AtomicBalance' = AtomicBalance
    BY <1>1 DEF AtomicBalance, PendingAccount, OwesAccount
  <1>3. AtomicBranchTotal' = AtomicBranchTotal
    BY <1>1 DEF AtomicBranchTotal, PendingBranch, OwesBranch
  <1>4. AtomicRead' = AtomicRead /\ AtomicOutcome' = AtomicOutcome
    BY <1>1 DEF AtomicRead, AtomicOutcome, TookEffect
  <1> QED
    BY <1>1, <1>2, <1>3, <1>4

\* No commands lose or duplicate money: the balance of a branch that no command
\* is working on is the sum of the balances of its accounts.
THEOREM BranchesAreInBalance == Spec => []BooksBalance
  <1>1. TellerInv /\ TellerInv' /\ BooksInv /\ [Next]_vars => BooksInv'
    <2> SUFFICES ASSUME TellerInv, TellerInv', BooksInv, [Next]_vars PROVE BooksInv'
      OBVIOUS
    <2>1. CASE UNCHANGED vars \/ Finished
      BY <2>1, ViewStutter DEF BooksInv
    <2>2. ASSUME NEW w \in Workers, Step(w) PROVE BooksInv'
      BY <2>2, BooksStep
    <2> QED
      BY <2>1, <2>2 DEF Next
  <1> QED
    BY <1>1, BooksInit, BooksShown, TellerInvariant, PTL DEF Spec

-----------------------------------------------------------------------------
(***************************************************************************)
(* The balance of the bank, when no funds flow in or out                   *)
(***************************************************************************)
Opening == NumBranches * OpeningBranchBalance

\* What worker w has been told is an answer to a bank balance query.
Answered(w) ==
    /\ cmdCount[w] < MaxCommands
    /\ call[w].kind = "bankBalance"
    /\ AtomicOutcome[w] = "success"

\* Seen through the mapping, the bank holds its opening balance in every state;
\* so does every answer, from the moment at which it is determined.
FixedInv ==
    /\ \A w \in Workers : call[w] \in Calls \cup {NoCall}
    /\ \A w \in Workers : AtomicOutcome[w] = "insufficient" => ChecksFunds(call[w])
    /\ SumFunctionOnSet(AtomicBranchTotal, Branches) = Opening
    /\ \A w \in Workers : Answered(w) => SumFunctionOnSet(AtomicRead[w], Branches) = Opening

\* The branches open with the same balance each.
LEMMA FixedInit == Init => FixedInv
  <1> SUFFICES ASSUME Init PROVE FixedInv
    OBVIOUS
  <1>1. \A b \in Branches : AtomicBranchTotal[b] = OpeningBranchBalance
    BY OpeningTypes DEF Init, AtomicBranchTotal, PendingBranch
  <1>2. \A w \in Workers : /\ call[w] = NoCall
                           /\ AtomicOutcome[w] = "success"
                           /\ ~(cmdCount[w] < MaxCommands)
    <2> TAKE w \in Workers
    <2>1. call[w] = NoCall /\ pc[w] = "idle" /\ cmdCount[w] = MaxCommands
      BY DEF Init
    <2>2. AtomicOutcome[w] = "success"
      BY <2>1 DEF Init, AtomicOutcome, TookEffect
    <2>3. ~(cmdCount[w] < MaxCommands)
      BY <2>1, TellerAssumption
    <2> QED
      BY <2>1, <2>2, <2>3
  <1> HIDE DEF Init
  <1>3. SumFunctionOnSet(AtomicBranchTotal, Branches) = Opening
    BY <1>1, FiniteBank, OpeningTypes, SumConstant DEF Opening
  <1> QED
    BY <1>2, <1>3 DEF FixedInv, Answered

\* Only a transfer takes effect, and it moves between branches what it takes.
LEMMA TotalStep ==
    ASSUME NoFundsFlow, TellerInv, TellerInv', FixedInv, NEW w \in Workers, Step(w)
    PROVE  SumFunctionOnSet(AtomicBranchTotal', Branches) = Opening
  <1>1. /\ SumFunctionOnSet(AtomicBranchTotal, Branches) = Opening
        /\ AtomicBranchTotal \in [Branches -> Int]
        /\ IsFiniteSet(Branches)
    BY SeenTypes, FiniteBank DEF FixedInv
  <1>2. CASE ~TakesEffect(w)
    BY <1>1, <1>2, NothingMoves
  <1>3. CASE TakesEffect(w)
    <2> DEFINE c == call[w]
               from == LegBranch(c, 1)
               to == LegBranch(c, 2)
               taken == -c.amt
               h == [b \in Branches |-> IF b = from THEN AtomicBranchTotal[b] + taken
                                        ELSE AtomicBranchTotal[b]]
    <2>1. /\ c \in CallSet /\ c.amt \in Nat /\ from \in Branches /\ to \in Branches
          /\ c.kind \in {"deposit", "withdraw", "transfer"} /\ ~NothingToDo(c)
      <3>1. c \in CallSet /\ Control(w)
        BY DEF TellerInv, TypeOK
      <3>2. c.kind \in {"deposit", "withdraw", "transfer"} /\ ~NothingToDo(c)
        BY <1>3, <3>1 DEF Control, TakesEffect, TellerLabels, Middle, Moving
      <3> QED
        BY <3>1, <3>2, LegTypes DEF CallSet
    <2>2. c.kind = "transfer"
      <3>1. c \in Calls
        BY <2>1 DEF FixedInv, NoCall
      <3> QED
        BY <2>1, <3>1 DEF NoFundsFlow, NothingToDo
    <2>3. LegAmount(c, 1) = -c.amt
      BY <2>2 DEF LegAmount
    <2>4. \A b \in Branches : AtomicBranchTotal'[b] = AtomicBranchTotal[b] + BranchGain(c, b)
      BY <1>3, BranchTotalStep
    <2>5. CASE ~UpdatesBranch(c)
      <3>1. \A b \in Branches : AtomicBranchTotal'[b] = AtomicBranchTotal[b]
        BY <1>1, <2>4, <2>5 DEF BranchGain
      <3> QED
        BY <1>1, <3>1, SumSame
    <2>6. CASE UpdatesBranch(c)
      <3>1. from # to
        BY <2>1, <2>2, <2>6, BranchLockOrder
      <3>2. Gains(AtomicBranchTotal, h, Branches, from, taken)
        BY DEF Gains
      <3>3. \A b \in Branches : h[b] \in Int
        BY <1>1, <2>1
      <3>4. Gains(h, AtomicBranchTotal', Branches, to, c.amt)
        <4>1. \A b \in Branches : BranchGain(c, b) =
                 IF b = from THEN -c.amt ELSE IF b = to THEN c.amt ELSE 0
          BY <2>2, <2>3, <2>6 DEF BranchGain
        <4> HIDE DEF from, to
        <4>2. ASSUME NEW b \in Branches
              PROVE  AtomicBranchTotal'[b] = IF b = to THEN h[b] + c.amt ELSE h[b]
          <5>1. AtomicBranchTotal[b] \in Int
            BY <1>1
          <5> QED
            BY <2>1, <2>4, <3>1, <4>1, <5>1
        <4> QED
          BY <4>2 DEF Gains
      <3>5. \A b \in Branches : AtomicBranchTotal[b] \in Int
        BY <1>1
      <3>6. taken \in Int /\ c.amt \in Int /\ taken = -c.amt
        BY <2>1
      <3> HIDE DEF h, from, to, taken
      <3>7. /\ SumFunctionOnSet(AtomicBranchTotal, Branches) \in Int
            /\ SumFunctionOnSet(h, Branches) =
                  SumFunctionOnSet(AtomicBranchTotal, Branches) + taken
        <4>1. IsFiniteSet(Branches) /\ from \in Branches /\ taken \in Int
          BY <1>1, <2>1, <3>6
        <4>2. SumFunctionOnSet(h, Branches) =
                 SumFunctionOnSet(AtomicBranchTotal, Branches)
                    + (IF from \in Branches THEN taken ELSE 0)
          BY <4>1, <3>2, <3>5, SumChange
        <4>3. SumFunctionOnSet(AtomicBranchTotal, Branches) \in Int
          BY <4>1, <3>5, SumType
        <4> QED
          BY <4>1, <4>2, <4>3
      <3>8. SumFunctionOnSet(AtomicBranchTotal', Branches) =
               SumFunctionOnSet(h, Branches) + c.amt
        BY <1>1, <2>1, <3>3, <3>4, <3>6, SumChange
      <3> QED
        BY <1>1, <2>1, <3>6, <3>7, <3>8
    <2> QED
      BY <2>5, <2>6
  <1> QED
    BY <1>2, <1>3

\* A step gives commands to idle workers only, and keeps everyone else's.
LEMMA GivenStep ==
    ASSUME TypeOK, NEW w \in Workers, Step(w)
    PROVE  /\ \A v \in Workers : v # w => cmdCount'[v] = cmdCount[v]
           /\ pc[w] # "idle" => call' = call /\ cmdCount' = cmdCount
           /\ pc[w] = "idle" => /\ pc'[w] = "done" => call' = call /\ cmdCount' = cmdCount
                                /\ \/ call' = call
                                   \/ \E c \in Calls : call' = [call EXCEPT ![w] = c]
  <1> USE DEF job
  <1>1. CASE \E c \in Calls : GetNext(w, c)
    <2>1. pc'[w] # "done"
      BY <1>1, GoToValue DEF GetNext, Entry
    <2> QED
      BY <1>1, <2>1 DEF GetNext, TypeOK
  <1>2. CASE Done(w) \/ ReturnAtOnce(w)
    BY <1>2 DEF Done, ReturnAtOnce
  <1>3. CASE LockAccount(w) \/ LockBranch(w) \/ FundsSuffice(w) \/ FundsInsufficient(w)
    BY <1>3 DEF LockAccount, LockBranch, FundsSuffice, FundsInsufficient
  <1>4. CASE ReadAccount(w) \/ ReadBranch(w) \/ WriteAccount(w) \/ WriteBranch(w)
    BY <1>4 DEF ReadAccount, ReadBranch, WriteAccount, WriteBranch
  <1>5. CASE UnlockBranch(w) \/ UnlockAccount(w) \/ ReadBranchBalance(w)
    BY <1>5 DEF UnlockBranch, UnlockAccount, ReadBranchBalance
  <1>6. CASE LockNextBranch(w) \/ AddNextBranch(w) \/ UnlockNextBranch(w)
    BY <1>6 DEF LockNextBranch, AddNextBranch, UnlockNextBranch
  <1> QED
    BY <1>1, <1>2, <1>3, <1>4, <1>5, <1>6 DEF Step

\* Bank_Balance takes its answer when it has locked every branch.
LEMMA FixedStep ==
    ASSUME NoFundsFlow, TellerInv, TellerInv', FixedInv, NEW w \in Workers, Step(w)
    PROVE  FixedInv'
  <1>1. /\ TypeOK /\ Control(w) /\ Control(w)' /\ pc[w] \in Labels /\ call[w] \in CallSet
        /\ call \in [Workers -> CallSet]
    BY DEF TellerInv, TypeOK
  <1>2. SumFunctionOnSet(AtomicBranchTotal', Branches) = Opening
    BY TotalStep
  <1>3. ASSUME NEW v \in Workers PROVE call'[v] \in Calls \cup {NoCall}
    BY <1>1, GivenStep DEF FixedInv
  <1>4. ASSUME NEW v \in Workers, v # w
        PROVE  /\ AtomicOutcome'[v] = "insufficient" => ChecksFunds(call'[v])
               /\ Answered(v)' => SumFunctionOnSet(AtomicRead'[v], Branches) = Opening
    <2>1. AtomicRead'[v] = AtomicRead[v] /\ AtomicOutcome'[v] = AtomicOutcome[v]
      BY <1>4, OthersSeen
    <2>2. call'[v] = call[v] /\ cmdCount'[v] = cmdCount[v]
      BY <1>1, <1>4, OthersStay, GivenStep
    <2> QED
      BY <2>1, <2>2 DEF FixedInv, Answered
  <1>5. /\ AtomicOutcome'[w] = "insufficient" => ChecksFunds(call'[w])
        /\ Answered(w)' => SumFunctionOnSet(AtomicRead'[w], Branches) = Opening
    <2>1. CASE pc[w] = "idle" /\ pc'[w] # "done"
      <3>1. AtomicOutcome'[w] = "pending"
        BY <1>1, <2>1, MyOutcome
      <3> QED
        BY <3>1 DEF Answered
    <2>2. CASE pc[w] \in {"return", "branchBalance", "checkFunds"} \/ TakesEffect(w)
      <3>1. call'[w].kind # "bankBalance" /\ call'[w] = call[w]
        <4>1. call'[w] = call[w]
          BY <1>1, <2>2, GivenStep DEF TakesEffect
        <4>2. call[w].kind # "bankBalance"
          BY <1>1, <2>2 DEF Control, TakesEffect, NothingToDo, TellerLabels, Middle, Moving
        <4> QED
          BY <4>1, <4>2
      <3>2. CASE pc[w] = "checkFunds"
        BY <1>1, <3>1, <3>2 DEF Answered, Control
      <3>3. CASE pc[w] \in {"return", "branchBalance"} \/ TakesEffect(w)
        <4>1. AtomicOutcome'[w] = "success"
          BY <1>1, <3>3, MyOutcome
        <4> QED
          BY <3>1, <4>1 DEF Answered
      <3> QED
        BY <2>2, <3>2, <3>3
    <2>3. CASE pc[w] = "lockAll" /\ pc'[w] = "sum"
      <3>1. AtomicOutcome'[w] = "success"
        BY <1>1, <2>3, MyOutcome
      <3>2. AtomicRead'[w] = branchBalance
        BY <1>1, <2>3, MyRead
      <3>3. \A b \in Branches : branchBalance[b] = AtomicBranchTotal[b]
        BY <2>3, BranchTotalStep
      <3>4. SumFunctionOnSet(branchBalance, Branches) = SumFunctionOnSet(AtomicBranchTotal, Branches)
        BY <3>3, FiniteBank, SumSame
      <3> QED
        BY <3>1, <3>2, <3>4 DEF FixedInv
    <2>4. CASE /\ ~TakesEffect(w) /\ pc[w] \notin {"return", "branchBalance", "checkFunds"}
               /\ pc[w] = "idle" => pc'[w] = "done"
               /\ pc[w] = "lockAll" => pc'[w] # "sum"
      <3>1. AtomicRead'[w] = AtomicRead[w]
        BY <1>1, <2>4, MyRead
      <3>2. AtomicOutcome'[w] = AtomicOutcome[w]
        <4>1. \/ pc[w] = "idle" /\ pc'[w] = "done"
              \/ pc[w] \in {"lockAccount", "lockBranch", "readAccount", "readBranch",
                            "writeBranch", "unlockBranch", "unlockAccount", "sum", "unlockAll"}
              \/ pc[w] = "writeAccount" /\ ix[w] = 2
              \/ pc[w] = "lockAll" /\ pc'[w] = "lockAll"
          <5>1. pc[w] # "done" /\ (pc[w] = "lockAll" => pc'[w] = "lockAll")
            BY <1>1, <2>4, Flow
          <5>2. pc[w] = "writeAccount" => ix[w] = 2
            BY <1>1, <2>4, RoundTypes DEF TakesEffect, TellerLabels, Middle, Moving
          <5> QED
            BY <1>1, <2>4, <5>1, <5>2 DEF Labels
        <4> QED
          BY <1>1, <4>1, MyOutcome
      <3>3. call'[w] = call[w] /\ cmdCount'[w] = cmdCount[w]
        BY <1>1, <2>4, GivenStep
      <3> QED
        BY <3>1, <3>2, <3>3 DEF FixedInv, Answered
    <2> QED
      BY <2>1, <2>2, <2>3, <2>4
  <1>6. /\ \A v \in Workers : call'[v] \in Calls \cup {NoCall}
        /\ \A v \in Workers : AtomicOutcome'[v] = "insufficient" => ChecksFunds(call'[v])
        /\ \A v \in Workers :
              Answered(v)' => SumFunctionOnSet(AtomicRead'[v], Branches) = Opening
    BY <1>3, <1>4, <1>5
  <1> QED
    BY <1>2, <1>6 DEF FixedInv, Opening

\* The answer that a worker has when its query is over.
LEMMA FixedShown == TellerInv /\ FixedInv => FixedBankBalance
  <1> SUFFICES ASSUME TellerInv, FixedInv, NEW w \in Workers, pc[w] = "idle",
                      cmdCount[w] < MaxCommands, call[w].kind = "bankBalance"
               PROVE  SumFunction(read[w]) = NumBranches * OpeningBranchBalance
    BY DEF FixedBankBalance
  <1>1. outcome[w] \in {"success", "insufficient"}
    BY DEF TellerInv, TypeOK, Control
  <1>2. AtomicOutcome[w] = outcome[w]
    BY DEF AtomicOutcome, TookEffect
  <1>3. outcome[w] # "insufficient"
    BY <1>2 DEF FixedInv, ChecksFunds
  <1>4. SumFunctionOnSet(AtomicRead[w], Branches) = Opening
    BY <1>1, <1>2, <1>3 DEF FixedInv, Answered
  <1>5. read[w] \in [Branches -> Int]
    BY DEF TellerInv, TypeOK
  <1>6. AtomicRead[w] = read[w]
    BY <1>5 DEF AtomicRead
  <1> QED
    BY <1>4, <1>5, <1>6 DEF Opening, SumFunction

\* When no funds flow in or out, every bank balance that a worker is told is
\* the opening balance of the bank, whatever is transferred meanwhile.
THEOREM BankBalanceIsFixed ==
    ASSUME NoFundsFlow
    PROVE  Spec => []FixedBankBalance
  <1>1. TellerInv /\ TellerInv' /\ FixedInv /\ [Next]_vars => FixedInv'
    <2> SUFFICES ASSUME TellerInv, TellerInv', FixedInv, [Next]_vars PROVE FixedInv'
      OBVIOUS
    <2>1. CASE UNCHANGED vars \/ Finished
      BY <2>1, ViewStutter DEF FixedInv, Answered
    <2>2. ASSUME NEW w \in Workers, Step(w) PROVE FixedInv'
      BY <2>2, FixedStep
    <2> QED
      BY <2>1, <2>2 DEF Next
  <1> QED
    BY <1>1, FixedInit, FixedShown, TellerInvariant, PTL DEF Spec

=============================================================================
