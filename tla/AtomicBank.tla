----------------------------- MODULE AtomicBank -----------------------------
(***************************************************************************)
(* What the teller promises to its users: every command takes effect at    *)
(* once, at some moment between the request and its answer.  A balance     *)
(* never shows half of a command, with one exception that the code makes:  *)
(* the balance of a branch becomes visible (Publish) some time after the   *)
(* command that changed it, before the next command that changes it, and a *)
(* branch balance query answers what is visible.  A bank balance query     *)
(* waits until everything is visible.                                      *)
(***************************************************************************)
EXTENDS BankData

VARIABLES
    balance,       \* of each account
    branchTotal,   \* of each branch, with every command that took effect
    visible,       \* the branch balances that a branch balance query answers
    call, read, outcome

vars == <<balance, branchTotal, visible, call, read, outcome>>

Init ==
    /\ balance = [a \in Accounts |-> OpeningBalance(a)]
    /\ branchTotal = [b \in Branches |-> OpeningBranchBalance]
    /\ visible = branchTotal
    /\ call = [w \in Workers |-> NoCall]
    /\ read = [w \in Workers |-> [b \in Branches |-> 0]]
    /\ outcome = [w \in Workers |-> "success"]

Request(w, c) ==
    /\ outcome[w] # "pending"
    /\ call' = [call EXCEPT ![w] = c]
    /\ outcome' = [outcome EXCEPT ![w] = "pending"]
    /\ UNCHANGED <<balance, branchTotal, visible, read>>

Answer(w, result) ==
    /\ outcome[w] = "pending"
    /\ outcome' = [outcome EXCEPT ![w] = result]
    /\ UNCHANGED call

\* Nothing to move: a zero amount, or a transfer to the same account.
Nothing(w) ==
    /\ NothingToDo(call[w])
    /\ Answer(w, "success")
    /\ UNCHANGED <<balance, branchTotal, visible, read>>

Settled(b) == visible[b] = branchTotal[b]

Deposit(w) ==
    LET c == call[w]
    IN  /\ c.kind = "deposit"
        /\ Settled(GetBranchID(c.src))
        /\ balance' = [balance EXCEPT ![c.src] = @ + c.amt]
        /\ branchTotal' = [branchTotal EXCEPT ![GetBranchID(c.src)] = @ + c.amt]
        /\ Answer(w, "success")
        /\ UNCHANGED <<visible, read>>

Withdraw(w) ==
    LET c == call[w]
    IN  /\ c.kind = "withdraw"
        /\ c.amt <= balance[c.src]
        /\ Settled(GetBranchID(c.src))
        /\ balance' = [balance EXCEPT ![c.src] = @ - c.amt]
        /\ branchTotal' = [branchTotal EXCEPT ![GetBranchID(c.src)] = @ - c.amt]
        /\ Answer(w, "success")
        /\ UNCHANGED <<visible, read>>

\* A transfer within a branch needs no branch balance to be settled.
Transfer(w) ==
    LET c    == call[w]
        from == GetBranchID(c.src)
        to   == GetBranchID(c.dst)
    IN  /\ c.kind = "transfer"
        /\ c.src # c.dst
        /\ c.amt <= balance[c.src]
        /\ balance' = [balance EXCEPT ![c.src] = @ - c.amt, ![c.dst] = @ + c.amt]
        /\ \/ from = to /\ UNCHANGED branchTotal
           \/ /\ from # to
              /\ Settled(from) /\ Settled(to)
              /\ branchTotal' = [branchTotal EXCEPT ![from] = @ - c.amt, ![to] = @ + c.amt]
        /\ Answer(w, "success")
        /\ UNCHANGED <<visible, read>>

\* The one error that a legal command can meet.
Refuse(w) ==
    /\ ChecksFunds(call[w])
    /\ ~NothingToDo(call[w])
    /\ call[w].amt > balance[call[w].src]
    /\ Answer(w, "insufficient")
    /\ UNCHANGED <<balance, branchTotal, visible, read>>

BranchBalance(w) ==
    LET b == GetBranchID(call[w].src)
    IN  /\ call[w].kind = "branchBalance"
        /\ read' = [read EXCEPT ![w][b] = visible[b]]
        /\ Answer(w, "success")
        /\ UNCHANGED <<balance, branchTotal, visible>>

BankBalance(w) ==
    /\ call[w].kind = "bankBalance"
    /\ \A b \in Branches : Settled(b)
    /\ read' = [read EXCEPT ![w] = branchTotal]
    /\ Answer(w, "success")
    /\ UNCHANGED <<balance, branchTotal, visible>>

Publish(b) ==
    /\ visible' = [visible EXCEPT ![b] = branchTotal[b]]
    /\ UNCHANGED <<balance, branchTotal, call, read, outcome>>

Next ==
    \/ \E w \in Workers :
          \/ \E c \in Calls : Request(w, c)
          \/ Nothing(w)
          \/ Deposit(w) \/ Withdraw(w) \/ Transfer(w) \/ Refuse(w)
          \/ BranchBalance(w) \/ BankBalance(w)
    \/ \E b \in Branches : Publish(b)

Spec == Init /\ [][Next]_vars
=============================================================================
