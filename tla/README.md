# A verification project for CS107_ASSIGNMENTS

The repository holds five independent programs. Four are sequential; the fifth,
`Assignment_6_Conccurency`, is a multi-threaded bank whose correctness depends
on locks, a counter and a semaphore. The bank is modelled step by step, the four
others one loop iteration or library call at a time; TLC checks all of them on
small instances. TLAPS proves, for every value of the constants, that the commands of
the bank are atomic and keep its balances, the locks, the reports, the command
generator, account numbers, test 7, that many workers leave the bank that one
leaves, and that `six-degrees` finds shortest paths.

Source paths below are relative to `src/`; `A1/` to `A6/` stand for
`assignment_1_random_seq_generator`, `assignment_2_six_degrees`,
`Assignment_3_Generic_Vector_And_Hashset`, `Assignment_4_rss_news_search` and
`Assignment_6_Conccurency`.

## 1. The system

### The bank (A6)

`main` of `bankdriver.c` creates a bank, starts one thread per worker, joins
them, then executes the same commands once more with a single worker on a fresh
bank and compares the two banks. Every worker runs a loop (`Worker`):
`Action_GetNext` hands it a command, the switch executes it, and after a
successful deposit, withdrawal or transfer `Report_Transfer` logs it. Three times
in its life a worker is told to call `Report_DoReport`, the end of its day.

| Component | State | Operations | Talks to |
|---|---|---|---|
| account.c, branch.c, bank.c | balance and mutex of each account, balance of each branch, one mutex per branch | init, adjust, balance of a branch or the bank, validate, compare | called by the tellers, the driver, the report |
| teller.c | none of its own | deposit, withdraw, transfer | locks accounts, then branches, and adjusts both |
| report.c | reports (balance, log, overflow mark), `counter`, semaphore `starting_new`, three mutexes | log a transfer, end the day, compare | barrier between all workers; takes the balance of the bank |
| action.c | per worker: commands left, next report, seeds | init, next command | called by the workers without locks |
| bankdriver.c | option flags, results of the checks | run workers, test 7's balance check, compare with one worker | everything above |

What is hard here: every command of two workers may interleave at every read,
write, lock and unlock; commands lock two accounts and two branches, a bank
balance locks all branches; a command may be refused halfway; branch balances are
read without a lock; the end of a day is a barrier that is used several times;
logs and the storage for reports are bounded.

What makes it correct: no update is lost and no money appears or disappears; no
account is overdrawn; no two commands wait for each other; a bank balance is one
that a sequential execution could have shown; the report of a night contains the
transfers of that day, all of them and no others; everybody finishes.

### The other programs

| Component | State | Operations | What makes it correct |
|---|---|---|---|
| vector.c (A3) | array, used and allocated length, client's free function | append, insert, replace, delete, sort, search, map, dispose | order and content after every sequence of calls, also when the array grows in the middle of one; each element that leaves is freed once |
| hashset.c (A3) | buckets, each a vector; element count | enter, lookup, count, map | one element per key, in the bucket of its hash |
| hashsettest.c, vectortest.c (A3) | one set, one vector | the calls of the tests | assertions of the tests |
| rss-news-search.c (A4) | stop words, used articles, index from words to articles with counts, all in hash sets of vectors | read a list of feeds, follow items and redirections, count words, answer queries | every article that can be reached is read; counts are the numbers of occurrences; the answer shows the best ones |
| six-degrees.cc, path.cc (A2) | queue of partial paths, looked-up credits, visited players and films | prompt for two players, search, print | the path is one, leads the right way and is shortest; the search ends |
| imdb.cc (A2) | two sorted files | credits of a player, cast of a film | the cast is that of the film with the right title and year |
| imdb-test.cc (A2) | map from costars to films | list films and costars, both ends of long lists | every entry is right and printed once |
| rsg.cc, definition.cc, production.cc (A1) | grammar, sentence being expanded | read a grammar, expand `<start>` three times | what is printed is a sentence of the grammar |

They run in one thread and keep nothing on disk. What is hard in them are
boundaries (a full array, an empty bucket, the last index, a title that several
films share), state that an earlier call has left behind (the buffer with the last
URL, the index where a search ended, a vector that a query has sorted), and the
order of calls. `rss-news-search` uses the vector and the hash set of A3; the
network and the tokenizers come as a prebuilt library.

The sources and the properties of every hazard are in `PROJECT.json`.

## 2. Modules

| Module | What it is |
|---|---|
| `BankData` | accounts, branches, commands and their legs; opening balances. No state. |
| `AtomicBank` | abstract: each command takes effect at once, between request and answer |
| `Teller` | teller.c with account.c, branch.c, bank.c; one action per lock, check, read, write, unlock |
| `TellerProofs` | proofs about `Teller`: locks, no overdraft, it implements `AtomicBank`, balances |
| `LibraryProofs` | lemmas that the proofs share: finite sums, remainders, induction over numbers and over the size of a set; each operation of `Vector` and the elements of a hash set |
| `MCTeller` | instances of `Teller` |
| `Report` | report.c: the log, the barrier, the closing of reports |
| `ReportProofs` | proofs about `Report` |
| `MCReport` | instances of `Report` |
| `ActionSchedule` | action.c: the commands and days of each worker; the second run of TestBank |
| `AccountNumbers` | account.c: how branch and subaccount are packed into a number |
| `BankDriver` | bankdriver.c: bank, workers, joins and comparison around `ActionSchedule` |
| `DriverProofs` | proofs about `ActionSchedule`, `AccountNumbers` and `BankDriver` |
| `MCBankDriver` | an instance of `BankDriver` |
| `Vector`, `HashSet` | vector.c and hashset.c as operators on records |
| `AbstractContainers` | abstract: a finite map, a sequence, and what is freed |
| `Containers` | hashsettest.c and vectortest.c: a client of both containers |
| `ContainerProofs` | proofs about `HashSet` and `Containers` |
| `MCContainers` | an instance of `Containers` |
| `NewsIndex` | rss-news-search.c, on `Vector` and two instances of `HashSet` |
| `NewsProofs` | proofs about `NewsIndex` |
| `MCNewsIndex` | a small web, a feed file, stop words |
| `Imdb` | imdb.cc: the two files, credits and casts |
| `SixDegrees` | six-degrees.cc, path.cc and the walk of `getCast` |
| `ImdbTest` | imdb-test.cc, the other client of the database |
| `SearchProofs` | proofs about `Imdb`, `SixDegrees` and `ImdbTest` |
| `MCSixDegrees` | an instance of `ImdbTest` and thereby of `SixDegrees` |
| `Rsg` | rsg.cc with its classes |
| `RsgProofs` | proofs about `Rsg` |
| `MCRsg` | three grammars |

### Teller

`balance`, `branchBalance` are the fields of the same name; `acctLock`,
`branchLock` give the owner of each mutex, `NoOwner` when it is free. A worker is
at the place `pc[w]` of its command, in round `ix[w]` (the lock, leg or branch
that it is at). A transfer has two legs, the other commands one; `reg[w]` is the
value that `Account_Adjust` or `Branch_UpdateBalance` has read and will write
back increased, `read[w]` the branch balances that its queries have read,
`outcome[w]` what the command returns.

The order of the steps is the order of the calls in the code, which differs
between the commands: a withdrawal checks the funds after it has locked the
branch, a transfer before it locks the branches; a transfer within a branch locks
no branch at all; branches are unlocked source first, accounts destination first.
An account number is a pair: the number is `branch << 32 | subaccount`, so the
order of numbers is the order of pairs. Commands with nothing to do return at
once (`ReturnAtOnce`).

`AtomicBank` says what users are promised. A command takes effect in one step.
The one exception that the code makes is written into it: a branch balance
becomes visible to `Branch_Balance` some time after the command that changed it
(`Publish`), before the next command that changes it; a bank balance waits until
everything is visible. `Teller` implements it (`CommandsAreAtomic`): a command
takes effect when it writes its first account; what it still owes the other
account and the branches is added to the balances by the refinement mapping
(`PendingAccount`, `PendingBranch`) and cannot be seen by others because these
are locked.

### Report

Commands are single steps here, which `CommandsAreAtomic` justifies; a command
changes the balance of the bank by `flow` and has its entries logged one after
the other. Each worker has a list of commands per day (`Schedule`), as the seeds
determine in the program. `Report_Transfer` takes `transfer_rep_lock` and
`report_compare_lock`, decides, reads `numReports` and `numLogEntries` into local
variables and writes with them. `Report_DoReport` takes `report_lock` and
`report_compare_lock`; the worker that finds the counter at 1 closes the report,
posts the semaphore once for each other worker, unlocks `report_lock` and only
then sets the counter back, each of these in a step of its own. `counter--` is not
protected against that last write, which is a data race; `Decrement` allows the
value that was tested and the value that is there now.

### ActionSchedule

The arrays of `workerState` keep their names; `seed[s]` is how often seed `s` has
been drawn from, and `RandR(s, p)` the `p`-th number that `rand_r` makes of it, a
constant of which the proofs assume only that it is a natural number, for as many
draws as all the commands need at most (`RandAssumption`). A command is drawn number by number
(`BeginCommand`, `Draw`, `HandOut`), since `rand_r` works on a seed without a
lock; that one draw may be a single step is what `NoSharedSeed` shows. A report
only counts, because the barrier behind it removes interleavings and adds none.
When all workers are done `TestBank` calls `Action_Init` again for one worker,
which finds the leftovers of the first run in every array that `Action_Init` does
not write. `issued` and `issuedBefore` are histories, of this run and the one
before; they only serve the properties.

### BankDriver and AccountNumbers

`BankDriver` extends the generator with what its commands do. A command is one
step here (`Execute`), which `CommandsAreAtomic` allows; it goes to the account
that `Account_LookupByNumber` finds for the number that was drawn. `Exit` is the
end of a thread, `TestTheBank` what `TestBank` does between the two runs: sum the
errors, keep the first bank as `bankmulti`, create another. `Bank_Compare` is
without its call of `Report_Compare` (bank.c:114-116), so `BanksAgree` is about
accounts and branches; of the reports only the first is compared, by
`FirstReportIsSequential` of `Report`, since the later ones need not agree. The bit fields of
`AccountNumbers` are products; their widths are constants, because TLC does not
count to 2^59.

### How the bank modules fit together

`ActionSchedule` shows that the commands that `Teller` takes from the constant
`Calls` are legal (`TypeOK`), and that every worker has three nights, each with the
commands that a single worker would have that day, which are the constants
`NumDays` and `Schedule` of `Report`. `Teller` shows that the commands may be
single steps in `Report` and in `BankDriver`, and `BankDriver` implements
`ActionSchedule` (`DriverImplementsSchedule`).

### Vector, HashSet, Containers

A vector is a record with the fields of `vector`; `released` is the history of the
elements given to the client's free function. The array keeps garbage behind its
used part and `Shift` copies element by element, as `memmove` does. `VectorSort`
takes the order as a set of pairs and `VectorSearch` the set of elements that the
comparison accepts, in place of function pointers. A hash set is a record of
buckets; its hash and comparison functions are constants, so that each client has
an instance of its own (`Table`, `Strings`, `Stats`). `HashSetLookup` returns an
address, a bucket and an index in it, at which the client reads (`HashSetAt`) and
writes (`HashSetOverwrite`). `HashSetCount` counts the
calls of `HashSetEnter` that enter or replace, as the code does, which is not what
hashset.h says of it (run `element_count`).

`Containers` makes the calls of the test programs, those of `SimpleTest` in any
order. `AbstractContainers` is what the headers promise; `Containers` implements
it.

### NewsIndex

`pc` says which loop the program is in: over feeds (`NextFeed`), redirections
(`ProcessFeed`, `ParseArticleElsewhere`), items and tags (`GetNextItemTag`,
`ReadTag`, `EndOfItem`), words (`ScanArticle`), queries (`ProcessResponse`). A
document is what the tokenizer makes of it, a sequence of tags (of a feed) or of
words (of an article); `Web` says what the library finds at a URL. `process_word`
looks its word up and changes the vector of a known one at the address that it got.
`ReadLine` is what STNextToken makes of a line of the feed file that has no URL
(`NoUrl`): it discards the end of the line and takes all of the next line for the
URL (`WholeLine`, where nothing is found), so that the feed of that line is lost; if
there is no next line, `remoteFileName` stays what it was and the feed is read
again. The body of a local file has no tags, because its tokenizer discards
delimiters (line 325): what is in the brackets is words. `scanned` is a history of the articles in the
order of reading, for the properties.

### Imdb, SixDegrees, ImdbTest

An offset into a file is the index of a record. `bsearch` finds any film with the
title, so `hit` is any of them; `Walk` is one step of `getCast` from there to the
film with the right year. The queue, the credits and the visited sets of
`generateShortestPath` keep their names; `NextPath`, `NextFilm`, `NextPlayer` and
`ReachTarget` are iterations of its three loops and the return from the innermost
one. `ImdbTest` starts one of the two programs; both share `Walk` and `ReadCast`.

### Rsg

A grammar file is a sequence of tokens. `Production` and `Definition` read it
token by token; `final_vec` is the sentence being expanded, its first nonterminal
next. A random number is any number in the range, and an empty range ends in
`"abort"`, which is the assertion in `getRandomInteger`.

### Bounds

All sizes are constants. Bounds that stand for no number in the code are
`MaxCommands` (commands per worker in `Teller`), `MaxLetters` and `MaxCalls`
(`Containers`) and `MaxWords` (`Rsg`, whose recursive grammar would grow for
ever). The bank instances have two or three workers (three are needed for a circle
of waiting transfers; two are enough for what goes wrong at the barrier: a worker that
is released and comes back while another still waits, or still has the counter to
reset), two or three branches (source, destination, another), two accounts per
branch (a transfer within a branch), reports and logs small enough to fill up. The
driver runs with the program's own 16 seeds and 64 commands, so that each of two
workers goes four times through its list of eight seeds, and the single worker
four times through all sixteen.

The vector starts with room for two elements and holds up to five, so it grows
twice; three letters in two buckets make two of them collide. The feeds have a
redirection of two steps, a local file with a tag, lines without a URL at the
beginning, in the middle and at the end, a title and a link that differ in case
only, an item without a link, and words that share a bucket. Three films of one
title let `getCast` walk in both directions, over a film in between; a chain of
four films is too long for `MaxLength` 3, as one of seven is for the program's 6;
lists of up to four entries are longer than `NumToPrint` twice.

## 3. Runs

| Run | Instance | Shows |
|---|---|---|
| `teller` | 2 workers, 2 commands each of 9, 2 x 2 accounts | lock ownership and order on every path, branch balances match accounts, no overdraft, implementation of the atomic bank |
| `test7` | 3 workers, 3 branches, overdrawn accounts, no flow; fair | bank balances never change (test 7's own check), everybody finishes |
| `three_nights` | 2 workers, 3 nights, 2 reports, 3 entries; fair; 17560 states | closed reports are frozen, each transfer is logged once, overflow marks, the first report equals that of a single worker; the first time the barrier is used nobody is early, and as many are released as there are workers |
| `driver` | 2 workers, 16 seeds, 64 commands, 3 x 5 accounts, the flags of all tests | the single worker gets the same commands on the same days and ends with an equal bank; seeds are not shared, three reports each; no wrong balance when no funds flow |
| `containers` | 3 letters, 2 buckets, vector with room for 2, 3 calls, 5 numbers; 56321 states | the containers implement a map and a sequence; the tests' assertions |
| `news` | lists of 1 to 3 feeds on a web of 11 addresses; fair; 2138 states | counts match the text, answers are ranked, everything that can be reached is read, and not more often than the lines lead to it |
| `search` | 8 players, 9 films, any pair of them, both programs; fair; 2827 states | paths are right and shortest, casts and lists are right, the search ends |
| `rsg` | 3 grammars, versions of up to 6 words | what is printed is a sentence of the grammar; only incomplete grammars abort |
| `half_transfer` | violation | two branch balances can show half of a transfer |
| `stuck` | violation; fair | with three nights the program can hang |
| `element_count` | violation | a letter that is counted twice is two elements to `HashSetCount` |
| `duplicate` | violation | an article that two feeds link to is indexed twice |

The deadlock check is on except in `three_nights` and `stuck`: there the program
really may stop, which is what `stuck` shows.

`BanksAgree` needs accounts that do not run dry: one that does would refuse a
command in one order and not in the other, and with 3 on each account, TLC finds two
banks that differ. The instance opens accounts with 500, more than its 64 commands
can take. The accounts that `-f` makes overdrawn refuse in every order.

### What the violations show

* `reset_day` (A6/report.c:128-135) gives the lock back before it sets the
  counter. A released worker that ends its next day in between sees the counter
  at 1 and writes a report alone; later the late reset undoes what others have
  counted, and with three nights, the number `Action_Init` plans, a worker can
  wait for ever. `discussion.txt` line 9 describes the other order.
* One semaphore serves all nights (A6/report.c:177), and a fast worker can take, one
  night later, the token of a slow one. The trace of `stuck` is this case:
  one worker closes the second report and posts the token of the other, which is about
  to wait; the first ends its third day before the other has moved, counts itself and
  takes the token. It is done after two reports, and the other waits for ever. So what the assignment asks of every
  night ("the workers must wait until all have called", "no worker begins the next
  day's work until the report is fully calculated") holds of the first one only, and
  `FirstNightInOrder` says it of that one. `FirstNightEnds` counts returns from
  `Report_DoReport`, whoever's they are: that the *same* workers come through which
  the night released is not so.
* `HashSetEnter` increases the element count also when it replaces an element
  (A3/hashset.c:77).
* `Branch_Balance` reads without a lock (A6/branch.c:79). The value was right at
  some moment, but it need not agree with the accounts or with another branch.

### What the author says of the counts

A4/rss-news-search.c says at line 573: "we havee serious bugs here counting doesn't
work properly and sometime words that aren't in file is counted, don't know reason
yet!", and at line 49 that similarity is "defined wrongly". `CountsMatchText` holds
all the same, because it is about what the program has *read*. The model has three
reasons for what the author saw, none of them in `process_word`:

* An article to which two feeds or two items lead is read twice, since its URL is
  never remembered (line 484), and so is the feed before a last line without a URL;
  each reading adds the occurrences again (`duplicate`).
* Articles with one title are one article wherever they are (line 53): a word is counted
  for an address whose text does not have it as often. Line 49 asks for the same
  server too. `CountsMatchText` bounds a count by the occurrences in all similar
  articles, which is what is left.
* The tokenizer of a local file discards its delimiters (line 325), so `ScanArticle`
  never sees the "<" at which it would skip a tag (lines 606 and 622-624): names and
  attributes of tags are counted as words of the text.

### Fairness

In the bank: weak fairness of each worker's step. The operating system runs every
thread that can run, and a `pthread_mutex_lock` or `sem_wait` that others overtake
is enabled again when they are done. Every worker has finitely many commands, so
nobody can be overtaken for ever and strong fairness would add nothing.

In `NewsIndex` and `SixDegrees`: weak fairness of the steps that the program makes
by itself (`Index`, `Search`). Nothing makes a user type, so prompts have none.
`Rsg` and the containers have no liveness property: a recursive grammar may expand
for ever.

## 4. Proofs

See `TellerProofs`, `ReportProofs`, `DriverProofs`, `SearchProofs`,
`ContainerProofs`, `NewsProofs` and `RsgProofs`; `LibraryProofs` has what they share. There is no
assumption beyond the named ones of the modules (`BankAssumption`,
`TellerAssumption`, `ReportAssumption`, `WorkersAssumption`, `ScheduleAssumption`,
`RandAssumption`, `NumbersAssumption`, `FilesAssumption`, `DatabaseAssumption`,
`CreditsAssumption`, `NumToPrintAssumption`,
`LengthAssumption`, `ContainersAssumption`, `NewsAssumption`, `GrammarAssumption`), which TLC evaluates in the runs, and the hypotheses that are
written into the theorems that need them:

* `NoFundsFlow` (`BankBalanceIsFixed`): the commands are those that `-f` and test 7
  admit. With a deposit the balance changes, as it should.
* `DistinctEntries` (`TransfersLoggedOnce`): an entry of a log is known by its value,
  so that two equal transfers could not be told apart.
* `OnlyOverdrawnRefuse` (`BanksAreEqual`), about a behaviour: no withdrawal and no
  transfer of either run is refused for lack of money, but on accounts that `-f` makes
  overdrawn. Without it the statement is false (section 3).

`TellerInv` is inductive. Type correctness and lock ownership alone are not: that
a step of one worker leaves another's locks alone needs that its place fits its
command (`Control`), and that no account is overdrawn needs that what was read is
still there when it is written (`Fresh`) and what was checked is still there when
it is taken (`Reserved`). The argument:

1. `AccountsAt`, `BranchesAt` list the locks that a command holds at each place,
   as facts about values; `Flow` lists where each step leads.
2. `AccountsHeldStep`, `BranchesHeldStep`: a step changes what its worker should
   hold by the lock that it takes or releases. With `Effects`, ownership is kept.
3. `Exclusion`: a locked balance is changed by its owner only. So `Fresh` and
   `Reserved` of the others are kept.
4. The theorems follow: `LocksAreHeld`, `LocksAreOrdered`, `NoAccountOverdrawn`.

`TellerIsAtomic` shows the refinement step by step. A command takes effect when it
writes its first account; from then on it owes amounts, to the account of its other
leg and to the branches. What it owes depends on its place alone (`DueAccount`,
`DueBranch`), and a place owes something to an account or branch only while the
command holds its lock, so that nobody else owes it anything and nobody reads it
(`TellerInv`). Hence the write of one leg pays exactly what was owed and leaves
the mapped balances as they are; a check of funds that the code makes under the
lock reads the mapped balance; and the answer of a command is the one that the
abstract step gave. `BranchesAreInBalance` and `BankBalanceIsFixed` are invariants
of the mapped balances, where a command is a single step: the sum of the accounts of
a branch, or of all branches, changes by the sum of the legs. The sums are over
finite sets, by induction over their sizes: the library's induction theorems take
an operator, so `LibraryProofs` derives what it needs from the least counterexample
among the natural numbers (`LeastNumber`, `NatClosed`).

`ReportInv` is inductive. That a closed report is frozen does not follow from the
code of one worker: it needs that the index a worker has read is still the open
report when the worker writes there (`ReadsHold`), which needs the mutexes
(`LocksHeld`), which need the place of every worker (`InSchedule`, `TypeOK`).
`ReadsHold` is also what keeps `bank->counter` between 1 and the number of
workers: `ResetCounter` runs without the mutex, so a worker may decrement either
the value it has tested or a fresh one, and both are at least 2. The theorems hold
for any number of nights, so also where the barrier fails (section 3).

That each transfer is logged once (`TransfersLoggedOnce`) adds to it where the entry
of a command that is under way is not yet, and that no two workers have one entry.
`NightInv` is the barrier as it was meant, in three phases: until the first night
ends everybody is in the first day, the counter is the number of workers that have not
been counted and nobody has a token of the semaphore (`DayOpen`); then one worker
writes the report and all others wait (`DayClosing`); then it is written
(`DayClosed`). This holds for any number of nights after the first one, because the
races of section 3 begin when a released worker comes back for its second night.
`FirstNightIsInOrder` is what this says to the users. `FirstReportIsRight` follows: when the first report is written all
commands of the day have been executed and logged and none of the next, so its
balance is the sum of their flows, whatever their order, and its log, unless it is
full, has the entries of one worker in some order.

`ScheduleInv` says how far each worker is from its next report: after `r` reports
the next is due when `3 - r` days of commands are left, and it has not been missed.
The rest is arithmetic on what `Action_Init` computes, under the assumption that
the workers divide the seeds (`main` admits 1, 2, 4, 8 and 16 of 16) and that four
days of all workers divide the commands (powers of two in `CreateBank`). Two seeds
of different workers that were equal modulo `MAX_WORKERS` would make the
difference of two worker numbers a multiple of their count (`SeedsDiffer`).

`SameCommands` compares two runs that draw in different orders. Count the commands
as the lone worker gets them: command `g` is drawn from seed `g % MAX_WORKERS`, in
both runs, because a worker goes round its own seeds. How far that seed has been
drawn from when command `g` begins is a number `f[g]` that depends only on the
earlier commands of the same seed, since a seed has one worker; so `Offsets(f)`
defines it without a run, and `OffsetsExist` that there is such an `f`. `RunInv`
says that each worker has got the commands that `f` gives, in the first run and in
the second one, and what of the next one is already drawn. So both runs have the
same commands on the same days. `DrawInv` bounds the draws.

`DriverProofs`: quotient and remainder by the shift are the two parts of an account
number, and taking the remainder by the mask, which divides the shift, leaves the
lower one (`LookupFindsAccount`); so numbers are ordered as pairs are, and the
order of locks in `Teller` is that of the code (`NumbersAreOrdered`). A step of the
driver is a step of the generator, or leaves its variables alone, so what is proved
of the one holds of the other (`DriverKeepsSchedule`). `BalancesAreRight` is test 7:
without flow the generator hands out no deposit and no withdrawal but of nothing,
and a transfer takes from one branch what it gives to another, so that the sum over
the branches stays what `CreateBank` has noted. `BooksAreKept` adds `Bank_Validate` to
it: after every command each branch has the sum of its accounts, and an overdrawn
account still has what it was opened with.

`BanksAreEqual` builds on `SameCommands`. Under `OnlyOverdrawnRefuse` the command alone
decides whether it moves money (`Effective`), so a bank is what it was opened with and
the sum of what the commands executed so far add (`Ledger`), each known by its number
(`Executed`), in whichever order they came. Both runs draw from the same offsets `f`
and end when all numbers have been executed, so both banks are the same sum.

`SearchInv` is what each place of the search knows. Two parts carry it. `WalkInv`:
while `getCast` walks there is a film with the title and the year, and the walk is
between the one that `bsearch` found and that one (`OnTheWay`); all records
between two of one title have it too, in ascending years (`DatabaseAssumption`,
what the files are sorted by), so the walk neither leaves the title nor passes the
film. `QueueInv` and `ElemInv`: every path in the queue starts where the search
does, each of its films has the players on both sides (`IsChain`), and credits that
were remembered are those of the file. That a player is in the cast of a film among
the player's credits is the other half of `DatabaseAssumption`. `Reversal` says that
a chain turned around is one. So `PathsAreRight` and `CastsAreRight`.

`PathsAreShortest` adds `ShortInv`, the argument of a breadth-first search. Every
player closer to the start than the path that is being extended has been discovered,
and every discovered player has had all films visited (`Expanded`), or is the last
player of a shortest path in the queue (`Waits`), or is being extended; the queue
holds paths of one length and then of the next (`LevelInv`). So nobody on a
shorter path than the one found is left out. Distances are those of `Near`, layers
of neighbours; they are symmetric, so it does not matter from which of the
two players the search is made.

`ProgramInv` joins this to `imdb-test`, so that the theorems about the lists, and again
those about paths and casts, are about the specification of the run, `TestSpec`.
`TestInv` has the walk of `getCast` as above, and what is known of the costars: each has
the films in which both are, of those whose cast has been read (`Gathered`). The films
that are left are distinct because no film is twice among the credits of a player
(`CreditsAssumption`); otherwise `listMovies` would number it twice. `PrintInv` is about
the two loops that print: the counter and the iterator move together, what was printed
are the lines `Shown` up to the counter, and what is skipped is not among them
(`RecordsAreSkipped`). That the costars are listed once each, in the order of the map,
needs that the file numbers the names (`NamesInOrder`): as many names precede the
*n*-th as there are smaller numbers.

`ContainerProofs` describes each operation of the vector twice: index by index, where
the copies of `memmove` move a block because none overwrites what is still to be
copied (`ShiftMoves`; then `AppendIs`, `InsertIs`, `DeleteIs`, `ReplaceIs`, `SortIs`,
`SearchIs`), and as an operation on the sequence of the elements (`ElementsInsert` and
its kin). `TableInv` says that each bucket holds, once, the count of each letter that
has been read and belongs there (`BucketTallies`). It is inductive because the lookup
finds an element exactly if its letter has been read (`EnterTallies`), and it is why
`HashSetMap` meets every letter once (`MapMeetsAll`).

`ListInv` says what may be in the vector at each stage of the tests. Three parts of it
are not about shape. After *k* insertions the numbers are the first *k* multiples of the
smaller prime modulo the larger one; the product of two smaller numbers is no multiple
of a prime (`NoMultiple`), so they are distinct (`NoneTwice`), and *n* numbers below *n*
in strictly ascending order are 0, 1, ..., *n* - 1 (`EachInPlace`): `AllNumbersSurvive`.
The deletions leave the last element alone because their distance is at least 2. And
below the index where a search of `TestReplace` begins nothing is left to be replaced:
`NothingLeft`. `ContainersImplement` maps buckets to the pairs in them and the array to
its first elements; sorting is where the two sides need an argument (`SortMaps`), since
each sorts a sequence of its own.

`NewsProofs` is about the index of the news search, for every web, list of feeds,
hash function and number of buckets. `NewsAssumption` gives the constants their types
and says four things of them: a list of feeds is not a single line without a URL, behind
which nothing has been written to the buffer yet; what is hashed has a hash code; a word that differs from
a well-formed one in case only is well-formed (`WordIsWellFormed` tests letters, digits
and "-"); and no address is `NULL`. (It also says that the empty string is a
string, which the provers do not know.) Everything goes by keys, words in
lower case. `IndexTells` says of each bucket that it has an element for exactly the
keys that have been read (`Has`) and belong there, each key once, and that its vector
holds articles that have such a word (`FoundIn`), no two of them similar, whose counts
add up to how often the key is in the text (`OccVec`). Similarity is not transitive, so
that one article can be similar to several of a vector that are not similar to each
other; the sum and the difference are kept all the same, because `process_word`
either counts the first similar one or appends where there is none (`CountOcc`,
`AppendOcc`). No article has more occurrences than the text of those like it
(`AllCounted`): a count goes up only when a similar article has been read with the word,
and reading more takes nothing away (`CountedMore`). One word adds one to the number of its own key and nothing to any other
(`ReadWord`), so the other elements stay right (`BucketOther`) and that of the word
becomes right (`ProcessWord`), which `LookupIs` finds because keys are not repeated.
This needs the rest of `NewsInv`: the set of stop words has their keys and no others
(`SwordsAre`, by induction over the file), and the words that are read go to the article
whose title and URL are at hand (`ControlOK`). `AnswerOK` says that what
`print_result` has shown is still in the index: the feeds have all been read by then,
sorting the vector of one word keeps its articles (`SortOcc`), and disposing changes no
element. The properties follow: `CountsAreRight` with the elements
as `HashSetMap` meets them, each key once (`IndexElements`), and `AnswersAreRanked`.
That `used_articles` stays empty (`NoneUsed`, in `TypesOK`) is the reason for the
finding `duplicate`: the program enters an article only if it is there already.

`RsgProofs` describes reading by positions in the file (`ReadInv`): the map knows, for
each nonterminal, the last of its definitions before the next position
(`GrammarIs`), and a definition that is being read has the productions since its brace
(`BodyInv`). `GrammarAssumption` says what readGrammar relies on (rsg.cc, line 25: "You
may assume that all grammars are in fact properly formatted"): a brace closes behind a
production and none is in between. At the end of the file the map is what the
properties read off the file (`GrammarIsRead`). `Used` adds the tokens of one more
level as often as there are marked tokens; a level that is not the last adds one, so
`Used` is closed (`UsedIsClosed`), `final_vec` never leaves it, and `Abort` is possible
only for a token without a production: `CompleteNeverAborts`. For the versions, the
invariant is about what is still to come: whatever a half expanded version can become
is a sentence of `<start>` (`VersionInv`). Replacing a nonterminal by a production
keeps it because the sentences of a sequence are the joined sentences of its parts
(`SentencesConcat`) and a level more gives no less (`LanguageGrows`).
`VersionsComeFromStart` says that there is *some* depth of nesting. The run's
`VersionsAreSentences` asks for one of at most `MaxWords`, which suits the three
grammars of the run but not every grammar: a chain of nonterminals can nest deeper than
the version is long. So that bound stays with TLC.

Only model-checked: the depth in `VersionsAreSentences`, and liveness
(`EveryWorkerFinishes` of `Teller`, `FirstReportWritten`, `FirstNightEnds`,
`EveryFeedIsRead`, `SearchEnds`), which needs fairness and is beyond TLAPS.

## 5. Not modelled

* Option parsing, timing, printing and the wrapping of lines, `Welcome`, `debug.c`.
* Memory allocation failing; the memory-mapped files of `imdb` and their layout; the
  formats of grammar, feed and database files below the level of tokens and records.
* The network and the tokenizers of the news search, a prebuilt library: constants.
* In the news search, strings that do not fit: words are copied into 256 bytes, titles
  and addresses into 512, from buffers of 1024. Redirections are assumed to end; the
  program would follow a circle of them for ever.
* The comparison of the number of reports and of the later ones in `Report_Compare`.
* The assertions on indices in `VectorNth` and `VectorSearch`: the modelled calls
  meet them.
* The binary-search branch of `VectorSearch`, which only `TestSortSearch` takes, to
  read; `undoConnection` of path.cc (never called); `TestAt`, which makes every
  other letter a small one through the address that `VectorNth` returns; and
  `MemoryTest`, which repeats inserting and disposing.
* `Bank_Print`; the return value of `Report_Transfer`, which its caller ignores.

## 6. What is left

Every invariant and action property of the runs has a theorem, except
`VersionsAreSentences` with its bound on the depth; the liveness properties have none.
