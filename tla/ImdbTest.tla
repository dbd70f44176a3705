------------------------------ MODULE ImdbTest ------------------------------
(***************************************************************************)
(* imdb-test.cc, the second program on the movie database, beside          *)
(* six-degrees.cc: for a player it lists the films and then the costars,   *)
(* of a long list only both ends.  getCast is the one of SixDegrees, in    *)
(* its actions Walk and ReadCast.                                          *)
(***************************************************************************)
EXTENDS SixDegrees, SequencesExt

CONSTANT NumToPrint   \* kNumFilmsToPrint and kNumCostarsToPrint, 10

ASSUME NumToPrintAssumption == NumToPrint \in Nat

VARIABLES
    program,    \* the one of the two that has been started
    costars,    \* name -> the films with the player
    listing,    \* "movies" or "costars", and
    list,       \* what is listed
    curr, num,  \* the iterator on list, and numMovies or numCostars
    printed     \* the lines of the list that have been printed

output   == <<listing, list, curr, num, printed>>
testVars == <<program, costars, output>>
allVars  == <<vars, testVars>>

search == <<target, ends, done_credits, part_paths, curr_elem, marked, answer>>

TestInit ==
    /\ Init
    /\ program \in {"six-degrees", "imdb-test"}
    /\ costars = << >>
    /\ listing = "movies" /\ list = <<>> /\ curr = 1 /\ num = 0 /\ printed = <<>>

-----------------------------------------------------------------------------
StartList(kind, items) ==
    /\ listing' = kind
    /\ list' = items
    /\ curr' = 1 /\ num' = 0 /\ printed' = <<>>
    /\ pc' = "first"

\* listAllMoviesAndCostars.  Of a player that is not in the database, or that has no
\* films, only a message is printed.
ListAll(response) ==
    /\ pc = "source" /\ Known(response)
    /\ getCredits(response) # <<>>
    /\ source' = response
    /\ films' = getCredits(response)
    /\ costars' = << >>
    /\ StartList("movies", films')
    /\ UNCHANGED <<search, walk, players, program>>

PrintRecord ==
    /\ printed' = Append(printed, [nr |-> num + 1, item |-> list[curr]])
    /\ num' = num + 1
    /\ curr' = curr + 1
    /\ UNCHANGED <<vars, program, costars, listing, list>>

HasFirst == curr <= Len(list) /\ num < NumToPrint

PrintFirst == pc = "first" /\ HasFirst /\ PrintRecord

\* Faulty: compares with <=.
SkipOneMore ==
    LET skipped == IF curr <= Len(list) THEN Max({0, Len(list) - NumToPrint - num + 1}) ELSE 0
    IN  /\ pc = "first" /\ ~HasFirst
        /\ num' = num + skipped
        /\ curr' = curr + skipped
        /\ pc' = "last"
        /\ UNCHANGED <<query, films, search, walk, players, program, costars, listing, list, printed>>

\* size() is unsigned, but the iterator is at the end when it is less than NumToPrint.
SkipRecords ==
    LET skipped == IF curr <= Len(list) THEN Max({0, Len(list) - NumToPrint - num}) ELSE 0
    IN  /\ pc = "first" /\ ~HasFirst
        /\ num' = num + skipped
        /\ curr' = curr + skipped
        /\ pc' = "last"
        /\ UNCHANGED <<query, films, search, walk, players, program, costars, listing, list, printed>>

PrintLast == pc = "last" /\ curr <= Len(list) /\ PrintRecord

\* stall, and the return from listMovies or listCostars.
EndOfList ==
    /\ pc = "last" /\ curr > Len(list)
    /\ pc' = IF listing = "movies" THEN "films" ELSE "source"
    /\ UNCHANGED <<query, films, search, walk, players, testVars>>

\* getCast is called for the next film of the player.
NextMovie ==
    /\ pc = "films" /\ films # <<>>
    /\ films' = Tail(films)
    /\ flm' = Head(films)
    /\ hit' \in AddrOfMovie(Head(films).title)
    /\ at' = hit' /\ i' = 1
    /\ pc' = "cast"
    /\ UNCHANGED <<query, search, players, testVars>>

Costars(name) == IF name \in DOMAIN costars THEN costars[name] ELSE {}

AddCast ==
    LET others == ToSet(players) \ {source}
    IN  /\ pc = "players"
        /\ costars' = [name \in DOMAIN costars \cup others |->
                         Costars(name) \cup (IF name \in others THEN {flm} ELSE {})]
        /\ players' = <<>>
        /\ pc' = "films"
        /\ UNCHANGED <<query, films, search, walk, program, output>>

\* The map is sorted by name, as the file of actors is.
IsBefore(a, b) ==
    \E j, k \in DOMAIN actorFile : j < k /\ actorFile[j].name = a /\ actorFile[k].name = b

NthName(names, n) ==
    CHOOSE c \in names : Cardinality({b \in names : IsBefore(b, c)}) = n - 1

ListCostars ==
    LET names == [k \in 1 .. Cardinality(DOMAIN costars) |-> NthName(DOMAIN costars, k)]
    IN  /\ pc = "films" /\ films = <<>>
        /\ StartList("costars",
                     [k \in DOMAIN names |->
                        [name |-> names[k], movies |-> Cardinality(costars[names[k]])]])
        /\ UNCHANGED <<query, films, search, walk, players, program, costars>>

-----------------------------------------------------------------------------
TestNext ==
    \/ (Walk \/ ReadCast \/ Quit \/ Finished) /\ UNCHANGED testVars
    \/ \E response \in Responses : ListAll(response)
    \/ PrintFirst \/ SkipRecords \/ PrintLast \/ EndOfList
    \/ NextMovie \/ AddCast \/ ListCostars

Programs ==
    \/ program = "six-degrees" /\ Next /\ UNCHANGED testVars
    \/ program = "imdb-test" /\ TestNext

\* Only the search of six-degrees is fair; nothing is asked of the lists but that they
\* are right when they end.
TestSpec ==
    /\ TestInit /\ [][Programs]_allVars
    /\ WF_allVars(program = "six-degrees" /\ Search /\ UNCHANGED testVars)

-----------------------------------------------------------------------------
(***************************************************************************)
(* Properties                                                              *)
(***************************************************************************)
FilmsOf(player) == {film \in AllFilms : player \in Cast(film)}

\* A list that has been printed shows the first and the last NumToPrint records, all
\* of them when there are not more than twice as many, each once and with its own
\* number.  The films are those with the player in their cast, and every costar has
\* the number of different films that both are in, although the cast of each is found
\* by its title and year.
ListsAreRight ==
    (pc = "last" /\ curr > Len(list)) =>
        LET size  == Len(list)
            shown == {k \in 1 .. size : k <= NumToPrint \/ k > size - NumToPrint}
        IN  /\ Len(printed) = Cardinality(shown)
            /\ ToSet(printed) = {[nr |-> k, item |-> list[k]] : k \in shown}
            /\ listing = "movies" =>
                  ToSet(list) = FilmsOf(source) /\ size = Cardinality(FilmsOf(source))
            /\ listing = "costars" =>
                  ToSet(list) =
                     {[name |-> c, movies |-> Cardinality(FilmsOf(source) \cap FilmsOf(c))] :
                        c \in {d \in Names \ {source} : Connected(source, d)}}
=============================================================================
