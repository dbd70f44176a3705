----------------------------- MODULE SixDegrees -----------------------------
(***************************************************************************)
(* six-degrees.cc with path.cc and getCast of imdb.cc: the user names two  *)
(* players, and a breadth-first search looks for the shortest chain of     *)
(* films between them.  One action is one iteration of one of the loops.   *)
(***************************************************************************)
EXTENDS Imdb, FiniteSets

CONSTANTS
    Responses,   \* what the user may type, the empty line "" included
    MaxLength    \* 6 in generateShortestPath

ASSUME LengthAssumption == MaxLength \in Nat

VARIABLES
    pc,               \* "source", "target", "start", "loop", "films", "cast", "players", "end"
    source, target,
    st_act, en_act,
    done_credits,     \* the films of the players that have been looked up
    part_paths,       \* the queue
    visited_actors, visited_films,
    curr_elem,        \* the path that is being extended
    films,            \* the films of its last player that are left
    flm,
    hit, at, i,       \* getCast: what bsearch has found, where the walk is, its step
    players,          \* the cast of flm that is left
    answer            \* what was printed since a first player was named

query  == <<source, target>>
ends   == <<st_act, en_act>>
queue  == <<part_paths, curr_elem, films>>
walk   == <<flm, hit, at, i>>
marked == <<visited_actors, visited_films>>
vars   == <<pc, query, ends, done_credits, queue, marked, walk, players, answer>>

-----------------------------------------------------------------------------
(***************************************************************************)
(* path.cc                                                                 *)
(***************************************************************************)
path(player) == [startPlayer |-> player, links |-> <<>>]

getLength(p) == Len(p.links)

addConnection(p, movie, player) ==
    [p EXCEPT !.links = Append(@, [movie |-> movie, player |-> player])]

getLastPlayer(p) == IF p.links = <<>> THEN p.startPlayer ELSE p.links[Len(p.links)].player

reverse(p) ==
    LET n == Len(p.links)
    IN  [startPlayer |-> getLastPlayer(p),
         links |-> [k \in 1 .. n |->
                      [movie  |-> p.links[n + 1 - k].movie,
                       player |-> IF k < n THEN p.links[n - k].player ELSE p.startPlayer]]]

-----------------------------------------------------------------------------
NoFilm == [title |-> "", year |-> 0]

\* A database whose files cannot be opened ends the program at once.
Init ==
    /\ pc \in {"source", "end"}
    /\ source = "" /\ target = ""
    /\ st_act = "" /\ en_act = ""
    /\ done_credits = << >>
    /\ part_paths = <<>> /\ curr_elem = path("") /\ films = <<>>
    /\ visited_actors = {} /\ visited_films = {}
    /\ flm = NoFilm /\ hit = 0 /\ at = 0 /\ i = 0 /\ players = <<>>
    /\ answer = [kind |-> "nothing"]

-----------------------------------------------------------------------------
(***************************************************************************)
(* main and promptForActor: a name that is not in the database is asked    *)
(* for again, which changes nothing.                                       *)
(***************************************************************************)
Quit ==
    /\ pc \in {"source", "target"}
    /\ "" \in Responses
    /\ pc' = "end"
    /\ UNCHANGED <<query, ends, done_credits, queue, marked, walk, players, answer>>

PromptSource(response) ==
    /\ pc = "source" /\ Known(response)
    /\ source' = response
    /\ answer' = [kind |-> "nothing"]
    /\ pc' = "target"
    /\ UNCHANGED <<target, ends, done_credits, queue, marked, walk, players>>

PromptTarget(response) ==
    /\ pc = "target" /\ Known(response)
    /\ target' = response
    /\ pc' = IF response = source THEN "source" ELSE "start"
    /\ UNCHANGED <<source, ends, done_credits, queue, marked, walk, players, answer>>

-----------------------------------------------------------------------------
(***************************************************************************)
(* generateShortestPath                                                    *)
(***************************************************************************)
\* The search starts at the player with fewer films.
Begin ==
    LET start == IF Len(getCredits(source)) > Len(getCredits(target)) THEN target ELSE source
    IN  /\ pc = "start"
        /\ done_credits' = [player \in {source, target} |-> getCredits(player)]
        /\ st_act' = start
        /\ en_act' = IF start = target THEN source ELSE target
        /\ part_paths' = <<path(start)>>
        /\ pc' = "loop"
        /\ UNCHANGED <<query, curr_elem, films, marked, walk, players, answer>>

Continues == part_paths # <<>> /\ getLength(Head(part_paths)) < MaxLength

NextPath ==
    LET player == getLastPlayer(Head(part_paths))
    IN  /\ pc = "loop" /\ Continues
        /\ curr_elem' = Head(part_paths)
        /\ part_paths' = Tail(part_paths)
        /\ films' = IF player \in DOMAIN done_credits THEN done_credits[player] ELSE getCredits(player)
        /\ done_credits' = [p \in DOMAIN done_credits \cup {player} |->
                              IF p = player THEN films' ELSE done_credits[p]]
        /\ pc' = "films"
        /\ UNCHANGED <<query, ends, marked, walk, players, answer>>

\* The call returns with this answer; the next one has its local variables anew.
Return(result) ==
    /\ answer' = result
    /\ pc' = "source"
    /\ st_act' = "" /\ en_act' = ""
    /\ done_credits' = << >>
    /\ part_paths' = <<>> /\ curr_elem' = path("") /\ films' = <<>>
    /\ visited_actors' = {} /\ visited_films' = {}
    /\ flm' = NoFilm /\ hit' = 0 /\ at' = 0 /\ i' = 0 /\ players' = <<>>
    /\ UNCHANGED query

NoPath ==
    /\ pc = "loop" /\ ~Continues
    /\ Return([kind |-> "none"])

\* getCast begins with a search for the title.
NextFilm ==
    /\ pc = "films" /\ films # <<>>
    /\ films' = Tail(films)
    /\ IF Head(films) \in visited_films
       THEN UNCHANGED <<pc, visited_films, walk>>
       ELSE /\ visited_films' = visited_films \cup {Head(films)}
            /\ flm' = Head(films)
            /\ hit' \in AddrOfMovie(Head(films).title)
            /\ at' = hit'
            /\ i' = 1
            /\ pc' = "cast"
    /\ UNCHANGED <<query, ends, done_credits, part_paths, curr_elem, visited_actors, players, answer>>

EndOfFilms ==
    /\ pc = "films" /\ films = <<>>
    /\ pc' = "loop"
    /\ UNCHANGED <<query, ends, done_credits, queue, marked, walk, players, answer>>

-----------------------------------------------------------------------------
\* Faulty: takes any film with the title.
TitleFits == TRUE

YearFits == Film(at).year = flm.year

\* Faulty: the step stays the same.
WalkInPlace ==
    /\ pc = "cast" /\ ~YearFits
    /\ at' = IF Film(at).year < flm.year THEN hit + i ELSE hit - i
    /\ UNCHANGED <<pc, query, ends, done_credits, queue, marked, flm, hit, i, players, answer>>

\* getCast looks for another year on the side where it must be.
Walk ==
    /\ pc = "cast" /\ ~YearFits
    /\ at' = IF Film(at).year < flm.year THEN hit + i ELSE hit - i
    /\ i' = i + 1
    /\ UNCHANGED <<pc, query, ends, done_credits, queue, marked, flm, hit, players, answer>>

ReadCast ==
    /\ pc = "cast" /\ YearFits
    /\ players' = CastAt(at)
    /\ pc' = "players"
    /\ UNCHANGED <<query, ends, done_credits, queue, marked, walk, answer>>

-----------------------------------------------------------------------------
\* Faulty: a stack.
PushInFront(p) == <<p>> \o part_paths

Push(p) == Append(part_paths, p)

NextPlayer ==
    LET name  == Head(players)
        clone == addConnection(curr_elem, flm, name)
    IN  /\ pc = "players" /\ players # <<>>
        /\ name = en_act => name \in visited_actors
        /\ players' = Tail(players)
        /\ visited_actors' = visited_actors \cup {name}
        /\ part_paths' = IF name \in visited_actors THEN part_paths ELSE Push(clone)
        /\ UNCHANGED <<pc, query, ends, done_credits, curr_elem, films, visited_films, walk, answer>>

ReachTarget ==
    LET clone == addConnection(curr_elem, flm, en_act)
    IN  /\ pc = "players" /\ players # <<>>
        /\ Head(players) = en_act /\ en_act \notin visited_actors
        /\ Return([kind |-> "path", path |-> IF en_act = source THEN reverse(clone) ELSE clone])

EndOfPlayers ==
    /\ pc = "players" /\ players = <<>>
    /\ pc' = "films"
    /\ UNCHANGED <<query, ends, done_credits, queue, marked, walk, players, answer>>

Finished == pc = "end" /\ UNCHANGED vars

Search ==
    \/ Begin \/ NextPath \/ NoPath \/ NextFilm \/ EndOfFilms
    \/ Walk \/ ReadCast \/ NextPlayer \/ ReachTarget \/ EndOfPlayers

User == Quit \/ \E response \in Responses : PromptSource(response) \/ PromptTarget(response)

Next == Search \/ User \/ Finished

\* The search goes on by itself; the user may never answer.
Spec == Init /\ [][Next]_vars /\ WF_vars(Search)

-----------------------------------------------------------------------------
(***************************************************************************)
(* Properties                                                              *)
(***************************************************************************)
Names == {actorFile[a].name : a \in DOMAIN actorFile}

AllFilms == {Film(m) : m \in DOMAIN movieFile}

\* The cast of a film, by its title and its year.
Cast(film) ==
    UNION {{CastAt(m)[k] : k \in DOMAIN CastAt(m)} : m \in {l \in DOMAIN movieFile : Film(l) = film}}

Connected(a, b) == \E film \in AllFilms : {a, b} \subseteq Cast(film)

\* The players that so many films, or fewer, connect with a player.
Within(player, n) ==
    LET near[k \in 0 .. n] ==
          IF k = 0 THEN {player}
          ELSE LET closer == near[k - 1]
               IN  closer \cup {b \in Names : \E a \in closer : Connected(a, b)}
    IN  near[n]

IsChain(p) ==
    \A k \in DOMAIN p.links :
        {IF k = 1 THEN p.startPlayer ELSE p.links[k - 1].player, p.links[k].player}
           \subseteq Cast(p.links[k].movie)

\* A path that is printed leads from the first player to the second one, and the
\* players of each step were in the film of that step, although the search may run
\* from the second player.
PathIsRight(p) ==
    /\ p.startPlayer = source /\ getLastPlayer(p) = target
    /\ IsChain(p)
    /\ getLength(p) \in 1 .. MaxLength

\* What is printed is a path, and there is no shorter one, although the search treats
\* its own start as unvisited; that there is no path is said only when every one has
\* more than MaxLength films.
AnswerIsShortest ==
    /\ answer.kind = "path" =>
          /\ PathIsRight(answer.path)
          /\ target \notin Within(source, getLength(answer.path) - 1)
    /\ answer.kind = "none" => target \notin Within(source, MaxLength)

\* Whichever film of a title bsearch finds, the cast is the one of the film with the
\* year that was asked for.
CastIsRight ==
    [][(pc = "cast" /\ pc' = "players") =>
          {players'[k] : k \in DOMAIN players'} = Cast(flm)]_vars

\* A search comes to an end: no walk through the films of a title goes on forever,
\* and no path is extended in a circle.
SearchEnds == (pc = "start") ~> (pc = "source")
=============================================================================
