---------------------------- MODULE MCSixDegrees ----------------------------
(***************************************************************************)
(* Eight players and nine films: three films of one title and two of       *)
(* another, chains of one to four films, two ways of different length      *)
(* between some players, a film that connects nobody, and a player that    *)
(* nothing connects with the others; the user of either program names any  *)
(* of them, nobody, or a name that is in no film.                          *)
(***************************************************************************)
EXTENDS ImdbTest

Movie(title, year, actors) == [title |-> title, year |-> year, actors |-> actors]

MovieFileDef ==
    <<Movie("Bounty", 35, <<1, 2>>), Movie("Bounty", 62, <<2, 3>>), Movie("Bounty", 84, <<3, 4, 1>>),
      Movie("Kong", 33, <<5, 4>>), Movie("Kong", 105, <<6, 5>>),
      Movie("Metropolis", 27, <<8>>), Movie("Ran", 85, <<7, 6>>),
      Movie("Solaris", 72, <<2>>), Movie("Stalker", 79, <<3, 5>>)>>

CreditsOf(a) ==
    LET in(m) == \E k \in DOMAIN MovieFileDef[m].actors : MovieFileDef[m].actors[k] = a
    IN  SelectSeq([m \in DOMAIN MovieFileDef |-> m], in)

ActorFileDef ==
    [a \in 1 .. 8 |-> [name |-> <<"Ann", "Ben", "Cid", "Dot", "Eve", "Fay", "Gus", "Hal">>[a],
                       movies |-> CreditsOf(a)]]

ResponsesDef == {"Ann", "Ben", "Cid", "Dot", "Eve", "Fay", "Gus", "Hal", "", "nobody"}
=============================================================================
