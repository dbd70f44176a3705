-------------------------------- MODULE Imdb --------------------------------
(***************************************************************************)
(* The movie database, imdb.cc: two files mapped into memory, each an      *)
(* array of offsets sorted by name and the records that they lead to.  An  *)
(* offset is here an index of the sequence of records.                     *)
(***************************************************************************)
EXTENDS Integers, Sequences

CONSTANTS
    actorFile,   \* sequence of [name, movies]: movies are indices of movieFile
    movieFile    \* sequence of [title, year, actors]: year is a byte

\* One byte after the title, a signed char, counted from 1900.
Year(byte) == (IF byte > 127 THEN byte - 256 ELSE byte) + 1900

\* A film is its title and its year: operator== and operator<.
Film(m) == [title |-> movieFile[m].title, year |-> Year(movieFile[m].year)]

\* What get_addr may return: bsearch finds any one of several equal keys.
AddrOfActor(player) == {a \in DOMAIN actorFile : actorFile[a].name = player}

AddrOfMovie(title) == {m \in DOMAIN movieFile : movieFile[m].title = title}

Known(player) == AddrOfActor(player) # {}

\* The films of a player that is in the file; there are no two of one name.
getCredits(player) ==
    LET movies == actorFile[CHOOSE a \in AddrOfActor(player) : TRUE].movies
    IN  [i \in DOMAIN movies |-> Film(movies[i])]

\* The end of getCast, when the record of the film is found.
CastAt(m) ==
    [i \in DOMAIN movieFile[m].actors |-> actorFile[movieFile[m].actors[i]].name]

\* The two files are numbered lists, and no index of one leads outside the other.
ASSUME FilesAssumption ==
    /\ Len(actorFile) \in Nat /\ DOMAIN actorFile = 1 .. Len(actorFile)
    /\ Len(movieFile) \in Nat /\ DOMAIN movieFile = 1 .. Len(movieFile)
    /\ \A m \in DOMAIN movieFile :
          /\ movieFile[m].year \in 0 .. 255
          /\ Len(movieFile[m].actors) \in Nat
          /\ DOMAIN movieFile[m].actors = 1 .. Len(movieFile[m].actors)
          /\ \A k \in DOMAIN movieFile[m].actors : movieFile[m].actors[k] \in DOMAIN actorFile
    /\ \A a \in DOMAIN actorFile :
          /\ Len(actorFile[a].movies) \in Nat
          /\ DOMAIN actorFile[a].movies = 1 .. Len(actorFile[a].movies)
          /\ \A k \in DOMAIN actorFile[a].movies : actorFile[a].movies[k] \in DOMAIN movieFile

\* One player has one record.  Films with one title stand together, by year and
\* with no year twice.  A player is in the cast of a film if and only if the film
\* is among the credits of the player.
ASSUME DatabaseAssumption ==
    /\ \A a, b \in DOMAIN actorFile : actorFile[a].name = actorFile[b].name => a = b
    /\ \A l, m, n \in DOMAIN movieFile :
          /\ (l < m /\ m < n /\ Film(l).title = Film(n).title) => Film(m).title = Film(l).title
          /\ (l < m /\ Film(l).title = Film(m).title) => Film(l).year < Film(m).year
    /\ \A a \in DOMAIN actorFile, m \in DOMAIN movieFile :
          (\E i \in DOMAIN actorFile[a].movies : actorFile[a].movies[i] = m)
             <=> (\E i \in DOMAIN movieFile[m].actors : movieFile[m].actors[i] = a)

\* No film is twice among the credits of a player.
ASSUME CreditsAssumption ==
    \A a \in DOMAIN actorFile : \A j, k \in DOMAIN actorFile[a].movies :
        actorFile[a].movies[j] = actorFile[a].movies[k] => j = k
=============================================================================
