---------------------------- MODULE SearchProofs ----------------------------
(***************************************************************************)
(* Proofs about SixDegrees, for every database that is as Imdb assumes and *)
(* every length of paths: getCast finds the cast of the film with the year *)
(* that was asked for, what is printed is a chain of films that leads from *)
(* the first player to the second one, and no chain is shorter; and the    *)
(* lists of the other program show the films and the costars of a player.  *)
(***************************************************************************)
EXTENDS ImdbTest, LibraryProofs

-----------------------------------------------------------------------------
(***************************************************************************)
(* The database                                                            *)
(***************************************************************************)
Credits(player) == {getCredits(player)[k] : k \in DOMAIN getCredits(player)}

CastSet(m) == {CastAt(m)[k] : k \in DOMAIN CastAt(m)}

\* Movies are numbered without a gap, and their years are numbers.
LEMMA MovieFacts ==
    /\ Len(movieFile) \in Nat /\ DOMAIN movieFile = 1 .. Len(movieFile)
    /\ \A m \in DOMAIN movieFile :
          /\ m \in Int
          /\ Film(m).year \in Int
          /\ Film(m).title = movieFile[m].title
  <1>1. Len(movieFile) \in Nat /\ DOMAIN movieFile = 1 .. Len(movieFile)
    BY FilesAssumption
  <1>2. ASSUME NEW m \in DOMAIN movieFile
        PROVE  m \in Int /\ Film(m).year \in Int /\ Film(m).title = movieFile[m].title
    <2>1. movieFile[m].year \in 0 .. 255 /\ m \in Int
      BY <1>1, FilesAssumption
    <2>2. Year(movieFile[m].year) \in Int
      BY <2>1 DEF Year
    <2> QED
      BY <2>1, <2>2 DEF Film
  <1> QED
    BY <1>1, <1>2

\* Title and year say which film it is.
LEMMA FilmIsOne ==
    ASSUME NEW l \in DOMAIN movieFile, NEW m \in DOMAIN movieFile,
           Film(l).title = Film(m).title, Film(l).year = Film(m).year
    PROVE  l = m
  <1>1. ~(l < m) /\ ~(m < l)
    BY DatabaseAssumption, MovieFacts
  <1> QED
    BY <1>1, MovieFacts

\* The cast of a film is the one at its record, and consists of names.
LEMMA CastFacts ==
    ASSUME NEW m \in DOMAIN movieFile
    PROVE  /\ Cast(Film(m)) = CastSet(m)
           /\ CastAt(m) \in Seq(CastSet(m))
           /\ CastSet(m) \subseteq Names
  <1>1. {l \in DOMAIN movieFile : Film(l) = Film(m)} = {m}
    BY FilmIsOne
  <1>2. Cast(Film(m)) = UNION {CastSet(l) : l \in {k \in DOMAIN movieFile : Film(k) = Film(m)}}
    BY DEF Cast, CastSet
  <1>3. Cast(Film(m)) = CastSet(m)
    BY <1>1, <1>2
  <1>4. /\ Len(movieFile[m].actors) \in Nat
        /\ DOMAIN movieFile[m].actors = 1 .. Len(movieFile[m].actors)
        /\ \A k \in DOMAIN movieFile[m].actors : movieFile[m].actors[k] \in DOMAIN actorFile
    BY FilesAssumption
  <1>5. DOMAIN CastAt(m) = 1 .. Len(movieFile[m].actors)
    BY <1>4 DEF CastAt
  <1>6. CastAt(m) = [k \in 1 .. Len(movieFile[m].actors) |-> CastAt(m)[k]]
    BY <1>4 DEF CastAt
  <1>7. CastAt(m) \in Seq(CastSet(m))
    BY <1>4, <1>5, <1>6 DEF CastSet
  <1>8. CastSet(m) \subseteq Names
    BY <1>4 DEF CastSet, CastAt, Names
  <1> QED
    BY <1>3, <1>7, <1>8

\* A function on 1 .. n is a sequence of its values.
LEMMA SequenceOf ==
    ASSUME NEW n \in Nat, NEW S, NEW f, f = [k \in 1 .. n |-> f[k]],
           \A k \in 1 .. n : f[k] \in S
    PROVE  f \in Seq(S)
  OBVIOUS

\* A player is in the cast of every film that getCredits returns.
LEMMA CreditFacts ==
    ASSUME NEW player \in Names
    PROVE  /\ Known(player)
           /\ getCredits(player) \in Seq(Credits(player))
           /\ Credits(player) \subseteq AllFilms
           /\ \A film \in Credits(player) : player \in Cast(film)
  <1>1. AddrOfActor(player) # {}
    BY DEF Names, AddrOfActor
  <1> DEFINE a == CHOOSE b \in AddrOfActor(player) : TRUE
             movies == actorFile[a].movies
  <1>2. a \in DOMAIN actorFile /\ actorFile[a].name = player
    BY <1>1 DEF AddrOfActor
  <1>3. getCredits(player) = [k \in DOMAIN movies |-> Film(movies[k])]
    BY DEF getCredits
  <1> HIDE DEF a
  <1>4. /\ Len(movies) \in Nat /\ DOMAIN movies = 1 .. Len(movies)
        /\ \A k \in DOMAIN movies : movies[k] \in DOMAIN movieFile
    BY <1>2, FilesAssumption
  <1>5. getCredits(player) \in Seq(Credits(player))
    <2>1. DOMAIN getCredits(player) = 1 .. Len(movies)
      BY <1>3, <1>4
    <2>2. getCredits(player) = [k \in 1 .. Len(movies) |-> getCredits(player)[k]]
      BY <1>3, <1>4
    <2>3. \A k \in 1 .. Len(movies) : getCredits(player)[k] \in Credits(player)
      BY <2>1 DEF Credits
    <2> HIDE DEF movies
    <2> QED
      BY <1>4, <2>2, <2>3, SequenceOf
  <1>6. Credits(player) \subseteq AllFilms
    BY <1>3, <1>4 DEF Credits, AllFilms
  <1>7. ASSUME NEW k \in DOMAIN movies PROVE player \in Cast(Film(movies[k]))
    <2>1. PICK j \in DOMAIN movieFile[movies[k]].actors : movieFile[movies[k]].actors[j] = a
      BY <1>2, <1>4, DatabaseAssumption
    <2>2. CastAt(movies[k])[j] = player /\ j \in DOMAIN CastAt(movies[k])
      BY <1>2, <2>1 DEF CastAt
    <2> QED
      BY <1>4, <2>2, CastFacts DEF CastSet
  <1> QED
    BY <1>1, <1>3, <1>5, <1>6, <1>7 DEF Credits, Known

-----------------------------------------------------------------------------
(***************************************************************************)
(* Paths                                                                   *)
(***************************************************************************)
Links == [movie : AllFilms, player : Names]

Paths == [startPlayer : Names, links : Seq(Links)]

\* The player before the link number k.
Before(p, k) == IF k = 1 THEN p.startPlayer ELSE p.links[k - 1].player

\* A path of the search: it begins where the search does, and is not too long.
IsRoute(p) ==
    /\ p \in Paths /\ IsChain(p)
    /\ p.startPlayer = st_act
    /\ getLength(p) <= MaxLength

\* The last player of a path is a name.
LEMMA LastPlayerIsName ==
    ASSUME NEW p \in Paths
    PROVE  getLastPlayer(p) \in Names /\ getLength(p) \in Nat
  <1>1. p.links \in Seq(Links) /\ p.startPlayer \in Names
    BY DEF Paths
  <1>2. Len(p.links) \in Nat
    BY <1>1
  <1>3. CASE p.links = <<>>
    BY <1>1, <1>2, <1>3 DEF getLastPlayer, getLength
  <1>4. CASE p.links # <<>>
    <2>1. p.links[Len(p.links)] \in Links
      BY <1>1, <1>4
    <2> QED
      BY <1>2, <1>4, <2>1 DEF getLastPlayer, getLength, Links
  <1> QED
    BY <1>3, <1>4

\* The path that a search begins with.
LEMMA StartOfPath ==
    ASSUME NEW player \in Names
    PROVE  /\ path(player) \in Paths /\ IsChain(path(player))
           /\ getLength(path(player)) = 0 /\ path(player).startPlayer = player
           /\ getLastPlayer(path(player)) = player
  <1>1. <<>> \in Seq(Links) /\ Len(<<>>) = 0 /\ DOMAIN <<>> = {}
    OBVIOUS
  <1>2. path(player) = [startPlayer |-> player, links |-> <<>>]
    BY DEF path
  <1> QED
    BY <1>1, <1>2 DEF Paths, IsChain, getLength, getLastPlayer

\* A connection to a player in the cast of a film of the last player.
LEMMA Connection ==
    ASSUME NEW p \in Paths, IsChain(p), NEW film \in AllFilms, NEW player \in Names,
           {getLastPlayer(p), player} \subseteq Cast(film)
    PROVE  LET q == addConnection(p, film, player)
           IN  /\ q \in Paths /\ IsChain(q)
               /\ q.startPlayer = p.startPlayer
               /\ getLength(q) = getLength(p) + 1
               /\ getLastPlayer(q) = player
  <1> DEFINE link == [movie |-> film, player |-> player]
             q == addConnection(p, film, player)
             n == Len(p.links)
  <1>1. p.links \in Seq(Links) /\ p.startPlayer \in Names /\ n \in Nat
    BY DEF Paths
  <1>2. link \in Links /\ link.movie = film /\ link.player = player
    BY DEF Links
  <1>3. q = [startPlayer |-> p.startPlayer, links |-> Append(p.links, link)]
    BY DEF addConnection, Paths
  <1> HIDE DEF link
  <1>4. /\ q.links = Append(p.links, link) /\ q.startPlayer = p.startPlayer
        /\ q.links \in Seq(Links) /\ Len(q.links) = n + 1
        /\ q.links[n + 1] = link /\ \A k \in 1 .. n : q.links[k] = p.links[k]
    BY <1>1, <1>2, <1>3
  <1>5. q \in Paths
    BY <1>1, <1>3, <1>4 DEF Paths
  <1> HIDE DEF q
  <1>6. getLength(q) = getLength(p) + 1 /\ q.links # <<>>
    BY <1>1, <1>4 DEF getLength
  <1>7. getLastPlayer(q) = player
    BY <1>2, <1>4, <1>6 DEF getLastPlayer
  <1>8. ASSUME NEW k \in DOMAIN q.links
        PROVE  {Before(q, k), q.links[k].player} \subseteq Cast(q.links[k].movie)
    <2>0. k \in 1 .. (n + 1)
      BY <1>1, <1>4, <1>8
    <2>1. CASE k = n + 1
      <3>1. Before(q, k) = getLastPlayer(p)
        <4>1. CASE n = 0
          BY <1>1, <1>4, <2>1, <4>1 DEF Before, getLastPlayer
        <4>2. CASE n # 0
          <5>1. k - 1 = n /\ n \in 1 .. n /\ p.links # <<>>
            BY <1>1, <2>1, <4>2
          <5> QED
            BY <1>1, <1>4, <2>1, <4>2, <5>1 DEF Before, getLastPlayer
        <4> QED
          BY <4>1, <4>2
      <3> QED
        BY <1>2, <1>4, <2>1, <3>1
    <2>2. CASE k \in 1 .. n
      <3>1. q.links[k] = p.links[k] /\ Before(q, k) = Before(p, k) /\ k \in DOMAIN p.links
        BY <1>1, <1>4, <2>2 DEF Before
      <3> QED
        BY <3>1 DEF IsChain, Before
    <2> QED
      BY <1>1, <2>0, <2>1, <2>2
  <1>9. IsChain(q)
    BY <1>8 DEF IsChain, Before
  <1> QED
    BY <1>4, <1>5, <1>6, <1>7, <1>9 DEF q

\* A path that is turned around leads from its last player to its first one.
LEMMA Reversal ==
    ASSUME NEW p \in Paths, IsChain(p), getLength(p) >= 1
    PROVE  LET q == reverse(p)
           IN  /\ IsChain(q)
               /\ q.startPlayer = getLastPlayer(p)
               /\ getLastPlayer(q) = p.startPlayer
               /\ getLength(q) = getLength(p)
  <1> DEFINE q == reverse(p)
             n == Len(p.links)
  <1>1. p.links \in Seq(Links) /\ n \in Nat /\ n >= 1 /\ DOMAIN p.links = 1 .. n
    BY DEF Paths, getLength
  <1>2. q.startPlayer = getLastPlayer(p)
    BY DEF reverse
  <1>3. q.links = [k \in 1 .. n |->
                     [movie  |-> p.links[n + 1 - k].movie,
                      player |-> IF k < n THEN p.links[n - k].player ELSE p.startPlayer]]
    BY DEF reverse
  <1> HIDE DEF q
  <1>4. DOMAIN q.links = 1 .. n /\ Len(q.links) = n /\ q.links # <<>>
    BY <1>1, <1>3
  <1>5. getLastPlayer(p) = p.links[n].player
    BY <1>1 DEF getLastPlayer
  <1>6. getLastPlayer(q) = p.startPlayer
    <2>1. q.links[n].player = p.startPlayer
      BY <1>1, <1>3
    <2> QED
      BY <1>4, <2>1 DEF getLastPlayer
  <1>7. ASSUME NEW k \in 1 .. n
        PROVE  {Before(q, k), q.links[k].player} \subseteq Cast(q.links[k].movie)
    <2> DEFINE j == n + 1 - k
    <2>1. j \in 1 .. n
      BY <1>1, <1>7
    <2>2. {Before(p, j), p.links[j].player} \subseteq Cast(p.links[j].movie)
      BY <1>1, <2>1 DEF IsChain, Before
    <2>3. q.links[k].movie = p.links[j].movie
      BY <1>3, <1>7
    <2>4. q.links[k].player = Before(p, j)
      <3>1. CASE k < n
        BY <1>1, <1>3, <1>7, <3>1 DEF Before
      <3>2. CASE k = n
        BY <1>1, <1>3, <1>7, <3>2 DEF Before
      <3> QED
        BY <1>1, <1>7, <3>1, <3>2
    <2>5. Before(q, k) = p.links[j].player
      <3>1. CASE k = 1
        BY <1>1, <1>2, <1>5, <3>1 DEF Before
      <3>2. CASE k # 1
        <4>1. k - 1 \in 1 .. n /\ k - 1 < n /\ n - (k - 1) = j
          BY <1>1, <1>7, <3>2
        <4>2. q.links[k - 1].player = p.links[n - (k - 1)].player
          BY <1>3, <4>1
        <4> QED
          BY <3>2, <4>1, <4>2 DEF Before
      <3> QED
        BY <3>1, <3>2
    <2> HIDE DEF j
    <2> QED
      BY <2>2, <2>3, <2>4, <2>5
  <1>8. IsChain(q)
    BY <1>4, <1>7 DEF IsChain, Before
  <1> QED
    BY <1>2, <1>4, <1>6, <1>8 DEF q, getLength

-----------------------------------------------------------------------------
(***************************************************************************)
(* How far players are from each other                                     *)
(***************************************************************************)
Neighbours(S) == {b \in Names : \E a \in S : Connected(a, b)}

\* near is the recursive function in Within, and what it is at k.
NearOf(near, player, k) ==
    IF k = 0 THEN {player} ELSE near[k - 1] \cup Neighbours(near[k - 1])

IsNear(near, player, n) == near = [k \in 0 .. n |-> NearOf(near, player, k)]

\* Within by its definition.
LEMMA WithinDef ==
    ASSUME NEW player, NEW n
    PROVE  Within(player, n) = (CHOOSE near : IsNear(near, player, n))[n]
  BY DEF Within, IsNear, NearOf, Neighbours

\* The values of the recursive function.
LEMMA NearAt ==
    ASSUME NEW player, NEW n \in Nat, NEW near, IsNear(near, player, n), NEW k \in 0 .. n
    PROVE  near[k] = NearOf(near, player, k)
  BY DEF IsNear

\* A solution is a solution up to every smaller number too.
LEMMA NearUnique ==
    ASSUME NEW player, NEW m \in Nat, NEW n \in Nat, NEW f, NEW g,
           IsNear(f, player, m), IsNear(g, player, n), NEW k \in 0 .. m, k \in 0 .. n
    PROVE  f[k] = g[k]
  <1> DEFINE bad == {j \in Nat : j \in 0 .. m /\ j \in 0 .. n /\ f[j] # g[j]}
  <1>1. bad = {}
    <2> SUFFICES ASSUME bad # {} PROVE FALSE
      OBVIOUS
    <2>1. PICK j \in bad : \A x \in bad : j <= x
      BY LeastNumber
    <2>a. j \in Nat /\ j \in 0 .. m /\ j \in 0 .. n /\ f[j] # g[j]
      BY <2>1
    <2>b. f[j] = NearOf(f, player, j) /\ g[j] = NearOf(g, player, j)
      BY <2>a, NearAt, Zenon
    <2>2. j # 0
      <3> SUFFICES ASSUME j = 0 PROVE FALSE
        OBVIOUS
      <3> QED
        BY <2>a, <2>b DEF NearOf
    <2>3. j - 1 \in Nat /\ j - 1 \in 0 .. m /\ j - 1 \in 0 .. n /\ ~(j <= j - 1)
      BY <2>1, <2>2
    <2>4. f[j - 1] = g[j - 1]
      BY <2>1, <2>3
    <2> QED
      BY <2>a, <2>b, <2>2, <2>4 DEF NearOf
  <1> QED
    BY <1>1

\* The recursion has a solution.
LEMMA NearExists ==
    ASSUME NEW player, NEW n \in Nat
    PROVE  IsNear(CHOOSE near : IsNear(near, player, n), player, n)
  <1> DEFINE S == {m \in Nat : \E near : IsNear(near, player, m)}
  <1>1. 0 \in S
    <2>1. IsNear([k \in 0 .. 0 |-> {player}], player, 0)
      BY DEF IsNear, NearOf
    <2> QED
      BY <2>1
  <1>2. ASSUME NEW m \in Nat, m \in S PROVE m + 1 \in S
    <2>1. PICK f : IsNear(f, player, m)
      BY <1>2
    <2> DEFINE g == [k \in 0 .. (m + 1) |->
                        IF k <= m THEN f[k] ELSE f[m] \cup Neighbours(f[m])]
    <2>2. ASSUME NEW k \in 0 .. (m + 1)
          PROVE  g[k] = NearOf(g, player, k)
      <3>1. CASE k = 0
        <4>1. 0 \in 0 .. m /\ 0 \in 0 .. (m + 1) /\ 0 <= m
          BY <1>2
        <4>2. f[0] = NearOf(f, player, 0)
          BY <1>2, <2>1, <4>1, NearAt, Zenon
        <4> QED
          BY <3>1, <4>1, <4>2 DEF NearOf
      <3>2. CASE k # 0 /\ k <= m
        <4>1. k \in 0 .. m /\ k - 1 \in 0 .. (m + 1) /\ k - 1 <= m
          BY <1>2, <2>2, <3>2
        <4>2. f[k] = NearOf(f, player, k)
          BY <1>2, <2>1, <4>1, NearAt, Zenon
        <4> QED
          BY <3>2, <4>1, <4>2 DEF NearOf
      <3>3. CASE k = m + 1
        <4>1. k # 0 /\ ~(k <= m) /\ k - 1 = m /\ m \in 0 .. (m + 1) /\ m <= m
          BY <1>2, <3>3
        <4> QED
          BY <2>2, <4>1 DEF NearOf
      <3> QED
        BY <1>2, <2>2, <3>1, <3>2, <3>3
    <2> HIDE DEF g
    <2>3. g = [k \in 0 .. (m + 1) |-> g[k]]
      BY DEF g
    <2>4. IsNear(g, player, m + 1)
      BY <2>2, <2>3 DEF IsNear
    <2> QED
      BY <1>2, <2>4
  <1> HIDE DEF S
  <1>3. Nat \subseteq S
    BY <1>1, <1>2, NatClosed
  <1> QED
    BY <1>3 DEF S

\* Within is what its recursion says.
LEMMA WithinFacts ==
    ASSUME NEW player
    PROVE  /\ Within(player, 0) = {player}
           /\ \A n \in Nat : Within(player, n + 1) = Within(player, n) \cup Neighbours(Within(player, n))
  <1> DEFINE near(n) == CHOOSE f : IsNear(f, player, n)
  <1>1. ASSUME NEW n \in Nat PROVE IsNear(near(n), player, n) /\ Within(player, n) = near(n)[n]
    BY NearExists, WithinDef
  <1> HIDE DEF near
  <1>2. Within(player, 0) = {player}
    <2>1. 0 \in Nat /\ 0 \in 0 .. 0
      OBVIOUS
    <2>2. near(0)[0] = NearOf(near(0), player, 0)
      BY <1>1, <2>1, NearAt, Zenon
    <2> QED
      BY <1>1, <2>1, <2>2 DEF NearOf
  <1>3. ASSUME NEW n \in Nat
        PROVE  Within(player, n + 1) = Within(player, n) \cup Neighbours(Within(player, n))
    <2>1. n + 1 \in Nat /\ n + 1 \in 0 .. (n + 1) /\ n + 1 # 0 /\ (n + 1) - 1 = n
          /\ n \in 0 .. n /\ n \in 0 .. (n + 1)
      OBVIOUS
    <2>2. near(n + 1)[n + 1] = NearOf(near(n + 1), player, n + 1)
      BY <1>1, <2>1, NearAt, Zenon
    <2>3. near(n + 1)[n] = near(n)[n]
      <3>1. IsNear(near(n + 1), player, n + 1) /\ IsNear(near(n), player, n)
        BY <1>1, <2>1
      <3>2. ASSUME NEW f, NEW g, NEW m \in Nat, m = n + 1,
                   IsNear(f, player, m), IsNear(g, player, n)
            PROVE  f[n] = g[n]
        <4>1. n \in 0 .. m /\ n \in 0 .. n
          BY <2>1, <3>2
        <4> QED
          BY <3>2, <4>1, NearUnique
      <3> QED
        BY <2>1, <3>1, <3>2, Zenon
    <2> QED
      BY <1>1, <2>1, <2>2, <2>3 DEF NearOf
  <1> QED
    BY <1>2, <1>3

\* Everybody that is nearer is within a greater distance too.
LEMMA WithinGrows ==
    ASSUME NEW player, NEW m \in Nat, NEW n \in Nat, m <= n
    PROVE  Within(player, m) \subseteq Within(player, n)
  <1> DEFINE S == {d \in Nat : Within(player, m) \subseteq Within(player, m + d)}
  <1>1. 0 \in S
    OBVIOUS
  <1>2. ASSUME NEW d \in Nat, d \in S PROVE d + 1 \in S
    <2>1. m + d \in Nat /\ m + (d + 1) = (m + d) + 1
      OBVIOUS
    <2>2. Within(player, m + d) \subseteq Within(player, (m + d) + 1)
      BY <2>1, WithinFacts
    <2> QED
      BY <1>2, <2>1, <2>2
  <1> HIDE DEF S
  <1>3. Nat \subseteq S
    BY <1>1, <1>2, NatClosed
  <1>4. n - m \in Nat /\ m + (n - m) = n
    OBVIOUS
  <1> QED
    BY <1>3, <1>4 DEF S

\* A set that no film leads out of contains everybody within any distance.
LEMMA WithinClosed ==
    ASSUME NEW player, NEW D, player \in D, Neighbours(D) \subseteq D, NEW n \in Nat
    PROVE  Within(player, n) \subseteq D
  <1> DEFINE S == {m \in Nat : Within(player, m) \subseteq D}
  <1>1. 0 \in S
    BY WithinFacts
  <1>2. ASSUME NEW m \in Nat, m \in S PROVE m + 1 \in S
    BY <1>2, WithinFacts DEF Neighbours
  <1> HIDE DEF S
  <1>3. Nat \subseteq S
    BY <1>1, <1>2, NatClosed
  <1> QED
    BY <1>3 DEF S

\* Only names are within a distance of a name.
LEMMA WithinNames ==
    ASSUME NEW player \in Names, NEW n \in Nat
    PROVE  Within(player, n) \subseteq Names
  BY WithinClosed DEF Neighbours

\* One film in front of a chain makes it one film longer.
LEMMA WithinFront ==
    ASSUME NEW a, NEW b \in Names, Connected(a, b), NEW n \in Nat
    PROVE  Within(b, n) \subseteq Within(a, n + 1)
  <1> DEFINE S == {m \in Nat : Within(b, m) \subseteq Within(a, m + 1)}
  <1>1. 0 \in S
    <2>1. b \in Neighbours({a})
      BY DEF Neighbours
    <2>2. Within(a, 0 + 1) = Within(a, 0) \cup Neighbours(Within(a, 0))
      BY WithinFacts
    <2>3. Within(a, 0) = {a} /\ Within(b, 0) = {b}
      BY WithinFacts
    <2> QED
      BY <2>1, <2>2, <2>3
  <1>2. ASSUME NEW m \in Nat, m \in S PROVE m + 1 \in S
    <2>1. Within(b, m + 1) = Within(b, m) \cup Neighbours(Within(b, m))
      BY WithinFacts
    <2>2. Within(a, (m + 1) + 1) = Within(a, m + 1) \cup Neighbours(Within(a, m + 1))
      BY WithinFacts
    <2> QED
      BY <1>2, <2>1, <2>2 DEF Neighbours
  <1> HIDE DEF S
  <1>3. Nat \subseteq S
    BY <1>1, <1>2, NatClosed
  <1> QED
    BY <1>3 DEF S

\* Distance is the same in both directions.
LEMMA WithinSymmetric ==
    ASSUME NEW a \in Names, NEW b, NEW n \in Nat, b \in Within(a, n)
    PROVE  a \in Within(b, n)
  <1> DEFINE S == {m \in Nat : \A c \in Within(a, m) : a \in Within(c, m)}
  <1>1. 0 \in S
    BY WithinFacts
  <1>2. ASSUME NEW m \in Nat, m \in S PROVE m + 1 \in S
    <2> SUFFICES ASSUME NEW c \in Within(a, m + 1) PROVE a \in Within(c, m + 1)
      OBVIOUS
    <2>1. CASE c \in Within(a, m)
      <3>1. a \in Within(c, m)
        BY <1>2, <2>1
      <3> QED
        BY <3>1, WithinFacts
    <2>2. CASE c \in Neighbours(Within(a, m))
      <3>1. PICK d \in Within(a, m) : Connected(d, c)
        BY <2>2 DEF Neighbours
      <3>2. d \in Names /\ Connected(c, d)
        BY <3>1, WithinNames DEF Connected
      <3>3. a \in Within(d, m)
        BY <1>2, <3>1
      <3> QED
        BY <3>2, <3>3, WithinFront
    <2> QED
      BY <2>1, <2>2, WithinFacts
  <1> HIDE DEF S
  <1>3. Nat \subseteq S
    BY <1>1, <1>2, NatClosed
  <1> QED
    BY <1>3 DEF S

-----------------------------------------------------------------------------
(***************************************************************************)
(* The inductive invariant                                                 *)
(***************************************************************************)
\* Where the walk through the films of a title is: it has left hit in the direction
\* of the film that it looks for and has not gone past it.
OnTheWay(t) ==
    /\ hit \in DOMAIN movieFile /\ Film(hit).title = Film(t).title
    /\ i \in Nat \ {0}
    /\ \/ at = hit + (i - 1) /\ at <= t
       \/ at = hit - (i - 1) /\ t <= at

WalkInv == \E t \in DOMAIN movieFile : flm = Film(t) /\ OnTheWay(t)

Inside == {"loop", "films", "cast", "players"}

\* What is known of the two ends, the queue and the looked-up credits.
QueueInv ==
    /\ st_act \in Names /\ en_act \in Names
    /\ \/ st_act = source /\ en_act = target
       \/ st_act = target /\ en_act = source
    /\ part_paths \in Seq(Paths)
    /\ \A k \in DOMAIN part_paths : IsRoute(part_paths[k])
    /\ \A p \in DOMAIN done_credits : p \in Names /\ done_credits[p] = getCredits(p)

\* What is known of the path that is being extended.
ElemInv ==
    /\ IsRoute(curr_elem) /\ getLength(curr_elem) < MaxLength
    /\ films \in Seq(Credits(getLastPlayer(curr_elem)))

AnswerInv ==
    answer.kind = "path" =>
        pc \in {"source", "end"} /\ PathIsRight(answer.path)

SearchInv ==
    /\ pc \in {"target", "start"} \cup Inside => source \in Names
    /\ pc \in {"start"} \cup Inside => target \in Names
    /\ pc \in Inside => QueueInv
    /\ pc \in {"films", "cast", "players"} => ElemInv
    /\ pc \in {"cast", "players"} => flm \in Credits(getLastPlayer(curr_elem))
    /\ pc = "cast" => WalkInv
    /\ pc = "players" => players \in Seq(Cast(flm))
    /\ AnswerInv

\* The invariant holds at the beginning.
LEMMA SearchInit == Init => SearchInv
  <1> SUFFICES ASSUME Init PROVE SearchInv
    OBVIOUS
  <1>1. pc \in {"source", "end"} /\ answer.kind = "nothing"
    BY DEF Init
  <1> QED
    BY <1>1 DEF SearchInv, Inside, AnswerInv

\* A walk that is not at its film goes on towards it.
LEMMA WalkStep ==
    ASSUME WalkInv, Walk
    PROVE  WalkInv'
  <1>1. PICK t \in DOMAIN movieFile : flm = Film(t) /\ OnTheWay(t)
    BY DEF WalkInv
  <1>2. /\ hit' = hit /\ flm' = flm /\ i' = i + 1
        /\ at' = IF Film(at).year < flm.year THEN hit + i ELSE hit - i
        /\ Film(at).year # flm.year
    BY DEF Walk, YearFits
  <1>3. hit \in DOMAIN movieFile /\ hit \in Int /\ t \in Int /\ i \in Nat \ {0}
    BY <1>1, MovieFacts DEF OnTheWay
  <1>4. CASE at = hit + (i - 1) /\ at <= t
    <2>1. at \in DOMAIN movieFile /\ at < t
      <3>1. at # t
        BY <1>1, <1>2
      <3> QED
        BY <1>3, <1>4, <3>1, MovieFacts
    <2>2. Film(at).title = Film(t).title
      <3>1. CASE at = hit
        BY <1>1, <3>1 DEF OnTheWay
      <3>2. CASE at # hit
        <4>1. hit < at
          BY <1>3, <1>4, <3>2
        <4>2. Film(hit).title = Film(t).title
          BY <1>1 DEF OnTheWay
        <4> QED
          BY <1>3, <2>1, <4>1, <4>2, DatabaseAssumption
      <3> QED
        BY <3>1, <3>2
    <2>3. Film(at).year < Film(t).year
      BY <2>1, <2>2, DatabaseAssumption
    <2>4. at' = hit + i /\ at' <= t
      BY <1>1, <1>2, <1>3, <1>4, <2>1, <2>3
    <2>5. OnTheWay(t)'
      BY <1>1, <1>2, <1>3, <2>4 DEF OnTheWay
    <2> QED
      BY <1>1, <1>2, <2>5 DEF WalkInv
  <1>5. CASE at = hit - (i - 1) /\ t <= at
    <2>1. at \in DOMAIN movieFile /\ t < at
      <3>1. at # t
        BY <1>1, <1>2
      <3> QED
        BY <1>3, <1>5, <3>1, MovieFacts
    <2>2. Film(at).title = Film(t).title
      <3>1. CASE at = hit
        BY <1>1, <3>1 DEF OnTheWay
      <3>2. CASE at # hit
        <4>1. at < hit
          BY <1>3, <1>5, <3>2
        <4>2. Film(hit).title = Film(t).title
          BY <1>1 DEF OnTheWay
        <4>3. Film(t).title = Film(hit).title
          BY <4>2
        <4> QED
          BY <1>3, <2>1, <4>1, <4>3, DatabaseAssumption
      <3> QED
        BY <3>1, <3>2
    <2>3. Film(t).year < Film(at).year
      BY <2>1, <2>2, DatabaseAssumption
    <2>4. at' = hit - i /\ t <= at'
      <3>1. ~(Film(at).year < flm.year)
        BY <1>1, <2>1, <2>3, MovieFacts
      <3> QED
        BY <1>1, <1>2, <1>3, <1>5, <2>1, <3>1, MovieFacts
    <2>5. OnTheWay(t)'
      BY <1>1, <1>2, <1>3, <2>4 DEF OnTheWay
    <2> QED
      BY <1>1, <1>2, <2>5 DEF WalkInv
  <1> QED
    BY <1>1, <1>4, <1>5 DEF OnTheWay

\* A walk that ends is at the film.
LEMMA WalkEnd ==
    ASSUME WalkInv, YearFits
    PROVE  at \in DOMAIN movieFile /\ flm = Film(at)
  <1>1. PICK t \in DOMAIN movieFile : flm = Film(t) /\ OnTheWay(t)
    BY DEF WalkInv
  <1>2. hit \in DOMAIN movieFile /\ hit \in Int /\ t \in Int /\ i \in Nat \ {0}
    BY <1>1, MovieFacts DEF OnTheWay
  <1>3. Film(hit).title = Film(t).title /\ Film(t).title = Film(hit).title
    BY <1>1 DEF OnTheWay
  <1>4. at \in DOMAIN movieFile
    BY <1>1, <1>2, MovieFacts DEF OnTheWay
  <1>5. Film(at).title = Film(t).title
    <2>1. CASE at = hit \/ at = t
      BY <1>3, <2>1
    <2>2. CASE hit < at /\ at < t
      BY <1>2, <1>3, <1>4, <2>2, DatabaseAssumption
    <2>3. CASE t < at /\ at < hit
      BY <1>2, <1>3, <1>4, <2>3, DatabaseAssumption
    <2> QED
      BY <1>1, <1>2, <1>4, <2>1, <2>2, <2>3, MovieFacts DEF OnTheWay
  <1>6. at = t
    BY <1>1, <1>4, <1>5, FilmIsOne DEF YearFits
  <1> QED
    BY <1>1, <1>6

-----------------------------------------------------------------------------
(***************************************************************************)
(* The steps                                                               *)
(***************************************************************************)
\* What is said of the queue and of the path depends on these variables only.
LEMMA QueueKept ==
    ASSUME QueueInv, UNCHANGED <<query, ends, done_credits, part_paths>>
    PROVE  QueueInv'
  BY DEF QueueInv, query, ends, IsRoute, IsChain

\* Steps that do not touch the path at hand keep what is known of it.
LEMMA ElemKept ==
    ASSUME ElemInv, UNCHANGED <<ends, curr_elem, films>>
    PROVE  ElemInv'
  BY DEF ElemInv, ends, IsRoute, IsChain

\* No path is printed while the search goes on.
LEMMA AnswerKept ==
    ASSUME SearchInv, pc \notin {"source", "end"}, answer' = answer
    PROVE  AnswerInv'
  BY DEF SearchInv, AnswerInv

\* A return with something else than a path.
LEMMA ReturnStep ==
    ASSUME SearchInv, pc \in Inside, NEW result, Return(result),
           result.kind = "path" => PathIsRight(result.path)
    PROVE  SearchInv'
  <1>1. pc' = "source" /\ answer' = result /\ source' = source /\ target' = target
    BY DEF Return, query
  <1>2. AnswerInv'
    BY <1>1 DEF AnswerInv, PathIsRight, IsChain
  <1> QED
    BY <1>1, <1>2 DEF SearchInv, Inside

\* The questions for the two names, and the end.
LEMMA UserStep ==
    ASSUME SearchInv, User
    PROVE  SearchInv'
  <1>1. CASE Quit
    <2>1. pc' = "end" /\ UNCHANGED <<query, answer>> /\ pc \in {"source", "target"}
      BY <1>1 DEF Quit
    <2>2. AnswerInv'
      BY <2>1 DEF SearchInv, AnswerInv, PathIsRight, IsChain, query
    <2> QED
      BY <2>1, <2>2 DEF SearchInv, Inside
  <1>2. ASSUME NEW response \in Responses, PromptSource(response) PROVE SearchInv'
    <2>1. pc' = "target" /\ source' = response /\ answer'.kind = "nothing"
      BY <1>2 DEF PromptSource
    <2>2. response \in Names
      BY <1>2 DEF PromptSource, Known, AddrOfActor, Names
    <2> QED
      BY <2>1, <2>2 DEF SearchInv, Inside, AnswerInv
  <1>3. ASSUME NEW response \in Responses, PromptTarget(response) PROVE SearchInv'
    <2>1. /\ pc = "target" /\ pc' \in {"source", "start"} /\ target' = response
          /\ source' = source /\ answer' = answer
      BY <1>3 DEF PromptTarget
    <2>2. response \in Names
      BY <1>3 DEF PromptTarget, Known, AddrOfActor, Names
    <2>3. AnswerInv'
      BY <2>1, AnswerKept
    <2> QED
      BY <2>1, <2>2, <2>3 DEF SearchInv, Inside
  <1> QED
    BY <1>1, <1>2, <1>3 DEF User

\* The queue begins with the path of the source alone.
LEMMA BeginStep ==
    ASSUME SearchInv, Begin
    PROVE  SearchInv'
  <1>1. /\ pc = "start" /\ source \in Names /\ target \in Names
        /\ pc' = "loop" /\ source' = source /\ target' = target /\ answer' = answer
        /\ part_paths' = <<path(st_act')>>
        /\ done_credits' = [player \in {source, target} |-> getCredits(player)]
        /\ \/ st_act' = source /\ en_act' = target
           \/ st_act' = target /\ en_act' = source
    BY DEF Begin, SearchInv, query
  <1>2. /\ st_act' \in Names /\ path(st_act') \in Paths /\ IsChain(path(st_act'))
        /\ path(st_act').startPlayer = st_act' /\ getLength(path(st_act')) = 0
    BY <1>1, StartOfPath
  <1>3. /\ part_paths' \in Seq(Paths)
        /\ \A k \in DOMAIN part_paths' : part_paths'[k] = path(st_act')
    BY <1>1, <1>2
  <1>4. QueueInv'
    BY <1>1, <1>2, <1>3, LengthAssumption DEF QueueInv, IsRoute, IsChain
  <1>5. AnswerInv'
    BY <1>1, AnswerKept
  <1> QED
    BY <1>1, <1>4, <1>5 DEF SearchInv, Inside

\* The path that is taken from the queue becomes the one at hand.
LEMMA NextPathStep ==
    ASSUME SearchInv, NextPath
    PROVE  SearchInv'
  <1> DEFINE player == getLastPlayer(Head(part_paths))
  <1>1. /\ pc = "loop" /\ pc' = "films" /\ answer' = answer
        /\ source \in Names /\ target \in Names /\ QueueInv
        /\ UNCHANGED <<source, target, st_act, en_act>>
        /\ part_paths # <<>> /\ getLength(Head(part_paths)) < MaxLength
        /\ curr_elem' = Head(part_paths) /\ part_paths' = Tail(part_paths)
        /\ films' = IF player \in DOMAIN done_credits THEN done_credits[player] ELSE getCredits(player)
        /\ done_credits' = [p \in DOMAIN done_credits \cup {player} |->
                               IF p = player THEN films' ELSE done_credits[p]]
    BY DEF NextPath, Continues, SearchInv, Inside, query, ends
  <1>2. part_paths \in Seq(Paths) /\ \A k \in DOMAIN part_paths : IsRoute(part_paths[k])
    BY <1>1 DEF QueueInv
  <1>3. IsRoute(Head(part_paths)) /\ player \in Names
    <2>1. Head(part_paths) = part_paths[1] /\ 1 \in DOMAIN part_paths
      BY <1>1, <1>2
    <2>2. IsRoute(Head(part_paths))
      BY <1>2, <2>1
    <2> QED
      BY <2>2, LastPlayerIsName DEF IsRoute
  <1>4. films' = getCredits(player)
    BY <1>1 DEF QueueInv
  <1>5. ElemInv'
    <2>1. IsRoute(curr_elem)'
      BY <1>1, <1>3 DEF IsRoute, IsChain
    <2>2. films' \in Seq(Credits(player))
      BY <1>3, <1>4, CreditFacts
    <2> QED
      BY <1>1, <2>1, <2>2 DEF ElemInv
  <1>6. QueueInv'
    <2>1. /\ part_paths' \in Seq(Paths)
          /\ \A k \in DOMAIN part_paths' : k + 1 \in DOMAIN part_paths /\ part_paths'[k] = part_paths[k + 1]
      BY <1>1, <1>2
    <2>2. (\A k \in DOMAIN part_paths : IsRoute(part_paths[k]))'
      BY <1>1, <1>2, <2>1 DEF IsRoute, IsChain
    <2>3. \A p \in DOMAIN done_credits' : p \in Names /\ done_credits'[p] = getCredits(p)
      BY <1>1, <1>3, <1>4 DEF QueueInv
    <2> QED
      BY <1>1, <2>1, <2>2, <2>3 DEF QueueInv
  <1>7. AnswerInv'
    BY <1>1, AnswerKept
  <1> QED
    BY <1>1, <1>5, <1>6, <1>7 DEF SearchInv, Inside

\* getCast finds some film with the title.
LEMMA NextFilmStep ==
    ASSUME SearchInv, NextFilm
    PROVE  SearchInv'
  <1>1. /\ pc = "films" /\ answer' = answer
        /\ source \in Names /\ target \in Names /\ QueueInv /\ ElemInv
        /\ UNCHANGED <<query, ends, done_credits, part_paths, curr_elem>>
        /\ films # <<>> /\ films' = Tail(films)
    BY DEF NextFilm, SearchInv, Inside
  <1> DEFINE player == getLastPlayer(curr_elem)
  <1>2. /\ films \in Seq(Credits(player)) /\ Head(films) \in Credits(player)
        /\ films' \in Seq(Credits(player))
    BY <1>1 DEF ElemInv
  <1>3. QueueInv' /\ AnswerInv'
    BY <1>1, QueueKept, AnswerKept
  <1>4. ElemInv'
    BY <1>1, <1>2 DEF ElemInv, ends, IsRoute, IsChain
  <1>5. CASE Head(films) \in visited_films
    <2>1. pc' = "films"
      BY <1>1, <1>5 DEF NextFilm
    <2> QED
      BY <1>1, <1>3, <1>4, <2>1 DEF SearchInv, Inside, query
  <1>6. CASE Head(films) \notin visited_films
    <2>1. /\ pc' = "cast" /\ flm' = Head(films)
          /\ hit' \in AddrOfMovie(Head(films).title) /\ at' = hit' /\ i' = 1
      BY <1>6 DEF NextFilm
    <2>2. player \in Names
      BY <1>1, LastPlayerIsName DEF ElemInv, IsRoute
    <2>3. Head(films) \in AllFilms
      BY <1>2, <2>2, CreditFacts
    <2>4. PICK t \in DOMAIN movieFile : Head(films) = Film(t)
      BY <2>3 DEF AllFilms
    <2>5. hit' \in DOMAIN movieFile /\ Film(hit').title = Film(t).title
      BY <2>1, <2>4, MovieFacts DEF AddrOfMovie
    <2>6. hit' \in Int /\ t \in Int
      BY <2>5, MovieFacts
    <2>7. OnTheWay(t)'
      BY <2>1, <2>5, <2>6 DEF OnTheWay
    <2>8. WalkInv'
      BY <2>1, <2>4, <2>7 DEF WalkInv
    <2> QED
      BY <1>1, <1>2, <1>3, <1>4, <2>1, <2>8 DEF SearchInv, Inside, query
  <1> QED
    BY <1>5, <1>6

\* The cast that is read is that of the film with the title and the year.
LEMMA CastIsRead ==
    ASSUME SearchInv, ReadCast
    PROVE  /\ players' \in Seq(Cast(flm))
           /\ {players'[k] : k \in DOMAIN players'} = Cast(flm)
  <1>1. WalkInv /\ YearFits /\ players' = CastAt(at)
    BY DEF SearchInv, ReadCast
  <1>2. at \in DOMAIN movieFile /\ flm = Film(at)
    BY <1>1, WalkEnd
  <1> QED
    BY <1>1, <1>2, CastFacts DEF CastSet

\* Reading the films and the casts changes neither the queue nor the path at hand.
LEMMA CastStep ==
    ASSUME SearchInv, Walk \/ ReadCast \/ EndOfFilms \/ EndOfPlayers
    PROVE  SearchInv'
  <1>1. /\ answer' = answer /\ pc \in {"films", "cast", "players"}
        /\ source \in Names /\ target \in Names /\ QueueInv /\ ElemInv
        /\ UNCHANGED <<query, ends, done_credits, part_paths, curr_elem, films, flm>>
    BY DEF Walk, ReadCast, EndOfFilms, EndOfPlayers, SearchInv, Inside, queue, walk
  <1>2. QueueInv' /\ ElemInv' /\ AnswerInv'
    BY <1>1, QueueKept, ElemKept, AnswerKept
  <1>3. CASE Walk
    <2>1. pc = "cast" /\ pc' = "cast"
      BY <1>3 DEF Walk
    <2>2. WalkInv'
      BY <1>3, <2>1, WalkStep DEF SearchInv
    <2> QED
      BY <1>1, <1>2, <2>1, <2>2 DEF SearchInv, Inside, query
  <1>4. CASE ReadCast
    <2>1. pc = "cast" /\ pc' = "players"
      BY <1>4 DEF ReadCast
    <2>2. players' \in Seq(Cast(flm))
      BY <1>4, CastIsRead
    <2> QED
      BY <1>1, <1>2, <2>1, <2>2 DEF SearchInv, Inside, query
  <1>5. CASE EndOfFilms \/ EndOfPlayers
    <2>1. pc' \in {"loop", "films"}
      BY <1>5 DEF EndOfFilms, EndOfPlayers
    <2> QED
      BY <1>1, <1>2, <2>1 DEF SearchInv, Inside, query
  <1> QED
    BY <1>3, <1>4, <1>5

\* A player of the cast makes a longer path of the search.
LEMMA Extension ==
    ASSUME SearchInv, pc = "players", players # <<>>
    PROVE  LET clone == addConnection(curr_elem, flm, Head(players))
           IN  /\ Head(players) \in Names /\ IsRoute(clone)
               /\ getLastPlayer(clone) = Head(players)
               /\ getLength(clone) \in 1 .. MaxLength
  <1>1. /\ IsRoute(curr_elem) /\ getLength(curr_elem) < MaxLength
        /\ flm \in Credits(getLastPlayer(curr_elem))
        /\ players \in Seq(Cast(flm))
    BY DEF SearchInv, ElemInv
  <1>2. curr_elem \in Paths /\ IsChain(curr_elem) /\ curr_elem.startPlayer = st_act
    BY <1>1 DEF IsRoute
  <1>3. getLastPlayer(curr_elem) \in Names /\ getLength(curr_elem) \in Nat
    BY <1>2, LastPlayerIsName
  <1>4. flm \in AllFilms /\ getLastPlayer(curr_elem) \in Cast(flm)
    BY <1>1, <1>3, CreditFacts
  <1>5. Head(players) \in Cast(flm)
    BY <1>1
  <1>6. Cast(flm) \subseteq Names
    BY <1>4, CastFacts DEF AllFilms
  <1> DEFINE clone == addConnection(curr_elem, flm, Head(players))
  <1>7. /\ clone \in Paths /\ IsChain(clone) /\ clone.startPlayer = st_act
        /\ getLength(clone) = getLength(curr_elem) + 1
        /\ getLastPlayer(clone) = Head(players)
    BY <1>2, <1>4, <1>5, <1>6, Connection
  <1>8. getLength(clone) \in 1 .. MaxLength
    BY <1>1, <1>3, <1>7, LengthAssumption
  <1> HIDE DEF clone
  <1>9. IsRoute(clone)
    BY <1>7, <1>8, LengthAssumption DEF IsRoute
  <1> QED
    BY <1>5, <1>6, <1>7, <1>8, <1>9 DEF clone

\* A player who is enqueued extends the path at hand by one film.
LEMMA NextPlayerStep ==
    ASSUME SearchInv, NextPlayer
    PROVE  SearchInv'
  <1> DEFINE clone == addConnection(curr_elem, flm, Head(players))
  <1>1. /\ pc = "players" /\ pc' = "players" /\ answer' = answer
        /\ source \in Names /\ target \in Names /\ QueueInv /\ ElemInv
        /\ flm \in Credits(getLastPlayer(curr_elem)) /\ players \in Seq(Cast(flm))
        /\ UNCHANGED <<query, ends, done_credits, curr_elem, films, flm>>
        /\ players # <<>> /\ players' = Tail(players)
        /\ part_paths' = part_paths \/ part_paths' = Append(part_paths, clone)
    BY DEF NextPlayer, Push, SearchInv, Inside, walk
  <1>2. IsRoute(clone) /\ clone \in Paths
    BY <1>1, Extension DEF IsRoute
  <1> HIDE DEF clone
  <1>3. ElemInv' /\ AnswerInv'
    BY <1>1, ElemKept, AnswerKept
  <1>4. CASE part_paths' = part_paths
    <2>1. QueueInv'
      BY <1>1, <1>4, QueueKept
    <2> QED
      BY <1>1, <1>3, <2>1 DEF SearchInv, Inside, query
  <1>5. CASE part_paths' = Append(part_paths, clone)
    <2>1. part_paths \in Seq(Paths) /\ \A k \in DOMAIN part_paths : IsRoute(part_paths[k])
      BY <1>1 DEF QueueInv
    <2>2. /\ part_paths' \in Seq(Paths)
          /\ \A k \in DOMAIN part_paths' :
                part_paths'[k] = clone \/ (k \in DOMAIN part_paths /\ part_paths'[k] = part_paths[k])
      BY <1>2, <1>5, <2>1
    <2>3. \A k \in DOMAIN part_paths' : IsRoute(part_paths'[k])
      BY <1>2, <2>1, <2>2
    <2>4. (\A k \in DOMAIN part_paths : IsRoute(part_paths[k]))'
      BY <1>1, <2>3 DEF IsRoute, IsChain, ends
    <2>5. QueueInv'
      BY <1>1, <2>2, <2>4 DEF QueueInv, query, ends
    <2> QED
      BY <1>1, <1>3, <2>5 DEF SearchInv, Inside, query
  <1> QED
    BY <1>1, <1>4, <1>5

\* The path that is printed, turned around if the search began at the second player.
LEMMA ReachTargetStep ==
    ASSUME SearchInv, ReachTarget
    PROVE  SearchInv'
  <1> DEFINE clone == addConnection(curr_elem, flm, en_act)
             result == IF en_act = source THEN reverse(clone) ELSE clone
  <1>1. /\ pc = "players" /\ players # <<>> /\ Head(players) = en_act
        /\ Return([kind |-> "path", path |-> result])
    BY DEF ReachTarget
  <1>2. QueueInv
    BY <1>1 DEF SearchInv, Inside
  <1>3. /\ IsRoute(clone) /\ getLastPlayer(clone) = en_act
        /\ getLength(clone) \in 1 .. MaxLength
    BY <1>1, Extension
  <1> HIDE DEF clone
  <1>4. clone \in Paths /\ IsChain(clone) /\ clone.startPlayer = st_act
    BY <1>3 DEF IsRoute
  <1>5. PathIsRight(result)
    <2>1. CASE en_act = source
      <3>1. /\ IsChain(result) /\ result.startPlayer = getLastPlayer(clone)
            /\ getLastPlayer(result) = clone.startPlayer
            /\ getLength(result) = getLength(clone)
        BY <1>3, <1>4, <2>1, Reversal, LengthAssumption
      <3>2. st_act = target
        BY <1>2, <2>1 DEF QueueInv
      <3> QED
        BY <1>3, <1>4, <2>1, <3>1, <3>2 DEF PathIsRight
    <2>2. CASE en_act # source
      <3>1. st_act = source /\ en_act = target
        BY <1>2, <2>2 DEF QueueInv
      <3> QED
        BY <1>3, <1>4, <2>2, <3>1 DEF PathIsRight
    <2> QED
      BY <2>1, <2>2
  <1> QED
    BY <1>1, <1>5, ReturnStep DEF Inside

\* The invariant is inductive.
LEMMA SearchStep == SearchInv /\ [Next]_vars => SearchInv'
  <1> SUFFICES ASSUME SearchInv, [Next]_vars PROVE SearchInv'
    OBVIOUS
  <1>1. CASE NoPath
    <2>1. pc \in Inside /\ Return([kind |-> "none"])
      BY <1>1 DEF NoPath, Inside
    <2> QED
      BY <2>1, ReturnStep
  <1>2. CASE Search
    BY <1>1, <1>2, BeginStep, NextPathStep, NextFilmStep, CastStep, NextPlayerStep, ReachTargetStep
    DEF Search
  <1>3. CASE UNCHANGED vars
    BY <1>3 DEF vars, query, ends, queue, marked, walk, SearchInv, Inside, QueueInv, ElemInv,
                AnswerInv, WalkInv, OnTheWay, IsRoute, IsChain, PathIsRight
  <1> QED
    BY <1>2, <1>3, UserStep DEF Next, Finished

-----------------------------------------------------------------------------
(***************************************************************************)
(* Shortest paths: the inductive invariant                                 *)
(***************************************************************************)
\* The players that the search has found; it does not mark its own start.
Discovered == visited_actors \cup {st_act}

Busy == {"films", "cast", "players"}

\* Nothing that leads from the player to others is left.
Expanded(player) == \A film \in AllFilms : player \in Cast(film) => film \in visited_films

\* There is no shorter chain to the last player than the path.
IsShortest(p) ==
    \A n \in Nat : n < getLength(p) => getLastPlayer(p) \notin Within(st_act, n)

Waits(player) ==
    \E k \in DOMAIN part_paths :
        getLastPlayer(part_paths[k]) = player /\ IsShortest(part_paths[k])

\* The target is not found yet.  A film that is done has led to its whole cast, and a
\* player that is found is done, waits, or is being extended.
SpreadInv ==
    /\ en_act \notin Discovered
    /\ \A film \in visited_films :
          Cast(film) \subseteq Discovered \/ (pc \in {"cast", "players"} /\ film = flm)
    /\ \A player \in Discovered :
          Expanded(player) \/ Waits(player) \/ (pc \in Busy /\ player = getLastPlayer(curr_elem))

\* Everybody within the distance is found, and the paths of the queue are as long or
\* one longer, the longer ones last.
LevelInv(n) ==
    /\ Within(st_act, n) \subseteq Discovered
    /\ \A k \in DOMAIN part_paths : getLength(part_paths[k]) \in n .. (n + 1)
    /\ \A j, k \in DOMAIN part_paths :
          j < k => getLength(part_paths[j]) <= getLength(part_paths[k])

\* Before a path is taken from the queue, or when there is none left.
LoopInv ==
    IF part_paths = <<>>
    THEN \A n \in Nat : Within(st_act, n) \subseteq Discovered
    ELSE LevelInv(getLength(part_paths[1]))

\* While a path is extended: what is left to do for its last player.
BusyInv ==
    /\ LevelInv(getLength(curr_elem))
    /\ \A film \in AllFilms :
          getLastPlayer(curr_elem) \in Cast(film) =>
             film \in visited_films \/ \E k \in DOMAIN films : films[k] = film
    /\ pc = "players" =>
          \A player \in Cast(flm) :
             player \in Discovered \/ \E k \in DOMAIN players : players[k] = player

ShortInv ==
    /\ pc \in {"source", "target", "start"} => visited_actors = {} /\ visited_films = {}
    /\ pc \in {"start"} \cup Inside => source # target
    /\ pc \in Inside => SpreadInv
    /\ pc = "loop" => LoopInv
    /\ pc \in Busy => BusyInv
    /\ answer.kind # "nothing" => pc \in {"source", "end"}
    /\ AnswerIsShortest

\* What is printed stays right while neither it nor the two names change.
LEMMA ShortestKept ==
    ASSUME AnswerIsShortest, UNCHANGED <<source, target, answer>>
    PROVE  AnswerIsShortest'
  BY DEF AnswerIsShortest, PathIsRight, IsChain

\* The invariant of the shortest path holds at the beginning.
LEMMA ShortInit == Init => ShortInv
  <1> SUFFICES ASSUME Init PROVE ShortInv
    OBVIOUS
  <1>1. /\ pc \in {"source", "end"} /\ answer.kind = "nothing"
        /\ visited_actors = {} /\ visited_films = {}
    BY DEF Init
  <1> QED
    BY <1>1 DEF ShortInv, Inside, Busy, AnswerIsShortest

\* Every film with a player is among the credits of the player.
LEMMA CreditsComplete ==
    ASSUME NEW player \in Names, NEW film \in AllFilms, player \in Cast(film)
    PROVE  \E k \in DOMAIN getCredits(player) : getCredits(player)[k] = film
  <1> DEFINE a == CHOOSE b \in AddrOfActor(player) : TRUE
             movies == actorFile[a].movies
  <1>1. AddrOfActor(player) # {}
    BY DEF Names, AddrOfActor
  <1>2. a \in DOMAIN actorFile /\ actorFile[a].name = player
    BY <1>1 DEF AddrOfActor
  <1>3. getCredits(player) = [k \in DOMAIN movies |-> Film(movies[k])]
    BY DEF getCredits
  <1> HIDE DEF a
  <1>4. PICK m \in DOMAIN movieFile : film = Film(m)
    BY DEF AllFilms
  <1>5. player \in CastSet(m)
    BY <1>4, CastFacts
  <1>6. PICK j \in DOMAIN movieFile[m].actors : actorFile[movieFile[m].actors[j]].name = player
    BY <1>5 DEF CastSet, CastAt
  <1>7. movieFile[m].actors[j] = a
    <2>1. movieFile[m].actors[j] \in DOMAIN actorFile
      BY <1>4, <1>6, FilesAssumption
    <2> QED
      BY <1>2, <1>6, <2>1, DatabaseAssumption
  <1>8. PICK k \in DOMAIN movies : movies[k] = m
    BY <1>2, <1>4, <1>6, <1>7, DatabaseAssumption
  <1> QED
    BY <1>3, <1>4, <1>8

\* Where everybody is done, no film leads further.
LEMMA SpreadFurther ==
    ASSUME SpreadInv, pc \notin {"cast", "players"}, NEW S,
           S \subseteq Discovered, \A player \in S : Expanded(player)
    PROVE  Neighbours(S) \subseteq Discovered
  <1> SUFFICES ASSUME NEW b \in Neighbours(S) PROVE b \in Discovered
    OBVIOUS
  <1>1. PICK a \in S, film \in AllFilms : a \in Cast(film) /\ b \in Cast(film)
    BY DEF Neighbours, Connected
  <1>2. film \in visited_films
    BY <1>1 DEF Expanded
  <1> QED
    BY <1>1, <1>2 DEF SpreadInv

\* When a path has no films left, everybody as near as the next path is found.
LEMMA FilmsEnd ==
    ASSUME SearchInv, ShortInv, pc = "films", films = <<>>
    PROVE  LoopInv
  <1> DEFINE n == getLength(curr_elem)
  <1>1. SpreadInv /\ BusyInv /\ LevelInv(n) /\ QueueInv
    BY DEF ShortInv, SearchInv, Inside, Busy, BusyInv
  <1>2. n \in Nat
    BY LastPlayerIsName DEF SearchInv, ElemInv, IsRoute
  <1>3. Expanded(getLastPlayer(curr_elem))
    <2>1. DOMAIN films = {}
      OBVIOUS
    <2> QED
      BY <1>1, <2>1 DEF BusyInv, Expanded
  <1>4. \A player \in Discovered : Expanded(player) \/ Waits(player)
    BY <1>1, <1>3 DEF SpreadInv
  <1> HIDE DEF n
  <1>5. CASE part_paths = <<>>
    <2>1. \A player \in Discovered : Expanded(player)
      <3>1. DOMAIN part_paths = {}
        BY <1>5
      <3> QED
        BY <1>4, <3>1 DEF Waits
    <2>2. Neighbours(Discovered) \subseteq Discovered
      BY <1>1, <2>1, SpreadFurther
    <2>3. st_act \in Discovered
      BY DEF Discovered
    <2> QED
      BY <1>5, <2>2, <2>3, WithinClosed DEF LoopInv
  <1>6. CASE part_paths # <<>>
    <2> DEFINE m == getLength(part_paths[1])
    <2>1. 1 \in DOMAIN part_paths /\ \A k \in DOMAIN part_paths : k = 1 \/ 1 < k
      BY <1>1, <1>6 DEF QueueInv
    <2>2. m \in {n, n + 1}
      BY <1>1, <1>2, <2>1 DEF LevelInv
    <2>3. CASE m = n
      BY <1>1, <1>6, <2>3 DEF LoopInv
    <2>4. CASE m = n + 1
      <3>1. \A k \in DOMAIN part_paths : getLength(part_paths[k]) = n + 1
        BY <1>1, <1>2, <2>1, <2>4 DEF LevelInv
      <3>2. \A player \in Within(st_act, n) : Expanded(player)
        <4>1. n < n + 1
          BY <1>2
        <4> QED
          BY <1>1, <1>2, <1>4, <3>1, <4>1 DEF Waits, IsShortest, LevelInv
      <3>3. Neighbours(Within(st_act, n)) \subseteq Discovered
        BY <1>1, <3>2, SpreadFurther DEF LevelInv
      <3>4. Within(st_act, n + 1) \subseteq Discovered
        BY <1>1, <1>2, <3>3, WithinFacts DEF LevelInv
      <3>5. n + 1 \in (n + 1) .. ((n + 1) + 1)
        BY <1>2
      <3>6. LevelInv(n + 1)
        BY <1>1, <3>1, <3>4, <3>5 DEF LevelInv
      <3> QED
        BY <1>6, <2>4, <3>6 DEF LoopInv
    <2> QED
      BY <2>2, <2>3, <2>4
  <1> QED
    BY <1>5, <1>6

-----------------------------------------------------------------------------
(***************************************************************************)
(* Shortest paths: the steps                                               *)
(***************************************************************************)
LEMMA UserShort ==
    ASSUME SearchInv, ShortInv, User
    PROVE  ShortInv'
  <1>1. CASE Quit
    <2>1. pc' = "end" /\ UNCHANGED <<source, target, answer>>
      BY <1>1 DEF Quit, query
    <2> QED
      BY <2>1, ShortestKept DEF ShortInv, Inside, Busy
  <1>2. ASSUME NEW response \in Responses, PromptSource(response) PROVE ShortInv'
    <2>1. /\ pc = "source" /\ pc' = "target" /\ answer' = [kind |-> "nothing"]
          /\ UNCHANGED <<visited_actors, visited_films>>
      BY <1>2 DEF PromptSource, marked
    <2> QED
      BY <2>1 DEF ShortInv, Inside, Busy, AnswerIsShortest
  <1>3. ASSUME NEW response \in Responses, PromptTarget(response) PROVE ShortInv'
    <2>1. /\ pc = "target" /\ source' = source /\ target' = response /\ answer' = answer
          /\ pc' = IF response = source THEN "source" ELSE "start"
          /\ UNCHANGED <<visited_actors, visited_films>>
      BY <1>3 DEF PromptTarget, marked
    <2>2. answer'.kind = "nothing"
      BY <2>1 DEF ShortInv
    <2> QED
      BY <2>1, <2>2 DEF ShortInv, Inside, Busy, AnswerIsShortest
  <1> QED
    BY <1>1, <1>2, <1>3 DEF User

\* Nobody but the source is near enough to have been visited.
LEMMA BeginShort ==
    ASSUME SearchInv, ShortInv, Begin
    PROVE  ShortInv'
  <1>1. /\ pc = "start" /\ source \in Names /\ target \in Names
        /\ pc' = "loop" /\ UNCHANGED <<source, target, answer, visited_actors, visited_films>>
        /\ part_paths' = <<path(st_act')>>
        /\ \/ st_act' = source /\ en_act' = target
           \/ st_act' = target /\ en_act' = source
        /\ source # target /\ visited_actors = {} /\ visited_films = {}
    BY DEF Begin, SearchInv, ShortInv, query, marked
  <1>2. getLength(path(st_act')) = 0 /\ getLastPlayer(path(st_act')) = st_act'
    BY <1>1, StartOfPath
  <1>3. part_paths' # <<>> /\ DOMAIN part_paths' = {1} /\ part_paths'[1] = path(st_act')
    BY <1>1
  <1>4. Discovered' = {st_act'}
    BY <1>1 DEF Discovered
  <1>5. IsShortest(path(st_act))'
    BY <1>2 DEF IsShortest
  <1>6. Waits(st_act)'
    BY <1>2, <1>3, <1>5 DEF Waits, IsShortest
  <1>7. SpreadInv'
    BY <1>1, <1>4, <1>6 DEF SpreadInv
  <1>8. LevelInv(0)'
    BY <1>2, <1>3, <1>4, WithinFacts DEF LevelInv
  <1>9. LoopInv'
    BY <1>2, <1>3, <1>8 DEF LoopInv
  <1> QED
    BY <1>1, <1>7, <1>9, ShortestKept DEF ShortInv, Busy

\* What changes none of these keeps who is done and who waits.
LEMMA StatusKept ==
    ASSUME NEW player, UNCHANGED <<st_act, part_paths>>, visited_films \subseteq visited_films'
    PROVE  /\ Expanded(player) => Expanded(player)'
           /\ Waits(player) => Waits(player)'
  BY DEF Expanded, Waits, IsShortest

\* All that is nearer than the path that is taken has been visited.
LEMMA NextPathShort ==
    ASSUME SearchInv, ShortInv, NextPath
    PROVE  ShortInv'
  <1> DEFINE p == part_paths[1]
             player == getLastPlayer(p)
             n == getLength(p)
  <1>1. /\ pc = "loop" /\ pc' = "films"
        /\ UNCHANGED <<source, target, answer, st_act, en_act, visited_actors, visited_films>>
        /\ part_paths # <<>> /\ part_paths' = Tail(part_paths)
        /\ curr_elem' = Head(part_paths)
        /\ films' = IF getLastPlayer(Head(part_paths)) \in DOMAIN done_credits
                    THEN done_credits[getLastPlayer(Head(part_paths))]
                    ELSE getCredits(getLastPlayer(Head(part_paths)))
    BY DEF NextPath, Continues, query, ends, marked
  <1>2. QueueInv /\ SpreadInv /\ LoopInv
    BY <1>1 DEF SearchInv, ShortInv, Inside
  <1>3. part_paths \in Seq(Paths) /\ \A k \in DOMAIN part_paths : IsRoute(part_paths[k])
    BY <1>2 DEF QueueInv
  <1>4. /\ 1 \in DOMAIN part_paths /\ curr_elem' = p
        /\ DOMAIN part_paths = 1 .. Len(part_paths) /\ Len(part_paths) \in Nat
        /\ DOMAIN part_paths' = 1 .. (Len(part_paths) - 1)
        /\ \A k \in DOMAIN part_paths' : part_paths'[k] = part_paths[k + 1]
    BY <1>1, <1>3
  <1>5. /\ \A k \in DOMAIN part_paths' : k + 1 \in DOMAIN part_paths
        /\ \A k \in DOMAIN part_paths : k # 1 => k - 1 \in DOMAIN part_paths' /\ part_paths'[k - 1] = part_paths[k]
        /\ \A j, k \in DOMAIN part_paths' : j < k => j + 1 < k + 1
    BY <1>4
  <1>6. player \in Names /\ n \in Nat
    BY <1>3, <1>4, LastPlayerIsName DEF IsRoute
  <1>7. films' = getCredits(player)
    BY <1>1, <1>2, <1>4 DEF QueueInv
  <1> HIDE DEF n, player, p
  <1>8. LevelInv(n)
    BY <1>1, <1>2 DEF LoopInv, n, p
  <1>9. getLength(curr_elem)' = n /\ getLastPlayer(curr_elem)' = player
    BY <1>4 DEF getLength, getLastPlayer, n, player
  <1>10. ASSUME NEW a \in Discovered'
         PROVE  Expanded(a)' \/ Waits(a)' \/ a = player
    <2>1. a \in Discovered
      BY <1>1 DEF Discovered
    <2>2. CASE Expanded(a)
      BY <1>1, <2>2 DEF Expanded
    <2>3. CASE Waits(a)
      <3>1. PICK k \in DOMAIN part_paths :
               getLastPlayer(part_paths[k]) = a /\ IsShortest(part_paths[k])
        BY <2>3 DEF Waits
      <3>2. CASE k = 1
        BY <3>1, <3>2 DEF p, player
      <3>3. CASE k # 1
        <4>1. k - 1 \in DOMAIN part_paths' /\ part_paths'[k - 1] = part_paths[k]
          BY <1>5, <3>3
        <4>2. /\ getLastPlayer(part_paths'[k - 1]) = a
              /\ \A m \in Nat : m < getLength(part_paths'[k - 1]) => a \notin Within(st_act', m)
          BY <1>1, <3>1, <4>1 DEF IsShortest
        <4> QED
          BY <4>1, <4>2 DEF Waits, IsShortest
      <3> QED
        BY <3>2, <3>3
    <2> QED
      BY <1>1, <1>2, <2>1, <2>2, <2>3 DEF SpreadInv, Busy
  <1>11. SpreadInv'
    <2>1. en_act' \notin Discovered'
      BY <1>1, <1>2 DEF SpreadInv, Discovered
    <2>2. \A film \in visited_films' : Cast(film) \subseteq Discovered'
      BY <1>1, <1>2 DEF SpreadInv, Discovered
    <2>3. pc' \in Busy
      BY <1>1 DEF Busy
    <2> QED
      BY <1>9, <1>10, <2>1, <2>2, <2>3 DEF SpreadInv
  <1>12. LevelInv(getLength(curr_elem))'
    <2>1. Within(st_act', n) \subseteq Discovered'
      BY <1>1, <1>8 DEF LevelInv, Discovered
    <2>2. \A k \in DOMAIN part_paths' : getLength(part_paths'[k]) \in n .. (n + 1)
      BY <1>4, <1>5, <1>8 DEF LevelInv
    <2>3. \A j, k \in DOMAIN part_paths' :
             j < k => getLength(part_paths'[j]) <= getLength(part_paths'[k])
      BY <1>4, <1>5, <1>8 DEF LevelInv
    <2> QED
      BY <1>9, <2>1, <2>2, <2>3 DEF LevelInv
  <1>13. BusyInv'
    <2>1. \A film \in AllFilms : player \in Cast(film) => \E k \in DOMAIN films' : films'[k] = film
      BY <1>6, <1>7, CreditsComplete
    <2> QED
      BY <1>1, <1>9, <1>12, <2>1 DEF BusyInv
  <1> QED
    BY <1>1, <1>11, <1>13, ShortestKept DEF ShortInv, Inside, Busy

\* The cast of the next film is at most one film further.
LEMMA NextFilmShort ==
    ASSUME SearchInv, ShortInv, NextFilm
    PROVE  ShortInv'
  <1> DEFINE last == getLastPlayer(curr_elem)
  <1>1. /\ pc = "films" /\ films # <<>> /\ films' = Tail(films)
        /\ UNCHANGED <<source, target, answer, st_act, en_act, visited_actors, part_paths, curr_elem>>
        /\ \/ /\ Head(films) \in visited_films
              /\ pc' = "films" /\ visited_films' = visited_films
           \/ /\ visited_films' = visited_films \cup {Head(films)}
              /\ pc' = "cast" /\ flm' = Head(films)
    BY DEF NextFilm, query, ends, walk
  <1>2. /\ SpreadInv /\ BusyInv /\ ElemInv
        /\ \A film \in visited_films : Cast(film) \subseteq Discovered
    BY <1>1 DEF SearchInv, ShortInv, SpreadInv, Inside, Busy
  <1>3. \A k \in DOMAIN films :
           films[k] \in visited_films' \/ \E j \in DOMAIN films' : films'[j] = films[k]
    <2>1. /\ films \in Seq(Credits(last)) /\ Head(films) = films[1]
          /\ \A k \in DOMAIN films : k # 1 => k - 1 \in DOMAIN films' /\ films'[k - 1] = films[k]
      BY <1>1, <1>2 DEF ElemInv
    <2> QED
      BY <1>1, <2>1
  <1>4. pc' \in {"films", "cast"} /\ visited_films \subseteq visited_films'
    BY <1>1
  <1> HIDE DEF last
  <1>5. SpreadInv'
    <2>1. en_act' \notin Discovered' /\ Discovered' = Discovered
      BY <1>1, <1>2 DEF SpreadInv, Discovered
    <2>2. \A film \in visited_films' :
             Cast(film) \subseteq Discovered' \/ (pc' = "cast" /\ film = flm')
      BY <1>1, <1>2, <2>1
    <2>3. ASSUME NEW player \in Discovered'
          PROVE  (Expanded(player) \/ Waits(player) \/ player = getLastPlayer(curr_elem))'
      BY <1>1, <1>2, <1>4, <2>1, StatusKept DEF SpreadInv
    <2> QED
      BY <1>4, <2>1, <2>2, <2>3 DEF SpreadInv, Busy
  <1>6. BusyInv'
    <2>1. LevelInv(getLength(curr_elem))'
      BY <1>1, <1>2 DEF BusyInv, LevelInv, Discovered
    <2>2. \A film \in AllFilms : getLastPlayer(curr_elem') \in Cast(film) =>
             film \in visited_films' \/ \E k \in DOMAIN films' : films'[k] = film
      BY <1>1, <1>2, <1>3, <1>4 DEF BusyInv
    <2> QED
      BY <1>4, <2>1, <2>2 DEF BusyInv
  <1>7. source' # target' /\ AnswerIsShortest' /\ answer'.kind = "nothing"
    BY <1>1, ShortestKept DEF ShortInv, Inside
  <1> QED
    BY <1>4, <1>5, <1>6, <1>7 DEF ShortInv, Inside, Busy

\* The steps that change the place only, or the state of getCast.
LEMMA WalkShort ==
    ASSUME SearchInv, ShortInv, Walk \/ ReadCast \/ EndOfFilms \/ EndOfPlayers
    PROVE  ShortInv'
  <1>1. /\ UNCHANGED <<source, target, answer, st_act, en_act, visited_actors, visited_films,
                       part_paths, curr_elem, films, flm>>
        /\ pc \in Busy
    BY DEF Walk, ReadCast, EndOfFilms, EndOfPlayers, query, ends, marked, queue, walk, Busy
  <1>2. SpreadInv /\ BusyInv
    BY <1>1 DEF ShortInv, Inside, Busy
  <1>3. source' # target' /\ AnswerIsShortest' /\ answer'.kind = "nothing"
    BY <1>1, ShortestKept DEF ShortInv, Inside, Busy
  <1>4. Discovered' = Discovered /\ LevelInv(getLength(curr_elem))'
    BY <1>1, <1>2 DEF Discovered, BusyInv, LevelInv
  <1>5. ASSUME NEW player
        PROVE  /\ Expanded(player) => Expanded(player)'
               /\ Waits(player) => Waits(player)'
    BY <1>1, StatusKept
  <1>6. CASE Walk \/ ReadCast
    <2>1. pc = "cast" /\ pc' \in {"cast", "players"}
      BY <1>6 DEF Walk, ReadCast
    <2>2. pc' = "players" => \A player \in Cast(flm') : \E k \in DOMAIN players' : players'[k] = player
      <3>1. CASE Walk
        BY <2>1, <3>1 DEF Walk
      <3>2. CASE ReadCast
        BY <1>1, <3>2, CastIsRead
      <3> QED
        BY <1>6, <3>1, <3>2
    <2>3. SpreadInv'
      BY <1>1, <1>2, <1>4, <1>5, <2>1 DEF SpreadInv, Busy
    <2>4. BusyInv'
      BY <1>1, <1>2, <1>4, <2>2 DEF BusyInv
    <2> QED
      BY <1>3, <2>1, <2>3, <2>4 DEF ShortInv, Inside, Busy
  <1>7. CASE EndOfPlayers
    <2>1. pc = "players" /\ pc' = "films" /\ players = <<>>
      BY <1>7 DEF EndOfPlayers
    <2>2. Cast(flm) \subseteq Discovered
      <3>1. DOMAIN players = {}
        BY <2>1
      <3> QED
        BY <1>2, <2>1, <3>1 DEF BusyInv
    <2>3. SpreadInv'
      BY <1>1, <1>2, <1>4, <1>5, <2>1, <2>2 DEF SpreadInv, Busy
    <2>4. BusyInv'
      BY <1>1, <1>2, <1>4, <2>1 DEF BusyInv
    <2> QED
      BY <1>3, <2>1, <2>3, <2>4 DEF ShortInv, Inside, Busy
  <1>8. CASE EndOfFilms
    <2>1. pc = "films" /\ pc' = "loop" /\ films = <<>>
      BY <1>8 DEF EndOfFilms
    <2>2. LoopInv
      BY <2>1, FilmsEnd
    <2>3. LoopInv'
      BY <1>1, <1>4, <2>2 DEF LoopInv, LevelInv
    <2>4. Expanded(getLastPlayer(curr_elem))
      <3>1. DOMAIN films = {}
        BY <2>1
      <3> QED
        BY <1>2, <3>1 DEF BusyInv, Expanded
    <2>5. SpreadInv'
      BY <1>1, <1>2, <1>4, <1>5, <2>1, <2>4 DEF SpreadInv, Busy
    <2> QED
      BY <1>3, <2>1, <2>3, <2>5 DEF ShortInv, Inside, Busy
  <1> QED
    BY <1>6, <1>7, <1>8

\* A player who is met for the first time is as far as the path at hand and one film more.
LEMMA NextPlayerShort ==
    ASSUME SearchInv, ShortInv, NextPlayer
    PROVE  ShortInv'
  <1> DEFINE clone == addConnection(curr_elem, flm, Head(players))
  <1>0. PICK name, p, n : name = Head(players) /\ p = clone /\ n = getLength(curr_elem)
    OBVIOUS
  <1>1. /\ pc = "players" /\ pc' = "players" /\ players # <<>> /\ players' = Tail(players)
        /\ UNCHANGED <<source, target, answer, st_act, en_act, visited_films, curr_elem, films, flm>>
        /\ name = en_act => name \in visited_actors
        /\ visited_actors' = visited_actors \cup {name}
        /\ part_paths' = IF name \in visited_actors THEN part_paths ELSE Append(part_paths, p)
    BY <1>0 DEF NextPlayer, Push, query, ends, walk
  <1>2. SpreadInv /\ BusyInv /\ ElemInv /\ QueueInv /\ players \in Seq(Cast(flm)) /\ LevelInv(n)
    BY <1>0, <1>1 DEF SearchInv, ShortInv, BusyInv, Inside, Busy
  <1>3. getLastPlayer(p) = name /\ getLength(p) = n + 1 /\ n \in Nat
    <2>1. curr_elem \in Paths /\ IsChain(curr_elem)
      BY <1>2 DEF ElemInv, IsRoute
    <2>2. n \in Nat
      BY <1>0, <2>1, LastPlayerIsName
    <2>3. Len(curr_elem.links) = n /\ curr_elem.links \in Seq(Links)
      BY <1>0, <2>1 DEF Paths, getLength
    <2>4. p.links = Append(curr_elem.links, [movie |-> flm, player |-> name])
      BY <1>0, <2>1 DEF addConnection, Paths
    <2>5. getLength(p) = n + 1
      BY <2>3, <2>4 DEF getLength
    <2>6. getLastPlayer(p) = name
      BY <1>0, <1>1, Extension
    <2> QED
      BY <2>2, <2>5, <2>6
  <1> HIDE DEF clone
  <1>4. Discovered' = Discovered \cup {name} /\ en_act \notin Discovered'
    BY <1>1, <1>2 DEF Discovered, SpreadInv
  <1>5. part_paths \in Seq(Paths) /\ p \in Paths
    <2>1. p \in Paths
      BY <1>0, <1>1, Extension DEF IsRoute, clone
    <2> QED
      BY <1>2, <2>1 DEF QueueInv
  <1>6. /\ \A a \in Discovered' : (Expanded(a) \/ Waits(a) \/ a = getLastPlayer(curr_elem))'
        /\ \A k \in DOMAIN part_paths' : getLength(part_paths'[k]) \in n .. (n + 1)
        /\ \A j, k \in DOMAIN part_paths' :
              j < k => getLength(part_paths'[j]) <= getLength(part_paths'[k])
    <2>1. CASE name \notin visited_actors
      <3> DEFINE m == Len(part_paths) + 1
      <3>1. /\ m \in DOMAIN part_paths' /\ part_paths'[m] = p
            /\ \A k \in DOMAIN part_paths : k \in DOMAIN part_paths' /\ part_paths'[k] = part_paths[k] /\ k < m
            /\ \A k \in DOMAIN part_paths' : k = m \/ k \in DOMAIN part_paths
        BY <1>1, <1>5, <2>1
      <3> HIDE DEF m
      <3>2. ASSUME NEW a \in Discovered PROVE (Expanded(a) \/ Waits(a) \/ a = getLastPlayer(curr_elem))'
        <4>1. Expanded(a) => Expanded(a)'
          BY <1>1 DEF Expanded
        <4>2. Waits(a) => Waits(a)'
          BY <1>1, <3>1 DEF Waits, IsShortest
        <4> QED
          BY <1>1, <1>2, <4>1, <4>2 DEF SpreadInv
      <3>3. ASSUME name \notin Discovered PROVE Waits(name)'
        <4>1. ASSUME NEW j \in Nat, j < n + 1 PROVE name \notin Within(st_act, j)
          <5>1. j <= n
            BY <1>3, <4>1
          <5> QED
            BY <1>2, <1>3, <3>3, <4>1, <5>1, WithinGrows DEF LevelInv
        <4>2. getLastPlayer(part_paths'[m]) = name /\ getLength(part_paths'[m]) = n + 1
          BY <1>3, <3>1
        <4> QED
          BY <1>1, <3>1, <4>1, <4>2 DEF Waits, IsShortest
      <3>4. ASSUME NEW a \in Discovered'
            PROVE  (Expanded(a) \/ Waits(a) \/ a = getLastPlayer(curr_elem))'
        BY <1>4, <3>2, <3>3
      <3>5. \A k \in DOMAIN part_paths' : getLength(part_paths'[k]) \in n .. (n + 1)
        BY <1>2, <1>3, <3>1 DEF LevelInv
      <3>6. ASSUME NEW j \in DOMAIN part_paths', NEW k \in DOMAIN part_paths', j < k
            PROVE  getLength(part_paths'[j]) <= getLength(part_paths'[k])
        <4>1. CASE k = m
          BY <1>3, <3>1, <3>5, <4>1
        <4>2. CASE k \in DOMAIN part_paths /\ j \in DOMAIN part_paths
          BY <1>2, <3>1, <3>6, <4>2 DEF LevelInv
        <4>3. CASE k \in DOMAIN part_paths /\ j = m
          <5>1. k < m /\ k \in Int /\ m \in Int
            BY <1>5, <3>1, <4>3 DEF m
          <5> QED
            BY <3>6, <4>3, <5>1
        <4> QED
          BY <3>1, <4>1, <4>2, <4>3
      <3> QED
        BY <3>4, <3>5, <3>6
    <2>2. CASE name \in visited_actors
      <3>1. Discovered' = Discovered /\ part_paths' = part_paths
        BY <1>1, <2>2 DEF Discovered
      <3>2. ASSUME NEW a \in Discovered'
            PROVE  (Expanded(a) \/ Waits(a) \/ a = getLastPlayer(curr_elem))'
        BY <1>1, <1>2, <3>1, StatusKept DEF SpreadInv
      <3>3. \A k \in DOMAIN part_paths' : getLength(part_paths'[k]) \in n .. (n + 1)
        BY <1>2, <3>1 DEF LevelInv
      <3>4. ASSUME NEW j \in DOMAIN part_paths', NEW k \in DOMAIN part_paths', j < k
            PROVE  getLength(part_paths'[j]) <= getLength(part_paths'[k])
        BY <1>2, <3>1, <3>4 DEF LevelInv
      <3> QED
        BY <3>2, <3>3, <3>4
    <2> QED
      BY <2>1, <2>2
  <1>7. SpreadInv'
    <2>1. \A film \in visited_films' : Cast(film) \subseteq Discovered' \/ film = flm'
      BY <1>1, <1>2, <1>4 DEF SpreadInv
    <2> QED
      BY <1>1, <1>4, <1>6, <2>1 DEF SpreadInv, Busy
  <1>8. BusyInv'
    <2>1. LevelInv(getLength(curr_elem))'
      <3>1. getLength(curr_elem)' = n
        BY <1>0, <1>1
      <3>2. Within(st_act', n) \subseteq Discovered'
        BY <1>1, <1>2, <1>4 DEF LevelInv
      <3> QED
        BY <1>6, <3>1, <3>2 DEF LevelInv
    <2>2. \A k \in DOMAIN players :
             players[k] = name \/ \E j \in DOMAIN players' : players'[j] = players[k]
      <3>1. /\ Head(players) = players[1]
            /\ \A k \in DOMAIN players : k # 1 => k - 1 \in DOMAIN players' /\ players'[k - 1] = players[k]
        BY <1>1, <1>2
      <3> QED
        BY <1>0, <3>1
    <2>3. \A player \in Cast(flm') :
             player \in Discovered' \/ \E k \in DOMAIN players' : players'[k] = player
      BY <1>1, <1>2, <1>4, <2>2 DEF BusyInv
    <2> QED
      BY <1>1, <1>2, <2>1, <2>3 DEF BusyInv
  <1>9. source' # target' /\ AnswerIsShortest' /\ answer'.kind = "nothing"
    BY <1>1, ShortestKept DEF ShortInv, Inside
  <1> QED
    BY <1>1, <1>7, <1>8, <1>9 DEF ShortInv, Inside, Busy

\* A target that is not found is further away than everybody who is, in whichever
\* direction the search was made.
LEMMA TargetIsFar ==
    ASSUME QueueInv, SpreadInv, NEW n \in Nat, Within(st_act, n) \subseteq Discovered
    PROVE  target \notin Within(source, n)
  <1>1. en_act \notin Within(st_act, n)
    BY DEF SpreadInv
  <1> QED
    BY <1>1, WithinSymmetric DEF QueueInv

\* The queue is empty: everybody within reach has been visited.
LEMMA NoPathShort ==
    ASSUME SearchInv, ShortInv, NoPath
    PROVE  ShortInv'
  <1>1. /\ pc = "loop" /\ pc' = "source" /\ answer' = [kind |-> "none"]
        /\ visited_actors' = {} /\ visited_films' = {}
        /\ UNCHANGED <<source, target>>
        /\ ~Continues
    BY DEF NoPath, Return, query
  <1>2. QueueInv /\ SpreadInv /\ LoopInv
    BY <1>1 DEF SearchInv, ShortInv, Inside
  <1>3. Within(st_act, MaxLength) \subseteq Discovered
    <2>1. CASE part_paths = <<>>
      BY <1>2, <2>1, LengthAssumption DEF LoopInv
    <2>2. CASE part_paths # <<>>
      <3>1. /\ part_paths \in Seq(Paths) /\ Head(part_paths) = part_paths[1]
            /\ IsRoute(part_paths[1])
        BY <1>2, <2>2 DEF QueueInv
      <3>2. getLength(part_paths[1]) \in Nat
        BY <3>1, LastPlayerIsName DEF IsRoute
      <3>3. getLength(part_paths[1]) = MaxLength
        BY <1>1, <2>2, <3>1, <3>2, LengthAssumption DEF Continues, IsRoute
      <3> QED
        BY <1>2, <2>2, <3>3 DEF LoopInv, LevelInv
    <2> QED
      BY <2>1, <2>2
  <1>4. target \notin Within(source, MaxLength)
    BY <1>2, <1>3, LengthAssumption, TargetIsFar
  <1>5. AnswerIsShortest'
    BY <1>1, <1>4 DEF AnswerIsShortest
  <1> QED
    BY <1>1, <1>5 DEF ShortInv, Inside, Busy

\* The path at hand and the film that leads to the target are a shortest path.
LEMMA ReachTargetShort ==
    ASSUME SearchInv, ShortInv, ReachTarget, SearchInv'
    PROVE  ShortInv'
  <1> DEFINE clone == addConnection(curr_elem, flm, en_act)
             result == IF en_act = source THEN reverse(clone) ELSE clone
             n == getLength(curr_elem)
  <1>1. /\ pc = "players" /\ pc' = "source" /\ answer' = [kind |-> "path", path |-> result]
        /\ visited_actors' = {} /\ visited_films' = {}
        /\ UNCHANGED <<source, target>>
        /\ players # <<>> /\ Head(players) = en_act
    BY DEF ReachTarget, Return, query
  <1>2. QueueInv /\ SpreadInv /\ BusyInv /\ ElemInv
    BY <1>1 DEF SearchInv, ShortInv, Inside, Busy
  <1>3. PathIsRight(answer.path)'
    BY <1>1 DEF SearchInv, AnswerInv
  <1>4. n \in Nat
    BY <1>2, LastPlayerIsName DEF ElemInv, IsRoute
  <1>5. getLength(clone) = n + 1
    <2>1. curr_elem \in Paths
      BY <1>2 DEF ElemInv, IsRoute
    <2>2. Len(curr_elem.links) = n /\ curr_elem.links \in Seq(Links)
      BY <2>1 DEF Paths, getLength
    <2>3. clone.links = Append(curr_elem.links, [movie |-> flm, player |-> en_act])
      BY <2>1 DEF addConnection, Paths
    <2> QED
      BY <2>2, <2>3 DEF getLength
  <1>6. clone \in Paths /\ IsChain(clone)
    BY <1>1, Extension DEF IsRoute
  <1> HIDE DEF clone, n
  <1>7. getLength(result) = n + 1
    <2>1. getLength(clone) >= 1
      BY <1>4, <1>5
    <2> QED
      BY <1>5, <1>6, <2>1, Reversal
  <1>8. target \notin Within(source, n)
    BY <1>2, <1>4, TargetIsFar DEF BusyInv, LevelInv, n
  <1> HIDE DEF result
  <1>9. getLength(answer'.path) - 1 = n
    BY <1>1, <1>4, <1>7
  <1>10. AnswerIsShortest'
    BY <1>1, <1>3, <1>8, <1>9 DEF AnswerIsShortest
  <1> QED
    BY <1>1, <1>10 DEF ShortInv, Inside, Busy

\* The invariant is inductive, together with that of the search.
LEMMA ShortStep == SearchInv /\ ShortInv /\ [Next]_vars => ShortInv'
  <1> SUFFICES ASSUME SearchInv, ShortInv, [Next]_vars PROVE ShortInv'
    OBVIOUS
  <1>1. CASE Search
    BY <1>1, BeginShort, NextPathShort, NoPathShort, NextFilmShort, WalkShort, NextPlayerShort,
       ReachTargetShort, SearchStep DEF Search
  <1>2. CASE UNCHANGED vars
    BY <1>2 DEF vars, query, ends, queue, marked, walk, ShortInv, Inside, Busy, SpreadInv, LoopInv,
                BusyInv, LevelInv, Discovered, Expanded, Waits, IsShortest, AnswerIsShortest,
                PathIsRight, IsChain
  <1> QED
    BY <1>1, <1>2, UserShort DEF Next, Finished

-----------------------------------------------------------------------------
(***************************************************************************)
(* The lists of imdb-test                                                  *)
(***************************************************************************)
\* The files number players by name without a gap, so names are ordered.
LEMMA NamesAreOrdered ==
    /\ IsFiniteSet(Names)
    /\ \A a \in Names : ~IsBefore(a, a)
    /\ \A a, b \in Names : a = b \/ IsBefore(a, b) \/ IsBefore(b, a)
    /\ \A a, b, c \in Names : IsBefore(a, b) /\ IsBefore(b, c) => IsBefore(a, c)
  <1> DEFINE n == Len(actorFile)
             f == [a \in 1 .. n |-> actorFile[a].name]
  <1>1. n \in Nat /\ DOMAIN actorFile = 1 .. n
    BY FilesAssumption
  <1>2. \A a, b \in 1 .. n : actorFile[a].name = actorFile[b].name => a = b
    BY <1>1, DatabaseAssumption
  <1>3. \A b \in Names : \E a \in 1 .. n : actorFile[a].name = b
    BY <1>1 DEF Names
  <1>4. f \in Surjection(1 .. n, Names)
    <2>1. f \in [1 .. n -> Names]
      BY <1>1 DEF Names
    <2>2. \A b \in Names : \E a \in 1 .. n : f[a] = b
      BY <1>3
    <2> HIDE DEF f
    <2> QED
      BY <2>1, <2>2 DEF Surjection
  <1>5. IsFiniteSet(Names)
    <2>1. IsFiniteSet(1 .. n)
      BY <1>1, FS_Interval
    <2> HIDE DEF f, n
    <2> QED
      BY <1>4, <2>1, FS_Surjection
  <1> HIDE DEF n
  <1>6. \A a, b : IsBefore(a, b) <=>
           \E j, k \in 1 .. n : j < k /\ actorFile[j].name = a /\ actorFile[k].name = b
    BY <1>1 DEF IsBefore
  <1>7. ASSUME NEW a \in Names PROVE ~IsBefore(a, a)
    BY <1>1, <1>2, <1>6
  <1>8. ASSUME NEW a \in Names, NEW b \in Names PROVE a = b \/ IsBefore(a, b) \/ IsBefore(b, a)
    <2>1. PICK j \in 1 .. n : actorFile[j].name = a
      BY <1>3
    <2>2. PICK k \in 1 .. n : actorFile[k].name = b
      BY <1>3
    <2>3. j < k \/ k < j \/ j = k
      BY <1>1
    <2> QED
      BY <1>6, <2>1, <2>2, <2>3
  <1>9. ASSUME NEW a \in Names, NEW b \in Names, NEW c \in Names, IsBefore(a, b), IsBefore(b, c)
        PROVE  IsBefore(a, c)
    <2>1. PICK j, k \in 1 .. n : j < k /\ actorFile[j].name = a /\ actorFile[k].name = b
      BY <1>6, <1>9
    <2>2. PICK l, m \in 1 .. n : l < m /\ actorFile[l].name = b /\ actorFile[m].name = c
      BY <1>6, <1>9
    <2>3. k = l
      BY <1>2, <2>1, <2>2
    <2>4. j < m
      BY <1>1, <2>1, <2>2, <2>3
    <2> QED
      BY <1>6, <2>1, <2>2, <2>4
  <1> QED
    BY <1>5, <1>7, <1>8, <1>9

\* The names that are listed before a name.
Earlier(names, c) == {b \in names : IsBefore(b, c)}

\* The n-th name is one of the names, and each name is the n-th for some n.
LEMMA NamesInOrder ==
    ASSUME NEW S, S \subseteq Names
    PROVE  /\ IsFiniteSet(S) /\ Cardinality(S) \in Nat
           /\ \A k \in 1 .. Cardinality(S) : NthName(S, k) \in S
           /\ \A c \in S : \E k \in 1 .. Cardinality(S) : NthName(S, k) = c
  <1> DEFINE n == Cardinality(S)
             rank == [c \in S |-> Cardinality(Earlier(S, c))]
  <1>1. IsFiniteSet(S)
    <2>1. IsFiniteSet(Names)
      BY NamesAreOrdered
    <2> QED
      BY <2>1, FS_Subset
  <1>2. n \in Nat
    BY <1>1, FS_CardinalityType
  <1>3. ASSUME NEW c \in S PROVE Cardinality(Earlier(S, c)) \in 0 .. (n - 1)
    <2> DEFINE T == S \ {c}
    <2>1. c \notin Earlier(S, c)
      BY NamesAreOrdered DEF Earlier
    <2>2. Earlier(S, c) \subseteq T
      BY <2>1 DEF Earlier
    <2>3. IsFiniteSet(T) /\ Cardinality(T) = n - 1
      BY <1>1, FS_RemoveElement
    <2> HIDE DEF T, n
    <2>4. IsFiniteSet(Earlier(S, c)) /\ Cardinality(Earlier(S, c)) <= Cardinality(T)
      BY <2>2, <2>3, FS_Subset
    <2>5. Cardinality(Earlier(S, c)) \in Nat
      BY <2>4, FS_CardinalityType
    <2> QED
      BY <1>2, <2>3, <2>4, <2>5
  <1>4. ASSUME NEW c \in S, NEW d \in S, IsBefore(c, d)
        PROVE  Cardinality(Earlier(S, c)) < Cardinality(Earlier(S, d))
    <2>1. Earlier(S, c) \subseteq Earlier(S, d)
      BY <1>4, NamesAreOrdered DEF Earlier
    <2>2. c \in Earlier(S, d) /\ c \notin Earlier(S, c)
      BY <1>4, NamesAreOrdered DEF Earlier
    <2>3. IsFiniteSet(Earlier(S, d))
      <3>1. Earlier(S, d) \subseteq S
        BY DEF Earlier
      <3> QED
        BY <1>1, <3>1, FS_Subset
    <2>4. /\ Cardinality(Earlier(S, c)) <= Cardinality(Earlier(S, d))
          /\ Cardinality(Earlier(S, d)) = Cardinality(Earlier(S, c)) => Earlier(S, d) = Earlier(S, c)
      BY <2>1, <2>3, FS_Subset
    <2>5. Cardinality(Earlier(S, c)) # Cardinality(Earlier(S, d))
      BY <2>2, <2>4
    <2> QED
      BY <1>3, <2>4, <2>5
  <1>5. ASSUME NEW c \in S, NEW d \in S, Cardinality(Earlier(S, c)) = Cardinality(Earlier(S, d))
        PROVE  c = d
    <2>1. ~IsBefore(c, d) /\ ~IsBefore(d, c)
      BY <1>3, <1>4, <1>5
    <2> QED
      BY <2>1, NamesAreOrdered
  <1>6. \A c \in S : rank[c] = Cardinality(Earlier(S, c))
    OBVIOUS
  <1> HIDE DEF rank, n
  <1>7. rank \in Injection(S, 0 .. (n - 1))
    <2>1. rank \in [S -> 0 .. (n - 1)]
      BY <1>3 DEF rank
    <2>2. \A c, d \in S : rank[c] = rank[d] => c = d
      BY <1>5, <1>6
    <2> QED
      BY <2>1, <2>2 DEF Injection, IsInjective
  <1>8. IsFiniteSet(0 .. (n - 1)) /\ Cardinality(0 .. (n - 1)) = n
    BY <1>2, FS_Interval
  <1>9. rank \in Surjection(S, 0 .. (n - 1))
    BY <1>7, <1>8, FS_Injection DEF n
  <1>10. \A m \in 0 .. (n - 1) : \E c \in S : Cardinality(Earlier(S, c)) = m
    BY <1>6, <1>9 DEF Surjection
  <1>11. ASSUME NEW k \in 1 .. n
         PROVE  NthName(S, k) \in S /\ Cardinality(Earlier(S, NthName(S, k))) = k - 1
    <2>1. NthName(S, k) = CHOOSE c \in S : Cardinality(Earlier(S, c)) = k - 1
      BY Zenon DEF NthName, Earlier
    <2>2. k - 1 \in 0 .. (n - 1)
      BY <1>2
    <2>3. \E c \in S : Cardinality(Earlier(S, c)) = k - 1
      BY <1>10, <2>2
    <2> QED
      BY <2>1, <2>3
  <1>12. ASSUME NEW c \in S PROVE \E k \in 1 .. n : NthName(S, k) = c
    <2> DEFINE k == Cardinality(Earlier(S, c)) + 1
    <2>1. k \in 1 .. n /\ k - 1 = Cardinality(Earlier(S, c))
      BY <1>2, <1>3
    <2>2. NthName(S, k) = c
      <3> HIDE DEF k
      <3> QED
        BY <1>5, <1>11, <2>1
    <2> QED
      BY <2>1, <2>2
  <1> QED
    BY <1>1, <1>2, <1>11, <1>12 DEF n

\* The films of a player are those with the player in their cast, none twice.
LEMMA CreditsAreFilms ==
    ASSUME NEW player \in Names
    PROVE  /\ getCredits(player) \in Seq(FilmsOf(player))
           /\ ToSet(getCredits(player)) = FilmsOf(player)
           /\ \A j, k \in DOMAIN getCredits(player) :
                 getCredits(player)[j] = getCredits(player)[k] => j = k
  <1>1. Credits(player) = FilmsOf(player)
    BY CreditFacts, CreditsComplete DEF Credits, FilmsOf
  <1>2. ToSet(getCredits(player)) = Credits(player)
    BY DEF ToSet, Credits
  <1> DEFINE a == CHOOSE b \in AddrOfActor(player) : TRUE
             movies == actorFile[a].movies
  <1>3. AddrOfActor(player) # {}
    BY DEF Names, AddrOfActor
  <1>4. a \in DOMAIN actorFile
    BY <1>3 DEF AddrOfActor
  <1>5. getCredits(player) = [k \in DOMAIN movies |-> Film(movies[k])]
    BY DEF getCredits
  <1> HIDE DEF a
  <1>6. \A k \in DOMAIN movies : movies[k] \in DOMAIN movieFile
    BY <1>4, FilesAssumption
  <1>7. \A j, k \in DOMAIN movies : movies[j] = movies[k] => j = k
    BY <1>4, CreditsAssumption
  <1>8. ASSUME NEW j \in DOMAIN movies, NEW k \in DOMAIN movies, Film(movies[j]) = Film(movies[k])
        PROVE  j = k
    <2>1. movies[j] = movies[k]
      BY <1>6, <1>8, FilmIsOne
    <2> QED
      BY <1>7, <2>1
  <1>9. /\ DOMAIN getCredits(player) = DOMAIN movies
        /\ \A k \in DOMAIN movies : getCredits(player)[k] = Film(movies[k])
    BY <1>5
  <1>10. getCredits(player) \in Seq(FilmsOf(player))
    BY <1>1, CreditFacts, Zenon
  <1> HIDE DEF movies
  <1> QED
    BY <1>1, <1>2, <1>8, <1>9, <1>10

\* What is appended is added to what a sequence holds.
LEMMA AppendedSet ==
    ASSUME NEW S, NEW s \in Seq(S), NEW x \in S
    PROVE  /\ Append(s, x) \in Seq(S) /\ Len(Append(s, x)) = Len(s) + 1
           /\ ToSet(Append(s, x)) = ToSet(s) \cup {x}
  <1> DEFINE t == Append(s, x)
             n == Len(s)
  <1>1. n \in Nat /\ DOMAIN s = 1 .. n
    OBVIOUS
  <1>2. /\ t \in Seq(S) /\ Len(t) = n + 1 /\ DOMAIN t = 1 .. (n + 1)
        /\ \A k \in 1 .. n : t[k] = s[k]
        /\ t[n + 1] = x
    OBVIOUS
  <1> HIDE DEF t, n
  <1>3. \A k : k \in 1 .. (n + 1) <=> k \in 1 .. n \/ k = n + 1
    BY <1>1
  <1>4. \A k \in 1 .. (n + 1) : t[k] \in ToSet(s) \cup {x}
    BY <1>1, <1>2, <1>3 DEF ToSet
  <1>5. \A y \in ToSet(s) \cup {x} : \E k \in 1 .. (n + 1) : t[k] = y
    <2> SUFFICES ASSUME NEW y \in ToSet(s) \cup {x} PROVE \E k \in 1 .. (n + 1) : t[k] = y
      OBVIOUS
    <2>1. CASE y \in ToSet(s)
      <3>1. PICK k \in 1 .. n : s[k] = y
        BY <1>1, <2>1 DEF ToSet
      <3> QED
        BY <1>2, <1>3, <3>1
    <2>2. CASE y = x
      BY <1>2, <1>3, <2>2
    <2> QED
      BY <2>1, <2>2
  <1>6. ToSet(t) = ToSet(s) \cup {x}
    <2>1. ToSet(t) \subseteq ToSet(s) \cup {x}
      <3> SUFFICES ASSUME NEW k \in 1 .. (n + 1) PROVE t[k] \in ToSet(s) \cup {x}
        BY <1>2 DEF ToSet
      <3> QED
        BY <1>4
    <2>2. ToSet(s) \cup {x} \subseteq ToSet(t)
      <3> SUFFICES ASSUME NEW y \in ToSet(s) \cup {x} PROVE y \in ToSet(t)
        OBVIOUS
      <3>1. PICK k \in 1 .. (n + 1) : t[k] = y
        BY <1>5
      <3> QED
        BY <1>2, <3>1 DEF ToSet
    <2> QED
      BY <2>1, <2>2
  <1> QED
    BY <1>2, <1>6 DEF t, n

\* Nothing is twice in the sequence.
Distinct(s) == \A j, k \in DOMAIN s : s[j] = s[k] => j = k

\* The first of such a sequence is not in the rest.
LEMMA DistinctTail ==
    ASSUME NEW S, NEW s \in Seq(S), s # <<>>, Distinct(s)
    PROVE  /\ Head(s) \in S /\ Tail(s) \in Seq(S) /\ Distinct(Tail(s))
           /\ Head(s) \notin ToSet(Tail(s))
           /\ ToSet(s) = ToSet(Tail(s)) \cup {Head(s)}
  <1> DEFINE t == Tail(s)
             n == Len(s)
  <1>1. n \in Nat \ {0} /\ DOMAIN s = 1 .. n
    OBVIOUS
  <1>2. /\ t \in Seq(S) /\ DOMAIN t = 1 .. (n - 1)
        /\ \A k \in 1 .. (n - 1) : t[k] = s[k + 1]
        /\ Head(s) = s[1] /\ Head(s) \in S
    OBVIOUS
  <1> DEFINE h == Head(s)
  <1> HIDE DEF t, n, h
  <1>3. /\ \A k \in 1 .. (n - 1) : k + 1 \in 1 .. n /\ k + 1 # 1
        /\ \A k \in 1 .. n : k = 1 \/ k - 1 \in 1 .. (n - 1)
        /\ 1 \in 1 .. n
    BY <1>1
  <1>4. \A j, k \in 1 .. n : s[j] = s[k] => j = k
    BY <1>1 DEF Distinct
  <1>5. Distinct(t)
    <2> SUFFICES ASSUME NEW j \in 1 .. (n - 1), NEW k \in 1 .. (n - 1), t[j] = t[k] PROVE j = k
      BY <1>2 DEF Distinct
    <2>1. j + 1 = k + 1
      BY <1>2, <1>3, <1>4
    <2> QED
      BY <1>1, <2>1
  <1>6. h \notin ToSet(t)
    <2> SUFFICES ASSUME NEW k \in 1 .. (n - 1), t[k] = h PROVE FALSE
      BY <1>2 DEF ToSet
    <2> QED
      BY <1>2, <1>3, <1>4 DEF h
  <1>7. ToSet(s) = ToSet(t) \cup {h}
    <2>1. \A k \in 1 .. n : s[k] \in ToSet(t) \cup {h}
      <3> SUFFICES ASSUME NEW k \in 1 .. n, k # 1 PROVE s[k] \in ToSet(t)
        BY <1>2 DEF h
      <3>1. k - 1 \in 1 .. (n - 1) /\ (k - 1) + 1 = k
        BY <1>1, <1>3
      <3>2. t[k - 1] = s[k]
        BY <1>2, <3>1
      <3> QED
        BY <1>2, <3>1, <3>2 DEF ToSet
    <2>2. \A k \in 1 .. (n - 1) : t[k] \in ToSet(s)
      BY <1>1, <1>2, <1>3 DEF ToSet
    <2>3. h \in ToSet(s)
      BY <1>1, <1>2, <1>3 DEF ToSet, h
    <2>4. ToSet(s) \subseteq ToSet(t) \cup {h}
      BY <1>1, <2>1 DEF ToSet
    <2>5. ToSet(t) \subseteq ToSet(s)
      BY <1>2, <2>2 DEF ToSet
    <2> QED
      BY <2>3, <2>4, <2>5
  <1> QED
    BY <1>2, <1>5, <1>6, <1>7 DEF t, h

\* A list without repetitions has as many members as elements.
LEMMA DistinctCount ==
    ASSUME NEW S, NEW s \in Seq(S), Distinct(s), ToSet(s) = S
    PROVE  IsFiniteSet(S) /\ Cardinality(S) = Len(s)
  <1> DEFINE n == Len(s)
  <1>1. n \in Nat /\ DOMAIN s = 1 .. n /\ s \in [1 .. n -> S]
    OBVIOUS
  <1>2. \A x \in S : \E k \in 1 .. n : s[k] = x
    BY <1>1 DEF ToSet
  <1>3. \A j, k \in 1 .. n : s[j] = s[k] => j = k
    BY <1>1 DEF Distinct
  <1> HIDE DEF n
  <1>4. s \in Surjection(1 .. n, S)
    BY <1>1, <1>2 DEF Surjection
  <1>5. s \in Injection(1 .. n, S)
    BY <1>1, <1>3 DEF Injection, IsInjective
  <1>6. IsFiniteSet(1 .. n) /\ Cardinality(1 .. n) = n
    BY <1>1, FS_Interval
  <1>7. IsFiniteSet(S) /\ (Cardinality(S) = Cardinality(1 .. n) <=> s \in Injection(1 .. n, S))
    BY <1>4, <1>6, FS_Surjection
  <1> QED
    BY <1>5, <1>6, <1>7 DEF n

\* The skip is never negative.
LEMMA LargerOfZero ==
    ASSUME NEW a \in Int
    PROVE  Max({0, a}) = IF a > 0 THEN a ELSE 0
  <1> DEFINE m == IF a > 0 THEN a ELSE 0
  <1>1. Max({0, a}) = CHOOSE x \in {0, a} : \A y \in {0, a} : x >= y
    BY DEF Max
  <1>2. m \in {0, a} /\ \A y \in {0, a} : m >= y
    OBVIOUS
  <1>3. \A x \in {0, a} : (\A y \in {0, a} : x >= y) => x = m
    OBVIOUS
  <1> HIDE DEF m
  <1>4. Max({0, a}) = m
    BY <1>1, <1>2, <1>3
  <1> QED
    BY <1>4 DEF m

\* The line of a list with a number, and the numbers up to n that are printed.
Line(k) == [nr |-> k, item |-> list[k]]

Shown(n) == {k \in 1 .. n : k <= NumToPrint \/ k > Len(list) - NumToPrint}

Lines(n) == {Line(k) : k \in Shown(n)}

\* The iterator and the counter move together; skipping leaves the last NumToPrint.
PrintInv ==
    /\ Len(list) \in Nat /\ DOMAIN list = 1 .. Len(list)
    /\ num \in 0 .. Len(list) /\ curr = num + 1
    /\ printed \in Seq(Lines(num))
    /\ ToSet(printed) = Lines(num)
    /\ Len(printed) = Cardinality(Shown(num))
    /\ pc = "first" => num <= NumToPrint
    /\ pc = "last" => num >= Len(list) - NumToPrint

\* One more number that is printed.
LEMMA ShownFacts ==
    ASSUME NEW n \in Nat
    PROVE  /\ IsFiniteSet(Shown(n)) /\ n + 1 \notin Shown(n)
           /\ Cardinality(Shown(n) \cup {n + 1}) = Cardinality(Shown(n)) + 1
  <1>1. IsFiniteSet(1 .. n)
    BY FS_Interval
  <1>2. Shown(n) \subseteq 1 .. n
    BY DEF Shown
  <1>3. IsFiniteSet(Shown(n))
    BY <1>1, <1>2, FS_Subset
  <1>4. n + 1 \notin 1 .. n
    OBVIOUS
  <1>5. n + 1 \notin Shown(n)
    BY <1>2, <1>4
  <1> QED
    BY <1>3, <1>5, FS_AddElement

\* A list is started.
LEMMA ListStarts ==
    ASSUME NEW kind, NEW items, StartList(kind, items), Len(items) \in Nat,
           DOMAIN items = 1 .. Len(items)
    PROVE  PrintInv'
  <1>1. list' = items /\ curr' = 1 /\ num' = 0 /\ printed' = <<>> /\ pc' = "first"
    BY DEF StartList
  <1>2. (Shown(0))' = {}
    BY DEF Shown
  <1>3. (Lines(0))' = {}
    BY <1>2 DEF Lines
  <1>4. Cardinality({}) = 0
    BY FS_EmptySet
  <1>5. printed' \in Seq({}) /\ ToSet(printed') = {} /\ Len(printed') = 0
    BY <1>1 DEF ToSet
  <1>6. (Lines(num))' = {} /\ (Shown(num))' = {}
    BY <1>1, <1>2, <1>3 DEF Shown, Lines
  <1>7. /\ printed' \in Seq((Lines(num))') /\ ToSet(printed') = (Lines(num))'
        /\ Len(printed') = Cardinality((Shown(num))')
    BY <1>4, <1>5, <1>6
  <1>8. /\ num' \in 0 .. Len(list') /\ curr' = num' + 1
        /\ Len(list') \in Nat /\ DOMAIN list' = 1 .. Len(list')
        /\ pc' # "last" /\ num' <= NumToPrint
    BY <1>1, NumToPrintAssumption
  <1> QED
    BY <1>7, <1>8 DEF PrintInv

\* A record is printed.
LEMMA RecordIsPrinted ==
    ASSUME PrintInv, PrintFirst \/ PrintLast
    PROVE  PrintInv'
  <1> DEFINE n == num
  <1>1. /\ printed' = Append(printed, [nr |-> num + 1, item |-> list[curr]])
        /\ num' = num + 1 /\ curr' = curr + 1 /\ list' = list /\ pc' = pc
        /\ curr <= Len(list)
        /\ pc = "first" => num < NumToPrint
        /\ pc \in {"first", "last"}
    BY DEF PrintFirst, PrintLast, PrintRecord, HasFirst, vars
  <1>2. /\ Len(list) \in Nat /\ DOMAIN list = 1 .. Len(list)
        /\ num \in 0 .. Len(list) /\ curr = num + 1
        /\ printed \in Seq(Lines(num)) /\ ToSet(printed) = Lines(num)
        /\ Len(printed) = Cardinality(Shown(num))
        /\ pc = "last" => num >= Len(list) - NumToPrint
    BY DEF PrintInv
  <1>3. printed' = Append(printed, Line(num + 1))
    BY <1>1, <1>2 DEF Line
  <1>4. num + 1 <= NumToPrint \/ num + 1 > Len(list) - NumToPrint
    BY <1>1, <1>2, NumToPrintAssumption
  <1>5. Shown(num + 1) = Shown(num) \cup {num + 1}
    <2>1. \A k : k \in 1 .. (num + 1) <=> k \in 1 .. num \/ k = num + 1
      BY <1>2
    <2> QED
      BY <1>4, <2>1 DEF Shown
  <1>6. Lines(num + 1) = Lines(num) \cup {Line(num + 1)}
    BY <1>5 DEF Lines
  <1>7. /\ printed' \in Seq(Lines(num + 1)) /\ Len(printed') = Len(printed) + 1
        /\ ToSet(printed') = ToSet(printed) \cup {Line(num + 1)}
    <2>1. Line(num + 1) \in Lines(num + 1)
      BY <1>6
    <2>2. printed \in Seq(Lines(num + 1))
      <3>1. Lines(num) \subseteq Lines(num + 1)
        BY <1>6
      <3> HIDE DEF Lines
      <3> QED
        BY <1>2, <3>1
    <2> QED
      BY <1>3, <2>1, <2>2, AppendedSet
  <1>8. Len(printed') = Cardinality(Shown(num + 1))
    <2>1. Cardinality(Shown(num) \cup {num + 1}) = Cardinality(Shown(num)) + 1
      BY <1>2, ShownFacts
    <2> QED
      BY <1>2, <1>5, <1>7, <2>1
  <1>9. (Lines(num))' = Lines(num + 1) /\ (Shown(num))' = Shown(num + 1)
    BY <1>1 DEF Lines, Shown, Line
  <1>10. ToSet(printed') = Lines(num + 1)
    BY <1>2, <1>6, <1>7
  <1>11. num' \in 0 .. Len(list) /\ curr' = num' + 1
    BY <1>1, <1>2
  <1>12. /\ pc' = "first" => num' <= NumToPrint
         /\ pc' = "last" => num' >= Len(list) - NumToPrint
    BY <1>1, <1>2, NumToPrintAssumption
  <1> QED
    BY <1>1, <1>2, <1>7, <1>8, <1>9, <1>10, <1>11, <1>12 DEF PrintInv

\* What is skipped is not among the last ones, nor among the first ones.
LEMMA RecordsAreSkipped ==
    ASSUME PrintInv, SkipRecords
    PROVE  PrintInv'
  <1> DEFINE N == NumToPrint
             L == Len(list)
             s == IF curr <= L THEN Max({0, L - N - num}) ELSE 0
  <1>1. /\ num' = num + s /\ curr' = curr + s /\ pc' = "last"
        /\ list' = list /\ printed' = printed /\ pc = "first" /\ ~HasFirst
    BY DEF SkipRecords
  <1>2. /\ L \in Nat /\ DOMAIN list = 1 .. L
        /\ num \in 0 .. L /\ curr = num + 1
        /\ printed \in Seq(Lines(num)) /\ ToSet(printed) = Lines(num)
        /\ Len(printed) = Cardinality(Shown(num))
        /\ num <= N /\ N \in Nat
    BY <1>1, NumToPrintAssumption DEF PrintInv
  <1>3. ~(curr <= L /\ num < N)
    BY <1>1 DEF HasFirst
  <1>4. Max({0, (L - N) - num}) = IF (L - N) - num > 0 THEN (L - N) - num ELSE 0
    BY <1>2, LargerOfZero
  <1>5. (L - N) - num = L - N - num
    BY <1>2
  <1>6. s = IF curr <= L THEN (IF (L - N) - num > 0 THEN (L - N) - num ELSE 0) ELSE 0
    BY <1>4, <1>5
  <1> HIDE DEF s, L, N
  <1>7. \/ num = L /\ s = 0
        \/ num = N /\ num < L /\ s = 0 /\ L <= N + N
        \/ num = N /\ num < L /\ s = (L - N) - N /\ s > 0
    BY <1>2, <1>3, <1>6
  <1>8. num + s \in 0 .. L /\ s \in Nat /\ num + s >= L - N
    BY <1>2, <1>7
  <1>9. \A k \in 1 .. (num + s) : k \in 1 .. num \/ ~(k <= N \/ k > L - N)
    BY <1>2, <1>7
  <1>10. \A k \in 1 .. num : k \in 1 .. (num + s)
    BY <1>2, <1>8
  <1>11. Shown(num + s) = Shown(num)
    BY <1>9, <1>10 DEF Shown, L, N
  <1>12. (Shown(num))' = Shown(num) /\ (Lines(num))' = Lines(num)
    BY <1>1, <1>11 DEF Shown, Lines, Line
  <1>13. curr' = num' + 1
    BY <1>1, <1>2, <1>8
  <1> QED
    BY <1>1, <1>2, <1>8, <1>12, <1>13 DEF PrintInv, L, N

\* What the casts of the films F say of costars.
Gathered(F) ==
    /\ DOMAIN costars = {c \in Names \ {source} : \E film \in F : c \in Cast(film)}
    /\ \A c \in DOMAIN costars : costars[c] = {film \in F : c \in Cast(film)}

Companions ==
    {[name |-> c, movies |-> Cardinality(FilmsOf(source) \cap FilmsOf(c))] :
       c \in {d \in Names \ {source} : Connected(source, d)}}

\* What is listed, and what is left to do for the list after it.
ListedInv ==
    \/ listing = "movies" /\ list = getCredits(source) /\ films = list /\ costars = << >>
    \/ listing = "costars" /\ ToSet(list) = Companions

\* The films whose cast has been read.
Read == FilmsOf(source) \ ToSet(films)

\* What imdb-test knows at each stage.
TestInv ==
    /\ answer.kind = "nothing"
    /\ pc \in {"source", "first", "last", "films", "cast", "players", "end"}
    /\ pc \notin {"source", "end"} =>
          source \in Names /\ films \in Seq(FilmsOf(source)) /\ Distinct(films)
    /\ pc \in {"first", "last"} => PrintInv /\ ListedInv
    /\ pc = "films" => Gathered(Read)
    /\ pc \in {"cast", "players"} => flm \in Read /\ Gathered(Read \ {flm})
    /\ pc = "cast" => WalkInv
    /\ pc = "players" => ToSet(players) = Cast(flm)

\* At the start nothing is known.
LEMMA TestStarts == Init => TestInv
  <1> SUFFICES ASSUME Init PROVE TestInv
    OBVIOUS
  <1>1. pc \in {"source", "end"} /\ answer.kind = "nothing"
    BY DEF Init
  <1> QED
    BY <1>1 DEF TestInv

\* The walk of getCast, and what changes nothing but the program counter.
LEMMA TestWalk ==
    ASSUME TestInv, UNCHANGED testVars, Walk \/ ReadCast \/ Quit \/ Finished
    PROVE  TestInv'
  <1>1. UNCHANGED <<answer, source, films, costars>>
    BY DEF Walk, ReadCast, Quit, Finished, query, queue, vars, testVars
  <1>2. CASE Walk
    <2>1. pc = "cast" /\ pc' = "cast" /\ flm' = flm
      BY <1>2 DEF Walk
    <2>2. WalkInv'
      BY <1>2, <2>1, WalkStep DEF TestInv
    <2> QED
      BY <1>1, <2>1, <2>2 DEF TestInv, Read, FilmsOf, Gathered
  <1>3. CASE ReadCast
    <2>1. pc = "cast" /\ pc' = "players" /\ flm' = flm /\ players' = CastAt(at) /\ WalkInv /\ YearFits
      BY <1>3 DEF ReadCast, TestInv, walk
    <2>2. at \in DOMAIN movieFile /\ flm = Film(at)
      BY <2>1, WalkEnd
    <2>3. ToSet(players') = Cast(flm)
      <3>1. Cast(Film(at)) = CastSet(at)
        BY <2>2, CastFacts
      <3> QED
        BY <2>1, <2>2, <3>1 DEF ToSet, CastSet
    <2> QED
      BY <1>1, <2>1, <2>3 DEF TestInv, Read, FilmsOf, Gathered
  <1>4. CASE Quit
    <2>1. pc' = "end"
      BY <1>4 DEF Quit
    <2> QED
      BY <1>1, <2>1 DEF TestInv
  <1>5. CASE Finished
    <2>1. pc = "end" /\ pc' = "end"
      BY <1>5 DEF Finished, vars
    <2> QED
      BY <1>1, <2>1 DEF TestInv
  <1> QED
    BY <1>2, <1>3, <1>4, <1>5

\* The films of a player that is known are to be listed.
LEMMA TestAsked ==
    ASSUME TestInv, NEW response \in Responses, ListAll(response)
    PROVE  TestInv'
  <1>1. /\ Known(response) /\ source' = response /\ films' = getCredits(response)
        /\ costars' = << >> /\ StartList("movies", getCredits(response)) /\ answer' = answer
    BY DEF ListAll, search
  <1>2. response \in Names
    BY <1>1 DEF Known, AddrOfActor, Names
  <1>3. getCredits(response) \in Seq(FilmsOf(response)) /\ Distinct(getCredits(response))
    BY <1>2, CreditsAreFilms DEF Distinct
  <1>4. PrintInv'
    BY <1>1, <1>3, ListStarts
  <1>5. pc' = "first" /\ listing' = "movies" /\ list' = getCredits(response)
    BY <1>1 DEF StartList
  <1>6. ListedInv'
    BY <1>1, <1>5 DEF ListedInv
  <1>7. (FilmsOf(source))' = FilmsOf(response) /\ (Distinct(films))' /\ source' \in Names
    BY <1>1, <1>2, <1>3 DEF FilmsOf, Distinct
  <1>8. films' \in Seq((FilmsOf(source))')
    BY <1>1, <1>3, <1>7
  <1> QED
    BY <1>1, <1>4, <1>5, <1>6, <1>7, <1>8 DEF TestInv

\* The lines of a list.
LEMMA TestPrints ==
    ASSUME TestInv, PrintFirst \/ PrintLast \/ SkipRecords
    PROVE  TestInv'
  <1>1. /\ UNCHANGED <<answer, source, films, costars, listing, list>>
        /\ pc \in {"first", "last"} /\ pc' \in {"first", "last"}
    BY DEF PrintFirst, PrintLast, SkipRecords, PrintRecord, query, search, queue, vars
  <1>2. PrintInv /\ ListedInv
    BY <1>1 DEF TestInv
  <1>3. PrintInv'
    BY <1>2, RecordIsPrinted, RecordsAreSkipped
  <1>4. Companions' = Companions
    BY <1>1 DEF Companions
  <1>5. ListedInv'
    BY <1>1, <1>2, <1>4 DEF ListedInv
  <1> QED
    BY <1>1, <1>3, <1>5 DEF TestInv, FilmsOf, Distinct

\* After the list of films nothing is known of costars, and no cast has been read.
LEMMA TestListed ==
    ASSUME TestInv, EndOfList
    PROVE  TestInv'
  <1>1. /\ UNCHANGED <<answer, source, films, costars>> /\ pc = "last"
        /\ pc' = IF listing = "movies" THEN "films" ELSE "source"
    BY DEF EndOfList, query, search, testVars
  <1>2. CASE listing # "movies"
    BY <1>1, <1>2 DEF TestInv
  <1>3. CASE listing = "movies"
    <2>1. source \in Names /\ films = getCredits(source) /\ costars = << >>
      BY <1>1, <1>3 DEF TestInv, ListedInv
    <2>2. Read = {}
      BY <2>1, CreditsAreFilms DEF Read
    <2>3. DOMAIN costars = {}
      BY <2>1
    <2>4. Gathered({})
      BY <2>3 DEF Gathered
    <2>5. (Gathered(Read))'
      BY <1>1, <2>2, <2>4 DEF Gathered, Read, FilmsOf
    <2> QED
      BY <1>1, <1>3, <2>5 DEF TestInv, FilmsOf, Distinct
  <1> QED
    BY <1>2, <1>3

\* getCast begins somewhere among the films of the title.
LEMMA TestNextMovie ==
    ASSUME TestInv, NextMovie
    PROVE  TestInv'
  <1>1. /\ pc = "films" /\ films # <<>> /\ films' = Tail(films) /\ flm' = Head(films)
        /\ hit' \in AddrOfMovie(Head(films).title) /\ at' = hit' /\ i' = 1 /\ pc' = "cast"
        /\ UNCHANGED <<answer, source, costars>>
    BY DEF NextMovie, query, search, testVars
  <1>2. source \in Names /\ films \in Seq(FilmsOf(source)) /\ Distinct(films) /\ Gathered(Read)
    BY <1>1 DEF TestInv
  <1>3. /\ Head(films) \in FilmsOf(source) /\ films' \in Seq(FilmsOf(source)) /\ Distinct(films')
        /\ Head(films) \notin ToSet(films')
        /\ ToSet(films) = ToSet(films') \cup {Head(films)}
    BY <1>1, <1>2, DistinctTail
  <1>4. Read' = FilmsOf(source) \ ToSet(films')
    BY <1>1 DEF Read, FilmsOf
  <1>5. flm' \in Read' /\ Read' \ {flm'} = Read
    BY <1>1, <1>3, <1>4 DEF Read
  <1>6. (Gathered(Read \ {flm}))'
    BY <1>1, <1>2, <1>5 DEF Gathered
  <1>7. WalkInv'
    <2>1. Head(films) \in AllFilms
      BY <1>3 DEF FilmsOf
    <2>2. PICK t \in DOMAIN movieFile : Head(films) = Film(t)
      BY <2>1 DEF AllFilms
    <2>3. hit' \in DOMAIN movieFile /\ Film(hit').title = Film(t).title
      BY <1>1, <2>2, MovieFacts DEF AddrOfMovie
    <2>4. hit' \in Int /\ t \in Int
      BY <2>3, MovieFacts
    <2>5. OnTheWay(t)'
      BY <1>1, <2>3, <2>4 DEF OnTheWay
    <2> QED
      BY <1>1, <2>2, <2>5 DEF WalkInv
  <1>8. (films \in Seq(FilmsOf(source)) /\ Distinct(films))'
    BY <1>1, <1>3 DEF FilmsOf, Distinct
  <1> QED
    BY <1>1, <1>2, <1>5, <1>6, <1>7, <1>8 DEF TestInv

\* The cast of one more film is entered.
LEMMA TestAddCast ==
    ASSUME TestInv, AddCast
    PROVE  TestInv'
  <1> DEFINE others == ToSet(players) \ {source}
             new(c) == Costars(c) \cup (IF c \in others THEN {flm} ELSE {})
             F == Read \ {flm}
  <1>1. /\ pc = "players" /\ pc' = "films"
        /\ costars' = [c \in DOMAIN costars \cup others |-> new(c)]
        /\ UNCHANGED <<answer, source, films>>
    BY Zenon DEF AddCast, query, search
  <1>2. /\ source \in Names /\ films \in Seq(FilmsOf(source)) /\ Distinct(films)
        /\ flm \in Read /\ Gathered(F) /\ ToSet(players) = Cast(flm)
    BY <1>1 DEF TestInv
  <1>3. Cast(flm) \subseteq Names
    <2>1. PICK m \in DOMAIN movieFile : flm = Film(m)
      BY <1>2 DEF Read, FilmsOf, AllFilms
    <2> QED
      BY <2>1, CastFacts
  <1>4. others = Cast(flm) \ {source} /\ Read = F \cup {flm} /\ flm \notin F
    BY <1>2
  <1>5. /\ DOMAIN costars' = DOMAIN costars \cup others
        /\ \A c \in DOMAIN costars' : costars'[c] = new(c)
    BY <1>1
  <1>6. /\ DOMAIN costars = {c \in Names \ {source} : \E film \in F : c \in Cast(film)}
        /\ \A c \in DOMAIN costars : costars[c] = {film \in F : c \in Cast(film)}
    BY <1>2 DEF Gathered
  <1> HIDE DEF F, others
  <1>7. DOMAIN costars' = {c \in Names \ {source} : \E film \in Read : c \in Cast(film)}
    BY <1>3, <1>4, <1>5, <1>6
  <1>8. \A c \in Names \ {source} : Costars(c) = {film \in F : c \in Cast(film)}
    BY <1>6 DEF Costars
  <1>9. ASSUME NEW c \in DOMAIN costars'
        PROVE  costars'[c] = {film \in Read : c \in Cast(film)}
    <2>1. c \in Names \ {source}
      BY <1>7
    <2>2. costars'[c] = {film \in F : c \in Cast(film)} \cup (IF c \in others THEN {flm} ELSE {})
      BY <1>5, <1>8, <2>1
    <2>3. c \in others <=> c \in Cast(flm)
      BY <1>4, <2>1
    <2> QED
      BY <1>4, <2>2, <2>3
  <1>10. (Gathered(Read))'
    BY <1>1, <1>7, <1>9 DEF Gathered, Read, FilmsOf
  <1> QED
    BY <1>1, <1>2, <1>10 DEF TestInv, FilmsOf, Distinct

\* When all casts have been read, the costars are the companions.
LEMMA TestCostars ==
    ASSUME TestInv, ListCostars
    PROVE  TestInv'
  <1> DEFINE D == DOMAIN costars
             names == [k \in 1 .. Cardinality(D) |-> NthName(D, k)]
             item(c) == [name |-> c, movies |-> Cardinality(costars[c])]
             items == [k \in DOMAIN names |-> [name |-> names[k], movies |-> Cardinality(costars[names[k]])]]
             n == Cardinality(D)
  <1>1. /\ pc = "films" /\ films = <<>> /\ StartList("costars", items)
        /\ UNCHANGED <<answer, source, films, costars>>
    BY Zenon DEF ListCostars, query, search
  <1>2. source \in Names /\ films \in Seq(FilmsOf(source)) /\ Distinct(films) /\ Gathered(Read)
    BY <1>1 DEF TestInv
  <1>3. Read = FilmsOf(source)
    BY <1>1 DEF Read, ToSet
  <1>4. /\ D = {c \in Names \ {source} : \E film \in FilmsOf(source) : c \in Cast(film)}
        /\ \A c \in D : costars[c] = {film \in FilmsOf(source) : c \in Cast(film)}
    BY <1>2, <1>3 DEF Gathered
  <1>5. D = {d \in Names \ {source} : Connected(source, d)}
    BY <1>4 DEF FilmsOf, Connected
  <1>6. \A c \in D : costars[c] = FilmsOf(source) \cap FilmsOf(c)
    BY <1>4 DEF FilmsOf
  <1>7. /\ n \in Nat
        /\ \A k \in 1 .. n : NthName(D, k) \in D
        /\ \A c \in D : \E k \in 1 .. n : NthName(D, k) = c
    BY <1>5, NamesInOrder
  <1>8. DOMAIN items = 1 .. n /\ \A k \in 1 .. n : items[k] = item(NthName(D, k))
    OBVIOUS
  <1>9. items = [k \in 1 .. n |-> items[k]]
    OBVIOUS
  <1>10. pc' = "first" /\ listing' = "costars" /\ list' = items
    BY <1>1 DEF StartList
  <1> HIDE DEF items, D, n, names
  <1>11. items \in Seq({item(c) : c \in D})
    <2>1. \A k \in 1 .. n : items[k] \in {item(c) : c \in D}
      BY <1>7, <1>8
    <2> QED
      BY <1>7, <1>9, <2>1, SequenceOf
  <1>12. Len(items) \in Nat /\ DOMAIN items = 1 .. Len(items)
    BY <1>11
  <1>13. PrintInv'
    BY <1>1, <1>12, ListStarts
  <1>14. ToSet(items) = Companions
    <2>1. ToSet(items) = {item(c) : c \in D}
      BY <1>7, <1>8 DEF ToSet
    <2>2. \A c \in D : item(c) = [name |-> c, movies |-> Cardinality(FilmsOf(source) \cap FilmsOf(c))]
      BY <1>6
    <2> QED
      BY <1>5, <2>1, <2>2 DEF Companions
  <1>15. Companions' = Companions
    BY <1>1 DEF Companions
  <1>16. ListedInv'
    BY <1>10, <1>14, <1>15 DEF ListedInv
  <1> QED
    BY <1>1, <1>2, <1>10, <1>13, <1>16 DEF TestInv, FilmsOf, Distinct

\* Every step of imdb-test keeps the invariant.
LEMMA TestStep == TestInv /\ [TestNext]_allVars => TestInv'
  <1> SUFFICES ASSUME TestInv, [TestNext]_allVars PROVE TestInv'
    OBVIOUS
  <1>1. CASE (Walk \/ ReadCast \/ Quit \/ Finished) /\ UNCHANGED testVars
    BY <1>1, TestWalk
  <1>2. CASE \E response \in Responses : ListAll(response)
    BY <1>2, TestAsked
  <1>3. CASE PrintFirst \/ PrintLast \/ SkipRecords
    BY <1>3, TestPrints
  <1>4. CASE EndOfList
    BY <1>4, TestListed
  <1>5. CASE NextMovie \/ AddCast \/ ListCostars
    BY <1>5, TestNextMovie, TestAddCast, TestCostars
  <1>6. CASE UNCHANGED allVars
    <2>1. Finished \/ pc # "end"
      BY <1>6 DEF Finished, allVars
    <2>2. UNCHANGED vars /\ UNCHANGED testVars
      BY <1>6 DEF allVars
    <2> USE <2>2 DEF vars, testVars, query, ends, queue, walk, marked, output
    <2>3. PrintInv' <=> PrintInv
      BY DEF PrintInv, Lines, Line, Shown
    <2>4. (ListedInv' <=> ListedInv) /\ (WalkInv' <=> WalkInv)
      BY DEF ListedInv, Companions, WalkInv, OnTheWay
    <2>5. Read' = Read /\ (\A F : (Gathered(F))' <=> Gathered(F))
      BY DEF Read, Gathered, FilmsOf
    <2> QED
      BY <2>3, <2>4, <2>5 DEF TestInv, FilmsOf, Distinct, Gathered
  <1> QED
    BY <1>1, <1>2, <1>3, <1>4, <1>5, <1>6 DEF TestNext

Listing == {"first", "last"}

\* Each of the two programs has its own invariant.
ProgramInv ==
    /\ program \in {"six-degrees", "imdb-test"}
    /\ program = "six-degrees" => SearchInv /\ ShortInv /\ pc \notin Listing
    /\ program = "imdb-test" => TestInv

\* Both begin with their invariants.
LEMMA ProgramStarts == TestInit => ProgramInv
  <1> SUFFICES ASSUME TestInit PROVE ProgramInv
    OBVIOUS
  <1>1. Init /\ program \in {"six-degrees", "imdb-test"}
    BY DEF TestInit
  <1>2. pc \notin Listing
    BY <1>1 DEF Init, Listing
  <1> QED
    BY <1>1, <1>2, SearchInit, ShortInit, TestStarts DEF ProgramInv

\* six-degrees prints no list.
LEMMA NeverLists == pc \notin Listing /\ [Next]_vars => pc' \notin Listing
  BY DEF Listing, Next, Search, User, Quit, PromptSource, PromptTarget, Finished, Begin, NextPath,
         NoPath, Return, NextFilm, EndOfFilms, Walk, ReadCast, NextPlayer, ReachTarget, EndOfPlayers,
         vars

\* No step changes the program.
LEMMA TestKeepsProgram == [TestNext]_allVars => program' = program
  BY DEF TestNext, ListAll, PrintFirst, PrintLast, SkipRecords, PrintRecord, EndOfList, NextMovie,
         AddCast, ListCostars, testVars, allVars

\* A step of the search, and one of the lists, each in its program.
LEMMA ProgramSteps ==
    ASSUME ProgramInv, [Programs]_allVars
    PROVE  /\ program' = program
           /\ program = "six-degrees" => [Next]_vars
           /\ program = "imdb-test" => [TestNext]_allVars
  <1>1. CASE program = "six-degrees" /\ Next /\ UNCHANGED testVars
    BY <1>1 DEF testVars
  <1>2. CASE program = "imdb-test" /\ TestNext
    BY <1>2, TestKeepsProgram
  <1>3. CASE UNCHANGED allVars
    BY <1>3 DEF allVars, testVars
  <1> QED
    BY <1>1, <1>2, <1>3 DEF Programs

\* Every step keeps the invariant of the program.
LEMMA ProgramStep == ProgramInv /\ [Programs]_allVars => ProgramInv'
  <1> SUFFICES ASSUME ProgramInv, [Programs]_allVars PROVE ProgramInv'
    OBVIOUS
  <1>1. program' = program
    BY ProgramSteps
  <1>2. CASE program = "six-degrees"
    <2>1. [Next]_vars /\ SearchInv /\ ShortInv /\ pc \notin Listing
      BY <1>2, ProgramSteps DEF ProgramInv
    <2>2. SearchInv' /\ ShortInv' /\ pc' \notin Listing
      BY <2>1, SearchStep, ShortStep, NeverLists
    <2> QED
      BY <1>1, <1>2, <2>2 DEF ProgramInv, Listing
  <1>3. CASE program = "imdb-test"
    <2>1. [TestNext]_allVars /\ TestInv
      BY <1>3, ProgramSteps DEF ProgramInv
    <2>2. TestInv'
      BY <2>1, TestStep
    <2> QED
      BY <1>1, <1>3, <2>2 DEF ProgramInv
  <1> QED
    BY <1>2, <1>3 DEF ProgramInv

\* A list that has been printed is as it should be.
LEMMA PrintedIsRight == TestInv => ListsAreRight
  <1> SUFFICES ASSUME TestInv, pc = "last", curr > Len(list)
               PROVE  /\ Len(printed) = Cardinality(Shown(Len(list)))
                      /\ ToSet(printed) = Lines(Len(list))
                      /\ listing = "movies" =>
                            ToSet(list) = FilmsOf(source) /\ Len(list) = Cardinality(FilmsOf(source))
                      /\ listing = "costars" => ToSet(list) = Companions
    BY Zenon DEF ListsAreRight, Shown, Lines, Line, Companions
  <1>1. PrintInv /\ ListedInv /\ source \in Names
    BY DEF TestInv
  <1>2. num = Len(list)
    <2>1. Len(list) \in Nat /\ num \in 0 .. Len(list) /\ curr = num + 1 /\ curr > Len(list)
      BY <1>1 DEF PrintInv
    <2> QED
      BY <2>1
  <1>3. ASSUME listing = "movies"
        PROVE  ToSet(list) = FilmsOf(source) /\ Len(list) = Cardinality(FilmsOf(source))
    <2>1. list = getCredits(source)
      BY <1>1, <1>3 DEF ListedInv
    <2> QED
      BY <1>1, <2>1, CreditsAreFilms, DistinctCount DEF Distinct
  <1>4. listing = "costars" => ToSet(list) = Companions
    BY <1>1 DEF ListedInv
  <1> QED
    BY <1>1, <1>2, <1>3, <1>4 DEF PrintInv

-----------------------------------------------------------------------------
(***************************************************************************)
(* Theorems                                                                *)
(***************************************************************************)
\* The search keeps the invariant.
THEOREM SearchInvariant == Spec => []SearchInv
  BY SearchInit, SearchStep, PTL DEF Spec

\* The path that generateShortestPath prints is a chain of films that leads from the
\* first player that was named to the second one, and is not too long.
THEOREM PathsAreRight == Spec => [](answer.kind = "path" => PathIsRight(answer.path))
  <1>1. SearchInv => (answer.kind = "path" => PathIsRight(answer.path))
    BY DEF SearchInv, AnswerInv
  <1> QED
    BY <1>1, SearchInvariant, PTL

\* Whichever film of a title bsearch finds, getCast returns the cast of the film with
\* the year that was asked for.
THEOREM CastsAreRight == Spec => CastIsRight
  <1>1. SearchInv /\ [Next]_vars =>
          [(pc = "cast" /\ pc' = "players") => {players'[k] : k \in DOMAIN players'} = Cast(flm)]_vars
    <2> SUFFICES ASSUME SearchInv, Next, pc = "cast", pc' = "players"
                 PROVE  {players'[k] : k \in DOMAIN players'} = Cast(flm)
      OBVIOUS
    <2>1. ReadCast
      BY DEF Next, Search, User, Quit, PromptSource, PromptTarget, Finished, Begin, NextPath, NoPath,
             NextFilm, EndOfFilms, Walk, NextPlayer, ReachTarget, EndOfPlayers, vars
    <2> QED
      BY <2>1, CastIsRead
  <1> QED
    BY <1>1, SearchInvariant, PTL DEF Spec, CastIsRight

\* A path that is printed is a shortest one, and that there is none is said only when
\* every chain of films between the two players is too long: marking films and players
\* when they are first met loses nothing, although the start is not marked.
THEOREM PathsAreShortest == Spec => []AnswerIsShortest
  <1>1. ShortInv => AnswerIsShortest
    BY DEF ShortInv
  <1> QED
    BY <1>1, ShortInit, ShortStep, SearchInvariant, PTL DEF Spec

\* Each of the two programs keeps its invariant.
THEOREM ProgramInvariant == TestSpec => []ProgramInv
  BY ProgramStarts, ProgramStep, PTL DEF TestSpec

\* imdb-test lists the films of a player and then the costars, each with the number of
\* the films that both are in; of a list it prints both ends with the right numbers.
THEOREM ListsShowEverything == TestSpec => []ListsAreRight
  <1>1. ProgramInv => ListsAreRight
    <2>1. pc \notin Listing => ListsAreRight
      BY DEF Listing, ListsAreRight
    <2> QED
      BY <2>1, PrintedIsRight DEF ProgramInv
  <1> QED
    BY <1>1, ProgramInvariant, PTL

\* No path is printed but a shortest one, whichever of the two programs was started.
THEOREM NothingIsShorter == TestSpec => []AnswerIsShortest
  <1>1. ProgramInv => AnswerIsShortest
    <2>1. answer.kind = "nothing" => AnswerIsShortest
      BY DEF AnswerIsShortest
    <2> QED
      BY <2>1 DEF ProgramInv, ShortInv, TestInv
  <1> QED
    BY <1>1, ProgramInvariant, PTL

\* Both programs call the same getCast, and it reads the cast of the right film.
THEOREM EveryCastIsRight == TestSpec => CastIsRight
  <1>1. ProgramInv /\ [Programs]_allVars =>
          [(pc = "cast" /\ pc' = "players") => {players'[k] : k \in DOMAIN players'} = Cast(flm)]_vars
    <2> SUFFICES ASSUME ProgramInv, [Programs]_allVars, pc = "cast", pc' = "players"
                 PROVE  {players'[k] : k \in DOMAIN players'} = Cast(flm)
      OBVIOUS
    <2>1. CASE program = "six-degrees"
      <3>1. SearchInv /\ [Next]_vars
        BY <2>1, ProgramSteps DEF ProgramInv
      <3>2. ReadCast
        BY <3>1 DEF Next, Search, User, Quit, PromptSource, PromptTarget, Finished, Begin, NextPath,
                    NoPath, NextFilm, EndOfFilms, Walk, NextPlayer, ReachTarget, EndOfPlayers, vars
      <3> QED
        BY <3>1, <3>2, CastIsRead
    <2>2. CASE program = "imdb-test"
      <3>1. TestInv' /\ [TestNext]_allVars /\ TestInv
        BY <2>2, ProgramSteps, TestStep DEF ProgramInv
      <3>2. flm' = flm
        BY <3>1 DEF TestNext, ListAll, PrintFirst, PrintLast, SkipRecords, EndOfList, NextMovie, AddCast,
                    ListCostars, StartList, Walk, ReadCast, Quit, Finished, walk, vars, allVars
      <3> QED
        BY <3>1, <3>2 DEF TestInv, ToSet
    <2> QED
      BY <2>1, <2>2 DEF ProgramInv
  <1> QED
    BY <1>1, ProgramInvariant, PTL DEF TestSpec, CastIsRight
=============================================================================
