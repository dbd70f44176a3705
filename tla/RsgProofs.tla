----------------------------- MODULE RsgProofs -----------------------------
(***************************************************************************)
(* Proofs about the random sentence generator.  What is read of a file is  *)
(* described by positions in it: the definitions before a position are     *)
(* what the map knows, the productions before it what the Definition has.  *)
(* So the map is, at the end, what the properties say that the file        *)
(* defines.  Then the expansion: only tokens that can come up from <start> *)
(* come up, and what a half expanded version can become is a sentence of   *)
(* the grammar.                                                            *)
(***************************************************************************)
EXTENDS Rsg, LibraryProofs

-----------------------------------------------------------------------------
(***************************************************************************)
(* Numbers and sequences                                                   *)
(***************************************************************************)
LEMMA LeastIs ==
    ASSUME NEW S, NEW m \in S, S \subseteq Int, \A x \in S : m <= x
    PROVE  Min(S) = m
  <1>1. Min(S) = CHOOSE x \in S : \A y \in S : x <= y
    BY DEF Min
  <1>2. \A x \in S : (\A y \in S : x <= y) => x = m
    <2> SUFFICES ASSUME NEW x \in S, x <= m PROVE x = m
      OBVIOUS
    <2>1. x \in Int /\ m \in Int /\ m <= x
      OBVIOUS
    <2> QED
      BY <2>1
  <1> QED
    BY <1>1, <1>2

\* And the greatest one.
LEMMA GreatestIs ==
    ASSUME NEW S, NEW m \in S, S \subseteq Int, \A x \in S : x <= m
    PROVE  Max(S) = m
  <1>1. Max(S) = CHOOSE x \in S : \A y \in S : x >= y
    BY DEF Max
  <1>2. \A x \in S : (\A y \in S : x >= y) => x = m
    <2> SUFFICES ASSUME NEW x \in S, x >= m PROVE x = m
      OBVIOUS
    <2>1. x \in Int /\ m \in Int /\ x <= m
      OBVIOUS
    <2> QED
      BY <2>1
  <1>3. \A y \in S : m >= y
    <2> SUFFICES ASSUME NEW y \in S PROVE m >= y
      OBVIOUS
    <2>1. y \in Int /\ m \in Int /\ y <= m
      OBVIOUS
    <2> QED
      BY <2>1
  <1> QED
    BY <1>1, <1>2, <1>3

\* The tail of a sequence that begins at a position.
LEMMA RestOf ==
    ASSUME NEW S, NEW s \in Seq(S), NEW m \in 1 .. (Len(s) + 1)
    PROVE  /\ SubSeq(s, m, Len(s)) \in Seq(S)
           /\ Len(SubSeq(s, m, Len(s))) = (Len(s) - m) + 1
           /\ \A i \in 1 .. ((Len(s) - m) + 1) : SubSeq(s, m, Len(s))[i] = s[(m + i) - 1]
  OBVIOUS

-----------------------------------------------------------------------------
(***************************************************************************)
(* What is in a file, by positions                                         *)
(***************************************************************************)
Tokens == {file[k] : k \in DOMAIN file} \cup {Start}

Opens(k) == k \in DOMAIN file /\ file[k] = "{"

\* The definition that begins at open ends at close.
Closes(open, close) ==
    /\ close \in (open + 2) .. Len(file)
    /\ file[close] = "}"
    /\ close = open + 2 \/ file[close - 1] = ";"
    /\ \A k \in (open + 1) .. (close - 1) : file[k] \notin {"{", "}"}

\* The production that ends at e begins behind b.
Bounds(open, b, e) ==
    /\ b \in (open + 1) .. (e - 1)
    /\ b = open + 1 \/ file[b] = ";"
    /\ \A k \in (b + 1) .. (e - 1) : file[k] # ";"

Between(b, e) == SubSeq(file, b + 1, e - 1)

\* The productions that begin and end before a position.
ReadBefore(open, p) ==
    {x \in Seq(Tokens) : \E e \in (open + 2) .. (p - 1), b \in 1 .. Len(file) :
                            file[e] = ";" /\ Bounds(open, b, e) /\ x = Between(b, e)}

FileInv == file \in GrammarFiles

\* A file is a sequence of tokens.
LEMMA FileIs ==
    ASSUME FileInv
    PROVE  /\ Len(file) \in Nat /\ DOMAIN file = 1 .. Len(file)
           /\ file \in Seq(Tokens)
  <1> DEFINE S == {file[k] : k \in DOMAIN file}
  <1>1. file \in Seq(S)
    BY GrammarAssumption DEF FileInv
  <1>2. S \subseteq Tokens
    BY DEF Tokens
  <1> HIDE DEF S
  <1>3. Len(file) \in Nat /\ DOMAIN file = 1 .. Len(file)
    BY <1>1
  <1>4. file \in Seq(Tokens)
    BY <1>1, <1>2
  <1> QED
    BY <1>3, <1>4

\* A brace opens a definition that closes.
LEMMA DefinitionFacts ==
    ASSUME FileInv, NEW open, Opens(open)
    PROVE  /\ file[open + 1] # ";" /\ open \in 1 .. Len(file)
           /\ \E close : Closes(open, close)
  BY FileIs, GrammarAssumption DEF FileInv, Opens, Closes

\* What is assumed of the marked tokens.
LEMMA MarkedIs == IsFiniteSet(Marked) /\ Start \in Marked
  BY GrammarAssumption

-----------------------------------------------------------------------------
(***************************************************************************)
(* Reading the grammar                                                     *)
(***************************************************************************)
\* The position in the file of what is read next.
pos == (Len(file) + 1) - Len(infile)

InfileInv ==
    /\ infile \in Seq(Tokens) /\ Len(infile) <= Len(file)
    /\ \A i \in 1 .. Len(infile) : infile[i] = file[(pos + i) - 1]

Defines(open, n) == Opens(open) /\ file[open + 1] = n

\* Of the definitions of n before q the last one.
LastBefore(q, open, n) ==
    /\ open \in 1 .. (q - 1) /\ Defines(open, n)
    /\ \A k \in (open + 1) .. (q - 1) : ~Defines(k, n)

\* What the map knows is the definitions before q.
GrammarIs(q) ==
    /\ \A n : n \in DOMAIN grammar <=> \E open \in 1 .. (q - 1) : Defines(open, n)
    /\ \A n \in DOMAIN grammar :
          /\ grammar[n] \in Seq(Seq(Tokens))
          /\ \E open, close :
                /\ LastBefore(q, open, n) /\ Closes(open, close)
                /\ Range(grammar[n]) = ReadBefore(open, close)

\* A definition is being read.
BodyInv(open, close, b) ==
    /\ Opens(open) /\ Closes(open, close) /\ GrammarIs(open)
    /\ pos \in (open + 2) .. close
    /\ def = [nonterminal |-> file[open + 1], possibleExpansions |-> def.possibleExpansions]
    /\ def.possibleExpansions \in Seq(Seq(Tokens))
    /\ Range(def.possibleExpansions) = ReadBefore(open, pos)
    /\ Bounds(open, b, pos) /\ phrases = Between(b, pos)

ReadInv ==
    /\ FileInv
    /\ pc \in {"text", "body", "expand", "end", "abort"}
    /\ pc \in {"text", "body"} => InfileInv
    /\ pc = "text" => GrammarIs(pos) /\ phrases = <<>>
    /\ pc = "body" => \E open, close, b : BodyInv(open, close, b)
    /\ pc \in {"expand", "end"} => GrammarIs(Len(file) + 1)

\* Taking m tokens from the rest of the file.
LEMMA Forward ==
    ASSUME FileInv, InfileInv, file' = file, NEW m \in 1 .. Len(infile),
           infile' = SubSeq(infile, m + 1, Len(infile))
    PROVE  /\ InfileInv' /\ pos' = pos + m
           /\ pos \in 1 .. Len(file) /\ pos' \in 2 .. (Len(file) + 1)
           /\ Tokens' = Tokens
  <1> DEFINE n == Len(infile)
  <1>1. n \in Nat /\ Len(file) \in Nat /\ n <= Len(file) /\ infile \in Seq(Tokens)
    BY FileIs DEF InfileInv
  <1>2. Tokens' = Tokens
    BY DEF Tokens
  <1>3. m + 1 \in 1 .. (n + 1) /\ (n - (m + 1)) + 1 = n - m
    BY <1>1
  <1>4. /\ infile' \in Seq(Tokens) /\ Len(infile') = n - m
        /\ \A i \in 1 .. (n - m) : infile'[i] = infile[((m + 1) + i) - 1]
    BY <1>1, <1>3, RestOf
  <1>5. pos' = pos + m /\ pos \in 1 .. Len(file) /\ pos' \in 2 .. (Len(file) + 1)
    <2>1. pos = (Len(file) + 1) - n /\ pos' = (Len(file) + 1) - (n - m) /\ m \in 1 .. n
      BY <1>4 DEF pos
    <2> HIDE DEF n
    <2> QED
      BY <1>1, <2>1
  <1>6. pos \in Int
    BY <1>5
  <1>7. ASSUME NEW i \in 1 .. (n - m) PROVE infile'[i] = file[(pos' + i) - 1]
    <2>1. ((m + 1) + i) - 1 = m + i /\ m + i \in 1 .. n /\ (pos' + i) - 1 = (pos + (m + i)) - 1
      BY <1>1, <1>5, <1>6
    <2>2. infile[m + i] = file[(pos + (m + i)) - 1]
      BY <2>1 DEF InfileInv
    <2> QED
      BY <1>4, <2>1, <2>2
  <1>8. InfileInv'
    BY <1>1, <1>2, <1>4, <1>7 DEF InfileInv
  <1> QED
    BY <1>2, <1>5, <1>8

\* The next token.
LEMMA HeadIs ==
    ASSUME FileInv, InfileInv, infile # <<>>
    PROVE  /\ Head(infile) = file[pos] /\ Head(infile) \in Tokens
           /\ Len(infile) \in Nat \ {0}
           /\ Tail(infile) = SubSeq(infile, 2, Len(infile))
  <1>1. Len(infile) \in Nat \ {0} /\ infile \in Seq(Tokens)
    BY DEF InfileInv
  <1>2. infile[1] = file[(pos + 1) - 1] /\ pos \in Int
    BY <1>1, FileIs DEF InfileInv, pos
  <1>3. Head(infile) = infile[1] /\ Head(infile) \in Tokens
    BY <1>1
  <1>4. Tail(infile) = SubSeq(infile, 2, Len(infile))
    BY <1>1
  <1> QED
    BY <1>1, <1>2, <1>3, <1>4

\* What is said of the grammar does not depend on anything else.
LEMMA GrammarKept ==
    ASSUME NEW q, file' = file
    PROVE  /\ \A open, close : (ReadBefore(open, close))' = ReadBefore(open, close)
           /\ \A open, close : (Closes(open, close))' <=> Closes(open, close)
           /\ \A open, n : (Defines(open, n))' <=> Defines(open, n)
           /\ \A open : (Opens(open))' <=> Opens(open)
           /\ GrammarIs(q) /\ grammar' = grammar => (GrammarIs(q))'
  <1>1. Tokens' = Tokens
    BY DEF Tokens
  <1>2. \A open, close : (ReadBefore(open, close))' = ReadBefore(open, close)
    BY <1>1 DEF ReadBefore, Bounds, Between
  <1>3. \A open, close : (Closes(open, close))' <=> Closes(open, close)
    BY DEF Closes
  <1>4. \A open, n : (Defines(open, n))' <=> Defines(open, n)
    BY DEF Defines, Opens
  <1>5. \A open, n : (LastBefore(q, open, n))' <=> LastBefore(q, open, n)
    BY <1>4 DEF LastBefore
  <1>6. ASSUME GrammarIs(q), grammar' = grammar PROVE (GrammarIs(q))'
    BY <1>1, <1>2, <1>3, <1>4, <1>5, <1>6 DEF GrammarIs
  <1> QED
    BY <1>2, <1>3, <1>4, <1>6 DEF Opens

\* Where no definition begins nothing has to be known.
LEMMA GrammarFurther ==
    ASSUME NEW q \in Nat, NEW r \in Nat, q <= r, GrammarIs(q),
           \A k \in q .. (r - 1) : ~Opens(k)
    PROVE  GrammarIs(r)
  <1>1. \A k \in 1 .. (r - 1) : k \in 1 .. (q - 1) \/ ~Opens(k)
    OBVIOUS
  <1>2. \A k \in 1 .. (q - 1) : k \in 1 .. (r - 1)
    OBVIOUS
  <1>3. ASSUME NEW n
        PROVE  n \in DOMAIN grammar <=> \E open \in 1 .. (r - 1) : Defines(open, n)
    BY <1>1, <1>2 DEF GrammarIs, Defines
  <1>4. ASSUME NEW n, NEW open, LastBefore(q, open, n)
        PROVE  LastBefore(r, open, n)
    <2>1. \A k \in (open + 1) .. (r - 1) : k \in (open + 1) .. (q - 1) \/ ~Opens(k)
      BY <1>4 DEF LastBefore
    <2> QED
      BY <1>2, <1>4, <2>1 DEF LastBefore, Defines
  <1> QED
    BY <1>3, <1>4 DEF GrammarIs

\* Where a definition closes.
LEMMA CloseIs ==
    ASSUME FileInv, NEW open \in Int, NEW close, Closes(open, close)
    PROVE  close \in Int /\ open + 2 <= close /\ close <= Len(file)
  <1>1. close \in (open + 2) .. Len(file) /\ Len(file) \in Nat
    BY FileIs DEF Closes
  <1> QED
    BY <1>1

\* Nothing is between a position and the next one.
LEMMA NothingBetween ==
    ASSUME NEW b \in Nat, file \in Seq(Tokens)
    PROVE  Between(b, b + 1) = <<>>
  <1>1. (b + 1) - 1 = b /\ b < b + 1
    OBVIOUS
  <1>2. SubSeq(file, b + 1, b) = <<>>
    OBVIOUS
  <1> QED
    BY <1>1, <1>2 DEF Between

\* Where productions are does not change while the file stays.
LEMMA BoundsKept ==
    ASSUME file' = file
    PROVE  \A open, b, e : /\ (Bounds(open, b, e))' <=> Bounds(open, b, e)
                           /\ (Between(b, e))' = Between(b, e)
  BY DEF Bounds, Between

\* The next brace opens the next definition: the text that was skipped has none.
LEMMA OpenStep ==
    ASSUME ReadInv, OpenDefinition
    PROVE  ReadInv'
  <1>1. /\ pc = "text" /\ Braces # {} /\ pc' = "body"
        /\ file' = file /\ grammar' = grammar /\ phrases' = phrases
        /\ def' = [nonterminal |-> infile[Min(Braces) + 1], possibleExpansions |-> <<>>]
        /\ infile' = SubSeq(infile, Min(Braces) + 2, Len(infile))
    BY DEF OpenDefinition
  <1>2. FileInv /\ InfileInv /\ GrammarIs(pos) /\ phrases = <<>>
    BY <1>1 DEF ReadInv
  <1>3. /\ Len(infile) \in Nat /\ DOMAIN infile = 1 .. Len(infile) /\ Len(infile) <= Len(file)
        /\ Len(file) \in Nat
    BY <1>2, FileIs DEF InfileInv
  <1>0. Braces \subseteq 1 .. Len(infile)
    BY <1>3 DEF Braces
  <1>4. PICK m \in Braces : \A k \in Braces : m <= k
    <2>1. Braces \in SUBSET Nat
      BY <1>0, <1>3
    <2> HIDE DEF Braces
    <2> QED
      BY <1>1, <2>1, LeastNumber
  <1>5. Min(Braces) = m
    <2>1. Braces \subseteq Int
      BY <1>0, <1>3
    <2> QED
      BY <1>4, <2>1, LeastIs
  <1>6. pos \in 1 .. Len(file) /\ m \in 1 .. Len(infile) /\ pos = (Len(file) + 1) - Len(infile)
    <2>1. m \in 1 .. Len(infile)
      BY <1>0, <1>4
    <2> QED
      BY <1>3, <2>1 DEF pos
  <1>7. PICK open : open = (pos + m) - 1 /\ open \in 1 .. Len(file) /\ open \in pos .. Len(file)
    BY <1>3, <1>6
  <1>8. \A k \in 1 .. Len(infile) : infile[k] = file[(pos + k) - 1]
    BY <1>2 DEF InfileInv
  <1>9. Opens(open)
    <2>1. infile[m] = "{"
      BY <1>4 DEF Braces
    <2> QED
      BY <1>2, <1>6, <1>7, <1>8, <2>1, FileIs DEF Opens
  <1>10. \A k \in pos .. (open - 1) : ~Opens(k)
    <2> SUFFICES ASSUME NEW k \in pos .. (open - 1), Opens(k) PROVE FALSE
      OBVIOUS
    <2>1. (k - pos) + 1 \in 1 .. Len(infile) /\ (pos + ((k - pos) + 1)) - 1 = k /\ (k - pos) + 1 < m
      BY <1>3, <1>6, <1>7
    <2>2. infile[(k - pos) + 1] = "{"
      BY <1>8, <2>1 DEF Opens
    <2>3. (k - pos) + 1 \in Braces
      BY <1>3, <2>1, <2>2 DEF Braces
    <2> QED
      BY <1>4, <1>6, <2>1, <2>3
  <1>11. PICK close : Closes(open, close)
    BY <1>2, <1>9, DefinitionFacts
  <1>12. close \in Int /\ open + 2 <= close /\ open + 2 <= Len(file) /\ m + 1 \in 1 .. Len(infile)
    <2>1. close \in Int /\ open + 2 <= close /\ close <= Len(file)
      BY <1>2, <1>7, <1>11, CloseIs
    <2> QED
      BY <1>3, <1>6, <1>7, <2>1
  <1>13. infile' = SubSeq(infile, (m + 1) + 1, Len(infile))
    BY <1>1, <1>3, <1>5, <1>6
  <1>14. InfileInv' /\ pos' = pos + (m + 1) /\ Tokens' = Tokens
    BY <1>1, <1>2, <1>12, <1>13, Forward
  <1>15. pos' = open + 2
    BY <1>6, <1>7, <1>14
  <1>16. infile[m + 1] = file[open + 1]
    <2>1. infile[m + 1] = file[(pos + (m + 1)) - 1] /\ (pos + (m + 1)) - 1 = open + 1
      BY <1>6, <1>7, <1>8, <1>12
    <2> QED
      BY <2>1
  <1>17. GrammarIs(open)
    <2>1. pos \in Nat /\ open \in Nat /\ pos <= open
      BY <1>6, <1>7
    <2> QED
      BY <1>2, <1>10, <2>1, GrammarFurther
  <1>18. (Opens(open) /\ Closes(open, close) /\ GrammarIs(open))'
    BY <1>1, <1>9, <1>11, <1>17, GrammarKept
  <1>19. def' = [nonterminal |-> file[open + 1], possibleExpansions |-> <<>>]
    BY <1>1, <1>5, <1>16
  <1>20. ReadBefore(open, open + 2) = {}
    <2>1. \A e \in (open + 2) .. ((open + 2) - 1) : FALSE
      BY <1>7
    <2> QED
      BY <2>1 DEF ReadBefore
  <1>21. Range(<<>>) = {}
    BY DEF Range
  <1>22. Between(open + 1, open + 2) = <<>> /\ Bounds(open, open + 1, open + 2)
    <2>1. open + 1 \in (open + 1) .. ((open + 2) - 1) /\ open + 1 \in Nat
      BY <1>7
    <2>4. file \in Seq(Tokens)
      BY <1>2, FileIs
    <2>5. Between(open + 1, (open + 1) + 1) = <<>>
      BY <2>1, <2>4, NothingBetween
    <2>3. Between(open + 1, open + 2) = <<>>
      <3>1. (open + 1) + 1 = open + 2
        BY <1>7
      <3> QED
        BY <2>5, <3>1
    <2>2. \A k \in ((open + 1) + 1) .. ((open + 2) - 1) : FALSE
      BY <1>7
    <2> QED
      BY <2>1, <2>2, <2>3 DEF Bounds
  <1>23. open + 2 \in (open + 2) .. close
    BY <1>7, <1>12
  <1>24. (BodyInv(open, close, open + 1))'
    <2>1. /\ def'.possibleExpansions = <<>>
          /\ def' = [nonterminal |-> file'[open + 1], possibleExpansions |-> def'.possibleExpansions]
      BY <1>1, <1>19
    <2>2. (Range(def.possibleExpansions) = ReadBefore(open, pos))'
      BY <1>1, <1>15, <1>20, <1>21, <2>1, GrammarKept
    <2>3. (Bounds(open, open + 1, pos) /\ phrases = Between(open + 1, pos))'
      BY <1>1, <1>2, <1>15, <1>22, BoundsKept
    <2>4. def'.possibleExpansions \in Seq(Seq(Tokens'))
      BY <2>1
    <2> QED
      BY <1>15, <1>18, <1>23, <2>1, <2>2, <2>3, <2>4 DEF BodyInv
  <1> QED
    BY <1>1, <1>2, <1>14, <1>24 DEF ReadInv, FileInv

\* A production begins at one place.
LEMMA OneBegin ==
    ASSUME NEW open \in Int, NEW b, NEW c, NEW e \in Int, Bounds(open, b, e), Bounds(open, c, e)
    PROVE  b = c
  <1>1. b \in (open + 1) .. (e - 1) /\ c \in (open + 1) .. (e - 1)
    BY DEF Bounds
  <1>2. ~(b < c)
    <2> SUFFICES ASSUME b < c PROVE FALSE
      OBVIOUS
    <2>1. c \in (b + 1) .. (e - 1) /\ c # open + 1
      BY <1>1
    <2> QED
      BY <2>1 DEF Bounds
  <1>3. ~(c < b)
    <2> SUFFICES ASSUME c < b PROVE FALSE
      OBVIOUS
    <2>1. b \in (c + 1) .. (e - 1) /\ b # open + 1
      BY <1>1
    <2> QED
      BY <2>1 DEF Bounds
  <1> QED
    BY <1>1, <1>2, <1>3

\* At the end of a definition no production is half read.
LEMMA EndIsEmpty ==
    ASSUME FileInv, NEW open \in Nat, NEW close, Closes(open, close), NEW b, Bounds(open, b, close)
    PROVE  Between(b, close) = <<>>
  <1>1. close \in Int /\ open + 2 <= close /\ close <= Len(file)
    BY CloseIs
  <1>2. b \in (open + 1) .. (close - 1)
    BY DEF Bounds
  <1>3. b = close - 1
    <2>1. CASE close = open + 2
      BY <1>1, <1>2, <2>1
    <2>2. CASE file[close - 1] = ";"
      <3> SUFFICES ASSUME b # close - 1 PROVE FALSE
        OBVIOUS
      <3>1. close - 1 \in (b + 1) .. (close - 1)
        BY <1>1, <1>2
      <3> QED
        BY <2>2, <3>1 DEF Bounds
    <2> QED
      BY <2>1, <2>2 DEF Closes
  <1>4. b \in Nat /\ b + 1 = close
    BY <1>1, <1>2, <1>3
  <1>5. file \in Seq(Tokens)
    BY FileIs
  <1>6. Between(b, b + 1) = <<>>
    BY <1>4, <1>5, NothingBetween
  <1> QED
    BY <1>4, <1>6

\* One token more.
LEMMA BetweenGrows ==
    ASSUME NEW b \in Nat, NEW e \in Nat, b < e, e <= Len(file), file \in Seq(Tokens)
    PROVE  /\ Between(b, e) \in Seq(Tokens)
           /\ Between(b, e + 1) = Append(Between(b, e), file[e])
  <1>1. Len(file) \in Nat /\ b + 1 <= e /\ b + 1 \in Nat /\ e - 1 \in Nat /\ (e + 1) - 1 = e
    OBVIOUS
  <1>2. SubSeq(file, b + 1, e - 1) \in Seq(Tokens)
    BY <1>1
  <1>3. SubSeq(file, b + 1, e) = Append(SubSeq(file, b + 1, e - 1), file[e])
    BY <1>1
  <1> QED
    BY <1>1, <1>2, <1>3 DEF Between

\* Append adds one element.
LEMMA RangeOfAppend ==
    ASSUME NEW S, NEW s \in Seq(S), NEW x \in S
    PROVE  Append(s, x) \in Seq(S) /\ Range(Append(s, x)) = Range(s) \cup {x}
  <1>1. Append(s, x) \in Seq(S) /\ Len(s) \in Nat /\ DOMAIN s = 1 .. Len(s)
        /\ DOMAIN Append(s, x) = 1 .. (Len(s) + 1)
        /\ \A i \in 1 .. Len(s) : Append(s, x)[i] = s[i]
        /\ Append(s, x)[Len(s) + 1] = x
    OBVIOUS
  <1>2. 1 .. (Len(s) + 1) = (1 .. Len(s)) \cup {Len(s) + 1}
    BY <1>1
  <1> QED
    BY <1>1, <1>2 DEF Range

\* The productions before the next position.
LEMMA ReadOneMore ==
    ASSUME FileInv, NEW open \in Nat, NEW e \in Nat, open + 2 <= e, e <= Len(file)
    PROVE  /\ file[e] # ";" => ReadBefore(open, e + 1) = ReadBefore(open, e)
           /\ \A b : file[e] = ";" /\ Bounds(open, b, e) =>
                       ReadBefore(open, e + 1) = ReadBefore(open, e) \cup {Between(b, e)}
  <1>1. file \in Seq(Tokens) /\ Len(file) \in Nat
    BY FileIs
  <1>2. (open + 2) .. ((e + 1) - 1) = ((open + 2) .. (e - 1)) \cup {e}
    OBVIOUS
  <1>3. ASSUME file[e] # ";" PROVE ReadBefore(open, e + 1) = ReadBefore(open, e)
    BY <1>2, <1>3 DEF ReadBefore
  <1>4. ASSUME NEW b, file[e] = ";", Bounds(open, b, e)
        PROVE  ReadBefore(open, e + 1) = ReadBefore(open, e) \cup {Between(b, e)}
    <2>1. b \in (open + 1) .. (e - 1)
      BY <1>4 DEF Bounds
    <2>2. b \in Nat /\ b < e /\ b \in 1 .. Len(file)
      BY <1>1, <2>1
    <2>3. Between(b, e) \in Seq(Tokens)
      BY <1>1, <2>2, BetweenGrows
    <2>4. ASSUME NEW c, Bounds(open, c, e) PROVE c = b
      <3>1. open \in Int /\ e \in Int
        OBVIOUS
      <3> QED
        BY <1>4, <2>4, <3>1, OneBegin
    <2> QED
      BY <1>2, <1>4, <2>2, <2>3, <2>4 DEF ReadBefore
  <1> QED
    BY <1>3, <1>4

\* What is known while a definition is being read.
LEMMA BodyFacts ==
    ASSUME ReadInv, pc = "body"
    PROVE  /\ FileInv /\ InfileInv /\ infile # <<>>
           /\ file \in Seq(Tokens) /\ Len(file) \in Nat /\ Len(infile) \in Nat \ {0}
           /\ Head(infile) = file[pos] /\ Head(infile) \in Tokens
           /\ Tail(infile) = SubSeq(infile, 1 + 1, Len(infile))
           /\ pos \in 1 .. Len(file)
           /\ \E open, close, b : /\ BodyInv(open, close, b)
                                  /\ open \in Nat /\ close \in Nat /\ pos \in Nat
                                  /\ open + 2 <= pos /\ pos <= close /\ close <= Len(file)
                                  /\ b \in Nat /\ b < pos /\ open + 1 <= b
  <1>1. FileInv /\ InfileInv /\ \E open, close, b : BodyInv(open, close, b)
    BY DEF ReadInv
  <1>2. PICK open, close, b : BodyInv(open, close, b)
    BY <1>1
  <1>3. file \in Seq(Tokens) /\ Len(file) \in Nat /\ DOMAIN file = 1 .. Len(file)
    BY <1>1, FileIs
  <1>4. open \in 1 .. Len(file)
    BY <1>2, <1>3 DEF BodyInv, Opens
  <1>5. close \in Int /\ open + 2 <= close /\ close <= Len(file)
    <2>1. open \in Int /\ Closes(open, close)
      BY <1>2, <1>4 DEF BodyInv
    <2> QED
      BY <1>1, <2>1, CloseIs
  <1>6. pos \in (open + 2) .. close /\ Bounds(open, b, pos)
    BY <1>2 DEF BodyInv
  <1>7. open \in Nat /\ close \in Nat /\ pos \in Nat /\ open + 2 <= pos /\ pos <= close
    BY <1>4, <1>5, <1>6
  <1>8. b \in Nat /\ b < pos /\ open + 1 <= b
    <2>1. b \in (open + 1) .. (pos - 1)
      BY <1>6 DEF Bounds

    <2> QED
      BY <1>7, <2>1
  <1>9. infile \in Seq(Tokens) /\ Len(infile) \in Nat
    BY <1>1 DEF InfileInv
  <1>10. infile # <<>>
    <2>1. Len(infile) > 0
      BY <1>3, <1>5, <1>7, <1>9 DEF pos
    <2> QED
      BY <1>9, <2>1
  <1>11. /\ Head(infile) = file[pos] /\ Head(infile) \in Tokens
         /\ Len(infile) \in Nat \ {0} /\ Tail(infile) = SubSeq(infile, 2, Len(infile))
    BY <1>1, <1>10, HeadIs
  <1>12. pos \in 1 .. Len(file)
    BY <1>3, <1>4, <1>5, <1>7
  <1> QED
    BY <1>1, <1>2, <1>3, <1>5, <1>7, <1>8, <1>10, <1>11, <1>12

\* A token ends a production or belongs to it; it is never the last brace, for there
\* the production would be empty.
LEMMA PhraseStep ==
    ASSUME ReadInv, ReadPhrase
    PROVE  ReadInv'
  <1> DEFINE x == Head(infile)
             more == def.possibleExpansions
  <1>1. /\ pc = "body" /\ ~AtEnd /\ pc' = pc /\ file' = file /\ grammar' = grammar
        /\ phrases' = IF x = ";" THEN <<>> ELSE Append(phrases, x)
        /\ def' = IF x = ";" THEN [def EXCEPT !.possibleExpansions = Append(more, phrases)]
                  ELSE def
        /\ infile' = Tail(infile)
    BY DEF ReadPhrase
  <1>2. /\ FileInv /\ InfileInv /\ infile # <<>>
        /\ file \in Seq(Tokens) /\ Len(file) \in Nat /\ Len(infile) \in Nat \ {0}
        /\ x = file[pos] /\ x \in Tokens
        /\ Tail(infile) = SubSeq(infile, 1 + 1, Len(infile))
        /\ pos \in 1 .. Len(file)
    BY <1>1, BodyFacts
  <1>3. PICK open, close, b :
          /\ BodyInv(open, close, b)
          /\ open \in Nat /\ close \in Nat /\ pos \in Nat
          /\ open + 2 <= pos /\ pos <= close /\ close <= Len(file)
          /\ b \in Nat /\ b < pos /\ open + 1 <= b
    BY <1>1, BodyFacts
  <1>4. /\ Opens(open) /\ Closes(open, close) /\ GrammarIs(open)
        /\ def = [nonterminal |-> file[open + 1], possibleExpansions |-> more]
        /\ more \in Seq(Seq(Tokens)) /\ Range(more) = ReadBefore(open, pos)
        /\ Bounds(open, b, pos) /\ phrases = Between(b, pos)
    BY <1>3 DEF BodyInv
  <1>5. InfileInv' /\ pos' = pos + 1 /\ Tokens' = Tokens
    <2>1. 1 \in 1 .. Len(infile)
      BY <1>2
    <2> QED
      BY <1>1, <1>2, <2>1, Forward
  <1>6. pos < close
    <2> SUFFICES ASSUME pos = close PROVE FALSE
      BY <1>3
    <2>1. phrases = <<>>
      BY <1>2, <1>3, <1>4, EndIsEmpty
    <2>2. x = "}"
      BY <1>2, <1>4 DEF Closes
    <2> QED
      BY <1>1, <2>1, <2>2 DEF AtEnd
  <1> HIDE DEF x, more

  <1>7. (Opens(open) /\ Closes(open, close) /\ GrammarIs(open))'
    BY <1>1, <1>4, GrammarKept
  <1>8. pos' \in (open + 2) .. close
    BY <1>3, <1>5, <1>6
  <1>9. pos <= Len(file)
    BY <1>3
  <1>10. /\ Between(b, pos) \in Seq(Tokens)
         /\ Between(b, pos + 1) = Append(Between(b, pos), file[pos])
    BY <1>2, <1>3, <1>9, BetweenGrows
  <1>11. CASE x = ";"
    <2>1. file[pos] = ";"
      BY <1>2, <1>11
    <2>2. ReadBefore(open, pos + 1) = ReadBefore(open, pos) \cup {phrases}
      BY <1>2, <1>3, <1>4, <1>9, <2>1, ReadOneMore
    <2>3. /\ Append(more, phrases) \in Seq(Seq(Tokens))
          /\ Range(Append(more, phrases)) = ReadBefore(open, pos + 1)
      <3>1. phrases \in Seq(Tokens)
        BY <1>4, <1>10
      <3>2. more \in Seq(Seq(Tokens))
        BY <1>4
      <3>3. /\ Append(more, phrases) \in Seq(Seq(Tokens))
            /\ Range(Append(more, phrases)) = Range(more) \cup {phrases}
        BY <3>1, <3>2, RangeOfAppend
      <3> QED
        BY <1>4, <2>2, <3>3
    <2>4. def' = [nonterminal |-> file[open + 1], possibleExpansions |-> Append(more, phrases)]
      BY <1>1, <1>4, <1>11
    <2>5. def'.possibleExpansions = Append(more, phrases)
      BY <2>4
    <2>6. Bounds(open, pos, pos + 1)
      <3>1. pos \in (open + 1) .. ((pos + 1) - 1)
        BY <1>3
      <3>2. \A k \in (pos + 1) .. ((pos + 1) - 1) : FALSE
        BY <1>3
      <3> QED
        BY <2>1, <3>1, <3>2 DEF Bounds
    <2>7. Between(pos, pos + 1) = <<>>
      BY <1>2, <1>3, NothingBetween
    <2>8. phrases' = <<>>
      BY <1>1, <1>11
    <2>9. PICK here : here = pos
      OBVIOUS
    <2>10. (Bounds(open, here, pos) /\ phrases = Between(here, pos))'
      BY <1>1, <1>5, <2>6, <2>7, <2>8, <2>9, BoundsKept
    <2>11. (Range(def.possibleExpansions) = ReadBefore(open, pos))'
      BY <1>1, <1>5, <2>3, <2>5, GrammarKept
    <2>12. /\ def'.possibleExpansions \in Seq(Seq(Tokens'))
           /\ def' = [nonterminal |-> file'[open + 1], possibleExpansions |-> def'.possibleExpansions]
      BY <1>1, <1>5, <2>3, <2>4, <2>5
    <2>13. (BodyInv(open, close, here))'
      BY <1>7, <1>8, <2>10, <2>11, <2>12 DEF BodyInv
    <2> QED
      BY <1>1, <1>2, <1>5, <2>13 DEF ReadInv, FileInv
  <1>12. CASE x # ";"
    <2>1. file[pos] # ";"
      BY <1>2, <1>12
    <2>2. ReadBefore(open, pos + 1) = ReadBefore(open, pos)
      BY <1>2, <1>3, <1>9, <2>1, ReadOneMore
    <2>3. Bounds(open, b, pos + 1)
      <3>1. b \in (open + 1) .. ((pos + 1) - 1)
        BY <1>3
      <3>2. \A k \in (b + 1) .. ((pos + 1) - 1) : k \in (b + 1) .. (pos - 1) \/ k = pos
        BY <1>3
      <3> QED
        BY <1>4, <2>1, <3>1, <3>2 DEF Bounds
    <2>4. phrases' = Between(b, pos + 1) /\ def' = def
      BY <1>1, <1>2, <1>4, <1>10, <1>12
    <2>5. (Bounds(open, b, pos) /\ phrases = Between(b, pos))'
      BY <1>1, <1>5, <2>3, <2>4, BoundsKept
    <2>6. def'.possibleExpansions = more
      BY <2>4 DEF more
    <2>7. (Range(def.possibleExpansions) = ReadBefore(open, pos))'
      BY <1>1, <1>4, <1>5, <2>2, <2>6, GrammarKept
    <2>8. /\ def'.possibleExpansions \in Seq(Seq(Tokens'))
          /\ def' = [nonterminal |-> file'[open + 1], possibleExpansions |-> def'.possibleExpansions]
      BY <1>1, <1>4, <1>5, <2>4, <2>6
    <2>9. (BodyInv(open, close, b))'
      BY <1>7, <1>8, <2>5, <2>7, <2>8 DEF BodyInv
    <2> QED
      BY <1>1, <1>2, <1>5, <2>9 DEF ReadInv, FileInv
  <1> QED
    BY <1>11, <1>12

\* Operator [] replaces what the map had: the definitions before the next position are
\* now what it knows, the last one for each nonterminal.
LEMMA CloseStep ==
    ASSUME ReadInv, CloseDefinition
    PROVE  ReadInv'
  <1>1. /\ pc = "body" /\ phrases = <<>> /\ Head(infile) = "}"
        /\ grammar' = Assigned /\ infile' = Tail(infile) /\ pc' = "text"
        /\ file' = file /\ phrases' = phrases
    BY DEF CloseDefinition, AtEnd
  <1>2. /\ FileInv /\ InfileInv /\ infile # <<>>
        /\ file \in Seq(Tokens) /\ Len(file) \in Nat /\ Len(infile) \in Nat \ {0}
        /\ Head(infile) = file[pos]
        /\ Tail(infile) = SubSeq(infile, 1 + 1, Len(infile))
        /\ pos \in 1 .. Len(file)
    BY <1>1, BodyFacts
  <1>3. PICK open, close, b :
          /\ BodyInv(open, close, b)
          /\ open \in Nat /\ close \in Nat /\ pos \in Nat
          /\ open + 2 <= pos /\ pos <= close /\ close <= Len(file)
          /\ b \in Nat /\ b < pos /\ open + 1 <= b
    BY <1>1, BodyFacts
  <1> DEFINE here == file[open + 1]
             more == def.possibleExpansions
  <1>4. /\ Opens(open) /\ Closes(open, close) /\ GrammarIs(open)
        /\ def = [nonterminal |-> here, possibleExpansions |-> more]
        /\ more \in Seq(Seq(Tokens)) /\ Range(more) = ReadBefore(open, pos)
    BY <1>3 DEF BodyInv
  <1>5. InfileInv' /\ pos' = pos + 1 /\ Tokens' = Tokens
    <2>1. 1 \in 1 .. Len(infile)
      BY <1>2
    <2> QED
      BY <1>1, <1>2, <2>1, Forward
  <1>6. pos = close
    <2> SUFFICES ASSUME pos # close PROVE FALSE
      OBVIOUS
    <2>1. pos \in (open + 1) .. (close - 1)
      BY <1>3
    <2> QED
      BY <1>1, <1>2, <1>4, <2>1 DEF Closes
  <1>7. def.nonterminal = here
    BY <1>4
  <1> HIDE DEF here, more
  <1>8. grammar' = [n \in DOMAIN grammar \cup {here} |-> IF n = here THEN more ELSE grammar[n]]
    BY <1>1, <1>7 DEF Assigned, more
  <1>9. Defines(open, here) /\ \A n : Defines(open, n) => n = here
    BY <1>4 DEF Defines, here
  <1>10. \A k \in (open + 1) .. close : ~Opens(k)
    <2>1. \A k \in (open + 1) .. close : k \in (open + 1) .. (close - 1) \/ k = close
      BY <1>3
    <2> QED
      BY <1>4, <2>1 DEF Closes, Opens
  <1>11. \A k \in 1 .. ((close + 1) - 1) : k \in 1 .. (open - 1) \/ k = open \/ k \in (open + 1) .. close
    BY <1>3
  <1>12. open \in 1 .. ((close + 1) - 1) /\ \A k \in 1 .. (open - 1) : k \in 1 .. ((close + 1) - 1)
    <2>1. open \in 1 .. Len(file)
      BY <1>2, <1>4, FileIs DEF Opens
    <2> QED
      BY <1>3, <2>1
  <1>13. ASSUME NEW n
         PROVE  n \in DOMAIN grammar' <=> \E o \in 1 .. ((close + 1) - 1) : Defines(o, n)
    <2>1. n \in DOMAIN grammar <=> \E o \in 1 .. (open - 1) : Defines(o, n)
      BY <1>4 DEF GrammarIs
    <2>2. n \in DOMAIN grammar' <=> n \in DOMAIN grammar \/ n = here
      BY <1>8
    <2> QED
      BY <1>9, <1>10, <1>11, <1>12, <2>1, <2>2 DEF Defines
  <1>14. ASSUME NEW n \in DOMAIN grammar'
         PROVE  /\ grammar'[n] \in Seq(Seq(Tokens))
                /\ \E o, c : /\ LastBefore(close + 1, o, n) /\ Closes(o, c)
                             /\ Range(grammar'[n]) = ReadBefore(o, c)
    <2>1. CASE n = here
      <3>1. grammar'[n] = more
        BY <1>8, <2>1
      <3>2. LastBefore(close + 1, open, n)
        <4>1. \A k \in (open + 1) .. ((close + 1) - 1) : k \in (open + 1) .. close
          BY <1>3
        <4> QED
          BY <1>9, <1>10, <1>12, <2>1, <4>1 DEF LastBefore, Defines
      <3> QED
        BY <1>4, <1>6, <3>1, <3>2
    <2>2. CASE n # here
      <3>1. n \in DOMAIN grammar /\ grammar'[n] = grammar[n]
        BY <1>8, <2>2
      <3>2. grammar[n] \in Seq(Seq(Tokens))
        BY <1>4, <3>1 DEF GrammarIs
      <3>3. PICK o, c : /\ LastBefore(open, o, n) /\ Closes(o, c)
                        /\ Range(grammar[n]) = ReadBefore(o, c)
        BY <1>4, <3>1 DEF GrammarIs
      <3>4. LastBefore(close + 1, o, n)
        <4>0. o \in 1 .. (open - 1) /\ Defines(o, n) /\ \A k \in (o + 1) .. (open - 1) : ~Defines(k, n)
          BY <3>3 DEF LastBefore
        <4>1. \A k \in (o + 1) .. ((close + 1) - 1) :
                k \in (o + 1) .. (open - 1) \/ k = open \/ k \in (open + 1) .. close
          BY <1>3, <4>0
        <4>2. \A k \in (open + 1) .. close : ~Defines(k, n)
          BY <1>10 DEF Defines
        <4>3. ~Defines(open, n)
          BY <1>9, <2>2
        <4> QED
          BY <1>12, <4>0, <4>1, <4>2, <4>3 DEF LastBefore
      <3> QED
        BY <3>1, <3>2, <3>3, <3>4
    <2> QED
      BY <2>1, <2>2
  <1>15. PICK q : q = close + 1
    OBVIOUS
  <1>16. GrammarIs(q)'
    <2>1. ASSUME NEW o, NEW n
          PROVE  /\ (LastBefore(q, o, n))' <=> LastBefore(q, o, n)
                 /\ (Defines(o, n))' <=> Defines(o, n)
      BY <1>1 DEF LastBefore, Defines, Opens
    <2>2. \A o, c : /\ (Closes(o, c))' <=> Closes(o, c)
                    /\ (ReadBefore(o, c))' = ReadBefore(o, c)
      BY <1>1, GrammarKept
    <2>3. \A n : n \in DOMAIN grammar' <=> \E o \in 1 .. (q - 1) : (Defines(o, n))'
      BY <1>13, <1>15, <2>1
    <2>4. \A n \in DOMAIN grammar' :
            /\ grammar'[n] \in Seq(Seq(Tokens'))
            /\ \E o, c : /\ (LastBefore(q, o, n))' /\ (Closes(o, c))'
                         /\ Range(grammar'[n]) = (ReadBefore(o, c))'
      BY <1>5, <1>14, <1>15, <2>1, <2>2
    <2>5. \A n \in DOMAIN grammar' : Range(grammar'[n]) = (Range(grammar[n]))'
      BY DEF Range
    <2> QED
      BY <2>3, <2>4, <2>5 DEF GrammarIs
  <1>17. (GrammarIs(pos))'
    BY <1>5, <1>6, <1>15, <1>16
  <1> QED
    BY <1>1, <1>2, <1>5, <1>17 DEF ReadInv, FileInv

\* No definition begins in what is left.
LEMMA EndStep ==
    ASSUME ReadInv, EndOfFile
    PROVE  ReadInv'
  <1>1. pc = "text" /\ Braces = {} /\ pc' = "expand" /\ file' = file /\ grammar' = grammar
    BY DEF EndOfFile
  <1>2. FileInv /\ InfileInv /\ GrammarIs(pos)
    BY <1>1 DEF ReadInv
  <1>3. /\ Len(infile) \in Nat /\ DOMAIN infile = 1 .. Len(infile) /\ Len(infile) <= Len(file)
        /\ Len(file) \in Nat
        /\ \A k \in 1 .. Len(infile) : infile[k] = file[(pos + k) - 1]
    BY <1>2, FileIs DEF InfileInv
  <1>4. pos \in Nat /\ pos <= Len(file) + 1 /\ pos = (Len(file) + 1) - Len(infile)
    BY <1>3 DEF pos
  <1>5. \A k \in pos .. ((Len(file) + 1) - 1) : ~Opens(k)
    <2> SUFFICES ASSUME NEW k \in pos .. ((Len(file) + 1) - 1), Opens(k) PROVE FALSE
      OBVIOUS
    <2>1. (k - pos) + 1 \in 1 .. Len(infile) /\ (pos + ((k - pos) + 1)) - 1 = k
      BY <1>3, <1>4
    <2>2. infile[(k - pos) + 1] = "{"
      BY <1>3, <2>1 DEF Opens
    <2> QED
      BY <1>1, <1>3, <2>1, <2>2 DEF Braces
  <1>6. GrammarIs(Len(file) + 1)
    <2>1. Len(file) + 1 \in Nat
      BY <1>3
    <2> QED
      BY <1>2, <1>4, <1>5, <2>1, GrammarFurther
  <1>7. (GrammarIs(Len(file) + 1))'
    BY <1>1, <1>6, GrammarKept
  <1> QED
    BY <1>1, <1>2, <1>7 DEF ReadInv, FileInv

\* The other steps do not read, or they end the program.
LEMMA ReadStep ==
    ASSUME ReadInv, [Next]_vars
    PROVE  ReadInv' /\ file' = file
  <1>1. CASE OpenDefinition
    BY <1>1, OpenStep DEF OpenDefinition
  <1>2. CASE ReadPhrase
    BY <1>2, PhraseStep DEF ReadPhrase
  <1>3. CASE CloseDefinition
    BY <1>3, CloseStep DEF CloseDefinition
  <1>4. CASE EndOfFile
    BY <1>4, EndStep DEF EndOfFile
  <1>5. ASSUME pc \in {"expand", "end"}, pc' \in {"expand", "end"}, file' = file, grammar' = grammar
        PROVE  ReadInv'
    <2>1. FileInv /\ GrammarIs(Len(file) + 1)
      BY <1>5 DEF ReadInv
    <2>2. (GrammarIs(Len(file) + 1))'
      BY <1>5, <2>1, GrammarKept
    <2> QED
      BY <1>5, <2>1, <2>2 DEF ReadInv, FileInv
  <1>6. CASE Replace
    BY <1>5, <1>6 DEF Replace
  <1>7. CASE Abort
    BY <1>7 DEF Abort, ReadInv, FileInv
  <1>8. CASE Display
    <2>1. pc = "expand" /\ pc' \in {"expand", "end"} /\ file' = file /\ grammar' = grammar
      BY <1>8 DEF Display
    <2> QED
      BY <1>5, <2>1
  <1>9. CASE UNCHANGED vars
    <2>1. /\ pc' = pc /\ file' = file /\ infile' = infile /\ grammar' = grammar
          /\ def' = def /\ phrases' = phrases
      BY <1>9 DEF vars
    <2>2. FileInv'
      BY <2>1 DEF ReadInv, FileInv
    <2>3. pos' = pos /\ Tokens' = Tokens
      BY <2>1 DEF pos, Tokens
    <2>4. InfileInv => InfileInv'
      BY <2>1, <2>3 DEF InfileInv
    <2>5. ASSUME NEW q PROVE GrammarIs(q) => (GrammarIs(q))'
      BY <2>1, GrammarKept
    <2>6. GrammarIs(pos) => (GrammarIs(pos))'
      <3>1. PICK q : q = pos
        OBVIOUS
      <3> QED
        BY <2>3, <2>5, <3>1
    <2>7. GrammarIs(Len(file) + 1) => (GrammarIs(Len(file) + 1))'
      BY <2>1, GrammarKept
    <2>8. ASSUME NEW open, NEW close, NEW b, BodyInv(open, close, b)
          PROVE  (BodyInv(open, close, b))'
      <3>1. (Opens(open) /\ Closes(open, close) /\ GrammarIs(open))'
        BY <2>1, <2>8, GrammarKept DEF BodyInv
      <3>2. (Bounds(open, b, pos) /\ phrases = Between(b, pos))'
        BY <2>1, <2>3, <2>8, BoundsKept DEF BodyInv
      <3>3. (Range(def.possibleExpansions) = ReadBefore(open, pos))'
        BY <2>1, <2>3, <2>8, GrammarKept DEF BodyInv
      <3> QED
        BY <2>1, <2>3, <2>8, <3>1, <3>2, <3>3 DEF BodyInv
    <2> QED
      BY <2>1, <2>2, <2>4, <2>6, <2>7, <2>8 DEF ReadInv
  <1>10. CASE Finished
    BY <1>9, <1>10 DEF Finished
  <1> QED
    BY <1>1, <1>2, <1>3, <1>4, <1>6, <1>7, <1>8, <1>9, <1>10
       DEF Next, Replace, Abort, Display, vars

\* At the start nothing is read.
LEMMA ReadInit == Init => ReadInv
  <1> SUFFICES ASSUME Init PROVE ReadInv
    OBVIOUS
  <1>1. FileInv /\ pc = "text" /\ infile = file /\ grammar = << >> /\ phrases = <<>>
    BY DEF Init, FileInv
  <1>2. file \in Seq(Tokens) /\ Len(file) \in Nat
    BY <1>1, FileIs
  <1>3. pos = 1
    BY <1>1, <1>2 DEF pos
  <1>4. InfileInv
    <2>1. \A i \in 1 .. Len(infile) : infile[i] = file[(1 + i) - 1]
      BY <1>1, <1>2
    <2> QED
      BY <1>1, <1>2, <1>3, <2>1 DEF InfileInv
  <1>5. GrammarIs(1)
    <2>1. DOMAIN grammar = {} /\ \A k \in 1 .. (1 - 1) : FALSE
      BY <1>1
    <2> QED
      BY <2>1 DEF GrammarIs
  <1> QED
    BY <1>1, <1>3, <1>4, <1>5 DEF ReadInv

-----------------------------------------------------------------------------
(***************************************************************************)
(* What the properties say that the file defines is what the map knows     *)
(***************************************************************************)
LEMMA ProductionsAre ==
    ASSUME FileInv, NEW n, NEW open, LastBefore(Len(file) + 1, open, n),
           NEW close, Closes(open, close)
    PROVE  Productions(n) = ReadBefore(open, close)
  <1> DEFINE len == Len(file)
             first == Max(Definitions(n)) + 1
             lasts == {k \in first .. Len(file) : file[k] = "}" /\ file[k - 1] \in {";", n}}
             last  == Min(lasts)
             ends  == {k \in first .. last : file[k] = ";"}
             before(k) == {first} \cup {j \in ends : j < k}
             Begin(k) == Max(before(k))
  <1>0. Definitions(n) # {} => Productions(n) = {Between(Begin(k), k) : k \in ends}
    BY DEF Productions, Between
  <1>a. lasts = {k \in first .. len : file[k] = "}" /\ file[k - 1] \in {";", n}}
    OBVIOUS
  <1>b. ends = {k \in first .. last : file[k] = ";"} /\ last = Min(lasts)
    OBVIOUS
  <1>c. \A k : Begin(k) = Max(before(k)) /\ before(k) = {first} \cup {j \in ends : j < k}
    OBVIOUS
  <1>d. first = Max(Definitions(n)) + 1
    OBVIOUS
  <1>1. DOMAIN file = 1 .. len /\ file \in Seq(Tokens)
    BY FileIs
  <1>2. Defines(open, n) /\ \A k \in (open + 1) .. ((len + 1) - 1) : ~Defines(k, n)
    BY DEF LastBefore
  <1>3. open \in 1 .. len /\ file[open] = "{" /\ file[open + 1] = n /\ n # ";"
    BY <1>1, <1>2, DefinitionFacts DEF Defines, Opens
  <1>e. len \in Nat
    BY FileIs
  <1>f. Definitions(n) = {k \in 1 .. (len - 1) : file[k] = "{" /\ file[k + 1] = n}
    BY DEF Definitions
  <1>4. open \in Int /\ 1 <= open /\ open + 2 <= close /\ close <= len /\ close \in Int
    <2>1. open \in Int /\ 1 <= open
      <3>1. open \in 1 .. len
        BY <1>3
      <3> HIDE DEF len
      <3> QED
        BY <1>e, <3>1
    <2> QED
      BY <2>1, CloseIs
  <1> HIDE DEF len, first, lasts, last, ends, before, Begin
  <1>5. /\ file[close] = "}" /\ (close = open + 2 \/ file[close - 1] = ";")
        /\ \A k \in (open + 1) .. (close - 1) : file[k] \notin {"{", "}"}
    BY DEF Closes
  <1>6. first = open + 1 /\ Definitions(n) # {}
    <2>1. open \in Definitions(n)
      <3>1. open \in 1 .. (len - 1)
        BY <1>e, <1>4
      <3> QED
        BY <1>3, <1>f, <3>1
    <2>2. Definitions(n) \subseteq Int
      <3>1. 1 .. (len - 1) \subseteq Int
        BY <1>e
      <3> QED
        BY <1>f, <3>1
    <2>3. ASSUME NEW k \in Definitions(n) PROVE k <= open
      <3>1. k \in 1 .. (len - 1) /\ file[k] = "{" /\ file[k + 1] = n
        BY <1>f
      <3>2. k \in 1 .. (len - 1)
        BY <3>1
      <3>3. k \in 1 .. len
        BY <1>e, <3>2
      <3>4. Defines(k, n)
        BY <1>1, <3>1, <3>3 DEF Defines, Opens
      <3>5. k \notin (open + 1) .. ((len + 1) - 1)
        BY <1>2, <3>4
      <3> QED
        BY <1>e, <1>4, <3>2, <3>5
    <2>4. Max(Definitions(n)) = open
      BY <2>1, <2>2, <2>3, GreatestIs
    <2> QED
      BY <1>d, <2>1, <2>4
  <1>7. last = close
    <2>1. close \in lasts
      <3>1. close \in first .. len
        BY <1>e, <1>4, <1>6
      <3>2. close = open + 2 => close - 1 = open + 1
        BY <1>4
      <3>3. file[close - 1] \in {";", n}
        BY <1>3, <1>5, <3>2
      <3> QED
        BY <1>5, <1>a, <3>1, <3>3
    <2>2. lasts \subseteq Int
      <3>1. first .. len \subseteq Int
        BY <1>e, <1>4, <1>6
      <3> QED
        BY <1>a, <3>1
    <2>3. ASSUME NEW k \in lasts PROVE close <= k
      <3>1. k \in (open + 1) .. len
        BY <1>a, <1>6
      <3>2. k \notin (open + 1) .. (close - 1)
        BY <1>5, <1>a
      <3> QED
        BY <1>e, <1>4, <3>1, <3>2
    <2> QED
      BY <1>b, <2>1, <2>2, <2>3, LeastIs
  <1>8. ends = {k \in (open + 2) .. (close - 1) : file[k] = ";"}
    <2>1. \A k \in (open + 1) .. close : k = open + 1 \/ k = close \/ k \in (open + 2) .. (close - 1)
      BY <1>4
    <2>2. \A k \in (open + 2) .. (close - 1) : k \in (open + 1) .. close
      BY <1>4
    <2>3. file[open + 1] # ";" /\ file[close] # ";"
      BY <1>3, <1>5
    <2> QED
      BY <1>b, <1>6, <1>7, <2>1, <2>2, <2>3
  <1>9. \A e \in ends : e \in (open + 2) .. (close - 1) /\ file[e] = ";"
    BY <1>8
  <1>10. ASSUME NEW e \in ends, NEW b, Bounds(open, b, e)
         PROVE  /\ b \in (open + 1) .. (e - 1) /\ b \in 1 .. len
                /\ Begin(e) = b /\ Between(b, e) \in Seq(Tokens)
    <2>1. e \in (open + 2) .. (close - 1)
      BY <1>9
    <2>2. b \in (open + 1) .. (e - 1)
      BY <1>10 DEF Bounds
    <2>3. /\ b = open + 1 \/ file[b] = ";"
          /\ \A k \in (b + 1) .. (e - 1) : file[k] # ";"
      BY <1>10 DEF Bounds
    <2>4. b \in Nat /\ e \in Nat /\ b < e /\ e <= len /\ b \in 1 .. len
      BY <1>e, <1>4, <2>1, <2>2
    <2>5. b \in before(e)
      <3>1. CASE b = open + 1
        BY <1>c, <1>6, <3>1
      <3>2. CASE b # open + 1
        <4>1. b \in (open + 2) .. (close - 1)
          BY <1>4, <2>1, <2>2, <3>2
        <4>2. b \in ends
          BY <1>8, <2>3, <3>2, <4>1
        <4> QED
          BY <1>c, <2>4, <4>2
      <3> QED
        BY <3>1, <3>2
    <2>6. before(e) \subseteq Int
      <3>1. (open + 2) .. (close - 1) \subseteq Int /\ open + 1 \in Int
        BY <1>4
      <3> QED
        BY <1>c, <1>6, <1>8, <3>1
    <2>7. ASSUME NEW j \in before(e) PROVE j <= b
      <3>1. CASE j = open + 1
        BY <1>4, <2>2, <3>1
      <3>2. CASE j \in ends /\ j < e
        <4>1. j \in (open + 2) .. (close - 1)
          BY <1>9, <3>2
        <4>2. j \notin (b + 1) .. (e - 1)
          BY <1>9, <2>3, <3>2
        <4>3. j < e
          BY <3>2
        <4> QED
          BY <1>4, <2>1, <2>2, <4>1, <4>2, <4>3
      <3> QED
        BY <1>c, <1>6, <3>1, <3>2
    <2>8. Begin(e) = b
      BY <1>c, <2>5, <2>6, <2>7, GreatestIs
    <2>9. Between(b, e) \in Seq(Tokens)
      BY <1>1, <2>4, BetweenGrows DEF len
    <2> QED
      BY <2>2, <2>4, <2>8, <2>9
  <1>11. ASSUME NEW e \in ends
         PROVE  \E b : Bounds(open, b, e)
    <2>1. e \in (open + 2) .. (close - 1)
      BY <1>9
    <2>2. PICK max : max = e - (open + 1)
      OBVIOUS
    <2>3. max \in Nat /\ max >= 1 /\ e - max = open + 1 /\ e \in Int
      BY <1>4, <2>1, <2>2
    <2> DEFINE T == {d \in 1 .. max : d = max \/ file[e - d] = ";"}
    <2>0. max \in 1 .. max
      BY <2>3
    <2>4. T \subseteq 1 .. max /\ max \in T
      BY <2>0
    <2>T. \A c \in 1 .. max : c \in T <=> c = max \/ file[e - c] = ";"
      OBVIOUS
    <2> HIDE DEF T
    <2>5. T \in SUBSET Nat /\ T # {}
      <3>1. 1 .. max \subseteq Nat
        BY <2>3
      <3> QED
        BY <2>4, <3>1
    <2>6. PICK d \in T : \A c \in T : d <= c
      BY <2>5, LeastNumber
    <2>7. d \in 1 .. max
      BY <2>4
    <2>8. PICK b : b = e - d
      OBVIOUS
    <2>9. b \in (open + 1) .. (e - 1)
      BY <1>4, <2>3, <2>7, <2>8
    <2>10. b = open + 1 \/ file[b] = ";"
      BY <2>3, <2>6, <2>7, <2>8, <2>T
    <2>11. ASSUME NEW k \in (b + 1) .. (e - 1) PROVE file[k] # ";"
      <3>1. e - k \in 1 .. max /\ e - (e - k) = k /\ ~(d <= e - k)
        BY <1>4, <2>1, <2>3, <2>7, <2>8
      <3> QED
        BY <2>6, <3>1, <2>T
    <2> QED
      BY <2>9, <2>10, <2>11 DEF Bounds
  <1>12. ReadBefore(open, close) =
           {x \in Seq(Tokens) : \E e \in ends, b \in 1 .. len :
                                   Bounds(open, b, e) /\ x = Between(b, e)}
    BY <1>8 DEF ReadBefore, len
  <1>13. {Between(Begin(k), k) : k \in ends} \subseteq ReadBefore(open, close)
    BY <1>10, <1>11, <1>12
  <1>14. ReadBefore(open, close) \subseteq {Between(Begin(k), k) : k \in ends}
    BY <1>10, <1>12
  <1> QED
    BY <1>0, <1>6, <1>13, <1>14

\* The map has exactly the productions that the properties speak of.
LEMMA ExpansionsAre ==
    ASSUME FileInv, GrammarIs(Len(file) + 1), NEW n
    PROVE  /\ Expansions(n) \in Seq(Seq(Tokens))
           /\ Range(Expansions(n)) = Productions(n)
  <1>1. CASE n \in DOMAIN grammar
    <2>1. PICK open, close : /\ LastBefore(Len(file) + 1, open, n) /\ Closes(open, close)
                             /\ Range(grammar[n]) = ReadBefore(open, close)
      BY <1>1 DEF GrammarIs
    <2>2. Productions(n) = ReadBefore(open, close)
      BY <2>1, ProductionsAre
    <2> QED
      BY <1>1, <2>1, <2>2 DEF Expansions, GrammarIs
  <1>2. CASE n \notin DOMAIN grammar
    <2>1. \A k \in 1 .. ((Len(file) + 1) - 1) : ~Defines(k, n)
      BY <1>2 DEF GrammarIs
    <2>2. Len(file) \in Nat /\ DOMAIN file = 1 .. Len(file)
      BY FileIs
    <2>3. \A k \in 1 .. (Len(file) - 1) : k \in 1 .. ((Len(file) + 1) - 1) /\ k \in DOMAIN file
      BY <2>2
    <2>4. Definitions(n) = {}
      BY <2>1, <2>3 DEF Definitions, Defines, Opens
    <2>5. Productions(n) = {}
      BY <2>4 DEF Productions
    <2> QED
      BY <1>2, <2>5 DEF Expansions, Range
  <1> QED
    BY <1>1, <1>2

-----------------------------------------------------------------------------
(***************************************************************************)
(* The marked tokens that can come up                                      *)
(***************************************************************************)
\* With what the productions of known tokens contain.
More(known) ==
    known \cup {m \in Marked : \E p \in UNION {Productions(u) : u \in known} :
                                 \E k \in DOMAIN p : p[k] = m}

\* f comes from s by so many steps, each of which g says from its number.
Iterates(f, s, g, n) ==
    /\ f = [i \in 0 .. n |-> f[i]]
    /\ f[0] = s /\ \A i \in 1 .. n : f[i] = g[<<i, f[i - 1]>>]

\* Such a recursion has a solution.
LEMMA IteratesExist ==
    ASSUME NEW s, NEW g, NEW n \in Nat
    PROVE  \E f : Iterates(f, s, g, n)
  <1> DEFINE T == {m \in Nat : \E f : Iterates(f, s, g, m)}
  <1>1. 0 \in T
    <2> DEFINE f == [i \in 0 .. 0 |-> s]
    <2>1. Iterates(f, s, g, 0)
      <3>1. 0 \in 0 .. 0 /\ \A i \in 1 .. 0 : FALSE
        OBVIOUS
      <3> QED
        BY <3>1 DEF Iterates
    <2> QED
      BY <2>1
  <1>2. ASSUME NEW m \in Nat, m \in T PROVE m + 1 \in T
    <2>1. PICK f : Iterates(f, s, g, m)
      BY <1>2
    <2> DEFINE h == [i \in 0 .. (m + 1) |-> IF i = m + 1 THEN g[<<m + 1, f[m]>>] ELSE f[i]]
    <2>2. \A i \in 0 .. m : h[i] = f[i]
      BY <1>2
    <2>3. h[m + 1] = g[<<m + 1, f[m]>>]
      BY <1>2
    <2>4. h = [i \in 0 .. (m + 1) |-> h[i]]
      OBVIOUS
    <2> HIDE DEF h
    <2>5. h[0] = s
      <3>1. 0 \in 0 .. m
        BY <1>2
      <3> QED
        BY <2>1, <2>2, <3>1 DEF Iterates
    <2>6. ASSUME NEW i \in 1 .. (m + 1) PROVE h[i] = g[<<i, h[i - 1]>>]
      <3>1. CASE i = m + 1
        <4>1. m \in 0 .. m /\ i - 1 = m
          BY <1>2, <3>1
        <4> QED
          BY <2>2, <2>3, <3>1, <4>1
      <3>2. CASE i # m + 1
        <4>1. i \in 1 .. m /\ i \in 0 .. m /\ i - 1 \in 0 .. m
          BY <1>2, <3>2
        <4> QED
          BY <2>1, <2>2, <4>1 DEF Iterates
      <3> QED
        BY <3>1, <3>2
    <2>7. Iterates(h, s, g, m + 1)
      BY <2>4, <2>5, <2>6 DEF Iterates
    <2> QED
      BY <1>2, <2>7
  <1> HIDE DEF T
  <1>3. Nat \subseteq T
    BY <1>1, <1>2, NatClosed
  <1> QED
    BY <1>3 DEF T

\* Used takes as many steps as there are marked tokens.
LEMMA UsedIs ==
    \E f : /\ f[0] = {Start} /\ Used = f[Cardinality(Marked)]
           /\ \A i \in 1 .. Cardinality(Marked) : f[i] = More(f[i - 1])
           /\ \A i \in 0 .. Cardinality(Marked) : f[i] \in SUBSET Marked
  <1> DEFINE N == Cardinality(Marked)
             Step(f) == [n \in 0 .. N |-> IF n = 0 THEN {Start} ELSE More(f[n - 1])]
             g == [p \in Nat \X SUBSET Marked |-> More(p[2])]
  <1>1. N \in Nat
    BY MarkedIs, FS_CardinalityType
  <1>2. Used = (CHOOSE f : f = Step(f))[N]
    BY DEF Used, More
  <1> HIDE DEF N
  <1>3. PICK f : Iterates(f, {Start}, g, N)
    <2> HIDE DEF g
    <2> QED
      BY <1>1, IteratesExist
  <1>4. /\ f = [i \in 0 .. N |-> f[i]] /\ f[0] = {Start}
        /\ \A i \in 1 .. N : f[i] = g[<<i, f[i - 1]>>]
    BY <1>3 DEF Iterates
  <1>5. \A i \in Nat : \A known \in SUBSET Marked :
          g[<<i, known>>] = More(known) /\ More(known) \in SUBSET Marked
    <2>1. \A known \in SUBSET Marked : More(known) \in SUBSET Marked
      BY DEF More
    <2> QED
      BY <2>1
  <1> HIDE DEF g
  <1>6. \A i \in 0 .. N : f[i] \in SUBSET Marked
    <2> DEFINE T == {i \in Nat : i \in 0 .. N => f[i] \in SUBSET Marked}
    <2>1. 0 \in T
      BY <1>4, MarkedIs
    <2>2. ASSUME NEW i \in Nat, i \in T PROVE i + 1 \in T
      <3> SUFFICES ASSUME i + 1 \in 0 .. N PROVE f[i + 1] \in SUBSET Marked
        BY <2>2
      <3>1. i \in 0 .. N /\ i + 1 \in 1 .. N /\ (i + 1) - 1 = i /\ i + 1 \in Nat
        BY <1>1, <2>2
      <3>2. f[i] \in SUBSET Marked
        BY <2>2, <3>1
      <3> QED
        BY <1>4, <1>5, <3>1, <3>2
    <2> HIDE DEF T
    <2>3. Nat \subseteq T
      BY <2>1, <2>2, NatClosed
    <2>4. \A i \in 0 .. N : i \in Nat
      BY <1>1
    <2> QED
      BY <2>3, <2>4 DEF T
  <1>7. \A i \in 1 .. N : f[i] = More(f[i - 1])
    <2>1. \A i \in 1 .. N : i - 1 \in 0 .. N /\ i \in Nat
      BY <1>1
    <2> QED
      BY <1>4, <1>5, <1>6, <2>1
  <1>8. f = Step(f)
    <2>1. ASSUME NEW i \in 0 .. N PROVE f[i] = IF i = 0 THEN {Start} ELSE More(f[i - 1])
      <3>1. i = 0 \/ i \in 1 .. N
        BY <1>1
      <3> QED
        BY <1>4, <1>7, <3>1
    <2>2. Step(f) = [i \in 0 .. N |-> f[i]]
      BY <2>1
    <2> QED
      BY <1>4, <2>2
  <1>9. PICK h : h = Step(h) /\ Used = h[N]
    <2> HIDE DEF Step
    <2> QED
      BY <1>2, <1>8
  <1>10. \A i \in 0 .. N : h[i] = IF i = 0 THEN {Start} ELSE More(h[i - 1])
    BY <1>9
  <1>11. \A i \in 0 .. N : h[i] = f[i]
    <2> DEFINE T == {i \in Nat : i \in 0 .. N => h[i] = f[i]}
    <2>1. 0 \in T
      BY <1>4, <1>10
    <2>2. ASSUME NEW i \in Nat, i \in T PROVE i + 1 \in T
      <3> SUFFICES ASSUME i + 1 \in 0 .. N PROVE h[i + 1] = f[i + 1]
        BY <2>2
      <3>1. i \in 0 .. N /\ i + 1 \in 1 .. N /\ (i + 1) - 1 = i /\ i + 1 # 0
        BY <1>1, <2>2
      <3>2. h[i] = f[i]
        BY <2>2, <3>1
      <3> QED
        BY <1>7, <1>10, <3>1, <3>2
    <2> HIDE DEF T
    <2>3. Nat \subseteq T
      BY <2>1, <2>2, NatClosed
    <2>4. \A i \in 0 .. N : i \in Nat
      BY <1>1
    <2> QED
      BY <2>3, <2>4 DEF T
  <1>12. N \in 0 .. N
    BY <1>1
  <1>13. Used = f[N]
    BY <1>9, <1>11, <1>12
  <1> QED
    BY <1>4, <1>6, <1>7, <1>13 DEF N

\* Nothing more comes up from the used tokens: each step that is not the last
\* adds a token.
LEMMA UsedIsClosed ==
    Start \in Used /\ Used \in SUBSET Marked /\ More(Used) = Used
  <1> DEFINE N == Cardinality(Marked)
  <1>1. N \in Nat
    BY MarkedIs, FS_CardinalityType
  <1>2. PICK f : /\ f[0] = {Start} /\ Used = f[N]
                 /\ \A i \in 1 .. N : f[i] = More(f[i - 1])
                 /\ \A i \in 0 .. N : f[i] \in SUBSET Marked
    BY UsedIs
  <1>N. N = Cardinality(Marked)
    OBVIOUS
  <1> HIDE DEF N
  <1> DEFINE Good(i) == /\ Start \in f[i]
                        /\ More(f[i]) = f[i] \/ Cardinality(f[i]) >= i + 1
             T == {i \in Nat : i \in 0 .. N => Good(i)}
  <1>3. \A known : known \subseteq More(known)
    BY DEF More
  <1>4. 0 \in T
    <2>1. Cardinality({Start}) = 1
      BY FS_Singleton
    <2> QED
      BY <1>2, <2>1
  <1>5. ASSUME NEW i \in Nat, i \in T PROVE i + 1 \in T
    <2> SUFFICES ASSUME i + 1 \in 0 .. N PROVE Good(i + 1)
      OBVIOUS
    <2>1. i \in 0 .. N /\ i + 1 \in 1 .. N /\ (i + 1) - 1 = i
      BY <1>1, <1>5
    <2>2. Good(i)
      BY <1>5, <2>1
    <2>3. f[i + 1] = More(f[i])
      BY <1>2, <2>1
    <2>4. Start \in f[i + 1]
      BY <1>3, <2>2, <2>3
    <2>5. CASE More(f[i]) = f[i]
      BY <2>3, <2>4, <2>5
    <2>6. CASE More(f[i]) # f[i]
      <3>1. f[i + 1] \in SUBSET Marked
        BY <1>2
      <3>2. IsFiniteSet(f[i + 1])
        BY <3>1, MarkedIs, FS_Subset
      <3>3. f[i] \subseteq f[i + 1] /\ f[i] # f[i + 1]
        BY <1>3, <2>3, <2>6
      <3>4. /\ IsFiniteSet(f[i]) /\ Cardinality(f[i]) <= Cardinality(f[i + 1])
            /\ Cardinality(f[i]) # Cardinality(f[i + 1])
        BY <3>2, <3>3, FS_Subset
      <3>5. Cardinality(f[i]) \in Nat /\ Cardinality(f[i + 1]) \in Nat
        BY <3>2, <3>4, FS_CardinalityType
      <3>6. Cardinality(f[i]) >= i + 1
        BY <2>2, <2>6
      <3>7. Cardinality(f[i + 1]) >= (i + 1) + 1
        BY <1>5, <3>4, <3>5, <3>6
      <3> QED
        BY <2>4, <3>7
    <2> QED
      BY <2>5, <2>6
  <1>6. Nat \subseteq T
    <2> HIDE DEF T
    <2> QED
      BY <1>4, <1>5, NatClosed
  <1>7. N \in 0 .. N
    BY <1>1
  <1>8. Good(N)
    BY <1>1, <1>6, <1>7
  <1>9. Used \in SUBSET Marked
    BY <1>2, <1>7
  <1>10. Cardinality(Used) <= N /\ Cardinality(Used) \in Nat
    <2>1. IsFiniteSet(Used) /\ Cardinality(Used) <= Cardinality(Marked)
      BY <1>9, MarkedIs, FS_Subset
    <2> QED
      BY <1>N, <2>1, FS_CardinalityType
  <1> QED
    BY <1>1, <1>2, <1>8, <1>9, <1>10

-----------------------------------------------------------------------------
(***************************************************************************)
(* Expanding <start>                                                       *)
(***************************************************************************)
Complete == \A m \in Used : Productions(m) # {}

\* Only used nonterminals are there to expand.
WordsInv ==
    /\ final_vec \in Seq(Tokens)
    /\ \A k \in DOMAIN final_vec : final_vec[k] \in Marked => final_vec[k] \in Used

ExpandInv ==
    /\ pc = "expand" => WordsInv
    /\ Complete => pc # "abort"

Inv == ReadInv /\ ExpandInv

\* What replaces a word.
LEMMA ReplacedIs ==
    ASSUME NEW S, final_vec \in Seq(S), NEW words \in Seq(S), NEW i \in DOMAIN final_vec
    PROVE  /\ Replaced(i, words) \in Seq(S)
           /\ \A k \in DOMAIN Replaced(i, words) :
                 \/ \E j \in DOMAIN final_vec : Replaced(i, words)[k] = final_vec[j]
                 \/ \E j \in DOMAIN words : Replaced(i, words)[k] = words[j]
  <1> DEFINE a == SubSeq(final_vec, 1, i - 1)
             c == SubSeq(final_vec, i + 1, Len(final_vec))
  <1>1. i \in 1 .. Len(final_vec) /\ Len(final_vec) \in Nat /\ DOMAIN final_vec = 1 .. Len(final_vec)
    OBVIOUS
  <1>2. a \in Seq(S) /\ \A k \in DOMAIN a : k \in DOMAIN final_vec /\ a[k] = final_vec[k]
    BY <1>1
  <1>3. /\ c \in Seq(S)
        /\ \A k \in DOMAIN c : k + i \in DOMAIN final_vec /\ c[k] = final_vec[k + i]
    <2>1. i + 1 \in 1 .. (Len(final_vec) + 1)
      BY <1>1
    <2>2. /\ c \in Seq(S) /\ Len(c) = (Len(final_vec) - (i + 1)) + 1
          /\ \A k \in 1 .. ((Len(final_vec) - (i + 1)) + 1) : c[k] = final_vec[((i + 1) + k) - 1]
      BY <2>1, RestOf
    <2> HIDE DEF c
    <2>3. DOMAIN c = 1 .. ((Len(final_vec) - (i + 1)) + 1)
      BY <2>2
    <2>4. ASSUME NEW k \in DOMAIN c
          PROVE  k + i \in DOMAIN final_vec /\ ((i + 1) + k) - 1 = k + i
      BY <1>1, <2>3
    <2> QED
      BY <2>2, <2>3, <2>4
  <1> HIDE DEF a, c
  <1>4. Replaced(i, words) = (a \o words) \o c
    BY DEF Replaced, a, c
  <1>5. \A s, t \in Seq(S) : /\ s \o t \in Seq(S)
                             /\ \A k \in DOMAIN (s \o t) : \/ \E j \in DOMAIN s : (s \o t)[k] = s[j]
                                                           \/ \E j \in DOMAIN t : (s \o t)[k] = t[j]
    <2> SUFFICES ASSUME NEW s \in Seq(S), NEW t \in Seq(S), NEW k \in DOMAIN (s \o t)
                 PROVE  /\ s \o t \in Seq(S)
                        /\ \/ \E j \in DOMAIN s : (s \o t)[k] = s[j]
                           \/ \E j \in DOMAIN t : (s \o t)[k] = t[j]
      <3>1. \A s, t \in Seq(S) : s \o t \in Seq(S)
        OBVIOUS
      <3> QED
        BY <3>1
    <2>1. /\ Len(s) \in Nat /\ Len(t) \in Nat /\ DOMAIN s = 1 .. Len(s) /\ DOMAIN t = 1 .. Len(t)
          /\ k \in 1 .. (Len(s) + Len(t))
      OBVIOUS
    <2>2. CASE k <= Len(s)
      <3>1. k \in DOMAIN s /\ (s \o t)[k] = s[k]
        BY <2>1, <2>2
      <3> QED
        BY <3>1
    <2>3. CASE k > Len(s)
      <3>1. k - Len(s) \in DOMAIN t /\ (s \o t)[k] = t[k - Len(s)]
        BY <2>1, <2>3
      <3> QED
        BY <3>1
    <2> QED
      BY <2>1, <2>2, <2>3
  <1>6. a \o words \in Seq(S) /\ (a \o words) \o c \in Seq(S)
    BY <1>2, <1>3, <1>5
  <1>7. ASSUME NEW k \in DOMAIN ((a \o words) \o c)
        PROVE  \/ \E j \in DOMAIN final_vec : ((a \o words) \o c)[k] = final_vec[j]
               \/ \E j \in DOMAIN words : ((a \o words) \o c)[k] = words[j]
    <2>1. CASE \E j \in DOMAIN (a \o words) : ((a \o words) \o c)[k] = (a \o words)[j]
      BY <1>2, <1>5, <2>1
    <2>2. CASE \E j \in DOMAIN c : ((a \o words) \o c)[k] = c[j]
      BY <1>3, <2>2
    <2> QED
      BY <1>3, <1>5, <1>6, <2>1, <2>2
  <1> QED
    BY <1>4, <1>6, <1>7

\* What comes up for a used nonterminal is used.
LEMMA ProductionsUsed ==
    ASSUME NEW m \in Used, NEW p \in Productions(m), NEW k \in DOMAIN p, p[k] \in Marked
    PROVE  p[k] \in Used
  <1>1. p \in UNION {Productions(u) : u \in Used}
    OBVIOUS
  <1>2. p[k] \in More(Used)
    BY <1>1 DEF More
  <1> QED
    BY <1>2, UsedIsClosed

\* The word that is expanded.
LEMMA FirstNonterm ==
    ASSUME WordsInv, Nonterms # {}
    PROVE  /\ Min(Nonterms) \in DOMAIN final_vec
           /\ final_vec[Min(Nonterms)] \in Marked /\ final_vec[Min(Nonterms)] \in Used
           /\ \A k \in Nonterms : Min(Nonterms) <= k
  <1>1. DOMAIN final_vec = 1 .. Len(final_vec) /\ Len(final_vec) \in Nat
    BY DEF WordsInv
  <1>2. Nonterms \subseteq 1 .. Len(final_vec) /\ Nonterms \subseteq DOMAIN final_vec
    BY <1>1 DEF Nonterms
  <1>3. Nonterms \in SUBSET Nat /\ Nonterms \subseteq Int
    <2> HIDE DEF Nonterms
    <2> QED
      BY <1>1, <1>2
  <1>4. PICK m \in Nonterms : \A k \in Nonterms : m <= k
    <2> HIDE DEF Nonterms
    <2> QED
      BY <1>3, LeastNumber
  <1>5. Min(Nonterms) = m
    BY <1>3, <1>4, LeastIs
  <1>6. m \in DOMAIN final_vec /\ final_vec[m] \in Marked
    BY <1>4 DEF Nonterms
  <1>7. final_vec[m] \in Used
    BY <1>6 DEF WordsInv
  <1> QED
    BY <1>4, <1>5, <1>6, <1>7

\* An expansion brings up used nonterminals only, and the assertion in getRandomInteger
\* does not fail for one that has a production.
LEMMA ExpandStep ==
    ASSUME Inv, [Next]_vars
    PROVE  ExpandInv'
  <1>1. ReadInv /\ (pc = "expand" => WordsInv) /\ (Complete => pc # "abort") /\ file' = file
    BY ReadStep DEF Inv, ExpandInv
  <1>2. Tokens' = Tokens /\ Used' = Used /\ (Complete' <=> Complete)
    <2>1. \A n : (Productions(n))' = Productions(n)
      BY <1>1 DEF Productions, Definitions
    <2>2. Used' = Used
      BY <1>1 DEF Used, Productions, Definitions
    <2> QED
      BY <1>1, <2>1, <2>2 DEF Tokens, Complete
  <1>3. ASSUME final_vec' = <<Start>>
        PROVE  WordsInv'
    <2>1. Start \in Tokens
      BY DEF Tokens
    <2>2. DOMAIN <<Start>> = {1} /\ <<Start>>[1] = Start /\ <<Start>> \in Seq(Tokens)
      BY <2>1
    <2> QED
      BY <1>2, <1>3, <2>2, UsedIsClosed DEF WordsInv
  <1>4. CASE pc \in {"text", "body"} /\ pc' \in {"text", "body"}
    BY <1>4 DEF ExpandInv
  <1>5. CASE EndOfFile
    <2>1. final_vec' = <<Start>> /\ pc' = "expand"
      BY <1>5 DEF EndOfFile
    <2> QED
      BY <1>3, <2>1 DEF ExpandInv
  <1>6. CASE Replace
    <2>1. /\ pc = "expand" /\ pc' = pc /\ Nonterms # {}
          /\ \E random \in DOMAIN Expansions(final_vec[Min(Nonterms)]) :
                final_vec' = Replaced(Min(Nonterms), Expansions(final_vec[Min(Nonterms)])[random])
      BY <1>6 DEF Replace
    <2>2. WordsInv /\ FileInv /\ GrammarIs(Len(file) + 1)
      BY <1>1, <2>1 DEF ReadInv
    <2>3. PICK i, n : i = Min(Nonterms) /\ n = final_vec[i]
      OBVIOUS
    <2>4. i \in DOMAIN final_vec /\ n \in Marked /\ n \in Used
      BY <2>1, <2>2, <2>3, FirstNonterm
    <2>5. PICK random \in DOMAIN Expansions(n) :
            final_vec' = Replaced(i, Expansions(n)[random])
      BY <2>1, <2>3
    <2>6. PICK words : words = Expansions(n)[random]
      OBVIOUS
    <2>7. Expansions(n) \in Seq(Seq(Tokens)) /\ Range(Expansions(n)) = Productions(n)
      BY <2>2, ExpansionsAre
    <2>8. words \in Seq(Tokens)
      BY <2>5, <2>6, <2>7
    <2>9. words \in Productions(n)
      BY <2>5, <2>6, <2>7 DEF Range
    <2>10. final_vec \in Seq(Tokens)
           /\ \A k \in DOMAIN final_vec : final_vec[k] \in Marked => final_vec[k] \in Used
      BY <2>2 DEF WordsInv
    <2>11. \A k \in DOMAIN words : words[k] \in Marked => words[k] \in Used
      BY <2>4, <2>9, ProductionsUsed
    <2>12. /\ Replaced(i, words) \in Seq(Tokens)
           /\ \A k \in DOMAIN Replaced(i, words) :
                 \/ \E j \in DOMAIN final_vec : Replaced(i, words)[k] = final_vec[j]
                 \/ \E j \in DOMAIN words : Replaced(i, words)[k] = words[j]
      BY <2>4, <2>8, <2>10, ReplacedIs
    <2>13. final_vec' = Replaced(i, words)
      BY <2>5, <2>6
    <2>14. WordsInv'
      BY <1>2, <2>10, <2>11, <2>12, <2>13 DEF WordsInv
    <2> QED
      BY <2>1, <2>14 DEF ExpandInv
  <1>7. CASE Abort
    <2>1. pc = "expand" /\ Nonterms # {} /\ Expansions(final_vec[Min(Nonterms)]) = <<>> /\ pc' = "abort"
      BY <1>7 DEF Abort
    <2>2. WordsInv /\ FileInv /\ GrammarIs(Len(file) + 1)
      BY <1>1, <2>1 DEF ReadInv
    <2>3. PICK n : n = final_vec[Min(Nonterms)] /\ n \in Used
      BY <2>1, <2>2, FirstNonterm
    <2>4. Range(Expansions(n)) = Productions(n)
      BY <2>2, ExpansionsAre
    <2>5. Productions(n) = {}
      BY <2>1, <2>3, <2>4 DEF Range
    <2>6. ~Complete
      BY <2>3, <2>5 DEF Complete
    <2> QED
      BY <1>2, <2>1, <2>6 DEF ExpandInv
  <1>8. CASE Display
    <2>1. pc' \in {"expand", "end"} /\ (pc' = "expand" => final_vec' = <<Start>>)
      BY <1>8 DEF Display
    <2> QED
      BY <1>3, <2>1 DEF ExpandInv
  <1>9. CASE UNCHANGED vars
    <2>1. pc' = pc /\ final_vec' = final_vec
      BY <1>9 DEF vars
    <2> QED
      BY <1>1, <1>2, <2>1 DEF ExpandInv, WordsInv
  <1>10. CASE OpenDefinition \/ ReadPhrase \/ CloseDefinition
    <2>1. pc \in {"text", "body"} /\ pc' \in {"text", "body"}
      BY <1>10 DEF OpenDefinition, ReadPhrase, CloseDefinition
    <2> QED
      BY <1>4, <2>1
  <1>11. CASE Finished
    BY <1>9, <1>11 DEF Finished
  <1> QED
    BY <1>5, <1>6, <1>7, <1>8, <1>9, <1>10, <1>11 DEF Next

\* The inductive invariant of reading and expanding.
THEOREM GrammarInvariant == Spec => []Inv
  <1>1. Init => Inv
    <2> SUFFICES ASSUME Init PROVE Inv
      OBVIOUS
    <2>1. pc = "text"
      BY DEF Init
    <2> QED
      BY <2>1, ReadInit DEF Inv, ExpandInv
  <1>2. Inv /\ [Next]_vars => Inv'
    BY ReadStep, ExpandStep DEF Inv
  <1> QED
    BY <1>1, <1>2, PTL DEF Spec

\* The assertion in getRandomInteger never fails for a grammar in which every token that
\* can come up has a production in its last definition.
THEOREM CompleteNeverAborts == Spec => []NeverAbortsWhenComplete
  <1>1. Inv => NeverAbortsWhenComplete
    BY DEF Inv, ExpandInv, Complete, NeverAbortsWhenComplete
  <1> QED
    BY <1>1, GrammarInvariant, PTL

-----------------------------------------------------------------------------
(***************************************************************************)
(* Sentences                                                               *)
(***************************************************************************)
\* What a word can become.
OfWord(x, Of) == IF x \in Marked THEN Of[x] ELSE {<<x>>}

Cat(s, t) == s \o t

Joined(A, B) == {Cat(s, t) : s \in A, t \in B}

Meanings(S) == [Marked -> SUBSET Seq(S)]

\* The sequences that come up to so many words.
UpTo(f, w, Of) ==
    /\ f = [i \in 0 .. Len(w) |-> f[i]]
    /\ f[0] = {<<>>}
    /\ \A i \in 1 .. Len(w) : f[i] = Joined(f[i - 1], OfWord(w[i], Of))

\* What is joined has two parts.
LEMMA JoinedParts ==
    ASSUME NEW A, NEW B, NEW y \in Joined(A, B)
    PROVE  \E s \in A, t \in B : y = Cat(s, t)
  BY DEF Joined

\* And two parts can be joined.
LEMMA JoinedHas ==
    ASSUME NEW A, NEW B, NEW s \in A, NEW t \in B
    PROVE  Cat(s, t) \in Joined(A, B)
  BY DEF Joined

\* Joined sequences are sequences.
LEMMA JoinedType ==
    ASSUME NEW S, NEW A \in SUBSET Seq(S), NEW B \in SUBSET Seq(S)
    PROVE  Joined(A, B) \in SUBSET Seq(S)
  <1>1. \A s \in A, t \in B : Cat(s, t) \in Seq(S)
    BY DEF Cat
  <1>2. ASSUME NEW x \in Joined(A, B) PROVE x \in Seq(S)
    <2>1. \E s \in A, t \in B : x = Cat(s, t)
      BY JoinedParts
    <2> QED
      BY <1>1, <2>1
  <1> QED
    BY <1>2

\* Joining three is the same from both sides, if it is for each three.
LEMMA JoinedTwice ==
    ASSUME NEW A, NEW B, NEW C,
           \A s \in A, t \in B, r \in C : Cat(Cat(s, t), r) = Cat(s, Cat(t, r))
    PROVE  Joined(Joined(A, B), C) = Joined(A, Joined(B, C))
  <1>1. \A s \in A, t \in B, r \in C : Cat(Cat(s, t), r) = Cat(s, Cat(t, r))
    OBVIOUS
  <1>2. ASSUME NEW y \in Joined(Joined(A, B), C) PROVE y \in Joined(A, Joined(B, C))
    <2>1. PICK z \in Joined(A, B), r \in C : y = Cat(z, r)
      BY JoinedParts
    <2>2. PICK s \in A, t \in B : z = Cat(s, t)
      BY JoinedParts
    <2>3. Cat(t, r) \in Joined(B, C)
      BY JoinedHas
    <2>4. Cat(s, Cat(t, r)) \in Joined(A, Joined(B, C))
      BY <2>3, JoinedHas
    <2> QED
      BY <1>1, <2>1, <2>2, <2>4
  <1>3. ASSUME NEW y \in Joined(A, Joined(B, C)) PROVE y \in Joined(Joined(A, B), C)
    <2>1. PICK s \in A, z \in Joined(B, C) : y = Cat(s, z)
      BY JoinedParts
    <2>2. PICK t \in B, r \in C : z = Cat(t, r)
      BY JoinedParts
    <2>3. Cat(s, t) \in Joined(A, B)
      BY JoinedHas
    <2>4. Cat(Cat(s, t), r) \in Joined(Joined(A, B), C)
      BY <2>3, JoinedHas
    <2> QED
      BY <1>1, <2>1, <2>2, <2>4
  <1> QED
    BY <1>2, <1>3

\* And for sequences it is.
LEMMA JoinedAssociative ==
    ASSUME NEW S, NEW A \in SUBSET Seq(S), NEW B \in SUBSET Seq(S), NEW C \in SUBSET Seq(S)
    PROVE  Joined(Joined(A, B), C) = Joined(A, Joined(B, C))
  <1>1. ASSUME NEW s \in A, NEW t \in B, NEW r \in C PROVE Cat(Cat(s, t), r) = Cat(s, Cat(t, r))
    <2>1. s \in Seq(S) /\ t \in Seq(S) /\ r \in Seq(S)
      OBVIOUS
    <2> QED
      BY <2>1, ConcatAssociative DEF Cat
  <1> QED
    BY <1>1, JoinedTwice

\* The empty sequence adds nothing.
LEMMA JoinedEmpty ==
    ASSUME NEW S, NEW B \in SUBSET Seq(S)
    PROVE  Joined({<<>>}, B) = B /\ Joined(B, {<<>>}) = B
  <1>1. ASSUME NEW t \in B PROVE Cat(<<>>, t) = t /\ Cat(t, <<>>) = t
    <2>1. t \in Seq(S)
      OBVIOUS
    <2> QED
      BY <2>1, ConcatEmptySeq DEF Cat
  <1>2. PICK E : E = {<<>>} /\ <<>> \in E
    OBVIOUS
  <1>3. ASSUME NEW y \in Joined(E, B) PROVE y \in B
    <2>1. PICK s \in E, t \in B : y = Cat(s, t)
      BY JoinedParts
    <2>2. s = <<>>
      BY <1>2
    <2> QED
      BY <1>1, <2>1, <2>2
  <1>4. ASSUME NEW y \in Joined(B, E) PROVE y \in B
    <2>1. PICK t \in B, s \in E : y = Cat(t, s)
      BY JoinedParts
    <2>2. s = <<>>
      BY <1>2
    <2> QED
      BY <1>1, <2>1, <2>2
  <1>5. ASSUME NEW y \in B PROVE y \in Joined(E, B) /\ y \in Joined(B, E)
    <2>1. Cat(<<>>, y) \in Joined(E, B)
      BY <1>2, JoinedHas
    <2>2. Cat(y, <<>>) \in Joined(B, E)
      BY <1>2, JoinedHas
    <2> QED
      BY <1>1, <2>1, <2>2
  <1> QED
    BY <1>2, <1>3, <1>4, <1>5

\* More parts give more.
LEMMA JoinedGrows ==
    ASSUME NEW A, NEW B, NEW C, NEW D, A \subseteq C, B \subseteq D
    PROVE  Joined(A, B) \subseteq Joined(C, D)
  <1> SUFFICES ASSUME NEW y \in Joined(A, B) PROVE y \in Joined(C, D)
    OBVIOUS
  <1>1. PICK s \in A, t \in B : y = Cat(s, t)
    BY JoinedParts
  <1>2. s \in C /\ t \in D
    OBVIOUS
  <1> QED
    BY <1>1, <1>2, JoinedHas

\* A word becomes sequences.
LEMMA WordType ==
    ASSUME NEW S, NEW x \in S, NEW Of \in Meanings(S)
    PROVE  OfWord(x, Of) \in SUBSET Seq(S)
  BY DEF OfWord, Meanings

\* The recursion of Sentences gives sequences,
LEMMA UpToType ==
    ASSUME NEW S, NEW w \in Seq(S), NEW Of \in Meanings(S), NEW f, UpTo(f, w, Of)
    PROVE  \A i \in 0 .. Len(w) : f[i] \in SUBSET Seq(S)
  <1> DEFINE T == {i \in Nat : i \in 0 .. Len(w) => f[i] \in SUBSET Seq(S)}
  <1>0. Len(w) \in Nat
    OBVIOUS
  <1>1. 0 \in T
    <2>1. f[0] = {<<>>} /\ <<>> \in Seq(S)
      BY DEF UpTo
    <2> QED
      BY <2>1
  <1>2. ASSUME NEW i \in Nat, i \in T PROVE i + 1 \in T
    <2> SUFFICES ASSUME i + 1 \in 0 .. Len(w) PROVE f[i + 1] \in SUBSET Seq(S)
      BY <1>2
    <2>1. i \in 0 .. Len(w) /\ i + 1 \in 1 .. Len(w) /\ (i + 1) - 1 = i
      BY <1>0, <1>2
    <2>2. f[i] \in SUBSET Seq(S)
      BY <1>2, <2>1
    <2>3. w[i + 1] \in S
      BY <2>1
    <2>4. OfWord(w[i + 1], Of) \in SUBSET Seq(S)
      BY <2>3, WordType
    <2>5. Joined(f[i], OfWord(w[i + 1], Of)) \in SUBSET Seq(S)
      BY <2>2, <2>4, JoinedType
    <2>6. f[i + 1] = Joined(f[i], OfWord(w[i + 1], Of))
      BY <2>1 DEF UpTo
    <2> QED
      BY <2>5, <2>6
  <1> HIDE DEF T
  <1>3. Nat \subseteq T
    BY <1>1, <1>2, NatClosed
  <1>4. \A i \in 0 .. Len(w) : i \in Nat
    BY <1>0
  <1> QED
    BY <1>3, <1>4 DEF T

\* it has a solution,
LEMMA UpToExists ==
    ASSUME NEW S, NEW w \in Seq(S), NEW Of \in Meanings(S)
    PROVE  \E f : UpTo(f, w, Of)
  <1> DEFINE g == [p \in Nat \X SUBSET Seq(S) |-> Joined(p[2], OfWord(w[p[1]], Of))]
             N == Len(w)
  <1>1. N \in Nat
    OBVIOUS
  <1>2. PICK f : Iterates(f, {<<>>}, g, N)
    <2> HIDE DEF g, N
    <2> QED
      BY <1>1, IteratesExist
  <1>3. f = [i \in 0 .. N |-> f[i]] /\ f[0] = {<<>>} /\ \A i \in 1 .. N : f[i] = g[<<i, f[i - 1]>>]
    BY <1>2 DEF Iterates
  <1>4. \A i \in Nat : \A A \in SUBSET Seq(S) : g[<<i, A>>] = Joined(A, OfWord(w[i], Of))
    OBVIOUS
  <1>N. \A i \in 1 .. N : w[i] \in S
    OBVIOUS
  <1>H. N = Len(w)
    OBVIOUS
  <1> HIDE DEF g, N
  <1> DEFINE T == {i \in Nat : i \in 0 .. N => f[i] \in SUBSET Seq(S)}
  <1>5. 0 \in T
    <2>1. <<>> \in Seq(S)
      OBVIOUS
    <2> QED
      BY <1>3, <2>1
  <1>6. ASSUME NEW i \in Nat, i \in T PROVE i + 1 \in T
    <2> SUFFICES ASSUME i + 1 \in 0 .. N PROVE f[i + 1] \in SUBSET Seq(S)
      BY <1>6
    <2>1. i \in 0 .. N /\ i + 1 \in 1 .. N /\ (i + 1) - 1 = i /\ i + 1 \in Nat
      BY <1>1, <1>6
    <2>2. f[i] \in SUBSET Seq(S)
      BY <1>6, <2>1
    <2>3. w[i + 1] \in S
      BY <1>N, <2>1
    <2>4. OfWord(w[i + 1], Of) \in SUBSET Seq(S)
      BY <2>3, WordType
    <2>5. Joined(f[i], OfWord(w[i + 1], Of)) \in SUBSET Seq(S)
      BY <2>2, <2>4, JoinedType
    <2>6. f[i + 1] = Joined(f[i], OfWord(w[i + 1], Of))
      BY <1>3, <1>4, <2>1, <2>2
    <2> QED
      BY <2>5, <2>6
  <1>7. Nat \subseteq T
    <2> HIDE DEF T
    <2> QED
      BY <1>5, <1>6, NatClosed
  <1>8. \A i \in 1 .. N : i - 1 \in Nat /\ i - 1 \in 0 .. N /\ i \in Nat
    BY <1>1
  <1>9. \A i \in 1 .. N : f[i - 1] \in SUBSET Seq(S)
    BY <1>7, <1>8
  <1>10. \A i \in 1 .. N : f[i] = Joined(f[i - 1], OfWord(w[i], Of))
    BY <1>3, <1>4, <1>8, <1>9
  <1> QED
    BY <1>3, <1>10, <1>H DEF UpTo

\* and only one, which depends on the words up to there.
LEMMA UpToUnique ==
    ASSUME NEW w, NEW v, NEW Of, NEW f, NEW h, UpTo(f, w, Of), UpTo(h, v, Of),
           Len(w) \in Nat, Len(v) \in Nat, Len(w) <= Len(v),
           \A i \in 1 .. Len(w) : w[i] = v[i]
    PROVE  \A i \in 0 .. Len(w) : f[i] = h[i]
  <1> DEFINE T == {i \in Nat : i \in 0 .. Len(w) => f[i] = h[i]}
  <1>1. 0 \in T
    BY DEF UpTo
  <1>2. ASSUME NEW i \in Nat, i \in T PROVE i + 1 \in T
    <2> SUFFICES ASSUME i + 1 \in 0 .. Len(w) PROVE f[i + 1] = h[i + 1]
      BY <1>2
    <2>1. /\ i \in 0 .. Len(w) /\ i + 1 \in 1 .. Len(w) /\ (i + 1) - 1 = i
          /\ i + 1 \in 1 .. Len(v)
      BY <1>2
    <2>2. f[i] = h[i] /\ w[i + 1] = v[i + 1]
      BY <1>2, <2>1
    <2>3. f[i + 1] = Joined(f[i], OfWord(w[i + 1], Of))
      BY <2>1 DEF UpTo
    <2>4. h[i + 1] = Joined(h[i], OfWord(v[i + 1], Of))
      BY <2>1 DEF UpTo
    <2> QED
      BY <2>2, <2>3, <2>4
  <1> HIDE DEF T
  <1>3. Nat \subseteq T
    BY <1>1, <1>2, NatClosed
  <1>4. \A i \in 0 .. Len(w) : i \in Nat
    OBVIOUS
  <1> QED
    BY <1>3, <1>4 DEF T

\* Sentences is the end of that recursion.
LEMMA SentencesAre ==
    ASSUME NEW S, NEW w \in Seq(S), NEW Of \in Meanings(S)
    PROVE  \E f : UpTo(f, w, Of) /\ Sentences(w, Of) = f[Len(w)]
  <1> DEFINE Step(f) == [n \in 0 .. Len(w) |->
                           IF n = 0 THEN {<<>>} ELSE Joined(f[n - 1], OfWord(w[n], Of))]
  <1>1. Sentences(w, Of) = (CHOOSE f : f = Step(f))[Len(w)]
    BY DEF Sentences, Joined, Cat, OfWord
  <1>2. PICK f : UpTo(f, w, Of)
    BY UpToExists
  <1>3. Len(w) \in Nat
    OBVIOUS
  <1>4. f = Step(f)
    <2>1. ASSUME NEW i \in 0 .. Len(w)
          PROVE  f[i] = IF i = 0 THEN {<<>>} ELSE Joined(f[i - 1], OfWord(w[i], Of))
      <3>1. i = 0 \/ i \in 1 .. Len(w)
        BY <1>3
      <3> QED
        BY <1>2, <3>1 DEF UpTo
    <2>2. Step(f) = [i \in 0 .. Len(w) |-> f[i]]
      BY <2>1
    <2> QED
      BY <1>2, <2>2 DEF UpTo
  <1>5. PICK h : h = Step(h) /\ Sentences(w, Of) = h[Len(w)]
    <2> HIDE DEF Step
    <2> QED
      BY <1>1, <1>4
  <1>6. \A i \in 0 .. Len(w) : h[i] = IF i = 0 THEN {<<>>} ELSE Joined(h[i - 1], OfWord(w[i], Of))
    BY <1>5
  <1>7. h = [i \in 0 .. Len(w) |-> h[i]]
    BY <1>5
  <1> HIDE DEF Step
  <1>8. UpTo(h, w, Of)
    <2>1. 0 \in 0 .. Len(w) /\ \A i \in 1 .. Len(w) : i \in 0 .. Len(w) /\ i # 0
      BY <1>3
    <2> QED
      BY <1>6, <1>7, <2>1 DEF UpTo
  <1> QED
    BY <1>5, <1>8

\* The sentences of words are sequences.
LEMMA SentencesType ==
    ASSUME NEW S, NEW w \in Seq(S), NEW Of \in Meanings(S)
    PROVE  Sentences(w, Of) \in SUBSET Seq(S)
  <1>1. PICK f : UpTo(f, w, Of) /\ Sentences(w, Of) = f[Len(w)]
    BY SentencesAre
  <1>2. Len(w) \in 0 .. Len(w)
    OBVIOUS
  <1> QED
    BY <1>1, <1>2, UpToType

\* No words.
LEMMA SentencesEmpty ==
    ASSUME NEW S, NEW Of \in Meanings(S)
    PROVE  Sentences(<<>>, Of) = {<<>>}
  <1>1. <<>> \in Seq(S) /\ Len(<<>>) = 0
    OBVIOUS
  <1>2. PICK f : UpTo(f, <<>>, Of) /\ Sentences(<<>>, Of) = f[Len(<<>>)]
    BY <1>1, SentencesAre
  <1> QED
    BY <1>1, <1>2 DEF UpTo

\* One word more.
LEMMA SentencesAppend ==
    ASSUME NEW S, NEW w \in Seq(S), NEW x \in S, NEW Of \in Meanings(S)
    PROVE  Sentences(Append(w, x), Of) = Joined(Sentences(w, Of), OfWord(x, Of))
  <1>1. /\ Append(w, x) \in Seq(S) /\ Len(w) \in Nat /\ Len(Append(w, x)) = Len(w) + 1
        /\ \A i \in 1 .. Len(w) : Append(w, x)[i] = w[i]
        /\ Append(w, x)[Len(w) + 1] = x
    BY AppendProperties
  <1>2. PICK f : UpTo(f, w, Of) /\ Sentences(w, Of) = f[Len(w)]
    BY SentencesAre
  <1>3. PICK v : v = Append(w, x)
    OBVIOUS
  <1>4. PICK h : UpTo(h, v, Of) /\ Sentences(v, Of) = h[Len(v)]
    BY <1>1, <1>3, SentencesAre
  <1>5. Len(v) = Len(w) + 1 /\ Len(w) <= Len(v) /\ Len(v) \in Nat /\ v[Len(v)] = x
        /\ \A i \in 1 .. Len(w) : w[i] = v[i]
    BY <1>1, <1>3
  <1>6. \A i \in 0 .. Len(w) : f[i] = h[i]
    BY <1>1, <1>2, <1>4, <1>5, UpToUnique
  <1>7. Len(w) \in 0 .. Len(w) /\ Len(v) \in 1 .. Len(v) /\ Len(v) - 1 = Len(w)
    BY <1>1, <1>5
  <1>8. h[Len(v)] = Joined(h[Len(w)], OfWord(x, Of))
    BY <1>4, <1>5, <1>7 DEF UpTo
  <1>9. h[Len(w)] = f[Len(w)]
    BY <1>6, <1>7
  <1> QED
    BY <1>2, <1>3, <1>4, <1>8, <1>9

\* Induction on sequences, for a set that is closed under Append.
LEMMA SeqClosed ==
    ASSUME NEW S, NEW T, <<>> \in T, \A s \in Seq(S), x \in S : s \in T => Append(s, x) \in T
    PROVE  Seq(S) \subseteq T
  <1> DEFINE L == {n \in Nat : \A s \in Seq(S) : Len(s) = n => s \in T}
  <1>1. 0 \in L
    <2>1. \A s \in Seq(S) : Len(s) = 0 => s = <<>>
      OBVIOUS
    <2> QED
      BY <2>1
  <1>2. ASSUME NEW n \in Nat, n \in L PROVE n + 1 \in L
    <2> SUFFICES ASSUME NEW s \in Seq(S), Len(s) = n + 1 PROVE s \in T
      BY <1>2
    <2>1. s # <<>>
      BY <1>2
    <2>2. PICK r \in Seq(S), x \in S : s = Append(r, x)
      BY <2>1, SequenceEmptyOrAppend
    <2>3. Len(r) \in Nat /\ Len(s) = Len(r) + 1
      BY <2>2
    <2>4. Len(r) = n
      BY <1>2, <2>3
    <2> QED
      BY <1>2, <2>2, <2>4
  <1> HIDE DEF L
  <1>3. Nat \subseteq L
    BY <1>1, <1>2, NatClosed
  <1>4. \A s \in Seq(S) : Len(s) \in Nat
    OBVIOUS
  <1> QED
    BY <1>3, <1>4 DEF L

\* The sentences of two parts, one behind the other.
LEMMA SentencesConcat ==
    ASSUME NEW S, NEW u \in Seq(S), NEW v \in Seq(S), NEW Of \in Meanings(S)
    PROVE  Sentences(u \o v, Of) = Joined(Sentences(u, Of), Sentences(v, Of))
  <1> DEFINE T == {w \in Seq(S) :
                     Sentences(u \o w, Of) = Joined(Sentences(u, Of), Sentences(w, Of))}
  <1>1. <<>> \in T
    <2>1. u \o <<>> = u /\ <<>> \in Seq(S)
      BY ConcatEmptySeq
    <2>2. Sentences(<<>>, Of) = {<<>>}
      BY SentencesEmpty
    <2>3. Sentences(u, Of) \in SUBSET Seq(S)
      BY SentencesType
    <2>5. Joined(Sentences(u, Of), {<<>>}) = Sentences(u, Of)
      BY <2>3, JoinedEmpty
    <2> QED
      BY <2>1, <2>2, <2>5
  <1>2. ASSUME NEW w \in Seq(S), NEW x \in S, w \in T PROVE Append(w, x) \in T
    <2> DEFINE A == Sentences(u, Of)
               B == Sentences(w, Of)
               C == OfWord(x, Of)
    <2>1. u \o w \in Seq(S) /\ Append(w, x) \in Seq(S) /\ u \o Append(w, x) = Append(u \o w, x)
      <3>1. u \o w \in Seq(S) /\ Append(w, x) \in Seq(S) /\ <<x>> \in Seq(S)
        OBVIOUS
      <3>2. Append(w, x) = w \o <<x>>
        BY AppendIsConcat
      <3>3. Append(u \o w, x) = (u \o w) \o <<x>>
        BY <3>1, AppendIsConcat
      <3>4. (u \o w) \o <<x>> = u \o (w \o <<x>>)
        BY <3>1, ConcatAssociative
      <3> QED
        BY <3>1, <3>2, <3>3, <3>4
    <2>2. Sentences(Append(u \o w, x), Of) = Joined(Sentences(u \o w, Of), C)
      BY <2>1, SentencesAppend
    <2>3. Sentences(u \o w, Of) = Joined(A, B)
      BY <1>2
    <2>4. Sentences(Append(w, x), Of) = Joined(B, C)
      BY SentencesAppend
    <2>5. A \in SUBSET Seq(S) /\ B \in SUBSET Seq(S)
      BY SentencesType
    <2>6. C \in SUBSET Seq(S)
      BY WordType
    <2> HIDE DEF A, B, C
    <2>7. Joined(Joined(A, B), C) = Joined(A, Joined(B, C))
      BY <2>5, <2>6, JoinedAssociative
    <2>8. Sentences(u \o Append(w, x), Of) = Joined(A, Sentences(Append(w, x), Of))
      BY <2>1, <2>2, <2>3, <2>4, <2>7
    <2> QED
      BY <2>1, <2>8 DEF A
  <1> HIDE DEF T
  <1>3. Seq(S) \subseteq T
    BY <1>1, <1>2, SeqClosed
  <1> QED
    BY <1>3 DEF T

\* One word.
LEMMA SentencesOne ==
    ASSUME NEW S, NEW x \in S, NEW Of \in Meanings(S)
    PROVE  Sentences(<<x>>, Of) = OfWord(x, Of)
  <1>1. <<>> \in Seq(S) /\ Append(<<>>, x) = <<x>>
    OBVIOUS
  <1>2. Sentences(<<x>>, Of) = Joined({<<>>}, OfWord(x, Of))
    <2>1. Sentences(Append(<<>>, x), Of) = Joined(Sentences(<<>>, Of), OfWord(x, Of))
      BY <1>1, SentencesAppend
    <2>2. Sentences(<<>>, Of) = {<<>>}
      BY SentencesEmpty
    <2> QED
      BY <1>1, <2>1, <2>2
  <1>3. OfWord(x, Of) \in SUBSET Seq(S)
    BY WordType
  <1> QED
    BY <1>2, <1>3, JoinedEmpty

\* What can become more, gives more sentences.
LEMMA SentencesGrow ==
    ASSUME NEW S, NEW w \in Seq(S), NEW Of \in Meanings(S), NEW Above \in Meanings(S),
           \A m \in Marked : Of[m] \subseteq Above[m]
    PROVE  Sentences(w, Of) \subseteq Sentences(w, Above)
  <1> DEFINE T == {v \in Seq(S) : Sentences(v, Of) \subseteq Sentences(v, Above)}
  <1>1. <<>> \in T
    <2>1. Sentences(<<>>, Of) = {<<>>}
      BY SentencesEmpty
    <2>2. Sentences(<<>>, Above) = {<<>>}
      BY SentencesEmpty
    <2> QED
      BY <2>1, <2>2
  <1>2. ASSUME NEW v \in Seq(S), NEW x \in S, v \in T PROVE Append(v, x) \in T
    <2>1. Sentences(Append(v, x), Of) = Joined(Sentences(v, Of), OfWord(x, Of))
      BY SentencesAppend
    <2>2. Sentences(Append(v, x), Above) = Joined(Sentences(v, Above), OfWord(x, Above))
      BY SentencesAppend
    <2>3. Sentences(v, Of) \subseteq Sentences(v, Above) /\ OfWord(x, Of) \subseteq OfWord(x, Above)
      BY <1>2 DEF OfWord
    <2>4. Append(v, x) \in Seq(S)
      OBVIOUS
    <2>5. Joined(Sentences(v, Of), OfWord(x, Of)) \subseteq Joined(Sentences(v, Above), OfWord(x, Above))
      BY <2>3, JoinedGrows
    <2> QED
      BY <2>1, <2>2, <2>4, <2>5
  <1> HIDE DEF T
  <1>3. Seq(S) \subseteq T
    BY <1>1, <1>2, SeqClosed
  <1> QED
    BY <1>3 DEF T

\* Words that are not marked stand for themselves.
LEMMA SentencesPlain ==
    ASSUME NEW S, NEW w \in Seq(S), NEW Of \in Meanings(S), \A k \in DOMAIN w : w[k] \notin Marked
    PROVE  w \in Sentences(w, Of)
  <1> DEFINE Plain(v) == \A k \in DOMAIN v : v[k] \notin Marked
             T == {v \in Seq(S) : Plain(v) => v \in Sentences(v, Of)}
  <1>1. <<>> \in T
    BY SentencesEmpty
  <1>2. ASSUME NEW v \in Seq(S), NEW x \in S, v \in T PROVE Append(v, x) \in T
    <2>1. /\ Append(v, x) \in Seq(S) /\ Len(v) \in Nat /\ DOMAIN v = 1 .. Len(v)
          /\ DOMAIN Append(v, x) = 1 .. (Len(v) + 1)
          /\ \A k \in 1 .. Len(v) : Append(v, x)[k] = v[k]
          /\ Append(v, x)[Len(v) + 1] = x
      OBVIOUS
    <2>2. \A k \in 1 .. Len(v) : k \in 1 .. (Len(v) + 1)
      BY <2>1
    <2>3. Len(v) + 1 \in 1 .. (Len(v) + 1)
      BY <2>1
    <2> SUFFICES ASSUME Plain(Append(v, x)) PROVE Append(v, x) \in Sentences(Append(v, x), Of)
      BY <2>1
    <2>4. Plain(v) /\ x \notin Marked
      BY <2>1, <2>2, <2>3
    <2>5. v \in Sentences(v, Of) /\ <<x>> \in OfWord(x, Of)
      BY <1>2, <2>4 DEF OfWord
    <2>6. Append(v, x) = v \o <<x>>
      BY AppendIsConcat
    <2>7. Sentences(Append(v, x), Of) = Joined(Sentences(v, Of), OfWord(x, Of))
      BY SentencesAppend
    <2>8. Cat(v, <<x>>) \in Joined(Sentences(v, Of), OfWord(x, Of))
      BY <2>5, JoinedHas
    <2> QED
      BY <2>6, <2>7, <2>8 DEF Cat
  <1> HIDE DEF T
  <1>3. Seq(S) \subseteq T
    BY <1>1, <1>2, SeqClosed
  <1> QED
    BY <1>3 DEF T

-----------------------------------------------------------------------------
(***************************************************************************)
(* The language of the grammar                                             *)
(***************************************************************************)
\* With one more level of nesting.
Deeper(Of) == [m \in Marked |-> UNION {Sentences(p, Of) : p \in Productions(m)}]

Levels(f, d) ==
    /\ f = [i \in 0 .. d |-> f[i]]
    /\ f[0] = [m \in Marked |-> {}]
    /\ \A i \in 1 .. d : f[i] = Deeper(f[i - 1])

Typed(S) == \A m \in Marked : Productions(m) \subseteq Seq(S)

\* The sentences of the productions.
LEMMA DeeperIs ==
    ASSUME NEW S, Typed(S), NEW Of \in Meanings(S)
    PROVE  /\ Deeper(Of) \in Meanings(S)
           /\ \A m \in Marked : \A p \in Productions(m) : Sentences(p, Of) \subseteq Deeper(Of)[m]
           /\ \A m \in Marked : \A s \in Deeper(Of)[m] :
                 \E p \in Productions(m) : s \in Sentences(p, Of)
  <1>1. ASSUME NEW m \in Marked, NEW p \in Productions(m) PROVE Sentences(p, Of) \in SUBSET Seq(S)
    <2>1. p \in Seq(S)
      BY DEF Typed
    <2> QED
      BY <2>1, SentencesType
  <1>2. ASSUME NEW m \in Marked
        PROVE  /\ Deeper(Of)[m] = UNION {Sentences(p, Of) : p \in Productions(m)}
               /\ Deeper(Of)[m] \in SUBSET Seq(S)
    BY <1>1 DEF Deeper
  <1>3. Deeper(Of) = [m \in Marked |-> Deeper(Of)[m]]
    BY DEF Deeper
  <1>4. Deeper(Of) \in Meanings(S)
    BY <1>2, <1>3 DEF Meanings
  <1>5. ASSUME NEW m \in Marked, NEW p \in Productions(m) PROVE Sentences(p, Of) \subseteq Deeper(Of)[m]
    BY <1>2
  <1>6. ASSUME NEW m \in Marked, NEW s \in Deeper(Of)[m]
        PROVE  \E p \in Productions(m) : s \in Sentences(p, Of)
    BY <1>2
  <1> QED
    BY <1>4, <1>5, <1>6

\* The recursion of Language gives meanings,
LEMMA LevelsType ==
    ASSUME NEW S, Typed(S), NEW d \in Nat, NEW f, Levels(f, d)
    PROVE  \A i \in 0 .. d : f[i] \in Meanings(S)
  <1> DEFINE T == {i \in Nat : i \in 0 .. d => f[i] \in Meanings(S)}
  <1>1. 0 \in T
    BY DEF Levels, Meanings
  <1>2. ASSUME NEW i \in Nat, i \in T PROVE i + 1 \in T
    <2> SUFFICES ASSUME i + 1 \in 0 .. d PROVE f[i + 1] \in Meanings(S)
      BY <1>2
    <2>1. i \in 0 .. d /\ i + 1 \in 1 .. d /\ (i + 1) - 1 = i
      BY <1>2
    <2>2. f[i] \in Meanings(S)
      BY <1>2, <2>1
    <2>3. f[i + 1] = Deeper(f[i])
      BY <2>1 DEF Levels
    <2>4. Deeper(f[i]) \in Meanings(S)
      BY <2>2, DeeperIs
    <2> QED
      BY <2>3, <2>4
  <1> HIDE DEF T
  <1>3. Nat \subseteq T
    BY <1>1, <1>2, NatClosed
  <1>4. \A i \in 0 .. d : i \in Nat
    OBVIOUS
  <1> QED
    BY <1>3, <1>4 DEF T

\* it has a solution,
LEMMA LevelsExist ==
    ASSUME NEW S, Typed(S), NEW d \in Nat
    PROVE  \E f : Levels(f, d)
  <1> DEFINE none == [m \in Marked |-> {}]
             g == [p \in Nat \X Meanings(S) |-> Deeper(p[2])]
  <1>1. PICK f : Iterates(f, none, g, d)
    <2> HIDE DEF none, g
    <2> QED
      BY IteratesExist
  <1>2. f = [i \in 0 .. d |-> f[i]] /\ f[0] = none /\ \A i \in 1 .. d : f[i] = g[<<i, f[i - 1]>>]
    BY <1>1 DEF Iterates
  <1>3. \A i \in Nat : \A Of \in Meanings(S) : g[<<i, Of>>] = Deeper(Of)
    OBVIOUS
  <1>4. none \in Meanings(S)
    BY DEF Meanings
  <1> HIDE DEF g
  <1> DEFINE T == {i \in Nat : i \in 0 .. d => f[i] \in Meanings(S)}
  <1>5. 0 \in T
    BY <1>2, <1>4
  <1>6. ASSUME NEW i \in Nat, i \in T PROVE i + 1 \in T
    <2> SUFFICES ASSUME i + 1 \in 0 .. d PROVE f[i + 1] \in Meanings(S)
      BY <1>6
    <2>1. i \in 0 .. d /\ i + 1 \in 1 .. d /\ (i + 1) - 1 = i /\ i + 1 \in Nat
      BY <1>6
    <2>2. f[i] \in Meanings(S)
      BY <1>6, <2>1
    <2>3. f[i + 1] = Deeper(f[i])
      <3>1. f[i + 1] = g[<<i + 1, f[(i + 1) - 1]>>]
        BY <1>2, <2>1
      <3>2. f[i + 1] = g[<<i + 1, f[i]>>]
        BY <2>1, <3>1
      <3>3. g[<<i + 1, f[i]>>] = Deeper(f[i])
        BY <1>3, <2>1, <2>2
      <3> QED
        BY <3>2, <3>3
    <2>4. Deeper(f[i]) \in Meanings(S)
      BY <2>2, DeeperIs
    <2> QED
      BY <2>3, <2>4
  <1>7. Nat \subseteq T
    <2> HIDE DEF T
    <2> QED
      BY <1>5, <1>6, NatClosed
  <1>8. \A i \in 1 .. d : i - 1 \in Nat /\ i - 1 \in 0 .. d /\ i \in Nat
    OBVIOUS
  <1>9. \A i \in 1 .. d : f[i - 1] \in Meanings(S)
    BY <1>7, <1>8
  <1>10. \A i \in 1 .. d : f[i] = Deeper(f[i - 1])
    BY <1>2, <1>3, <1>8, <1>9
  <1> QED
    BY <1>2, <1>10 DEF Levels

\* and only one.
LEMMA LevelsUnique ==
    ASSUME NEW d \in Nat, NEW e \in Nat, d <= e, NEW f, NEW h, Levels(f, d), Levels(h, e)
    PROVE  \A i \in 0 .. d : f[i] = h[i]
  <1> DEFINE T == {i \in Nat : i \in 0 .. d => f[i] = h[i]}
  <1>1. 0 \in T
    BY DEF Levels
  <1>2. ASSUME NEW i \in Nat, i \in T PROVE i + 1 \in T
    <2> SUFFICES ASSUME i + 1 \in 0 .. d PROVE f[i + 1] = h[i + 1]
      BY <1>2
    <2>1. i \in 0 .. d /\ i + 1 \in 1 .. d /\ (i + 1) - 1 = i /\ i + 1 \in 1 .. e
      BY <1>2
    <2>2. f[i] = h[i]
      BY <1>2, <2>1
    <2>3. f[i + 1] = Deeper(f[i])
      BY <2>1 DEF Levels
    <2>4. h[i + 1] = Deeper(h[i])
      BY <2>1 DEF Levels
    <2> QED
      BY <2>2, <2>3, <2>4
  <1> HIDE DEF T
  <1>3. Nat \subseteq T
    BY <1>1, <1>2, NatClosed
  <1>4. \A i \in 0 .. d : i \in Nat
    OBVIOUS
  <1> QED
    BY <1>3, <1>4 DEF T

\* Language is the end of that recursion.
LEMMA LanguageIs ==
    ASSUME NEW S, Typed(S), NEW d \in Nat
    PROVE  \E f : Levels(f, d) /\ Language(d) = f[d]
  <1> DEFINE none == [m \in Marked |-> {}]
             Step(f) == [n \in 0 .. d |-> IF n = 0 THEN none ELSE Deeper(f[n - 1])]
  <1>1. Language(d) = (CHOOSE f : f = Step(f))[d]
    BY DEF Language, Deeper
  <1>2. PICK f : Levels(f, d)
    BY LevelsExist
  <1>N. f[0] = none
    BY <1>2 DEF Levels
  <1>3. f = Step(f)
    <2>1. ASSUME NEW i \in 0 .. d PROVE f[i] = IF i = 0 THEN none ELSE Deeper(f[i - 1])
      <3>1. i = 0 \/ i \in 1 .. d
        OBVIOUS
      <3> HIDE DEF none
      <3> QED
        BY <1>2, <1>N, <3>1 DEF Levels
    <2>2. Step(f) = [i \in 0 .. d |-> f[i]]
      BY <2>1
    <2> QED
      BY <1>2, <2>2 DEF Levels
  <1>4. PICK h : h = Step(h) /\ Language(d) = h[d]
    <2> HIDE DEF Step
    <2> QED
      BY <1>1, <1>3
  <1>5. \A i \in 0 .. d : h[i] = IF i = 0 THEN none ELSE Deeper(h[i - 1])
    <2> HIDE DEF none
    <2> QED
      BY <1>4
  <1>6. h = [i \in 0 .. d |-> h[i]]
    BY <1>4
  <1>7. 0 \in 0 .. d /\ \A i \in 1 .. d : i \in 0 .. d /\ i # 0
    OBVIOUS
  <1>8. h[0] = none /\ \A i \in 1 .. d : h[i] = Deeper(h[i - 1])
    <2> HIDE DEF none, Step
    <2> QED
      BY <1>5, <1>7
  <1>9. Levels(h, d)
    <2> HIDE DEF Step
    <2> QED
      BY <1>6, <1>8 DEF Levels
  <1> QED
    BY <1>4, <1>9

\* What a language says of each nonterminal.
LEMMA LanguageType ==
    ASSUME NEW S, Typed(S), NEW d \in Nat
    PROVE  Language(d) \in Meanings(S)
  <1>1. PICK f : Levels(f, d) /\ Language(d) = f[d]
    BY LanguageIs
  <1>2. d \in 0 .. d
    OBVIOUS
  <1> QED
    BY <1>1, <1>2, LevelsType

\* One level more.
LEMMA LanguageNext ==
    ASSUME NEW S, Typed(S), NEW d \in Nat
    PROVE  Language(d + 1) = Deeper(Language(d))
  <1>1. PICK f : Levels(f, d) /\ Language(d) = f[d]
    BY LanguageIs
  <1>2. PICK e : e = d + 1 /\ e \in Nat
    OBVIOUS
  <1>3. PICK h : Levels(h, e) /\ Language(e) = h[e]
    BY <1>2, LanguageIs
  <1>4. d <= e /\ d \in 0 .. d /\ e \in 1 .. e /\ e - 1 = d
    BY <1>2
  <1>5. f[d] = h[d]
    BY <1>1, <1>2, <1>3, <1>4, LevelsUnique
  <1>6. h[e] = Deeper(h[d])
    BY <1>3, <1>4 DEF Levels
  <1> QED
    BY <1>1, <1>2, <1>3, <1>5, <1>6

\* One more level gives no less.
LEMMA LanguageGrows ==
    ASSUME NEW S, Typed(S), NEW d \in Nat
    PROVE  \A m \in Marked : Language(d)[m] \subseteq Language(d + 1)[m]
  <1> DEFINE T == {e \in Nat : \A m \in Marked : Language(e)[m] \subseteq Language(e + 1)[m]}
  <1>1. 0 \in T
    <2>1. PICK f : Levels(f, 0) /\ Language(0) = f[0]
      BY LanguageIs
    <2>2. \A m \in Marked : Language(0)[m] = {}
      BY <2>1 DEF Levels
    <2> QED
      BY <2>2
  <1>2. ASSUME NEW e \in Nat, e \in T PROVE e + 1 \in T
    <2>1. e + 1 \in Nat
      OBVIOUS
    <2>2. Language(e) \in Meanings(S)
      BY LanguageType
    <2>3. Language(e + 1) \in Meanings(S)
      BY <2>1, LanguageType
    <2>4. Language(e + 1) = Deeper(Language(e))
      BY LanguageNext
    <2>5. Language((e + 1) + 1) = Deeper(Language(e + 1))
      BY <2>1, LanguageNext
    <2>6. PICK A, B : A = Language(e) /\ B = Language(e + 1)
      OBVIOUS
    <2>7. \A m \in Marked : A[m] \subseteq B[m]
      BY <1>2, <2>6
    <2>8. A \in Meanings(S) /\ B \in Meanings(S)
      BY <2>2, <2>3, <2>6
    <2>9. ASSUME NEW m \in Marked, NEW s \in Deeper(A)[m] PROVE s \in Deeper(B)[m]
      <3>1. PICK p \in Productions(m) : s \in Sentences(p, A)
        BY <2>8, DeeperIs
      <3>2. p \in Seq(S)
        BY DEF Typed
      <3>3. Sentences(p, A) \subseteq Sentences(p, B)
        BY <2>7, <2>8, <3>2, SentencesGrow
      <3>4. Sentences(p, B) \subseteq Deeper(B)[m]
        BY <2>8, DeeperIs
      <3> QED
        BY <3>1, <3>3, <3>4
    <2>10. \A m \in Marked : Language(e + 1)[m] \subseteq Language((e + 1) + 1)[m]
      BY <2>4, <2>5, <2>6, <2>9
    <2> QED
      BY <2>1, <2>10
  <1> HIDE DEF T
  <1>3. Nat \subseteq T
    BY <1>1, <1>2, NatClosed
  <1> QED
    BY <1>3 DEF T

\* What the productions of a nonterminal can become, it can become one level deeper.
LEMMA LanguageHas ==
    ASSUME NEW S, Typed(S), NEW d \in Nat, NEW m \in Marked, NEW p \in Productions(m)
    PROVE  Sentences(p, Language(d)) \subseteq Language(d + 1)[m]
  <1>1. Language(d) \in Meanings(S)
    BY LanguageType
  <1>2. Language(d + 1) = Deeper(Language(d))
    BY LanguageNext
  <1> QED
    BY <1>1, <1>2, DeeperIs

-----------------------------------------------------------------------------
(***************************************************************************)
(* Every version is a sentence of the grammar                              *)
(***************************************************************************)
Meant(s) == \E depth \in Nat : s \in Language(depth)[Start]

\* What is still to be expanded can only become such a sentence.
VersionInv ==
    /\ pc = "expand" =>
          \A depth \in Nat : \A s \in Sentences(final_vec, Language(depth)) : Meant(s)
    /\ versions \in Seq(Seq(Tokens))
    /\ \A k \in DOMAIN versions : Meant(versions[k])

\* When the grammar is read, its productions are sequences of tokens,
LEMMA ProductionsTyped ==
    ASSUME FileInv, GrammarIs(Len(file) + 1)
    PROVE  Typed(Tokens)
  <1> SUFFICES ASSUME NEW m \in Marked, NEW p \in Productions(m) PROVE p \in Seq(Tokens)
    BY DEF Typed
  <1>1. Expansions(m) \in Seq(Seq(Tokens)) /\ Range(Expansions(m)) = Productions(m)
    BY ExpansionsAre
  <1>2. PICK i \in DOMAIN Expansions(m) : p = Expansions(m)[i]
    BY <1>1 DEF Range
  <1> QED
    BY <1>1, <1>2

\* also after a step.
LEMMA ProductionsTypedNext == (FileInv /\ GrammarIs(Len(file) + 1) => Typed(Tokens))'
  <1>1. FileInv /\ GrammarIs(Len(file) + 1) => Typed(Tokens)
    BY ProductionsTyped
  <1> QED
    BY <1>1, PTL

\* A sequence around one of its elements.
LEMMA SplitAt ==
    ASSUME NEW S, NEW s \in Seq(S), NEW i \in DOMAIN s
    PROVE  /\ SubSeq(s, 1, i - 1) \in Seq(S) /\ SubSeq(s, i + 1, Len(s)) \in Seq(S)
           /\ s = (SubSeq(s, 1, i - 1) \o <<s[i]>>) \o SubSeq(s, i + 1, Len(s))
  <1>1. i \in 1 .. Len(s) /\ Len(s) \in Nat
    OBVIOUS
  <1>2. SubSeq(s, 1, i - 1) \in Seq(S) /\ SubSeq(s, i + 1, Len(s)) \in Seq(S)
    BY <1>1
  <1>3. SubSeq(s, 1, i - 1) \o SubSeq(s, (i - 1) + 1, i) = SubSeq(s, 1, i)
    <2>1. 1 \in 1 .. Len(s) + 1 /\ i - 1 \in 1 - 1 .. Len(s) /\ i \in i - 1 .. Len(s)
      BY <1>1
    <2> QED
      BY <2>1, ConcatAdjacentSubSeq
  <1>4. SubSeq(s, 1, i) \o SubSeq(s, i + 1, Len(s)) = SubSeq(s, 1, Len(s))
    <2>1. 1 \in 1 .. Len(s) + 1 /\ i \in 1 - 1 .. Len(s) /\ Len(s) \in i .. Len(s)
      BY <1>1
    <2> QED
      BY <2>1, ConcatAdjacentSubSeq
  <1>5. SubSeq(s, (i - 1) + 1, i) = <<s[i]>>
    <2>1. (i - 1) + 1 = i
      BY <1>1
    <2>2. PICK t : t = SubSeq(s, i, i)
      OBVIOUS
    <2>3. t \in Seq(S) /\ Len(t) = 1 /\ t[1] = s[i]
      <3>1. \A k \in i .. i : s[k] \in S
        BY <1>1
      <3>2. i \in Int /\ (IF i <= i THEN (i - i) + 1 ELSE 0) = 1 /\ (i + 1) - 1 = i /\ 1 \in 1 .. 1
        BY <1>1
      <3>3. t \in Seq(S) /\ Len(t) = 1
        BY <2>2, <3>1, <3>2, SubSeqProperties
      <3>4. t[1] = s[i]
        BY <1>1, <2>2
      <3> QED
        BY <3>3, <3>4
    <2>4. t = <<s[i]>>
      BY <2>3
    <2> QED
      BY <2>1, <2>2, <2>4
  <1>6. SubSeq(s, 1, Len(s)) = s
    BY <1>1
  <1> QED
    BY <1>2, <1>3, <1>4, <1>5, <1>6

\* The sentences of three parts.
LEMMA SentencesAround ==
    ASSUME NEW S, NEW a \in Seq(S), NEW w \in Seq(S), NEW c \in Seq(S), NEW Of \in Meanings(S)
    PROVE  Sentences((a \o w) \o c, Of)
             = Joined(Joined(Sentences(a, Of), Sentences(w, Of)), Sentences(c, Of))
  <1>1. a \o w \in Seq(S)
    OBVIOUS
  <1>2. Sentences((a \o w) \o c, Of) = Joined(Sentences(a \o w, Of), Sentences(c, Of))
    BY <1>1, SentencesConcat
  <1>3. Sentences(a \o w, Of) = Joined(Sentences(a, Of), Sentences(w, Of))
    BY SentencesConcat
  <1> QED
    BY <1>2, <1>3

\* A production in the place of its nonterminal.
LEMMA ReplacedMeans ==
    ASSUME NEW S, Typed(S), final_vec \in Seq(S), NEW i \in DOMAIN final_vec,
           final_vec[i] \in Marked, NEW words \in Productions(final_vec[i]), NEW d \in Nat
    PROVE  Sentences(Replaced(i, words), Language(d)) \subseteq Sentences(final_vec, Language(d + 1))
  <1>1. PICK a, c, n :
          /\ a = SubSeq(final_vec, 1, i - 1) /\ c = SubSeq(final_vec, i + 1, Len(final_vec))
          /\ n = final_vec[i]
    OBVIOUS
  <1>2. a \in Seq(S) /\ c \in Seq(S) /\ final_vec = (a \o <<n>>) \o c
    BY <1>1, SplitAt
  <1>3. Replaced(i, words) = (a \o words) \o c
    BY <1>1 DEF Replaced
  <1>4. n \in S /\ <<n>> \in Seq(S) /\ n \in Marked /\ words \in Productions(n)
    BY <1>1
  <1>5. words \in Seq(S)
    BY <1>4 DEF Typed
  <1>6. d + 1 \in Nat
    OBVIOUS
  <1>7. PICK low, high : low = Language(d) /\ high = Language(d + 1)
    OBVIOUS
  <1>8. low \in Meanings(S)
    BY <1>7, LanguageType
  <1>9. high \in Meanings(S)
    BY <1>6, <1>7, LanguageType
  <1>10. \A m \in Marked : low[m] \subseteq high[m]
    BY <1>7, LanguageGrows
  <1>11. Sentences(a, low) \subseteq Sentences(a, high)
    BY <1>2, <1>8, <1>9, <1>10, SentencesGrow
  <1>12. Sentences(c, low) \subseteq Sentences(c, high)
    BY <1>2, <1>8, <1>9, <1>10, SentencesGrow
  <1>13. Sentences(words, low) \subseteq high[n]
    BY <1>4, <1>7, LanguageHas
  <1>14. Sentences(<<n>>, high) = high[n]
    <2>1. Sentences(<<n>>, high) = OfWord(n, high)
      BY <1>4, <1>9, SentencesOne
    <2> QED
      BY <1>4, <2>1 DEF OfWord
  <1>15. Sentences((a \o words) \o c, low)
           = Joined(Joined(Sentences(a, low), Sentences(words, low)), Sentences(c, low))
    BY <1>2, <1>5, <1>8, SentencesAround
  <1>16. Sentences((a \o <<n>>) \o c, high)
           = Joined(Joined(Sentences(a, high), high[n]), Sentences(c, high))
    <2>1. Sentences((a \o <<n>>) \o c, high)
            = Joined(Joined(Sentences(a, high), Sentences(<<n>>, high)), Sentences(c, high))
      <3>1. PICK w : w = <<n>> /\ w \in Seq(S)
        BY <1>4
      <3>2. Sentences((a \o w) \o c, high)
              = Joined(Joined(Sentences(a, high), Sentences(w, high)), Sentences(c, high))
        <4>1. a \in Seq(S) /\ c \in Seq(S)
          BY <1>2
        <4>2. w \in Seq(S)
          BY <3>1
        <4> QED
          BY <1>9, <4>1, <4>2, SentencesAround
      <3> QED
        BY <3>1, <3>2
    <2> QED
      BY <1>14, <2>1
  <1>17. Joined(Sentences(a, low), Sentences(words, low)) \subseteq Joined(Sentences(a, high), high[n])
    BY <1>11, <1>13, JoinedGrows
  <1>18. Joined(Joined(Sentences(a, low), Sentences(words, low)), Sentences(c, low))
           \subseteq Joined(Joined(Sentences(a, high), high[n]), Sentences(c, high))
    BY <1>12, <1>17, JoinedGrows
  <1> QED
    BY <1>2, <1>3, <1>7, <1>15, <1>16, <1>18

\* The first word is <start>.
LEMMA StartMeans ==
    ASSUME NEW S, Typed(S), Start \in S, NEW d \in Nat, NEW s \in Sentences(<<Start>>, Language(d))
    PROVE  Meant(s)
  <1>1. Language(d) \in Meanings(S)
    BY LanguageType
  <1>2. Sentences(<<Start>>, Language(d)) = OfWord(Start, Language(d))
    BY <1>1, SentencesOne
  <1>3. s \in Language(d)[Start]
    BY <1>2, MarkedIs DEF OfWord
  <1> QED
    BY <1>3 DEF Meant

\* A step that replaces a nonterminal by a production leaves nothing to come up that
\* could not come up before; a version without nonterminals stands for itself.
LEMMA VersionStep ==
    ASSUME Inv, VersionInv, [Next]_vars
    PROVE  VersionInv'
  <1>1. /\ ReadInv /\ ReadInv' /\ file' = file
        /\ (pc = "expand" => WordsInv) /\ (pc' = "expand" => WordsInv')
    BY ReadStep, ExpandStep DEF Inv, ExpandInv
  <1>2. Tokens' = Tokens /\ FileInv
    BY <1>1 DEF Tokens, ReadInv
  <1>3. \A d : (Language(d))' = Language(d)
    BY <1>1 DEF Language, Productions, Definitions
  <1>4. \A s : (Meant(s))' <=> Meant(s)
    BY <1>3 DEF Meant
  <1>5. pc \in {"expand", "end"} => Typed(Tokens)
    BY <1>1, <1>2, ProductionsTyped DEF ReadInv
  <1>6. pc' \in {"expand", "end"} => (Typed(Tokens))'
    <2>1. pc' \in {"expand", "end"} => (FileInv /\ GrammarIs(Len(file) + 1))'
      BY <1>1 DEF ReadInv
    <2> QED
      BY <2>1, ProductionsTypedNext
  <1>7. (Typed(Tokens))' <=> Typed(Tokens)
    BY <1>1, <1>2 DEF Typed, Productions, Definitions
  <1>8. ASSUME versions' = versions
        PROVE  (versions \in Seq(Seq(Tokens)) /\ \A k \in DOMAIN versions : Meant(versions[k]))'
    <2>1. \A k \in DOMAIN versions' : Meant(versions'[k])
      BY <1>8 DEF VersionInv
    <2>2. \A k \in DOMAIN versions' : (Meant(versions[k]))'
      <3>1. \A k \in DOMAIN versions' : (Meant(versions[k]))' <=> Meant(versions'[k])
        BY <1>3 DEF Meant
      <3> QED
        BY <2>1, <3>1
    <2> QED
      BY <1>2, <1>8, <2>2 DEF VersionInv
  <1>9. ASSUME final_vec' = <<Start>>, Typed(Tokens)
        PROVE  (\A depth \in Nat : \A s \in Sentences(final_vec, Language(depth)) : Meant(s))'
    <2>1. Start \in Tokens
      BY DEF Tokens
    <2>2. \A depth \in Nat : \A s \in Sentences(<<Start>>, Language(depth)) : Meant(s)
      BY <1>9, <2>1, StartMeans
    <2> QED
      BY <1>3, <1>4, <1>9, <2>2
  <1>10. CASE pc' # "expand" /\ versions' = versions
    BY <1>8, <1>10 DEF VersionInv
  <1>11. CASE EndOfFile
    <2>1. final_vec' = <<Start>> /\ pc' = "expand" /\ versions' = versions
      BY <1>11 DEF EndOfFile
    <2> QED
      BY <1>6, <1>7, <1>8, <1>9, <2>1 DEF VersionInv
  <1>12. CASE Replace
    <2>1. /\ pc = "expand" /\ pc' = pc /\ Nonterms # {} /\ versions' = versions
          /\ \E random \in DOMAIN Expansions(final_vec[Min(Nonterms)]) :
                final_vec' = Replaced(Min(Nonterms), Expansions(final_vec[Min(Nonterms)])[random])
      BY <1>12 DEF Replace
    <2>2. WordsInv /\ FileInv /\ GrammarIs(Len(file) + 1)
      BY <1>1, <2>1 DEF ReadInv
    <2>3. PICK i, n : i = Min(Nonterms) /\ n = final_vec[i]
      OBVIOUS
    <2>4. i \in DOMAIN final_vec /\ n \in Marked
      BY <2>1, <2>2, <2>3, FirstNonterm
    <2>5. PICK random \in DOMAIN Expansions(n) :
            final_vec' = Replaced(i, Expansions(n)[random])
      BY <2>1, <2>3
    <2>6. PICK words : words = Expansions(n)[random]
      OBVIOUS
    <2>7. Range(Expansions(n)) = Productions(n)
      BY <2>2, ExpansionsAre
    <2>8. words \in Productions(n)
      BY <2>5, <2>6, <2>7 DEF Range
    <2>9. final_vec \in Seq(Tokens) /\ Typed(Tokens)
      BY <1>5, <2>1, <2>2 DEF WordsInv
    <2>10. ASSUME NEW d \in Nat, NEW s \in Sentences(Replaced(i, words), Language(d))
           PROVE  Meant(s)
      <3>1. Sentences(Replaced(i, words), Language(d)) \subseteq Sentences(final_vec, Language(d + 1))
        BY <2>3, <2>4, <2>8, <2>9, ReplacedMeans
      <3>2. s \in Sentences(final_vec, Language(d + 1)) /\ d + 1 \in Nat
        BY <3>1
      <3> QED
        BY <2>1, <3>2 DEF VersionInv
    <2>11. final_vec' = Replaced(i, words)
      BY <2>5, <2>6
    <2>12. (\A depth \in Nat : \A s \in Sentences(final_vec, Language(depth)) : Meant(s))'
      <3>1. \A depth \in Nat : \A s \in Sentences(final_vec', Language(depth)) : Meant(s)
        BY <2>10, <2>11
      <3> QED
        BY <1>3, <1>4, <3>1
    <2> QED
      BY <1>8, <2>1, <2>12 DEF VersionInv
  <1>13. CASE Display
    <2>1. /\ pc = "expand" /\ Nonterms = {} /\ versions' = Append(versions, final_vec)
          /\ pc' = "expand" => final_vec' = <<Start>>
      BY <1>13 DEF Display
    <2>2. final_vec \in Seq(Tokens) /\ Typed(Tokens)
      BY <1>1, <1>5, <2>1 DEF WordsInv
    <2>3. Meant(final_vec)
      <3>1. Language(0) \in Meanings(Tokens)
        BY <2>2, LanguageType
      <3>2. \A k \in DOMAIN final_vec : final_vec[k] \notin Marked
        BY <2>1 DEF Nonterms
      <3>3. final_vec \in Sentences(final_vec, Language(0))
        BY <2>2, <3>1, <3>2, SentencesPlain
      <3> QED
        BY <2>1, <3>3 DEF VersionInv
    <2>4. versions \in Seq(Seq(Tokens)) /\ \A k \in DOMAIN versions : Meant(versions[k])
      BY DEF VersionInv
    <2>5. PICK old, new : old = versions /\ new = final_vec
      OBVIOUS
    <2>6. old \in Seq(Seq(Tokens)) /\ new \in Seq(Tokens) /\ versions' = Append(old, new)
          /\ (\A k \in DOMAIN old : Meant(old[k])) /\ Meant(new)
      BY <2>1, <2>2, <2>3, <2>4, <2>5
    <2>7. Append(old, new) \in Seq(Seq(Tokens))
      BY <2>6
    <2>8. ASSUME NEW k \in DOMAIN Append(old, new) PROVE Append(old, new)[k] = new \/
             (k \in DOMAIN old /\ Append(old, new)[k] = old[k])
      <3>1. Len(old) \in Nat /\ DOMAIN old = 1 .. Len(old) /\ k \in 1 .. (Len(old) + 1)
        BY <2>6
      <3>2. k = Len(old) + 1 \/ k \in 1 .. Len(old)
        BY <3>1
      <3> QED
        BY <2>6, <3>1, <3>2
    <2>9. \A k \in DOMAIN Append(old, new) : Meant(Append(old, new)[k])
      BY <2>6, <2>8
    <2>10. (versions \in Seq(Seq(Tokens)) /\ \A k \in DOMAIN versions : Meant(versions[k]))'
      <3>1. \A k \in DOMAIN versions' : (Meant(versions[k]))' <=> Meant(versions'[k])
        BY <1>3 DEF Meant
      <3> QED
        BY <1>2, <2>6, <2>7, <2>9, <3>1
    <2> QED
      BY <1>9, <2>1, <2>2, <2>10 DEF VersionInv
  <1>14. CASE UNCHANGED vars
    <2>1. pc' = pc /\ final_vec' = final_vec /\ versions' = versions
      BY <1>14 DEF vars
    <2>2. pc' = "expand" =>
            (\A depth \in Nat : \A s \in Sentences(final_vec, Language(depth)) : Meant(s))'
      <3>1. pc' = "expand" =>
              \A depth \in Nat : \A s \in Sentences(final_vec', Language(depth)) : Meant(s)
        BY <2>1 DEF VersionInv
      <3> QED
        BY <1>3, <1>4, <3>1
    <2> QED
      BY <1>8, <2>1, <2>2 DEF VersionInv
  <1>15. CASE OpenDefinition \/ ReadPhrase \/ CloseDefinition \/ Abort
    <2>1. pc' # "expand" /\ versions' = versions
      BY <1>15 DEF OpenDefinition, ReadPhrase, CloseDefinition, Abort
    <2> QED
      BY <1>10, <2>1
  <1>16. CASE Finished
    BY <1>14, <1>16 DEF Finished
  <1> QED
    BY <1>11, <1>12, <1>13, <1>14, <1>15, <1>16 DEF Next

\* The inductive invariant of the versions.
THEOREM VersionsInvariant == Spec => []VersionInv
  <1>1. Init => VersionInv
    <2> SUFFICES ASSUME Init PROVE VersionInv
      OBVIOUS
    <2>1. pc = "text" /\ versions = <<>>
      BY DEF Init
    <2>2. <<>> \in Seq(Seq(Tokens)) /\ DOMAIN <<>> = {}
      OBVIOUS
    <2> QED
      BY <2>1, <2>2 DEF VersionInv
  <1>2. Inv /\ VersionInv /\ [Next]_vars => VersionInv'
    BY VersionStep
  <1> QED
    BY <1>1, <1>2, GrammarInvariant, PTL DEF Spec

\* Every version that display_text is given is a sentence of <start>, by the last
\* definition of each nonterminal, with the words in the order of their productions.
THEOREM VersionsComeFromStart ==
    Spec => [](\A k \in DOMAIN versions : \E depth \in Nat : versions[k] \in Language(depth)[Start])
  <1>1. VersionInv => \A k \in DOMAIN versions :
                         \E depth \in Nat : versions[k] \in Language(depth)[Start]
    BY DEF VersionInv, Meant
  <1> QED
    BY <1>1, VersionsInvariant, PTL

\* After readGrammar the map has, for every nonterminal, exactly the productions of its
\* last definition in the file.
THEOREM GrammarIsRead ==
    Spec => [](pc \in {"expand", "end"} => \A n : Range(Expansions(n)) = Productions(n))
  <1>1. Inv => (pc \in {"expand", "end"} => \A n : Range(Expansions(n)) = Productions(n))
    BY ExpansionsAre DEF Inv, ReadInv
  <1> QED
    BY <1>1, GrammarInvariant, PTL
=============================================================================
