-------------------------------- MODULE Rsg --------------------------------
(***************************************************************************)
(* The random sentence generator, rsg.cc with definition.cc, production.cc *)
(* and random.cc: it reads a grammar and expands <start> three times.  A   *)
(* file is the sequence of its tokens; a random number is any number that  *)
(* getRandomInteger can return.                                            *)
(***************************************************************************)
EXTENDS Integers, Sequences, FiniteSets, FiniteSetsExt

CONSTANTS
    GrammarFiles,   \* what the user may name: sequences of tokens
    Marked,         \* the tokens with a "<" in them
    MaxWords,       \* bound: the length of a version
    NULL

Start == "<start>"

\* readGrammar is written for properly formatted files: a brace opens a definition, a
\* nonterminal and productions follow, and the next brace closes it behind one of them.
ASSUME GrammarAssumption ==
    /\ IsFiniteSet(Marked) /\ Start \in Marked
    /\ \A f \in GrammarFiles :
          /\ f \in Seq({f[k] : k \in DOMAIN f})
          /\ \A open \in DOMAIN f : f[open] = "{" =>
                /\ f[open + 1] # ";"
                /\ \E close \in (open + 2) .. Len(f) :
                      /\ f[close] = "}"
                      /\ close = open + 2 \/ f[close - 1] = ";"
                      /\ \A k \in (open + 1) .. (close - 1) : f[k] \notin {"{", "}"}

VARIABLES
    pc,          \* "text", "body", "expand", "end", "abort"
    file,        \* the file, and
    infile,      \* the rest of it
    grammar,     \* nonterminal -> its possible expansions
    def,         \* the Definition that is being read
    phrases,     \* the Production that is being read
    final_vec,
    versions     \* what has been printed

vars == <<pc, file, infile, grammar, def, phrases, final_vec, versions>>

Init ==
    /\ pc = "text"
    /\ file \in GrammarFiles
    /\ infile = file
    /\ grammar = << >>
    /\ def = NULL
    /\ phrases = <<>> /\ final_vec = <<>> /\ versions = <<>>

-----------------------------------------------------------------------------
(***************************************************************************)
(* readGrammar and the constructors of Definition and Production           *)
(***************************************************************************)
Braces == {k \in DOMAIN infile : infile[k] = "{"}

\* Text before a brace is skipped; the nonterminal is the token behind it.
OpenDefinition ==
    /\ pc = "text" /\ Braces # {}
    /\ def' = [nonterminal |-> infile[Min(Braces) + 1], possibleExpansions |-> <<>>]
    /\ infile' = SubSeq(infile, Min(Braces) + 2, Len(infile))
    /\ pc' = "body"
    /\ UNCHANGED <<file, grammar, phrases, final_vec, versions>>

\* A brace ends the definition only where a production might begin.
AtEnd == phrases = <<>> /\ Head(infile) = "}"

ReadPhrase ==
    /\ pc = "body" /\ ~AtEnd
    /\ phrases' = IF Head(infile) = ";" THEN <<>> ELSE Append(phrases, Head(infile))
    /\ def' = IF Head(infile) = ";" THEN [def EXCEPT !.possibleExpansions = Append(@, phrases)]
              ELSE def
    /\ infile' = Tail(infile)
    /\ UNCHANGED <<pc, file, grammar, final_vec, versions>>

\* Faulty: map::insert, which keeps an older definition.
Inserted == [n \in DOMAIN grammar \cup {def.nonterminal} |->
               IF n \in DOMAIN grammar THEN grammar[n] ELSE def.possibleExpansions]

Assigned == [n \in DOMAIN grammar \cup {def.nonterminal} |->
               IF n = def.nonterminal THEN def.possibleExpansions ELSE grammar[n]]

CloseDefinition ==
    /\ pc = "body" /\ AtEnd
    /\ grammar' = Assigned
    /\ def' = NULL
    /\ infile' = Tail(infile)
    /\ pc' = "text"
    /\ UNCHANGED <<file, phrases, final_vec, versions>>

\* The grammar is read, the first version begins.
EndOfFile ==
    /\ pc = "text" /\ Braces = {}
    /\ infile' = <<>>
    /\ final_vec' = <<Start>>
    /\ pc' = "expand"
    /\ UNCHANGED <<file, grammar, def, phrases, versions>>

-----------------------------------------------------------------------------
(***************************************************************************)
(* replace_nonterms, one call at a time                                    *)
(***************************************************************************)
Nonterms == {k \in DOMAIN final_vec : final_vec[k] \in Marked}

\* Reading a map with [] makes an entry for a key that has none.
Expansions(nonterm) == IF nonterm \in DOMAIN grammar THEN grammar[nonterm] ELSE <<>>

\* Faulty: inserts every word at the index of the nonterminal.
ReplacedBackwards(index, words) ==
    SubSeq(final_vec, 1, index - 1)
        \o [k \in DOMAIN words |-> words[Len(words) + 1 - k]]
        \o SubSeq(final_vec, index + 1, Len(final_vec))

Replaced(index, words) ==
    SubSeq(final_vec, 1, index - 1) \o words \o SubSeq(final_vec, index + 1, Len(final_vec))

Replace ==
    LET index   == Min(Nonterms)
        nonterm == final_vec[index]
    IN  /\ pc = "expand" /\ Nonterms # {}
        /\ Len(final_vec) <= MaxWords
        /\ \E random \in DOMAIN Expansions(nonterm) :
              final_vec' = Replaced(index, Expansions(nonterm)[random])
        /\ UNCHANGED <<pc, file, infile, grammar, def, phrases, versions>>

\* getRandomInteger is asked for a number from 0 to -1 and its assertion fails.
Abort ==
    LET nonterm == final_vec[Min(Nonterms)]
    IN  /\ pc = "expand" /\ Nonterms # {}
        /\ Expansions(nonterm) = <<>>
        /\ grammar' = [n \in DOMAIN grammar \cup {nonterm} |-> Expansions(n)]
        /\ pc' = "abort"
        /\ UNCHANGED <<file, infile, def, phrases, final_vec, versions>>

\* display_text, and the next turn of the loop in main.
Display ==
    /\ pc = "expand" /\ Nonterms = {}
    /\ versions' = Append(versions, final_vec)
    /\ final_vec' = IF Len(versions') < 3 THEN <<Start>> ELSE <<>>
    /\ pc' = IF Len(versions') < 3 THEN "expand" ELSE "end"
    /\ UNCHANGED <<file, infile, grammar, def, phrases>>

\* A version of more than MaxWords words is not followed further.
Finished ==
    /\ pc \in {"end", "abort"} \/ Len(final_vec) > MaxWords
    /\ UNCHANGED vars

Next ==
    \/ OpenDefinition \/ ReadPhrase \/ CloseDefinition \/ EndOfFile
    \/ Replace \/ Abort \/ Display \/ Finished

Spec == Init /\ [][Next]_vars

-----------------------------------------------------------------------------
(***************************************************************************)
(* Properties.  What the file defines is stated here by positions in it.   *)
(***************************************************************************)
Definitions(nonterm) ==
    {k \in 1 .. (Len(file) - 1) : file[k] = "{" /\ file[k + 1] = nonterm}

\* The productions of the last definition.
Productions(nonterm) ==
    LET first == Max(Definitions(nonterm)) + 1
        last  == Min({k \in first .. Len(file) : file[k] = "}" /\ file[k - 1] \in {";", nonterm}})
        ends  == {k \in first .. last : file[k] = ";"}
        Begin(k) == Max({first} \cup {j \in ends : j < k})
    IN  IF Definitions(nonterm) = {} THEN {}
        ELSE {SubSeq(file, Begin(k) + 1, k - 1) : k \in ends}

\* The sentences that a sequence of tokens can become when every nonterminal in it
\* becomes one of the sentences that Of gives for it.
Sentences(words, Of) ==
    LET upTo[n \in 0 .. Len(words)] ==
          IF n = 0 THEN {<<>>}
          ELSE {s \o t : s \in upTo[n - 1],
                         t \in IF words[n] \in Marked THEN Of[words[n]] ELSE {<<words[n]>>}}
    IN  upTo[Len(words)]

\* The sentences of each nonterminal, with so many levels of nesting.
Language(depth) ==
    LET level[n \in 0 .. depth] ==
          IF n = 0 THEN [m \in Marked |-> {}]
          ELSE LET below == level[n - 1]
               IN  [m \in Marked |-> UNION {Sentences(p, below) : p \in Productions(m)}]
    IN  level[depth]

\* Every version is a sentence of the grammar: the last definition of a nonterminal
\* counts, words stay in the order of their production, nothing is left unexpanded.
VersionsAreSentences ==
    versions # <<>> =>
        LET sentences == Language(MaxWords)[Start]
        IN  \A k \in DOMAIN versions : versions[k] \in sentences

\* The marked tokens that can come up while <start> is expanded.
Used ==
    LET upTo[n \in 0 .. Cardinality(Marked)] ==
          IF n = 0 THEN {Start}
          ELSE LET known == upTo[n - 1]
               IN  known \cup {m \in Marked : \E p \in UNION {Productions(u) : u \in known} :
                                                 \E k \in DOMAIN p : p[k] = m}
    IN  upTo[Cardinality(Marked)]

\* The assertion in getRandomInteger fails only for a grammar with a nonterminal, or a
\* token that looks like one because a comma sticks to it, that the last definition
\* leaves without a production.
NeverAbortsWhenComplete ==
    (\A m \in Used : Productions(m) # {}) => pc # "abort"
=============================================================================
